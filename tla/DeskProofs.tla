------------------------------ MODULE DeskProofs ------------------------------
(***************************************************************************)
(* Theorems about TradingDesk for every number of runs, monitors,          *)
(* reconciles and stocks, every price, limit and bound, and every set of   *)
(* events a day may bring.                                                 *)
(*                                                                         *)
(* DeskInv, near the end, is the inductive invariant.  Its parts build on  *)
(* one another, and each has a section with its Init and its Step lemma:   *)
(*   DeskTypes        the types, finer than DeskTypeOK                     *)
(*   OrdersFit        how far an order has come: what is pending, filled   *)
(*                    and booked belongs together                          *)
(*   TakesTurns       without the overlap events one actor is active       *)
(*   NothingOversold  open sales at the broker are of shares it holds      *)
(*   EntriesPriced    only a reconcile enters a price that is no price     *)
(*   ReconcilersRead  a reconcile compares with the ledger as it is        *)
(*   ActOnTheBook     one at a time, what an actor is about to do rests on *)
(*                    the ledger as it is, so the ledger stays sound       *)
(*   BookIsComplete   with no rows lost the ledger says what the rows of   *)
(*                    the orders say, and those what was filled            *)
(*   Restored         what a reconcile still owes the ledger makes it      *)
(*                    equal to the broker                                  *)
(*   LimitsKept       a purchase that is out keeps the limits when filled  *)
(*   AveragesPaid     the cost of a position is that of prices paid        *)
(*                                                                         *)
(* What is held is a sum over the orders of a stock; HeldOf says it of any *)
(* orders, before or after a step, and HeldOfChange what one order that    *)
(* moves does to it.                                                       *)
(***************************************************************************)
EXTENDS TradingDesk, LedgerProofs
-----------------------------------------------------------------------------
\* Who may have written an entry; entries; what actors have read; the events of a
\* day; the rows of an order.
Bys == ({"opening"} \cup Actors) \X Stocks
EntryRecords == [by : Bys, stock : Stocks, delta : Int, price : Nat]
Readings == [Stocks -> [qty : Int, cost : Int]]
DayEvents == {"overlap", "reconcile_overlap", "late_fill", "no_rows", "empty_positions"}
BookRows == {NoRows, Submitted("REJECTED"), Submitted("ACCEPTED")}
              \cup {Booked(r, f) : r \in Requests, f \in Fills}

\* the stages of each role
StageType ==
  /\ at \in [Actors -> {"idle", "choosing", "deciding", "ordered", "done",
                        "inspecting", "exiting", "comparing", "adjusting"}]
  /\ \A a \in Pipelines : at[a] \in {"idle", "choosing", "deciding", "ordered", "done"}
  /\ \A m \in Monitors : at[m] \in {"idle", "inspecting", "exiting", "ordered", "done"}
  /\ \A r \in Reconcilers : at[r] \in {"idle", "comparing", "adjusting", "done"}

\* the types of all the state
DeskTypes ==
  /\ request \in [Calls -> Requests \cup {NoRequest}]
  /\ broker \in [Calls -> BrokerOrders]
  /\ db \in [Calls -> BookRows]
  /\ day \in [opening : [Stocks -> Nat], events : SUBSET DayEvents]
  /\ journal \in Ledgers(Bys, Stocks)
  /\ StageType
  /\ stock \in [Runs -> Stocks]
  /\ todo \in [Actors -> SUBSET Stocks]
  /\ breached \in [Monitors -> SUBSET Stocks]
  /\ view \in [Actors -> Readings]
  /\ since \in [Calls -> SUBSET Bys]
  /\ reconciled \in BOOLEAN

\* the order of call c is under way for its run
Pending(c) == at[c[1]] = "ordered" /\ stock[c[1]] = c[2]
-----------------------------------------------------------------------------
(* The steps, in the words of this module. *)

\* What the constants are to each other.
LEMMA Values ==
  /\ Calls = Runs \X Stocks
  /\ \A c \in Calls : c[1] \in Runs /\ c[2] \in Stocks /\ c = <<c[1], c[2]>>
  /\ \A a \in Runs, s \in Stocks : <<a, s>> \in Calls /\ <<a, s>>[1] = a /\ <<a, s>>[2] = s
  /\ Runs \subseteq Actors /\ Pipelines \subseteq Runs /\ Monitors \subseteq Runs
  /\ Reconcilers \subseteq Actors
  BY DeskAssumption DEF Runs, Actors

\* An entry of the journal
LEMMA EntryType ==
  ASSUME NEW b \in Bys, NEW s \in Stocks, NEW n \in Int, NEW p \in Nat
  PROVE  Entry(b, s, n, p) \in EntryRecords
  BY DEF Entry, EntryRecords

\* A run asks for an order.
LEMMA SendStep ==
  ASSUME NEW a \in Runs, NEW s \in Stocks, NEW side, NEW q, NEW p, DeskTypes,
         Send(a, s, side, q, p)
  PROVE  /\ request[<<a, s>>] = NoRequest
         /\ \E r \in Requests :
              /\ r.side = side /\ r.qty = q /\ r.price = p
              /\ request' = [request EXCEPT ![<<a, s>>] = r]
         /\ at' = [at EXCEPT ![a] = "ordered"]
         /\ UNCHANGED <<broker, db>>
<1> DEFINE c == <<a, s>>
<1>1. c \in Calls
  BY Values
<1>2. /\ Orders!Ask(c) /\ at' = [at EXCEPT ![a] = "ordered"]
      /\ request'[c] = [stock |-> s, side |-> side, qty |-> q, price |-> p, broker |-> "kis"]
  BY DEF Send
<1>3. PICK r \in Orders!Requests : request' = [request EXCEPT ![c] = r]
  BY <1>2 DEF Orders!Ask
<1>4. request[c] = NoRequest /\ UNCHANGED <<broker, db>>
  BY <1>2 DEF Orders!Ask
<1>5. r \in Requests
  BY DEF Orders!Requests, Orders!Sides, Requests, Sides
<1>6. request'[c] = r
  <2> HIDE DEF c
  <2> QED BY <1>3, <1>1 DEF DeskTypes
<1>7. r.side = side /\ r.qty = q /\ r.price = p
  BY <1>2, <1>6
<1> QED BY <1>2, <1>3, <1>4, <1>5, <1>7

\* The broker moves.
LEMMA BrokerStep ==
  ASSUME NEW c \in Calls, DeskTypes, Orders!BrokerMoves(c)
  PROVE  /\ request[c] \in Requests /\ UNCHANGED <<request, db>>
         /\ broker'[c] \in BrokerOrders /\ broker' = [broker EXCEPT ![c] = broker'[c]]
         /\ broker'[c].filled \in broker[c].filled .. request[c].qty
         /\ broker'[c].state = "rejected" => broker'[c].filled = 0
         /\ \/ broker[c].state = "none" /\ broker'[c].state \in {"rejected", "open", "closed"}
            \/ broker[c].state = "open" /\ broker'[c].state \in {"open", "closed"}
<1>1. PICK b \in Orders!BrokerOrders :
       /\ <<broker[c].state, b.state>> \in
            {<<"none", "rejected">>, <<"none", "open">>, <<"none", "closed">>,
             <<"open", "open">>, <<"open", "closed">>}
       /\ b.filled \in broker[c].filled .. request[c].qty
       /\ b.state = "rejected" => b.filled = 0
       /\ broker' = [broker EXCEPT ![c] = b]
  BY DEF Orders!BrokerMoves
<1>2. request[c] # NoRequest /\ UNCHANGED <<request, db>>
  BY DEF Orders!BrokerMoves
<1>3. b \in BrokerOrders
  BY DEF Orders!BrokerOrders, BrokerOrders
<1>4. broker'[c] = b /\ request[c] \in Requests
  BY <1>1, <1>2 DEF DeskTypes
<1>5. \/ broker[c].state = "none" /\ b.state \in {"rejected", "open", "closed"}
      \/ broker[c].state = "open" /\ b.state \in {"open", "closed"}
  BY <1>1
<1> QED BY <1>1, <1>2, <1>3, <1>4, <1>5

\* The rows of a fill, and of an order without one
LEMMA RowFacts ==
  /\ NoRows.pos = <<>> /\ NoRows.execs = <<>>
  /\ \A t : /\ Submitted(t).pos = <<>> /\ Submitted(t).execs = <<>>
            /\ t # "NONE" => Submitted(t) # NoRows
  /\ \A r, f : /\ Booked(r, f).pos = <<PositionEntry(r.side, f)>> /\ Booked(r, f).pos # <<>>
               /\ Booked(r, f).pos[1].delta = QtyDelta(r.side, f)
               /\ Booked(r, f).pos[1].price = f.price
               /\ Booked(r, f).execs # <<>> /\ Booked(r, f).execs[1].qty = f.qty
               /\ Booked(r, f) # NoRows
<1>1. NoRows.pos = <<>> /\ NoRows.execs = <<>> /\ NoRows.status = "NONE"
  BY DEF NoRows, Rows
<1>2. ASSUME NEW t
      PROVE  /\ Submitted(t).pos = <<>> /\ Submitted(t).execs = <<>>
             /\ t # "NONE" => Submitted(t) # NoRows
  <2>1. Submitted(t).pos = <<>> /\ Submitted(t).execs = <<>> /\ Submitted(t).status = t
    BY DEF Submitted, Rows
  <2> QED BY <2>1, <1>1
<1>3. ASSUME NEW r, NEW f
      PROVE  /\ Booked(r, f).pos = <<PositionEntry(r.side, f)>> /\ Booked(r, f).pos # <<>>
             /\ Booked(r, f).pos[1].delta = QtyDelta(r.side, f)
             /\ Booked(r, f).pos[1].price = f.price
             /\ Booked(r, f).execs # <<>> /\ Booked(r, f).execs[1].qty = f.qty
             /\ Booked(r, f) # NoRows
  <2>1. /\ Booked(r, f).pos = <<PositionEntry(r.side, f)>>
        /\ Booked(r, f).execs = <<Execution(f)>>
    BY DEF Booked, Rows
  <2>2. /\ PositionEntry(r.side, f).delta = QtyDelta(r.side, f)
        /\ PositionEntry(r.side, f).price = f.price /\ Execution(f).qty = f.qty
    BY DEF PositionEntry, Execution
  <2>3. \A x : <<x>> # <<>> /\ <<x>>[1] = x
    OBVIOUS
  <2> QED BY <2>1, <2>2, <2>3, <1>1
<1> QED BY <1>1, <1>2, <1>3

\* What Book does, with the fill and the place it names
BooksNothing(c) ==
  /\ db' \in {[db EXCEPT ![c] = Submitted("REJECTED")], [db EXCEPT ![c] = Submitted("ACCEPTED")]}
  /\ ~(broker[c].state = "closed" /\ "late_fill" \notin day.events)
  /\ journal' = journal

\* ... or it books fill f, and the entry goes to position i of the journal.
BooksFill(c, f, i) ==
  /\ f.qty <= broker[c].filled
  /\ broker[c].state = "closed" /\ "late_fill" \notin day.events => f.qty = broker[c].filled
  /\ db' = [db EXCEPT ![c] = Booked(request[c], f)]
  /\ \A j \in 1 .. Len(journal) : journal[j].by \in since[c] => j < i
  /\ journal' = InsertAt(journal, i, Entry(c, c[2], QtyDelta(request[c].side, f), f.price))

\* Book is one of the two.
LEMMA BookStep ==
  ASSUME NEW a \in Runs, DeskTypes, Book(a), NEW c, c = <<a, stock[a]>>
  PROVE  /\ c \in Calls /\ request[c] \in Requests /\ db[c] = NoRows
         /\ at[a] = "ordered" /\ broker[c].state # "none"
         /\ \/ BooksNothing(c)
            \/ \E f \in Fills, i \in 1 .. Len(journal) + 1 :
                 broker[c].state \in {"open", "closed"} /\ BooksFill(c, f, i)
<1>1. c \in Calls
  BY Values DEF DeskTypes
<1>2. /\ at[a] = "ordered" /\ broker[c].state # "none" /\ Orders!Book(c)
      /\ broker[c].state = "closed" /\ "late_fill" \notin day.events =>
           db'[c].execs # <<>> /\ db'[c].execs[1].qty = broker[c].filled
      /\ IF db'[c].pos = <<>> THEN UNCHANGED journal ELSE journal' \in Stamped(c, journal)
  BY DEF Book
<1>3. request[c] # NoRequest /\ db[c] = NoRows
  BY <1>2 DEF Orders!Book, Orders!NoRows, Orders!Rows, NoRows, Rows
<1>4. request[c] \in Requests
  BY <1>1, <1>3 DEF DeskTypes
<1>5. \/ /\ broker[c].state = "rejected"
         /\ db' = [db EXCEPT ![c] = Submitted("REJECTED")]
      \/ db' = [db EXCEPT ![c] = Submitted("ACCEPTED")]
      \/ /\ broker[c].state \in {"open", "closed"}
         /\ \E f \in Fills : /\ f.qty <= broker[c].filled
                             /\ db' = [db EXCEPT ![c] = Booked(request[c], f)]
  <2>1. /\ \A t : Orders!Submitted(t) = Submitted(t)
        /\ Orders!Fills = Fills
        /\ \A r, f : Orders!Booked(r, f) = Booked(r, f)
    BY DEF Orders!Submitted, Orders!Rows, Submitted, Rows, Orders!Fills, Fills,
           Orders!Booked, Booked, Orders!FillStatus, FillStatus, Orders!Execution, Execution,
           Orders!CashChange, CashChange, Orders!PositionEntry, PositionEntry,
           Orders!QtyDelta, QtyDelta
  <2> QED BY <1>2, <2>1 DEF Orders!Book
<1>6. ASSUME NEW t \in {"REJECTED", "ACCEPTED"}, db' = [db EXCEPT ![c] = Submitted(t)]
      PROVE  BooksNothing(c)
  <2>1. db'[c] = Submitted(t)
    BY <1>1, <1>6 DEF DeskTypes
  <2> QED BY <2>1, <1>2, <1>6, RowFacts DEF BooksNothing
<1>7. ASSUME NEW f \in Fills, f.qty <= broker[c].filled,
             db' = [db EXCEPT ![c] = Booked(request[c], f)]
      PROVE  \E i \in 1 .. Len(journal) + 1 : BooksFill(c, f, i)
  <2>1. db'[c] = Booked(request[c], f)
    BY <1>1, <1>7 DEF DeskTypes
  <2>2. journal' \in Stamped(c, journal)
    BY <2>1, <1>2, RowFacts
  <2>3. PICK i \in 1 .. Len(journal) + 1 :
          /\ \A j \in 1 .. Len(journal) : journal[j].by \in since[c] => j < i
          /\ journal' = InsertAt(journal, i,
                          Entry(c, c[2], db'[c].pos[1].delta, db'[c].pos[1].price))
    BY <2>2 DEF Stamped
  <2>4. /\ db'[c].pos[1].delta = QtyDelta(request[c].side, f)
        /\ db'[c].pos[1].price = f.price /\ db'[c].execs[1].qty = f.qty
    BY <2>1, RowFacts
  <2> QED BY <2>3, <2>4, <1>2, <1>7 DEF BooksFill
<1> QED BY <1>1, <1>2, <1>3, <1>4, <1>5, <1>6, <1>7

\* Any order of the members of a finite set names each of them once.
LEMMA OrderOfSet ==
  ASSUME NEW T, IsFiniteSet(T), NEW f \in SetToSeqs(T)
  PROVE  /\ f \in Seq(T) /\ \A x \in T : \E i \in 1 .. Len(f) : f[i] = x
         /\ \A i, j \in 1 .. Len(f) : i # j => f[i] # f[j]
<1> DEFINE n == Cardinality(T)
           D == 1 .. n
           Im == {f[i] : i \in D}
<1>1. n \in Nat /\ f \in [D -> T] /\ \A i, j \in D : i # j => f[i] # f[j]
  BY FS_CardinalityType DEF SetToSeqs
<1>2. f \in Seq(T) /\ Len(f) = n
  BY <1>1
<1>3. IsFiniteSet(D) /\ Cardinality(D) = n
  BY <1>1, FS_Interval
<1>4. Im \subseteq T /\ f \in Surjection(D, Im) /\ f \in Injection(D, Im)
  <2>1. f \in [D -> Im]
    BY <1>1
  <2> HIDE DEF D
  <2> QED BY <1>1, <2>1 DEF Surjection, Injection, IsInjective
<1>5. Cardinality(Im) = n
  <2>1. f \in Bijection(D, Im)
    BY <1>4 DEF Bijection
  <2>2. ExistsBijection(D, Im)
    BY <2>1 DEF ExistsBijection
  <2> HIDE DEF D, Im
  <2> QED BY <2>2, <1>3, FS_Bijection
<1>6. Im = T
  <2> HIDE DEF Im
  <2> QED BY <1>4, <1>5, FS_Subset
<1> QED BY <1>1, <1>2, <1>6

\* The day begins with one entry for every stock held.
Opens(p) ==
  \A s \in Stocks :
    /\ day.opening[s] = 0 => \A i \in 1 .. Len(journal) : journal[i].stock # s
    /\ day.opening[s] > 0 =>
         \E i \in 1 .. Len(journal) :
           /\ journal[i] = Entry(<<"opening", s>>, s, day.opening[s], p[s])
           /\ \A j \in 1 .. Len(journal) : j # i => journal[j].stock # s

\* The journal of a new day: one entry for each stock that is held.
LEMMA OpeningJournal ==
  ASSUME Init
  PROVE  /\ journal \in Ledgers(Bys, Stocks)
         /\ \A i \in 1 .. Len(journal) : journal[i].price \in Prices
         /\ \E p \in [Stocks -> Prices] : Opens(p)
<1>1. /\ day \in [opening : [Stocks -> 0 .. Opening], events : Scenarios]
      /\ IsFiniteSet(Stocks) /\ Opening \in Nat /\ Prices \subseteq Nat
  BY DeskAssumption, BookAssumption DEF Init
<1> DEFINE Open == {s \in Stocks : day.opening[s] > 0}
           E(p) == {Entry(<<"opening", s>>, s, day.opening[s], p[s]) : s \in Open}
<1>2. PICK p \in [Stocks -> Prices] : journal \in SetToSeqs(E(p))
  BY DEF Init
<1>3. IsFiniteSet(E(p))
  <2>1. IsFiniteSet(Open)
    BY <1>1, FS_Subset
  <2> DEFINE g == [s \in Open |-> Entry(<<"opening", s>>, s, day.opening[s], p[s])]
  <2>2. g \in Surjection(Open, E(p))
    BY DEF Surjection
  <2> HIDE DEF g, Open
  <2> QED BY <2>1, <2>2, FS_Surjection
<1>4. \A e \in E(p) :
        /\ e.stock \in Open /\ e = Entry(<<"opening", e.stock>>, e.stock,
                                         day.opening[e.stock], p[e.stock])
        /\ e \in EntryRecords /\ e.price \in Prices
  <2> SUFFICES ASSUME NEW s \in Open, NEW e,
                      e = Entry(<<"opening", s>>, s, day.opening[s], p[s])
               PROVE  e.stock = s /\ e \in EntryRecords /\ e.price \in Prices
    OBVIOUS
  <2>1. e.stock = s /\ e.price = p[s] /\ p[s] \in Prices
    BY DEF Entry
  <2>2. <<"opening", s>> \in Bys
    BY DEF Bys
  <2>3. day.opening[s] \in Int
    <3>1. day.opening \in [Stocks -> 0 .. Opening] /\ s \in Stocks
      BY <1>1
    <3> QED BY <3>1, <1>1
  <2>4. p[s] \in Nat
    BY <1>1, <2>1
  <2> QED BY <2>1, <2>2, <2>3, <2>4, EntryType
<1>5. /\ journal \in Seq(E(p)) /\ \A x \in E(p) : \E i \in 1 .. Len(journal) : journal[i] = x
      /\ \A i, j \in 1 .. Len(journal) : i # j => journal[i] # journal[j]
  <2> HIDE DEF E
  <2> QED BY <1>2, <1>3, OrderOfSet
<1>6. \A i \in 1 .. Len(journal) : journal[i] \in E(p)
  <2> HIDE DEF E
  <2> QED BY <1>5
<1>7. journal \in Seq(EntryRecords)
  <2>1. E(p) \subseteq EntryRecords
    BY <1>4
  <2> HIDE DEF E
  <2> QED BY <1>5, <2>1
<1>8. Opens(p)
  <2> SUFFICES ASSUME NEW s \in Stocks
               PROVE
    /\ day.opening[s] = 0 => \A i \in 1 .. Len(journal) : journal[i].stock # s
    /\ day.opening[s] > 0 =>
         \E i \in 1 .. Len(journal) :
           /\ journal[i] = Entry(<<"opening", s>>, s, day.opening[s], p[s])
           /\ \A j \in 1 .. Len(journal) : j # i => journal[j].stock # s
    BY DEF Opens
  <2>1. \A i \in 1 .. Len(journal) : journal[i].stock = s =>
          s \in Open /\ journal[i] = Entry(<<"opening", s>>, s, day.opening[s], p[s])
    <3> HIDE DEF E, Open
    <3> QED BY <1>4, <1>6
  <2>2. CASE day.opening[s] = 0
    BY <2>1, <2>2
  <2>3. CASE day.opening[s] > 0
    <3>1. Entry(<<"opening", s>>, s, day.opening[s], p[s]) \in E(p)
      BY <2>3
    <3>2. PICK i \in 1 .. Len(journal) :
                journal[i] = Entry(<<"opening", s>>, s, day.opening[s], p[s])
      <4> HIDE DEF E, Open
      <4> QED BY <3>1, <1>5
    <3>3. \A j \in 1 .. Len(journal) : j # i => journal[j].stock # s
      <4> HIDE DEF E, Open
      <4> QED BY <3>2, <2>1, <1>5
    <3> QED BY <3>2, <3>3, <2>3
  <2> QED BY <2>2, <2>3, <1>1
<1> QED BY <1>4, <1>6, <1>7, <1>8 DEF Ledgers, EntryRecords
-----------------------------------------------------------------------------
(* Types. *)

\* A day begins with the right types.
LEMMA TypesInit ==
  ASSUME Init
  PROVE  DeskTypes
<1>1. /\ request = [c \in Calls |-> NoRequest]
      /\ broker = [c \in Calls |-> [state |-> "none", filled |-> 0]]
      /\ db = [c \in Calls |-> NoRows]
  BY DEF Init, Orders!Init, Orders!NoRows, Orders!Rows, NoRows, Rows
<1>2. request \in [Calls -> Requests \cup {NoRequest}] /\ db \in [Calls -> BookRows]
  BY <1>1 DEF BookRows
<1>3. broker \in [Calls -> BrokerOrders]
  BY <1>1, BookAssumption DEF BrokerOrders
<1>4. day \in [opening : [Stocks -> Nat], events : SUBSET DayEvents]
  <2>1. /\ day \in [opening : [Stocks -> 0 .. Opening], events : Scenarios]
        /\ \A e \in Scenarios : e \subseteq DayEvents
    BY DeskAssumption DEF Init, DayEvents
  <2>2. day.opening \in [Stocks -> Nat] /\ day.events \in SUBSET DayEvents
    BY <2>1
  <2> QED BY <2>1, <2>2
<1>5. view \in [Actors -> Readings] /\ reconciled \in BOOLEAN
  <2>1. Unread \in Readings
    BY DEF Unread, Readings
  <2> QED BY <2>1 DEF Init
<1>6. /\ at \in [Actors -> {"idle"}] /\ stock \in [Runs -> Stocks]
      /\ todo \in [Actors -> SUBSET Stocks] /\ breached \in [Monitors -> SUBSET Stocks]
      /\ since \in [Calls -> SUBSET Bys]
  BY DEF Init
<1>7. Pipelines \subseteq Actors /\ Monitors \subseteq Actors /\ Reconcilers \subseteq Actors
  BY Values
<1>8. \A a \in Actors : at[a] = "idle"
  BY <1>6
<1>9. journal \in Ledgers(Bys, Stocks)
  BY OpeningJournal
<1> QED BY <1>2, <1>3, <1>4, <1>5, <1>6, <1>7, <1>8, <1>9 DEF DeskTypes, StageType

\* What an actor does to its own stage
Stages(a) ==
  IF a \in Pipelines THEN {"idle", "choosing", "deciding", "ordered", "done"}
  ELSE IF a \in Monitors THEN {"idle", "inspecting", "exiting", "ordered", "done"}
  ELSE {"idle", "comparing", "adjusting", "done"}

\* An actor goes to a stage of its role.
LEMMA StageStep ==
  ASSUME StageType, NEW a \in Actors, NEW x \in Stages(a), at' = [at EXCEPT ![a] = x]
  PROVE  StageType'
<1>1. /\ Pipelines \subseteq Actors /\ Monitors \subseteq Actors /\ Reconcilers \subseteq Actors
      /\ Pipelines \cap Monitors = {} /\ (Pipelines \cup Monitors) \cap Reconcilers = {}
  BY Values, DeskAssumption DEF Runs
<1>2. \A b \in Actors : at'[b] = IF b = a THEN x ELSE at[b]
  BY DEF StageType
<1>3. at' \in [Actors -> {"idle", "choosing", "deciding", "ordered", "done",
                        "inspecting", "exiting", "comparing", "adjusting"}]
  BY DEF StageType, Stages
<1>4. a \in Pipelines => x \in {"idle", "choosing", "deciding", "ordered", "done"}
  BY DEF Stages
<1>5. a \in Monitors => x \in {"idle", "inspecting", "exiting", "ordered", "done"}
  BY <1>1 DEF Stages
<1>6. a \in Reconcilers => x \in {"idle", "comparing", "adjusting", "done"}
  BY <1>1 DEF Stages
<1> QED BY <1>1, <1>2, <1>3, <1>4, <1>5, <1>6 DEF StageType

\* A run goes on.
LEMMA OnwardStep ==
  ASSUME NEW a \in Runs, Onward(a)
  PROVE  \E x \in Stages(a) \ {"ordered", "idle", "deciding", "inspecting"} :
           /\ at' = [at EXCEPT ![a] = x]
           /\ x = "done" <=> IF a \in Pipelines THEN todo[a] = {} ELSE breached[a] = {}
<1>1. a \in Pipelines \/ (a \notin Pipelines /\ a \in Monitors)
  BY DEF Runs
<1> QED BY <1>1 DEF Onward, Stages

\* The entry of a booked fill
LEMMA FillEntry ==
  ASSUME NEW c \in Calls, NEW r \in Requests, NEW f \in Fills
  PROVE  /\ Entry(c, c[2], QtyDelta(r.side, f), f.price) \in EntryRecords
         /\ QtyDelta(r.side, f) \in Int /\ f.price \in Prices /\ f.price \in Nat
         /\ f.qty \in 1 .. MaxQty
<1>1. f.qty \in 1 .. MaxQty /\ f.price \in Prices /\ MaxQty \in Nat /\ Prices \subseteq Nat
  BY BookAssumption DEF Fills
<1>2. QtyDelta(r.side, f) \in Int
  BY <1>1 DEF QtyDelta
<1>3. c \in Bys /\ c[2] \in Stocks
  BY Values DEF Bys
<1> QED BY <1>1, <1>2, <1>3, EntryType

\* A booked order leaves rows and an entry of the right types.
LEMMA BookTypes ==
  ASSUME NEW a \in Runs, DeskTypes, Book(a)
  PROVE  /\ journal' \in Ledgers(Bys, Stocks)
         /\ db' \in [Calls -> BookRows]
<1> DEFINE c == <<a, stock[a]>>
<1>1. /\ c \in Calls /\ request[c] \in Requests
      /\ \/ BooksNothing(c)
         \/ \E f \in Fills, i \in 1 .. Len(journal) + 1 : BooksFill(c, f, i)
  <2> HIDE DEF c
  <2>1. c = <<a, stock[a]>>
    BY DEF c
  <2> QED BY <2>1, BookStep
<1> HIDE DEF c
<1>2. CASE BooksNothing(c)
  BY <1>2 DEF BooksNothing, DeskTypes, BookRows
<1>3. ASSUME NEW f \in Fills, NEW i \in 1 .. Len(journal) + 1, BooksFill(c, f, i)
      PROVE  journal' \in Ledgers(Bys, Stocks) /\ db' \in [Calls -> BookRows]
  <2>1. Entry(c, c[2], QtyDelta(request[c].side, f), f.price) \in EntryRecords
    BY <1>1, FillEntry
  <2>2. journal' \in Ledgers(Bys, Stocks)
    BY <2>1, <1>3, InsertFacts DEF BooksFill, DeskTypes, EntryRecords
  <2>3. Booked(request[c], f) \in BookRows
    BY <1>1 DEF BookRows
  <2> QED BY <2>2, <2>3, <1>3 DEF BooksFill, DeskTypes
<1> QED BY <1>1, <1>2, <1>3

\* The two views of the journal
LEMMA ViewsOfJournal ==
  ASSUME DeskTypes, NEW s \in Stocks
  PROVE  Net(journal, s) \in Int /\ PositionInfo(journal, s) \in [qty : Nat, cost : Int]
  BY ViewTypes DEF DeskTypes
-----------------------------------------------------------------------------
(* The shares at the broker. *)

\* A stock has finitely many calls.
LEMMA CallsForFinite ==
  ASSUME NEW s
  PROVE  IsFiniteSet(CallsFor(s)) /\ CallsFor(s) \subseteq Calls
<1>1. IsFiniteSet(Runs \X Stocks)
  BY DeskAssumption, FS_Product
<1>2. CallsFor(s) \subseteq Runs \X Stocks /\ CallsFor(s) \subseteq Calls
  BY Values DEF CallsFor
<1> QED BY <1>1, <1>2, FS_Subset

\* What an order has moved, what it claims and what is held, as functions of
\* the orders: so that they can be spoken of before and after a step.
MovedOf(r, b) == IF r = NoRequest THEN 0 ELSE (IF r.side = "BUY" THEN 1 ELSE -1) * b.filled
ClaimedOf(r, b) ==
  IF r # NoRequest /\ r.side = "SELL" /\ b.state = "open" THEN r.qty - b.filled ELSE 0
HeldOf(o, rq, br, s) == o[s] + SumFunction([c \in CallsFor(s) |-> MovedOf(rq[c], br[c])])
FreeOf(o, rq, br, s) ==
  HeldOf(o, rq, br, s) - SumFunction([c \in CallsFor(s) |-> ClaimedOf(rq[c], br[c])])

\* what request[c] may be
RequestSet == Requests \cup {NoRequest}

\* What an order moves and claims are whole numbers; a purchase adds, a sale takes.
LEMMA MovedType ==
  ASSUME NEW r \in RequestSet, NEW b \in BrokerOrders
  PROVE  /\ MovedOf(r, b) \in Int /\ ClaimedOf(r, b) \in Int
         /\ b.filled \in 0 .. MaxQty /\ MaxQty \in Nat
         /\ r # NoRequest =>
              /\ r.side = "BUY" => MovedOf(r, b) = b.filled
              /\ r.side = "SELL" => MovedOf(r, b) = -b.filled
              /\ r.side \in {"BUY", "SELL"} /\ r.qty \in 1 .. MaxQty /\ r.price \in Prices
<1>1. MaxQty \in Nat /\ b.filled \in 0 .. MaxQty
  BY BookAssumption DEF BrokerOrders
<1>2. ASSUME r # NoRequest
      PROVE  r.side \in {"BUY", "SELL"} /\ r.qty \in 1 .. MaxQty /\ r.price \in Prices
  BY <1>2 DEF RequestSet, Requests, Sides
<1>3. r # NoRequest => /\ r.side = "BUY" => MovedOf(r, b) = b.filled
                       /\ r.side = "SELL" => MovedOf(r, b) = -b.filled
  BY <1>1 DEF MovedOf
<1>4. ClaimedOf(r, b) \in Int
  BY <1>1, <1>2 DEF ClaimedOf
<1>5. MovedOf(r, b) \in Int
  <2>1. CASE r = NoRequest
    BY <2>1 DEF MovedOf
  <2>2. CASE r # NoRequest
    BY <2>2, <1>1, <1>2, <1>3
  <2> QED BY <2>1, <2>2
<1> QED BY <1>1, <1>2, <1>3, <1>4, <1>5

\* So are the terms of the sums over the orders of a stock, ...
LEMMA HeldTerms ==
  ASSUME NEW rq \in [Calls -> RequestSet], NEW br \in [Calls -> BrokerOrders], NEW s
  PROVE  /\ [c \in CallsFor(s) |-> MovedOf(rq[c], br[c])] \in [CallsFor(s) -> Int]
         /\ [c \in CallsFor(s) |-> ClaimedOf(rq[c], br[c])] \in [CallsFor(s) -> Int]
<1>1. \A c \in CallsFor(s) : rq[c] \in RequestSet /\ br[c] \in BrokerOrders
  BY CallsForFinite
<1>2. \A c \in CallsFor(s) : MovedOf(rq[c], br[c]) \in Int /\ ClaimedOf(rq[c], br[c]) \in Int
  BY <1>1, MovedType
<1> QED BY <1>2

\* ... a sum of whole numbers, ...
LEMMA SumType ==
  ASSUME NEW S, IsFiniteSet(S), NEW f \in [S -> Int]
  PROVE  SumFunction(f) \in Int
<1>1. PICK g \in [SUBSET S -> Int] : SumFunction(f) = g[S]
  BY SumSolves
<1> QED BY <1>1

\* ... and with it what is held and what is free.
LEMMA HeldOfType ==
  ASSUME NEW o \in [Stocks -> Nat], NEW rq \in [Calls -> RequestSet],
         NEW br \in [Calls -> BrokerOrders], NEW s \in Stocks
  PROVE  HeldOf(o, rq, br, s) \in Int /\ FreeOf(o, rq, br, s) \in Int
<1> DEFINE f == [c \in CallsFor(s) |-> MovedOf(rq[c], br[c])]
           g == [c \in CallsFor(s) |-> ClaimedOf(rq[c], br[c])]
<1>1. f \in [CallsFor(s) -> Int] /\ g \in [CallsFor(s) -> Int]
  BY HeldTerms
<1> HIDE DEF f, g
<1>2. SumFunction(f) \in Int /\ SumFunction(g) \in Int
  BY <1>1, CallsForFinite, SumType
<1> QED BY <1>2 DEF HeldOf, FreeOf, f, g

\* What is held, and what is free, follows the one order that moves.
HeldChanges(o, rq, br, rq1, br1, x, s) ==
  LET m == MovedOf(rq1[x], br1[x]) - MovedOf(rq[x], br[x])
      k == ClaimedOf(rq1[x], br1[x]) - ClaimedOf(rq[x], br[x])
  IN  /\ HeldOf(o, rq1, br1, s) = HeldOf(o, rq, br, s) + IF x[2] = s THEN m ELSE 0
      /\ FreeOf(o, rq1, br1, s) = FreeOf(o, rq, br, s) + IF x[2] = s THEN m - k ELSE 0

\* When only order x moves, what is held and free of each stock changes by what x
\* moves and claims, if x is of that stock, and not at all otherwise.
LEMMA HeldOfChange ==
  ASSUME NEW o \in [Stocks -> Nat], NEW s \in Stocks, NEW x \in Calls,
         NEW rq \in [Calls -> RequestSet], NEW br \in [Calls -> BrokerOrders],
         NEW rq1 \in [Calls -> RequestSet], NEW br1 \in [Calls -> BrokerOrders],
         \A c \in Calls \ {x} : rq1[c] = rq[c] /\ br1[c] = br[c]
  PROVE  HeldChanges(o, rq, br, rq1, br1, x, s)
<1> DEFINE S == CallsFor(s)
           f == [c \in S |-> MovedOf(rq[c], br[c])]
           g == [c \in S |-> ClaimedOf(rq[c], br[c])]
           f1 == [c \in S |-> MovedOf(rq1[c], br1[c])]
           g1 == [c \in S |-> ClaimedOf(rq1[c], br1[c])]
<1>1. f \in [S -> Int] /\ g \in [S -> Int] /\ f1 \in [S -> Int] /\ g1 \in [S -> Int]
  BY HeldTerms
<1>2. IsFiniteSet(S) /\ (x \in S <=> x[2] = s)
  BY CallsForFinite DEF CallsFor
<1>3. /\ \A c \in S \ {x} : f1[c] = f[c] /\ g1[c] = g[c]
      /\ x \in S => /\ f[x] = MovedOf(rq[x], br[x]) /\ f1[x] = MovedOf(rq1[x], br1[x])
                    /\ g[x] = ClaimedOf(rq[x], br[x]) /\ g1[x] = ClaimedOf(rq1[x], br1[x])
  BY CallsForFinite
<1>4. /\ HeldOf(o, rq, br, s) = o[s] + SumFunction(f)
      /\ HeldOf(o, rq1, br1, s) = o[s] + SumFunction(f1)
      /\ FreeOf(o, rq, br, s) = HeldOf(o, rq, br, s) - SumFunction(g)
      /\ FreeOf(o, rq1, br1, s) = HeldOf(o, rq1, br1, s) - SumFunction(g1)
  BY DEF HeldOf, FreeOf
<1>5. /\ HeldOf(o, rq, br, s) \in Int /\ HeldOf(o, rq1, br1, s) \in Int
      /\ FreeOf(o, rq, br, s) \in Int /\ FreeOf(o, rq1, br1, s) \in Int /\ o[s] \in Int
  BY HeldOfType
<1> HIDE DEF f, g, f1, g1, S
<1>6. CASE x[2] = s
  <2>1. x \in S
    BY <1>2, <1>6
  <2>2. /\ SumFunction(f1) = SumFunction(f) + f1[x] - f[x]
        /\ SumFunction(g1) = SumFunction(g) + g1[x] - g[x]
        /\ SumFunction(f) \in Int /\ SumFunction(g) \in Int
    BY <2>1, <1>1, <1>2, <1>3, SumChange
  <2>3. f[x] \in Int /\ f1[x] \in Int /\ g[x] \in Int /\ g1[x] \in Int
    BY <2>1, <1>1
  <2> QED BY <2>1, <2>2, <2>3, <1>3, <1>4, <1>5, <1>6 DEF HeldChanges
<1>7. CASE x[2] # s
  <2>1. x \notin S
    BY <1>2, <1>7
  <2>2. f1 = f /\ g1 = g
    <3>1. \A c \in S : f1[c] = f[c] /\ g1[c] = g[c]
      BY <2>1, <1>3
    <3> QED BY <3>1, <1>1
  <2>3. /\ HeldOf(o, rq1, br1, s) = HeldOf(o, rq, br, s) + 0
        /\ FreeOf(o, rq1, br1, s) = FreeOf(o, rq, br, s) + 0
    BY <2>2, <1>4, <1>5
  <2> QED BY <2>3, <1>7 DEF HeldChanges
<1> QED BY <1>6, <1>7

\* The operators of the model, before and after a step
LEMMA HeldIs ==
  /\ \A c : /\ Moved(c) = MovedOf(request[c], broker[c])
            /\ Moved(c)' = MovedOf(request'[c], broker'[c])
            /\ Claimed(c) = ClaimedOf(request[c], broker[c])
            /\ Claimed(c)' = ClaimedOf(request'[c], broker'[c])
  /\ \A s : /\ Held(s) = HeldOf(day.opening, request, broker, s)
            /\ Held(s)' = HeldOf(day'.opening, request', broker', s)
            /\ Free(s) = FreeOf(day.opening, request, broker, s)
            /\ Free(s)' = FreeOf(day'.opening, request', broker', s)
<1>1. \A c : /\ Moved(c) = MovedOf(request[c], broker[c])
             /\ Moved(c)' = MovedOf(request'[c], broker'[c])
             /\ Claimed(c) = ClaimedOf(request[c], broker[c])
             /\ Claimed(c)' = ClaimedOf(request'[c], broker'[c])
  BY DEF Moved, Sign, MovedOf, Claimed, ClaimedOf
<1>2. \A s : /\ Held(s) = HeldOf(day.opening, request, broker, s)
             /\ Held(s)' = HeldOf(day'.opening, request', broker', s)
  BY <1>1 DEF Held, HeldOf
<1>3. \A s : /\ Free(s) = FreeOf(day.opening, request, broker, s)
             /\ Free(s)' = FreeOf(day'.opening, request', broker', s)
  BY <1>1, <1>2 DEF Free, FreeOf
<1> QED BY <1>1, <1>2, <1>3

\* What is held and free are whole numbers.
LEMMA HeldType ==
  ASSUME DeskTypes, NEW s \in Stocks
  PROVE  day.opening[s] \in Nat /\ Held(s) \in Int /\ Free(s) \in Int
<1>1. /\ day.opening \in [Stocks -> Nat] /\ request \in [Calls -> RequestSet]
      /\ broker \in [Calls -> BrokerOrders]
  BY DEF DeskTypes, RequestSet
<1> QED BY <1>1, HeldIs, HeldOfType
-----------------------------------------------------------------------------
\* A reconcile compares: what the broker has answered, or nothing.
Compares(r, answer) ==
  /\ \/ \A s \in Stocks : answer[s] = Held(s)
     \/ "empty_positions" \in day.events /\ \A s \in Stocks : answer[s] = 0
  /\ view' = [view EXCEPT ![r] = [s \in Stocks |->
                                    [qty |-> answer[s] - view[r][s].qty, cost |-> 0]]]
  /\ todo' = [todo EXCEPT ![r] = {s \in Stocks : answer[s] - view[r][s].qty # 0}]

\* That is what Compare does.
LEMMA CompareStep ==
  ASSUME NEW r, Compare(r)
  PROVE  \E answer : Compares(r, answer)
<1>1. PICK answer \in {[s \in Stocks |-> Held(s)]} \cup
                   (IF "empty_positions" \in day.events THEN {[s \in Stocks |-> 0]} ELSE {}) :
       LET diff == [s \in Stocks |-> answer[s] - view[r][s].qty] IN
       /\ view' = [view EXCEPT ![r] = [s \in Stocks |-> [qty |-> diff[s], cost |-> 0]]]
       /\ todo' = [todo EXCEPT ![r] = {s \in Stocks : diff[s] # 0}]
  BY Zenon DEF Compare
<1> DEFINE diff == [s \in Stocks |-> answer[s] - view[r][s].qty]
<1>2. /\ view' = [view EXCEPT ![r] = [s \in Stocks |-> [qty |-> diff[s], cost |-> 0]]]
      /\ todo' = [todo EXCEPT ![r] = {s \in Stocks : diff[s] # 0}]
  BY <1>1
<1>3. /\ [s \in Stocks |-> [qty |-> diff[s], cost |-> 0]]
           = [s \in Stocks |-> [qty |-> answer[s] - view[r][s].qty, cost |-> 0]]
      /\ {s \in Stocks : diff[s] # 0} = {s \in Stocks : answer[s] - view[r][s].qty # 0}
  OBVIOUS
<1>4. \/ \A s \in Stocks : answer[s] = Held(s)
      \/ "empty_positions" \in day.events /\ \A s \in Stocks : answer[s] = 0
  BY <1>1
<1> HIDE DEF diff
<1>5. Compares(r, answer)
  BY <1>2, <1>3, <1>4 DEF Compares
<1> QED BY <1>5

\* Every step keeps the types.
LEMMA TypesStep ==
  ASSUME DeskTypes, [Next]_vars
  PROVE  DeskTypes'
<1> USE DEF DeskTypes
<1>0. /\ Runs \subseteq Actors /\ Pipelines \subseteq Runs /\ Monitors \subseteq Runs
      /\ Reconcilers \subseteq Actors
      /\ Pipelines \cap Monitors = {} /\ Runs \cap Reconcilers = {}
  BY Values, DeskAssumption
<1>1. ASSUME NEW a \in Pipelines, StartPipeline(a) PROVE DeskTypes'
  <2>1. StageType'
    BY <1>0, <1>1, StageStep DEF StartPipeline, Stages
  <2> QED BY <2>1, <1>0, <1>1 DEF StartPipeline
<1>2. ASSUME NEW a \in Pipelines, NEW s \in Stocks, PassOver(a, s) PROVE DeskTypes'
  <2>1. StageType'
    BY <1>0, <1>2, StageStep DEF PassOver, Stages
  <2> QED BY <2>1, <1>0, <1>2 DEF PassOver
<1>3. ASSUME NEW a \in Pipelines, NEW s \in Stocks, ReadPosition(a, s) PROVE DeskTypes'
  <2>1. StageType'
    BY <1>0, <1>3, StageStep DEF ReadPosition, Stages
  <2>2. view' \in [Actors -> Readings]
    <3>1. PositionInfo(journal, s) \in [qty : Int, cost : Int]
      BY ViewsOfJournal
    <3> QED BY <3>1, <1>3 DEF ReadPosition, Readings
  <2> QED BY <2>1, <2>2, <1>0, <1>3 DEF ReadPosition
<1>4. ASSUME NEW a \in Runs, NEW s \in Stocks, NEW side, NEW q, NEW p, Send(a, s, side, q, p),
             UNCHANGED <<day, journal, todo, view, since, reconciled>>,
             stock' \in [Runs -> Stocks], breached' \in [Monitors -> SUBSET Stocks]
      PROVE  DeskTypes'
  <2>1. StageType'
    BY <1>0, <1>4, SendStep, StageStep DEF Stages, Runs
  <2>2. PICK r \in Requests : request' = [request EXCEPT ![<<a, s>>] = r]
    BY <1>4, SendStep
  <2>3. UNCHANGED <<broker, db>>
    BY <1>4, SendStep
  <2> QED BY <2>1, <2>2, <2>3, <1>4
<1>5. ASSUME NEW a \in Pipelines, NEW p \in Prices, Exit(a, p) PROVE DeskTypes'
  BY <1>0, <1>4, <1>5 DEF Exit
<1>6. ASSUME NEW a \in Pipelines, NEW p \in Prices, NEW k \in Cashes, NEW budget \in Budgets,
             Enter(a, p, k, budget)
      PROVE  DeskTypes'
  BY <1>0, <1>4, <1>6 DEF Enter
<1>7. ASSUME NEW a \in Pipelines, NEW p \in Prices, Hold(a, p) PROVE DeskTypes'
  <2>1. StageType'
    BY <1>0, <1>7, OnwardStep, StageStep DEF Hold
  <2> QED BY <2>1, <1>7 DEF Hold
<1>8. ASSUME NEW m \in Monitors, StartMonitor(m) PROVE DeskTypes'
  <2>1. StageType'
    BY <1>0, <1>8, StageStep DEF StartMonitor, Stages
  <2>2. view' \in [Actors -> Readings]
    <3>1. [s \in Stocks |-> [qty |-> Net(journal, s), cost |-> 0]] \in Readings
      BY ViewsOfJournal DEF Readings
    <3> QED BY <3>1, <1>8 DEF StartMonitor
  <2>3. OpenPositions(journal, Stocks) \subseteq Stocks
    BY DEF OpenPositions
  <2> QED BY <2>1, <2>2, <2>3, <1>0, <1>8 DEF StartMonitor
<1>9. ASSUME NEW m \in Monitors, NEW s \in Stocks, NEW p \in Prices, Inspect(m, s, p)
      PROVE  DeskTypes'
  BY <1>0, <1>9 DEF Inspect, StageType
<1>10. ASSUME NEW m \in Monitors, NEW s \in Stocks, NEW p \in Prices, ProtectiveExit(m, s, p)
       PROVE  DeskTypes'
  BY <1>0, <1>4, <1>10 DEF ProtectiveExit
<1>11. ASSUME NEW m \in Monitors, EndInspection(m) PROVE DeskTypes'
  <2>1. StageType'
    BY <1>0, <1>11, OnwardStep, StageStep DEF EndInspection
  <2> QED BY <2>1, <1>11 DEF EndInspection
<1>12. ASSUME NEW m \in Monitors, BreakOff(m) PROVE DeskTypes'
  <2>1. StageType'
    BY <1>0, <1>12, StageStep DEF BreakOff, Stages
  <2> QED BY <2>1, <1>12 DEF BreakOff
<1>13. ASSUME NEW r \in Reconcilers, StartReconcile(r) PROVE DeskTypes'
  <2>1. StageType'
    BY <1>0, <1>13, StageStep DEF StartReconcile, Stages, Runs
  <2>2. view' \in [Actors -> Readings]
    <3>1. [s \in Stocks |-> [qty |-> Net(journal, s), cost |-> 0]] \in Readings
      BY ViewsOfJournal DEF Readings
    <3> QED BY <3>1, <1>13 DEF StartReconcile
  <2> QED BY <2>1, <2>2, <1>0, <1>13 DEF StartReconcile
<1>14. ASSUME NEW r \in Reconcilers, Compare(r) PROVE DeskTypes'
  <2>1. StageType'
    BY <1>0, <1>14, StageStep DEF Compare, Stages, Runs
  <2>2. PICK answer : Compares(r, answer)
    BY <1>14, CompareStep
  <2>3. \A s \in Stocks : answer[s] \in Int /\ view[r][s].qty \in Int
    BY HeldType, <1>0, <2>2 DEF Readings, Compares
  <2>4. view' \in [Actors -> Readings]
    <3>1. [s \in Stocks |-> [qty |-> answer[s] - view[r][s].qty, cost |-> 0]] \in Readings
      BY <2>3 DEF Readings
    <3> QED BY <3>1, <2>2 DEF Compares
  <2> QED BY <2>1, <2>2, <2>4, <1>0, <1>14 DEF Compare, Compares
<1>15. ASSUME NEW r \in Reconcilers, NEW s \in Stocks, Adjust(r, s) PROVE DeskTypes'
  <2>1. Entry(<<r, s>>, s, view[r][s].qty, 0) \in EntryRecords
    <3>1. <<r, s>> \in Bys /\ view[r][s].qty \in Int
      BY <1>0 DEF Bys, Readings
    <3> QED BY <3>1, EntryType
  <2>2. journal' \in Ledgers(Bys, Stocks)
    BY <2>1, <1>15, AppendFacts DEF Adjust, EntryRecords
  <2> QED BY <2>2, <1>0, <1>15 DEF Adjust, StageType
<1>16. ASSUME NEW r \in Reconcilers, EndReconcile(r) PROVE DeskTypes'
  <2>1. StageType'
    BY <1>0, <1>16, StageStep DEF EndReconcile, Stages, Runs
  <2> QED BY <2>1, <1>16 DEF EndReconcile
<1>17. ASSUME NEW a \in Runs, Book(a) PROVE DeskTypes'
  <2>1. StageType'
    BY <1>0, <1>17, OnwardStep, StageStep DEF Book
  <2>2. UNCHANGED <<request, broker>>
    BY <1>17 DEF Book, Orders!Book
  <2> QED BY <2>1, <2>2, <1>17, BookTypes DEF Book
<1>18. ASSUME NEW a \in Runs, LoseRows(a) PROVE DeskTypes'
  <2>1. StageType'
    <3>1. "done" \in Stages(a)
      BY DEF Stages
    <3> QED BY <3>1, <1>0, <1>18, OnwardStep, StageStep DEF LoseRows
  <2> QED BY <2>1, <1>18 DEF LoseRows
<1>19. ASSUME NEW c \in Calls, Answer(c) PROVE DeskTypes'
  <2>1. broker' \in [Calls -> BrokerOrders] /\ UNCHANGED <<request, db>>
    BY <1>19, BrokerStep DEF Answer
  <2>2. {e.by : e \in ToSet(journal)} \subseteq Bys
    BY LedgerFacts DEF ToSet
  <2> QED BY <2>1, <2>2, <1>19 DEF Answer, StageType
<1>20. ASSUME NEW c \in Calls, FillLate(c) PROVE DeskTypes'
  <2>1. broker' \in [Calls -> BrokerOrders] /\ UNCHANGED <<request, db>>
    BY <1>20, BrokerStep DEF FillLate
  <2> QED BY <2>1, <1>20 DEF FillLate, deskVars, StageType
<1>21. CASE UNCHANGED vars
  BY <1>21 DEF vars, deskVars, StageType
<1> QED
  BY <1>1, <1>2, <1>3, <1>5, <1>6, <1>7, <1>8, <1>9, <1>10, <1>11, <1>12, <1>13, <1>14, <1>15,
     <1>16, <1>17, <1>18, <1>19, <1>20, <1>21 DEF Next, Pipeline, Monitor, Reconcile
-----------------------------------------------------------------------------
(* Orders under way. *)

\* An order as far as it has come
OrderFits(c) ==
  /\ request[c] = NoRequest =>
       broker[c].state = "none" /\ db[c] = NoRows /\ ~Pending(c)
  /\ broker[c].state \in {"none", "rejected"} => broker[c].filled = 0
  /\ request[c] # NoRequest =>
       broker[c].filled <= request[c].qty /\ (broker[c].state = "none" => Pending(c))
  /\ Pending(c) => db[c] = NoRows
  /\ "late_fill" \notin day.events =>
       /\ broker[c].state # "open"
       /\ broker[c].state = "closed" => broker[c].filled = request[c].qty
  /\ \/ db[c].pos = <<>>
     \/ \E f \in Fills : f.qty <= broker[c].filled /\ db[c] = Booked(request[c], f)

\* every order fits
OrdersFit == \A c \in Calls : OrderFits(c)

\* A step between orders leaves every order pending that was, and no other.
LEMMA PendingSame ==
  ASSUME DeskTypes, NEW a \in Actors, NEW x, at[a] # "ordered", x # "ordered",
         at' = [at EXCEPT ![a] = x], \A b \in Runs \ {a} : stock'[b] = stock[b]
  PROVE  \A c \in Calls : Pending(c)' <=> Pending(c)
  BY Values DEF Pending, DeskTypes, StageType

\* A run that goes on has no pending order any more.
LEMMA PendingEnds ==
  ASSUME DeskTypes, NEW a \in Runs, NEW x, x # "ordered", stock' = stock,
         at' = [at EXCEPT ![a] = x]
  PROVE  \A c \in Calls : Pending(c)' <=> Pending(c) /\ c # <<a, stock[a]>> /\ c[1] # a
<1> SUFFICES ASSUME NEW c \in Calls
             PROVE  Pending(c)' <=> Pending(c) /\ c # <<a, stock[a]>> /\ c[1] # a
  OBVIOUS
<1>1. c[1] \in Runs /\ c[2] \in Stocks /\ c = <<c[1], c[2]>> /\ Runs \subseteq Actors
  BY Values
<1> QED BY <1>1 DEF Pending, DeskTypes, StageType

\* A run that sends has the order it sends pending, and the others as they were.
LEMMA PendingBegins ==
  ASSUME DeskTypes, NEW a \in Runs, NEW s \in Stocks, at[a] # "ordered",
         at' = [at EXCEPT ![a] = "ordered"], stock'[a] = s,
         \A b \in Runs \ {a} : stock'[b] = stock[b]
  PROVE  \A c \in Calls : Pending(c)' <=> Pending(c) \/ c = <<a, s>>
<1> SUFFICES ASSUME NEW c \in Calls PROVE Pending(c)' <=> Pending(c) \/ c = <<a, s>>
  OBVIOUS
<1>1. c[1] \in Runs /\ c[2] \in Stocks /\ c = <<c[1], c[2]>> /\ Runs \subseteq Actors
  BY Values
<1>2. <<a, s>>[1] = a /\ <<a, s>>[2] = s
  OBVIOUS
<1> QED BY <1>1, <1>2 DEF Pending, DeskTypes, StageType

\* What each kind of step does to the stages: a step between orders, ...
Between(a) ==
  /\ at[a] # "ordered"
  /\ \E x : x # "ordered" /\ at' = [at EXCEPT ![a] = x]
  /\ \A b \in Runs \ {a} : stock'[b] = stock[b]
  /\ UNCHANGED <<request, broker, db, day, since>>

\* Reading, deciding and comparing are such steps.
LEMMA BetweenSteps ==
  ASSUME DeskTypes
  PROVE  /\ \A a \in Pipelines :
              /\ StartPipeline(a) => Between(a) /\ UNCHANGED journal
              /\ \A s \in Stocks :
                   PassOver(a, s) \/ ReadPosition(a, s) => Between(a) /\ UNCHANGED journal
              /\ \A p \in Prices : Hold(a, p) => Between(a) /\ UNCHANGED journal
         /\ \A m \in Monitors :
              /\ StartMonitor(m) \/ EndInspection(m) \/ BreakOff(m)
                    => Between(m) /\ UNCHANGED journal
              /\ \A s \in Stocks, p \in Prices :
                   Inspect(m, s, p) => Between(m) /\ UNCHANGED journal
         /\ \A r \in Reconcilers :
              /\ StartReconcile(r) \/ Compare(r) \/ EndReconcile(r)
                    => Between(r) /\ UNCHANGED journal
              /\ \A s \in Stocks : Adjust(r, s) => Between(r)
<1>0. Pipelines \subseteq Runs /\ Monitors \subseteq Runs /\ Pipelines \subseteq Actors
      /\ Monitors \subseteq Actors /\ Reconcilers \subseteq Actors /\ stock \in [Runs -> Stocks]
      /\ \A a \in Actors : at = [at EXCEPT ![a] = at[a]]
  BY Values DEF DeskTypes, StageType
<1>1. ASSUME NEW a \in Pipelines
      PROVE  /\ StartPipeline(a) => Between(a) /\ UNCHANGED journal
             /\ \A s \in Stocks :
                   PassOver(a, s) \/ ReadPosition(a, s) => Between(a) /\ UNCHANGED journal
             /\ \A p \in Prices : Hold(a, p) => Between(a) /\ UNCHANGED journal
  <2>1. StartPipeline(a) => Between(a) /\ UNCHANGED journal
    BY DEF StartPipeline, Between
  <2>2. \A s \in Stocks : PassOver(a, s) => Between(a) /\ UNCHANGED journal
    BY DEF PassOver, Between
  <2>3. \A s \in Stocks : ReadPosition(a, s) => Between(a) /\ UNCHANGED journal
    BY <1>0 DEF ReadPosition, Between
  <2>4. \A p \in Prices : Hold(a, p) => Between(a) /\ UNCHANGED journal
    BY <1>0, OnwardStep DEF Hold, Between
  <2> QED BY <2>1, <2>2, <2>3, <2>4
<1>2. ASSUME NEW m \in Monitors
      PROVE  /\ StartMonitor(m) \/ EndInspection(m) \/ BreakOff(m)
                    => Between(m) /\ UNCHANGED journal
             /\ \A s \in Stocks, p \in Prices :
                   Inspect(m, s, p) => Between(m) /\ UNCHANGED journal
  <2>1. StartMonitor(m) => Between(m) /\ UNCHANGED journal
    BY DEF StartMonitor, Between
  <2>2. EndInspection(m) => Between(m) /\ UNCHANGED journal
    BY <1>0, OnwardStep DEF EndInspection, Between
  <2>3. BreakOff(m) => Between(m) /\ UNCHANGED journal
    BY DEF BreakOff, Between
  <2>4. \A s \in Stocks, p \in Prices : Inspect(m, s, p) => Between(m) /\ UNCHANGED journal
    BY <1>0 DEF Inspect, Between
  <2> QED BY <2>1, <2>2, <2>3, <2>4
<1>3. ASSUME NEW r \in Reconcilers
      PROVE  /\ StartReconcile(r) \/ Compare(r) \/ EndReconcile(r)
                    => Between(r) /\ UNCHANGED journal
             /\ \A s \in Stocks : Adjust(r, s) => Between(r)
  <2>1. StartReconcile(r) => Between(r) /\ UNCHANGED journal
    BY DEF StartReconcile, Between
  <2>2. Compare(r) => Between(r) /\ UNCHANGED journal
    BY DEF Compare, Between
  <2>3. EndReconcile(r) => Between(r) /\ UNCHANGED journal
    BY DEF EndReconcile, Between
  <2>4. \A s \in Stocks : Adjust(r, s) => Between(r)
    BY <1>0 DEF Adjust, Between
  <2> QED BY <2>1, <2>2, <2>3, <2>4
<1> QED BY <1>1, <1>2, <1>3

\* ... a step that sends an order, ...
Sends(a, s, r) ==
  /\ at[a] \in {"deciding", "exiting"} /\ request[<<a, s>>] = NoRequest /\ r \in Requests
  /\ request' = [request EXCEPT ![<<a, s>>] = r]
  /\ at' = [at EXCEPT ![a] = "ordered"]
  /\ stock'[a] = s /\ \A b \in Runs \ {a} : stock'[b] = stock[b]
  /\ UNCHANGED <<broker, db, day, journal, todo, view, since, reconciled>>

\* An exit and a protective exit sell what was read; an entry buys BuyQty.
LEMMA SendSteps ==
  ASSUME DeskTypes
  PROVE  /\ \A a \in Pipelines, p \in Prices :
              Exit(a, p) => \E r : /\ Sends(a, stock[a], r) /\ at[a] = "deciding"
                                   /\ r.side = "SELL" /\ r.qty = view[a][stock[a]].qty
                                   /\ UNCHANGED <<stock, breached>>
         /\ \A a \in Pipelines, p \in Prices, k \in Cashes, budget \in Budgets :
              Enter(a, p, k, budget) => \E r : /\ Sends(a, stock[a], r) /\ at[a] = "deciding"
                                       /\ r.side = "BUY" /\ r.price = p
                                       /\ r.qty = BuyQty(view[a][stock[a]], p, k, budget)
                                       /\ UNCHANGED <<stock, breached>>
         /\ \A m \in Monitors, s \in Stocks, p \in Prices :
              ProtectiveExit(m, s, p) =>
                \E r : /\ Sends(m, s, r) /\ at[m] = "exiting"
                       /\ r.side = "SELL" /\ r.qty = view[m][s].qty /\ s \in breached[m]
                       /\ breached' = [breached EXCEPT ![m] = @ \ {s}]
<1>1. ASSUME NEW a \in Pipelines, NEW p \in Prices, Exit(a, p)
      PROVE  \E r : /\ Sends(a, stock[a], r) /\ at[a] = "deciding"
                    /\ r.side = "SELL" /\ r.qty = view[a][stock[a]].qty
                    /\ UNCHANGED <<stock, breached>>
  <2>1. a \in Runs /\ stock[a] \in Stocks
    BY Values DEF DeskTypes
  <2>2. Send(a, stock[a], "SELL", view[a][stock[a]].qty, p)
    BY <1>1 DEF Exit
  <2> QED BY <2>1, <2>2, <1>1, SendStep DEF Exit, Sends
<1>2. ASSUME NEW a \in Pipelines, NEW p \in Prices, NEW k \in Cashes, NEW budget \in Budgets,
             Enter(a, p, k, budget)
      PROVE  \E r : /\ Sends(a, stock[a], r) /\ at[a] = "deciding"
                    /\ r.side = "BUY" /\ r.price = p
                    /\ r.qty = BuyQty(view[a][stock[a]], p, k, budget)
                    /\ UNCHANGED <<stock, breached>>
  <2>1. a \in Runs /\ stock[a] \in Stocks
    BY Values DEF DeskTypes
  <2>2. Send(a, stock[a], "BUY", BuyQty(view[a][stock[a]], p, k, budget), p)
    BY <1>2 DEF Enter
  <2> QED BY <2>1, <2>2, <1>2, SendStep DEF Enter, Sends
<1>3. ASSUME NEW m \in Monitors, NEW s \in Stocks, NEW p \in Prices, ProtectiveExit(m, s, p)
      PROVE  \E r : /\ Sends(m, s, r) /\ at[m] = "exiting"
                    /\ r.side = "SELL" /\ r.qty = view[m][s].qty /\ s \in breached[m]
                    /\ breached' = [breached EXCEPT ![m] = @ \ {s}]
  <2>1. m \in Runs
    BY Values
  <2>2. Send(m, s, "SELL", view[m][s].qty, p)
    BY <1>3 DEF ProtectiveExit
  <2>3. stock'[m] = s /\ \A b \in Runs \ {m} : stock'[b] = stock[b]
    BY <2>1, <1>3 DEF ProtectiveExit, DeskTypes
  <2> QED BY <2>1, <2>2, <2>3, <1>3, SendStep DEF ProtectiveExit, Sends
<1> QED BY <1>1, <1>2, <1>3

\* ... and a step that ends one for its run.
Ends(a) ==
  /\ at[a] = "ordered" /\ broker[<<a, stock[a]>>].state # "none"
  /\ \E x : /\ x \in {"done", "choosing", "exiting"} /\ at' = [at EXCEPT ![a] = x]
  /\ UNCHANGED <<request, broker, day, stock, todo, breached, view, since, reconciled>>

\* Booking an order, and losing its rows, are such steps.
LEMMA EndSteps ==
  ASSUME NEW a \in Runs
  PROVE  /\ Book(a) => Ends(a)
         /\ LoseRows(a) => Ends(a) /\ UNCHANGED <<db, journal>> /\ "no_rows" \in day.events
<1>1. Onward(a) => \E x : x \in {"done", "choosing", "exiting"} /\ at' = [at EXCEPT ![a] = x]
  BY DEF Onward
<1>2. Book(a) => Ends(a)
  BY <1>1 DEF Book, Orders!Book, Ends
<1>3. LoseRows(a) => Ends(a) /\ UNCHANGED <<db, journal>> /\ "no_rows" \in day.events
  BY <1>1 DEF LoseRows, Ends
<1> QED BY <1>2, <1>3

\* Every step is one of these.
LEMMA StepKinds ==
  ASSUME DeskTypes, [Next]_vars
  PROVE  \/ \E a \in Actors : Between(a) /\ UNCHANGED journal
         \/ \E r \in Reconcilers, s \in Stocks : Between(r) /\ Adjust(r, s)
         \/ \E a \in Runs, s \in Stocks, r \in Requests : Sends(a, s, r)
         \/ \E a \in Runs : Ends(a) /\ Book(a)
         \/ \E a \in Runs : Ends(a) /\ UNCHANGED <<db, journal>> /\ "no_rows" \in day.events
         \/ \E c \in Calls : Answer(c) \/ FillLate(c)
         \/ UNCHANGED vars
<1>0. /\ Pipelines \subseteq Actors /\ Monitors \subseteq Actors /\ Reconcilers \subseteq Actors
      /\ Pipelines \subseteq Runs /\ Monitors \subseteq Runs
      /\ \A a \in Runs : stock[a] \in Stocks
  BY Values DEF DeskTypes
<1>1. ASSUME NEW a \in Pipelines, Pipeline(a)
      PROVE  \/ Between(a) /\ UNCHANGED journal
             \/ \E s \in Stocks, r \in Requests : Sends(a, s, r)
  <2>1. ASSUME NEW p \in Prices, Exit(a, p)
        PROVE  \E s \in Stocks, r \in Requests : Sends(a, s, r)
    <3>1. PICK r : Sends(a, stock[a], r)
      BY <2>1, SendSteps
    <3>2. r \in Requests /\ stock[a] \in Stocks
      BY <3>1, <1>0 DEF Sends
    <3> QED BY <3>1, <3>2
  <2>2. ASSUME NEW p \in Prices, NEW k \in Cashes, NEW budget \in Budgets, Enter(a, p, k, budget)
        PROVE  \E s \in Stocks, r \in Requests : Sends(a, s, r)
    <3>1. PICK r : Sends(a, stock[a], r)
      BY <2>2, SendSteps
    <3>2. r \in Requests /\ stock[a] \in Stocks
      BY <3>1, <1>0 DEF Sends
    <3> QED BY <3>1, <3>2
  <2> QED BY <2>1, <2>2, <1>1, BetweenSteps DEF Pipeline
<1>2. ASSUME NEW m \in Monitors, Monitor(m)
      PROVE  \/ Between(m) /\ UNCHANGED journal
             \/ \E s \in Stocks, r \in Requests : Sends(m, s, r)
  <2>1. ASSUME NEW s \in Stocks, NEW p \in Prices, ProtectiveExit(m, s, p)
        PROVE  \E r \in Requests : Sends(m, s, r)
    <3>1. PICK r : Sends(m, s, r)
      BY <2>1, SendSteps
    <3>2. r \in Requests
      BY <3>1 DEF Sends
    <3> QED BY <3>1, <3>2
  <2> QED BY <2>1, <1>2, BetweenSteps DEF Monitor
<1>3. ASSUME NEW r \in Reconcilers, Reconcile(r)
      PROVE  \/ Between(r) /\ UNCHANGED journal
             \/ \E s \in Stocks : Between(r) /\ Adjust(r, s)
  BY <1>3, BetweenSteps DEF Reconcile
<1>4. ASSUME NEW a \in Runs, Book(a) \/ LoseRows(a)
      PROVE  \/ Ends(a) /\ Book(a)
             \/ Ends(a) /\ UNCHANGED <<db, journal>> /\ "no_rows" \in day.events
  BY <1>4, EndSteps
<1>5. CASE \E a \in Pipelines : Pipeline(a)
  BY <1>5, <1>0, <1>1
<1>6. CASE \E m \in Monitors : Monitor(m)
  BY <1>6, <1>0, <1>2
<1>7. CASE \E r \in Reconcilers : Reconcile(r)
  BY <1>7, <1>0, <1>3
<1>8. CASE \E a \in Runs : Book(a) \/ LoseRows(a)
  BY <1>8, <1>4
<1> QED BY <1>5, <1>6, <1>7, <1>8 DEF Next

\* The same order before and after a step that leaves orders alone
LEMMA FitsStill ==
  ASSUME NEW c \in Calls, OrderFits(c), UNCHANGED <<request, broker, day>>, db'[c] = db[c],
         Pending(c)' => Pending(c), broker[c].state = "none" => (Pending(c)' <=> Pending(c))
  PROVE  OrderFits(c)'
<1>1. Pending(c)' \in BOOLEAN /\ Pending(c) \in BOOLEAN
  BY DEF Pending
<1>2. /\ request'[c] = request[c] /\ broker'[c] = broker[c] /\ day'.events = day.events
      /\ db'[c] = db[c]
  OBVIOUS
<1> QED BY <1>1, <1>2 DEF OrderFits

\* There are no orders when the day begins.
LEMMA OrdersInit ==
  ASSUME Init
  PROVE  OrdersFit
<1>1. /\ request = [c \in Calls |-> NoRequest]
      /\ broker = [c \in Calls |-> [state |-> "none", filled |-> 0]]
      /\ db = [c \in Calls |-> NoRows]
  BY DEF Init, Orders!Init, Orders!NoRows, Orders!Rows, NoRows, Rows
<1>2. \A c \in Calls : ~Pending(c)
  BY Values DEF Init, Pending
<1> QED BY <1>1, <1>2, RowFacts DEF OrdersFit, OrderFits

\* Every step leaves every order fitting.
LEMMA OrdersStep ==
  ASSUME DeskTypes, OrdersFit, [Next]_vars
  PROVE  OrdersFit'
<1>0. \A c \in Calls : OrderFits(c)
  BY DEF OrdersFit
<1>1. ASSUME NEW a \in Actors, Between(a), UNCHANGED db
      PROVE  OrdersFit'
  <2>1. \A c \in Calls : Pending(c)' <=> Pending(c)
    BY <1>1, PendingSame DEF Between
  <2> QED BY <1>0, <1>1, <2>1, FitsStill DEF OrdersFit, Between
<1>2. ASSUME NEW a \in Runs, NEW s \in Stocks, NEW r \in Requests, Sends(a, s, r)
      PROVE  OrdersFit'
  <2> DEFINE x == <<a, s>>
  <2>1. \A c \in Calls : Pending(c)' <=> Pending(c) \/ c = x
    BY <1>2, PendingBegins DEF Sends
  <2>2. x \in Calls /\ request[x] = NoRequest /\ request'[x] = r /\ r # NoRequest
        /\ \A c \in Calls \ {x} : request'[c] = request[c]
    BY <1>2, Values, BookAssumption DEF Sends, DeskTypes
  <2>3. UNCHANGED <<broker, db, day>>
    BY <1>2 DEF Sends
  <2> HIDE DEF x
  <2>4. ASSUME NEW c \in Calls PROVE OrderFits(c)'
    <3>0. OrderFits(c)
      BY <1>0
    <3>1. CASE c # x
      <4>1. request'[c] = request[c] /\ (Pending(c)' <=> Pending(c))
        BY <2>1, <2>2, <3>1
      <4> QED BY <4>1, <2>3, <3>0 DEF OrderFits
    <3>2. CASE c = x
      <4>1. /\ broker'[c].state = "none" /\ broker'[c].filled = 0 /\ db'[c] = NoRows
            /\ Pending(c)' /\ request'[c] = r
        BY <2>1, <2>2, <2>3, <3>0, <3>2 DEF OrderFits
      <4>2. r.qty \in 1 .. MaxQty /\ MaxQty \in Nat
        BY BookAssumption, <1>2 DEF Requests
      <4> QED BY <4>1, <4>2, <2>2, RowFacts DEF OrderFits
    <3> QED BY <3>1, <3>2
  <2> QED BY <2>4 DEF OrdersFit
<1>3. ASSUME NEW a \in Runs, Ends(a),
             \A c \in Calls \ {<<a, stock[a]>>} : db'[c] = db[c]
      PROVE  \A c \in Calls \ {<<a, stock[a]>>} : OrderFits(c)'
  <2>1. \A c \in Calls : Pending(c)' <=> Pending(c) /\ c # <<a, stock[a]>> /\ c[1] # a
    BY <1>3, PendingEnds DEF Ends
  <2> SUFFICES ASSUME NEW c \in Calls \ {<<a, stock[a]>>} PROVE OrderFits(c)'
    OBVIOUS
  <2>2. Pending(c)' <=> Pending(c)
    <3>1. c[1] = a => ~Pending(c)
      BY Values DEF Pending
    <3> QED BY <2>1, <3>1
  <2> QED BY <2>2, <1>0, <1>3, FitsStill DEF Ends
<1>4. ASSUME NEW a \in Runs, Ends(a), Book(a)
      PROVE  OrdersFit'
  <2>0. PICK x : x = <<a, stock[a]>>
    OBVIOUS
  <2>1. /\ x \in Calls /\ request[x] \in Requests /\ db[x] = NoRows /\ at[a] = "ordered"
        /\ broker[x].state # "none"
        /\ \/ BooksNothing(x)
           \/ \E f \in Fills, i \in 1 .. Len(journal) + 1 : BooksFill(x, f, i)
    BY <2>0, <1>4, BookStep
  <2>2. \A c \in Calls : Pending(c)' <=> Pending(c) /\ c # x /\ c[1] # a
    BY <2>0, <1>4, PendingEnds DEF Ends
  <2>3. \A c \in Calls \ {x} : db'[c] = db[c]
    BY <2>1 DEF BooksNothing, BooksFill, DeskTypes
  <2>4. \/ db'[x].pos = <<>>
        \/ \E f \in Fills : f.qty <= broker[x].filled /\ db'[x] = Booked(request[x], f)
    <3>1. CASE BooksNothing(x)
      <4>1. db'[x] \in {Submitted("REJECTED"), Submitted("ACCEPTED")}
        BY <2>1, <3>1 DEF BooksNothing, DeskTypes
      <4> QED BY <4>1, RowFacts
    <3>2. CASE \E f \in Fills, i \in 1 .. Len(journal) + 1 : BooksFill(x, f, i)
      BY <2>1, <3>2 DEF BooksFill, DeskTypes
    <3> QED BY <2>1, <3>1, <3>2
  <2>5. OrderFits(x)'
    <3>1. OrderFits(x) /\ ~Pending(x)' /\ UNCHANGED <<request, broker, day>>
      BY <1>0, <1>4, <2>1, <2>2 DEF Ends
    <3>2. request[x] # NoRequest
      BY <2>1, BookAssumption
    <3>3. request'[x] = request[x] /\ broker'[x] = broker[x] /\ day'.events = day.events
      BY <3>1
    <3> QED BY <3>1, <3>2, <3>3, <2>1, <2>4 DEF OrderFits
  <2>6. \A c \in Calls \ {x} : OrderFits(c)'
    BY <2>0, <1>3, <1>4, <2>3
  <2> QED BY <2>5, <2>6 DEF OrdersFit
<1>5. ASSUME NEW a \in Runs, Ends(a), UNCHANGED <<db, journal>>
      PROVE  OrdersFit'
  <2>0. PICK x : x = <<a, stock[a]>>
    OBVIOUS
  <2>1. \A c \in Calls : Pending(c)' <=> Pending(c) /\ c # x /\ c[1] # a
    BY <2>0, <1>5, PendingEnds DEF Ends
  <2>2. ASSUME x \in Calls PROVE OrderFits(x)'
    <3>1. OrderFits(x) /\ ~Pending(x)' /\ UNCHANGED <<request, broker, day>>
      BY <1>0, <1>5, <2>1, <2>2 DEF Ends
    <3>2. broker[x].state # "none"
      BY <2>0, <1>5 DEF Ends
    <3>3. db'[x] = db[x]
      BY <1>5
    <3> QED BY <3>1, <3>2, <3>3, <2>2, FitsStill
  <2>3. \A c \in Calls \ {x} : OrderFits(c)'
    BY <2>0, <1>3, <1>5
  <2> QED BY <2>2, <2>3 DEF OrdersFit
<1>6. ASSUME NEW x \in Calls, Answer(x) \/ FillLate(x)
      PROVE  OrdersFit'
  <2>1. Orders!BrokerMoves(x) /\ UNCHANGED <<day, at, stock>>
    BY <1>6 DEF Answer, FillLate, deskVars
  <2>2. /\ request[x] \in Requests /\ UNCHANGED <<request, db>>
        /\ broker'[x] \in BrokerOrders
        /\ broker'[x].filled \in broker[x].filled .. request[x].qty
        /\ broker'[x].state = "rejected" => broker'[x].filled = 0
        /\ \/ broker[x].state = "none" /\ broker'[x].state \in {"rejected", "open", "closed"}
           \/ broker[x].state = "open" /\ broker'[x].state \in {"open", "closed"}
        /\ \A c \in Calls \ {x} : broker'[c] = broker[c]
    BY <2>1, BrokerStep DEF DeskTypes
  <2>3. \A c \in Calls : Pending(c)' <=> Pending(c)
    BY <2>1 DEF Pending
  <2>4. \A c \in Calls \ {x} : OrderFits(c)'
    <3> SUFFICES ASSUME NEW c \in Calls \ {x} PROVE OrderFits(c)'
      OBVIOUS
    <3>1. /\ request'[c] = request[c] /\ broker'[c] = broker[c] /\ db'[c] = db[c]
          /\ day' = day /\ (Pending(c)' <=> Pending(c)) /\ OrderFits(c)
      BY <1>0, <2>1, <2>2, <2>3
    <3> QED BY <3>1 DEF OrderFits
  <2>5. OrderFits(x)'
    <3>1. /\ request'[x] = request[x] /\ db'[x] = db[x] /\ day' = day
          /\ (Pending(x)' <=> Pending(x)) /\ OrderFits(x) /\ request[x] # NoRequest
      BY <1>0, <2>1, <2>2, <2>3, BookAssumption
    <3>2. /\ broker[x].filled \in 0 .. MaxQty /\ broker'[x].filled \in 0 .. MaxQty
          /\ request[x].qty \in 1 .. MaxQty /\ MaxQty \in Nat
          /\ broker'[x].filled >= broker[x].filled /\ broker'[x].filled <= request[x].qty
      <4>1. broker[x] \in BrokerOrders
        BY DEF DeskTypes
      <4>2. broker[x].filled \in 0 .. MaxQty /\ broker'[x].filled \in 0 .. MaxQty
        BY <4>1, <2>2 DEF BrokerOrders
      <4>3. request[x].qty \in 1 .. MaxQty /\ MaxQty \in Nat
        BY <2>2, BookAssumption DEF Requests
      <4> QED BY <4>2, <4>3, <2>2
    <3>3. "late_fill" \notin day.events =>
            /\ broker'[x].state # "open"
            /\ broker'[x].state = "closed" => broker'[x].filled = request[x].qty
      <4> SUFFICES ASSUME "late_fill" \notin day.events
                   PROVE  /\ broker'[x].state # "open"
                          /\ broker'[x].state = "closed" => broker'[x].filled = request[x].qty
        OBVIOUS
      <4>1. broker[x].state # "open"
        BY <3>1 DEF OrderFits
      <4>2. Answer(x)
        BY <1>6, <4>1 DEF FillLate
      <4> QED BY <4>2, <2>2, <3>2 DEF Answer
    <3>4. \/ db[x].pos = <<>>
          \/ \E f \in Fills : f.qty <= broker'[x].filled /\ db[x] = Booked(request[x], f)
      <4>1. \A f \in Fills : f.qty \in Int
        BY BookAssumption DEF Fills
      <4> QED BY <3>1, <3>2, <4>1 DEF OrderFits
    <3> QED BY <2>2, <3>1, <3>2, <3>3, <3>4 DEF OrderFits
  <2> QED BY <2>4, <2>5 DEF OrdersFit
<1>7. CASE UNCHANGED vars
  <2>1. \A c \in Calls : Pending(c)' <=> Pending(c)
    BY <1>7 DEF Pending, vars, deskVars
  <2> QED BY <1>0, <1>7, <2>1, FitsStill DEF OrdersFit, vars, deskVars
<1>8. ASSUME NEW a \in Actors, Between(a) PROVE UNCHANGED db
  BY <1>8 DEF Between
<1> QED
  BY StepKinds, <1>1, <1>2, <1>4, <1>5, <1>6, <1>7, <1>8, Values
-----------------------------------------------------------------------------
(* Runs and reconciles take turns where the day makes them. *)

\* No reconcile beside anyone, and no run beside a run, unless the day says so.
TakesTurns ==
  /\ "reconcile_overlap" \notin day.events =>
       \A r \in Reconcilers, b \in Actors : r # b => Idle(r) \/ Idle(b)
  /\ "overlap" \notin day.events =>
       \A a, b \in Runs : a # b => Idle(a) \/ Idle(b)

\* Nobody is active when the day begins.
LEMMA TurnsInit ==
  ASSUME Init
  PROVE  TakesTurns
  BY Values DEF Init, TakesTurns, Idle

\* An actor that is active already, or that has looked for others, goes on.
LEMMA TurnsKept ==
  ASSUME DeskTypes, TakesTurns, NEW a \in Actors, ~Idle(a) \/ Alone(a), day' = day,
         NEW x, at' = [at EXCEPT ![a] = x]
  PROVE  TakesTurns'
<1>0. \A b \in Actors : at'[b] = IF b = a THEN x ELSE at[b]
  BY DEF DeskTypes, StageType
<1>1. \A b \in Actors \ {a} : Idle(b)' <=> Idle(b)
  BY <1>0 DEF Idle
<1>2. Runs \subseteq Actors /\ Reconcilers \subseteq Actors /\ Runs \cap Reconcilers = {}
      /\ Actors = Runs \cup Reconcilers
  BY Values, DeskAssumption DEF Actors
<1>3. ASSUME "reconcile_overlap" \notin day.events, NEW r \in Reconcilers, NEW b \in Actors,
             r # b
      PROVE  Idle(r)' \/ Idle(b)'
  <2>1. CASE a # r /\ a # b
    BY <2>1, <1>1, <1>2, <1>3 DEF TakesTurns
  <2>2. CASE a = r
    <3>1. Idle(b)
      <4>1. CASE ~Idle(a)
        BY <4>1, <2>2, <1>3 DEF TakesTurns
      <4>2. CASE Alone(a)
        BY <4>2, <2>2, <1>2, <1>3 DEF Alone
      <4> QED BY <4>1, <4>2
    <3> QED BY <3>1, <2>2, <1>1, <1>3
  <2>3. CASE a = b
    <3>1. Idle(r)
      <4>1. CASE ~Idle(a)
        BY <4>1, <2>3, <1>3 DEF TakesTurns
      <4>2. CASE Alone(a)
        BY <4>2, <2>3, <1>2, <1>3 DEF Alone
      <4> QED BY <4>1, <4>2
    <3> QED BY <3>1, <2>3, <1>1, <1>2, <1>3
  <2> QED BY <2>1, <2>2, <2>3
<1>4. ASSUME "overlap" \notin day.events, NEW b \in Runs, NEW c \in Runs, b # c
      PROVE  Idle(b)' \/ Idle(c)'
  <2>1. CASE a # b /\ a # c
    BY <2>1, <1>1, <1>2, <1>4 DEF TakesTurns
  <2>2. ASSUME a \in Runs, NEW d \in Runs, d # a PROVE Idle(d)
    <3>1. CASE ~Idle(a)
      BY <3>1, <2>2, <1>4 DEF TakesTurns
    <3>2. CASE Alone(a)
      BY <3>2, <2>2, <1>4 DEF Alone
    <3> QED BY <3>1, <3>2
  <2>3. CASE a = b
    BY <2>2, <2>3, <1>1, <1>2, <1>4
  <2>4. CASE a = c
    BY <2>2, <2>4, <1>1, <1>2, <1>4
  <2> QED BY <2>1, <2>3, <2>4
<1> QED BY <1>3, <1>4 DEF TakesTurns

\* Whoever takes a step is active already, or has looked for others and
\* found none.
Does(a) ==
  \/ a \in Pipelines /\ Pipeline(a)
  \/ a \in Monitors /\ Monitor(a)
  \/ a \in Reconcilers /\ Reconcile(a)
  \/ a \in Runs /\ (Book(a) \/ LoseRows(a))

Acts(a) ==
  /\ ~Idle(a) \/ Alone(a)
  /\ day' = day
  /\ \E x : at' = [at EXCEPT ![a] = x]

\* A step is an actor's, the broker's, or none.
LEMMA WhoActs ==
  ASSUME [Next]_vars
  PROVE  \/ \E a \in Actors : Does(a)
         \/ \E c \in Calls : Answer(c) \/ FillLate(c)
         \/ UNCHANGED vars
  BY Values DEF Next, Does

\* So it is with every action: a start looks for others, the rest is done while active.
LEMMA ActorsAct ==
  ASSUME DeskTypes, NEW q \in Actors, Does(q)
  PROVE  Acts(q)
<1>0. /\ Pipelines \subseteq Actors /\ Monitors \subseteq Actors /\ Reconcilers \subseteq Actors
      /\ Runs \subseteq Actors
  BY Values
<1>1. ASSUME NEW a \in Actors, ~Idle(a) \/ Alone(a), Between(a) PROVE Acts(a)
  BY <1>1 DEF Between, Acts
<1>2. ASSUME NEW a \in Pipelines, Pipeline(a) PROVE Acts(a)
  <2>1. CASE StartPipeline(a)
    BY <2>1, <1>0, <1>1, BetweenSteps DEF StartPipeline
  <2>2. ASSUME NEW s \in Stocks, PassOver(a, s) \/ ReadPosition(a, s) PROVE Acts(a)
    <3>1. ~Idle(a)
      BY <2>2 DEF PassOver, ReadPosition, Idle
    <3> QED BY <3>1, <2>2, <1>0, <1>1, BetweenSteps
  <2>3. ASSUME NEW p \in Prices, Hold(a, p) PROVE Acts(a)
    <3>1. ~Idle(a)
      BY <2>3 DEF Hold, Idle
    <3> QED BY <3>1, <2>3, <1>0, <1>1, BetweenSteps
  <2>4. ASSUME NEW p \in Prices,
               Exit(a, p) \/ \E k \in Cashes, budget \in Budgets : Enter(a, p, k, budget)
        PROVE  Acts(a)
    <3>1. PICK r : Sends(a, stock[a], r)
      BY <2>4, SendSteps
    <3> QED BY <3>1, <1>0 DEF Acts, Sends, Idle
  <2> QED BY <1>2, <2>1, <2>2, <2>3, <2>4 DEF Pipeline
<1>3. ASSUME NEW m \in Monitors, Monitor(m) PROVE Acts(m)
  <2>1. CASE StartMonitor(m)
    BY <2>1, <1>0, <1>1, BetweenSteps DEF StartMonitor
  <2>2. CASE EndInspection(m) \/ BreakOff(m)
    <3>1. ~Idle(m)
      BY <2>2 DEF EndInspection, BreakOff, Idle
    <3> QED BY <3>1, <2>2, <1>0, <1>1, BetweenSteps
  <2>3. ASSUME NEW s \in Stocks, NEW p \in Prices, Inspect(m, s, p) PROVE Acts(m)
    <3>1. ~Idle(m)
      BY <2>3 DEF Inspect, Idle
    <3> QED BY <3>1, <2>3, <1>0, <1>1, BetweenSteps
  <2>4. ASSUME NEW s \in Stocks, NEW p \in Prices, ProtectiveExit(m, s, p) PROVE Acts(m)
    <3>1. PICK r : Sends(m, s, r)
      BY <2>4, SendSteps
    <3> QED BY <3>1, <1>0 DEF Acts, Sends, Idle
  <2> QED BY <1>3, <2>1, <2>2, <2>3, <2>4 DEF Monitor
<1>4. ASSUME NEW r \in Reconcilers, Reconcile(r) PROVE Acts(r)
  <2>1. CASE StartReconcile(r)
    BY <2>1, <1>0, <1>1, BetweenSteps DEF StartReconcile
  <2>2. CASE Compare(r) \/ EndReconcile(r)
    <3>1. ~Idle(r)
      BY <2>2 DEF Compare, EndReconcile, Idle
    <3> QED BY <3>1, <2>2, <1>0, <1>1, BetweenSteps
  <2>3. ASSUME NEW s \in Stocks, Adjust(r, s) PROVE Acts(r)
    <3>1. ~Idle(r)
      BY <2>3 DEF Adjust, Idle
    <3> QED BY <3>1, <2>3, <1>0, <1>1, BetweenSteps
  <2> QED BY <1>4, <2>1, <2>2, <2>3 DEF Reconcile
<1>5. ASSUME NEW a \in Runs, Ends(a) PROVE Acts(a)
  BY <1>5, <1>0 DEF Acts, Ends, Idle
<1> QED BY <1>2, <1>3, <1>4, <1>5, EndSteps DEF Does

\* Every step keeps the turns.
LEMMA TurnsStep ==
  ASSUME DeskTypes, TakesTurns, [Next]_vars
  PROVE  TakesTurns'
<1>1. ASSUME NEW a \in Actors, Does(a) PROVE TakesTurns'
  <2>1. Acts(a)
    BY <1>1, ActorsAct
  <2> QED BY <2>1, TurnsKept DEF Acts
<1>2. UNCHANGED <<day, at>> => TakesTurns'
  BY DEF TakesTurns, Idle
<1>3. ASSUME NEW c \in Calls, Answer(c) \/ FillLate(c) PROVE UNCHANGED <<day, at>>
  BY <1>3 DEF Answer, FillLate, deskVars
<1>4. UNCHANGED vars => UNCHANGED <<day, at>>
  BY DEF vars, deskVars
<1> QED BY <1>1, <1>2, <1>3, <1>4, WhoActs

\* One at a time, all the others are idle and stay so.
LEMMA OthersIdle ==
  ASSUME DeskTypes, TakesTurns, OneAtATime, NEW a \in Actors, Acts(a)
  PROVE  \A b \in Actors \ {a} : Idle(b) /\ at'[b] = at[b] /\ Idle(b)'
<1>1. "reconcile_overlap" \notin day.events /\ "overlap" \notin day.events
  BY DEF OneAtATime
<1>2. /\ Runs \subseteq Actors /\ Reconcilers \subseteq Actors /\ Runs \cap Reconcilers = {}
      /\ Actors = Runs \cup Reconcilers
  BY Values, DeskAssumption DEF Actors
<1>3. ASSUME NEW b \in Actors, b # a PROVE Idle(b)
  <2>1. CASE ~Idle(a)
    BY <2>1, <1>1, <1>2, <1>3 DEF TakesTurns
  <2>2. CASE Alone(a)
    BY <2>2, <1>1, <1>2, <1>3 DEF Alone
  <2> QED BY <2>1, <2>2 DEF Acts
<1>4. \A b \in Actors \ {a} : at'[b] = at[b]
  BY DEF Acts, DeskTypes, StageType
<1> QED BY <1>3, <1>4 DEF Idle
-----------------------------------------------------------------------------
(* Nothing is sold that is not held. *)

\* Open sales are of shares that are held.
NothingOversold == \A s \in Stocks : Free(s) >= 0

\* The types HeldOf needs, before and after a step.
OrderTypes ==
  /\ day.opening \in [Stocks -> Nat]
  /\ request \in [Calls -> RequestSet] /\ broker \in [Calls -> BrokerOrders]

\* DeskTypes says them.
LEMMA OrderTypesHold ==
  /\ DeskTypes => OrderTypes
  /\ DeskTypes' => OrderTypes'
  BY DEF DeskTypes, OrderTypes, RequestSet

\* While no order moves, nothing held moves.
LEMMA HeldStill ==
  ASSUME UNCHANGED <<request, broker, day>>
  PROVE  \A s : Held(s)' = Held(s) /\ Free(s)' = Free(s)
  BY HeldIs

\* What is held follows the one order that moves.
LEMMA HeldMoves ==
  ASSUME DeskTypes, DeskTypes', day' = day, NEW x \in Calls,
         \A c \in Calls \ {x} : request'[c] = request[c] /\ broker'[c] = broker[c],
         NEW s \in Stocks
  PROVE  /\ Held(s)' = Held(s) + IF x[2] = s THEN Moved(x)' - Moved(x) ELSE 0
         /\ Free(s)' = Free(s) + IF x[2] = s
                                 THEN (Moved(x)' - Moved(x)) - (Claimed(x)' - Claimed(x))
                                 ELSE 0
<1>1. /\ day.opening \in [Stocks -> Nat] /\ day'.opening = day.opening
      /\ request \in [Calls -> RequestSet] /\ broker \in [Calls -> BrokerOrders]
      /\ request' \in [Calls -> RequestSet] /\ broker' \in [Calls -> BrokerOrders]
  BY OrderTypesHold DEF OrderTypes
<1>2. HeldChanges(day.opening, request, broker, request', broker', x, s)
  BY <1>1, HeldOfChange
<1>3. /\ Moved(x) = MovedOf(request[x], broker[x])
      /\ Moved(x)' = MovedOf(request'[x], broker'[x])
      /\ Claimed(x) = ClaimedOf(request[x], broker[x])
      /\ Claimed(x)' = ClaimedOf(request'[x], broker'[x])
  BY HeldIs
<1>4. /\ HeldOf(day.opening, request', broker', s) = Held(s)'
      /\ HeldOf(day.opening, request, broker, s) = Held(s)
      /\ FreeOf(day.opening, request', broker', s) = Free(s)'
      /\ FreeOf(day.opening, request, broker, s) = Free(s)
  BY <1>1, HeldIs
<1> QED BY <1>2, <1>3, <1>4 DEF HeldChanges

\* One order, before and after a move of the broker
LEMMA MovedNow ==
  ASSUME DeskTypes, NEW x \in Calls, request[x] # NoRequest
  PROVE  /\ Moved(x) = IF request[x].side = "BUY" THEN broker[x].filled ELSE -broker[x].filled
         /\ Claimed(x) = IF request[x].side = "SELL" /\ broker[x].state = "open"
                         THEN request[x].qty - broker[x].filled ELSE 0
         /\ request[x].side \in {"BUY", "SELL"}
         /\ request[x].qty \in Nat /\ request[x].qty > 0 /\ broker[x].filled \in Nat
<1>1. request[x] \in RequestSet /\ broker[x] \in BrokerOrders
  BY OrderTypesHold DEF OrderTypes
<1>2. /\ MovedOf(request[x], broker[x])
           = IF request[x].side = "BUY" THEN broker[x].filled ELSE -broker[x].filled
      /\ request[x].side \in {"BUY", "SELL"}
      /\ request[x].qty \in Nat /\ request[x].qty > 0 /\ broker[x].filled \in Nat
  BY <1>1, MovedType
<1>3. ClaimedOf(request[x], broker[x])
        = IF request[x].side = "SELL" /\ broker[x].state = "open"
          THEN request[x].qty - broker[x].filled ELSE 0
  BY DEF ClaimedOf
<1> QED BY <1>2, <1>3, HeldIs

\* Sending an order moves nothing yet, and claims nothing: the broker has not taken it.
LEMMA HeldOnSend ==
  ASSUME DeskTypes, DeskTypes', OrdersFit, NEW a \in Runs, NEW s \in Stocks,
         NEW r \in Requests, Sends(a, s, r), NEW t \in Stocks
  PROVE  Held(t)' = Held(t) /\ Free(t)' = Free(t)
<1> DEFINE x == <<a, s>>
<1>1. /\ x \in Calls /\ request[x] = NoRequest /\ request'[x] = r
      /\ UNCHANGED <<broker, day>> /\ r # NoRequest
      /\ \A c \in Calls \ {x} : request'[c] = request[c] /\ broker'[c] = broker[c]
  BY Values, BookAssumption DEF Sends, DeskTypes
<1> HIDE DEF x
<1>2. OrderFits(x)
  BY <1>1 DEF OrdersFit
<1>3. broker[x].state = "none" /\ broker[x].filled = 0
  BY <1>1, <1>2 DEF OrderFits
<1>4. Moved(x) = 0 /\ Claimed(x) = 0
  BY <1>1 DEF Moved, Claimed
<1>5. MovedOf(r, broker[x]) = 0
  <2>1. r \in RequestSet /\ broker[x] \in BrokerOrders
    BY <1>1 DEF RequestSet, DeskTypes
  <2> QED BY <2>1, <1>1, <1>3, MovedType
<1>6. ClaimedOf(r, broker[x]) = 0
  BY <1>3 DEF ClaimedOf
<1>7. MovedOf(request'[x], broker'[x]) = 0 /\ ClaimedOf(request'[x], broker'[x]) = 0
  BY <1>1, <1>5, <1>6
<1>8. Held(t) \in Int /\ Free(t) \in Int
  BY HeldType
<1>9. /\ day.opening \in [Stocks -> Nat] /\ day'.opening = day.opening
      /\ request \in [Calls -> RequestSet] /\ broker \in [Calls -> BrokerOrders]
      /\ request' \in [Calls -> RequestSet] /\ broker' \in [Calls -> BrokerOrders]
  BY <1>1, OrderTypesHold DEF OrderTypes
<1>10. /\ MovedOf(request[x], broker[x]) = 0 /\ ClaimedOf(request[x], broker[x]) = 0
  BY <1>4, HeldIs
<1>11. /\ HeldOf(day.opening, request', broker', t) = HeldOf(day.opening, request, broker, t)
       /\ FreeOf(day.opening, request', broker', t) = FreeOf(day.opening, request, broker, t)
  <2>1. HeldChanges(day.opening, request, broker, request', broker', x, t)
    BY <1>1, <1>9, HeldOfChange
  <2>2. HeldOf(day.opening, request, broker, t) \in Int
        /\ FreeOf(day.opening, request, broker, t) \in Int
    BY <1>9, HeldOfType
  <2> QED BY <2>1, <2>2, <1>7, <1>10 DEF HeldChanges
<1> QED BY <1>9, <1>11, HeldIs

\* What a move of the broker does to the shares, and that it sells no more
\* than is free.
LEMMA HeldOnBroker ==
  ASSUME DeskTypes, DeskTypes', OrdersFit, NothingOversold, NEW x \in Calls,
         Answer(x) \/ FillLate(x)
  PROVE  /\ day' = day /\ request' = request /\ request[x] # NoRequest
         /\ \A c \in Calls \ {x} : broker'[c] = broker[c]
         /\ \A s \in Stocks \ {x[2]} : Held(s)' = Held(s)
         /\ Held(x[2])' = Held(x[2]) + (IF request[x].side = "BUY" THEN 1 ELSE -1)
                                        * (broker'[x].filled - broker[x].filled)
         /\ broker[x].filled \in Nat /\ broker'[x].filled \in Nat
         /\ broker[x].filled <= broker'[x].filled /\ broker'[x].filled <= request[x].qty
         /\ NothingOversold'
<1>1. Orders!BrokerMoves(x) /\ UNCHANGED day
  BY DEF Answer, FillLate, deskVars
<1>2. /\ request[x] \in Requests /\ UNCHANGED request
      /\ broker'[x].filled \in broker[x].filled .. request[x].qty
      /\ broker'[x].state = "rejected" => broker'[x].filled = 0
      /\ \/ broker[x].state = "none" /\ broker'[x].state \in {"rejected", "open", "closed"}
         \/ broker[x].state = "open" /\ broker'[x].state \in {"open", "closed"}
      /\ \A c \in Calls \ {x} : broker'[c] = broker[c]
  BY <1>1, BrokerStep DEF DeskTypes
<1>3. request[x] # NoRequest /\ request'[x] = request[x] /\ x[2] \in Stocks
  BY <1>2, BookAssumption, Values
<1>4. OrderFits(x)
  BY DEF OrdersFit
<1> DEFINE r == request[x]
           b == broker[x].filled
           b1 == broker'[x].filled
<1>5. /\ Moved(x) = (IF r.side = "BUY" THEN b ELSE -b)
      /\ Claimed(x) = (IF r.side = "SELL" /\ broker[x].state = "open" THEN r.qty - b ELSE 0)
      /\ r.side \in {"BUY", "SELL"} /\ r.qty \in Nat /\ b \in Nat
  BY <1>3, MovedNow
<1>6. /\ Moved(x)' = (IF r.side = "BUY" THEN b1 ELSE -b1)
      /\ Claimed(x)' = (IF r.side = "SELL" /\ broker'[x].state = "open" THEN r.qty - b1 ELSE 0)
      /\ b1 \in Nat
  <2>1. r \in RequestSet /\ broker'[x] \in BrokerOrders
    BY <1>2, OrderTypesHold DEF OrderTypes, RequestSet
  <2>2. /\ MovedOf(r, broker'[x]) = (IF r.side = "BUY" THEN b1 ELSE -b1) /\ b1 \in Nat
    BY <2>1, <1>3, <1>5, MovedType
  <2>3. ClaimedOf(r, broker'[x]) =
          IF r.side = "SELL" /\ broker'[x].state = "open" THEN r.qty - b1 ELSE 0
    BY <1>3 DEF ClaimedOf
  <2> QED BY <2>2, <2>3, <1>3, HeldIs
<1>7. \A s \in Stocks :
        /\ Held(s)' = Held(s) + IF x[2] = s THEN Moved(x)' - Moved(x) ELSE 0
        /\ Free(s)' = Free(s) + IF x[2] = s
                                THEN (Moved(x)' - Moved(x)) - (Claimed(x)' - Claimed(x))
                                ELSE 0
        /\ Held(s) \in Int /\ Free(s) \in Int /\ Free(s) >= 0
  BY <1>1, <1>2, HeldMoves, HeldType DEF NothingOversold
<1>8. b <= b1 /\ b1 <= r.qty
  BY <1>2, <1>5, <1>6
<1>9. Held(x[2])' = Held(x[2]) + (IF r.side = "BUY" THEN 1 ELSE -1) * (b1 - b)
  <2>1. Held(x[2])' = Held(x[2]) + (Moved(x)' - Moved(x))
    BY <1>3, <1>7
  <2> HIDE DEF r, b, b1
  <2>2. CASE r.side = "BUY"
    BY <2>1, <2>2, <1>3, <1>5, <1>6, <1>7
  <2>3. CASE r.side # "BUY"
    BY <2>1, <2>3, <1>3, <1>5, <1>6, <1>7
  <2> QED BY <2>2, <2>3
<1>10. \A s \in Stocks \ {x[2]} : Held(s)' = Held(s) /\ Free(s)' = Free(s)
  BY <1>7
<1>11. Free(x[2])' >= 0
  <2>1. Free(x[2])' = Free(x[2]) + ((Moved(x)' - Moved(x)) - (Claimed(x)' - Claimed(x)))
    BY <1>3, <1>7
  <2>2. Free(x[2]) \in Int /\ Free(x[2]) >= 0
    BY <1>3, <1>7
  <2>3. CASE r.side = "BUY"
    <3> HIDE DEF r, b, b1
    <3>1. Claimed(x) = 0 /\ Claimed(x)' = 0 /\ Moved(x) = b /\ Moved(x)' = b1
      BY <2>3, <1>5, <1>6
    <3> QED BY <2>1, <2>2, <3>1, <1>5, <1>6, <1>8
  <2>4. CASE r.side = "SELL"
    <3>1. CASE broker[x].state = "open"
      <4> HIDE DEF r, b, b1
      <4>1. Moved(x) = -b /\ Moved(x)' = -b1 /\ Claimed(x) = r.qty - b
        BY <2>4, <3>1, <1>5, <1>6
      <4>2. Claimed(x)' <= r.qty - b1 /\ Claimed(x)' \in Int
        BY <2>4, <1>5, <1>6, <1>8
      <4> QED BY <2>1, <2>2, <4>1, <4>2, <1>5, <1>6
    <3>2. CASE broker[x].state # "open"
      <4>1. broker[x].state = "none" /\ Answer(x)
        BY <3>2, <1>2 DEF FillLate
      <4>2. b = 0
        BY <4>1, <1>4 DEF OrderFits
      <4>3. broker'[x].state # "rejected" => r.qty <= Free(x[2])
        BY <4>1, <2>4 DEF Answer
      <4>4. broker'[x].state = "rejected" => b1 = 0
        BY <1>2
      <4>5. /\ Moved(x) = 0
            /\ Moved(x)' = -b1
            /\ Claimed(x) = 0
        <5>1. Moved(x) = -b /\ Moved(x)' = -b1
          BY <2>4, <1>5, <1>6
        <5>2. Claimed(x) = 0
          BY <3>2, <1>5
        <5>3. \A n \in Nat : n <= 0 => -n >= 0 /\ -n <= 0 /\ -n \in Int
          OBVIOUS
        <5>4. b <= 0
          BY <4>2
        <5> HIDE DEF r, b, b1
        <5>5. Moved(x) >= 0 /\ Moved(x) <= 0 /\ Moved(x) \in Int
          BY <5>1, <5>3, <5>4, <1>5
        <5> QED BY <5>1, <5>2, <5>5
      <4> HIDE DEF r, b, b1
      <4>6. Claimed(x)' <= r.qty - b1 /\ Claimed(x)' \in Int
            /\ (broker'[x].state = "rejected" => Claimed(x)' = 0)
        BY <2>4, <1>5, <1>6, <1>8
      <4>7. CASE broker'[x].state = "rejected"
        BY <2>1, <2>2, <4>4, <4>5, <4>6, <4>7
      <4>8. CASE broker'[x].state # "rejected"
        BY <2>1, <2>2, <4>3, <4>5, <4>6, <4>8, <1>5, <1>6
      <4> QED BY <4>7, <4>8
    <3> QED BY <3>1, <3>2
  <2> QED BY <2>3, <2>4, <1>5
<1>12. NothingOversold'
  <2>1. ASSUME NEW s \in Stocks PROVE Free(s)' >= 0
    <3>1. CASE s = x[2]
      BY <3>1, <1>11
    <3>2. CASE s # x[2]
      BY <3>2, <1>7, <1>10
    <3> QED BY <3>1, <3>2
  <2> QED BY <2>1 DEF NothingOversold
<1> QED BY <1>1, <1>2, <1>3, <1>5, <1>6, <1>8, <1>9, <1>10, <1>12

\* When the day begins what is held is what the day opens with, all of it free.
LEMMA OversoldInit ==
  ASSUME Init
  PROVE  \A s \in Stocks : Held(s) = day.opening[s] /\ Free(s) = day.opening[s]
                           /\ day.opening[s] >= 0
<1>1. DeskTypes
  BY TypesInit
<1> SUFFICES ASSUME NEW s \in Stocks
             PROVE  Held(s) = day.opening[s] /\ Free(s) = day.opening[s] /\ day.opening[s] >= 0
  OBVIOUS
<1>2. request = [c \in Calls |-> NoRequest]
  BY DEF Init, Orders!Init
<1>3. \A c \in Calls : Moved(c) = 0 /\ Claimed(c) = 0
  BY <1>2 DEF Moved, Claimed
<1> DEFINE f == [c \in CallsFor(s) |-> Moved(c)]
           g == [c \in CallsFor(s) |-> Claimed(c)]
<1>4. f \in [CallsFor(s) -> Int] /\ (\A c \in CallsFor(s) : f[c] = 0)
      /\ g \in [CallsFor(s) -> Int] /\ (\A c \in CallsFor(s) : g[c] = 0)
  BY <1>3, CallsForFinite
<1>5. day.opening[s] \in Nat
  BY <1>1, HeldType
<1> HIDE DEF f, g
<1>6. SumFunction(f) = 0 /\ SumFunction(g) = 0
  BY <1>4, CallsForFinite, SumOfZeros
<1> QED BY <1>5, <1>6 DEF Held, Free, f, g

\* The broker takes no sale of shares that are claimed, so no step oversells.
LEMMA OversoldStep ==
  ASSUME DeskTypes, DeskTypes', OrdersFit, NothingOversold, [Next]_vars
  PROVE  NothingOversold'
<1>1. UNCHANGED <<request, broker, day>> => NothingOversold'
  BY HeldStill DEF NothingOversold
<1>2. ASSUME NEW a \in Runs, NEW s \in Stocks, NEW r \in Requests, Sends(a, s, r)
      PROVE  NothingOversold'
  BY <1>2, HeldOnSend DEF NothingOversold
<1>3. ASSUME NEW c \in Calls, Answer(c) \/ FillLate(c) PROVE NothingOversold'
  BY <1>3, HeldOnBroker
<1>4. \A a : Between(a) \/ Ends(a) => UNCHANGED <<request, broker, day>>
  BY DEF Between, Ends
<1>5. UNCHANGED vars => UNCHANGED <<request, broker, day>>
  BY DEF vars, deskVars
<1> QED BY StepKinds, <1>1, <1>2, <1>3, <1>4, <1>5

\* What is held is at least what is free.
LEMMA HeldIsThere ==
  ASSUME DeskTypes, OrdersFit, NothingOversold, NEW s \in Stocks
  PROVE  Held(s) \in Int /\ Held(s) >= 0
<1> DEFINE g == [c \in CallsFor(s) |-> Claimed(c)]
<1>1. ASSUME NEW c \in CallsFor(s) PROVE Claimed(c) \in Int /\ Claimed(c) >= 0
  <2>1. c \in Calls
    BY CallsForFinite
  <2>2. CASE request[c] = NoRequest
    BY <2>2 DEF Claimed
  <2>3. CASE request[c] # NoRequest
    <3>1. OrderFits(c)
      BY <2>1 DEF OrdersFit
    <3> QED BY <2>1, <2>3, <3>1, MovedNow DEF OrderFits
  <2> QED BY <2>2, <2>3
<1>2. g \in [CallsFor(s) -> Int] /\ \A c \in CallsFor(s) : g[c] >= 0
  BY <1>1
<1> HIDE DEF g
<1>3. SumFunction(g) \in Int /\ SumFunction(g) >= 0
  BY <1>2, CallsForFinite, SumOfNats
<1>4. Held(s) \in Int /\ Free(s) = Held(s) - SumFunction(g) /\ Free(s) >= 0
  BY HeldType DEF Free, NothingOversold, g
<1> QED BY <1>3, <1>4
-----------------------------------------------------------------------------
\* The journal grows by an adjustment or by a booked fill, and in no other way.
LEMMA JournalSteps ==
  ASSUME DeskTypes, [Next]_vars
  PROVE  \/ journal' = journal
         \/ \E r \in Reconcilers, s \in Stocks : Adjust(r, s)
         \/ \E a \in Runs, f \in Fills, i \in 1 .. Len(journal) + 1 :
              /\ <<a, stock[a]>> \in Calls /\ request[<<a, stock[a]>>] \in Requests
              /\ BooksFill(<<a, stock[a]>>, f, i)
<1>1. ASSUME NEW a \in Runs, Book(a)
      PROVE  \/ journal' = journal
             \/ \E f \in Fills, i \in 1 .. Len(journal) + 1 :
                  /\ <<a, stock[a]>> \in Calls /\ request[<<a, stock[a]>>] \in Requests
                  /\ BooksFill(<<a, stock[a]>>, f, i)
  <2>1. PICK c : c = <<a, stock[a]>>
    OBVIOUS
  <2>2. /\ c \in Calls /\ request[c] \in Requests
        /\ BooksNothing(c) \/ \E f \in Fills, i \in 1 .. Len(journal) + 1 : BooksFill(c, f, i)
    BY <2>1, <1>1, BookStep
  <2> QED BY <2>1, <2>2 DEF BooksNothing
<1>2. ASSUME NEW a \in Runs, NEW s \in Stocks, NEW r \in Requests, Sends(a, s, r)
      PROVE  journal' = journal
  BY <1>2 DEF Sends
<1>3. ASSUME NEW c \in Calls, Answer(c) \/ FillLate(c) PROVE journal' = journal
  BY <1>3 DEF Answer, FillLate, deskVars
<1>4. UNCHANGED vars => journal' = journal
  BY DEF vars, deskVars
<1> QED BY StepKinds, <1>1, <1>2, <1>3, <1>4

\* An adjustment is one more entry at the end.
LEMMA AdjustStep ==
  ASSUME DeskTypes, NEW r \in Reconcilers, NEW s \in Stocks, Adjust(r, s)
  PROVE  \E e \in EntryRecords :
           /\ e = Entry(<<r, s>>, s, view[r][s].qty, 0)
           /\ e.by[1] = r /\ e.stock = s /\ e.delta = view[r][s].qty /\ e.price = 0
           /\ journal' = Append(journal, e)
<1>1. r \in Actors /\ view[r][s].qty \in Int
  BY Values DEF DeskTypes, Readings
<1>2. <<r, s>> \in Bys
  BY <1>1 DEF Bys
<1> DEFINE e == Entry(<<r, s>>, s, view[r][s].qty, 0)
<1>3. e \in EntryRecords
  BY <1>1, <1>2, EntryType
<1>4. journal' = Append(journal, e)
  BY DEF Adjust
<1>5. e.by[1] = r /\ e.stock = s /\ e.delta = view[r][s].qty /\ e.price = 0
  BY DEF Entry
<1> QED BY <1>3, <1>4, <1>5

\* A booked fill is one more entry somewhere.
LEMMA FillStep ==
  ASSUME DeskTypes, NEW c \in Calls, request[c] \in Requests,
         NEW f \in Fills, NEW i \in 1 .. Len(journal) + 1, BooksFill(c, f, i)
  PROVE  \E e \in EntryRecords :
           /\ e.by = c /\ e.stock = c[2] /\ e.delta = QtyDelta(request[c].side, f)
           /\ e.price = f.price /\ f.price \in Prices
           /\ journal' = InsertAt(journal, i, e)
<1> DEFINE e == Entry(c, c[2], QtyDelta(request[c].side, f), f.price)
<1>1. e \in EntryRecords /\ f.price \in Prices
  BY FillEntry
<1>2. journal' = InsertAt(journal, i, e)
  BY DEF BooksFill
<1>3. e.by = c /\ e.stock = c[2] /\ e.delta = QtyDelta(request[c].side, f) /\ e.price = f.price
  BY DEF Entry
<1> QED BY <1>1, <1>2, <1>3
-----------------------------------------------------------------------------
(* Stop lines. *)

\* What a run has booked, and what was held when the day began, has a price of
\* the day; what a reconcile has added has none.
Priced(e) == e.price \in Prices \/ (e.by[1] \in Reconcilers /\ e.price = 0)
EntriesPriced == \A k \in 1 .. Len(journal) : Priced(journal[k])

\* So are the entries a day begins with.
LEMMA PricedInit ==
  ASSUME Init
  PROVE  EntriesPriced
  BY OpeningJournal DEF EntriesPriced, Priced

\* Every step enters such entries only.
LEMMA PricedStep ==
  ASSUME DeskTypes, EntriesPriced, [Next]_vars
  PROVE  EntriesPriced'
<1>0. journal \in Ledgers(Bys, Stocks) /\ Len(journal) \in Nat
  BY LedgerFacts DEF DeskTypes
<1>1. CASE journal' = journal
  BY <1>1 DEF EntriesPriced
<1>2. ASSUME NEW r \in Reconcilers, NEW s \in Stocks, Adjust(r, s) PROVE EntriesPriced'
  <2>1. PICK e \in EntryRecords : e.by[1] = r /\ e.price = 0 /\ journal' = Append(journal, e)
    BY <1>2, AdjustStep
  <2>2. /\ Len(journal') = Len(journal) + 1 /\ journal'[Len(journal) + 1] = e
        /\ \A k \in 1 .. Len(journal) : journal'[k] = journal[k]
    BY <2>1, <1>0, AppendFacts DEF EntryRecords
  <2>3. ASSUME NEW k \in 1 .. Len(journal') PROVE Priced(journal'[k])
    <3>1. k = Len(journal) + 1 \/ k \in 1 .. Len(journal)
      BY <1>0, <2>2
    <3>2. Priced(e)
      BY <2>1 DEF Priced
    <3> QED BY <3>1, <3>2, <2>2 DEF EntriesPriced
  <2> QED BY <2>3 DEF EntriesPriced, Priced
<1>3. ASSUME NEW c \in Calls, request[c] \in Requests,
             NEW f \in Fills, NEW i \in 1 .. Len(journal) + 1, BooksFill(c, f, i)
      PROVE  EntriesPriced'
  <2>1. PICK e \in EntryRecords : e.price \in Prices /\ journal' = InsertAt(journal, i, e)
    BY <1>3, FillStep
  <2>2. /\ Len(journal') = Len(journal) + 1 /\ journal'[i] = e
        /\ \A k \in 1 .. i - 1 : journal'[k] = journal[k]
        /\ \A k \in i + 1 .. Len(journal) + 1 : journal'[k] = journal[k - 1]
    BY <2>1, <1>0, InsertFacts DEF EntryRecords
  <2>3. Priced(e)
    BY <2>1 DEF Priced
  <2>4. ASSUME NEW k \in 1 .. Len(journal') PROVE Priced(journal'[k])
    <3>1. CASE k = i
      BY <3>1, <2>2, <2>3
    <3>2. CASE k < i
      <4>1. k \in 1 .. i - 1 /\ k \in 1 .. Len(journal)
        BY <1>0, <3>2
      <4> QED BY <4>1, <2>2 DEF EntriesPriced
    <3>3. CASE k > i
      <4>1. k \in i + 1 .. Len(journal) + 1 /\ k - 1 \in 1 .. Len(journal)
        BY <1>0, <2>2, <3>3
      <4> QED BY <4>1, <2>2 DEF EntriesPriced
    <3> QED BY <3>1, <3>2, <3>3
  <2> QED BY <2>4 DEF EntriesPriced, Priced
<1> QED BY JournalSteps, <1>1, <1>2, <1>3

\* Where no price is zero a position without adjustments has cost something.
LEMMA PricedHasStop ==
  ASSUME DeskTypes, EntriesPriced, 0 \notin Prices
  PROVE  PositionsHaveStopLines
<1> SUFFICES ASSUME NEW s \in Stocks, Net(journal, s) > 0,
                    \A i \in 1..Len(journal) : journal[i].by[1] \notin Reconcilers
             PROVE  PositionInfo(journal, s).cost > 0
  BY DEF PositionsHaveStopLines
<1>1. ASSUME NEW k \in 1 .. Len(journal) PROVE journal[k].price > 0
  <2>1. journal[k].price \in Prices
    BY DEF EntriesPriced, Priced
  <2>2. \A p \in Prices : p > 0
    BY BookAssumption
  <2> QED BY <2>1, <2>2
<1> QED BY <1>1, PaidForIsPriced DEF DeskTypes
-----------------------------------------------------------------------------
(* A reconcile compares with what the ledger has. *)

\* what reconcile r has read is what the ledger has
Reads(r) ==
  at[r] = "comparing" => \A s \in Stocks : view[r][s].qty = Net(journal, s)

\* so it is with every reconcile that runs alone
ReconcilersRead ==
  "reconcile_overlap" \notin day.events => \A r \in Reconcilers : Reads(r)

\* While anyone else acts, no reconcile is under way.
LEMMA ReconcilersWait ==
  ASSUME DeskTypes, TakesTurns, "reconcile_overlap" \notin day.events,
         NEW a \in Actors, Acts(a), NEW r \in Reconcilers, r # a
  PROVE  Idle(r) /\ at'[r] = at[r] /\ Idle(r)'
<1>1. r \in Actors /\ (a \in Runs \/ a \in Reconcilers)
  BY Values DEF Actors
<1>2. CASE ~Idle(a)
  BY <1>1, <1>2 DEF TakesTurns, Acts, DeskTypes, StageType, Idle
<1>3. CASE Alone(a)
  BY <1>1, <1>3 DEF Alone, Acts, DeskTypes, StageType, Idle
<1> QED BY <1>2, <1>3 DEF Acts

\* What a reconciler does is a step of reconcile.
LEMMA ReconcilerDoes ==
  ASSUME NEW r \in Reconcilers, Does(r)
  PROVE  Reconcile(r) /\ r \in Actors /\ r \notin Runs
  BY Values, DeskAssumption DEF Does, Runs

\* Every step keeps it: the ledger waits while a reconcile compares.
LEMMA ReadsStep ==
  ASSUME DeskTypes, TakesTurns, ReconcilersRead, [Next]_vars
  PROVE  ReconcilersRead'
<1> SUFFICES ASSUME "reconcile_overlap" \notin (day.events)', NEW r \in Reconcilers
             PROVE  Reads(r)'
  BY DEF ReconcilersRead
<1>1. ASSUME UNCHANGED <<day, journal, at, view>> PROVE Reads(r)'
  BY <1>1 DEF ReconcilersRead, Reads
<1>2. ASSUME NEW c \in Calls, Answer(c) \/ FillLate(c) PROVE UNCHANGED <<day, journal, at, view>>
  BY <1>2 DEF Answer, FillLate, deskVars
<1>3. ASSUME UNCHANGED vars PROVE UNCHANGED <<day, journal, at, view>>
  BY <1>3 DEF vars, deskVars
<1>4. ASSUME NEW a \in Actors, Does(a) PROVE Reads(r)'
  <2>1. Acts(a)
    BY <1>4, ActorsAct
  <2>2. CASE a # r
    <3>1. at'[r] \in {"idle", "done"}
      BY <2>1, <2>2, ReconcilersWait DEF Acts, Idle
    <3> QED BY <3>1 DEF Reads
  <2>3. CASE a = r
    <3>1. Reconcile(r) /\ r \in Actors
      BY <1>4, <2>3, ReconcilerDoes
    <3>2. CASE StartReconcile(r)
      BY <3>1, <3>2 DEF StartReconcile, Reads, DeskTypes
    <3>3. CASE Compare(r)
      BY <3>1, <3>3 DEF Compare, Reads, DeskTypes, StageType
    <3>4. CASE EndReconcile(r)
      BY <3>1, <3>4 DEF EndReconcile, Reads, DeskTypes, StageType
    <3>5. ASSUME NEW s \in Stocks, Adjust(r, s) PROVE Reads(r)'
      BY <3>1, <3>5 DEF Adjust, Reads, DeskTypes, StageType
    <3> QED BY <3>1, <3>2, <3>3, <3>4, <3>5 DEF Reconcile
  <2> QED BY <2>2, <2>3
<1> QED BY <1>1, <1>2, <1>3, <1>4, WhoActs
-----------------------------------------------------------------------------
(* One at a time, everyone acts on what the ledger has. *)

\* the order of run a: it sells the whole position, and once it is answered,
\* the answer comes after everything the ledger has
Sells(a) ==
  at[a] = "ordered" =>
    /\ request[<<a, stock[a]>>].side = "SELL" =>
         request[<<a, stock[a]>>].qty = Net(journal, stock[a])
    /\ broker[<<a, stock[a]>>].state # "none" =>
         \A k \in 1 .. Len(journal) : journal[k].by \in since[<<a, stock[a]>>]

\* a pipeline decides on the position as it is
Decides(a) ==
  at[a] = "deciding" => view[a][stock[a]].qty = Net(journal, stock[a])

\* so does a monitor, on its snapshot
Follows(m) ==
  ~Idle(m) =>
    /\ \A s \in todo[m] \cup breached[m] : view[m][s].qty = Net(journal, s)
    /\ at[m] \in {"exiting", "ordered"} => todo[m] = {}
    /\ at[m] = "ordered" => stock[m] \notin breached[m]

\* and no adjustment takes more than is there
Adjusts(r) ==
  at[r] = "adjusting" => \A s \in todo[r] : Net(journal, s) + view[r][s].qty >= 0

\* what actor a is about to do rests on the ledger as it is
Aware(a) ==
  /\ a \in Runs => Sells(a)
  /\ a \in Pipelines => Decides(a)
  /\ a \in Monitors => Follows(a)
  /\ a \in Reconcilers => Adjusts(a)

\* the book is sound for every stock
BookIsSound == \A s \in Stocks : SoundFor(journal, s)

\* without overlap, all of this
ActOnTheBook == OneAtATime => BookIsSound /\ \A a \in Actors : Aware(a)

\* An actor that is idle is about to do nothing.
LEMMA AwareIdle ==
  ASSUME NEW a
  PROVE  /\ Idle(a) => Aware(a)
         /\ Idle(a)' => Aware(a)'
  BY DEF Idle, Aware, Sells, Decides, Follows, Adjusts

\* The day begins with a sound book of what is held, each stock at the price
\* of its one entry.
LEMMA OpeningBook ==
  ASSUME Init, NEW s \in Stocks
  PROVE  /\ SoundFor(journal, s) /\ Net(journal, s) = day.opening[s]
         /\ day.opening[s] = 0 => PositionInfo(journal, s).cost = 0
         /\ day.opening[s] > 0 =>
              \E i \in 1 .. Len(journal) :
                /\ journal[i].stock = s /\ journal[i].delta > 0
                /\ PositionInfo(journal, s).cost = day.opening[s] * journal[i].price
<1>1. PICK p \in [Stocks -> Prices] : Opens(p)
  BY OpeningJournal
<1>2. journal \in Ledgers(Bys, Stocks) /\ day.opening[s] \in Nat /\ p[s] \in Nat
  BY OpeningJournal, TypesInit, BookAssumption DEF DeskTypes
<1>3. CASE day.opening[s] = 0
  <2>1. \A i \in 1 .. Len(journal) : journal[i].stock # s
    BY <1>1, <1>3 DEF Opens
  <2> QED BY <2>1, <1>2, <1>3, NoEntry DEF SoundFor, NoShares
<1>4. CASE day.opening[s] > 0
  <2>1. PICK i \in 1 .. Len(journal) :
         /\ journal[i] = Entry(<<"opening", s>>, s, day.opening[s], p[s])
         /\ \A j \in 1 .. Len(journal) : j # i => journal[j].stock # s
    BY <1>1, <1>4 DEF Opens
  <2>2. journal[i].stock = s /\ journal[i].delta = day.opening[s] /\ journal[i].delta > 0
    BY <2>1, <1>4 DEF Entry
  <2>3. \A j \in 1 .. Len(journal) : j # i => journal[j].stock # journal[i].stock
    BY <2>1, <2>2
  <2>4. /\ Net(journal, journal[i].stock) = journal[i].delta
        /\ PositionInfo(journal, journal[i].stock)
             = [qty |-> journal[i].delta, cost |-> journal[i].delta * journal[i].price]
        /\ \A n \in 0 .. Len(journal) :
             Net(SubSeq(journal, 1, n), journal[i].stock) >= 0
    BY ONLY <2>2, <2>3, <1>2, OneEntry, i \in 1 .. Len(journal)
  <2>5. SoundFor(journal, s) /\ Net(journal, s) = day.opening[s]
    BY <2>2, <2>4 DEF SoundFor
  <2>6. PositionInfo(journal, s).cost = day.opening[s] * journal[i].price
    BY <2>2, <2>4
  <2> QED BY <2>2, <2>5, <2>6, <1>4
<1> QED BY <1>2, <1>3, <1>4

\* A day begins with a sound book and idle actors.
LEMMA ActInit ==
  ASSUME Init
  PROVE  ActOnTheBook
<1>1. \A a \in Actors : Idle(a)
  BY DEF Init, Idle
<1> QED BY <1>1, OpeningBook, AwareIdle DEF ActOnTheBook, BookIsSound
-----------------------------------------------------------------------------
\* The roles are distinct
LEMMA Roles ==
  /\ \A a \in Pipelines : a \in Runs /\ a \in Actors /\ a \notin Monitors /\ a \notin Reconcilers
  /\ \A a \in Monitors : a \in Runs /\ a \in Actors /\ a \notin Pipelines /\ a \notin Reconcilers
  /\ \A a \in Reconcilers :
       a \notin Runs /\ a \in Actors /\ a \notin Pipelines /\ a \notin Monitors
  BY Values, DeskAssumption DEF Runs, Actors

\* A sound book has at least nothing of each stock.
LEMMA BookHolds ==
  ASSUME DeskTypes, BookIsSound, NEW s \in Stocks
  PROVE  /\ Net(journal, s) \in Nat /\ PositionInfo(journal, s).qty = Net(journal, s)
         /\ SoundFor(journal, s)
<1>1. PositionInfo(journal, s).qty \in Nat
  BY ViewsOfJournal
<1> QED BY <1>1 DEF BookIsSound, SoundFor

\* A new order has not been answered.
LEMMA NewOrder ==
  ASSUME DeskTypes, OrdersFit, NEW a \in Runs, NEW s \in Stocks, NEW r, Sends(a, s, r)
  PROVE  /\ request'[<<a, s>>] = r /\ broker'[<<a, s>>].state = "none"
         /\ at'[a] = "ordered" /\ stock'[a] = s /\ journal' = journal
<1>1. <<a, s>> \in Calls
  BY Values
<1>2. OrderFits(<<a, s>>)
  BY <1>1 DEF OrdersFit
<1>3. request' = [request EXCEPT ![<<a, s>>] = r] /\ request[<<a, s>>] = NoRequest
      /\ UNCHANGED <<broker, journal>> /\ at' = [at EXCEPT ![a] = "ordered"] /\ stock'[a] = s
  BY DEF Sends
<1>4. request'[<<a, s>>] = r
  BY <1>1, <1>3 DEF DeskTypes
<1>5. at'[a] = "ordered"
  BY <1>3, Values DEF DeskTypes, StageType
<1> QED BY <1>2, <1>3, <1>4, <1>5 DEF OrderFits

\* A pipeline decides on what it has just read, and nobody else writes.
LEMMA PipelineAware ==
  ASSUME DeskTypes, OrdersFit, BookIsSound, NEW a \in Pipelines, Decides(a), Pipeline(a)
  PROVE  Aware(a)' /\ journal' = journal
<1>0. a \in Runs /\ a \in Actors /\ a \notin Monitors /\ a \notin Reconcilers
      /\ stock[a] \in Stocks
  BY Roles DEF DeskTypes
<1>1. Aware(a)' <=> Sells(a)' /\ Decides(a)'
  BY <1>0 DEF Aware
<1>2. ASSUME NEW x, at' = [at EXCEPT ![a] = x], x \notin {"ordered", "deciding"}
      PROVE  Aware(a)'
  <2>1. at'[a] = x
    BY <1>0, <1>2 DEF DeskTypes, StageType
  <2> QED BY <2>1, <1>1, <1>2 DEF Sells, Decides
<1>3. ASSUME StartPipeline(a) PROVE Aware(a)' /\ journal' = journal
  <2>1. at'[a] = "choosing" /\ journal' = journal
    BY <1>0, <1>3 DEF StartPipeline, DeskTypes, StageType
  <2> QED BY <2>1, <1>1 DEF Sells, Decides
<1>4. ASSUME NEW s \in Stocks, PassOver(a, s) PROVE Aware(a)' /\ journal' = journal
  BY <1>2, <1>4 DEF PassOver
<1>5. ASSUME NEW p \in Prices, Hold(a, p) PROVE Aware(a)' /\ journal' = journal
  BY <1>0, <1>2, <1>5, OnwardStep DEF Hold
<1>6. ASSUME NEW s \in Stocks, ReadPosition(a, s) PROVE Aware(a)' /\ journal' = journal
  <2>1. at'[a] = "deciding" /\ stock'[a] = s /\ journal' = journal
    BY <1>0, <1>6 DEF ReadPosition, DeskTypes, StageType
  <2>2. view'[a][s] = PositionInfo(journal, s)
    BY <1>0, <1>6 DEF ReadPosition, DeskTypes, Readings
  <2>3. PositionInfo(journal, s).qty = Net(journal, s)
    BY BookHolds
  <2> QED BY <2>1, <2>2, <2>3, <1>1 DEF Sells, Decides
<1>7. ASSUME NEW p \in Prices, Exit(a, p) PROVE Aware(a)' /\ journal' = journal
  <2>1. PICK r : /\ Sends(a, stock[a], r) /\ at[a] = "deciding"
                 /\ r.side = "SELL" /\ r.qty = view[a][stock[a]].qty
    BY <1>7, SendSteps
  <2>2. /\ request'[<<a, stock[a]>>] = r /\ broker'[<<a, stock[a]>>].state = "none"
        /\ at'[a] = "ordered" /\ stock'[a] = stock[a] /\ journal' = journal
    BY <2>1, <1>0, NewOrder
  <2> QED BY <2>1, <2>2, <1>1 DEF Sells, Decides
<1>8. ASSUME NEW p \in Prices, NEW k \in Cashes, NEW budget \in Budgets, Enter(a, p, k, budget)
      PROVE  Aware(a)' /\ journal' = journal
  <2>1. PICK r : Sends(a, stock[a], r) /\ r.side = "BUY"
    BY <1>8, SendSteps
  <2>2. /\ request'[<<a, stock[a]>>] = r /\ broker'[<<a, stock[a]>>].state = "none"
        /\ at'[a] = "ordered" /\ stock'[a] = stock[a] /\ journal' = journal
    BY <2>1, <1>0, NewOrder
  <2> QED BY <2>1, <2>2, <1>1 DEF Sells, Decides
<1> QED BY <1>3, <1>4, <1>5, <1>6, <1>7, <1>8 DEF Pipeline

\* A monitor goes through its snapshot, each stock once, and nobody else writes.
LEMMA MonitorAware ==
  ASSUME DeskTypes, OrdersFit, BookIsSound, NEW m \in Monitors, Follows(m), Monitor(m)
  PROVE  Aware(m)' /\ journal' = journal
<1>0. m \in Runs /\ m \in Actors /\ m \notin Pipelines /\ m \notin Reconcilers
  BY Roles
<1>1. Aware(m)' <=> Sells(m)' /\ Follows(m)'
  BY <1>0 DEF Aware
<1>2. \A x : at' = [at EXCEPT ![m] = x] => at'[m] = x
  BY <1>0 DEF DeskTypes, StageType
<1>3. CASE StartMonitor(m)
  <2>1. at'[m] = "inspecting" /\ journal' = journal
    BY <1>2, <1>3 DEF StartMonitor
  <2>2. \A s \in Stocks : view'[m][s].qty = Net(journal, s)
    BY <1>0, <1>3 DEF StartMonitor, DeskTypes
  <2>3. todo'[m] \subseteq Stocks /\ breached'[m] \subseteq Stocks
    BY <1>0, <1>3 DEF StartMonitor, DeskTypes, OpenPositions
  <2> QED BY <2>1, <2>2, <2>3, <1>1 DEF Sells, Follows, Idle
<1>4. ASSUME NEW s \in Stocks, NEW p \in Prices, Inspect(m, s, p)
      PROVE  Aware(m)' /\ journal' = journal
  <2>1. at' = at /\ at[m] = "inspecting" /\ journal' = journal /\ view' = view /\ s \in todo[m]
    BY <1>4 DEF Inspect
  <2>2. todo'[m] \cup breached'[m] \subseteq todo[m] \cup breached[m]
    BY <1>0, <1>4 DEF Inspect, DeskTypes
  <2> QED BY <2>1, <2>2, <1>1 DEF Sells, Follows, Idle
<1>5. CASE EndInspection(m)
  <2>1. PICK x : x # "ordered" /\ at' = [at EXCEPT ![m] = x]
    BY <1>0, <1>5, OnwardStep DEF EndInspection
  <2>2. UNCHANGED <<journal, view, todo, breached>> /\ todo[m] = {} /\ at[m] = "inspecting"
    BY <1>5 DEF EndInspection
  <2>3. at'[m] = x
    BY <2>1, <1>2
  <2> QED BY <2>1, <2>2, <2>3, <1>1 DEF Sells, Follows, Idle
<1>6. CASE BreakOff(m)
  <2>1. at'[m] = "done" /\ journal' = journal
    BY <1>2, <1>6 DEF BreakOff
  <2> QED BY <2>1, AwareIdle DEF Idle
<1>7. ASSUME NEW s \in Stocks, NEW p \in Prices, ProtectiveExit(m, s, p)
      PROVE  Aware(m)' /\ journal' = journal
  <2>1. PICK r : /\ Sends(m, s, r) /\ at[m] = "exiting"
                 /\ r.side = "SELL" /\ r.qty = view[m][s].qty /\ s \in breached[m]
                 /\ breached' = [breached EXCEPT ![m] = @ \ {s}]
    BY <1>7, SendSteps
  <2>2. /\ request'[<<m, s>>] = r /\ broker'[<<m, s>>].state = "none"
        /\ at'[m] = "ordered" /\ stock'[m] = s /\ journal' = journal
    BY <2>1, <1>0, NewOrder
  <2>3. breached'[m] = breached[m] \ {s} /\ UNCHANGED <<todo, view>>
    BY <2>1 DEF Sends, DeskTypes
  <2>4. Sells(m)'
    BY <2>1, <2>2 DEF Sells, Follows, Idle
  <2>5. Follows(m)'
    BY <2>1, <2>2, <2>3 DEF Follows, Idle
  <2> QED BY <2>2, <2>4, <2>5, <1>1
<1> QED BY <1>3, <1>4, <1>5, <1>6, <1>7 DEF Monitor

\* What a reconcile is about to add leaves what the broker has answered.
LEMMA CompareAware ==
  ASSUME DeskTypes, OrdersFit, NothingOversold, NEW r \in Reconcilers, Reads(r), Compare(r)
  PROVE  Adjusts(r)'
<1>0. r \in Actors
  BY Roles
<1>1. PICK answer : Compares(r, answer)
  BY CompareStep
<1>2. \A s \in Stocks : answer[s] \in Int /\ answer[s] >= 0
  BY <1>1, HeldIsThere DEF Compares
<1>3. at[r] = "comparing" /\ journal' = journal
  BY DEF Compare
<1>4. ASSUME NEW s \in todo'[r] PROVE Net(journal, s) + view'[r][s].qty >= 0
  <2>1. s \in Stocks /\ view'[r][s].qty = answer[s] - view[r][s].qty
    BY <1>0, <1>1 DEF Compares, DeskTypes, Readings
  <2>2. view[r][s].qty = Net(journal, s) /\ Net(journal, s) \in Int
    BY <2>1, <1>3, ViewsOfJournal DEF Reads
  <2> QED BY <2>1, <2>2, <1>2
<1> QED BY <1>3, <1>4 DEF Adjusts

\* An adjustment takes no more than there is, and comes once for each stock.
LEMMA AdjustAware ==
  ASSUME DeskTypes, BookIsSound, NEW r \in Reconcilers, Adjusts(r),
         NEW s \in Stocks, Adjust(r, s)
  PROVE  BookIsSound' /\ Adjusts(r)'
<1>0. r \in Actors /\ journal \in Ledgers(Bys, Stocks)
  BY Roles DEF DeskTypes
<1>1. PICK e \in EntryRecords :
             /\ e = Entry(<<r, s>>, s, view[r][s].qty, 0)
             /\ e.by[1] = r /\ e.stock = s /\ e.delta = view[r][s].qty /\ e.price = 0
             /\ journal' = Append(journal, e)
  BY AdjustStep, Zenon
<1>2. at[r] = "adjusting" /\ s \in todo[r] /\ todo'[r] = todo[r] \ {s} /\ UNCHANGED <<view, at>>
      /\ todo[r] \subseteq Stocks
  BY <1>0 DEF Adjust, DeskTypes
<1>3. ASSUME NEW t \in Stocks
      PROVE  /\ Net(journal, t) + Delta(e, t) >= 0
             /\ t # s => Delta(e, t) = 0
  <2>1. CASE t = s
    BY <2>1, <1>1, <1>2 DEF Delta, Adjusts
  <2>2. CASE t # s
    BY <2>2, <1>1, BookHolds DEF Delta
  <2> QED BY <2>1, <2>2
<1>4. ASSUME NEW t \in Stocks PROVE SoundFor(journal', t)
  BY <1>0, <1>1, <1>3, BookHolds, SoundAppend DEF EntryRecords
<1>5. ASSUME NEW t \in todo'[r] PROVE Net(journal', t) + view'[r][t].qty >= 0
  <2>1. t \in Stocks /\ t # s /\ t \in todo[r] /\ view' = view
    BY <1>2
  <2>2. Net(journal', t) = Net(journal, t) + Delta(e, t)
    BY <1>0, <1>1, NetOfAppend DEF EntryRecords
  <2>3. Net(journal', t) = Net(journal, t)
    BY <2>1, <2>2, <1>3, ViewsOfJournal
  <2> QED BY <2>1, <2>3, <1>2 DEF Adjusts
<1> QED BY <1>4, <1>5 DEF BookIsSound, SoundFor, Adjusts

\* What a run books comes last, and a sale is of what there was to be sold.
LEMMA BookAppends ==
  ASSUME DeskTypes, OrdersFit, NEW a \in Runs, Sells(a), Book(a), NEW c, c = <<a, stock[a]>>
  PROVE  \/ journal' = journal
         \/ \E e \in EntryRecords, f \in Fills :
              /\ journal' = Append(journal, e)
              /\ e.stock = stock[a] /\ e.price = f.price
              /\ e.delta = QtyDelta(request[c].side, f)
              /\ f.qty \in Nat /\ f.qty > 0 /\ f.price \in Nat
              /\ f.qty <= request[c].qty /\ request[c].qty \in Nat
              /\ "late_fill" \notin day.events => f.qty = request[c].qty
              /\ request[c].side \in Sides
              /\ request[c].side # "BUY" => request[c].qty = Net(journal, stock[a])
<1>1. /\ c \in Calls /\ request[c] \in Requests /\ broker[c].state # "none"
      /\ at[a] = "ordered"
      /\ \/ BooksNothing(c)
         \/ \E f \in Fills, i \in 1 .. Len(journal) + 1 : BooksFill(c, f, i)
  BY BookStep
<1>2. c[2] = stock[a] /\ journal \in Ledgers(Bys, Stocks)
  BY DEF DeskTypes
<1>3. ASSUME NEW f \in Fills, NEW i \in 1 .. Len(journal) + 1, BooksFill(c, f, i)
      PROVE  \E e \in EntryRecords :
               /\ journal' = Append(journal, e)
               /\ e.stock = stock[a] /\ e.price = f.price
               /\ e.delta = QtyDelta(request[c].side, f)
  <2>1. PICK e \in EntryRecords :
          /\ e.stock = stock[a] /\ e.delta = QtyDelta(request[c].side, f)
          /\ e.price = f.price /\ journal' = InsertAt(journal, i, e)
    BY <1>1, <1>2, <1>3, FillStep
  <2>2. \A k \in 1 .. Len(journal) : k < i
    BY <1>1, <1>3 DEF Sells, BooksFill
  <2>3. i = Len(journal) + 1
    BY <2>2, <1>2, LedgerFacts
  <2>4. journal' = Append(journal, e)
    BY <2>1, <2>3, <1>2, InsertLast DEF EntryRecords
  <2> QED BY <2>1, <2>4
<1>4. ASSUME NEW f \in Fills, NEW i \in 1 .. Len(journal) + 1, BooksFill(c, f, i)
      PROVE  /\ f.qty \in Nat /\ f.qty > 0 /\ f.price \in Nat
             /\ f.qty <= request[c].qty /\ request[c].qty \in Nat
             /\ "late_fill" \notin day.events => f.qty = request[c].qty
  <2>1. f.qty \in Nat /\ f.qty > 0 /\ f.price \in Nat
    BY <1>1, FillEntry, BookAssumption
  <2>2. request[c] # NoRequest /\ broker[c].filled \in Nat /\ request[c].qty \in Nat
    BY <1>1, MovedNow, BookAssumption
  <2>3. OrderFits(c)
    BY <1>1 DEF OrdersFit
  <2>4. f.qty <= broker[c].filled /\ broker[c].filled <= request[c].qty
    BY <2>2, <2>3, <1>4 DEF OrderFits, BooksFill
  <2>5. ASSUME "late_fill" \notin day.events PROVE f.qty = request[c].qty
    <3>1. broker[c].filled # 0
      BY <2>1, <2>2, <2>4
    <3>2. broker[c].state = "closed"
      BY <3>1, <2>3, <2>5, <1>1 DEF OrderFits, DeskTypes, BrokerOrders
    <3> QED BY <3>2, <2>3, <2>5, <1>4 DEF OrderFits, BooksFill
  <2> QED BY <2>1, <2>2, <2>4, <2>5
<1>5. /\ request[c].side \in Sides
      /\ request[c].side # "BUY" => request[c].qty = Net(journal, stock[a])
  BY <1>1 DEF Sells, Requests, Sides
<1> QED BY <1>1, <1>3, <1>4, <1>5 DEF BooksNothing

\* So the book stays sound, and the run goes on with it.
LEMMA BookAware ==
  ASSUME DeskTypes, OrdersFit, BookIsSound, NEW a \in Runs, Aware(a), Book(a)
  PROVE  BookIsSound' /\ Aware(a)'
<1>0. a \in Actors /\ a \notin Reconcilers /\ journal \in Ledgers(Bys, Stocks)
      /\ stock[a] \in Stocks
  BY Roles DEF DeskTypes, Runs
<1>1. Ends(a) /\ Sells(a) /\ at[a] = "ordered"
  BY <1>0, EndSteps DEF Aware, Ends
<1>2. PICK x \in {"done", "choosing", "exiting"} : at' = [at EXCEPT ![a] = x]
  BY <1>1 DEF Ends
<1>3. at'[a] = x /\ UNCHANGED <<stock, todo, breached, view>>
  BY <1>0, <1>1, <1>2 DEF Ends, DeskTypes, StageType
<1>4. PICK c : c = <<a, stock[a]>>
  OBVIOUS
<1>7. /\ BookIsSound'
      /\ \A t \in Stocks \ {stock[a]} : Net(journal', t) = Net(journal, t)
  <2>1. CASE journal' = journal
    BY <2>1 DEF BookIsSound, SoundFor
  <2>2. ASSUME NEW e \in EntryRecords, NEW f \in Fills,
               /\ journal' = Append(journal, e) /\ e.stock = stock[a]
               /\ e.delta = QtyDelta(request[c].side, f)
               /\ f.qty \in Nat /\ f.qty <= request[c].qty /\ request[c].qty \in Nat
               /\ request[c].side # "BUY" => request[c].qty = Net(journal, stock[a])
        PROVE  /\ BookIsSound'
               /\ \A t \in Stocks \ {stock[a]} : Net(journal', t) = Net(journal, t)
    <3>1. \A t \in Stocks : t # stock[a] => Delta(e, t) = 0
      BY <2>2 DEF Delta
    <3>2. Net(journal, stock[a]) + Delta(e, stock[a]) >= 0
      BY <2>2, <1>0, BookHolds DEF Delta, QtyDelta
    <3>3. ASSUME NEW t \in Stocks PROVE SoundFor(journal', t)
      <4>1. Net(journal, t) + Delta(e, t) >= 0
        BY <3>1, <3>2, BookHolds
      <4> QED BY <4>1, <2>2, <1>0, BookHolds, SoundAppend DEF EntryRecords
    <3>4. ASSUME NEW t \in Stocks \ {stock[a]} PROVE Net(journal', t) = Net(journal, t)
      <4>1. Net(journal', t) = Net(journal, t) + Delta(e, t)
        BY <2>2, <1>0, NetOfAppend DEF EntryRecords
      <4> QED BY <4>1, <3>1, ViewsOfJournal
    <3>5. BookIsSound'
      BY <3>3 DEF BookIsSound, SoundFor
    <3> QED BY <3>4, <3>5
  <2> QED BY <2>1, <2>2, <1>1, <1>4, BookAppends
<1>8. Sells(a)' /\ (a \in Pipelines => Decides(a)')
  BY <1>3 DEF Sells, Decides
<1>9. a \in Monitors => Follows(a)'
  <2> SUFFICES ASSUME a \in Monitors PROVE Follows(a)'
    OBVIOUS
  <2>1. Follows(a) /\ todo[a] \subseteq Stocks /\ breached[a] \subseteq Stocks
    BY <1>0 DEF Aware, DeskTypes
  <2>2. todo[a] = {} /\ stock[a] \notin breached[a]
        /\ \A s \in todo[a] \cup breached[a] : view[a][s].qty = Net(journal, s)
    BY <2>1, <1>1 DEF Follows, Idle
  <2>3. \A s \in todo'[a] \cup breached'[a] : view'[a][s].qty = Net(journal', s)
    BY <2>1, <2>2, <1>3, <1>7
  <2> QED BY <2>2, <2>3, <1>3 DEF Follows
<1> QED BY <1>0, <1>7, <1>8, <1>9 DEF Aware

\* The run goes on without rows; the ledger is as it was.
LEMMA LoseAware ==
  ASSUME DeskTypes, NEW a \in Runs, Aware(a), LoseRows(a)
  PROVE  Aware(a)' /\ journal' = journal
<1>0. a \in Actors /\ a \notin Reconcilers
  BY Roles DEF Runs
<1>1. Ends(a) /\ journal' = journal
  BY EndSteps
<1>2. PICK x \in {"done", "choosing", "exiting"} : at' = [at EXCEPT ![a] = x]
  BY <1>1 DEF Ends
<1>3. at'[a] = x /\ UNCHANGED <<stock, todo, breached, view>> /\ at[a] = "ordered"
  BY <1>0, <1>1, <1>2 DEF Ends, DeskTypes, StageType
<1>4. Sells(a)' /\ (a \in Pipelines => Decides(a)')
  BY <1>3 DEF Sells, Decides
<1>5. a \in Monitors => Follows(a)'
  BY <1>1, <1>3 DEF Aware, Follows, Idle
<1> QED BY <1>0, <1>1, <1>4, <1>5 DEF Aware

\* An answer comes after everything the ledger has.
LEMMA BrokerAware ==
  ASSUME DeskTypes, NEW c \in Calls, Answer(c) \/ FillLate(c), NEW a \in Actors, Aware(a)
  PROVE  Aware(a)' /\ journal' = journal
<1>1. UNCHANGED <<request, day, journal, at, stock, todo, breached, view>>
  <2>1. Orders!BrokerMoves(c)
    BY DEF Answer, FillLate
  <2>2. UNCHANGED request
    BY <2>1, BrokerStep
  <2> QED BY <2>2 DEF Answer, FillLate, deskVars
<1>2. ASSUME a \in Runs PROVE Sells(a)'
  <2> SUFFICES ASSUME at[a] = "ordered", NEW d, d = <<a, stock[a]>>
               PROVE  broker'[d].state # "none" =>
                        \A k \in 1 .. Len(journal) : journal[k].by \in since'[d]
    BY <1>1, <1>2 DEF Sells, Aware
  <2>1. d \in Calls
    BY <1>2, Values DEF DeskTypes
  <2>2. broker[d].state # "none" => \A k \in 1 .. Len(journal) : journal[k].by \in since[d]
    BY <1>2 DEF Aware, Sells
  <2>3. CASE c # d
    <3>1. broker'[d] = broker[d]
      BY <2>1, <2>3, BrokerStep DEF Answer, FillLate, DeskTypes
    <3>2. since'[d] = since[d]
      BY <2>1, <2>3 DEF Answer, FillLate, deskVars, DeskTypes
    <3> QED BY <2>2, <3>1, <3>2
  <2>4. CASE c = d /\ Answer(c)
    <3>1. since'[d] = {e.by : e \in ToSet(journal)}
      BY <2>1, <2>4 DEF Answer, DeskTypes
    <3>2. journal \in Seq(EntryRecords)
      BY DEF DeskTypes, Ledgers, EntryRecords
    <3>3. \A k \in 1 .. Len(journal) : journal[k] \in ToSet(journal)
      BY <3>2 DEF ToSet
    <3> QED BY <3>1, <3>3
  <2>5. CASE c = d /\ FillLate(c)
    <3>1. broker[d].state = "open" /\ since' = since
      BY <2>5 DEF FillLate, deskVars
    <3> QED BY <2>2, <3>1
  <2> QED BY <2>3, <2>4, <2>5
<1>3. a \in Pipelines => Decides(a)'
  BY <1>1 DEF Aware, Decides
<1>4. a \in Monitors => Follows(a)'
  BY <1>1 DEF Aware, Follows, Idle
<1>5. a \in Reconcilers => Adjusts(a)'
  BY <1>1 DEF Aware, Adjusts
<1> QED BY <1>1, <1>2, <1>3, <1>4, <1>5 DEF Aware

\* Every step keeps the book sound and everyone aware.
LEMMA ActStep ==
  ASSUME DeskTypes, DeskTypes', OrdersFit, TakesTurns, NothingOversold, ReconcilersRead,
         ActOnTheBook, [Next]_vars
  PROVE  ActOnTheBook'
<1> SUFFICES ASSUME OneAtATime' PROVE BookIsSound' /\ \A b \in Actors : Aware(b)'
  BY DEF ActOnTheBook
<1>0. day' = day
  <2>1. \A a \in Actors : Does(a) => day' = day
    BY ActorsAct DEF Acts
  <2> QED BY <2>1, WhoActs DEF Answer, FillLate, vars, deskVars
<1>1. OneAtATime /\ BookIsSound /\ (\A a \in Actors : Aware(a))
      /\ "reconcile_overlap" \notin day.events
  BY <1>0 DEF ActOnTheBook, OneAtATime
<1>2. journal' = journal => BookIsSound'
  BY <1>1 DEF BookIsSound, SoundFor
<1>3. ASSUME NEW a \in Actors, Does(a) PROVE BookIsSound' /\ \A b \in Actors : Aware(b)'
  <2>1. \A b \in Actors \ {a} : Idle(b)'
    BY <1>1, <1>3, ActorsAct, OthersIdle
  <2>2. \A b \in Actors \ {a} : Aware(b)'
    BY <2>1, AwareIdle
  <2>3. BookIsSound' /\ Aware(a)'
    <3>1. CASE a \in Pipelines /\ Pipeline(a)
      BY <3>1, <1>1, <1>2, PipelineAware DEF Aware
    <3>2. CASE a \in Monitors /\ Monitor(a)
      BY <3>2, <1>1, <1>2, MonitorAware DEF Aware
    <3>3. CASE a \in Reconcilers /\ Reconcile(a)
      <4>1. Aware(a)' <=> Adjusts(a)'
        BY <3>3, Roles DEF Aware
      <4>2. Adjusts(a) /\ Reads(a)
        BY <3>3, <1>1 DEF Aware, ReconcilersRead
      <4>3. CASE StartReconcile(a) \/ EndReconcile(a)
        <5>1. at'[a] \in {"comparing", "done"} /\ journal' = journal
          BY <4>3 DEF StartReconcile, EndReconcile, DeskTypes, StageType
        <5> QED BY <5>1, <4>1, <1>2 DEF Adjusts
      <4>4. CASE Compare(a)
        BY <3>3, <4>1, <4>2, <4>4, <1>2, CompareAware DEF Compare
      <4>5. ASSUME NEW s \in Stocks, Adjust(a, s) PROVE BookIsSound' /\ Aware(a)'
        BY <3>3, <4>1, <4>2, <4>5, <1>1, AdjustAware
      <4> QED BY <3>3, <4>3, <4>4, <4>5 DEF Reconcile
    <3>4. CASE a \in Runs /\ Book(a)
      BY <3>4, <1>1, BookAware
    <3>5. CASE a \in Runs /\ LoseRows(a)
      BY <3>5, <1>1, <1>2, LoseAware
    <3> QED BY <3>1, <3>2, <3>3, <3>4, <3>5, <1>3 DEF Does
  <2> QED BY <2>2, <2>3
<1>4. ASSUME NEW c \in Calls, Answer(c) \/ FillLate(c)
      PROVE  BookIsSound' /\ \A b \in Actors : Aware(b)'
  <2>1. journal' = journal
    BY <1>4 DEF Answer, FillLate, deskVars
  <2> QED BY <2>1, <1>1, <1>2, <1>4, BrokerAware
<1>5. CASE UNCHANGED vars
  <2>1. UNCHANGED <<request, broker, journal, at, stock, todo, breached, view, since>>
    BY <1>5 DEF vars, deskVars
  <2> QED BY <2>1, <1>1, <1>2 DEF Aware, Sells, Decides, Follows, Adjusts, Idle
<1> QED BY <1>3, <1>4, <1>5, WhoActs

\* The two properties it is for
LEMMA ActOnTheBookShows ==
  ASSUME DeskTypes, ActOnTheBook
  PROVE  LedgerNeverShort /\ ViewsAgree
  BY DEF ActOnTheBook, BookIsSound, SoundFor, LedgerNeverShort, ViewsAgree
-----------------------------------------------------------------------------
(* The ledger and the broker, when no rows are lost. *)

\* what the rows of an order have added to the ledger
BookedOf(d) == IF d.pos = <<>> THEN 0 ELSE d.pos[1].delta
BookedFor(rows, s) == SumFunction([c \in CallsFor(s) |-> BookedOf(rows[c])])

\* What rows add is a whole number: nothing without a fill, the fill otherwise.
LEMMA BookedType ==
  /\ \A d \in BookRows : BookedOf(d) \in Int
  /\ BookedOf(NoRows) = 0 /\ \A t : BookedOf(Submitted(t)) = 0
  /\ \A r, f : BookedOf(Booked(r, f)) = QtyDelta(r.side, f)
<1>1. \A r \in Requests, f \in Fills : QtyDelta(r.side, f) \in Int
  BY BookAssumption DEF QtyDelta, Fills
<1>2. BookedOf(NoRows) = 0 /\ \A t : BookedOf(Submitted(t)) = 0
  BY RowFacts DEF BookedOf
<1>3. \A r, f : BookedOf(Booked(r, f)) = QtyDelta(r.side, f)
  BY RowFacts DEF BookedOf
<1> QED BY <1>1, <1>2, <1>3 DEF BookRows

\* So is their sum over the orders of a stock.
LEMMA BookedForType ==
  ASSUME NEW rows \in [Calls -> BookRows], NEW s
  PROVE  /\ [c \in CallsFor(s) |-> BookedOf(rows[c])] \in [CallsFor(s) -> Int]
         /\ BookedFor(rows, s) \in Int
<1> DEFINE f == [c \in CallsFor(s) |-> BookedOf(rows[c])]
<1>1. f \in [CallsFor(s) -> Int]
  BY CallsForFinite, BookedType
<1> HIDE DEF f
<1>2. SumFunction(f) \in Int
  BY <1>1, CallsForFinite, SumType
<1> QED BY <1>1, <1>2 DEF f, BookedFor

\* One more booking counts for its stock.
LEMMA BookedChange ==
  ASSUME NEW rows \in [Calls -> BookRows], NEW rows1 \in [Calls -> BookRows],
         NEW x \in Calls, \A c \in Calls \ {x} : rows1[c] = rows[c],
         BookedOf(rows[x]) = 0, NEW s
  PROVE  BookedFor(rows1, s) = BookedFor(rows, s) + IF x[2] = s THEN BookedOf(rows1[x]) ELSE 0
<1> DEFINE S == CallsFor(s)
           f == [c \in S |-> BookedOf(rows[c])]
           f1 == [c \in S |-> BookedOf(rows1[c])]
<1>1. f \in [S -> Int] /\ f1 \in [S -> Int]
  BY BookedForType
<1>2. IsFiniteSet(S) /\ (x \in S <=> x[2] = s)
  BY CallsForFinite DEF CallsFor
<1>3. /\ \A c \in S \ {x} : f1[c] = f[c]
      /\ x \in S => f[x] = 0 /\ f1[x] = BookedOf(rows1[x])
  BY CallsForFinite
<1>4. BookedFor(rows, s) = SumFunction(f) /\ BookedFor(rows1, s) = SumFunction(f1)
  BY DEF BookedFor
<1> HIDE DEF f, f1, S
<1>5. SumFunction(f) \in Int /\ BookedOf(rows1[x]) \in Int
  BY <1>1, <1>2, SumType, BookedType
<1>6. CASE x[2] = s
  <2>1. SumFunction(f1) = SumFunction(f) + f1[x] - f[x]
    BY <1>1, <1>2, <1>3, <1>6, SumChange
  <2> QED BY <2>1, <1>2, <1>3, <1>4, <1>5, <1>6
<1>7. CASE x[2] # s
  <2>1. \A c \in S : f1[c] = f[c]
    BY <1>2, <1>3, <1>7
  <2>2. f1 = f
    BY <2>1, <1>1
  <2> QED BY <2>2, <1>4, <1>5, <1>7
<1> QED BY <1>6, <1>7

\* What a day that may only overlap keeps: ...
NothingLost == day.events \subseteq {"overlap"}

\* ... every order that is over has its rows, and they say what was filled, ...
Settled(c) ==
  /\ request[c] # NoRequest /\ ~Pending(c) => db[c] # NoRows
  /\ db[c] # NoRows => BookedOf(db[c]) = Moved(c)

\* ... the ledger says what the rows say, and no adjustment is due.
LedgerIsBooked ==
  \A s \in Stocks : Net(journal, s) = day.opening[s] + BookedFor(db, s)

NothingToAdjust == \A r \in Reconcilers : at[r] = "adjusting" => todo[r] = {}

BookIsComplete ==
  NothingLost =>
    /\ \A c \in Calls : Settled(c)
    /\ LedgerIsBooked /\ NothingToAdjust

\* With no order under way the ledger and the broker agree.
LEMMA MatchWhenSettled ==
  ASSUME DeskTypes, OrdersFit, \A c \in Calls : Settled(c), LedgerIsBooked,
         \A a \in Runs : at[a] # "ordered", NEW s \in Stocks
  PROVE  Net(journal, s) = Held(s)
<1>1. \A c \in CallsFor(s) : c \in Calls /\ BookedOf(db[c]) = Moved(c)
  <2> SUFFICES ASSUME NEW c \in CallsFor(s) PROVE c \in Calls /\ BookedOf(db[c]) = Moved(c)
    OBVIOUS
  <2>1. c \in Calls /\ ~Pending(c)
    BY CallsForFinite, Values DEF Pending
  <2>2. CASE request[c] = NoRequest
    <3>1. db[c] = NoRows
      BY <2>1, <2>2 DEF OrdersFit, OrderFits
    <3> QED BY <2>1, <2>2, <3>1, BookedType DEF Moved
  <2>3. CASE request[c] # NoRequest
    BY <2>1, <2>3 DEF Settled
  <2> QED BY <2>1, <2>2, <2>3
<1>2. [c \in CallsFor(s) |-> BookedOf(db[c])] = [c \in CallsFor(s) |-> Moved(c)]
  BY <1>1
<1> QED BY <1>2 DEF LedgerIsBooked, BookedFor, Held

\* A day begins without orders, and with a ledger of what is held.
LEMMA CompleteInit ==
  ASSUME Init
  PROVE  BookIsComplete
<1>1. DeskTypes
  BY TypesInit
<1>2. /\ request = [c \in Calls |-> NoRequest] /\ db = [c \in Calls |-> NoRows]
      /\ at = [a \in Actors |-> "idle"]
  BY DEF Init, Orders!Init, Orders!NoRows, Orders!Rows, NoRows, Rows
<1>3. \A c \in Calls : Settled(c)
  BY <1>2 DEF Settled
<1>4. ASSUME NEW s \in Stocks PROVE Net(journal, s) = day.opening[s] + BookedFor(db, s)
  <2> DEFINE f == [c \in CallsFor(s) |-> BookedOf(db[c])]
  <2>1. f \in [CallsFor(s) -> Int]
    BY <1>1, BookedForType DEF DeskTypes
  <2>2. \A c \in CallsFor(s) : f[c] = 0
    BY <1>2, BookedType, CallsForFinite
  <2> HIDE DEF f
  <2>3. SumFunction(f) = 0
    BY <2>1, <2>2, CallsForFinite, SumOfZeros
  <2>4. Net(journal, s) = day.opening[s] /\ day.opening[s] \in Nat
    BY <1>1, OpeningBook, HeldType
  <2> QED BY <2>3, <2>4 DEF BookedFor, f
<1>5. NothingToAdjust
  BY <1>2, Values DEF NothingToAdjust
<1> QED BY <1>3, <1>4, <1>5 DEF BookIsComplete, LedgerIsBooked

\* A reconcile that finds nothing to adjust adjusts nothing.
LEMMA NothingToAdjustStep ==
  ASSUME DeskTypes, OrdersFit, TakesTurns, ReconcilersRead, BookIsComplete, NothingLost,
         [Next]_vars
  PROVE  NothingToAdjust'
<1> SUFFICES ASSUME NEW r \in Reconcilers PROVE at'[r] = "adjusting" => todo'[r] = {}
  BY DEF NothingToAdjust
<1>1. at[r] = "adjusting" => todo[r] = {}
  BY DEF BookIsComplete, NothingToAdjust
<1>2. "reconcile_overlap" \notin day.events /\ "empty_positions" \notin day.events
  BY DEF NothingLost
<1>3. ASSUME NEW a \in Actors, Does(a), a # r PROVE at'[r] # "adjusting"
  BY <1>2, <1>3, ActorsAct, ReconcilersWait DEF Idle
<1>4. ASSUME Does(r) PROVE at'[r] = "adjusting" => todo'[r] = {}
  <2>1. Reconcile(r) /\ r \in Actors
    BY <1>4, ReconcilerDoes
  <2>2. CASE StartReconcile(r) \/ EndReconcile(r)
    BY <2>1, <2>2 DEF StartReconcile, EndReconcile, DeskTypes, StageType
  <2>3. CASE Compare(r)
    <3>1. PICK answer : Compares(r, answer)
      BY <2>3, CompareStep
    <3>2. \A a \in Runs : at[a] # "ordered"
      <4>1. at[r] = "comparing"
        BY <2>3 DEF Compare
      <4> QED BY <4>1, <1>2, Roles, Values DEF TakesTurns, Idle
    <3>3. \A s \in Stocks : view[r][s].qty = Net(journal, s)
      BY <2>3, <1>2 DEF ReconcilersRead, Reads, Compare
    <3>4. ASSUME NEW s \in Stocks PROVE answer[s] - view[r][s].qty = 0
      <4>1. Net(journal, s) = Held(s) /\ Held(s) \in Int
        BY <3>2, MatchWhenSettled, HeldType DEF BookIsComplete
      <4>2. answer[s] = Held(s)
        BY <3>1, <1>2 DEF Compares
      <4> QED BY <3>3, <4>1, <4>2
    <3>5. todo'[r] = {s \in Stocks : answer[s] - view[r][s].qty # 0}
      BY <2>1, <3>1 DEF Compares, DeskTypes
    <3> QED BY <3>4, <3>5
  <2>4. ASSUME NEW s \in Stocks, Adjust(r, s) PROVE FALSE
    BY <2>4, <1>1 DEF Adjust
  <2> QED BY <2>1, <2>2, <2>3, <2>4 DEF Reconcile
<1>5. ASSUME NEW c \in Calls, Answer(c) \/ FillLate(c) PROVE UNCHANGED <<at, todo>>
  BY <1>5 DEF Answer, FillLate, deskVars
<1>6. UNCHANGED vars => UNCHANGED <<at, todo>>
  BY DEF vars, deskVars
<1> QED BY <1>1, <1>3, <1>4, <1>5, <1>6, WhoActs

\* A booked order, and what it has moved, stays as it is.
LEMMA SettledStill ==
  ASSUME NEW c, Settled(c), request'[c] = request[c], broker'[c] = broker[c], db'[c] = db[c],
         Pending(c) => Pending(c)'
  PROVE  Settled(c)'
<1>1. Moved(c)' = Moved(c)
  BY HeldIs
<1> QED BY <1>1 DEF Settled

\* Book writes rows and entry together, for what was filled.
LEMMA BookSettles ==
  ASSUME DeskTypes, OrdersFit, \A c \in Calls : Settled(c), LedgerIsBooked, NothingLost,
         NEW a \in Runs, Book(a), DeskTypes'
  PROVE  (\A c \in Calls : Settled(c)') /\ LedgerIsBooked'
<1>1. PICK x : x = <<a, stock[a]>>
  OBVIOUS
<1>2. /\ x \in Calls /\ request[x] \in Requests /\ db[x] = NoRows /\ broker[x].state # "none"
      /\ \/ BooksNothing(x)
         \/ \E f \in Fills, i \in 1 .. Len(journal) + 1 : BooksFill(x, f, i)
  BY <1>1, BookStep
<1>3. Ends(a) /\ UNCHANGED <<request, broker, day, stock>>
  BY EndSteps DEF Ends
<1>4. OrderFits(x) /\ "late_fill" \notin day.events /\ request[x] # NoRequest
  BY <1>2, BookAssumption DEF OrdersFit, NothingLost
<1>5. /\ Moved(x) = IF request[x].side = "BUY" THEN broker[x].filled ELSE -broker[x].filled
      /\ broker[x].filled \in Nat /\ Moved(x)' = Moved(x)
  BY <1>2, <1>3, <1>4, MovedNow, HeldIs
<1>6. /\ db'[x] # NoRows /\ BookedOf(db'[x]) = Moved(x)
      /\ \A c \in Calls \ {x} : db'[c] = db[c]
      /\ \A s \in Stocks :
           Net(journal', s) = Net(journal, s) + IF x[2] = s THEN BookedOf(db'[x]) ELSE 0
  <2>1. CASE BooksNothing(x)
    <3>1. PICK t \in {"REJECTED", "ACCEPTED"} : db' = [db EXCEPT ![x] = Submitted(t)]
      BY <2>1 DEF BooksNothing
    <3>2. db'[x] = Submitted(t) /\ (\A c \in Calls \ {x} : db'[c] = db[c])
      BY <3>1, <1>2 DEF DeskTypes
    <3>3. Submitted(t) # NoRows /\ BookedOf(Submitted(t)) = 0
      BY RowFacts, BookedType
    <3>4. journal' = journal /\ broker[x].state # "closed"
      BY <2>1, <1>4 DEF BooksNothing
    <3>5. broker[x].state = "rejected"
      BY <3>4, <1>2, <1>4 DEF OrderFits, DeskTypes, BrokerOrders
    <3>6. Moved(x) = 0
      <4>1. broker[x].filled = 0
        BY <3>5, <1>4 DEF OrderFits
      <4>2. \A n \in Nat : n <= 0 => n = 0 /\ -n <= 0 /\ -n >= 0 /\ -n \in Int
        OBVIOUS
      <4>3. Moved(x) \in Int /\ Moved(x) <= 0 /\ Moved(x) >= 0
        <5>1. broker[x].filled <= 0
          BY <4>1
        <5> QED BY <5>1, <4>2, <1>5
      <4> QED BY <4>3
    <3>7. \A s \in Stocks : Net(journal, s) \in Int
      BY ViewsOfJournal
    <3> QED BY <3>2, <3>3, <3>4, <3>6, <3>7
  <2>2. ASSUME NEW f \in Fills, NEW i \in 1 .. Len(journal) + 1, BooksFill(x, f, i)
        PROVE  /\ db'[x] # NoRows /\ BookedOf(db'[x]) = Moved(x)
               /\ \A c \in Calls \ {x} : db'[c] = db[c]
               /\ \A s \in Stocks :
                    Net(journal', s) = Net(journal, s)
                                         + IF x[2] = s THEN BookedOf(db'[x]) ELSE 0
    <3>1. PICK e \in EntryRecords :
            /\ e.stock = x[2] /\ e.delta = QtyDelta(request[x].side, f)
            /\ journal' = InsertAt(journal, i, e)
      BY <1>2, <2>2, FillStep
    <3>2. db'[x] = Booked(request[x], f) /\ (\A c \in Calls \ {x} : db'[c] = db[c])
      BY <2>2, <1>2 DEF BooksFill, DeskTypes
    <3>3. db'[x] # NoRows /\ BookedOf(db'[x]) = QtyDelta(request[x].side, f)
      BY <3>2, RowFacts, BookedType
    <3>4. f.qty = broker[x].filled
      <4>1. f.qty \in Nat /\ f.qty > 0 /\ f.qty <= broker[x].filled
        BY <2>2, <1>2, FillEntry, BookAssumption DEF BooksFill
      <4>2. broker[x].state = "closed"
        <5>1. broker[x].filled # 0
          BY <4>1, <1>5
        <5> QED BY <5>1, <1>2, <1>4 DEF OrderFits, DeskTypes, BrokerOrders
      <4> QED BY <4>2, <1>4, <2>2 DEF BooksFill
    <3>5. BookedOf(db'[x]) = Moved(x)
      BY <3>3, <3>4, <1>5 DEF QtyDelta
    <3>6. \A s \in Stocks :
            Net(journal', s) = Net(journal, s) + IF x[2] = s THEN BookedOf(db'[x]) ELSE 0
      BY <3>1, <3>3, NetOfInsert DEF Delta, DeskTypes, EntryRecords
    <3> QED BY <3>2, <3>3, <3>5, <3>6
  <2> QED BY <2>1, <2>2, <1>2
<1>7. ASSUME NEW c \in Calls PROVE Settled(c)'
  <2>1. CASE c = x
    BY <2>1, <1>5, <1>6 DEF Settled
  <2>2. CASE c # x
    <3>1. Pending(c)' <=> Pending(c)
      <4>1. PICK y \in {"done", "choosing", "exiting"} : at' = [at EXCEPT ![a] = y]
        BY <1>3 DEF Ends
      <4>2. Pending(c)' <=> Pending(c) /\ c # <<a, stock[a]>> /\ c[1] # a
        BY <4>1, <1>3, PendingEnds
      <4>3. Pending(c) /\ c[1] = a => c = <<a, stock[a]>>
        BY Values DEF Pending
      <4> QED BY <4>2, <4>3, <2>2, <1>1
    <3> QED BY <3>1, <2>2, <1>3, <1>6, SettledStill
  <2> QED BY <2>1, <2>2
<1>8. ASSUME NEW s \in Stocks PROVE Net(journal', s) = day'.opening[s] + BookedFor(db', s)
  <2>1. db \in [Calls -> BookRows] /\ db' \in [Calls -> BookRows]
    BY DEF DeskTypes
  <2>2. BookedFor(db', s) = BookedFor(db, s) + IF x[2] = s THEN BookedOf(db'[x]) ELSE 0
    BY <2>1, <1>2, <1>6, BookedType, BookedChange
  <2>3. /\ Net(journal, s) = day.opening[s] + BookedFor(db, s) /\ BookedFor(db, s) \in Int
        /\ day.opening[s] \in Int /\ BookedOf(db'[x]) \in Int
    BY <2>1, <1>2, HeldType, BookedType, BookedForType DEF LedgerIsBooked
  <2> QED BY <2>2, <2>3, <1>3, <1>6
<1> QED BY <1>7, <1>8 DEF LedgerIsBooked

\* The broker does not move an order that is booked.
LEMMA BrokerSettled ==
  ASSUME DeskTypes, OrdersFit, NothingLost, \A c \in Calls : Settled(c),
         NEW x \in Calls, Answer(x) \/ FillLate(x)
  PROVE  /\ \A c \in Calls : Settled(c)'
         /\ UNCHANGED <<journal, day, db>> /\ Pending(x)
<1>1. Orders!BrokerMoves(x) /\ UNCHANGED <<journal, day, at, stock>>
  BY DEF Answer, FillLate, deskVars
<1>2. /\ request[x] \in Requests /\ UNCHANGED <<request, db>>
      /\ broker' = [broker EXCEPT ![x] = broker'[x]]
      /\ broker[x].state \in {"none", "open"}
  BY <1>1, BrokerStep
<1>3. OrderFits(x) /\ "late_fill" \notin day.events /\ request[x] # NoRequest
  BY <1>2, BookAssumption DEF OrdersFit, NothingLost
<1>4. broker[x].state = "none" /\ Pending(x) /\ db[x] = NoRows
  BY <1>2, <1>3 DEF OrderFits
<1>5. \A c \in Calls : Pending(c)' <=> Pending(c)
  BY <1>1 DEF Pending
<1>6. ASSUME NEW c \in Calls PROVE Settled(c)'
  <2>1. CASE c = x
    BY <2>1, <1>2, <1>4, <1>5 DEF Settled
  <2>2. CASE c # x
    <3>1. broker'[c] = broker[c]
      BY <2>2, <1>2 DEF DeskTypes
    <3> QED BY <3>1, <1>2, <1>5, SettledStill
  <2> QED BY <2>1, <2>2
<1> QED BY <1>1, <1>2, <1>4, <1>6

\* Every step keeps the book complete.
LEMMA CompleteStep ==
  ASSUME DeskTypes, DeskTypes', OrdersFit, TakesTurns, ReconcilersRead, BookIsComplete,
         [Next]_vars
  PROVE  BookIsComplete'
<1> SUFFICES ASSUME NothingLost'
             PROVE  (\A c \in Calls : Settled(c)') /\ LedgerIsBooked' /\ NothingToAdjust'
  BY DEF BookIsComplete
<1>0. day' = day
  <2>1. \A a \in Actors : Does(a) => day' = day
    BY ActorsAct DEF Acts
  <2> QED BY <2>1, WhoActs DEF Answer, FillLate, vars, deskVars
<1>1. NothingLost /\ (\A c \in Calls : Settled(c)) /\ LedgerIsBooked /\ NothingToAdjust
  BY <1>0 DEF BookIsComplete, NothingLost
<1>2. NothingToAdjust'
  BY <1>1, NothingToAdjustStep
<1>3. UNCHANGED <<journal, db>> => LedgerIsBooked'
  BY <1>0, <1>1 DEF LedgerIsBooked, BookedFor
<1>4. ASSUME NEW a \in Actors, Between(a), UNCHANGED journal
      PROVE  (\A c \in Calls : Settled(c)') /\ LedgerIsBooked'
  <2>1. PICK x : x # "ordered" /\ at' = [at EXCEPT ![a] = x]
    BY <1>4 DEF Between
  <2>2. \A c \in Calls : Pending(c)' <=> Pending(c)
    BY <1>4, <2>1, PendingSame DEF Between
  <2>3. UNCHANGED <<request, broker, db>>
    BY <1>4 DEF Between
  <2> QED BY <2>2, <2>3, <1>1, <1>3, <1>4, SettledStill
<1>5. ASSUME NEW r \in Reconcilers, NEW s \in Stocks, Adjust(r, s) PROVE FALSE
  BY <1>1, <1>5 DEF Adjust, NothingToAdjust
<1>6. ASSUME NEW a \in Runs, NEW s \in Stocks, NEW r \in Requests, Sends(a, s, r)
      PROVE  (\A c \in Calls : Settled(c)') /\ LedgerIsBooked'
  <2>1. /\ at[a] # "ordered" /\ at' = [at EXCEPT ![a] = "ordered"] /\ stock'[a] = s
        /\ \A b \in Runs \ {a} : stock'[b] = stock[b]
        /\ request[<<a, s>>] = NoRequest /\ request' = [request EXCEPT ![<<a, s>>] = r]
        /\ UNCHANGED <<broker, db, journal>>
    BY <1>6 DEF Sends
  <2>2. \A c \in Calls : Pending(c)' <=> Pending(c) \/ c = <<a, s>>
    BY <2>1, PendingBegins
  <2>3. ASSUME NEW c \in Calls PROVE Settled(c)'
    <3>1. CASE c = <<a, s>>
      <4>1. db[c] = NoRows
        BY <3>1, <2>1 DEF OrdersFit, OrderFits
      <4> QED BY <4>1, <3>1, <2>1, <2>2 DEF Settled
    <3>2. CASE c # <<a, s>>
      <4>1. request'[c] = request[c]
        BY <3>2, <2>1 DEF DeskTypes
      <4> QED BY <4>1, <2>1, <2>2, <1>1, SettledStill
    <3> QED BY <3>1, <3>2
  <2> QED BY <2>1, <2>3, <1>3
<1>7. ASSUME NEW a \in Runs, Book(a)
      PROVE  (\A c \in Calls : Settled(c)') /\ LedgerIsBooked'
  BY <1>1, <1>7, BookSettles
<1>8. ASSUME NEW c \in Calls, Answer(c) \/ FillLate(c)
      PROVE  (\A d \in Calls : Settled(d)') /\ LedgerIsBooked'
  BY <1>1, <1>3, <1>8, BrokerSettled
<1>9. ASSUME UNCHANGED vars PROVE (\A c \in Calls : Settled(c)') /\ LedgerIsBooked'
  <2>1. UNCHANGED <<request, broker, db, journal, at, stock>>
    BY <1>9 DEF vars, deskVars
  <2> QED BY <2>1, <1>1, <1>3, SettledStill DEF Pending
<1>10. "no_rows" \notin day.events
  BY <1>1 DEF NothingLost
<1>11. (\A c \in Calls : Settled(c)') /\ LedgerIsBooked'
  BY StepKinds, <1>4, <1>5, <1>6, <1>7, <1>8, <1>9, <1>10
<1> QED BY <1>2, <1>11

\* The property it is for
LEMMA CompleteShows ==
  ASSUME DeskTypes, OrdersFit, BookIsComplete
  PROVE  LedgerMatchesBroker
<1> SUFFICES ASSUME NothingLost, Quiet, NEW s \in Stocks PROVE Net(journal, s) = Held(s)
  BY DEF LedgerMatchesBroker, NothingLost
<1>1. \A a \in Runs : at[a] # "ordered"
  BY Values DEF Quiet, Idle
<1> QED BY <1>1, MatchWhenSettled DEF BookIsComplete
-----------------------------------------------------------------------------
(* A reconcile after lost rows. *)

\* a day on which rows may be lost and nothing else happens
RowsMayBeLost == day.events \subseteq {"no_rows"}

\* what reconcile r has found missing for stock s and not added yet
Owed(r, s) == IF s \in todo[r] THEN view[r][s].qty ELSE 0

\* Once a reconcile is through, no run has begun and the ledger is what the
\* broker holds; on the way there, what is still to be added makes it so.
Restored ==
  RowsMayBeLost =>
    /\ reconciled => (\A a \in Runs : Idle(a)) /\ \A s \in Stocks : Net(journal, s) = Held(s)
    /\ \A r \in Reconcilers : at[r] = "adjusting" =>
         \A s \in Stocks : Net(journal, s) + Owed(r, s) = Held(s)

\* A run that acts is not done with, and its start ends what a reconcile has said.
LEMMA RunsUndo ==
  ASSUME DeskTypes, NEW a \in Runs, Does(a)
  PROVE  reconciled' = FALSE \/ (reconciled' = reconciled /\ ~Idle(a))
<1>1. CASE a \in Pipelines /\ Pipeline(a)
  <2>1. CASE StartPipeline(a)
    BY <2>1 DEF StartPipeline
  <2>2. ASSUME NEW s \in Stocks, PassOver(a, s) \/ ReadPosition(a, s)
        PROVE  reconciled' = reconciled /\ ~Idle(a)
    BY <2>2 DEF PassOver, ReadPosition, Idle
  <2>3. ASSUME NEW p \in Prices, Exit(a, p) \/ Hold(a, p)
        PROVE  reconciled' = reconciled /\ ~Idle(a)
    BY <2>3 DEF Exit, Hold, Idle
  <2>4. ASSUME NEW p \in Prices, NEW k \in Cashes, NEW budget \in Budgets, Enter(a, p, k, budget)
        PROVE  reconciled' = reconciled /\ ~Idle(a)
    BY <2>4 DEF Enter, Idle
  <2> QED BY <1>1, <2>1, <2>2, <2>3, <2>4 DEF Pipeline
<1>2. CASE a \in Monitors /\ Monitor(a)
  <2>1. CASE StartMonitor(a)
    BY <2>1 DEF StartMonitor
  <2>2. CASE EndInspection(a) \/ BreakOff(a)
    BY <2>2 DEF EndInspection, BreakOff, Idle
  <2>3. ASSUME NEW s \in Stocks, NEW p \in Prices, Inspect(a, s, p) \/ ProtectiveExit(a, s, p)
        PROVE  reconciled' = reconciled /\ ~Idle(a)
    BY <2>3 DEF Inspect, ProtectiveExit, Idle
  <2> QED BY <1>2, <2>1, <2>2, <2>3 DEF Monitor
<1>3. CASE Book(a) \/ LoseRows(a)
  <2>1. Ends(a)
    BY <1>3, EndSteps
  <2> QED BY <2>1 DEF Ends, Idle
<1> QED BY <1>1, <1>2, <1>3, Roles DEF Does

\* No order moves at the broker while every run is idle.
LEMMA BrokerNeedsRun ==
  ASSUME DeskTypes, OrdersFit, "late_fill" \notin day.events,
         NEW x \in Calls, Answer(x) \/ FillLate(x)
  PROVE  x[1] \in Runs /\ at[x[1]] = "ordered" /\ stock[x[1]] = x[2] /\ broker[x].state = "none"
         /\ request[x] # NoRequest /\ Answer(x)
<1>1. request[x] \in Requests /\ broker[x].state \in {"none", "open"}
  BY BrokerStep DEF Answer, FillLate
<1>2. OrderFits(x) /\ request[x] # NoRequest
  BY <1>1, BookAssumption DEF OrdersFit
<1>3. broker[x].state = "none" /\ Pending(x)
  BY <1>1, <1>2 DEF OrderFits
<1> QED BY <1>2, <1>3, Values DEF Pending, FillLate
-----------------------------------------------------------------------------
\* Nothing is reconciled when the day begins.
LEMMA RestoredInit ==
  ASSUME Init
  PROVE  Restored
<1>1. ~reconciled /\ \A r \in Reconcilers : at[r] # "adjusting"
  BY Values DEF Init
<1> QED BY <1>1 DEF Restored

\* Every step keeps it: while a reconcile is under way no order moves, and each
\* adjustment pays what is owed.
LEMMA RestoredStep ==
  ASSUME DeskTypes, DeskTypes', OrdersFit, TakesTurns, ReconcilersRead, Restored, [Next]_vars
  PROVE  Restored'
<1> SUFFICES ASSUME RowsMayBeLost'
             PROVE  /\ reconciled' => /\ \A a \in Runs : Idle(a)'
                                      /\ \A s \in Stocks : Net(journal', s) = Held(s)'
                    /\ \A r \in Reconcilers : at'[r] = "adjusting" =>
                         \A s \in Stocks : Net(journal', s) + Owed(r, s)' = Held(s)'
  BY DEF Restored
<1> DEFINE Said == /\ \A a \in Runs : Idle(a)'
                   /\ \A s \in Stocks : Net(journal', s) = Held(s)'
           Owes(r) == \A s \in Stocks : Net(journal', s) + Owed(r, s)' = Held(s)'
<1>0. day' = day
  <2>1. \A a \in Actors : Does(a) => day' = day
    BY ActorsAct DEF Acts
  <2> QED BY <2>1, WhoActs DEF Answer, FillLate, vars, deskVars
<1>1. /\ reconciled => (\A a \in Runs : Idle(a)) /\ \A s \in Stocks : Net(journal, s) = Held(s)
      /\ \A r \in Reconcilers : at[r] = "adjusting" =>
           \A s \in Stocks : Net(journal, s) + Owed(r, s) = Held(s)
      /\ OneAtATime /\ "late_fill" \notin day.events /\ "empty_positions" \notin day.events
      /\ "reconcile_overlap" \notin day.events /\ reconciled \in BOOLEAN
  BY <1>0 DEF Restored, RowsMayBeLost, OneAtATime, DeskTypes
<1>2. ASSUME NEW a \in Runs, Does(a)
      PROVE  ~reconciled' /\ \A r \in Reconcilers : at'[r] # "adjusting"
  <2>1. a \in Actors
    BY Values
  <2>2. ~reconciled'
    BY <1>1, <1>2, RunsUndo
  <2>3. \A r \in Reconcilers : r \in Actors /\ r # a
    BY <1>2, Roles
  <2>4. \A r \in Reconcilers : Idle(r)'
    BY <2>1, <2>3, <1>1, <1>2, ActorsAct, OthersIdle
  <2> QED BY <2>2, <2>4 DEF Idle
<1>3. ASSUME NEW r \in Reconcilers, Does(r)
      PROVE  /\ reconciled' => Said
             /\ \A q \in Reconcilers : at'[q] = "adjusting" => Owes(q)
  <2>1. Reconcile(r) /\ r \in Actors /\ r \notin Runs
    BY <1>3, ReconcilerDoes
  <2>2. \A b \in Actors \ {r} : Idle(b) /\ Idle(b)'
    BY <2>1, <1>1, <1>3, ActorsAct, OthersIdle
  <2>3. (\A a \in Runs : Idle(a) /\ Idle(a)')
        /\ \A q \in Reconcilers : q # r => at'[q] # "adjusting"
    BY <2>1, <2>2, Values DEF Idle
  <2>4. \A s \in Stocks : Held(s)' = Held(s)
    <3>1. UNCHANGED <<request, broker, day>>
      <4>1. Between(r)
        BY <2>1, BetweenSteps DEF Reconcile
      <4> QED BY <4>1 DEF Between
    <3> QED BY <3>1, HeldStill
  <2>5. CASE StartReconcile(r)
    <3>1. at'[r] = "comparing" /\ journal' = journal /\ reconciled' = reconciled
      BY <2>1, <2>5 DEF StartReconcile, DeskTypes, StageType
    <3> QED BY <3>1, <2>3, <2>4, <1>1
  <2>6. CASE Compare(r)
    <3>1. PICK answer : Compares(r, answer)
      BY <2>6, CompareStep
    <3>2. at[r] = "comparing" /\ journal' = journal /\ reconciled' = reconciled
      BY <2>6 DEF Compare
    <3>3. ASSUME NEW s \in Stocks PROVE Net(journal, s) + Owed(r, s)' = Held(s)
      <4>1. view[r][s].qty = Net(journal, s) /\ Net(journal, s) \in Int
        BY <3>2, <1>1, ViewsOfJournal DEF ReconcilersRead, Reads
      <4>2. answer[s] = Held(s) /\ Held(s) \in Int
        BY <3>1, <1>1, HeldType DEF Compares
      <4>3. /\ view'[r][s].qty = answer[s] - view[r][s].qty
            /\ todo'[r] = {t \in Stocks : answer[t] - view[r][t].qty # 0}
        BY <2>1, <3>1 DEF Compares, DeskTypes, Readings
      <4>4. CASE s \in todo'[r]
        BY <4>1, <4>2, <4>3, <4>4 DEF Owed
      <4>5. CASE s \notin todo'[r]
        BY <4>1, <4>2, <4>3, <4>5 DEF Owed
      <4> QED BY <4>4, <4>5
    <3> QED BY <3>2, <3>3, <2>3, <2>4, <1>1
  <2>7. ASSUME NEW s \in Stocks, Adjust(r, s)
        PROVE  /\ reconciled' => Said
               /\ at'[r] = "adjusting" => Owes(r)
    <3>1. PICK e \in EntryRecords :
            /\ e = Entry(<<r, s>>, s, view[r][s].qty, 0)
            /\ e.by[1] = r /\ e.stock = s /\ e.delta = view[r][s].qty /\ e.price = 0
            /\ journal' = Append(journal, e)
      BY ONLY <2>7, DeskTypes, AdjustStep, r \in Reconcilers, s \in Stocks
    <3>2. /\ at[r] = "adjusting" /\ s \in todo[r] /\ todo'[r] = todo[r] \ {s}
          /\ UNCHANGED <<view, at, reconciled>>
      BY <2>1, <2>7 DEF Adjust, DeskTypes
    <3>3. ASSUME NEW t \in Stocks
          PROVE  /\ Net(journal', t) = Net(journal, t) + (IF t = s THEN view[r][s].qty ELSE 0)
                 /\ Net(journal, t) \in Int /\ Held(t) \in Int /\ view[r][t].qty \in Int
                 /\ Net(journal, t) + Owed(r, t) = Held(t)
      <4>1. Net(journal', t) = Net(journal, t) + Delta(e, t)
        BY <3>1, NetOfAppend DEF DeskTypes, EntryRecords
      <4>2. Net(journal, t) \in Int /\ Held(t) \in Int /\ view[r][t].qty \in Int
        BY <2>1, ViewsOfJournal, HeldType DEF DeskTypes, Readings
      <4>3. Net(journal, t) + Owed(r, t) = Held(t)
        BY <3>2, <1>1
      <4> QED BY <4>1, <4>2, <4>3, <3>1 DEF Delta
    <3>4. ASSUME NEW t \in Stocks PROVE Net(journal', t) + Owed(r, t)' = Held(t)'
      <4>1. Owed(r, t)' = IF t = s THEN 0 ELSE Owed(r, t)
        BY <3>2 DEF Owed
      <4>2. CASE t = s
        BY <4>1, <4>2, <3>2, <3>3, <2>4 DEF Owed
      <4>3. CASE t # s
        <5>1. Net(journal', t) = Net(journal, t)
          BY <4>3, <3>3
        <5> QED BY <5>1, <4>1, <4>3, <3>3, <2>4
      <4> QED BY <4>2, <4>3
    <3>5. ASSUME reconciled', NEW t \in Stocks PROVE Net(journal', t) = Held(t)'
      <4>1. Net(journal, t) = Held(t)
        BY <3>2, <3>5, <1>1
      <4>2. CASE t = s
        <5>1. Owed(r, t) = view[r][s].qty
          BY <4>2, <3>2 DEF Owed
        <5> QED BY <5>1, <4>1, <4>2, <3>3, <2>4
      <4>3. CASE t # s
        BY <4>1, <4>3, <3>3, <2>4
      <4> QED BY <4>2, <4>3
    <3> QED BY <3>4, <3>5, <2>3
  <2>8. CASE EndReconcile(r)
    <3>1. at'[r] = "done" /\ journal' = journal /\ at[r] = "adjusting" /\ todo[r] = {}
      BY <2>1, <2>8 DEF EndReconcile, DeskTypes, StageType
    <3>2. ASSUME NEW s \in Stocks PROVE Net(journal', s) = Held(s)'
      <4>1. Net(journal, s) + 0 = Held(s) /\ Net(journal, s) \in Int
        BY <3>1, <1>1, ViewsOfJournal DEF Owed
      <4> QED BY <4>1, <3>1, <2>4
    <3> QED BY <3>1, <3>2, <2>3
  <2> QED BY <2>1, <2>3, <2>5, <2>6, <2>7, <2>8 DEF Reconcile
<1>4. ASSUME NEW x \in Calls, Answer(x) \/ FillLate(x)
      PROVE  ~reconciled' /\ \A r \in Reconcilers : at'[r] # "adjusting"
  <2>1. x[1] \in Runs /\ at[x[1]] = "ordered"
    BY <1>1, <1>4, BrokerNeedsRun
  <2>2. UNCHANGED <<at, reconciled>>
    BY <1>4 DEF Answer, FillLate, deskVars
  <2>3. ~Idle(x[1]) /\ x[1] \in Actors
    BY <2>1, Values DEF Idle
  <2>4. ~reconciled
    BY <2>1, <2>3, <1>1
  <2>5. \A r \in Reconcilers : Idle(r)
    BY <2>1, <2>3, <1>1, Roles DEF TakesTurns
  <2> QED BY <2>2, <2>4, <2>5 DEF Idle
<1>5. CASE UNCHANGED vars
  <2>1. UNCHANGED <<request, broker, day, journal, at, todo, view, reconciled>>
    BY <1>5 DEF vars, deskVars
  <2>2. \A s : Held(s)' = Held(s)
    BY <2>1, HeldStill
  <2> QED BY <2>1, <2>2, <1>1 DEF Owed, Idle
<1>6. ASSUME NEW a \in Actors, Does(a)
      PROVE  /\ reconciled' => Said
             /\ \A r \in Reconcilers : at'[r] = "adjusting" => Owes(r)
  <2>1. a \in Runs \/ a \in Reconcilers
    BY DEF Actors
  <2> HIDE DEF Said, Owes
  <2> QED BY <2>1, <1>2, <1>3, <1>6
<1> QED BY <1>4, <1>5, <1>6, WhoActs

\* The property it is for
LEMMA RestoredShows ==
  ASSUME DeskTypes, Restored
  PROVE  ReconcileRestoresAlone
  BY DEF Restored, RowsMayBeLost, ReconcileRestoresAlone, ReconcileRestores
-----------------------------------------------------------------------------
(* The limits of a calm day. *)

\* What a calm day leaves out.
LEMMA CalmDay ==
  ASSUME Calm
  PROVE  /\ OneAtATime /\ NothingLost /\ "late_fill" \notin day.events
         /\ "overlap" \notin day.events /\ "reconcile_overlap" \notin day.events
         /\ "no_rows" \notin day.events
  BY DEF Calm, OneAtATime, NothingLost

\* What the guard lets pass is within the limit at the price it was asked for.
LEMMA BuyFits ==
  ASSUME NEW p \in Nat, NEW k \in Nat, NEW v, NEW h \in Nat, v.qty = h,
         NEW budget \in Budgets, NEW q \in Nat, q = BuyQty(v, p, k, budget),
         (budget \div p) * p <= PositionCap
  PROVE  (h + q) * p <= PositionCap
<1>0. budget \in Nat /\ PositionCap \in Nat
  BY DeskAssumption
<1>1. CASE p = 0
  <2>1. (h + q) * 0 = 0
    OBVIOUS
  <2> QED BY <2>1, <1>0, <1>1
<1>2. CASE p > 0
  <2> DEFINE w == budget \div p
             n == k \div p
  <2>1. w \in Nat /\ n \in Nat /\ n * p <= k
    BY <1>0, <1>2
  <2>2. q = IF (w - h) * p > k THEN n ELSE w - h
    BY DEF BuyQty
  <2>3. w * p <= PositionCap
    OBVIOUS
  <2> HIDE DEF w, n
  <2>4. q <= w - h
    <3>1. CASE (w - h) * p > k
      <4>1. n * p < (w - h) * p
        BY <3>1, <2>1
      <4>2. n < w - h
        BY <4>1, <2>1, <1>2
      <4> QED BY <4>2, <3>1, <2>2, <2>1
    <3>2. CASE ~((w - h) * p > k)
      BY <3>2, <2>1, <2>2
    <3> QED BY <3>1, <3>2
  <2>5. h + q <= w
    BY <2>1, <2>4
  <2>6. \A x, y \in Nat : x <= y => x * p <= y * p
    OBVIOUS
  <2>7. (h + q) * p <= w * p
    BY <2>1, <2>5, <2>6
  <2>8. (h + q) * p \in Nat /\ w * p \in Nat
    BY <2>1
  <2> QED BY <2>3, <2>7, <2>8, <1>0
<1> QED BY <1>1, <1>2

\* the stocks held
HeldStocks == {s \in Stocks : Held(s) > 0}
\* the day begins within the limit of the exposure
OpeningWithin == \A s \in Stocks : \E p \in Prices : day.opening[s] * p <= PositionCap

\* A purchase that is out: with all of it the account is within its limits.
OrderWithin(a) ==
  /\ at[a] = "ordered"
  /\ broker[<<a, stock[a]>>].state = "none"
  /\ request[<<a, stock[a]>>].side = "BUY"
  => /\ Cardinality(HeldStocks) < MaxPositions
     /\ (Held(stock[a]) + request[<<a, stock[a]>>].qty) * request[<<a, stock[a]>>].price
          <= PositionCap

\* what a calm day keeps
LimitsKept ==
  Calm => /\ Cardinality(HeldStocks) <= MaxPositions
          /\ OpeningWithin => CapRespected
          /\ \A a \in Runs : OrderWithin(a)

\* A day begins with no more stocks than allowed and no order out.
LEMMA LimitsInit ==
  ASSUME Init
  PROVE  LimitsKept
<1>1. \A s \in Stocks : Held(s) = day.opening[s]
  BY OversoldInit
<1>2. HeldStocks = {s \in Stocks : day.opening[s] > 0}
  BY <1>1 DEF HeldStocks
<1>3. Cardinality(HeldStocks) <= MaxPositions
  BY <1>2 DEF Init
<1>4. OpeningWithin => CapRespected
  BY <1>1 DEF OpeningWithin, CapRespected
<1>5. \A a \in Runs : at[a] # "ordered"
  BY Values DEF Init
<1> QED BY <1>3, <1>4, <1>5 DEF LimitsKept, OrderWithin

\* A purchase is decided on when nothing is under way and the ledger says
\* what is held.
LEMMA EnterWithin ==
  ASSUME DeskTypes, DeskTypes', OrdersFit, TakesTurns, ActOnTheBook, BookIsComplete, Calm,
         NEW a \in Pipelines, NEW p \in Prices, NEW k \in Cashes, NEW budget \in Budgets,
         Enter(a, p, k, budget)
  PROVE  OrderWithin(a)'
<1>0. /\ a \in Runs /\ a \in Actors /\ stock[a] \in Stocks /\ p \in Nat /\ k \in Nat
      /\ MaxPositions \in Nat
  BY Roles, BookAssumption, DeskAssumption DEF DeskTypes
<1>1. PICK r : /\ Sends(a, stock[a], r) /\ at[a] = "deciding" /\ r.side = "BUY" /\ r.price = p
               /\ r.qty = BuyQty(view[a][stock[a]], p, k, budget)
  BY SendSteps
<1>2. /\ request'[<<a, stock[a]>>] = r /\ stock'[a] = stock[a]
      /\ r \in Requests /\ r.qty \in Nat
  <2>1. request'[<<a, stock[a]>>] = r /\ stock'[a] = stock[a]
    BY <1>0, <1>1, NewOrder
  <2>2. r \in Requests
    BY <1>1 DEF Sends
  <2> QED BY <2>1, <2>2, BookAssumption DEF Requests
<1>3. \A b \in Runs : at[b] # "ordered"
  <2>1. \A b \in Runs \ {a} : Idle(b)
    BY <1>0, <1>1, CalmDay DEF TakesTurns, Idle
  <2> QED BY <2>1, <1>1 DEF Idle
<1>4. \A s \in Stocks : Net(journal, s) = Held(s) /\ Held(s) \in Int
  BY <1>3, CalmDay, MatchWhenSettled, HeldType DEF BookIsComplete
<1>5. OpenPositions(journal, Stocks) = HeldStocks
  BY <1>4 DEF OpenPositions, HeldStocks
<1>6. Cardinality(HeldStocks) < MaxPositions /\ (budget \div p) * p <= PositionCap
  BY <1>5 DEF Enter
<1>7. view[a][stock[a]].qty = Held(stock[a]) /\ Held(stock[a]) \in Nat
  <2>1. BookIsSound /\ Decides(a)
    BY <1>0, CalmDay DEF ActOnTheBook, Aware
  <2> QED BY <2>1, <1>0, <1>1, <1>4, BookHolds DEF Decides
<1>8. (Held(stock[a]) + r.qty) * p <= PositionCap
  BY <1>0, <1>1, <1>2, <1>6, <1>7, BuyFits
<1>9. \A s \in Stocks : Held(s)' = Held(s)
  BY <1>0, <1>1, <1>2, HeldOnSend
<1>10. HeldStocks' = HeldStocks
  BY <1>9 DEF HeldStocks
<1> QED BY <1>0, <1>1, <1>2, <1>6, <1>8, <1>9, <1>10 DEF OrderWithin

\* What is not held more of is not held beyond the limit.
LEMMA CapLess ==
  ASSUME NEW h \in Int, NEW h1 \in Int, h1 <= h, NEW p \in Nat, h * p <= PositionCap
  PROVE  h1 * p <= PositionCap
<1>1. PositionCap \in Nat
  BY DeskAssumption
<1>2. \A x, y \in Int : x <= y => x * p <= y * p
  OBVIOUS
<1>3. h1 * p <= h * p /\ h1 * p \in Int /\ h * p \in Int
  BY <1>2
<1> QED BY <1>1, <1>3

\* The answer to the one order that is out keeps the account within its limits.
LEMMA AnswerWithin ==
  ASSUME DeskTypes, DeskTypes', OrdersFit, NothingOversold, TakesTurns, LimitsKept, Calm,
         NEW x \in Calls, Answer(x) \/ FillLate(x)
  PROVE  /\ Cardinality(HeldStocks)' <= MaxPositions
         /\ OpeningWithin => CapRespected'
         /\ \A b \in Runs : OrderWithin(b)'
<1>1. /\ x[1] \in Runs /\ x[2] \in Stocks /\ x = <<x[1], x[2]>> /\ at[x[1]] = "ordered"
      /\ stock[x[1]] = x[2] /\ broker[x].state = "none"
      /\ request[x] # NoRequest /\ OrderFits(x) /\ MaxPositions \in Nat
  BY CalmDay, BrokerNeedsRun, Values, DeskAssumption DEF OrdersFit
<1>2. /\ Cardinality(HeldStocks) <= MaxPositions
      /\ OpeningWithin => CapRespected
      /\ OrderWithin(x[1])
  BY <1>1 DEF LimitsKept
<1>3. /\ request' = request /\ (\A s \in Stocks \ {x[2]} : Held(s)' = Held(s))
      /\ Held(x[2])' = Held(x[2]) + (IF request[x].side = "BUY" THEN 1 ELSE -1)
                                     * (broker'[x].filled - broker[x].filled)
      /\ broker'[x].filled \in Nat /\ broker'[x].filled <= request[x].qty
  BY HeldOnBroker
<1>4. broker[x].filled = 0 /\ request[x].qty \in Nat /\ request[x].price \in Prices
      /\ request[x].price \in Nat /\ Prices \subseteq Nat
  BY <1>1, BookAssumption DEF OrderFits, DeskTypes, Requests
<1>5. \A s \in Stocks : Held(s) \in Int /\ Held(s)' \in Int
  <2>1. \A s \in Stocks : Held(s)' = HeldOf(day'.opening, request', broker', s)
    BY HeldIs
  <2>2. \A s \in Stocks : HeldOf(day'.opening, request', broker', s) \in Int
    BY OrderTypesHold, HeldOfType DEF OrderTypes
  <2> QED BY <2>1, <2>2, HeldType
<1>6. IsFiniteSet(Stocks)
  BY DeskAssumption
<1>7. IsFiniteSet(HeldStocks) /\ Cardinality(HeldStocks) \in Nat
  <2>1. HeldStocks \subseteq Stocks
    BY DEF HeldStocks
  <2> QED BY <2>1, <1>6, FS_Subset, FS_CardinalityType
<1>8. HeldStocks' = {s \in Stocks : Held(s)' > 0}
  BY DEF HeldStocks
<1>9. \A b \in Runs : OrderWithin(b)'
  <2> SUFFICES ASSUME NEW b \in Runs, at'[b] = "ordered",
                      broker'[<<b, stock'[b]>>].state = "none"
               PROVE  FALSE
    BY DEF OrderWithin
  <2>1. UNCHANGED <<at, stock>> /\ Orders!BrokerMoves(x)
    BY DEF Answer, FillLate, deskVars
  <2>2. b = x[1]
    <3>1. ~Idle(b) /\ ~Idle(x[1])
      BY <2>1, <1>1 DEF Idle
    <3> QED BY <3>1, <1>1, CalmDay DEF TakesTurns
  <2>3. broker'[x].state # "none"
    BY <2>1, BrokerStep
  <2> QED BY <2>1, <2>2, <2>3, <1>1
<1>10. CASE request[x].side = "BUY"
  <2>1. Held(x[2])' = Held(x[2]) + broker'[x].filled
    BY <1>1, <1>3, <1>4, <1>5, <1>10
  <2>2. /\ Cardinality(HeldStocks) < MaxPositions
        /\ (Held(x[2]) + request[x].qty) * request[x].price <= PositionCap
    BY <1>1, <1>2, <1>10 DEF OrderWithin
  <2>3. HeldStocks' \subseteq HeldStocks \cup {x[2]}
    BY <1>3, <1>8 DEF HeldStocks
  <2>4. /\ IsFiniteSet(HeldStocks \cup {x[2]})
        /\ Cardinality(HeldStocks \cup {x[2]}) <= Cardinality(HeldStocks) + 1
        /\ Cardinality(HeldStocks \cup {x[2]}) \in Nat
    <3> DEFINE S == HeldStocks
    <3>1. IsFiniteSet(S) /\ Cardinality(S) \in Nat
      BY <1>7
    <3>2. PICK s : s = x[2]
      OBVIOUS
    <3> HIDE DEF S
    <3>3. /\ IsFiniteSet(S \cup {s})
          /\ Cardinality(S \cup {s}) = IF s \in S THEN Cardinality(S) ELSE Cardinality(S) + 1
      BY <3>1, FS_AddElement
    <3>4. Cardinality(S \cup {s}) \in Nat /\ Cardinality(S \cup {s}) <= Cardinality(S) + 1
      BY <3>1, <3>3
    <3> QED BY <3>2, <3>3, <3>4 DEF S
  <2>5. Cardinality(HeldStocks') <= Cardinality(HeldStocks \cup {x[2]})
        /\ Cardinality(HeldStocks') \in Nat
    <3> DEFINE S == HeldStocks'
               T == HeldStocks \cup {x[2]}
    <3>1. S \subseteq T /\ IsFiniteSet(T)
      BY <2>3, <2>4
    <3> HIDE DEF S, T
    <3>2. Cardinality(S) <= Cardinality(T) /\ Cardinality(S) \in Nat
      BY <3>1, FS_Subset, FS_CardinalityType
    <3> QED BY <3>2 DEF S, T
  <2>6. Cardinality(HeldStocks') <= MaxPositions
    BY <2>2, <2>4, <2>5, <1>1, <1>7
  <2>7. Held(x[2])' * request[x].price <= PositionCap
    <3>1. Held(x[2])' <= Held(x[2]) + request[x].qty /\ Held(x[2]) + request[x].qty \in Int
          /\ Held(x[2])' \in Int
      BY <2>1, <1>1, <1>3, <1>4, <1>5
    <3> QED BY <3>1, <2>2, <1>4, CapLess
  <2>8. OpeningWithin => \A s \in Stocks : \E p \in Prices : Held(s)' * p <= PositionCap
    BY <2>7, <1>2, <1>3, <1>4 DEF CapRespected
  <2> QED BY <2>6, <2>8, <1>9 DEF CapRespected
<1>11. CASE request[x].side # "BUY"
  <2>1. \A s \in Stocks : Held(s)' <= Held(s)
    <3>1. Held(x[2])' = Held(x[2]) - broker'[x].filled
      BY <1>1, <1>3, <1>4, <1>5, <1>11
    <3>2. Held(x[2])' <= Held(x[2])
      BY <3>1, <1>1, <1>3, <1>5
    <3> QED BY <3>2, <1>3, <1>5
  <2>2. HeldStocks' \subseteq HeldStocks
    <3>1. ASSUME NEW s \in Stocks, Held(s)' > 0 PROVE Held(s) > 0
      BY <3>1, <2>1, <1>5
    <3> QED BY <3>1, <1>8 DEF HeldStocks
  <2>3. Cardinality(HeldStocks') <= MaxPositions
    <3> DEFINE S == HeldStocks'
               T == HeldStocks
    <3>1. S \subseteq T /\ IsFiniteSet(T) /\ Cardinality(T) <= MaxPositions
          /\ Cardinality(T) \in Nat
      BY <2>2, <1>2, <1>7
    <3> HIDE DEF S, T
    <3>2. Cardinality(S) <= Cardinality(T) /\ Cardinality(S) \in Nat
      BY <3>1, FS_Subset, FS_CardinalityType
    <3>3. Cardinality(S) <= MaxPositions
      BY <3>1, <3>2, <1>1
    <3> QED BY <3>3 DEF S
  <2>4. ASSUME OpeningWithin, NEW s \in Stocks
        PROVE  \E p \in Prices : Held(s)' * p <= PositionCap
    <3>1. PICK p \in Prices : Held(s) * p <= PositionCap
      BY <2>4, <1>2 DEF CapRespected
    <3> QED BY <3>1, <2>1, <1>4, <1>5, CapLess
  <2> QED BY <2>3, <2>4, <1>9 DEF CapRespected
<1> QED BY <1>10, <1>11

\* Every step keeps the limits: the guard sees the account as it is.
LEMMA LimitsStep ==
  ASSUME DeskTypes, DeskTypes', OrdersFit, NothingOversold, TakesTurns, ActOnTheBook,
         BookIsComplete, LimitsKept, [Next]_vars
  PROVE  LimitsKept'
<1> SUFFICES ASSUME Calm'
             PROVE  /\ Cardinality(HeldStocks)' <= MaxPositions
                    /\ OpeningWithin' => CapRespected'
                    /\ \A a \in Runs : OrderWithin(a)'
  BY DEF LimitsKept
<1>0. day' = day
  <2>1. \A a \in Actors : Does(a) => day' = day
    BY ActorsAct DEF Acts
  <2> QED BY <2>1, WhoActs DEF Answer, FillLate, vars, deskVars
<1>1. /\ Calm /\ (OpeningWithin' => OpeningWithin)
      /\ Cardinality(HeldStocks) <= MaxPositions
      /\ OpeningWithin => CapRespected
      /\ \A a \in Runs : OrderWithin(a)
  BY <1>0 DEF Calm, OpeningWithin, LimitsKept
<1>2. ASSUME \A s \in Stocks : Held(s)' = Held(s)
      PROVE  /\ Cardinality(HeldStocks)' <= MaxPositions
             /\ OpeningWithin' => CapRespected'
  <2>1. HeldStocks' = HeldStocks
    BY <1>2 DEF HeldStocks
  <2> QED BY <2>1, <1>1, <1>2 DEF CapRespected
<1>3. ASSUME NEW a \in Actors, Does(a) PROVE \A s \in Stocks : Held(s)' = Held(s)
  <2>1. ASSUME NEW b \in Actors, Between(b) \/ Ends(b)
        PROVE  \A s \in Stocks : Held(s)' = Held(s)
    BY <2>1, HeldStill DEF Between, Ends
  <2>2. CASE a \in Reconcilers
    BY <2>1, <2>2, <1>3, ReconcilerDoes, BetweenSteps DEF Reconcile
  <2>3. ASSUME a \in Runs, NEW s \in Stocks, NEW r, Sends(a, s, r)
        PROVE  \A t \in Stocks : Held(t)' = Held(t)
    BY <2>3, HeldOnSend DEF Sends
  <2>4. CASE a \in Pipelines /\ Pipeline(a)
    <3>1. a \in Runs /\ stock[a] \in Stocks
      BY <2>4, Roles DEF DeskTypes
    <3> QED BY <3>1, <2>1, <2>3, <2>4, BetweenSteps, SendSteps DEF Pipeline
  <2>5. CASE a \in Monitors /\ Monitor(a)
    <3>1. a \in Runs
      BY <2>5, Roles
    <3> QED BY <3>1, <2>1, <2>3, <2>5, BetweenSteps, SendSteps DEF Monitor
  <2>6. CASE a \in Runs /\ (Book(a) \/ LoseRows(a))
    BY <2>1, <2>6, EndSteps
  <2> QED BY <2>2, <2>4, <2>5, <2>6, <1>3 DEF Does
<1>4. ASSUME NEW a \in Actors, Does(a) PROVE \A b \in Runs : OrderWithin(b)'
  <2>1. \A b \in Actors \ {a} : Idle(b)'
    BY <1>1, <1>4, CalmDay, ActorsAct, OthersIdle
  <2>2. \A b \in Runs : b # a => OrderWithin(b)'
    BY <2>1, Values DEF Idle, OrderWithin
  <2>3. ASSUME a \in Runs PROVE OrderWithin(a)'
    <3>0. ASSUME Between(a) \/ Ends(a) PROVE OrderWithin(a)'
      <4>1. PICK y : y # "ordered" /\ at' = [at EXCEPT ![a] = y]
        BY <3>0 DEF Between, Ends
      <4>2. at'[a] = y
        BY <4>1 DEF DeskTypes, StageType
      <4> QED BY <4>1, <4>2 DEF OrderWithin
    <3>1. ASSUME NEW s \in Stocks, NEW r, Sends(a, s, r), r.side = "SELL"
          PROVE  OrderWithin(a)'
      <4>1. request'[<<a, s>>] = r /\ stock'[a] = s
        BY <2>3, <3>1, NewOrder
      <4> QED BY <4>1, <3>1 DEF OrderWithin
    <3>2. CASE a \in Pipelines /\ Pipeline(a)
      <4>1. stock[a] \in Stocks
        BY <2>3 DEF DeskTypes
      <4>2. ASSUME NEW p \in Prices, NEW k \in Cashes, NEW budget \in Budgets,
                   Enter(a, p, k, budget)
            PROVE  OrderWithin(a)'
        BY <3>2, <4>2, <1>1, EnterWithin
      <4>3. ASSUME NEW p \in Prices, Exit(a, p) PROVE OrderWithin(a)'
        <5>1. PICK r : Sends(a, stock[a], r) /\ r.side = "SELL"
          BY <3>2, <4>3, SendSteps
        <5> QED BY <5>1, <4>1, <3>1
      <4> QED BY <3>0, <3>2, <4>2, <4>3, BetweenSteps DEF Pipeline
    <3>3. CASE a \in Monitors /\ Monitor(a)
      <4>1. ASSUME NEW s \in Stocks, NEW p \in Prices, ProtectiveExit(a, s, p)
            PROVE  OrderWithin(a)'
        <5>1. PICK r : Sends(a, s, r) /\ r.side = "SELL"
          BY <3>3, <4>1, SendSteps
        <5> QED BY <5>1, <3>1
      <4> QED BY <3>0, <3>3, <4>1, BetweenSteps DEF Monitor
    <3>4. CASE Book(a) \/ LoseRows(a)
      BY <2>3, <3>0, <3>4, EndSteps
    <3> QED BY <2>3, <3>2, <3>3, <3>4, <1>4, Roles DEF Does
  <2> QED BY <2>2, <2>3
<1>5. ASSUME NEW x \in Calls, Answer(x) \/ FillLate(x)
      PROVE  /\ Cardinality(HeldStocks)' <= MaxPositions
             /\ OpeningWithin => CapRespected'
             /\ \A b \in Runs : OrderWithin(b)'
  BY <1>1, <1>5, AnswerWithin
<1>6. CASE UNCHANGED vars
  <2>1. UNCHANGED <<request, broker, day, at, stock>>
    BY <1>6 DEF vars, deskVars
  <2>2. \A s : Held(s)' = Held(s)
    BY <2>1, HeldStill
  <2>3. HeldStocks' = HeldStocks
    BY <2>2 DEF HeldStocks
  <2> QED BY <2>1, <2>2, <2>3, <1>1, <1>2 DEF OrderWithin
<1> QED BY <1>1, <1>2, <1>3, <1>4, <1>5, <1>6, WhoActs

\* The properties it is for
LEMMA LimitsShow ==
  ASSUME LimitsKept
  PROVE  PositionLimit /\ CapRespectedWhenCalm
  BY DEF LimitsKept, HeldStocks, OpeningWithin, PositionLimit, CapRespectedWhenCalm
-----------------------------------------------------------------------------
(* The average of a calm day. *)

\* what a calm day keeps, per stock
AveragesPaid == Calm => \A s \in Stocks : AveragePaid(journal, s)

\* A day begins with each stock held at the price of its one entry.
LEMMA AveragesInit ==
  ASSUME Init
  PROVE  AveragesPaid
<1> SUFFICES ASSUME NEW s \in Stocks PROVE AveragePaid(journal, s)
  BY DEF AveragesPaid
<1>1. /\ PositionInfo(journal, s).qty = day.opening[s] /\ day.opening[s] \in Nat
      /\ journal \in Ledgers(Bys, Stocks)
  BY OpeningBook, TypesInit, HeldType DEF SoundFor, DeskTypes
<1>2. CASE day.opening[s] = 0
  BY <1>1, <1>2, OpeningBook DEF AveragePaid
<1>3. CASE day.opening[s] > 0
  <2>1. PICK i \in 1 .. Len(journal) :
          /\ journal[i].stock = s /\ journal[i].delta > 0
          /\ PositionInfo(journal, s).cost = day.opening[s] * journal[i].price
    BY <1>3, OpeningBook
  <2>2. journal[i].price \in Nat
    BY <1>1, LedgerFacts
  <2>3. day.opening[s] * journal[i].price \in Nat
    BY <1>1, <2>2
  <2> QED BY <1>1, <1>3, <2>1, <2>3 DEF AveragePaid, Bought
<1> QED BY <1>1, <1>2, <1>3

\* Every step keeps it: a purchase adds at its price, a sale is of the whole position.
LEMMA AveragesStep ==
  ASSUME DeskTypes, OrdersFit, ActOnTheBook, BookIsComplete, AveragesPaid, [Next]_vars
  PROVE  AveragesPaid'
<1> SUFFICES ASSUME Calm', NEW s \in Stocks PROVE AveragePaid(journal', s)
  BY DEF AveragesPaid, AveragePaid, Bought
<1>0. day' = day
  <2>1. ASSUME DeskTypes PROVE \A a \in Actors : Does(a) => day' = day
    BY <2>1, ActorsAct DEF Acts
  <2> QED BY <2>1, WhoActs DEF Answer, FillLate, vars, deskVars
<1>1. /\ Calm /\ NothingLost /\ OneAtATime /\ BookIsSound /\ (\A a \in Actors : Aware(a))
      /\ NothingToAdjust /\ AveragePaid(journal, s) /\ "late_fill" \notin day.events
      /\ journal \in Ledgers(Bys, Stocks)
  BY <1>0, CalmDay DEF Calm, ActOnTheBook, BookIsComplete, AveragesPaid, DeskTypes
<1>2. CASE journal' = journal
  BY <1>1, <1>2
<1>3. ASSUME NEW r \in Reconcilers, NEW t \in Stocks, Adjust(r, t) PROVE FALSE
  BY <1>1, <1>3 DEF Adjust, NothingToAdjust
<1>4. ASSUME NEW a \in Runs, Book(a) PROVE AveragePaid(journal', s)
  <2>0. PICK c : c = <<a, stock[a]>>
    OBVIOUS
  <2>1. Sells(a)
    BY <1>1 DEF Actors, Aware
  <2>2. CASE journal' = journal
    BY <2>2, <1>1
  <2>3. ASSUME NEW e \in EntryRecords, NEW f \in Fills,
               /\ journal' = Append(journal, e) /\ e.stock = stock[a]
               /\ e.delta = QtyDelta(request[c].side, f)
               /\ f.qty \in Nat /\ f.qty = request[c].qty
               /\ request[c].side # "BUY" => request[c].qty = Net(journal, stock[a])
        PROVE  AveragePaid(journal', s)
    <3>1. e.stock = s /\ e.delta < 0 => PositionInfo(journal, s).qty + e.delta <= 0
      <4> SUFFICES ASSUME e.stock = s, e.delta < 0
                   PROVE  PositionInfo(journal, s).qty + e.delta <= 0
        OBVIOUS
      <4>1. request[c].side # "BUY" /\ e.delta = 0 - f.qty
        BY <2>3 DEF QtyDelta
      <4>2. PositionInfo(journal, s).qty = Net(journal, s) /\ Net(journal, s) = f.qty
        BY <4>1, <2>3, <1>1 DEF BookIsSound, SoundFor
      <4> QED BY <4>1, <4>2, <2>3
    <3> QED BY <3>1, <2>3, <1>1, AverageAppend DEF EntryRecords
  <2> QED BY <2>0, <2>1, <2>2, <2>3, <1>1, <1>4, BookAppends
<1>5. ASSUME NEW a \in Runs, NEW t \in Stocks, NEW r \in Requests, Sends(a, t, r)
      PROVE  journal' = journal
  BY <1>5 DEF Sends
<1>6. ASSUME NEW c \in Calls, Answer(c) \/ FillLate(c) PROVE journal' = journal
  BY <1>6 DEF Answer, FillLate, deskVars
<1>7. UNCHANGED vars => journal' = journal
  BY DEF vars, deskVars
<1> QED BY StepKinds, <1>2, <1>3, <1>4, <1>5, <1>6, <1>7

\* The property it is for
LEMMA AveragesShow ==
  ASSUME DeskTypes, AveragesPaid
  PROVE  AverageWasPaidWhenCalm
<1> SUFFICES ASSUME Calm, NEW s \in Stocks, PositionInfo(journal, s).qty > 0
             PROVE  LET paid == {e.price : e \in {f \in ToSet(journal) :
                                                   f.stock = s /\ f.delta > 0}}
                    IN  \E lo, hi \in paid :
                          /\ PositionInfo(journal, s).qty * lo <= PositionInfo(journal, s).cost
                          /\ PositionInfo(journal, s).cost <= PositionInfo(journal, s).qty * hi
  BY DEF AverageWasPaidWhenCalm, AverageWasPaid
<1> DEFINE paid == {e.price : e \in {f \in ToSet(journal) : f.stock = s /\ f.delta > 0}}
<1>1. PICK i, j \in 1 .. Len(journal) :
        /\ Bought(journal, i, s) /\ Bought(journal, j, s)
        /\ PositionInfo(journal, s).qty * journal[i].price <= PositionInfo(journal, s).cost
        /\ PositionInfo(journal, s).cost <= PositionInfo(journal, s).qty * journal[j].price
  BY DEF AveragesPaid, AveragePaid
<1>2. ASSUME NEW k \in 1 .. Len(journal), Bought(journal, k, s) PROVE journal[k].price \in paid
  <2>1. journal[k] \in ToSet(journal)
    BY LedgerFacts DEF DeskTypes, ToSet
  <2> QED BY <2>1, <1>2 DEF Bought
<1>3. journal[i].price \in paid /\ journal[j].price \in paid
  BY <1>1, <1>2
<1> QED BY <1>1, <1>3
-----------------------------------------------------------------------------
(* All of it, kept by every step. *)

\* what every day keeps, whatever it brings
DeskInv ==
  /\ DeskTypes
  /\ EntriesPriced
  /\ OrdersFit          \* an order is pending, open, or over; fills stay in it
  /\ TakesTurns         \* without overlap one actor is active
  /\ NothingOversold    \* the broker's open sales are of shares it holds
  /\ ReconcilersRead
  /\ ActOnTheBook
  /\ BookIsComplete
  /\ Restored
  /\ LimitsKept
  /\ AveragesPaid

\* A day begins with it.
LEMMA DeskInitInv ==
  ASSUME Init
  PROVE  DeskInv
<1>1. ReconcilersRead
  BY Values DEF Init, ReconcilersRead, Reads
<1>2. NothingOversold
  BY OversoldInit DEF NothingOversold
<1> QED BY <1>1, <1>2, TypesInit, PricedInit, OrdersInit, TurnsInit, ActInit, CompleteInit,
           RestoredInit, LimitsInit, AveragesInit DEF DeskInv

\* Every step keeps it.
LEMMA DeskStep ==
  ASSUME DeskInv, [Next]_vars
  PROVE  DeskInv'
<1>1. /\ DeskTypes /\ OrdersFit /\ TakesTurns /\ NothingOversold /\ ReconcilersRead
      /\ ActOnTheBook /\ BookIsComplete /\ Restored /\ LimitsKept /\ AveragesPaid
      /\ EntriesPriced
  BY DEF DeskInv
<1>2. DeskTypes' /\ EntriesPriced'
  BY <1>1, TypesStep, PricedStep
<1>3. OrdersFit' /\ TakesTurns' /\ ReconcilersRead'
  BY <1>1, OrdersStep, TurnsStep, ReadsStep
<1>4. NothingOversold'
  BY <1>1, <1>2, OversoldStep
<1>5. ActOnTheBook'
  BY <1>1, <1>2, ActStep
<1>6. BookIsComplete'
  BY <1>1, <1>2, CompleteStep
<1>7. Restored'
  BY <1>1, <1>2, RestoredStep
<1>8. LimitsKept'
  BY <1>1, <1>2, LimitsStep
<1>9. AveragesPaid'
  BY <1>1, AveragesStep
<1> QED BY <1>2, <1>3, <1>4, <1>5, <1>6, <1>7, <1>8, <1>9 DEF DeskInv

\* The order an actor's step works on is an order of the book, or none.
LEMMA DeskMapsStep ==
  ASSUME DeskTypes, [Next]_vars
  PROVE  [Orders!Next]_<<request, broker, db>>
<1>1. ASSUME NEW a \in Actors, Between(a) PROVE UNCHANGED <<request, broker, db>>
  BY <1>1 DEF Between
<1>2. ASSUME NEW a \in Runs, NEW s \in Stocks, NEW r \in Requests, Sends(a, s, r)
      PROVE  Orders!Next
  <2>1. PICK c \in Calls : c = <<a, s>>
    BY Values
  <2>2. request[c] = NoRequest /\ request' = [request EXCEPT ![c] = r]
        /\ UNCHANGED <<broker, db>>
    BY <2>1, <1>2 DEF Sends
  <2>3. r \in Orders!Requests
    BY DEF Orders!Requests, Orders!Sides, Requests, Sides
  <2>4. Orders!Ask(c)
    BY <2>2, <2>3 DEF Orders!Ask
  <2> QED BY <2>4 DEF Orders!Next
<1>3. ASSUME NEW a \in Runs, Book(a) PROVE Orders!Next
  <2>1. PICK c \in Calls : c = <<a, stock[a]>>
    BY Values DEF DeskTypes
  <2>2. Orders!Book(c)
    BY <2>1, <1>3 DEF Book
  <2> QED BY <2>2 DEF Orders!Next
<1>4. ASSUME NEW a \in Runs, Ends(a), UNCHANGED db PROVE UNCHANGED <<request, broker, db>>
  BY <1>4 DEF Ends
<1>5. ASSUME NEW c \in Calls, Answer(c) \/ FillLate(c) PROVE Orders!Next
  <2>1. Orders!BrokerMoves(c)
    BY <1>5 DEF Answer, FillLate
  <2> QED BY <2>1 DEF Orders!Next
<1>6. UNCHANGED vars => UNCHANGED <<request, broker, db>>
  BY DEF vars
<1>7. Reconcilers \subseteq Actors
  BY Values
<1> QED BY <1>1, <1>2, <1>3, <1>4, <1>5, <1>6, <1>7, StepKinds
-----------------------------------------------------------------------------
(* Theorems. *)

\* The stages, reads and rows of every actor keep their types, whatever the day
\* brings.
THEOREM DeskTyped == Spec => []DeskTypeOK
<1>1. DeskInv => DeskTypeOK
  <2> SUFFICES ASSUME DeskTypes, EntriesPriced PROVE DeskTypeOK
    BY DEF DeskInv
  <2>1. request \in [Calls -> Orders!Requests \cup {NoRequest}]
    BY DEF DeskTypes, Orders!Requests, Orders!Sides, Requests, Sides
  <2>2. broker \in [Calls -> Orders!BrokerOrders]
    BY DEF DeskTypes, Orders!BrokerOrders, BrokerOrders
  <2>3. \A i \in 1..Len(journal) :
          journal[i].stock \in Stocks /\ journal[i].price \in Prices \cup {0}
    BY LedgerFacts DEF DeskTypes, EntriesPriced, Priced
  <2> QED BY <2>1, <2>2, <2>3 DEF DeskTypeOK, DeskTypes, StageType
<1> QED BY <1>1, DeskInitInv, DeskStep, PTL DEF Spec

\* The ledger never sells what it does not have, at any point of its history,
\* as long as runs and reconciles come one after the other
\* (trader_executor.py: get_position_info; risk_monitor.py; reconcile.py).
THEOREM NeverShort == Spec => []LedgerNeverShort
<1>1. DeskInv => LedgerNeverShort
  BY ActOnTheBookShows DEF DeskInv
<1> QED BY <1>1, DeskInitInv, DeskStep, PTL DEF Spec

\* One after the other, the loop of get_position_info and the SUM of
\* internal_positions read the same quantity out of the ledger.
THEOREM BothViewsAgree == Spec => []ViewsAgree
<1>1. DeskInv => ViewsAgree
  BY ActOnTheBookShows DEF DeskInv
<1> QED BY <1>1, DeskInitInv, DeskStep, PTL DEF Spec

\* Overlap alone loses or doubles no entry: when nothing is under way the
\* ledger says what the broker holds.
THEOREM MatchesBroker == Spec => []LedgerMatchesBroker
<1>1. DeskInv => LedgerMatchesBroker
  BY CompleteShows DEF DeskInv
<1> QED BY <1>1, DeskInitInv, DeskStep, PTL DEF Spec

\* After lost rows, a reconcile that runs alone makes the ledger equal to the
\* broker, and it stays so until the next run begins (reconcile_account).
THEOREM ReconcileFits == Spec => []ReconcileRestoresAlone
<1>1. DeskInv => ReconcileRestoresAlone
  BY RestoredShows DEF DeskInv
<1> QED BY <1>1, DeskInitInv, DeskStep, PTL DEF Spec

\* On a calm day the account never holds more stocks than max_positions.
THEOREM PositionsLimited == Spec => []PositionLimit
<1>1. DeskInv => PositionLimit
  BY LimitsShow DEF DeskInv
<1> QED BY <1>1, DeskInitInv, DeskStep, PTL DEF Spec

\* On a calm day that begins within max_position_ratio the account stays within
\* it at some price of the day (guard.py).
THEOREM CapKept == Spec => []CapRespectedWhenCalm
<1>1. DeskInv => CapRespectedWhenCalm
  BY LimitsShow DEF DeskInv
<1> QED BY <1>1, DeskInitInv, DeskStep, PTL DEF Spec

\* On a calm day the average entry price lies between prices that were paid.
THEOREM AverageIsPaid == Spec => []AverageWasPaidWhenCalm
<1>1. DeskInv => AverageWasPaidWhenCalm
  BY AveragesShow DEF DeskInv
<1> QED BY <1>1, DeskInitInv, DeskStep, PTL DEF Spec

\* Where no price is zero, every position that no reconcile has touched has a
\* stop line, whatever the day brings (risk_monitor.py skips one without).
THEOREM StopLinesStand ==
  ASSUME 0 \notin Prices
  PROVE  Spec => []PositionsHaveStopLines
<1>1. DeskInv => PositionsHaveStopLines
  BY PricedHasStop DEF DeskInv
<1> QED BY <1>1, DeskInitInv, DeskStep, PTL DEF Spec

\* The desk asks, answers and books its orders as OrderBook says: what is shown
\* of execute_order in OrderExecution is all that the desk relies on.
THEOREM DeskImplementsOrders == Spec => Orders!Spec
<1>1. Init => Orders!Init
  BY DEF Init
<1>2. DeskInv /\ [Next]_vars => [Orders!Next]_<<request, broker, db>>
  BY DeskMapsStep DEF DeskInv
<1>3. Spec => []DeskInv
  BY DeskInitInv, DeskStep, PTL DEF Spec
<1> QED BY <1>1, <1>2, <1>3, PTL DEF Spec, Orders!Spec, Orders!bookVars
=============================================================================
