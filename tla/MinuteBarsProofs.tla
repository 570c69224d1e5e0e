--------------------------- MODULE MinuteBarsProofs ---------------------------
(***************************************************************************)
(* For any number of minutes, trades, pages and candles on a page, and     *)
(* whatever goes wrong on the day: the collector writes completed minutes  *)
(* only and no candle is ever replaced; a candle of the collector closes   *)
(* as its minute did, and is whole when nothing was lost; a backfill that  *)
(* had pages enough leaves no hole.                                        *)
(***************************************************************************)
EXTENDS MinuteBars, WellFoundedInduction, FiniteSetTheorems, TLAPS

\* What a candle of the collector comes from: trades up to now, and flushed
\* minutes that are over.
Shape == candles = [s \in Sources |-> [m \in Minutes |-> candles[s][m]]]

PastTrades ==
  /\ trades \in Seq(Minutes)
  /\ \A i \in 1..Len(trades) : trades[i] <= clock
  /\ wire \subseteq 1..Len(trades)
  /\ buffer \subseteq 1..Len(trades)

FlushedMinutesAreOver ==
  /\ writing = [m \in Minutes |-> writing[m]]
  /\ \A m \in Minutes : writing[m] # {} => m < clock

IInv ==
  /\ clock \in Minutes
  /\ Shape
  /\ PastTrades
  /\ FlushedMinutesAreOver
  /\ OnlyCompletedMinutes

\* get_or_create touches one place, and only if it is empty.
LEMMA CreateKeeps ==
  ASSUME NEW source \in Sources, NEW k, NEW group, Shape,
         GetOrCreate(source, k, group)
  PROVE  /\ Shape'
         /\ \A s \in Sources, m \in Minutes :
              \/ candles'[s][m] = candles[s][m]
              \/ s = source /\ m = k /\ candles[s][m] = {} /\ candles'[s][m] = group
<1> DEFINE old == candles[source]
<1>1. CASE candles[source][k] # {}
  BY <1>1 DEF GetOrCreate, Shape
<1>2. CASE candles[source][k] = {}
  <2>1. candles' = [candles EXCEPT ![source] = [old EXCEPT ![k] = group]]
    BY <1>2 DEF GetOrCreate
  <2>2. /\ DOMAIN candles = Sources
        /\ \A s \in Sources : candles[s] = [m \in Minutes |-> candles[s][m]]
    BY DEF Shape
  <2>3. candles' = [s \in Sources |->
                      IF s = source THEN [old EXCEPT ![k] = group] ELSE candles[s]]
    BY <2>1, <2>2
  <2>4. [old EXCEPT ![k] = group] = [m \in Minutes |-> IF m = k THEN group ELSE old[m]]
    BY <2>2
  <2>5. \A s \in Sources : candles'[s] =
          [m \in Minutes |-> IF s = source /\ m = k THEN group ELSE candles[s][m]]
    <3> SUFFICES ASSUME NEW s \in Sources
                 PROVE  candles'[s] = [m \in Minutes |->
                          IF s = source /\ m = k THEN group ELSE candles[s][m]]
      OBVIOUS
    <3>1. CASE s = source
      BY <3>1, <2>3, <2>4
    <3>2. CASE s # source
      BY <3>2, <2>3, <2>2
    <3> QED BY <3>1, <3>2
  <2>6. Shape'
    <3>1. \A s \in Sources : candles'[s] = [m \in Minutes |-> candles'[s][m]]
      BY <2>5
    <3> QED BY <2>3, <3>1 DEF Shape
  <2>7. ASSUME NEW s \in Sources, NEW m \in Minutes
        PROVE  \/ candles'[s][m] = candles[s][m]
               \/ s = source /\ m = k /\ candles[s][m] = {} /\ candles'[s][m] = group
    <3>1. candles'[s][m] = IF s = source /\ m = k THEN group ELSE candles[s][m]
      BY <2>5
    <3> QED BY <3>1, <1>2
  <2> QED BY <2>6, <2>7
<1> QED BY <1>1, <1>2

\* The invariant holds when the day begins,
LEMMA InitGood == Init => IInv
<1> SUFFICES ASSUME Init PROVE IInv
  OBVIOUS
<1>1. clock \in Minutes /\ trades = <<>> /\ Len(trades) = 0
  BY BarsAssumption DEF Init, Minutes
<1>2. \A m \in Minutes : NoCandles[m] = {}
  BY DEF NoCandles
<1>3. Shape /\ OnlyCompletedMinutes
  BY <1>2 DEF Init, Shape, OnlyCompletedMinutes, NoCandles, Sources
<1>4. PastTrades
  BY <1>1 DEF Init, PastTrades
<1>5. FlushedMinutesAreOver
  BY <1>2 DEF Init, FlushedMinutesAreOver, NoCandles
<1> QED BY <1>1, <1>3, <1>4, <1>5 DEF IInv

\* after a trade: the minute it is in is not over;
LEMMA TradeStep == IInv /\ Trade => IInv'
<1> SUFFICES ASSUME IInv, Trade PROVE IInv'
  OBVIOUS
<1>1. /\ trades' \in Seq(Minutes)
      /\ Len(trades') = Len(trades) + 1
      /\ \A i \in 1..Len(trades) : trades'[i] = trades[i]
      /\ trades'[Len(trades) + 1] = clock
  BY DEF IInv, PastTrades, Trade
<1>2. Len(trades) \in Nat
  BY DEF IInv, PastTrades
<1>3. clock' = clock /\ clock \in Int
  BY DEF Trade, IInv, Minutes
<1>4. \A i \in 1..Len(trades') : trades'[i] <= clock'
  BY <1>1, <1>2, <1>3 DEF IInv, PastTrades
<1>5. wire' \subseteq 1..Len(trades') /\ buffer' \subseteq 1..Len(trades')
  <2>1. 1..Len(trades) \subseteq 1..(Len(trades) + 1) /\ Len(trades) + 1 \in 1..(Len(trades) + 1)
    BY <1>2
  <2>2. wire' \subseteq wire \cup {Len(trades) + 1} /\ buffer' = buffer
    BY DEF Trade
  <2> QED BY <1>1, <2>1, <2>2 DEF IInv, PastTrades
<1>6. PastTrades'
  BY <1>1, <1>4, <1>5 DEF PastTrades
<1>7. UNCHANGED <<candles, writing>>
  BY DEF Trade
<1> QED BY <1>3, <1>6, <1>7 DEF IInv, Shape, FlushedMinutesAreOver, OnlyCompletedMinutes

\* when a minute is over: what is written stays of an earlier one;
LEMMA TickStep == IInv /\ Tick => IInv'
<1> SUFFICES ASSUME IInv, Tick PROVE IInv'
  OBVIOUS
<1>1. LastMinute \in Nat
  BY BarsAssumption
<1>2. clock' = clock + 1 /\ clock \in Minutes /\ clock' \in Minutes
  BY <1>1 DEF IInv, Tick, Minutes
<1>3. UNCHANGED <<trades, wire, buffer, writing, candles>>
  BY DEF Tick, collector
<1>4. PastTrades'
  <2>1. \A i \in 1..Len(trades) : trades[i] \in Minutes
    BY DEF IInv, PastTrades
  <2> QED BY <1>2, <1>3, <2>1 DEF IInv, PastTrades, Minutes
<1>5. FlushedMinutesAreOver' /\ OnlyCompletedMinutes'
  BY <1>2, <1>3 DEF IInv, FlushedMinutesAreOver, OnlyCompletedMinutes, Minutes
<1> QED BY <1>2, <1>3, <1>4, <1>5 DEF IInv, Shape

\* A trade completes minutes before its own only, and its own has begun.
LEMMA ReceiveStep == ASSUME IInv, NEW i \in wire, Receive(i) PROVE IInv'
<1> DEFINE ticks == buffer \cup {i}
<1>1. /\ wire' \subseteq wire /\ buffer' \subseteq ticks
      /\ writing' = Aggregate(Completed(ticks, i))
      /\ UNCHANGED <<clock, trades, candles>>
  BY DEF Receive, market
<1>2. i \in 1..Len(trades) /\ ticks \subseteq 1..Len(trades)
  BY DEF IInv, PastTrades
<1>3. PastTrades'
  BY <1>1, <1>2 DEF IInv, PastTrades
<1>4. FlushedMinutesAreOver'
  <2>1. writing' = [m \in Minutes |-> writing'[m]]
    BY <1>1 DEF Aggregate
  <2>2. ASSUME NEW m \in Minutes, writing'[m] # {} PROVE m < clock'
    <3>1. PICK j \in Completed(ticks, i) : trades[j] = m
      BY <1>1, <2>2 DEF Aggregate
    <3>2. m < trades[i]
      BY <3>1 DEF Completed
    <3>3. trades[i] <= clock /\ trades[i] \in Minutes /\ clock \in Minutes
      BY <1>2 DEF IInv, PastTrades
    <3> QED BY <3>2, <3>3, <1>1 DEF Minutes
  <2> QED BY <2>1, <2>2 DEF FlushedMinutesAreOver
<1> QED BY <1>1, <1>3, <1>4 DEF IInv, Shape, OnlyCompletedMinutes

\* A written candle is one of those flushed.
LEMMA WriteStep == IInv /\ Write => IInv'
<1> SUFFICES ASSUME IInv, Write PROVE IInv'
  OBVIOUS
<1> DEFINE k == Least(Listed(writing))
<1>1. /\ GetOrCreate("kis_ws", k, writing[k])
      /\ writing' = [writing EXCEPT ![k] = {}]
      /\ UNCHANGED <<clock, trades, wire, buffer>>
  BY DEF Write, market
<1>2. "kis_ws" \in Sources /\ Shape
  BY DEF Sources, IInv
<1> HIDE DEF k
<1>3. /\ Shape'
      /\ \A m \in Minutes :
           \/ candles'["kis_ws"][m] = candles["kis_ws"][m]
           \/ m = k /\ candles'["kis_ws"][m] = writing[k]
  BY <1>1, <1>2, CreateKeeps
<1>4. OnlyCompletedMinutes'
  BY <1>1, <1>3 DEF IInv, OnlyCompletedMinutes, FlushedMinutesAreOver
<1>5. FlushedMinutesAreOver'
  <2>1. writing = [m \in Minutes |-> writing[m]]
    BY DEF IInv, FlushedMinutesAreOver
  <2>2. writing' = [m \in Minutes |-> IF m = k THEN {} ELSE writing[m]]
    BY <1>1, <2>1
  <2> QED BY <1>1, <2>2 DEF IInv, FlushedMinutesAreOver
<1> QED BY <1>1, <1>3, <1>4, <1>5 DEF IInv, PastTrades

\* Starting, stopping and asking write nothing.
LEMMA RestStep ==
  IInv /\ (Die \/ Restart \/ StartBackfill \/ Ask \/ TurnPage) => IInv'
<1> SUFFICES ASSUME IInv, Die \/ Restart \/ StartBackfill \/ Ask \/ TurnPage
             PROVE  IInv'
  OBVIOUS
<1>1. UNCHANGED <<clock, trades, candles>>
  BY DEF Die, Restart, StartBackfill, Ask, TurnPage, market
<1>2. (wire' = {} \/ wire' = wire) /\ (buffer' = {} \/ buffer' = buffer)
  BY DEF Die, Restart, StartBackfill, Ask, TurnPage, collector
<1>3. writing' = NoCandles \/ writing' = writing
  BY DEF Die, Restart, StartBackfill, Ask, TurnPage, collector
<1>4. FlushedMinutesAreOver'
  BY <1>1, <1>3 DEF IInv, FlushedMinutesAreOver, NoCandles
<1> QED BY <1>1, <1>2, <1>4 DEF IInv, PastTrades, Shape, OnlyCompletedMinutes

\* A row of the backfill goes to the other source.
LEMMA WriteRowStep == IInv /\ WriteRow => IInv'
<1> SUFFICES ASSUME IInv, WriteRow PROVE IInv'
  OBVIOUS
<1>1. PICK k, group : GetOrCreate("kis_rest", k, group)
  BY DEF WriteRow
<1>2. "kis_rest" \in Sources /\ "kis_ws" \in Sources /\ Shape
  BY DEF Sources, IInv
<1>3. /\ Shape'
      /\ \A m \in Minutes : candles'["kis_ws"][m] = candles["kis_ws"][m]
  BY <1>1, <1>2, CreateKeeps
<1>4. UNCHANGED <<clock, trades, wire, buffer, writing>>
  BY DEF WriteRow, market, collector
<1> QED BY <1>3, <1>4 DEF IInv, PastTrades, FlushedMinutesAreOver, OnlyCompletedMinutes

\* Every step keeps the invariant.
LEMMA StepGood == IInv /\ [Next]_vars => IInv'
<1> SUFFICES ASSUME IInv, [Next]_vars PROVE IInv'
  OBVIOUS
<1>1. CASE UNCHANGED vars
  BY <1>1 DEF vars, market, collector, IInv, PastTrades, Shape,
     FlushedMinutesAreOver, OnlyCompletedMinutes
<1>2. CASE Next
  BY <1>2, TickStep, TradeStep, ReceiveStep, WriteStep, RestStep, WriteRowStep DEF Next
<1> QED BY <1>1, <1>2

\* What the collector writes is over, and the trades it has are trades of the day.
THEOREM InductiveInvariant == Spec => []IInv
BY InitGood, StepGood, PTL DEF Spec

\* The collector writes completed minutes only, late trades and restarts
\* included (MinuteBarBuffer.flush_completed).
THEOREM MinutesAreCompleted == Spec => []OnlyCompletedMinutes
<1>1. IInv => OnlyCompletedMinutes
  BY DEF IInv
<1> QED BY <1>1, InductiveInvariant, PTL

\* No candle is ever replaced: not by the other writer, not by a late trade,
\* not after a restart (persist_ohlcv).
THEOREM CandlesStayFinal == Spec => CandlesAreFinal
<1> DEFINE Kept == \A s \in Sources, m \in Minutes :
                     candles[s][m] # {} => candles'[s][m] = candles[s][m]
<1>1. IInv /\ [Next]_vars => Kept
  <2> SUFFICES ASSUME IInv, [Next]_vars, candles' # candles PROVE Kept
    OBVIOUS
  <2>1. PICK source \in Sources : \E k, group : GetOrCreate(source, k, group)
    BY DEF Next, vars, market, collector, Tick, Trade, Receive, Write, Die, Restart,
       StartBackfill, Ask, WriteRow, TurnPage, Sources
  <2>2. PICK k, group : GetOrCreate(source, k, group)
    BY <2>1
  <2> QED BY <2>2, CreateKeeps DEF IInv
<1> QED BY <1>1, InductiveInvariant, PTL DEF Spec, CandlesAreFinal
-----------------------------------------------------------------------------
(* Types. *)

\* A set of naturals that is not empty has a least member.
LEMMA LeastIs ==
  ASSUME NEW S \in SUBSET Nat, S # {}
  PROVE  Least(S) \in S /\ \A n \in S : Least(S) <= n
<1>1. PICK m \in S : \A n \in S : <<n, m>> \notin OpToRel(<, Nat)
  BY NatLessThanWellFounded, WFMin
<1>2. \A n \in S : ~(n < m)
  BY <1>1 DEF OpToRel
<1>3. \A n \in S : m <= n
  BY <1>2
<1> QED BY <1>3 DEF Least

\* Places in the day are numbers, and the first of some minutes is one of them.
LEMMA LeastListed ==
  ASSUME NEW group, Listed(group) # {}
  PROVE  /\ Least(Listed(group)) \in Minutes /\ group[Least(Listed(group))] # {}
         /\ \A m \in Listed(group) : Least(Listed(group)) <= m
<1>1. Listed(group) \in SUBSET Nat
  BY DEF Listed, Minutes
<1>2. Least(Listed(group)) \in Listed(group)
      /\ \A m \in Listed(group) : Least(Listed(group)) <= m
  BY <1>1, LeastIs
<1> QED BY <1>2 DEF Listed

\* The market goes on by a minute, or a trade of the minute it is, or not at all.
LEMMA MarketStep ==
  ASSUME TypeOK, [Next]_vars
  PROVE  /\ events' = events
         /\ \/ clock' = clock /\ trades' = trades
            \/ clock' = clock + 1 /\ trades' = trades /\ clock < LastMinute
            \/ clock' = clock /\ trades' = Append(trades, clock) /\ Len(trades) < MaxTrades
  BY DEF Next, vars, market, collector, Tick, Trade, Receive, Write, Die, Restart,
     StartBackfill, Ask, WriteRow, TurnPage

\* Only the minute it is can still have trades.
LEMMA TradesStay ==
  ASSUME TypeOK, [Next]_vars
  PROVE  /\ clock \in Minutes /\ clock' \in Minutes /\ clock <= clock'
         /\ trades' \in Seq(Minutes) /\ Len(trades) \in Nat /\ Len(trades') \in Nat
         /\ Len(trades) <= Len(trades') /\ Len(trades') <= MaxTrades
         /\ \A i \in 1 .. Len(trades) : trades[i] \in Minutes /\ trades'[i] = trades[i]
         /\ \A i \in 1 .. Len(trades') : i \in 1 .. Len(trades) \/
                                         (i = Len(trades) + 1 /\ trades'[i] = clock)
         /\ \A m \in Minutes : m # clock => TradesOf(m)' = TradesOf(m)
         /\ \A m \in Minutes : TradesOf(m) \subseteq TradesOf(m)'
<1>1. clock \in Minutes /\ trades \in Seq(Minutes) /\ Len(trades) \in Nat
      /\ Len(trades) <= MaxTrades /\ LastMinute \in Nat /\ MaxTrades \in Nat
  BY BarsAssumption DEF TypeOK
<1>2. clock' \in Minutes /\ clock <= clock'
  BY <1>1, MarketStep DEF Minutes
<1>3. CASE trades' = trades
  BY <1>1, <1>2, <1>3 DEF TradesOf
<1>4. CASE trades' = Append(trades, clock) /\ Len(trades) < MaxTrades
  <2>1. /\ trades' \in Seq(Minutes) /\ Len(trades') = Len(trades) + 1
        /\ trades'[Len(trades) + 1] = clock
        /\ \A i \in 1 .. Len(trades) : trades'[i] = trades[i] /\ trades[i] \in Minutes
    BY <1>1, <1>4
  <2>2. \A i \in 1 .. Len(trades') : i \in 1 .. Len(trades) \/ i = Len(trades) + 1
    BY <1>1, <2>1
  <2>3. \A i \in 1 .. Len(trades) : i \in 1 .. Len(trades')
    BY <1>1, <2>1
  <2>4. \A m \in Minutes : m # clock => TradesOf(m)' = TradesOf(m)
    BY <2>1, <2>2, <2>3 DEF TradesOf
  <2>5. \A m \in Minutes : TradesOf(m) \subseteq TradesOf(m)'
    BY <2>1, <2>3 DEF TradesOf
  <2> QED BY <1>1, <1>2, <1>4, <2>1, <2>2, <2>4, <2>5
<1> QED BY <1>3, <1>4, MarketStep

Places == SUBSET (1 .. Len(trades))
Jobs == [pc : {"idle", "asking", "writing", "done"}, start : 0..LastMinute,
         to : 0..LastMinute, left : 0..Pages, seen : 0..LastMinute,
         first : 0..LastMinute, rows : [Minutes -> Places]]

\* The pages of the broker list minutes with trades up to the one asked for.
LEMMA PageIs ==
  ASSUME NEW b \in 0 .. LastMinute
  PROVE  /\ Page(b) \subseteq Traded(b) /\ Traded(b) \subseteq 1 .. b
         /\ Page(b) \subseteq Minutes /\ Page(b) \in SUBSET Nat
         /\ \A m \in Page(b) : TradesOf(m) # {}
  BY BarsAssumption DEF Page, Traded, Minutes

\* A job that has been answered, ...
Answered(j, page) ==
  [pc |-> "writing", start |-> j.start, to |-> j.to, left |-> j.left, seen |-> j.seen,
   first |-> Least(page), rows |-> [m \in Minutes |-> IF m \in page THEN TradesOf(m) ELSE {}]]

\* The answer is the page, or nothing when the broker may fail.
LEMMA AskStep ==
  ASSUME TypeOK, Ask
  PROVE  /\ job.pc = "asking" /\ UNCHANGED <<market, collector, candles>>
         /\ \/ /\ job' = [job EXCEPT !.pc = "done"]
               /\ Page(job.to) = {} \/ "empty_page" \in events
            \/ Page(job.to) # {} /\ job' = Answered(job, Page(job.to))
<1>1. PICK page \in {Page(job.to)} \cup (IF "empty_page" \in events THEN {{}} ELSE {}) :
        job' = IF page = {} THEN [job EXCEPT !.pc = "done"]
               ELSE [job EXCEPT !.pc = "writing", !.first = Least(page),
                       !.rows = [m \in Minutes |-> IF m \in page THEN TradesOf(m) ELSE {}]]
  BY Zenon DEF Ask
<1>2. page = Page(job.to) \/ (page = {} /\ "empty_page" \in events)
  BY <1>1
<1>3. job \in Jobs
  BY DEF TypeOK, Jobs, Places
<1>4. page # {} => job' = Answered(job, page)
  BY <1>1, <1>3 DEF Jobs, Answered
<1> QED BY <1>1, <1>2, <1>4 DEF Ask

\* ... one that has written a row, and one that has turned the page.
LEMMA WriteRowIs ==
  ASSUME TypeOK, WriteRow
  PROVE  \E k \in Minutes :
           /\ job.pc = "writing" /\ job.rows[k] # {}
           /\ GetOrCreate("kis_rest", k, job.rows[k])
           /\ job' = [job EXCEPT !.rows = [m \in Minutes |-> IF m = k THEN {} ELSE job.rows[m]]]
           /\ UNCHANGED <<market, collector>>
<1> DEFINE k == Least(Listed(job.rows))
<1>1. k \in Minutes /\ job.rows[k] # {}
  BY LeastListed DEF WriteRow
<1>2. /\ job.pc = "writing" /\ GetOrCreate("kis_rest", k, job.rows[k])
      /\ job' = [job EXCEPT !.rows[k] = {}] /\ UNCHANGED <<market, collector>>
  BY DEF WriteRow
<1>3. job \in Jobs
  BY DEF TypeOK, Jobs, Places
<1> HIDE DEF k
<1>4. job' = [job EXCEPT !.rows = [m \in Minutes |-> IF m = k THEN {} ELSE job.rows[m]]]
  <2>1. job.rows = [m \in Minutes |-> job.rows[m]]
    BY <1>3 DEF Jobs
  <2>2. job' = [job EXCEPT !.rows = [job.rows EXCEPT ![k] = {}]]
    BY <1>2
  <2> QED BY <2>1, <2>2
<1> QED BY <1>1, <1>2, <1>4

\* Four fields of a job change, one at a time.
Turned(j, u, v, x, y) == [j EXCEPT !.pc = u, !.seen = v, !.to = x, !.left = y]
AsJob(j) == j = [pc |-> j.pc, start |-> j.start, to |-> j.to, left |-> j.left, seen |-> j.seen,
                 first |-> j.first, rows |-> j.rows]

LEMMA FieldsChange ==
  ASSUME NEW j, AsJob(j), NEW x, NEW y, NEW u, NEW v
  PROVE  Turned(j, u, v, x, y)
           = [pc |-> u, start |-> j.start, to |-> x, left |-> y, seen |-> v, first |-> j.first,
              rows |-> j.rows]
<1>0. PICK p, a, b, c, d, e, f :
        /\ j = [pc |-> p, start |-> a, to |-> b, left |-> c, seen |-> d, first |-> e, rows |-> f]
        /\ a = j.start /\ e = j.first /\ f = j.rows
  BY DEF AsJob
<1>1. PICK j1 : j1 = [j EXCEPT !.pc = u]
  OBVIOUS
<1>2. PICK j2 : j2 = [j1 EXCEPT !.seen = v]
  OBVIOUS
<1>3. PICK j3 : j3 = [j2 EXCEPT !.to = x]
  OBVIOUS
<1>4. PICK j4 : j4 = [j3 EXCEPT !.left = y]
  OBVIOUS
<1>5. j1 = [pc |-> u, start |-> a, to |-> b, left |-> c, seen |-> d, first |-> e, rows |-> f]
  BY <1>0, <1>1
<1>6. j2 = [pc |-> u, start |-> a, to |-> b, left |-> c, seen |-> v, first |-> e, rows |-> f]
  BY <1>2, <1>5
<1>7. j3 = [pc |-> u, start |-> a, to |-> x, left |-> c, seen |-> v, first |-> e, rows |-> f]
  BY <1>3, <1>6
<1>8. j4 = [pc |-> u, start |-> a, to |-> x, left |-> y, seen |-> v, first |-> e, rows |-> f]
  BY <1>4, <1>7
<1>9. j4 = [j EXCEPT !.pc = u, !.seen = v, !.to = x, !.left = y]
  BY ONLY <1>1, <1>2, <1>3, <1>4
<1> QED BY <1>0, <1>8, <1>9 DEF Turned

\* A new job, and a job that goes on to the minutes before its page
Started(m) ==
  [pc |-> "asking", start |-> m, to |-> m, left |-> Pages, seen |-> 0, first |-> 0,
   rows |-> NoCandles]
Further(j) ==
  [pc |-> "asking", start |-> j.start, to |-> j.first - 1, left |-> j.left - 1,
   seen |-> j.first, first |-> j.first, rows |-> j.rows]

\* How a job begins, ends and goes on.
LEMMA JobSteps ==
  ASSUME TypeOK
  PROVE  /\ StartBackfill => job' = Started(clock)
         /\ TurnPage => /\ job.pc = "writing" /\ Listed(job.rows) = {}
                        /\ \/ /\ job.first = job.seen \/ job.left = 1
                              /\ job' = [job EXCEPT !.pc = "done"]
                           \/ /\ job.first # job.seen /\ job.left # 1
                              /\ job' = Further(job)
<1>1. job \in Jobs
  BY DEF TypeOK, Jobs, Places
<1>2. StartBackfill => job' = Started(clock)
  BY DEF StartBackfill, NoJob, Started
<1>3. [job EXCEPT !.pc = "asking", !.seen = job.first, !.to = job.first - 1,
                  !.left = job.left - 1] = Further(job)
  <2>1. job = [pc |-> job.pc, start |-> job.start, to |-> job.to, left |-> job.left,
               seen |-> job.seen, first |-> job.first, rows |-> job.rows]
    BY <1>1 DEF Jobs
  <2>2. Turned(job, "asking", job.first, job.first - 1, job.left - 1)
        = [pc |-> "asking", start |-> job.start, to |-> job.first - 1, left |-> job.left - 1,
           seen |-> job.first, first |-> job.first, rows |-> job.rows]
    BY <2>1, FieldsChange DEF AsJob
  <2> QED BY <2>2 DEF Further, Turned
<1> QED BY <1>2, <1>3 DEF TurnPage

\* A job that is under way has pages left, and a page that it writes begins.
PageSound ==
  /\ job.pc \in {"asking", "writing"} => job.left >= 1
  /\ job.pc = "writing" => job.first \in 1 .. job.to

\* Types, with the numbers of a job that is under way
BarTypes == TypeOK /\ PageSound

\* Types hold when the day begins, and every step keeps them.
LEMMA TypeInit == Init => BarTypes
<1> SUFFICES ASSUME Init PROVE BarTypes
  OBVIOUS
<1>1. clock \in Minutes /\ trades = <<>> /\ Len(trades) = 0 /\ trades \in Seq(Minutes)
  BY BarsAssumption DEF Init, Minutes
<1>2. NoCandles \in [Minutes -> SUBSET (1 .. Len(trades))]
  BY DEF NoCandles
<1>3. job \in Jobs
  BY <1>2, BarsAssumption DEF Init, NoJob, Jobs, Places
<1>4. candles \in [Sources -> [Minutes -> SUBSET (1 .. Len(trades))]]
  BY <1>2 DEF Init
<1>5. PageSound
  BY DEF Init, NoJob, PageSound
<1> QED BY <1>1, <1>2, <1>3, <1>4, <1>5, BarsAssumption DEF Init, TypeOK, Jobs, Places, BarTypes

LEMMA TypeStep == ASSUME BarTypes, [Next]_vars PROVE BarTypes'
<1> USE DEF BarTypes
<1>0. /\ events' \in Scenarios /\ clock' \in Minutes /\ trades' \in Seq(Minutes)
      /\ Len(trades') <= MaxTrades
      /\ 1 .. Len(trades) \subseteq 1 .. Len(trades')
  <2>1. events' \in Scenarios
    BY MarketStep DEF TypeOK
  <2> QED BY <2>1, TradesStay
<1>1. /\ wire \subseteq 1 .. Len(trades') /\ buffer \subseteq 1 .. Len(trades')
      /\ writing \in [Minutes -> Places'] /\ candles \in [Sources -> [Minutes -> Places']]
      /\ job \in Jobs'
  <2>1. Places \subseteq Places'
    BY <1>0 DEF Places
  <2>2. /\ wire \subseteq 1 .. Len(trades) /\ buffer \subseteq 1 .. Len(trades)
        /\ writing \in [Minutes -> Places] /\ candles \in [Sources -> [Minutes -> Places]]
        /\ job \in Jobs
    BY DEF TypeOK, Jobs, Places
  <2>3. wire \subseteq 1 .. Len(trades') /\ buffer \subseteq 1 .. Len(trades')
    BY <1>0, <2>2
  <2>4. writing \in [Minutes -> Places'] /\ candles \in [Sources -> [Minutes -> Places']]
    <3>1. [Minutes -> Places] \subseteq [Minutes -> Places']
      BY <2>1
    <3> QED BY <2>2, <3>1
  <2>5. job \in Jobs'
    <3>1. job.rows \in [Minutes -> Places']
      BY <2>1, <2>2 DEF Jobs
    <3> QED BY <2>2, <3>1 DEF Jobs
  <2> QED BY <2>3, <2>4, <2>5
<1>2. NoCandles \in [Minutes -> Places']
  BY DEF NoCandles, Places
<1> DEFINE CollectorOK == /\ wire' \subseteq 1 .. Len(trades') /\ buffer' \subseteq 1 .. Len(trades')
                          /\ up' \in BOOLEAN /\ writing' \in [Minutes -> Places']
           CandlesOK == candles' \in [Sources -> [Minutes -> Places']]
           JobOK1 == job' \in Jobs' /\ PageSound'
<1>3. up \in BOOLEAN /\ (job' = job => PageSound')
  BY DEF TypeOK, PageSound
<1>4. ASSUME NEW s \in Sources, NEW k \in Minutes, NEW group \in Places', GetOrCreate(s, k, group)
      PROVE  CandlesOK
  BY <1>1, <1>4 DEF GetOrCreate
<1>5. CollectorOK /\ CandlesOK /\ JobOK1
  <2>1. CASE UNCHANGED vars
    BY <2>1, <1>1, <1>3 DEF vars, collector
  <2>2. CASE Tick
    BY <2>2, <1>1, <1>3 DEF Tick, collector
  <2>3. CASE Trade
    <3>1. Len(trades) + 1 \in 1 .. Len(trades')
      <4>1. Len(trades) \in Nat /\ Len(trades') = Len(trades) + 1
        BY <2>3 DEF Trade, TypeOK
      <4> QED BY <4>1
    <3> QED BY <2>3, <3>1, <1>1, <1>3 DEF Trade
  <2>4. ASSUME NEW i \in wire, Receive(i) PROVE CollectorOK /\ CandlesOK /\ JobOK1
    <3>1. trades' = trades
      BY <2>4 DEF Receive, market
    <3>2. Aggregate(Completed(buffer \cup {i}, i)) \in [Minutes -> Places']
      BY <1>1 DEF Aggregate, Completed, Places
    <3> QED BY <2>4, <3>1, <3>2, <1>1, <1>3 DEF Receive
  <2>5. CASE Write
    <3>1. PICK k : k = Least(Listed(writing))
      OBVIOUS
    <3>2. /\ GetOrCreate("kis_ws", k, writing[k]) /\ writing' = [writing EXCEPT ![k] = {}]
          /\ UNCHANGED <<wire, up, buffer, job>> /\ writing # NoCandles
      BY <2>5, <3>1 DEF Write
    <3>3. Listed(writing) # {}
      BY <3>2 DEF Listed, NoCandles, TypeOK
    <3>4. k \in Minutes
      BY <3>1, <3>3, LeastListed
    <3>5. writing[k] \in Places' /\ {} \in Places' /\ "kis_ws" \in Sources
      BY <3>4, <1>1 DEF Sources, Places
    <3>6. writing' \in [Minutes -> Places']
      BY <3>2, <3>5, <1>1
    <3>7. CandlesOK
      BY <3>2, <3>4, <3>5, <1>4
    <3> QED BY <3>2, <3>6, <3>7, <1>1, <1>3
  <2>6. CASE Die \/ Restart
    BY <2>6, <1>1, <1>2, <1>3 DEF Die, Restart
  <2>7. CASE StartBackfill
    <3>1. job' = Started(clock) /\ Pages >= 1
      BY <2>7, JobSteps, BarsAssumption
    <3>2. clock \in 0 .. LastMinute /\ Pages \in 0 .. Pages /\ LastMinute \in Nat
      BY BarsAssumption DEF TypeOK, Minutes
    <3>3. job' \in Jobs' /\ PageSound'
      BY <3>1, <3>2, <1>2 DEF Started, Jobs, PageSound
    <3> QED BY <2>7, <3>3, <1>1, <1>3 DEF StartBackfill, collector
  <2>8. CASE Ask
    <3>1. CASE job' = [job EXCEPT !.pc = "done"]
      <4>1. job' \in Jobs' /\ PageSound'
        BY <3>1, <1>1 DEF Jobs, PageSound
      <4> QED BY <2>8, <4>1, <1>1, <1>3 DEF Ask, collector
    <3>2. CASE Page(job.to) # {} /\ job' = Answered(job, Page(job.to))
      <4>0. PICK b \in 0 .. LastMinute : b = job.to
        BY DEF TypeOK
      <4>1. Least(Page(b)) \in 1 .. b
        BY <3>2, <4>0, PageIs, LeastIs
      <4>2. [m \in Minutes |-> IF m \in Page(job.to) THEN TradesOf(m) ELSE {}]
              \in [Minutes -> Places']
        BY <1>0 DEF TradesOf, Places
      <4>3. Least(Page(job.to)) \in 0 .. LastMinute
        BY <4>0, <4>1, BarsAssumption
      <4>4. job' \in Jobs'
        BY <3>2, <4>2, <4>3, <1>1 DEF Answered, Jobs
      <4>5. PageSound'
        BY <3>2, <4>0, <4>1, <2>8, AskStep DEF Answered, PageSound
      <4> QED BY <2>8, <4>4, <4>5, <1>1, <1>3 DEF Ask, collector
    <3> QED BY <2>8, <3>1, <3>2, AskStep
  <2>9. CASE WriteRow
    <3>1. PICK k \in Minutes :
           /\ GetOrCreate("kis_rest", k, job.rows[k])
           /\ job' = [job EXCEPT !.rows = [m \in Minutes |-> IF m = k THEN {} ELSE job.rows[m]]]
           /\ UNCHANGED <<market, collector>>
      BY <2>9, WriteRowIs
    <3>2. job.rows \in [Minutes -> Places'] /\ {} \in Places' /\ "kis_rest" \in Sources
      BY <1>1 DEF Jobs, Sources, Places
    <3>3. job' \in Jobs'
      <4>1. [m \in Minutes |-> IF m = k THEN {} ELSE job.rows[m]] \in [Minutes -> Places']
        BY <3>2
      <4> QED BY <3>1, <4>1, <1>1 DEF Jobs
    <3>4. CandlesOK
      BY <3>1, <3>2, <1>4
    <3>5. PageSound'
      BY <3>1, <1>1 DEF PageSound, Jobs
    <3> QED BY <3>1, <3>3, <3>4, <3>5, <1>1, <1>3 DEF collector
  <2>10. CASE TurnPage
    <3>0. job.pc = "writing" /\ job.left >= 1 /\ job.first \in 1 .. job.to
      BY <2>10, JobSteps DEF PageSound
    <3>1. CASE job' = [job EXCEPT !.pc = "done"]
      <4>1. job' \in Jobs' /\ PageSound'
        BY <3>1, <1>1 DEF Jobs, PageSound
      <4> QED BY <2>10, <4>1, <1>1, <1>3 DEF TurnPage, collector
    <3>2. CASE job.left # 1 /\ job' = Further(job)
      <4>1. job.left - 1 \in 1 .. Pages /\ job.left - 1 \in 0 .. Pages
            /\ job.first - 1 \in 0 .. LastMinute
        BY <3>0, <3>2, BarsAssumption DEF TypeOK
      <4>2. job' \in Jobs' /\ PageSound'
        BY <3>2, <4>1, <1>1 DEF Further, Jobs, PageSound
      <4> QED BY <2>10, <4>2, <1>1, <1>3 DEF TurnPage, collector
    <3> QED BY <2>10, <3>1, <3>2, JobSteps
  <2> QED BY <2>1, <2>2, <2>3, <2>4, <2>5, <2>6, <2>7, <2>8, <2>9, <2>10 DEF Next
<1> QED BY <1>0, <1>5 DEF TypeOK, Jobs, Places
-----------------------------------------------------------------------------
(* What the collector has lost, and what it has not. *)

Held == buffer \cup wire

\* Trades have the order of their minutes.
InTimeOrder == \A i, j \in 1 .. Len(trades) : i <= j => trades[i] <= trades[j]

\* A set of trades that has, with one of its trades, every later one of minute m
Closed(C, m) == \A i \in C, j \in TradesOf(m) : j > i => j \in C

\* A process that is down has nothing.  Without late trades one that is up has
\* every trade after the first it has, and its candles end as their minutes do.
DownIsEmpty == ~up => wire = {} /\ buffer = {}
Onward == \A i \in Held, j \in 1 .. Len(trades) : j > i => j \in Held
ClosesKept ==
  "late" \notin events =>
    /\ Onward
    /\ \A m \in Minutes : Closed(writing[m], m) /\ Closed(candles["kis_ws"][m], m)

\* Without restarts, what it has no more is of minutes before those it has: it
\* always has the last trade, and its candles are whole.
Behind == \A b \in 1 .. Len(trades), a \in Held : b \in Held \/ trades[b] < trades[a]
WholeKept ==
  {"late", "restart"} \cap events = {} =>
    /\ up /\ Behind
    /\ Len(trades) > 0 => Len(trades) \in Held
    /\ \A m \in Minutes : writing[m] \in {{}, TradesOf(m)}
                          /\ candles["kis_ws"][m] \in {{}, TradesOf(m)}

\* What the broker lists of a minute that is over is all of it.
RestWhole ==
  "forming" \notin events =>
    \A m \in Minutes : \A C \in {job.rows[m], candles["kis_rest"][m]} :
      C # {} => m < clock /\ C = TradesOf(m)

CollectorInv == InTimeOrder /\ DownIsEmpty /\ ClosesKept /\ WholeKept /\ RestWhole

Same(s) == \A m \in Minutes : candles'[s][m] = candles[s][m]

\* A candle of the collector is written to its own source.
LEMMA WriteIs ==
  ASSUME TypeOK, Shape, Write
  PROVE  /\ UNCHANGED <<market, wire, up, buffer, job>> /\ Same("kis_rest")
         /\ \E k \in Minutes :
              /\ writing' = [m \in Minutes |-> IF m = k THEN {} ELSE writing[m]]
              /\ \A m \in Minutes : \/ candles'["kis_ws"][m] = candles["kis_ws"][m]
                                    \/ m = k /\ candles'["kis_ws"][m] = writing[k]
<1>1. PICK k : k = Least(Listed(writing))
  OBVIOUS
<1>2. /\ GetOrCreate("kis_ws", k, writing[k]) /\ writing' = [writing EXCEPT ![k] = {}]
      /\ UNCHANGED <<market, wire, up, buffer, job>> /\ writing # NoCandles
  BY <1>1 DEF Write
<1>3. writing = [m \in Minutes |-> writing[m]]
  BY DEF TypeOK
<1>4. Listed(writing) # {}
  BY <1>2, <1>3 DEF Listed, NoCandles
<1>5. k \in Minutes
  BY <1>1, <1>4, LeastListed
<1>6. writing' = [m \in Minutes |-> IF m = k THEN {} ELSE writing[m]]
  BY <1>2, <1>3
<1>7. \A s \in Sources, m \in Minutes :
        \/ candles'[s][m] = candles[s][m]
        \/ s = "kis_ws" /\ m = k /\ candles[s][m] = {} /\ candles'[s][m] = writing[k]
  BY <1>2, CreateKeeps DEF Sources
<1>8. "kis_ws" \in Sources /\ "kis_rest" \in Sources /\ "kis_rest" # "kis_ws"
  BY DEF Sources
<1>9. Same("kis_rest")
  BY <1>7, <1>8 DEF Same
<1> QED BY <1>2, <1>5, <1>6, <1>7, <1>8, <1>9

\* The row of a backfill is written to its own.
LEMMA WriteRowKeeps ==
  ASSUME TypeOK, Shape, WriteRow
  PROVE  /\ Same("kis_ws")
         /\ \E k \in Minutes :
              /\ job.rows[k] # {}
              /\ job' = [job EXCEPT !.rows = [m \in Minutes |-> IF m = k THEN {} ELSE job.rows[m]]]
              /\ candles'["kis_rest"][k] # {}
              /\ \A m \in Minutes :
                   \/ candles'["kis_rest"][m] = candles["kis_rest"][m]
                   \/ m = k /\ candles["kis_rest"][m] = {} /\ candles'["kis_rest"][m] = job.rows[k]
<1>1. PICK k \in Minutes :
        /\ job.rows[k] # {} /\ GetOrCreate("kis_rest", k, job.rows[k])
        /\ job' = [job EXCEPT !.rows = [m \in Minutes |-> IF m = k THEN {} ELSE job.rows[m]]]
  BY WriteRowIs
<1>2. \A s \in Sources, m \in Minutes :
        \/ candles'[s][m] = candles[s][m]
        \/ s = "kis_rest" /\ m = k /\ candles[s][m] = {} /\ candles'[s][m] = job.rows[k]
  BY <1>1, CreateKeeps DEF Sources
<1>3. "kis_ws" \in Sources /\ "kis_rest" \in Sources /\ "kis_rest" # "kis_ws"
  BY DEF Sources
<1>4. Same("kis_ws")
  BY <1>2, <1>3 DEF Same
<1>5. candles'["kis_rest"][k] # {}
  <2>1. CASE candles["kis_rest"][k] # {}
    BY <2>1, <1>2, <1>3
  <2>2. CASE candles["kis_rest"][k] = {}
    <3>1. candles' = [candles EXCEPT !["kis_rest"] =
                        [candles["kis_rest"] EXCEPT ![k] = job.rows[k]]]
      BY <2>2, <1>1 DEF GetOrCreate
    <3>2. k \in DOMAIN candles["kis_rest"] /\ "kis_rest" \in DOMAIN candles
      BY <1>1, <1>3 DEF TypeOK
    <3> QED BY <3>1, <3>2, <1>1
  <2> QED BY <2>1, <2>2
<1> QED BY <1>1, <1>2, <1>3, <1>4, <1>5

\* A step receives a trade, writes a candle, kills the collector, adds a trade
\* of the market, or leaves the collector and its candles alone.
Quiet ==
  /\ UNCHANGED <<trades, wire, buffer, writing>> /\ Same("kis_ws")
  /\ up' = up \/ (up' /\ Restart)

\* Every step is one of these five.
LEMMA CollectorSteps ==
  ASSUME BarTypes, Shape, [Next]_vars
  PROVE  Quiet \/ Trade \/ (\E i \in wire : Receive(i)) \/ Write \/ Die
<1>1. WriteRow => Quiet
  BY WriteRowKeeps DEF BarTypes, Quiet, WriteRow, market, collector
<1>2. Tick \/ Restart \/ StartBackfill \/ Ask \/ TurnPage \/ UNCHANGED vars => Quiet
  BY DEF Tick, Restart, StartBackfill, Ask, TurnPage, vars, market, collector, Quiet, Same
<1> QED BY <1>1, <1>2 DEF Next

\* The market's order.
LEMMA OrderStep == ASSUME BarTypes, IInv, InTimeOrder, [Next]_vars PROVE InTimeOrder'
<1> SUFFICES ASSUME NEW i \in 1 .. Len(trades'), NEW j \in 1 .. Len(trades'), i <= j
             PROVE  trades'[i] <= trades'[j]
  BY DEF InTimeOrder
<1>1. /\ clock \in Minutes /\ Len(trades) \in Nat /\ Len(trades') \in Nat
      /\ \A k \in 1 .. Len(trades) : trades[k] \in Minutes /\ trades'[k] = trades[k]
      /\ \A k \in 1 .. Len(trades') : k \in 1 .. Len(trades) \/
                                      (k = Len(trades) + 1 /\ trades'[k] = clock)
  BY TradesStay DEF BarTypes
<1>2. \A k \in 1 .. Len(trades) : trades[k] <= clock
  BY DEF IInv, PastTrades
<1>3. CASE i \in 1 .. Len(trades) /\ j \in 1 .. Len(trades)
  BY <1>3, <1>1 DEF InTimeOrder
<1>4. CASE j = Len(trades) + 1 /\ trades'[j] = clock
  BY <1>4, <1>1, <1>2 DEF Minutes
<1>5. CASE i = Len(trades) + 1 /\ j \in 1 .. Len(trades)
  BY <1>5, <1>1
<1> QED BY <1>1, <1>3, <1>4, <1>5

\* A process that is down is sent nothing.
LEMMA DownStep == ASSUME BarTypes, Shape, DownIsEmpty, [Next]_vars PROVE DownIsEmpty'
<1>1. CASE Quiet
  BY <1>1 DEF Quiet, DownIsEmpty
<1>2. CASE Trade
  BY <1>2 DEF Trade, DownIsEmpty
<1>3. CASE \E i \in wire : Receive(i)
  BY <1>3 DEF Receive, DownIsEmpty
<1>4. CASE Write
  BY <1>4 DEF Write, DownIsEmpty
<1>5. CASE Die
  BY <1>5 DEF Die, DownIsEmpty
<1> QED BY <1>1, <1>2, <1>3, <1>4, <1>5, CollectorSteps

\* What trade i completes is of minutes before it, and the rest is not; in time
\* order nothing on the wire is.
LEMMA Taken ==
  ASSUME BarTypes, IInv, InTimeOrder, NEW i \in wire, Receive(i), "late" \notin events
  PROVE  /\ i \in 1 .. Len(trades) /\ Held \subseteq 1 .. Len(trades)
         /\ UNCHANGED <<market, up, candles, job>> /\ up
         /\ Held' = Held \ Completed(buffer \cup {i}, i)
         /\ \A b \in Held : trades[b] < trades[i] =>
                              b \in buffer /\ b \in Completed(buffer \cup {i}, i)
         /\ \A a \in Held' : trades[a] >= trades[i]
         /\ \A m \in Minutes : writing'[m] =
              {b \in Held : trades[b] = m /\ trades[b] < trades[i]}
<1>1. i \in 1 .. Len(trades) /\ wire \in SUBSET (1 .. Len(trades))
      /\ buffer \in SUBSET (1 .. Len(trades)) /\ wire \in SUBSET Nat /\ Len(trades) \in Nat
      /\ \A k \in 1 .. Len(trades) : trades[k] \in Nat
  <2>1. trades \in Seq(Minutes) /\ wire \subseteq 1 .. Len(trades)
        /\ buffer \subseteq 1 .. Len(trades)
    BY DEF BarTypes, TypeOK
  <2>2. Len(trades) \in Nat /\ \A k \in 1 .. Len(trades) : trades[k] \in Minutes
    BY <2>1
  <2> QED BY <2>1, <2>2 DEF Minutes
<1>2. \A b \in wire : i <= b
  BY <1>1, LeastIs DEF Receive
<1>3. \A b \in wire : trades[b] >= trades[i]
  BY <1>1, <1>2 DEF InTimeOrder
<1>4. \A b \in Held : trades[b] < trades[i] => b \in buffer
  BY <1>1, <1>3 DEF Held
<1>5. /\ wire' = wire \ {i} /\ buffer' = (buffer \cup {i}) \ Completed(buffer \cup {i}, i)
      /\ writing' = Aggregate(Completed(buffer \cup {i}, i))
      /\ UNCHANGED <<market, up, candles, job>> /\ up
  BY DEF Receive
<1>6. Completed(buffer \cup {i}, i) = {b \in Held : trades[b] < trades[i]}
  BY <1>1, <1>4 DEF Completed, Held
<1>7. ~(trades[i] < trades[i])
  BY <1>1
<1>8. Held' = Held \ Completed(buffer \cup {i}, i)
  <2>1. \A b \in wire : b \notin Completed(buffer \cup {i}, i)
    <3> SUFFICES ASSUME NEW b \in wire PROVE ~(trades[b] < trades[i])
      BY <1>6
    <3>1. b \in 1 .. Len(trades)
      BY <1>1
    <3> QED BY <3>1, <1>1, <1>3
  <2> HIDE DEF Completed
  <2> QED BY <1>5, <2>1 DEF Held
<1>9. \A a \in Held' : trades[a] >= trades[i]
  <2> SUFFICES ASSUME NEW a \in Held' PROVE trades[a] >= trades[i]
    OBVIOUS
  <2>1. a \in Held /\ ~(trades[a] < trades[i])
    BY <1>8, <1>6
  <2>2. a \in 1 .. Len(trades)
    BY <2>1, <1>1 DEF Held
  <2> QED BY <2>1, <2>2, <1>1
<1>10. \A m \in Minutes : writing'[m] = {b \in Held : trades[b] = m /\ trades[b] < trades[i]}
  BY <1>5, <1>6 DEF Aggregate
<1>11. \A b \in Held : trades[b] < trades[i] => b \in Completed(buffer \cup {i}, i)
  BY <1>6
<1>12. Held \subseteq 1 .. Len(trades)
  BY <1>1 DEF Held
<1> QED BY <1>1, <1>4, <1>5, <1>8, <1>9, <1>10, <1>11, <1>12

\* The minutes that something is written of are over, and have no new trades.
LEMMA OverMinutes ==
  ASSUME BarTypes, IInv, [Next]_vars, NEW m \in Minutes
  PROVE  /\ writing[m] # {} => m < clock /\ TradesOf(m)' = TradesOf(m)
         /\ candles["kis_ws"][m] # {} => m < clock /\ TradesOf(m)' = TradesOf(m)
         /\ m < clock => TradesOf(m)' = TradesOf(m) /\ m < clock'
<1>1. clock \in Minutes /\ clock' \in Minutes /\ clock <= clock' /\ m \in Int
      /\ \A n \in Minutes : n # clock => TradesOf(n)' = TradesOf(n)
  BY TradesStay DEF BarTypes, Minutes
<1>2. m < clock => TradesOf(m)' = TradesOf(m) /\ m < clock'
  BY <1>1 DEF Minutes
<1> QED BY <1>2 DEF IInv, FlushedMinutesAreOver, OnlyCompletedMinutes

\* In time order whatever is flushed goes with every later trade of its minute.
LEMMA ClosesStep ==
  ASSUME BarTypes, IInv, InTimeOrder, DownIsEmpty, ClosesKept, [Next]_vars
  PROVE  ClosesKept'
<1> SUFFICES ASSUME "late" \notin events
             PROVE  /\ Onward'
                    /\ \A m \in Minutes : Closed(writing[m], m)' /\ Closed(candles["kis_ws"][m], m)'
  BY MarketStep DEF ClosesKept, BarTypes
<1>1. Onward /\ \A m \in Minutes : Closed(writing[m], m) /\ Closed(candles["kis_ws"][m], m)
  BY DEF ClosesKept
<1>2. \A m \in Minutes : Closed({}, m)'
  BY DEF Closed
<1>3. \A m \in Minutes : Closed(writing[m], m)' \/ writing'[m] # writing[m]
  <2> SUFFICES ASSUME NEW m \in Minutes, writing'[m] = writing[m] PROVE Closed(writing[m], m)'
    OBVIOUS
  <2>1. CASE writing[m] = {}
    BY <2>1 DEF Closed
  <2>2. CASE writing[m] # {}
    BY <2>2, <1>1, OverMinutes DEF Closed
  <2> QED BY <2>1, <2>2
<1>4. \A m \in Minutes : Closed(candles["kis_ws"][m], m)'
                         \/ candles'["kis_ws"][m] # candles["kis_ws"][m]
  <2> SUFFICES ASSUME NEW m \in Minutes, candles'["kis_ws"][m] = candles["kis_ws"][m]
               PROVE  Closed(candles["kis_ws"][m], m)'
    OBVIOUS
  <2>1. CASE candles["kis_ws"][m] = {}
    BY <2>1 DEF Closed
  <2>2. CASE candles["kis_ws"][m] # {}
    BY <2>2, <1>1, OverMinutes DEF Closed
  <2> QED BY <2>1, <2>2
<1>5. CASE Quiet
  <2>1. Onward'
    BY <1>5, <1>1 DEF Quiet, Onward, Held
  <2> QED BY <1>5, <2>1, <1>3, <1>4 DEF Quiet, Same
<1>6. CASE Trade
  <2>1. UNCHANGED <<writing, candles, buffer>> /\ Len(trades) \in Nat
        /\ Len(trades') = Len(trades) + 1
        /\ wire' = IF up THEN wire \cup {Len(trades) + 1} ELSE wire
    BY <1>6 DEF Trade, BarTypes, TypeOK
  <2>2. CASE up
    <3>1. Held' = Held \cup {Len(trades) + 1}
      BY <2>1, <2>2 DEF Held
    <3>2. Held \subseteq 1 .. Len(trades)
      BY DEF Held, BarTypes, TypeOK
    <3>3. Onward'
      <4> SUFFICES ASSUME NEW a \in Held', NEW b \in 1 .. Len(trades'), b > a PROVE b \in Held'
        BY DEF Onward
      <4>1. CASE b = Len(trades) + 1
        BY <4>1, <3>1
      <4>2. CASE b \in 1 .. Len(trades)
        <5>1. a \in Held
          BY <4>2, <3>1, <3>2, <2>1
        <5> QED BY <4>2, <5>1, <1>1, <3>1 DEF Onward
      <4> QED BY <2>1, <4>1, <4>2
    <3> QED BY <3>3, <2>1, <1>3, <1>4
  <2>3. CASE ~up
    <3>1. Onward'
      BY <2>3, <2>1 DEF Onward, Held, DownIsEmpty
    <3> QED BY <3>1, <2>1, <1>3, <1>4
  <2> QED BY <2>2, <2>3
<1>7. ASSUME NEW i \in wire, Receive(i)
      PROVE  /\ Onward'
             /\ \A m \in Minutes : Closed(writing[m], m)' /\ Closed(candles["kis_ws"][m], m)'
  <2>1. /\ i \in 1 .. Len(trades) /\ Held \subseteq 1 .. Len(trades)
        /\ trades' = trades /\ candles' = candles
        /\ Held' = Held \ Completed(buffer \cup {i}, i)
        /\ \A b \in Held : trades[b] < trades[i] => b \in Completed(buffer \cup {i}, i)
        /\ \A a \in Held' : trades[a] >= trades[i]
        /\ \A m \in Minutes : writing'[m] = {b \in Held : trades[b] = m /\ trades[b] < trades[i]}
    BY <1>7, Taken DEF market
  <2>2. \A k \in 1 .. Len(trades) : trades[k] \in Int
    <3>1. trades \in Seq(Minutes)
      BY DEF BarTypes, TypeOK
    <3>2. \A k \in 1 .. Len(trades) : trades[k] \in Minutes
      BY <3>1
    <3> QED BY <3>2 DEF Minutes
  <2>3. \A k \in Held : k \in Completed(buffer \cup {i}, i) => trades[k] < trades[i]
    BY DEF Completed
  <2>4. Onward'
    <3> SUFFICES ASSUME NEW a \in Held', NEW b \in 1 .. Len(trades), b > a PROVE b \in Held'
      BY <2>1 DEF Onward
    <3>1. a \in Held /\ trades[a] >= trades[i]
      BY <2>1
    <3>2. a \in 1 .. Len(trades) /\ a <= b
      BY <2>1, <3>1
    <3>3. b \in Held
      BY <3>1, <1>1 DEF Onward
    <3>4. trades[b] >= trades[i]
      BY <3>1, <3>2, <2>1, <2>2 DEF InTimeOrder
    <3>5. b \notin Completed(buffer \cup {i}, i)
      <4>1. trades[b] \in Int /\ trades[i] \in Int
        BY <2>1, <2>2
      <4>2. ~(trades[b] < trades[i])
        BY <4>1, <3>4
      <4> QED BY <4>2, <3>3, <2>3
    <3> QED BY <3>3, <3>5, <2>1
  <2>5. ASSUME NEW m \in Minutes PROVE Closed(writing[m], m)'
    <3> SUFFICES ASSUME NEW a \in writing'[m], NEW b \in TradesOf(m), b > a PROVE b \in writing'[m]
      BY <2>1 DEF Closed, TradesOf
    <3>1. a \in Held /\ trades[a] = m /\ m < trades[i]
      BY <2>1
    <3>2. b \in 1 .. Len(trades) /\ trades[b] = m
      BY DEF TradesOf
    <3>3. b \in Held
      BY <3>1, <3>2, <1>1 DEF Onward
    <3> QED BY <3>1, <3>2, <3>3, <2>1
  <2> QED BY <2>1, <2>4, <2>5, <1>4
<1>8. CASE Write
  <2>1. /\ UNCHANGED <<market, wire, up, buffer, job>>
        /\ \E k \in Minutes :
              /\ writing' = [m \in Minutes |-> IF m = k THEN {} ELSE writing[m]]
              /\ \A m \in Minutes : \/ candles'["kis_ws"][m] = candles["kis_ws"][m]
                                    \/ m = k /\ candles'["kis_ws"][m] = writing[k]
    BY <1>8, WriteIs DEF BarTypes, IInv
  <2>2. PICK k \in Minutes :
              /\ writing' = [m \in Minutes |-> IF m = k THEN {} ELSE writing[m]]
              /\ \A m \in Minutes : \/ candles'["kis_ws"][m] = candles["kis_ws"][m]
                                    \/ m = k /\ candles'["kis_ws"][m] = writing[k]
    BY <2>1
  <2>3. trades' = trades /\ Onward'
    BY <2>1, <1>1 DEF market, Onward, Held
  <2>4. ASSUME NEW m \in Minutes
        PROVE  Closed(writing[m], m)' /\ Closed(candles["kis_ws"][m], m)'
    <3>1. writing'[m] = {} \/ writing'[m] = writing[m]
      BY <2>2
    <3>2. Closed(writing[m], m)'
      BY <3>1, <1>3 DEF Closed
    <3>3. candles'["kis_ws"][m] = candles["kis_ws"][m] \/ candles'["kis_ws"][m] = writing[m]
      BY <2>2
    <3>4. Closed(candles["kis_ws"][m], m)'
      BY <3>3, <1>1, <2>3 DEF Closed, TradesOf
    <3> QED BY <3>2, <3>4
  <2> QED BY <2>3, <2>4
<1>9. CASE Die
  <2>1. Held' = {} /\ candles' = candles /\ writing' = NoCandles
    BY <1>9 DEF Die, Held
  <2>2. Onward'
    BY <2>1 DEF Onward
  <2>3. \A m \in Minutes : Closed(writing[m], m)'
    BY <2>1 DEF Closed, NoCandles
  <2> QED BY <2>1, <2>2, <2>3, <1>4
<1> QED BY <1>5, <1>6, <1>7, <1>8, <1>9, CollectorSteps DEF IInv

\* Without restarts a candle that is written has all trades of its minute.
LEMMA WholeStep ==
  ASSUME BarTypes, IInv, InTimeOrder, ClosesKept, WholeKept, [Next]_vars
  PROVE  WholeKept'
<1> SUFFICES ASSUME {"late", "restart"} \cap events = {} PROVE WholeKept'
  BY MarketStep DEF WholeKept, BarTypes
<1> DEFINE Whole(m) == /\ writing[m] \in {{}, TradesOf(m)}
                       /\ candles["kis_ws"][m] \in {{}, TradesOf(m)}
<1>0. "late" \notin events /\ "restart" \notin events
  OBVIOUS
<1>1. /\ up /\ Behind /\ (Len(trades) > 0 => Len(trades) \in Held)
      /\ \A m \in Minutes : Whole(m)
  BY DEF WholeKept
<1>2. SUFFICES /\ up' /\ Behind' /\ (Len(trades') > 0 => Len(trades') \in Held')
               /\ \A m \in Minutes : Whole(m)'
  BY DEF WholeKept
<1>3. /\ trades \in Seq(Minutes) /\ Len(trades) \in Nat /\ clock \in Int
      /\ \A k \in 1 .. Len(trades) : trades[k] \in Int /\ trades[k] <= clock
      /\ Held \subseteq 1 .. Len(trades)
  <2>1. trades \in Seq(Minutes) /\ clock \in Minutes /\ Held \subseteq 1 .. Len(trades)
    BY DEF BarTypes, TypeOK, Held
  <2>2. \A k \in 1 .. Len(trades) : trades[k] \in Minutes
    BY <2>1
  <2> QED BY <2>1, <2>2 DEF Minutes, IInv, PastTrades
<1>4. \A m \in Minutes : writing'[m] \in {{}, writing[m]} => writing'[m] \in {{}, TradesOf(m)'}
  BY <1>1, OverMinutes
<1>5. \A m \in Minutes : candles'["kis_ws"][m] = candles["kis_ws"][m]
                           => candles'["kis_ws"][m] \in {{}, TradesOf(m)'}
  BY <1>1, OverMinutes
<1>6. CASE Quiet
  <2>1. up' /\ Behind' /\ (Len(trades') > 0 => Len(trades') \in Held')
    BY <1>6, <1>1 DEF Quiet, Behind, Held
  <2> QED BY <1>6, <2>1, <1>4, <1>5 DEF Quiet, Same
<1>7. CASE Trade
  <2>1. /\ UNCHANGED <<writing, candles, buffer, up>> /\ Len(trades') = Len(trades) + 1
        /\ Held' = Held \cup {Len(trades) + 1}
        /\ \A k \in 1 .. Len(trades) : trades'[k] = trades[k]
        /\ trades'[Len(trades) + 1] = clock
    BY <1>7, <1>1, <1>3 DEF Trade, Held
  <2>2. Behind'
    <3> SUFFICES ASSUME NEW b \in 1 .. Len(trades'), NEW a \in Held', b \notin Held'
                 PROVE  trades'[b] < trades'[a]
      BY DEF Behind
    <3>1. b \in 1 .. Len(trades) /\ b \notin Held /\ trades'[b] = trades[b]
      BY <2>1, <1>3
    <3>2. CASE a \in Held
      BY <3>1, <3>2, <1>1, <1>3, <2>1 DEF Behind
    <3>3. CASE a = Len(trades) + 1
      <4>1. Len(trades) \in Held
        BY <3>1, <1>1, <1>3
      <4>2. trades[b] < trades[Len(trades)] /\ trades[Len(trades)] <= clock
        BY <4>1, <3>1, <1>1, <1>3 DEF Behind
      <4>3. trades[b] \in Int /\ trades[Len(trades)] \in Int
        BY <4>1, <3>1, <1>3
      <4> QED BY <4>2, <4>3, <3>1, <3>3, <2>1, <1>3
    <3> QED BY <3>2, <3>3, <2>1
  <2> QED BY <2>1, <2>2, <1>1, <1>4, <1>5
<1>8. ASSUME NEW i \in wire, Receive(i)
      PROVE  /\ up' /\ Behind' /\ (Len(trades') > 0 => Len(trades') \in Held')
             /\ \A m \in Minutes : Whole(m)'
  <2>1. /\ i \in 1 .. Len(trades) /\ up' /\ trades' = trades /\ candles' = candles
        /\ Held' = Held \ Completed(buffer \cup {i}, i)
        /\ \A b \in Held : trades[b] < trades[i] => b \in Completed(buffer \cup {i}, i)
        /\ \A a \in Held' : trades[a] >= trades[i]
        /\ \A m \in Minutes : writing'[m] = {b \in Held : trades[b] = m /\ trades[b] < trades[i]}
    BY <1>8, <1>0, <1>1, Taken DEF market
  <2>2. \A k \in Completed(buffer \cup {i}, i) : trades[k] < trades[i]
    BY DEF Completed
  <2>3. trades[i] \in Int
    BY <2>1, <1>3
  <2>4. Behind'
    <3> SUFFICES ASSUME NEW b \in 1 .. Len(trades), NEW a \in Held', b \notin Held'
                 PROVE  trades[b] < trades[a]
      BY <2>1 DEF Behind
    <3>1. a \in Held /\ trades[a] >= trades[i] /\ trades[a] \in Int /\ trades[b] \in Int
      BY <2>1, <1>3
    <3>2. CASE b \notin Held
      BY <3>1, <3>2, <1>1 DEF Behind
    <3>3. CASE b \in Held
      <4>1. trades[b] < trades[i]
        BY <3>3, <2>1, <2>2
      <4> QED BY <4>1, <3>1, <2>3
    <3> QED BY <3>2, <3>3
  <2>5. Len(trades) > 0 => Len(trades) \in Held'
    <3> SUFFICES ASSUME Len(trades) > 0 PROVE Len(trades) \in Held'
      OBVIOUS
    <3>1. Len(trades) \in Held /\ Len(trades) \in 1 .. Len(trades) /\ i <= Len(trades)
      BY <1>1, <1>3, <2>1
    <3>2. trades[Len(trades)] >= trades[i] /\ trades[Len(trades)] \in Int
      BY <3>1, <2>1, <1>3 DEF InTimeOrder
    <3>3. Len(trades) \notin Completed(buffer \cup {i}, i)
      <4>1. PICK x : x = trades[Len(trades)]
        OBVIOUS
      <4>2. ~(x < trades[i])
        BY <4>1, <3>2, <2>3
      <4> QED BY <4>1, <4>2, <2>2
    <3> QED BY <3>1, <3>3, <2>1
  <2>6. ASSUME NEW m \in Minutes, writing'[m] # {} PROVE writing'[m] = TradesOf(m)
    <3>1. PICK a \in Held : trades[a] = m /\ m < trades[i]
      BY <2>1, <2>6
    <3>2. ASSUME NEW b \in TradesOf(m) PROVE b \in writing'[m]
      <4>1. b \in 1 .. Len(trades) /\ trades[b] = m /\ trades[b] \in Int
        BY <1>3 DEF TradesOf
      <4>2. b \in Held
        BY <4>1, <3>1, <1>1 DEF Behind
      <4> QED BY <4>1, <4>2, <3>1, <2>1
    <3>3. \A b \in writing'[m] : b \in TradesOf(m)
      BY <2>1, <1>3 DEF TradesOf
    <3> QED BY <3>2, <3>3
  <2>7. \A m \in Minutes : TradesOf(m)' = TradesOf(m)
    BY <2>1 DEF TradesOf
  <2> QED BY <2>1, <2>4, <2>5, <2>6, <2>7, <1>5
<1>9. CASE Write
  <2>1. /\ UNCHANGED <<market, wire, up, buffer, job>>
        /\ \E k \in Minutes :
              /\ writing' = [m \in Minutes |-> IF m = k THEN {} ELSE writing[m]]
              /\ \A m \in Minutes : \/ candles'["kis_ws"][m] = candles["kis_ws"][m]
                                    \/ m = k /\ candles'["kis_ws"][m] = writing[k]
    BY <1>9, WriteIs DEF BarTypes, IInv
  <2>2. PICK k \in Minutes :
              /\ writing' = [m \in Minutes |-> IF m = k THEN {} ELSE writing[m]]
              /\ \A m \in Minutes : \/ candles'["kis_ws"][m] = candles["kis_ws"][m]
                                    \/ m = k /\ candles'["kis_ws"][m] = writing[k]
    BY <2>1
  <2>3. up' /\ Behind' /\ (Len(trades') > 0 => Len(trades') \in Held')
    BY <2>1, <1>1 DEF market, Behind, Held
  <2>4. ASSUME NEW m \in Minutes PROVE Whole(m)'
    <3>1. writing'[m] \in {{}, writing[m]}
      BY <2>2
    <3>2. candles'["kis_ws"][m] \in {candles["kis_ws"][m], writing[m]}
      BY <2>2
    <3>3. TradesOf(m)' = TradesOf(m)
      BY <2>1 DEF market, TradesOf
    <3> QED BY <3>1, <3>2, <3>3, <1>1
  <2> QED BY <2>3, <2>4
<1>10. CASE Die
  BY <1>10, <1>0 DEF Die
<1> QED BY <1>6, <1>7, <1>8, <1>9, <1>10, CollectorSteps DEF IInv

\* The rows of a job are those it was answered with.
LEMMA RowsStep ==
  ASSUME BarTypes, IInv, [Next]_vars
  PROVE  \A m \in Minutes :
           \/ job'.rows[m] \in {{}, job.rows[m]}
           \/ Ask /\ job'.rows[m] = TradesOf(m) /\ m \in Page(job.to)
<1>1. job.rows \in [Minutes -> Places]
  BY DEF BarTypes, TypeOK, Places
<1>2. Ask => \/ job' = [job EXCEPT !.pc = "done"]
             \/ job'.rows = [m \in Minutes |-> IF m \in Page(job.to) THEN TradesOf(m) ELSE {}]
  BY AskStep DEF BarTypes, Answered
<1>3. StartBackfill => job'.rows = NoCandles
  BY JobSteps DEF Started, BarTypes
<1>4. TurnPage => job'.rows = job.rows
  <2>1. TurnPage => job' = [job EXCEPT !.pc = "done"] \/ job' = Further(job)
    BY JobSteps DEF BarTypes
  <2>2. job \in Jobs
    BY DEF BarTypes, TypeOK, Jobs, Places
  <2> QED BY <2>1, <2>2 DEF Further, Jobs
<1>5. WriteRow => \A m \in Minutes : job'.rows[m] \in {{}, job.rows[m]}
  <2>1. job \in Jobs
    BY DEF BarTypes, TypeOK, Jobs, Places
  <2>2. WriteRow => \E k \in Minutes :
          job' = [job EXCEPT !.rows = [m \in Minutes |-> IF m = k THEN {} ELSE job.rows[m]]]
    BY WriteRowIs DEF BarTypes
  <2> QED BY <2>1, <2>2 DEF Jobs
<1>6. Ask => \A m \in Minutes : job'.rows[m] \in {{}, job.rows[m]}
                                \/ (job'.rows[m] = TradesOf(m) /\ m \in Page(job.to))
  <2>1. job \in Jobs
    BY DEF BarTypes, TypeOK, Jobs, Places
  <2> QED BY <1>2, <2>1 DEF Jobs
<1>7. Tick \/ Trade \/ (\E i \in wire : Receive(i)) \/ Write \/ Die \/ Restart \/ UNCHANGED vars
        => job' = job
  BY DEF Tick, Trade, Receive, Write, Die, Restart, vars
<1> QED BY <1>3, <1>4, <1>5, <1>6, <1>7 DEF Next, NoCandles

\* The candles of the backfill come from its rows.
LEMMA RestKinds ==
  ASSUME BarTypes, IInv, [Next]_vars
  PROVE  \A m \in Minutes : candles'["kis_rest"][m] \in {candles["kis_rest"][m], job.rows[m]}
<1>1. Write => Same("kis_rest")
  BY WriteIs DEF BarTypes, IInv
<1>2. WriteRow => \A m \in Minutes :
                    candles'["kis_rest"][m] \in {candles["kis_rest"][m], job.rows[m]}
  BY WriteRowKeeps DEF BarTypes, IInv
<1>3. Tick \/ Trade \/ (\E i \in wire : Receive(i)) \/ Die \/ Restart \/ StartBackfill \/ Ask
        \/ TurnPage \/ UNCHANGED vars => candles' = candles
  BY DEF Tick, Trade, Receive, Die, Restart, StartBackfill, Ask, TurnPage, vars
<1> QED BY <1>1, <1>2, <1>3 DEF Next, Same

\* A row of a completed minute is all of it, and so is the candle made of it.
LEMMA RestStepWhole ==
  ASSUME BarTypes, IInv, RestWhole, [Next]_vars
  PROVE  RestWhole'
<1> SUFFICES ASSUME "forming" \notin events, NEW m \in Minutes
             PROVE  \A C \in {job'.rows[m], candles'["kis_rest"][m]} :
                      C # {} => m < clock' /\ C = TradesOf(m)'
  BY MarketStep DEF RestWhole, BarTypes
<1>1. \A C \in {job.rows[m], candles["kis_rest"][m]} :
        C # {} => m < clock' /\ C = TradesOf(m)'
  BY OverMinutes DEF RestWhole
<1>2. ASSUME Ask, job'.rows[m] = TradesOf(m), m \in Page(job.to)
      PROVE  m < clock' /\ TradesOf(m)' = TradesOf(m)
  <2>1. m < clock
    BY <1>2 DEF Page, Traded
  <2> QED BY <2>1, OverMinutes
<1> QED BY <1>1, <1>2, RowsStep, RestKinds

\* When the day begins there is nothing to lose, and every step keeps what is said.
LEMMA CollectorInit == Init => CollectorInv
<1> SUFFICES ASSUME Init PROVE CollectorInv
  OBVIOUS
<1>1. Len(trades) = 0 /\ up /\ Held = {} /\ writing = NoCandles /\ job.rows = NoCandles
      /\ \A s \in Sources : candles[s] = NoCandles
  BY DEF Init, Held, NoJob
<1>2. \A m \in Minutes : NoCandles[m] = {}
  BY DEF NoCandles
<1> QED BY <1>1, <1>2 DEF CollectorInv, InTimeOrder, DownIsEmpty, ClosesKept, WholeKept, RestWhole,
                          Closed, Onward, Behind, Sources

LEMMA CollectorStep ==
  ASSUME BarTypes, IInv, CollectorInv, [Next]_vars PROVE CollectorInv'
BY OrderStep, DownStep, ClosesStep, WholeStep, RestStepWhole DEF CollectorInv, IInv
-----------------------------------------------------------------------------
(* What a backfill has behind it. *)

\* The newest K members of a set of numbers: they are its last ones, and there
\* are K of them unless they are all.
Newest(T, K) == {m \in T : Cardinality({n \in T : n > m}) < K}

\* The one before the newest K has K above it.
LEMMA NewestAre ==
  ASSUME NEW b \in Nat, NEW T \in SUBSET (1 .. b), NEW K \in Nat \ {0}
  PROVE  /\ Newest(T, K) \subseteq T
         /\ \A m \in Newest(T, K), n \in T : n >= m => n \in Newest(T, K)
         /\ Newest(T, K) = T \/ Cardinality(Newest(T, K)) >= K
         /\ Newest(T, K) = {} => T = {}
<1> DEFINE P == Newest(T, K)
           Above(m) == {n \in T : n > m}
<1>1. IsFiniteSet(T) /\ \A S \in SUBSET T : IsFiniteSet(S) /\ Cardinality(S) \in Nat
  <2>1. IsFiniteSet(1 .. b)
    BY FS_Interval
  <2>2. IsFiniteSet(T)
    BY <2>1, FS_Subset
  <2> QED BY <2>2, FS_Subset, FS_CardinalityType
<1>2. P \subseteq T /\ \A m \in T : m \in P <=> Cardinality(Above(m)) < K
  BY DEF Newest
<1>3. \A m \in T : Above(m) \in SUBSET T /\ m \in Nat /\ m <= b
  OBVIOUS
<1>4. ASSUME NEW m \in P, NEW n \in T, n >= m PROVE n \in P
  <2>1. m \in T /\ n \in Nat /\ m \in Nat
    BY <1>2, <1>3
  <2>2. Above(n) \in SUBSET Above(m)
    <3> SUFFICES ASSUME NEW x \in T, x > n PROVE x > m
      OBVIOUS
    <3>1. x \in Nat
      BY <1>3
    <3> QED BY <3>1, <2>1, <1>4
  <2>3. IsFiniteSet(Above(m)) /\ Cardinality(Above(n)) \in Nat /\ Cardinality(Above(m)) \in Nat
    BY <2>1, <1>1, <1>3
  <2> HIDE DEF Above, P
  <2>4. Cardinality(Above(n)) <= Cardinality(Above(m))
    BY <2>2, <2>3, FS_Subset
  <2>5. Cardinality(Above(m)) < K
    BY <2>1, <1>2
  <2> QED BY <2>3, <2>4, <2>5, <1>2
<1>5. P = T \/ Cardinality(P) >= K
  <2> SUFFICES ASSUME P # T PROVE Cardinality(P) >= K
    OBVIOUS
  <2> DEFINE R == {b - t : t \in T \ P}
  <2>1. PICK u \in T : u \notin P
    BY <1>2
  <2>2. b - u \in R /\ R \in SUBSET Nat
    BY <2>1, <1>3
  <2>3. PICK l \in R : \A r \in R : l <= r
    <3> HIDE DEF R, P
    <3> QED BY <2>2, LeastIs
  <2>4. PICK t \in T \ P : l = b - t
    BY <2>3
  <2>5. Above(t) \in SUBSET P
    <3> SUFFICES ASSUME NEW n \in T, n > t, n \notin P PROVE FALSE
      BY <1>2
    <3>1. b - n \in R
      OBVIOUS
    <3>2. b - t <= b - n
      BY <3>1, <2>3, <2>4
    <3> QED BY <3>2, <1>3
  <2> HIDE DEF Above, P, R
  <2>6. Cardinality(Above(t)) <= Cardinality(P) /\ Cardinality(Above(t)) \in Nat
        /\ Cardinality(P) \in Nat
    BY <2>4, <2>5, <1>1, <1>2, <1>3, FS_Subset
  <2>7. ~(Cardinality(Above(t)) < K)
    BY <2>4, <1>2
  <2> QED BY <2>6, <2>7
<1>6. P = {} => T = {}
  <2> HIDE DEF P
  <2> QED BY <1>5, FS_EmptySet
<1> QED BY <1>2, <1>4, <1>5, <1>6

\* The minutes that were over when the job began and have trades; how many of
\* them the pages so far must hold; and that they have their candles or rows.
Over == {m \in 1 .. (job.start - 1) : TradesOf(m) # {}}
From(b) == {m \in Over : m >= b}
Enough(k, b, extra) == k * PageSize <= Cardinality(From(b)) + extra \/ From(b) = Over
InPage(b) == \A m \in From(b) : candles["kis_rest"][m] # {} \/ job.rows[m] # {}

\* A job that asks has the minutes after the one it asks for; one that writes
\* also those of its page; each page was full unless it was the last.
Asking ==
  job.pc = "asking" =>
    /\ job.seen = 0 \/ job.seen = job.to + 1
    /\ InPage(job.to + 1)
    /\ Enough(Pages - job.left, job.to + 1, IF job.to < job.start THEN 1 ELSE 0)
Writing ==
  job.pc = "writing" =>
    /\ job.seen = 0 \/ job.first < job.seen
    /\ InPage(job.first)
    /\ Enough(Pages - job.left + 1, job.first, 1)
Complete ==
  job.pc = "done" /\ "empty_page" \notin events /\ Cardinality(Over) < Pages * PageSize =>
    InPage(1)

\* What is true of the backfill at every step
JobInv ==
  /\ job.start <= clock /\ job.to <= job.start
  /\ \A m \in Minutes : job.rows[m] # {} => job.pc = "writing"
  /\ Asking /\ Writing /\ Complete

\* Minutes that were over when the job began are over, and finitely many.
LEMMA OverIs ==
  ASSUME BarTypes, JobInv
  PROVE  /\ Over \in SUBSET Minutes /\ IsFiniteSet(Over) /\ Cardinality(Over) \in Nat
         /\ \A b : From(b) \in SUBSET Over /\ IsFiniteSet(From(b))
                   /\ Cardinality(From(b)) \in Nat /\ Cardinality(From(b)) <= Cardinality(Over)
         /\ \A m \in Over : m \in Minutes /\ m < job.start /\ m < clock /\ TradesOf(m) # {}
<1>1. clock \in 1 .. LastMinute /\ LastMinute \in Nat /\ job.start \in 0 .. LastMinute
      /\ job.start <= clock
  BY BarsAssumption DEF BarTypes, TypeOK, Minutes, JobInv
<1>2. Over \in SUBSET Minutes /\ \A m \in Over : m < job.start /\ m < clock /\ TradesOf(m) # {}
  BY <1>1 DEF Over, Minutes
<1>3. IsFiniteSet(Minutes)
  BY <1>1, FS_Interval DEF Minutes
<1>4. IsFiniteSet(Over) /\ Cardinality(Over) \in Nat
  BY <1>2, <1>3, FS_Subset, FS_CardinalityType
<1>5. \A b : From(b) \in SUBSET Over
  BY DEF From
<1>6. \A S \in SUBSET Over : IsFiniteSet(S) /\ Cardinality(S) \in Nat
                             /\ Cardinality(S) <= Cardinality(Over)
  BY <1>4, FS_Subset, FS_CardinalityType
<1> QED BY <1>2, <1>4, <1>5, <1>6

\* Those minutes stay as they are, and a candle that is there stays too.
LEMMA OverStays ==
  ASSUME BarTypes, IInv, JobInv, [Next]_vars, job'.start = job.start
  PROVE  Over' = Over /\ \A b : From(b)' = From(b)
<1>1. \A m \in 1 .. (job.start - 1) : TradesOf(m)' = TradesOf(m)
  <2> SUFFICES ASSUME NEW m \in 1 .. (job.start - 1) PROVE TradesOf(m)' = TradesOf(m)
    OBVIOUS
  <2>1. clock \in 1 .. LastMinute /\ LastMinute \in Nat /\ job.start \in 0 .. LastMinute
        /\ job.start <= clock
    BY BarsAssumption DEF BarTypes, TypeOK, Minutes, JobInv
  <2>2. m \in Minutes /\ m < clock
    BY <2>1 DEF Minutes
  <2> QED BY <2>2, OverMinutes
<1>2. Over' = Over
  BY <1>1 DEF Over
<1> QED BY <1>2 DEF From

\* No candle of the backfill is lost.
LEMMA RestStays ==
  ASSUME BarTypes, IInv, [Next]_vars, NEW m \in Minutes, candles["kis_rest"][m] # {}
  PROVE  candles'["kis_rest"][m] # {}
<1>1. Write => Same("kis_rest")
  BY WriteIs DEF BarTypes, IInv
<1>2. WriteRow => candles'["kis_rest"][m] = candles["kis_rest"][m]
  BY WriteRowKeeps DEF BarTypes, IInv
<1>3. Tick \/ Trade \/ (\E i \in wire : Receive(i)) \/ Die \/ Restart \/ StartBackfill \/ Ask
        \/ TurnPage \/ UNCHANGED vars => candles' = candles
  BY DEF Tick, Trade, Receive, Die, Restart, StartBackfill, Ask, TurnPage, vars
<1> QED BY <1>1, <1>2, <1>3 DEF Next, Same

\* A page more is a pageful more.
LEMMA OnePageMore ==
  ASSUME NEW k \in Nat, NEW K \in Nat PROVE (k + 1) * K = k * K + K
OBVIOUS

\* With a page more the job has a pageful more, the running minute not counted.
LEMMA PageCounts ==
  ASSUME BarTypes, JobInv, job.pc = "asking", Page(job.to) # {}, Asking,
         NEW first, first = Least(Page(job.to))
  PROVE  /\ first \in 1 .. job.to
         /\ Enough(Pages - job.left + 1, first, 1)
         /\ \A m \in From(first) : m \in From(job.to + 1) \/ m \in Page(job.to)
<1>0. PICK b \in 0 .. LastMinute : b = job.to
  BY DEF BarTypes, TypeOK
<1>1. /\ LastMinute \in Nat /\ b \in Nat /\ PageSize \in Nat \ {0} /\ Pages \in Nat
      /\ job.left \in 0 .. Pages /\ job.left >= 1
      /\ clock \in 1 .. LastMinute /\ job.start \in 0 .. LastMinute
      /\ job.start <= clock /\ b <= job.start
  BY <1>0, BarsAssumption DEF BarTypes, TypeOK, Minutes, JobInv, PageSound
<1>2. PICK T : T = Traded(b)
  OBVIOUS
<1>3. PICK P : P = Newest(T, PageSize)
  OBVIOUS
<1>4. T \in SUBSET (1 .. b) /\ P = Page(b)
  BY <1>2, <1>3 DEF Traded, Page, Newest
<1>5. /\ P \subseteq T /\ (P = T \/ Cardinality(P) >= PageSize)
      /\ \A m \in P, n \in T : n >= m => n \in P
  BY <1>1, <1>3, <1>4, NewestAre
<1>6. first \in P /\ (\A m \in P : first <= m) /\ first \in 1 .. b
  <2>1. P \in SUBSET Nat /\ P # {}
    <3>1. P # {}
      BY <1>0, <1>4
    <3>2. \A m \in 1 .. b : m \in Nat
      OBVIOUS
    <3> QED BY <3>1, <3>2, <1>4, <1>5
  <2>2. first = Least(P)
    BY <1>0, <1>4
  <2> QED BY <2>1, <2>2, <1>4, <1>5, LeastIs
<1>7. \A m \in Over : m \in Nat /\ (m <= b => m \in T) /\ m < job.start /\ TradesOf(m) # {}
  BY <1>1, <1>2, OverIs DEF Traded, Minutes
<1>8. \A m \in From(first) : m \in From(b + 1) \/ m \in P
  <2> SUFFICES ASSUME NEW m \in From(first), m <= b PROVE m \in P
    BY <1>7, <1>1 DEF From
  <2> QED BY <1>5, <1>6, <1>7, <1>1 DEF From
<1>9. IsFiniteSet(P) /\ Cardinality(P) \in Nat
  <2>1. IsFiniteSet(1 .. b)
    BY <1>1, FS_Interval
  <2>2. P \in SUBSET (1 .. b)
    BY <1>4, <1>5
  <2>3. IsFiniteSet(P)
    BY <2>1, <2>2, FS_Subset
  <2> QED BY <2>3, FS_CardinalityType
<1>10. Enough(Pages - job.left + 1, first, 1)
  <2> DEFINE extra == IF b < job.start THEN 1 ELSE 0
             k == Pages - job.left
  <2>1. Enough(k, b + 1, extra) /\ k \in Nat
    BY <1>0, <1>1 DEF Asking
  <2>2. From(b + 1) \subseteq From(first)
    BY <1>1, <1>6, <1>7 DEF From
  <2>3. CASE From(b + 1) = Over
    BY <2>2, <2>3, OverIs DEF Enough
  <2>4. CASE P = T
    <3>1. \A m \in Over : m >= first
      BY <2>4, <1>6, <1>7, <1>1
    <3> QED BY <3>1 DEF Enough, From
  <2>5. CASE Cardinality(P) >= PageSize /\ k * PageSize <= Cardinality(From(b + 1)) + extra
    <3> DEFINE Q == P \ {job.start}
               F == From(b + 1)
    <3>1. IsFiniteSet(Q) /\ Cardinality(Q) \in Nat /\ Cardinality(P) + extra <= Cardinality(Q) + 1
      <4>1. IsFiniteSet(Q) /\ Cardinality(Q) = IF job.start \in P THEN Cardinality(P) - 1
                                               ELSE Cardinality(P)
        BY <1>9, FS_RemoveElement
      <4>2. b < job.start => job.start \notin P
        BY <1>1, <1>4, <1>5
      <4>3. Cardinality(Q) \in Nat
        BY <4>1, FS_CardinalityType
      <4> QED BY <4>1, <4>2, <4>3, <1>9
    <3>2. Q \subseteq From(first)
      <4> SUFFICES ASSUME NEW m \in P, m # job.start PROVE m \in From(first)
        OBVIOUS
      <4>1. m \in 1 .. b /\ TradesOf(m) # {} /\ m >= first
        BY <1>2, <1>4, <1>5, <1>6, <1>1 DEF Traded
      <4>2. m \in 1 .. (job.start - 1)
        BY <4>1, <1>1
      <4> QED BY <4>1, <4>2 DEF From, Over
    <3>3. F \cap Q = {}
      <4>1. \A m \in P : m \in Nat /\ m <= b
        BY <1>4, <1>5, <1>1
      <4>2. \A m \in F : m >= b + 1
        BY DEF From
      <4> QED BY <4>1, <4>2, <1>1
    <3>4. IsFiniteSet(F) /\ Cardinality(F) \in Nat /\ IsFiniteSet(From(first))
          /\ Cardinality(From(first)) \in Nat
      BY OverIs
    <3> HIDE DEF Q, F
    <3>5. Cardinality(F \cup Q) = Cardinality(F) + Cardinality(Q)
      <4>1. Cardinality(F \cup Q) = Cardinality(F) + Cardinality(Q) - Cardinality(F \cap Q)
        BY <3>1, <3>4, FS_Union
      <4>2. Cardinality(F \cap Q) = 0
        BY <3>3, FS_EmptySet
      <4> QED BY <4>1, <4>2, <3>1, <3>4
    <3>6. F \cup Q \in SUBSET From(first)
      BY <2>2, <3>2 DEF F
    <3>7. Cardinality(F) + Cardinality(Q) <= Cardinality(From(first))
      BY <3>4, <3>5, <3>6, FS_Subset
    <3>8. (k + 1) * PageSize = k * PageSize + PageSize
      BY <2>1, <1>1, OnePageMore
    <3>9. k * PageSize <= Cardinality(F) + extra /\ k * PageSize \in Int
      BY <2>5, <2>1, <1>1 DEF F
    <3>10. PICK kk \in Int : kk = k * PageSize
      BY <3>9
    <3>11. (k + 1) * PageSize <= Cardinality(From(first)) + 1
      <4>1. kk + PageSize <= Cardinality(From(first)) + 1
        BY <3>1, <3>4, <3>7, <3>9, <3>10, <2>5, <1>1, <1>9
      <4> QED BY <4>1, <3>8, <3>10
    <3> QED BY <3>11 DEF Enough
  <2> QED BY <2>1, <2>3, <2>4, <2>5, <1>5 DEF Enough
<1> QED BY <1>0, <1>4, <1>6, <1>8, <1>10

\* A row is dropped when its candle is written, and not before.
LEMMA RowKept ==
  ASSUME BarTypes, IInv, JobInv, [Next]_vars, ~StartBackfill, NEW m \in Minutes,
         candles["kis_rest"][m] # {} \/ job.rows[m] # {}
  PROVE  candles'["kis_rest"][m] # {} \/ job'.rows[m] # {}
<1> SUFFICES ASSUME job.rows[m] # {} PROVE candles'["kis_rest"][m] # {} \/ job'.rows[m] # {}
  BY RestStays
<1>1. job.pc = "writing" /\ Listed(job.rows) # {}
  BY DEF JobInv, Listed
<1>2. ~Ask /\ ~TurnPage
  BY <1>1 DEF Ask, TurnPage
<1>3. CASE WriteRow
  <2>1. PICK k \in Minutes :
          /\ job' = [job EXCEPT !.rows = [n \in Minutes |-> IF n = k THEN {} ELSE job.rows[n]]]
          /\ candles'["kis_rest"][k] # {}
    BY <1>3, WriteRowKeeps DEF BarTypes, IInv
  <2>2. job'.rows = [n \in Minutes |-> IF n = k THEN {} ELSE job.rows[n]]
    BY <2>1 DEF BarTypes, TypeOK
  <2> QED BY <2>1, <2>2
<1>4. Tick \/ Trade \/ (\E i \in wire : Receive(i)) \/ Write \/ Die \/ Restart \/ UNCHANGED vars
        => job' = job
  BY DEF Tick, Trade, Receive, Write, Die, Restart, vars
<1> QED BY <1>2, <1>3, <1>4 DEF Next

\* What is in its pages stays in them,
LEMMA PageStays ==
  ASSUME BarTypes, IInv, JobInv, [Next]_vars, ~StartBackfill, job'.start = job.start,
         NEW b, InPage(b)
  PROVE  InPage(b)'
<1>1. From(b)' = From(b) /\ \A m \in From(b) : m \in Minutes
  BY OverStays, OverIs
<1>2. \A m \in From(b) : candles'["kis_rest"][m] # {} \/ job'.rows[m] # {}
  BY <1>1, RowKept DEF InPage
<1> QED BY <1>1, <1>2 DEF InPage

\* and is not less than it was.
LEMMA EnoughStays ==
  ASSUME BarTypes, IInv, JobInv, [Next]_vars, job'.start = job.start,
         NEW k, NEW b, NEW extra, Enough(k, b, extra)
  PROVE  Enough(k, b, extra)'
BY OverStays DEF Enough

\* A new job has nothing behind it.
LEMMA StartStep == ASSUME BarTypes, IInv, JobInv, StartBackfill PROVE JobInv'
<1>1. job' = Started(clock) /\ clock' = clock
  BY JobSteps DEF BarTypes, StartBackfill, market
<1>2. clock \in Nat /\ PageSize \in Nat /\ Pages \in Nat
  BY BarsAssumption DEF BarTypes, TypeOK, Minutes
<1>3. /\ job'.start = clock /\ job'.to = clock /\ job'.seen = 0 /\ job'.pc = "asking"
      /\ job'.left = Pages /\ job'.rows = NoCandles
  BY <1>1 DEF Started
<1>4. From(clock + 1)' = {}
  <2>1. \A m \in Over' : m \in Int /\ m <= clock
    BY <1>2, <1>3 DEF Over
  <2> QED BY <2>1, <1>1, <1>2 DEF From
<1>5. From(job.to + 1)' = {}
  BY <1>1, <1>3, <1>4 DEF From
<1>6. Cardinality(From(job.to + 1)') = 0 /\ (Pages - Pages) * PageSize = 0
  BY <1>2, <1>5, FS_EmptySet
<1>7. Asking'
  BY <1>2, <1>3, <1>5, <1>6 DEF Asking, InPage, Enough
<1>8. Writing' /\ Complete'
  BY <1>3 DEF Writing, Complete
<1>9. \A m \in Minutes : job'.rows[m] = {}
  BY <1>3 DEF NoCandles
<1> QED BY <1>1, <1>2, <1>3, <1>7, <1>8, <1>9 DEF JobInv

\* An empty page ends a job that has everything; another is the next to write.
LEMMA AskedStep == ASSUME BarTypes, IInv, JobInv, Ask PROVE JobInv'
<1>0. [Next]_vars /\ ~StartBackfill /\ job.pc = "asking" /\ UNCHANGED <<market, candles>>
      /\ clock' = clock /\ events' = events
  <2>1. [Next]_vars /\ job.pc = "asking" /\ UNCHANGED <<market, candles>>
        /\ clock' = clock /\ events' = events
    BY DEF Next, Ask, market
  <2>2. job'.pc \in {"done", "writing"}
    BY DEF Ask, BarTypes, TypeOK
  <2>3. StartBackfill => job'.pc = "asking"
    BY JobSteps DEF BarTypes, Started
  <2> QED BY <2>1, <2>2, <2>3
<1>1. \A m \in Minutes : job.rows[m] = {}
  BY <1>0 DEF JobInv
<1>2. /\ job.seen = 0 \/ job.seen = job.to + 1
      /\ InPage(job.to + 1)
      /\ Enough(Pages - job.left, job.to + 1, IF job.to < job.start THEN 1 ELSE 0)
  BY <1>0 DEF JobInv, Asking
<1>3. job.start \in Int /\ job.to \in 0 .. LastMinute /\ LastMinute \in Nat /\ clock \in Int
      /\ job.start <= clock /\ job.to <= job.start
  BY BarsAssumption DEF JobInv, BarTypes, TypeOK, Minutes
<1>4. CASE job' = [job EXCEPT !.pc = "done"] /\ (Page(job.to) = {} \/ "empty_page" \in events)
  <2>1. /\ job'.pc = "done" /\ job'.start = job.start /\ job'.to = job.to
        /\ job'.rows = job.rows
    BY <1>4 DEF BarTypes, TypeOK
  <2>2. ASSUME "empty_page" \notin events PROVE InPage(1)
    <3>1. Page(job.to) = {} /\ Page(job.to) = Newest(Traded(job.to), PageSize)
          /\ Traded(job.to) \in SUBSET (1 .. job.to) /\ PageSize \in Nat \ {0}
      BY <1>4, <2>2, BarsAssumption DEF Page, Newest, Traded
    <3>2. Traded(job.to) = {}
      <4>1. PICK b \in Nat : b = job.to
        BY <1>3
      <4>2. PICK T \in SUBSET (1 .. b) : T = Traded(job.to)
        BY <3>1, <4>1
      <4>3. Newest(T, PageSize) = {}
        BY <3>1, <4>2
      <4> QED BY <3>1, <4>2, <4>3, NewestAre
    <3>3. \A m \in Over : m \in Traded(job.to) \/ m >= job.to + 1
      BY <1>3, OverIs DEF Traded, Minutes
    <3> QED BY <3>2, <3>3, <1>2 DEF InPage, From
  <2>3. Complete'
    <3> SUFFICES ASSUME "empty_page" \notin events PROVE InPage(1)'
      BY <1>0 DEF Complete
    <3> QED BY <2>1, <2>2, <1>0, PageStays
  <2>4. Asking' /\ Writing'
    BY <2>1 DEF Asking, Writing
  <2> QED BY <2>1, <2>3, <2>4, <1>0, <1>1, <1>3 DEF JobInv
<1>5. CASE Page(job.to) # {} /\ job' = Answered(job, Page(job.to))
  <2>1. PICK first : first = Least(Page(job.to))
    OBVIOUS
  <2>2. PICK b \in 0 .. LastMinute : b = job.to
    BY <1>3
  <2>3. /\ job'.pc = "writing" /\ job'.start = job.start /\ job'.to = b /\ job'.first = first
        /\ job'.left = job.left /\ job'.seen = job.seen
        /\ \A m \in Minutes : m \in Page(b) => job'.rows[m] = TradesOf(m)
    BY <1>5, <2>1, <2>2 DEF Answered
  <2>4. /\ first \in 1 .. b /\ Enough(Pages - job.left + 1, first, 1)
        /\ \A m \in From(first) : m \in From(b + 1) \/ m \in Page(b)
    BY <1>0, <1>5, <2>1, <2>2, PageCounts DEF JobInv
  <2>5. InPage(first)'
    <3>1. From(first)' = From(first) /\ \A m \in From(first) : m \in Minutes /\ TradesOf(m) # {}
      BY <1>0, <2>3, OverStays, OverIs
    <3>2. \A m \in From(b + 1) : candles'["kis_rest"][m] # {}
      BY <1>0, <1>1, <1>2, <2>2, OverIs DEF InPage
    <3> QED BY <3>1, <3>2, <2>3, <2>4 DEF InPage
  <2>6. Enough(Pages - job.left + 1, first, 1)'
    BY <2>4, <2>3, <1>0, OverStays DEF Enough
  <2>7. job.seen = 0 \/ first < job.seen
    BY <1>2, <1>3, <2>2, <2>4
  <2>8. Writing'
    BY <2>3, <2>5, <2>6, <2>7 DEF Writing, InPage, Enough, From
  <2>9. Asking' /\ Complete'
    BY <2>3 DEF Asking, Complete
  <2> QED BY <2>2, <2>3, <2>8, <2>9, <1>0, <1>3 DEF JobInv
<1> QED BY <1>4, <1>5, AskStep DEF BarTypes

\* The last page ends a job, and another is asked for before it.
LEMMA TurnStep == ASSUME BarTypes, IInv, JobInv, TurnPage PROVE JobInv'
<1>0. [Next]_vars /\ ~StartBackfill /\ job.pc = "writing" /\ UNCHANGED <<market, candles>>
      /\ clock' = clock /\ events' = events
  <2>1. [Next]_vars /\ job.pc = "writing" /\ UNCHANGED <<market, candles>>
        /\ clock' = clock /\ events' = events
    BY DEF Next, TurnPage, market
  <2>2. job'.pc = "done" \/ job'.left = job.left - 1
    <3>1. job' = [job EXCEPT !.pc = "done"] \/ job' = Further(job)
      BY JobSteps DEF BarTypes
    <3> QED BY <3>1 DEF Further, BarTypes, TypeOK
  <2>3. StartBackfill => job'.pc = "asking" /\ job'.left = Pages
    BY JobSteps DEF BarTypes, Started
  <2>4. job.left \in 0 .. Pages /\ Pages \in Nat
    BY BarsAssumption DEF BarTypes, TypeOK
  <2> QED BY <2>1, <2>2, <2>3, <2>4
<1>1. Listed(job.rows) = {} /\ \A m \in Minutes : job.rows[m] = {}
  BY DEF TurnPage, Listed
<1>2. /\ job.seen = 0 \/ job.first < job.seen
      /\ InPage(job.first)
      /\ Enough(Pages - job.left + 1, job.first, 1)
  BY <1>0 DEF JobInv, Writing
<1>3. /\ job.start \in Nat /\ job.to \in Nat /\ job.left \in Nat /\ Pages \in Nat
      /\ clock \in Int /\ job.start <= clock /\ job.to <= job.start
      /\ job.first \in 1 .. job.to /\ job.seen \in Nat /\ PageSize \in Nat
  BY <1>0, BarsAssumption DEF JobInv, BarTypes, TypeOK, Minutes, PageSound
<1>4. CASE job' = [job EXCEPT !.pc = "done"] /\ (job.first = job.seen \/ job.left = 1)
  <2>1. job'.pc = "done" /\ job'.start = job.start /\ job'.to = job.to /\ job'.rows = job.rows
    BY <1>4 DEF BarTypes, TypeOK
  <2>2. job.left = 1
    BY <1>2, <1>3, <1>4
  <2>3. ASSUME Cardinality(Over) < Pages * PageSize PROVE InPage(1)
    <3>1. Pages - job.left + 1 = Pages
      BY <1>3, <2>2
    <3>2. PICK all \in Int : all = Pages * PageSize
      BY <1>3
    <3>3. Enough(Pages, job.first, 1)
      BY <1>2, <3>1
    <3>4. From(job.first) = Over
      <4>1. CASE Pages * PageSize <= Cardinality(From(job.first)) + 1
        <5>1. Cardinality(From(job.first)) = Cardinality(Over)
          BY <4>1, <2>3, <3>2, OverIs
        <5> QED BY <5>1, OverIs, FS_Subset
      <4> QED BY <4>1, <3>3 DEF Enough
    <3>5. From(1) \in SUBSET Over
      BY OverIs
    <3> QED BY <3>4, <3>5, <1>2 DEF InPage
  <2>4. Over' = Over
    BY <2>1, <1>0, OverStays
  <2>5. Complete'
    <3> SUFFICES ASSUME Cardinality(Over) < Pages * PageSize PROVE InPage(1)'
      BY <2>4 DEF Complete
    <3> QED BY <2>1, <2>3, <1>0, PageStays
  <2>6. Asking' /\ Writing'
    BY <2>1 DEF Asking, Writing
  <2> QED BY <2>1, <2>5, <2>6, <1>0, <1>1, <1>3 DEF JobInv
<1>5. CASE job' = Further(job)
  <2>1. PICK first \in Nat : first = job.first
    BY <1>3
  <2>2. /\ job'.pc = "asking" /\ job'.start = job.start /\ job'.to = first - 1
        /\ job'.left = job.left - 1 /\ job'.seen = first /\ job'.rows = job.rows
    BY <1>5, <2>1 DEF Further
  <2>0. PICK k : k = Pages - job.left + 1
    OBVIOUS
  <2>3. InPage(first)' /\ Enough(k, first, 1)'
    <3>1. InPage(first) /\ Enough(k, first, 1)
      BY <1>2, <2>0, <2>1
    <3> QED BY <1>0, <2>2, <3>1, PageStays, EnoughStays
  <2>4. job'.to + 1 = first /\ job'.to < job'.start
        /\ Pages - job'.left = k
    BY <1>3, <2>0, <2>1, <2>2
  <2>5. Asking'
    BY <2>2, <2>3, <2>4 DEF Asking, InPage, Enough, From
  <2>6. Writing' /\ Complete'
    BY <2>2 DEF Writing, Complete
  <2> QED BY <2>1, <2>2, <2>4, <2>5, <2>6, <1>0, <1>1, <1>3 DEF JobInv
<1> QED BY <1>4, <1>5, JobSteps DEF BarTypes

\* The rest of the steps leave what a job asks for alone.
LEMMA JobStays ==
  ASSUME BarTypes, IInv, JobInv, [Next]_vars, ~StartBackfill, ~Ask, ~TurnPage
  PROVE  JobInv'
<1>1. /\ \A f \in {"pc", "start", "to", "left", "seen", "first"} : job'[f] = job[f]
      /\ job'.pc = job.pc /\ job'.start = job.start /\ job'.to = job.to /\ job'.left = job.left
      /\ job'.seen = job.seen /\ job'.first = job.first
      /\ \A m \in Minutes : job'.rows[m] \in {{}, job.rows[m]}
  <2>1. WriteRow => \E k \in Minutes :
          job' = [job EXCEPT !.rows = [m \in Minutes |-> IF m = k THEN {} ELSE job.rows[m]]]
    BY WriteRowIs DEF BarTypes
  <2>2. ~WriteRow => job' = job
    BY DEF Next, Tick, Trade, Receive, Write, Die, Restart, vars
  <2> QED BY <2>1, <2>2 DEF BarTypes, TypeOK
<1>2. clock \in Int /\ clock' \in Int /\ clock <= clock' /\ job.start \in Int /\ events' = events
  BY TradesStay, MarketStep DEF BarTypes, TypeOK, Minutes
<1>3. job'.start <= clock'
  BY <1>1, <1>2 DEF JobInv
<1>4. PICK to, first, left : to = job.to /\ first = job.first /\ left = job.left
  OBVIOUS
<1>5. Asking'
  <2> SUFFICES ASSUME job.pc = "asking" PROVE Asking'
    BY <1>1 DEF Asking
  <2>1. InPage(to + 1)' /\ Enough(Pages - left, to + 1, IF to < job.start THEN 1 ELSE 0)'
    <3>1. InPage(to + 1) /\ Enough(Pages - left, to + 1, IF to < job.start THEN 1 ELSE 0)
      BY <1>4 DEF JobInv, Asking
    <3>2. PICK extra : extra = IF to < job.start THEN 1 ELSE 0
      OBVIOUS
    <3>3. Enough(Pages - left, to + 1, extra)'
      BY <1>1, <3>1, <3>2, EnoughStays
    <3>4. InPage(to + 1)'
      BY <1>1, <3>1, PageStays
    <3> QED BY <1>1, <3>2, <3>3, <3>4 DEF Enough
  <2> QED BY <1>1, <1>4, <2>1 DEF JobInv, Asking, InPage, Enough, From
<1>6. Writing'
  <2> SUFFICES ASSUME job.pc = "writing" PROVE Writing'
    BY <1>1 DEF Writing
  <2>1. InPage(first) /\ Enough(Pages - left + 1, first, 1)
    BY <1>4 DEF JobInv, Writing
  <2>2. InPage(first)' /\ Enough(Pages - left + 1, first, 1)'
    BY <1>1, <2>1, PageStays, EnoughStays
  <2> QED BY <1>1, <1>4, <2>2 DEF JobInv, Writing, InPage, Enough, From
<1>7. Complete'
  <2> SUFFICES ASSUME job.pc = "done", "empty_page" \notin events,
                      Cardinality(Over) < Pages * PageSize
               PROVE  InPage(1)'
    BY <1>1, <1>2, OverStays DEF Complete
  <2> QED BY <1>1, PageStays DEF JobInv, Complete
<1> QED BY <1>1, <1>3, <1>5, <1>6, <1>7 DEF JobInv

\* When the day begins there is no job; every step keeps what is said of one.
LEMMA JobInit == Init => JobInv
<1> SUFFICES ASSUME Init PROVE JobInv
  OBVIOUS
<1>1. job.pc = "idle" /\ job.start = 0 /\ job.to = 0 /\ clock = 1 /\ job.rows = NoCandles
  BY DEF Init, NoJob
<1> QED BY <1>1 DEF JobInv, Asking, Writing, Complete, NoCandles

LEMMA JobStep == ASSUME BarTypes, IInv, JobInv, [Next]_vars PROVE JobInv'
BY StartStep, AskedStep, TurnStep, JobStays

-----------------------------------------------------------------------------
\* The inductive invariant: what is written, types, the collector, the backfill
BarsInv == IInv /\ BarTypes /\ CollectorInv /\ JobInv

\* All of it holds of every state.
THEOREM BarsInvariant == Spec => []BarsInv
<1>1. Init => BarsInv
  BY InitGood, TypeInit, CollectorInit, JobInit DEF BarsInv
<1>2. BarsInv /\ [Next]_vars => BarsInv'
  BY StepGood, TypeStep, CollectorStep, JobStep DEF BarsInv
<1> QED BY <1>1, <1>2, PTL DEF Spec

\* Every value has its type.
THEOREM BarsTyped == Spec => []TypeOK
<1>1. BarsInv => TypeOK
  BY DEF BarsInv, BarTypes
<1> QED BY <1>1, BarsInvariant, PTL

\* Without late trades a candle of the collector closes with the last trade of
\* its minute, restarts included (RealtimeCollector, flush_completed).
THEOREM CloseHolds == Spec => []CloseIsLast
<1>1. BarsInv => CloseIsLast
  BY DEF BarsInv, CollectorInv, ClosesKept, Closed, CloseIsLast
<1> QED BY <1>1, BarsInvariant, PTL

\* Without restarts it has all of them, and a candle of the backfill has if the
\* broker lists completed minutes (aggregate_ticks, backfill_symbol).
THEOREM WholeCandles == Spec => []CandlesAreWhole
<1>1. BarsInv => CandlesAreWhole
  BY DEF BarsInv, CollectorInv, WholeKept, RestWhole, CandlesAreWhole
<1> QED BY <1>1, BarsInvariant, PTL

\* A backfill whose pages reach back to the first trade leaves no hole, whatever
\* the size and number of its pages (backfill_symbol).
THEOREM NoHole == Spec => []NoHoleLeft
<1>1. BarsInv => NoHoleLeft
  <2> SUFFICES ASSUME BarsInv, job.pc = "done", "empty_page" \notin events,
                      Cardinality(Over) < Pages * PageSize
               PROVE  \A m \in Over : candles["kis_rest"][m] # {}
    BY DEF NoHoleLeft, Over
  <2>1. InPage(1) /\ \A m \in Minutes : job.rows[m] = {}
    BY DEF BarsInv, JobInv, Complete
  <2>2. \A m \in Over : m \in From(1) /\ m \in Minutes
    BY OverIs DEF BarsInv, From, Minutes
  <2> QED BY <2>1, <2>2 DEF InPage
<1> QED BY <1>1, BarsInvariant, PTL
=============================================================================
