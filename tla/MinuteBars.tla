------------------------------ MODULE MinuteBars ------------------------------
(***************************************************************************)
(* The 1-minute candles of one stock and their two writers:                *)
(*                                                                         *)
(*   the collector  RealtimeCollector and MinuteBarBuffer                  *)
(*                  (core/market/ingest.py), fed by KISRealtimeAdapter;    *)
(*                  source "kis_ws"                                        *)
(*   the backfill   backfill_symbol (core/market/backfill.py), a scheduled *)
(*                  task that pages backwards through the broker's         *)
(*                  candles; source "kis_rest"                             *)
(*                                                                         *)
(* Both write with get_or_create, one candle per commit, and are killed    *)
(* and restarted independently.  A trade is its place in the day; a candle *)
(* is the set of trades it was made from (aggregate_ticks computes open,   *)
(* high, low, close and volume from that set).                             *)
(*                                                                         *)
(* What may go wrong on a day is a member of its events:                   *)
(*   restart     the collector or a backfill dies (exception, kill) and is *)
(*               started again                                             *)
(*   late        a trade is delivered after one of a later time            *)
(*   forming     the broker lists the minute that is still running         *)
(*   empty_page  the broker answers with an error body: no candles         *)
(***************************************************************************)
EXTENDS Integers, FiniteSets, Sequences

CONSTANTS
  LastMinute,   \* bound: minutes of the day
  MaxTrades,    \* bound: trades of the day
  Pages,        \* pages a backfill asks for
  PageSize,     \* candles on a page
  Scenarios     \* the days to look at, each by what may go wrong

ASSUME BarsAssumption ==
  /\ LastMinute \in Nat \ {0} /\ MaxTrades \in Nat
  /\ Pages \in Nat \ {0} /\ PageSize \in Nat \ {0}
  /\ \A e \in Scenarios : e \subseteq {"restart", "late", "forming", "empty_page"}

VARIABLES
  events,    \* what may go wrong today
  clock,     \* the minute it is
  trades,    \* trades[i]: the minute of trade i
  wire,      \* trades sent and not yet handled by the collector
  up,        \* the collector is running
  buffer,    \* MinuteBarBuffer._ticks
  writing,   \* candles flushed from the buffer and not yet written
  candles,   \* mkt_candle: per source and minute, {} for no candle
  job        \* the backfill

market == <<events, clock, trades>>
collector == <<wire, up, buffer, writing>>
vars == <<market, collector, candles, job>>

Minutes == 1..LastMinute
Sources == {"kis_ws", "kis_rest"}
TradesOf(m) == {i \in 1..Len(trades) : trades[i] = m}
Least(S) == CHOOSE m \in S : \A n \in S : m <= n

\* per minute the trades of a group, {} for none
NoCandles == [m \in Minutes |-> {}]
Listed(group) == {m \in Minutes : group[m] # {}}

NoJob == [pc |-> "idle", start |-> 0, to |-> 0, left |-> 0, seen |-> 0,
          first |-> 0, rows |-> NoCandles]

TypeOK ==
  /\ events \in Scenarios
  /\ clock \in Minutes
  /\ trades \in Seq(Minutes) /\ Len(trades) <= MaxTrades
  /\ wire \subseteq 1..Len(trades) /\ buffer \subseteq 1..Len(trades)
  /\ up \in BOOLEAN
  /\ writing \in [Minutes -> SUBSET (1..Len(trades))]
  /\ candles \in [Sources -> [Minutes -> SUBSET (1..Len(trades))]]
  /\ job \in [pc : {"idle", "asking", "writing", "done"}, start : 0..LastMinute,
              to : 0..LastMinute, left : 0..Pages, seen : 0..LastMinute,
              first : 0..LastMinute, rows : [Minutes -> SUBSET (1..Len(trades))]]

Init ==
  /\ events \in Scenarios
  /\ clock = 1 /\ trades = <<>>
  /\ wire = {} /\ up = TRUE /\ buffer = {} /\ writing = NoCandles
  /\ candles = [s \in Sources |-> NoCandles]
  /\ job = NoJob
-----------------------------------------------------------------------------
(* The market. *)

Tick ==
  /\ clock < LastMinute
  /\ clock' = clock + 1
  /\ UNCHANGED <<events, trades, collector, candles, job>>

\* A trade; it is sent to a collector that is connected.
Trade ==
  /\ Len(trades) < MaxTrades
  /\ trades' = Append(trades, clock)
  /\ wire' = IF up THEN wire \cup {Len(trades) + 1} ELSE wire
  /\ UNCHANGED <<events, clock, up, buffer, writing, candles, job>>
-----------------------------------------------------------------------------
(* The collector. *)

\* wrong: update_or_create
UpdateOrCreate(source, m, group) ==
  candles' = [candles EXCEPT ![source][m] = group]

\* get_or_create: a candle that is there stays as it is.
GetOrCreate(source, m, group) ==
  candles' = IF candles[source][m] = {}
             THEN [candles EXCEPT ![source][m] = group] ELSE candles

\* wrong: the minute of trade i counts as completed
CompletedWithCurrent(ticks, i) == {j \in ticks : trades[j] <= trades[i]}

\* wrong: a minute is only completed when the next one is over too
CompletedLate(ticks, i) == {j \in ticks : trades[j] < trades[i] - 1}

\* flush_completed: the minutes before the minute of trade i.
Completed(ticks, i) == {j \in ticks : trades[j] < trades[i]}

\* aggregate_ticks: one candle per minute
Aggregate(ticks) == [m \in Minutes |-> {j \in ticks : trades[j] = m}]

\* wrong: the trade that completes a minute is not kept for its own
ReceiveForgets(i) ==
  LET ticks == buffer \cup {i} IN
  /\ up /\ writing = NoCandles
  /\ i \in wire
  /\ "late" \notin events => i = Least(wire)
  /\ wire' = wire \ {i}
  /\ buffer' = IF Completed(ticks, i) = {} THEN ticks ELSE {}
  /\ writing' = Aggregate(Completed(ticks, i))
  /\ UNCHANGED <<market, up, candles, job>>

\* ingest_tick, up to the candles to be written.
Receive(i) ==
  LET ticks == buffer \cup {i} IN
  /\ up /\ writing = NoCandles
  /\ i \in wire
  /\ "late" \notin events => i = Least(wire)
  /\ wire' = wire \ {i}
  /\ buffer' = ticks \ Completed(ticks, i)
  /\ writing' = Aggregate(Completed(ticks, i))
  /\ UNCHANGED <<market, up, candles, job>>

\* persist_ohlcv for the next candle of ingest_tick.
Write ==
  /\ up /\ writing # NoCandles
  /\ LET m == Least(Listed(writing))
     IN  /\ GetOrCreate("kis_ws", m, writing[m])
         /\ writing' = [writing EXCEPT ![m] = {}]
  /\ UNCHANGED <<market, wire, up, buffer, job>>

\* wrong: the connection is lost and the ticks of the minute are kept
DieKeepsTicks ==
  /\ "restart" \in events
  /\ up
  /\ up' = FALSE /\ wire' = {} /\ writing' = NoCandles
  /\ UNCHANGED <<market, buffer, candles, job>>

\* An exception leaves connect_and_run, or the process is killed; what it
\* held in memory and on the socket is gone.
Die ==
  /\ "restart" \in events
  /\ up
  /\ up' = FALSE /\ wire' = {} /\ buffer' = {} /\ writing' = NoCandles
  /\ UNCHANGED <<market, candles, job>>

Restart ==
  /\ ~up
  /\ up' = TRUE
  /\ UNCHANGED <<market, wire, buffer, writing, candles, job>>
-----------------------------------------------------------------------------
(* The backfill. *)

\* The task is due, or the one before it has been killed: what that one has
\* written stays, and the pages are asked for again from the newest.
StartBackfill ==
  /\ job.pc \in {"idle", "done"} \/ "restart" \in events
  /\ job' = [NoJob EXCEPT !.pc = "asking", !.start = clock, !.to = clock,
                          !.left = Pages]
  /\ UNCHANGED <<market, collector, candles>>

\* the broker's candles up to minute `to`, newest page first
Traded(to) ==
  {m \in 1..to : TradesOf(m) # {} /\ (m < clock \/ "forming" \in events)}
Page(to) ==
  {m \in Traded(to) : Cardinality({n \in Traded(to) : n > m}) < PageSize}

\* get_minute_candles
Ask ==
  /\ job.pc = "asking"
  /\ \E page \in {Page(job.to)} \cup (IF "empty_page" \in events THEN {{}} ELSE {}) :
       job' = IF page = {} THEN [job EXCEPT !.pc = "done"]
              ELSE [job EXCEPT !.pc = "writing", !.first = Least(page),
                      !.rows = [m \in Minutes |-> IF m \in page THEN TradesOf(m) ELSE {}]]
  /\ UNCHANGED <<market, collector, candles>>

WriteRow ==
  /\ job.pc = "writing" /\ Listed(job.rows) # {}
  /\ LET m == Least(Listed(job.rows))
     IN  /\ GetOrCreate("kis_rest", m, job.rows[m])
         /\ job' = [job EXCEPT !.rows[m] = {}]
  /\ UNCHANGED <<market, collector>>

\* wrong: a minute is left out between two pages
TurnPageTooFar ==
  /\ job.pc = "writing" /\ Listed(job.rows) = {}
  /\ job' = IF job.first = job.seen \/ job.left = 1
            THEN [job EXCEPT !.pc = "done"]
            ELSE [job EXCEPT !.pc = "asking", !.seen = job.first,
                             !.to = job.first - 2, !.left = job.left - 1]
  /\ UNCHANGED <<market, collector, candles>>

\* The end of the page: on to the minutes before it, or the end.
TurnPage ==
  /\ job.pc = "writing" /\ Listed(job.rows) = {}
  /\ job' = IF job.first = job.seen \/ job.left = 1
            THEN [job EXCEPT !.pc = "done"]
            ELSE [job EXCEPT !.pc = "asking", !.seen = job.first,
                             !.to = job.first - 1, !.left = job.left - 1]
  /\ UNCHANGED <<market, collector, candles>>
-----------------------------------------------------------------------------
Next ==
  \/ Tick \/ Trade
  \/ \E i \in wire : Receive(i)
  \/ Write \/ Die \/ Restart
  \/ StartBackfill \/ Ask \/ WriteRow \/ TurnPage

Spec == Init /\ [][Next]_vars

\* The collector's loop handles what it has received.
FairSpec == Spec /\ WF_vars((\E i \in wire : Receive(i)) \/ Write)
-----------------------------------------------------------------------------
(* Properties. *)

\* A candle of the collector ends as its minute ended: with a trade it holds
\* every later trade of the minute, so its close is right even when it was
\* collected by a process started within the minute.
CloseIsLast ==
  "late" \notin events =>
    \A m \in Minutes : \A i \in candles["kis_ws"][m], j \in TradesOf(m) :
      j > i => j \in candles["kis_ws"][m]

\* Without a restart it holds all of them (aggregator.py: open is the first
\* price of the minute, volume the sum).  So does a candle of the backfill as
\* long as the broker lists completed minutes only: two candles of a minute
\* are then the same candle.
CandlesAreWhole ==
  {"late", "restart"} \cap events = {} =>
    \A m \in Minutes :
      /\ candles["kis_ws"][m] \in {{}, TradesOf(m)}
      /\ "forming" \notin events => candles["kis_rest"][m] \in {{}, TradesOf(m)}

\* The collector emits "only the candles of completed minutes"
\* (MinuteBarBuffer), late trades and restarts included.
OnlyCompletedMinutes ==
  \A m \in Minutes : candles["kis_ws"][m] # {} => m < clock

\* A candle is never replaced by another (db_schema.md: append-only).
CandlesAreFinal ==
  [][\A s \in Sources, m \in Minutes :
       candles[s][m] # {} => candles'[s][m] = candles[s][m]]_vars

\* A backfill whose pages reach back to the first trade leaves no hole among
\* the minutes that were over when it began.
NoHoleLeft ==
  job.pc = "done" /\ "empty_page" \notin events =>
    LET over == {m \in 1..(job.start - 1) : TradesOf(m) # {}}
    IN  Cardinality(over) < Pages * PageSize =>
          \A m \in over : candles["kis_rest"][m] # {}

\* A minute whose trades are followed by a trade of a later minute gets its
\* candle.
MinutesAreWritten ==
  \A m \in Minutes :
    {"late", "restart"} \cap events = {} /\ TradesOf(m) # {}
        /\ (\E i \in 1..Len(trades) : trades[i] > m)
      ~> candles["kis_ws"][m] # {}
=============================================================================
