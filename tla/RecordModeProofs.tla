-------------------------- MODULE RecordModeProofs --------------------------
(***************************************************************************)
(* Proofs about RecordMode: for any number of callers, workers, recordings *)
(* and rounds, the totals count the orders, and as long as the calls keep  *)
(* out of each other's way and of the tracker's rounds no thread meets     *)
(* another in the lists and the rows of a report add up.                   *)
(***************************************************************************)
EXTENDS RecordMode, DataLemmas

\* How many orders are sent and have still to be counted.
Uncounted == Cardinality(counting \cap Worker)

\* Every order found to be recorded is counted, still to be counted, or was
\* so at a reset; a worker is only about to count one at a time.
CountInv ==
  /\ amount \in [Amount -> Nat] /\ sent \in Nat
  /\ amount["send"] + Uncounted >= sent
  /\ amount["send"] + Uncounted <= sent + Cardinality(Worker)

\* The threads about to count are as many as there are, and one more or less
\* when a thread comes or goes.
LEMMA UncountedFacts ==
  ASSUME NEW S
  PROVE  /\ Cardinality(S \cap Worker) \in Nat /\ Cardinality(Worker) \in Nat
         /\ Cardinality(S \cap Worker) <= Cardinality(Worker)
         /\ \A w \in Worker \ S : Cardinality((S \cup {w}) \cap Worker) = Cardinality(S \cap Worker) + 1
         /\ \A w \in S \cap Worker :
              Cardinality((S \ {w}) \cap Worker) = Cardinality(S \cap Worker) - 1
         /\ \A w : w \notin Worker => (S \cup {w}) \cap Worker = S \cap Worker
                                      /\ (S \ {w}) \cap Worker = S \cap Worker
<1> DEFINE T == S \cap Worker
<1>1. IsFiniteSet(Worker) /\ T \subseteq Worker
  BY WorkerAssumption
<1>2. IsFiniteSet(T) /\ Cardinality(T) <= Cardinality(Worker)
  BY <1>1, FS_Subset
<1>3. Cardinality(T) \in Nat /\ Cardinality(Worker) \in Nat
  BY <1>1, <1>2, FS_CardinalityType
<1>4. ASSUME NEW w \in Worker \ S
      PROVE  Cardinality((S \cup {w}) \cap Worker) = Cardinality(T) + 1
  <2>1. (S \cup {w}) \cap Worker = T \cup {w} /\ w \notin T
    OBVIOUS
  <2> QED BY <1>2, <2>1, FS_AddElement
<1>5. ASSUME NEW w \in T PROVE Cardinality((S \ {w}) \cap Worker) = Cardinality(T) - 1
  <2>1. (S \ {w}) \cap Worker = T \ {w}
    OBVIOUS
  <2> QED BY <1>2, <2>1, FS_RemoveElement
<1> QED BY <1>2, <1>3, <1>4, <1>5

LEMMA CountInit == Init => CountInv
<1> SUFFICES ASSUME Init PROVE CountInv
  OBVIOUS
<1>1. counting \cap Worker = {} /\ amount = Nothing /\ sent = 0
  BY DEF Init
<1>2. Uncounted = 0 /\ Cardinality(Worker) \in Nat
  BY <1>1, FS_EmptySet, UncountedFacts DEF Uncounted
<1>3. amount \in [Amount -> Nat] /\ amount["send"] = 0
  BY <1>1 DEF Nothing, Amount
<1> QED BY <1>1, <1>2, <1>3 DEF CountInv

\* A call to StartEndManager and a round of a tracker count nothing.
LEMMA CountKept ==
  ASSUME CountInv, UNCHANGED <<amount, sent, counting>>
  PROVE  CountInv'
BY DEF CountInv, Uncounted

LEMMA CountReset == ASSUME NEW c \in Caller, Reset(c), CountInv PROVE CountInv'
<1>1. amount' = Nothing /\ sent' = 0 /\ counting' = counting
  BY DEF Reset, threads
<1>2. amount' \in [Amount -> Nat] /\ amount'["send"] = 0
  BY <1>1 DEF Nothing, Amount
<1>3. Uncounted' \in Nat /\ Cardinality(Worker) \in Nat /\ Uncounted' <= Cardinality(Worker)
  BY <1>1, UncountedFacts DEF Uncounted
<1>4. \A a, u, n, m : a = 0 /\ m = 0 /\ u \in Nat /\ n \in Nat /\ u <= n => a + u >= m /\ a + u <= m + n
  OBVIOUS
<1> QED BY <1>1, <1>2, <1>3, <1>4 DEF CountInv

LEMMA CountPlaceOrder == ASSUME NEW w \in Worker, PlaceOrder(w), CountInv PROVE CountInv'
<1>1. w \notin counting /\ counting' = counting \cup {w} /\ amount' = amount /\ sent' = sent + 1
  BY DEF PlaceOrder, Recorded
<1>2. Uncounted' = Uncounted + 1 /\ Uncounted \in Nat /\ Cardinality(Worker) \in Nat
  BY <1>1, UncountedFacts DEF Uncounted
<1>3. amount["send"] \in Nat
  BY DEF CountInv, Amount
<1> QED BY <1>1, <1>2, <1>3 DEF CountInv

LEMMA CountHandleMatchResult == ASSUME HandleMatchResult, CountInv PROVE CountInv'
<1>1. counting' = counting \cup {"subscriber"} /\ amount' = amount /\ sent' = sent
  BY DEF HandleMatchResult, Recorded
<1>2. Uncounted' = Uncounted
  BY <1>1, UncountedFacts, WorkerAssumption DEF Uncounted
<1> QED BY <1>1, <1>2 DEF CountInv

LEMMA CountCount == ASSUME NEW w \in Counter, Count(w), CountInv PROVE CountInv'
<1>1. /\ w \in counting /\ counting' = counting \ {w} /\ sent' = sent
      /\ amount' = [amount EXCEPT ![IF w \in Worker THEN "send" ELSE "receive"] = @ + 1]
  BY DEF Count, calls
<1>2. amount \in [Amount -> Nat]
  BY DEF CountInv
<1>3. Uncounted \in Nat /\ Cardinality(Worker) \in Nat
  BY UncountedFacts DEF Uncounted
<1>4. amount["send"] \in Nat /\ amount["receive"] \in Nat
  BY <1>2 DEF Amount
<1>5. CASE w \in Worker
  <2>1. Uncounted' = Uncounted - 1
    BY <1>1, <1>5, UncountedFacts DEF Uncounted
  <2>2. amount' \in [Amount -> Nat] /\ amount'["send"] = amount["send"] + 1
    BY <1>1, <1>2, <1>4, <1>5 DEF Amount
  <2> QED BY <1>1, <1>3, <1>4, <2>1, <2>2 DEF CountInv
<1>6. CASE w \notin Worker
  <2>1. Uncounted' = Uncounted
    BY <1>1, <1>6, UncountedFacts DEF Uncounted
  <2>2. amount' \in [Amount -> Nat] /\ amount'["send"] = amount["send"]
    BY <1>1, <1>2, <1>4, <1>6 DEF Amount
  <2> QED BY <1>1, <2>1, <2>2 DEF CountInv
<1> QED BY <1>5, <1>6

LEMMA CountStep == ASSUME [Next]_vars, CountInv PROVE CountInv'
<1>1. CASE UNCHANGED vars
  BY <1>1, CountKept DEF vars, threads, calls
<1>2. ASSUME NEW c \in Caller, StartEndManager(c) PROVE CountInv'
  <2>1. CASE Called(c) \/ Open(c) \/ RecordTracker(c) \/ PrintTotals(c) \/ PrintAverage(c) \/ Stop(c)
             \/ Clear(c)
    BY <2>1, CountKept DEF Called, Open, RecordTracker, PrintTotals, PrintAverage, Stop, Clear, calls
  <2>2. CASE Reset(c)
    BY <2>2, CountReset
  <2> QED BY <1>2, <2>1, <2>2 DEF StartEndManager
<1>3. ASSUME NEW t, Tracker(t) PROVE CountInv'
  BY <1>3, CountKept DEF Tracker, calls
<1>4. CASE HandleMatchResult
  BY <1>4, CountHandleMatchResult
<1>5. ASSUME NEW w \in Worker, PlaceOrder(w) PROVE CountInv'
  BY <1>5, CountPlaceOrder
<1>6. ASSUME NEW w \in Counter, Count(w) PROVE CountInv'
  BY <1>6, CountCount
<1> QED BY <1>1, <1>2, <1>3, <1>4, <1>5, <1>6 DEF Next

\* However the calls of StartEndManager meet those of PlaceOrder and the
\* trades, the total of the orders sent counts every order that PlaceOrder
\* found to be recorded, but for one per thread: CountsItsOrders, for any
\* number of callers and workers.
THEOREM OrdersAreCounted == Spec => []CountsItsOrders
<1>1. CountInv => CountsItsOrders
  <2> SUFFICES ASSUME CountInv PROVE CountsItsOrders
    OBVIOUS
  <2>1. amount["send"] \in Nat /\ sent \in Nat
    BY DEF CountInv, Amount
  <2>2. Uncounted \in Nat /\ Cardinality(Worker) \in Nat
    BY UncountedFacts DEF Uncounted
  <2>3. amount["send"] >= sent - Uncounted /\ amount["send"] <= sent + Cardinality(Worker)
    BY <2>1, <2>2 DEF CountInv
  <2> QED BY <2>3 DEF CountsItsOrders, Uncounted
<1> QED BY CountInit, CountStep, <1>1, PTL DEF Spec

-----------------------------------------------------------------------------
List == Amount \cup {"latency"}
CallerPC == {"idle", "open", "track", "print", "average", "rows", "stop", "reset", "clear"}
TrackerPC == {"first", "test", "sample", "push", "log", "average", "ended"}
TrackerState == [pc : TrackerPC, before : [Amount -> Int], now : [Amount -> Int], rounds : Nat]

\* The types of the variables.
RecordTyped ==
  /\ record_is_start_ \in BOOLEAN
  /\ amount \in [Amount -> Nat]
  /\ list \in [List -> Seq(Int)]
  /\ caller \in [Caller -> CallerPC]
  /\ trackers \in Seq(TrackerState)
  /\ overlap \in BOOLEAN /\ crashed \in BOOLEAN

\* At most one call is under way.
OneCall == \A c, d \in Caller : caller[c] # "idle" /\ caller[d] # "idle" => c = d

\* At most one tracker has not ended, the latest.
OneTracker == \A t \in DOMAIN trackers : trackers[t].pc # "ended" => t = Len(trackers)

\* A round is made while the recording is on and nobody calls.
RoundsApart ==
  \A t \in DOMAIN trackers : InRound(t) => record_is_start_ /\ \A c \in Caller : caller[c] = "idle"

\* Where a call is tells whether the recording is on, and whether a tracker
\* is there.
CallsKnow ==
  \A c \in Caller :
    /\ caller[c] # "stop"
    /\ caller[c] \in {"track", "print", "average", "rows"} => record_is_start_
    /\ caller[c] \in {"open", "reset", "clear"} => ~record_is_start_
    /\ caller[c] \in {"open", "track"} => \A t \in DOMAIN trackers : trackers[t].pc = "ended"

\* Nobody divides by zero.
NoZero ==
  /\ \A c \in Caller : caller[c] = "average" => amount["send"] # 0
  /\ \A t \in DOMAIN trackers : trackers[t].pc = "average" => amount["send"] # 0
  /\ ~crashed

Orderly == OneCall /\ OneTracker /\ RoundsApart /\ CallsKnow /\ NoZero

\* The rows are those of the tracker, which have seen no more than what has
\* been counted.
RowsOf(tracker) ==
  \A k \in Amount :
    /\ \A i \in DOMAIN list[k] : list[k][i] >= 0
    /\ Total(list[k]) = tracker.before[k]
    /\ tracker.before[k] <= amount[k]
    /\ tracker.pc = "push" => tracker.now[k] >= 0 /\ tracker.before[k] + tracker.now[k] <= amount[k]
    /\ Len(list[k]) = tracker.rounds + (IF tracker.pc = "first" THEN 0
                                        ELSE IF tracker.pc = "log" THEN 2 ELSE 1)

\* The recording is on and its tracker has been started.
Recording == record_is_start_ /\ \A c \in Caller : caller[c] # "track"

RowsRecorded ==
  Recording => trackers # <<>> /\ Last(trackers).pc # "ended" /\ RowsOf(Last(trackers))

\* Between two recordings, and until the next one has its tracker.
RowsCleared ==
  (\E c \in Caller : caller[c] = "track")
    \/ (~record_is_start_ /\ \A c \in Caller : caller[c] \in {"idle", "open"}) =>
  list["send"] = <<>> /\ list["receive"] = <<>>

ListsLineUp == Len(list.receive) = Len(list.send) /\ Len(list.latency) >= Len(list.send)

RecordInv ==
  /\ RecordTyped /\ ListsLineUp
  /\ ~overlap => Orderly /\ RowsRecorded /\ RowsCleared

\* A row is one more entry in each of the lists.
LEMMA PushRowFacts ==
  ASSUME list \in [List -> Seq(Int)], NEW t \in Nat, NEW now \in [Amount -> Int], PushRow(t, now)
  PROVE  /\ list' \in [List -> Seq(Int)]
         /\ \A k \in Amount : list'[k] = Append(list[k], now[k])
         /\ list'["latency"] = Append(list["latency"], t)
<1>1. \A k \in Amount : now[k] \in Int
  OBVIOUS
<1>2. \A k \in List : list[k] \in Seq(Int)
  OBVIOUS
<1>3. /\ list'["send"] = Append(list["send"], now["send"])
      /\ list'["receive"] = Append(list["receive"], now["receive"])
      /\ list'["latency"] = Append(list["latency"], t)
      /\ DOMAIN list' = List
      /\ list' = [k \in List |-> list'[k]]
  BY DEF PushRow, List, Amount
<1>4. \A k \in List : list'[k] \in Seq(Int)
  <2>1. list["send"] \in Seq(Int) /\ list["receive"] \in Seq(Int) /\ list["latency"] \in Seq(Int)
    BY <1>2 DEF List, Amount
  <2>2. now["send"] \in Int /\ now["receive"] \in Int /\ t \in Int
    BY <1>1 DEF Amount
  <2>3. \A q \in Seq(Int), i \in Int : Append(q, i) \in Seq(Int)
    OBVIOUS
  <2>4. list'["send"] \in Seq(Int) /\ list'["receive"] \in Seq(Int) /\ list'["latency"] \in Seq(Int)
    BY <1>3, <2>1, <2>2, <2>3
  <2> QED BY <2>4 DEF List, Amount
<1> QED BY <1>3, <1>4 DEF Amount

\* One tracker goes from a state to another one.
Moves(t, from, to) ==
  /\ t \in DOMAIN trackers /\ from = trackers[t]
  /\ trackers' = [trackers EXCEPT ![t] = to]

LEMMA MovesFacts ==
  ASSUME trackers \in Seq(TrackerState), NEW t, NEW from, NEW to \in TrackerState, Moves(t, from, to)
  PROVE  /\ trackers' \in Seq(TrackerState) /\ Len(trackers') = Len(trackers)
         /\ DOMAIN trackers' = DOMAIN trackers /\ trackers'[t] = to
         /\ \A r \in DOMAIN trackers : r # t => trackers'[r] = trackers[r]
         /\ from \in TrackerState /\ t \in Nat
BY DEF Moves

\* The step of a tracker, as a move from one state to another.
LEMMA TrackerMoves ==
  ASSUME RecordTyped, NEW t \in DOMAIN trackers, NEW from, from = trackers[t]
  PROVE  /\ PushFirst(t) => Moves(t, from, [from EXCEPT !.pc = "test"])
         /\ TestStarted(t) => \/ Moves(t, from, TrackerAt("ended", from.rounds))
                              \/ Moves(t, from, [from EXCEPT !.pc = "sample"])
         /\ Sample(t) => Moves(t, from, [from EXCEPT !.pc = "push",
                                 !.now = [k \in Amount |-> amount[k] - from.before[k]]])
         /\ Push(t) => Moves(t, from, [from EXCEPT !.pc = "log",
                               !.before = [k \in Amount |-> @[k] + from.now[k]]])
         /\ Log(t) => \E label \in {"average", "test"} :
                        Moves(t, from, [from EXCEPT !.pc = label, !.rounds = @ + 1, !.now = Nothing])
         /\ LogAverage(t) => Moves(t, from, [from EXCEPT !.pc = "test"])
<1>1. trackers \in Seq(TrackerState) /\ trackers[t] \in TrackerState
  BY DEF RecordTyped
<1>2. PushFirst(t) => Moves(t, from, [from EXCEPT !.pc = "test"])
  BY DEF PushFirst, Moves
<1>3. TestStarted(t) => \/ Moves(t, from, TrackerAt("ended", from.rounds))
                        \/ Moves(t, from, [from EXCEPT !.pc = "sample"])
  BY DEF TestStarted, Moves
<1>4. Sample(t) => Moves(t, from, [from EXCEPT !.pc = "push",
                             !.now = [k \in Amount |-> amount[k] - from.before[k]]])
  BY DEF Sample, Moves
<1>5. Push(t) => Moves(t, from, [from EXCEPT !.pc = "log",
                           !.before = [k \in Amount |-> @[k] + from.now[k]]])
  BY DEF Push, Moves
<1>6. Log(t) => \E label \in {"average", "test"} :
                  Moves(t, from, [from EXCEPT !.pc = label, !.rounds = @ + 1, !.now = Nothing])
  BY DEF Log, EndRound, Moves
<1>7. LogAverage(t) => Moves(t, from, [from EXCEPT !.pc = "test"])
  BY DEF LogAverage, Moves
<1> QED BY <1>2, <1>3, <1>4, <1>5, <1>6, <1>7

LEMMA RecordTypedInit == Init => RecordTyped
<1> SUFFICES ASSUME Init PROVE RecordTyped
  OBVIOUS
<1>1. amount \in [Amount -> Nat] /\ list \in [List -> Seq(Int)]
  BY DEF Init, Nothing, List
<1>2. caller \in [Caller -> CallerPC] /\ trackers \in Seq(TrackerState)
  BY DEF Init, CallerPC
<1> QED BY <1>1, <1>2 DEF Init, RecordTyped

LEMMA RecordTypedCaller ==
  ASSUME NEW c \in Caller, StartEndManager(c), RecordTyped
  PROVE  RecordTyped'
<1>1. /\ \A label \in CallerPC : Goto(c, label) => caller' \in [Caller -> CallerPC]
      /\ {"open", "track", "idle", "print", "average", "rows", "stop", "reset", "clear"} \subseteq CallerPC
  BY DEF RecordTyped, Goto, CallerPC
<1>2. CASE Called(c)
  <2>1. (Goto(c, "open") \/ Goto(c, "print")) /\ overlap' \in BOOLEAN
    <3>1. CASE Begin(c)
      BY <3>1 DEF Begin
    <3>2. CASE End(c)
      BY <3>2 DEF End
    <3> QED BY <1>2, <3>1, <3>2 DEF Called
  <2>2. UNCHANGED <<record_is_start_, amount, list, trackers, crashed>>
    BY <1>2 DEF Called
  <2> QED BY <1>1, <2>1, <2>2 DEF RecordTyped
<1>3. CASE Open(c)
  BY <1>1, <1>3 DEF Open, RecordTyped
<1>4. CASE RecordTracker(c)
  <2>1. TrackerAt("first", 0) \in TrackerState
    BY DEF TrackerAt, TrackerState, TrackerPC, Nothing
  <2>2. /\ trackers' = Append(trackers, TrackerAt("first", 0)) /\ Goto(c, "idle")
        /\ UNCHANGED <<record_is_start_, amount, list, overlap, crashed>>
    BY <1>4 DEF RecordTracker
  <2>3. trackers' \in Seq(TrackerState)
    BY <2>1, <2>2 DEF RecordTyped
  <2> QED BY <1>1, <2>2, <2>3 DEF RecordTyped
<1>5. CASE PrintTotals(c)
  <2>1. /\ Goto(c, "stop") \/ Goto(c, "average") \/ Goto(c, "rows")
        /\ UNCHANGED <<record_is_start_, amount, list, trackers, overlap, crashed>>
    BY <1>5 DEF PrintTotals
  <2> QED BY <1>1, <2>1 DEF RecordTyped
<1>6. CASE PrintAverage(c)
  BY <1>1, <1>6 DEF PrintAverage, RecordTyped
<1>7. CASE Stop(c)
  BY <1>1, <1>7 DEF Stop, RecordTyped
<1>8. CASE Reset(c)
  BY <1>1, <1>8 DEF Reset, RecordTyped, Nothing
<1>9. CASE Clear(c)
  <2>1. /\ list' = [list EXCEPT !["send"] = <<>>, !["receive"] = <<>>] /\ Goto(c, "idle")
        /\ UNCHANGED <<record_is_start_, amount, trackers, overlap, crashed>>
    BY <1>9 DEF Clear
  <2>2. list' \in [List -> Seq(Int)]
    <3>1. list \in [List -> Seq(Int)] /\ <<>> \in Seq(Int)
      BY DEF RecordTyped
    <3> QED BY <2>1, <3>1
  <2> QED BY <1>1, <2>1, <2>2 DEF RecordTyped
<1> QED BY <1>2, <1>3, <1>4, <1>5, <1>6, <1>7, <1>8, <1>9 DEF StartEndManager

LEMMA RecordTypedTracker ==
  ASSUME NEW t \in DOMAIN trackers, Tracker(t), RecordTyped
  PROVE  RecordTyped'
<1> DEFINE from == trackers[t]
<1>1. /\ trackers \in Seq(TrackerState) /\ from \in TrackerState /\ list \in [List -> Seq(Int)]
      /\ amount \in [Amount -> Nat] /\ t \in Nat
  BY DEF RecordTyped
<1>2. UNCHANGED <<record_is_start_, amount, caller>> /\ crashed' \in BOOLEAN
  BY DEF Tracker
<1>3. \A to \in TrackerState : Moves(t, from, to) => trackers' \in Seq(TrackerState)
  BY <1>1, MovesFacts
<1>4. overlap' \in BOOLEAN
  BY DEF Tracker, RecordTyped, PushFirst, TestStarted, Sample, Push, Log, LogAverage
<1>5. /\ from.before \in [Amount -> Int] /\ from.now \in [Amount -> Int] /\ from.rounds \in Nat
      /\ \A label \in TrackerPC : [from EXCEPT !.pc = label] \in TrackerState
      /\ {"first", "test", "sample", "push", "log", "average", "ended"} \subseteq TrackerPC
      /\ Nothing \in [Amount -> Int]
  <2>1. from.before \in [Amount -> Int] /\ from.now \in [Amount -> Int] /\ from.rounds \in Nat
    BY <1>1 DEF TrackerState
  <2>2. \A label \in TrackerPC : [from EXCEPT !.pc = label] \in TrackerState
    BY <1>1 DEF TrackerState
  <2> QED BY <2>1, <2>2 DEF TrackerPC, Nothing
<1>6. CASE PushFirst(t)
  <2>1. trackers' \in Seq(TrackerState)
    BY <1>3, <1>5, <1>6, TrackerMoves
  <2>2. list' \in [List -> Seq(Int)]
    BY <1>1, <1>5, <1>6, PushRowFacts DEF PushFirst
  <2> QED BY <1>2, <1>4, <2>1, <2>2 DEF RecordTyped
<1>7. CASE TestStarted(t)
  <2>1. TrackerAt("ended", from.rounds) \in TrackerState
    BY <1>5 DEF TrackerAt, TrackerState
  <2>2. trackers' \in Seq(TrackerState)
    BY <1>3, <1>5, <1>7, <2>1, TrackerMoves
  <2>3. list' = list
    BY <1>7 DEF TestStarted
  <2> QED BY <1>2, <1>4, <2>2, <2>3 DEF RecordTyped
<1>8. CASE Sample(t)
  <2>1. [k \in Amount |-> amount[k] - from.before[k]] \in [Amount -> Int]
    BY <1>1, <1>5
  <2>2. [from EXCEPT !.pc = "push", !.now = [k \in Amount |-> amount[k] - from.before[k]]] \in TrackerState
    BY <1>1, <1>5, <2>1 DEF TrackerState
  <2>3. trackers' \in Seq(TrackerState)
    BY <1>3, <1>8, <2>2, TrackerMoves
  <2>4. list' = list
    BY <1>8 DEF Sample
  <2> QED BY <1>2, <1>4, <2>3, <2>4 DEF RecordTyped
<1>9. CASE Push(t)
  <2>1. [k \in Amount |-> from.before[k] + from.now[k]] \in [Amount -> Int]
    BY <1>5
  <2>2. [from EXCEPT !.pc = "log", !.before = [k \in Amount |-> @[k] + from.now[k]]] \in TrackerState
    BY <1>1, <1>5, <2>1 DEF TrackerState
  <2>3. trackers' \in Seq(TrackerState)
    BY <1>3, <1>9, <2>2, TrackerMoves
  <2>4. list' \in [List -> Seq(Int)]
    BY <1>1, <1>5, <1>9, PushRowFacts DEF Push
  <2> QED BY <1>2, <1>4, <2>3, <2>4 DEF RecordTyped
<1>10. CASE Log(t)
  <2>1. \A label \in {"average", "test"} :
          [from EXCEPT !.pc = label, !.rounds = @ + 1, !.now = Nothing] \in TrackerState
    <3>1. "average" \in TrackerPC /\ "test" \in TrackerPC /\ from.rounds + 1 \in Nat
      BY <1>5
    <3>2. \A label \in TrackerPC, r \in Nat, now \in [Amount -> Int] :
            [from EXCEPT !.pc = label, !.rounds = r, !.now = now] \in TrackerState
      BY <1>1 DEF TrackerState
    <3> QED BY <1>5, <3>1, <3>2
  <2>2. trackers' \in Seq(TrackerState)
    BY <1>3, <1>10, <2>1, TrackerMoves
  <2>3. list' = list
    BY <1>10 DEF Log
  <2> QED BY <1>2, <1>4, <2>2, <2>3 DEF RecordTyped
<1>11. CASE LogAverage(t)
  <2>1. trackers' \in Seq(TrackerState)
    BY <1>3, <1>5, <1>11, TrackerMoves
  <2>2. list' = list
    BY <1>11 DEF LogAverage
  <2> QED BY <1>2, <1>4, <2>1, <2>2 DEF RecordTyped
<1> QED BY <1>6, <1>7, <1>8, <1>9, <1>10, <1>11 DEF Tracker

LEMMA RecordTypedCount ==
  ASSUME NEW w \in Counter, Count(w), RecordTyped
  PROVE  /\ RecordTyped' /\ \A k \in Amount : amount'[k] \in Nat /\ amount'[k] >= amount[k]
         /\ UNCHANGED <<record_is_start_, list, caller, trackers, overlap, crashed>>
<1>1. /\ amount' = [amount EXCEPT ![IF w \in Worker THEN "send" ELSE "receive"] = @ + 1]
      /\ UNCHANGED <<record_is_start_, list, caller, trackers, overlap, crashed>>
  BY DEF Count
<1>2. amount \in [Amount -> Nat] /\ \A k \in Amount : amount[k] \in Nat
  BY DEF RecordTyped
<1>3. PICK k \in Amount : amount' = [amount EXCEPT ![k] = @ + 1]
  BY <1>1 DEF Amount
<1>4. amount' \in [Amount -> Nat] /\ \A j \in Amount : amount'[j] \in Nat /\ amount'[j] >= amount[j]
  BY <1>2, <1>3
<1> QED BY <1>1, <1>4 DEF RecordTyped

LEMMA ListsLineUpPush ==
  ASSUME RecordTyped, ListsLineUp, NEW t \in Nat, NEW now \in [Amount -> Int], PushRow(t, now)
  PROVE  ListsLineUp'
<1>1. list \in [List -> Seq(Int)]
  BY DEF RecordTyped
<1>2. /\ list["send"] \in Seq(Int) /\ list["receive"] \in Seq(Int) /\ list["latency"] \in Seq(Int)
      /\ now["send"] \in Int /\ now["receive"] \in Int /\ t \in Int
  BY <1>1 DEF List, Amount
<1>3. /\ list'["send"] = Append(list["send"], now["send"])
      /\ list'["receive"] = Append(list["receive"], now["receive"])
      /\ list'["latency"] = Append(list["latency"], t)
  BY <1>1, PushRowFacts DEF Amount
<1>4. \A q \in Seq(Int), i \in Int : Len(Append(q, i)) = Len(q) + 1 /\ Len(q) \in Nat
  OBVIOUS
<1>5. /\ Len(list["send"]) \in Nat /\ Len(list["receive"]) \in Nat /\ Len(list["latency"]) \in Nat
      /\ Len(list'["send"]) = Len(list["send"]) + 1
      /\ Len(list'["receive"]) = Len(list["receive"]) + 1
      /\ Len(list'["latency"]) = Len(list["latency"]) + 1
  BY <1>2, <1>3, <1>4
<1> QED BY <1>5 DEF ListsLineUp

LEMMA ListsLineUpStep == ASSUME Next, RecordTyped, ListsLineUp PROVE ListsLineUp'
<1>1. ASSUME list' = list PROVE ListsLineUp'
  BY <1>1 DEF ListsLineUp
<1>2. ASSUME NEW c \in Caller, StartEndManager(c) PROVE ListsLineUp'
  <2>1. CASE Clear(c)
    <3>1. list' = [list EXCEPT !["send"] = <<>>, !["receive"] = <<>>] /\ list \in [List -> Seq(Int)]
      BY <2>1 DEF Clear, RecordTyped
    <3>2. list'["send"] = <<>> /\ list'["receive"] = <<>> /\ list'["latency"] = list["latency"]
      BY <3>1 DEF List, Amount
    <3>3. list["latency"] \in Seq(Int)
      BY <3>1 DEF List
    <3>4. Len(list'["send"]) = 0 /\ Len(list'["receive"]) = 0 /\ Len(list'["latency"]) \in Nat
      BY <3>2, <3>3, EmptySeq
    <3> QED BY <3>4 DEF ListsLineUp
  <2>2. CASE ~Clear(c)
    BY <1>1, <1>2, <2>2 DEF StartEndManager, Called, Open, RecordTracker, PrintTotals, PrintAverage, Stop, Reset
  <2> QED BY <2>1, <2>2
<1>3. ASSUME NEW t \in DOMAIN trackers, Tracker(t) PROVE ListsLineUp'
  <2>1. t \in Nat /\ Nothing \in [Amount -> Int] /\ trackers[t].now \in [Amount -> Int]
    <3>1. trackers[t] \in TrackerState /\ t \in Nat
      BY DEF RecordTyped
    <3> QED BY <3>1 DEF Nothing, TrackerState
  <2>2. CASE PushFirst(t) \/ Push(t)
    BY <2>1, <2>2, ListsLineUpPush DEF PushFirst, Push
  <2>3. CASE TestStarted(t) \/ Sample(t) \/ Log(t) \/ LogAverage(t)
    BY <1>1, <2>3 DEF TestStarted, Sample, Log, LogAverage
  <2> QED BY <1>3, <2>2, <2>3 DEF Tracker
<1>4. ASSUME NEW w, PlaceOrder(w) \/ HandleMatchResult \/ Count(w) PROVE ListsLineUp'
  BY <1>1, <1>4 DEF PlaceOrder, HandleMatchResult, Recorded, Count
<1> QED BY <1>2, <1>3, <1>4 DEF Next

-----------------------------------------------------------------------------
\* A call goes on while no other one is under way.
LEMMA CallGoes ==
  ASSUME RecordTyped, NEW c \in Caller, NEW label, Goto(c, label), \A d \in Caller : d # c => caller[d] = "idle"
  PROVE  OneCall' /\ caller'[c] = label /\ \A d \in Caller : d # c => caller'[d] = "idle"
<1>1. caller'[c] = label /\ \A d \in Caller : d # c => caller'[d] = caller[d]
  BY DEF RecordTyped, Goto
<1> QED BY <1>1 DEF OneCall

\* What a call finds: it is alone, and no tracker is in a round.
LEMMA CallFinds ==
  ASSUME Orderly, NEW c \in Caller, caller[c] # "idle"
  PROVE  /\ \A d \in Caller : d # c => caller[d] = "idle"
         /\ \A t \in DOMAIN trackers : trackers[t].pc \in {"test", "ended"}
BY DEF Orderly, OneCall, RoundsApart, InRound

\* A step of a call that leaves the trackers alone, none of which is in a
\* round.
LEMMA OrderlyCall ==
  ASSUME RecordTyped, Orderly, NEW c \in Caller, NEW label, Goto(c, label), label \in CallerPC,
         \A d \in Caller : d # c => caller[d] = "idle",
         \A t \in DOMAIN trackers : trackers[t].pc \in {"test", "ended"},
         trackers' = trackers, ~crashed', label # "stop",
         label \in {"track", "print", "average", "rows"} => record_is_start_',
         label \in {"open", "reset", "clear"} => ~record_is_start_',
         label \in {"open", "track"} => \A t \in DOMAIN trackers : trackers[t].pc = "ended",
         label = "average" => amount'["send"] # 0
  PROVE  Orderly'
<1>1. OneCall' /\ caller'[c] = label /\ \A d \in Caller : d # c => caller'[d] = "idle"
  BY CallGoes
<1>2. OneTracker'
  BY DEF Orderly, OneTracker
<1>3. RoundsApart'
  BY DEF RoundsApart, InRound
<1>4. CallsKnow'
  BY <1>1 DEF CallsKnow
<1>5. NoZero'
  BY <1>1 DEF NoZero
<1> QED BY <1>1, <1>2, <1>3, <1>4, <1>5 DEF Orderly

Safe == Orderly /\ RowsRecorded /\ RowsCleared

LEMMA SafeCalled ==
  ASSUME RecordTyped, Safe, ~overlap', NEW c \in Caller, Called(c)
  PROVE  Safe'
<1>1. /\ caller[c] = "idle" /\ UNCHANGED <<record_is_start_, amount, list, trackers, crashed>>
      /\ Begin(c) \/ End(c)
  BY DEF Called
<1>2. Idle(c)
  BY <1>1 DEF Begin, End
<1>3. \A d \in Caller : caller[d] = "idle"
  BY <1>1, <1>2 DEF Idle
<1>4. ~crashed
  BY DEF Safe, Orderly, NoZero
<1>5. CASE Begin(c)
  <2>1. /\ Goto(c, "open") /\ ~record_is_start_
        /\ \A t \in DOMAIN trackers : trackers[t].pc = "ended"
    BY <1>5 DEF Begin
  <2>2. "open" \in CallerPC
    BY DEF CallerPC
  <2>3. Orderly'
    BY <1>1, <1>3, <1>4, <2>1, <2>2, OrderlyCall DEF Safe
  <2>4. RowsRecorded' /\ RowsCleared'
    BY <1>1, <1>3, <2>1 DEF Safe, RowsRecorded, Recording, RowsCleared
  <2> QED BY <2>3, <2>4 DEF Safe
<1>6. CASE End(c)
  <2>1. /\ Goto(c, "print") /\ record_is_start_
        /\ \A t \in DOMAIN trackers : ~InRound(t)
    BY <1>6 DEF End
  <2>2. "print" \in CallerPC /\ \A t \in DOMAIN trackers : trackers[t].pc \in {"test", "ended"}
    BY <2>1 DEF CallerPC, InRound
  <2>3. Orderly'
    BY <1>1, <1>3, <1>4, <2>1, <2>2, OrderlyCall DEF Safe
  <2>4. RowsOf(Last(trackers))' = RowsOf(Last(trackers))
    BY <1>1 DEF RowsOf
  <2>5. RowsRecorded'
    BY <1>1, <1>3, <2>1, <2>4 DEF Safe, RowsRecorded, Recording
  <2>6. caller'[c] = "print" /\ \A d \in Caller : d # c => caller'[d] = "idle"
    BY <1>3, <2>1, CallGoes
  <2>7. RowsCleared'
    BY <1>1, <2>1, <2>6 DEF RowsCleared
  <2> QED BY <2>3, <2>5, <2>7 DEF Safe
<1> QED BY <1>1, <1>5, <1>6

LEMMA SafeOpen ==
  ASSUME RecordTyped, Safe, NEW c \in Caller, Open(c)
  PROVE  Safe'
<1>1. /\ caller[c] = "open" /\ record_is_start_' = TRUE /\ Goto(c, "track") /\ "track" \in CallerPC
      /\ UNCHANGED <<amount, list, trackers, crashed>>
  BY DEF Open, CallerPC
<1>2. /\ \A d \in Caller : d # c => caller[d] = "idle"
      /\ \A t \in DOMAIN trackers : trackers[t].pc \in {"test", "ended"}
  BY <1>1, CallFinds DEF Safe
<1>3. ~record_is_start_ /\ (\A t \in DOMAIN trackers : trackers[t].pc = "ended") /\ ~crashed
  BY <1>1 DEF Safe, Orderly, CallsKnow, NoZero
<1>4. Orderly'
  BY <1>1, <1>2, <1>3, OrderlyCall DEF Safe
<1>5. caller'[c] = "track"
  BY <1>1, <1>2, CallGoes
<1>6. RowsRecorded'
  BY <1>5 DEF RowsRecorded, Recording
<1>7. RowsCleared'
  BY <1>1, <1>2, <1>3 DEF Safe, RowsCleared
<1> QED BY <1>4, <1>6, <1>7 DEF Safe

LEMMA SafePrintTotals ==
  ASSUME RecordTyped, Safe, NEW c \in Caller, PrintTotals(c)
  PROVE  Safe'
<1>1. /\ caller[c] = "print" /\ UNCHANGED <<record_is_start_, amount, list, trackers, crashed>>
  BY DEF PrintTotals
<1>2. /\ \A d \in Caller : d # c => caller[d] = "idle"
      /\ \A t \in DOMAIN trackers : trackers[t].pc \in {"test", "ended"}
  BY <1>1, CallFinds DEF Safe
<1>3. record_is_start_ /\ ~crashed
  BY <1>1 DEF Safe, Orderly, CallsKnow, NoZero
<1>4. PICK label \in {"average", "rows"} :
        /\ Goto(c, label) /\ label \in CallerPC /\ label \notin {"stop", "open", "track", "reset", "clear"}
        /\ label = "average" => amount["send"] # 0
  BY <1>3 DEF PrintTotals, CallerPC
<1>5. Orderly'
  BY <1>1, <1>2, <1>3, <1>4, OrderlyCall DEF Safe
<1>6. caller'[c] = label /\ \A d \in Caller : d # c => caller'[d] = "idle"
  BY <1>2, <1>4, CallGoes
<1>7. RowsOf(Last(trackers))' = RowsOf(Last(trackers))
  BY <1>1 DEF RowsOf
<1>8. RowsRecorded'
  BY <1>1, <1>2, <1>3, <1>7 DEF Safe, RowsRecorded, Recording
<1>9. RowsCleared'
  BY <1>1, <1>3, <1>4, <1>6 DEF RowsCleared
<1> QED BY <1>5, <1>8, <1>9 DEF Safe

LEMMA SafePrintAverage ==
  ASSUME RecordTyped, Safe, NEW c \in Caller, PrintAverage(c)
  PROVE  Safe'
<1>1. /\ caller[c] = "average" /\ UNCHANGED <<record_is_start_, amount, list, trackers>>
      /\ crashed' = (amount["send"] = 0) /\ Goto(c, "rows") /\ "rows" \in CallerPC
  BY DEF PrintAverage, CallerPC
<1>2. /\ \A d \in Caller : d # c => caller[d] = "idle"
      /\ \A t \in DOMAIN trackers : trackers[t].pc \in {"test", "ended"}
  BY <1>1, CallFinds DEF Safe
<1>3. record_is_start_ /\ amount["send"] # 0
  BY <1>1 DEF Safe, Orderly, CallsKnow, NoZero
<1>4. Orderly'
  BY <1>1, <1>2, <1>3, OrderlyCall DEF Safe
<1>5. caller'[c] = "rows" /\ \A d \in Caller : d # c => caller'[d] = "idle"
  BY <1>1, <1>2, CallGoes
<1>6. RowsOf(Last(trackers))' = RowsOf(Last(trackers))
  BY <1>1 DEF RowsOf
<1>7. RowsRecorded'
  BY <1>1, <1>2, <1>3, <1>6 DEF Safe, RowsRecorded, Recording
<1>8. RowsCleared'
  BY <1>1, <1>3, <1>5 DEF RowsCleared
<1> QED BY <1>4, <1>7, <1>8 DEF Safe

LEMMA SafeStop ==
  ASSUME RecordTyped, Safe, NEW c \in Caller, Stop(c)
  PROVE  Safe'
<1>1. /\ caller[c] \in {"rows", "stop"} /\ UNCHANGED <<amount, list, trackers, crashed>>
      /\ record_is_start_' = FALSE /\ Goto(c, "reset") /\ "reset" \in CallerPC
  BY DEF Stop, CallerPC
<1>2. /\ \A d \in Caller : d # c => caller[d] = "idle"
      /\ \A t \in DOMAIN trackers : trackers[t].pc \in {"test", "ended"}
  BY <1>1, CallFinds DEF Safe
<1>3. ~crashed
  BY DEF Safe, Orderly, NoZero
<1>4. Orderly'
  BY <1>1, <1>2, <1>3, OrderlyCall DEF Safe
<1>5. caller'[c] = "reset" /\ \A d \in Caller : d # c => caller'[d] = "idle"
  BY <1>1, <1>2, CallGoes
<1>6. RowsRecorded' /\ RowsCleared'
  BY <1>1, <1>5 DEF RowsRecorded, Recording, RowsCleared
<1> QED BY <1>4, <1>6 DEF Safe

LEMMA SafeReset ==
  ASSUME RecordTyped, Safe, NEW c \in Caller, Reset(c)
  PROVE  Safe'
<1>1. /\ caller[c] = "reset" /\ UNCHANGED <<record_is_start_, list, trackers, crashed>>
      /\ Goto(c, "clear") /\ "clear" \in CallerPC
  BY DEF Reset, CallerPC
<1>2. /\ \A d \in Caller : d # c => caller[d] = "idle"
      /\ \A t \in DOMAIN trackers : trackers[t].pc \in {"test", "ended"}
  BY <1>1, CallFinds DEF Safe
<1>3. ~record_is_start_ /\ ~crashed
  BY <1>1 DEF Safe, Orderly, CallsKnow, NoZero
<1>4. Orderly'
  BY <1>1, <1>2, <1>3, OrderlyCall DEF Safe
<1>5. caller'[c] = "clear" /\ \A d \in Caller : d # c => caller'[d] = "idle"
  BY <1>1, <1>2, CallGoes
<1>6. RowsRecorded' /\ RowsCleared'
  BY <1>1, <1>3, <1>5 DEF RowsRecorded, Recording, RowsCleared
<1> QED BY <1>4, <1>6 DEF Safe

LEMMA SafeClear ==
  ASSUME RecordTyped, Safe, NEW c \in Caller, Clear(c)
  PROVE  Safe'
<1>1. /\ caller[c] = "clear" /\ UNCHANGED <<record_is_start_, amount, trackers, crashed>>
      /\ Goto(c, "idle") /\ "idle" \in CallerPC
      /\ list' = [list EXCEPT !["send"] = <<>>, !["receive"] = <<>>]
  BY DEF Clear, CallerPC
<1>2. /\ \A d \in Caller : d # c => caller[d] = "idle"
      /\ \A t \in DOMAIN trackers : trackers[t].pc \in {"test", "ended"}
  BY <1>1, CallFinds DEF Safe
<1>3. ~record_is_start_ /\ ~crashed
  BY <1>1 DEF Safe, Orderly, CallsKnow, NoZero
<1>4. Orderly'
  BY <1>1, <1>2, <1>3, OrderlyCall DEF Safe
<1>5. RowsRecorded'
  BY <1>1, <1>3 DEF RowsRecorded, Recording
<1>6. RowsCleared'
  <2>1. list \in [List -> Seq(Int)] /\ "send" \in List /\ "receive" \in List
    BY DEF RecordTyped, List, Amount
  <2>2. list'["send"] = <<>> /\ list'["receive"] = <<>>
    BY <1>1, <2>1
  <2> QED BY <2>2 DEF RowsCleared
<1> QED BY <1>4, <1>5, <1>6 DEF Safe

\* A new tracker, before its first row.
LEMMA SafeRecordTracker ==
  ASSUME RecordTyped, Safe, NEW c \in Caller, RecordTracker(c)
  PROVE  Safe'
<1> DEFINE new == TrackerAt("first", 0)
           l == Len(trackers)
<1>1. /\ caller[c] = "track" /\ UNCHANGED <<record_is_start_, amount, list, crashed>>
      /\ Goto(c, "idle") /\ trackers' = Append(trackers, new)
  BY DEF RecordTracker
<1>2. /\ \A d \in Caller : d # c => caller[d] = "idle"
      /\ record_is_start_ /\ (\A t \in DOMAIN trackers : trackers[t].pc = "ended") /\ ~crashed
  BY <1>1, CallFinds DEF Safe, Orderly, CallsKnow, NoZero
<1>3. /\ trackers \in Seq(TrackerState) /\ l \in Nat /\ amount \in [Amount -> Nat]
  BY DEF RecordTyped
<1>4. /\ DOMAIN trackers' = 1 .. l + 1 /\ Len(trackers') = l + 1 /\ trackers'[l + 1] = new
      /\ \A t \in 1 .. l : trackers'[t] = trackers[t] /\ t \in DOMAIN trackers
  BY <1>1, <1>3
<1>5. new.pc = "first" /\ new.before = Nothing /\ new.rounds = 0
  BY DEF TrackerAt
<1>6. \A t \in 1 .. l + 1 : t = l + 1 \/ trackers'[t].pc = "ended"
  <2>1. \A t \in 1 .. l + 1 : t = l + 1 \/ t \in 1 .. l
    BY <1>3
  <2> QED BY <1>2, <1>4, <2>1
<1> HIDE DEF new
<1>7. OneCall' /\ \A d \in Caller : caller'[d] = "idle"
  BY <1>1, <1>2, CallGoes
<1>8. OneTracker' /\ RoundsApart' /\ CallsKnow' /\ NoZero'
  <2>1. OneTracker'
    BY <1>4, <1>6 DEF OneTracker
  <2>2. RoundsApart'
    BY <1>1, <1>2, <1>7 DEF RoundsApart
  <2>3. CallsKnow'
    BY <1>7 DEF CallsKnow
  <2>4. NoZero'
    BY <1>1, <1>2, <1>4, <1>5, <1>6, <1>7 DEF NoZero
  <2> QED BY <2>1, <2>2, <2>3, <2>4
<1>9. RowsRecorded'
  <2>1. trackers' # <<>> /\ Last(trackers') = new
    <3>1. Len(trackers') # 0
      BY <1>3, <1>4
    <3> QED BY <1>4, <3>1, EmptySeq DEF Last
  <2>2. RowsOf(new)'
    <3>1. list["send"] = <<>> /\ list["receive"] = <<>>
      BY <1>1 DEF Safe, RowsCleared
    <3>2. ASSUME NEW k \in Amount PROVE list[k] = <<>> /\ amount[k] \in Nat /\ new.before[k] = 0
      BY <1>3, <1>5, <3>1 DEF Amount, Nothing
    <3>3. Total(<<>>) = 0
      <4>1. DOMAIN <<>> = {}
        BY EmptySeq
      <4> QED BY <4>1, SumEmpty DEF Total, SumFunction
    <3>4. DOMAIN <<>> = {} /\ Len(<<>>) = 0
      BY EmptySeq
    <3> QED BY <1>1, <1>5, <3>2, <3>3, <3>4 DEF RowsOf
  <2> QED BY <1>5, <2>1, <2>2 DEF RowsRecorded
<1>10. RowsCleared'
  BY <1>1, <1>2, <1>7 DEF RowsCleared
<1> QED BY <1>7, <1>8, <1>9, <1>10 DEF Safe, Orderly

-----------------------------------------------------------------------------
\* A tracker that acts is the latest; in a round it is that of the recording.
LEMMA TrackerFinds ==
  ASSUME RecordTyped, Safe, NEW t \in DOMAIN trackers, trackers[t].pc # "ended"
  PROVE  /\ trackers # <<>> /\ t = Len(trackers) /\ Last(trackers) = trackers[t]
         /\ InRound(t) => /\ record_is_start_ /\ \A c \in Caller : caller[c] = "idle"
                          /\ RowsOf(trackers[t])
<1>1. trackers \in Seq(TrackerState)
  BY DEF RecordTyped
<1>2. t = Len(trackers) /\ trackers # <<>>
  <2>1. t = Len(trackers)
    BY DEF Safe, Orderly, OneTracker
  <2> QED BY <1>1, <2>1, EmptySeq
<1>3. Last(trackers) = trackers[t]
  BY <1>2 DEF Last
<1>4. ASSUME InRound(t)
      PROVE  record_is_start_ /\ (\A c \in Caller : caller[c] = "idle") /\ RowsOf(trackers[t])
  <2>1. record_is_start_ /\ \A c \in Caller : caller[c] = "idle"
    BY <1>4 DEF Safe, Orderly, RoundsApart
  <2>2. Recording
    BY <2>1 DEF Recording
  <2> QED BY <1>3, <2>1, <2>2 DEF Safe, RowsRecorded
<1> QED BY <1>2, <1>3, <1>4

\* The tracker of the recording takes a step of its round.
LEMMA SafeRound ==
  ASSUME RecordTyped, Safe, NEW t \in DOMAIN trackers, t = Len(trackers),
         NEW from, NEW to \in TrackerState, Moves(t, from, to),
         UNCHANGED <<record_is_start_, amount, caller>>, ~crashed',
         record_is_start_, \A c \in Caller : caller[c] = "idle",
         from.pc # "ended", to.pc # "ended", to.pc = "average" => amount["send"] # 0,
         RowsOf(to)'
  PROVE  Safe'
<1>1. trackers \in Seq(TrackerState)
  BY DEF RecordTyped
<1>2. /\ Len(trackers') = Len(trackers) /\ DOMAIN trackers' = DOMAIN trackers /\ trackers'[t] = to
      /\ \A r \in DOMAIN trackers : r # t => trackers'[r] = trackers[r]
  BY <1>1, MovesFacts
<1>3. OneCall' /\ CallsKnow'
  BY DEF OneCall, CallsKnow
<1>4. OneTracker'
  BY <1>2 DEF Safe, Orderly, OneTracker
<1>5. RoundsApart'
  BY DEF RoundsApart
<1>6. NoZero'
  BY <1>2 DEF Safe, Orderly, NoZero
<1>7. trackers' # <<>> /\ Last(trackers') = to
  <2>1. trackers' # <<>>
    BY <1>2, EmptySeq
  <2> QED BY <1>2, <2>1 DEF Last
<1>8. RowsRecorded' /\ RowsCleared'
  BY <1>7 DEF RowsRecorded, RowsCleared
<1> QED BY <1>3, <1>4, <1>5, <1>6, <1>8 DEF Safe, Orderly

LEMMA SafeTestStarted ==
  ASSUME RecordTyped, Safe, ~overlap', NEW t \in DOMAIN trackers, TestStarted(t),
         UNCHANGED <<record_is_start_, amount, caller>>, ~crashed'
  PROVE  Safe'
<1>0. PICK from \in TrackerState : from = trackers[t]
  BY DEF RecordTyped
<1>1. /\ from.pc = "test" /\ list' = list /\ trackers \in Seq(TrackerState)
  BY <1>0 DEF TestStarted, RecordTyped
<1>2. trackers # <<>> /\ t = Len(trackers) /\ Last(trackers) = from
  BY <1>0, <1>1, TrackerFinds
<1>3. CASE ~record_is_start_
  <2>1. PICK to : trackers' = [trackers EXCEPT ![t] = to] /\ to.pc = "ended"
    BY <1>0, <1>3 DEF TestStarted, TrackerAt
  <2>2. DOMAIN trackers' = DOMAIN trackers /\ \A r \in DOMAIN trackers : trackers'[r].pc = "ended"
    <3>1. DOMAIN trackers' = DOMAIN trackers /\ trackers'[t] = to
          /\ \A r \in DOMAIN trackers : r # t => trackers'[r] = trackers[r]
      BY <1>1, <2>1
    <3>2. \A r \in DOMAIN trackers : r # t => trackers[r].pc = "ended"
      BY <1>2 DEF Safe, Orderly, OneTracker
    <3> QED BY <2>1, <3>1, <3>2
  <2>3. OneCall' /\ OneTracker' /\ RoundsApart' /\ CallsKnow' /\ NoZero'
    <3>1. OneCall'
      BY DEF Safe, Orderly, OneCall
    <3>2. OneTracker' /\ RoundsApart'
      BY <2>2 DEF OneTracker, RoundsApart, InRound
    <3>3. CallsKnow'
      BY <2>2 DEF Safe, Orderly, CallsKnow
    <3>4. NoZero'
      BY <2>2 DEF Safe, Orderly, NoZero
    <3> QED BY <3>1, <3>2, <3>3, <3>4
  <2>4. RowsRecorded' /\ RowsCleared'
    BY <1>1, <1>3 DEF Safe, RowsRecorded, Recording, RowsCleared
  <2> QED BY <2>3, <2>4 DEF Safe, Orderly
<1>4. CASE record_is_start_
  <2>1. PICK to : to = [from EXCEPT !.pc = "sample"]
    OBVIOUS
  <2>2. /\ Moves(t, from, to) /\ \A c \in Caller : caller[c] = "idle"
    BY <1>0, <1>4, <2>1 DEF TestStarted, Moves
  <2>3. to \in TrackerState /\ to.pc = "sample" /\ to.before = from.before /\ to.rounds = from.rounds
    BY <2>1 DEF TrackerState, TrackerPC
  <2>4. RowsOf(from)
    BY <1>2, <1>4, <2>2 DEF Safe, RowsRecorded, Recording
  <2>5. RowsOf(to)
    BY <1>1, <2>3, <2>4 DEF RowsOf
  <2>6. RowsOf(to)'
    BY <1>1, <2>5 DEF RowsOf
  <2> QED BY <1>1, <1>2, <1>4, <2>2, <2>3, <2>6, SafeRound
<1> QED BY <1>3, <1>4

NoneNegative(rows) == \A i \in DOMAIN rows : rows[i] >= 0

\* One more row adds to the total.
LEMMA TotalAppend ==
  ASSUME NEW q \in Seq(Int), NEW i \in Int
  PROVE  /\ Total(Append(q, i)) = Total(q) + i /\ Total(q) \in Int
         /\ Len(Append(q, i)) = Len(q) + 1
         /\ NoneNegative(q) /\ i >= 0 => NoneNegative(Append(q, i))
<1> DEFINE r == Append(q, i)
           n == Len(q)
<1>1. /\ n \in Nat /\ DOMAIN q = 1 .. n /\ DOMAIN r = 1 .. n + 1 /\ Len(r) = n + 1 /\ r[n + 1] = i
      /\ \A j \in 1 .. n : r[j] = q[j] /\ q[j] \in Int
  OBVIOUS
<1>2. \A j \in 1 .. n + 1 : j = n + 1 \/ j \in 1 .. n
  BY <1>1
<1>3. Total(q) = SumTo(q, n) /\ Total(r) = SumTo(r, n + 1)
  BY <1>1 DEF Total, SumFunction, SumTo
<1> HIDE DEF r, n
<1>4. \A j \in 1 .. n + 1 : r[j] \in Int
  BY <1>1, <1>2
<1>5. SumTo(r, n + 1) = SumTo(r, n) + r[n + 1] /\ SumTo(r, n) \in Int
  BY <1>1, <1>4, SumToStep
<1>6. SumTo(r, n) = SumTo(q, n)
  BY <1>1, SumToAgrees
<1>7. Total(r) = Total(q) + i /\ Total(q) \in Int
  BY <1>1, <1>3, <1>5, <1>6
<1>8. NoneNegative(q) /\ i >= 0 => NoneNegative(r)
  BY <1>1, <1>2 DEF NoneNegative
<1> QED BY <1>1, <1>7, <1>8 DEF r, n

\* What the rows of one amount have to do with a tracker.
RowsOfAmount(rows, pc, rounds, before, now, counted) ==
  /\ NoneNegative(rows)
  /\ Total(rows) = before
  /\ before <= counted
  /\ pc = "push" => now >= 0 /\ before + now <= counted
  /\ Len(rows) = rounds + (IF pc = "first" THEN 0 ELSE IF pc = "log" THEN 2 ELSE 1)

LEMMA RowsOfByAmount ==
  ASSUME NEW tracker
  PROVE  RowsOf(tracker) <=>
           \A k \in Amount : RowsOfAmount(list[k], tracker.pc, tracker.rounds, tracker.before[k],
                                          tracker.now[k], amount[k])
BY DEF RowsOf, RowsOfAmount, NoneNegative

\* The steps of a round, for one of the amounts.
LEMMA RowsOfFirst ==
  ASSUME NEW rows \in Seq(Int), NEW rounds \in Nat, NEW before \in Int, NEW now \in Int, NEW counted \in Nat,
         RowsOfAmount(rows, "first", rounds, before, now, counted)
  PROVE  RowsOfAmount(Append(rows, 0), "test", rounds, before, now, counted)
<1>1. /\ NoneNegative(rows)
      /\ Total(rows) = before /\ before <= counted /\ Len(rows) = rounds
  BY DEF RowsOfAmount
<1>2. /\ Total(Append(rows, 0)) = before /\ Len(Append(rows, 0)) = rounds + 1
      /\ NoneNegative(Append(rows, 0))
  <2>1. PICK zero \in Int : zero = 0
    OBVIOUS
  <2>2. /\ Total(Append(rows, zero)) = Total(rows) + zero /\ Len(Append(rows, zero)) = Len(rows) + 1
        /\ NoneNegative(rows) /\ zero >= 0 => NoneNegative(Append(rows, zero))
    BY TotalAppend
  <2>3. before + zero = before /\ zero >= 0
    BY <2>1
  <2> QED BY <1>1, <2>1, <2>2, <2>3
<1> QED BY <1>1, <1>2 DEF RowsOfAmount

LEMMA RowsOfSample ==
  ASSUME NEW rows \in Seq(Int), NEW rounds \in Nat, NEW before \in Int, NEW now \in Int, NEW counted \in Nat,
         RowsOfAmount(rows, "sample", rounds, before, now, counted)
  PROVE  RowsOfAmount(rows, "push", rounds, before, counted - before, counted)
<1>1. /\ NoneNegative(rows)
      /\ Total(rows) = before /\ before <= counted /\ Len(rows) = rounds + 1
  BY DEF RowsOfAmount
<1>2. counted - before >= 0 /\ before + (counted - before) <= counted
  BY <1>1
<1> QED BY <1>1, <1>2 DEF RowsOfAmount

LEMMA RowsOfPush ==
  ASSUME NEW rows \in Seq(Int), NEW rounds \in Nat, NEW before \in Int, NEW now \in Int, NEW counted \in Nat,
         RowsOfAmount(rows, "push", rounds, before, now, counted)
  PROVE  RowsOfAmount(Append(rows, now), "log", rounds, before + now, now, counted)
<1>1. /\ NoneNegative(rows)
      /\ Total(rows) = before /\ before + now <= counted /\ Len(rows) = rounds + 1 /\ now >= 0
  BY DEF RowsOfAmount
<1>2. /\ Total(Append(rows, now)) = before + now /\ Len(Append(rows, now)) = rounds + 1 + 1
      /\ NoneNegative(Append(rows, now))
  BY <1>1, TotalAppend
<1>3. rounds + 1 + 1 = rounds + 2
  OBVIOUS
<1> QED BY <1>1, <1>2, <1>3 DEF RowsOfAmount

LEMMA RowsOfLog ==
  ASSUME NEW rows \in Seq(Int), NEW rounds \in Nat, NEW before \in Int, NEW now \in Int, NEW counted \in Nat,
         RowsOfAmount(rows, "log", rounds, before, now, counted), NEW label \in {"average", "test"}
  PROVE  RowsOfAmount(rows, label, rounds + 1, before, 0, counted)
<1>1. /\ NoneNegative(rows)
      /\ Total(rows) = before /\ before <= counted /\ Len(rows) = rounds + 2
  BY DEF RowsOfAmount
<1>2. Len(rows) = (rounds + 1) + 1
  BY <1>1
<1> QED BY <1>1, <1>2 DEF RowsOfAmount

LEMMA RowsOfLogAverage ==
  ASSUME NEW rows, NEW rounds, NEW before, NEW now, NEW counted,
         RowsOfAmount(rows, "average", rounds, before, now, counted)
  PROVE  RowsOfAmount(rows, "test", rounds, before, now, counted)
BY DEF RowsOfAmount

LEMMA SafePushFirst ==
  ASSUME RecordTyped, Safe, NEW t \in DOMAIN trackers, PushFirst(t),
         UNCHANGED <<record_is_start_, amount, caller>>, ~crashed'
  PROVE  Safe'
<1>1. PICK from \in TrackerState : from = trackers[t]
  BY DEF RecordTyped
<1>2. PICK to : to = [from EXCEPT !.pc = "test"]
  OBVIOUS
<1>3. /\ to \in TrackerState /\ to.pc = "test" /\ to.before = from.before /\ to.now = from.now
      /\ to.rounds = from.rounds /\ from.pc = "first" /\ from.before \in [Amount -> Int]
      /\ from.now \in [Amount -> Int] /\ from.rounds \in Nat
  BY <1>1, <1>2 DEF TrackerState, TrackerPC, PushFirst
<1>4. Moves(t, from, to)
  BY <1>1, <1>2, TrackerMoves
<1>5. t = Len(trackers) /\ record_is_start_ /\ (\A c \in Caller : caller[c] = "idle") /\ RowsOf(from)
  BY <1>1, <1>3, TrackerFinds DEF InRound
<1>6. RowsOf(to)'
  <2>1. list \in [List -> Seq(Int)] /\ amount \in [Amount -> Nat] /\ t \in Nat /\ Nothing \in [Amount -> Int]
    BY DEF RecordTyped, Nothing
  <2>2. \A k \in Amount : list'[k] = Append(list[k], 0)
    <3>1. \A k \in Amount : list'[k] = Append(list[k], Nothing[k])
      BY <2>1, PushRowFacts DEF PushFirst
    <3> QED BY <3>1 DEF Nothing
  <2>3. ASSUME NEW k \in Amount
        PROVE  RowsOfAmount(list'[k], to.pc, to.rounds, to.before[k], to.now[k], amount'[k])
    <3>1. list[k] \in Seq(Int) /\ amount[k] \in Nat /\ from.before[k] \in Int /\ from.now[k] \in Int
      BY <1>3, <2>1 DEF List
    <3>2. RowsOfAmount(list[k], "first", from.rounds, from.before[k], from.now[k], amount[k])
      BY <1>3, <1>5, RowsOfByAmount
    <3>3. RowsOfAmount(Append(list[k], 0), "test", from.rounds, from.before[k], from.now[k], amount[k])
      BY <1>3, <3>1, <3>2, RowsOfFirst
    <3> QED BY <1>3, <2>2, <3>3
  <2>4. \A k \in Amount : RowsOfAmount(list[k], to.pc, to.rounds, to.before[k], to.now[k], amount[k])'
    BY <2>3
  <2> QED BY <2>4 DEF RowsOf, RowsOfAmount, NoneNegative
<1> QED BY <1>3, <1>4, <1>5, <1>6, SafeRound

LEMMA SafeSample ==
  ASSUME RecordTyped, Safe, NEW t \in DOMAIN trackers, Sample(t),
         UNCHANGED <<record_is_start_, amount, caller>>, ~crashed'
  PROVE  Safe'
<1>1. PICK from \in TrackerState : from = trackers[t]
  BY DEF RecordTyped
<1>2. from.pc = "sample" /\ list' = list /\ list \in [List -> Seq(Int)] /\ amount \in [Amount -> Nat]
  BY <1>1 DEF Sample, RecordTyped
<1>3. /\ from.before \in [Amount -> Int] /\ from.now \in [Amount -> Int] /\ from.rounds \in Nat
      /\ "push" \in TrackerPC
  BY DEF TrackerState, TrackerPC
<1>4. PICK seen \in [Amount -> Int] : seen = [k \in Amount |-> amount[k] - from.before[k]]
  <2>1. [k \in Amount |-> amount[k] - from.before[k]] \in [Amount -> Int]
    BY <1>2, <1>3
  <2> QED BY <2>1
<1>5. PICK to : to = [from EXCEPT !.pc = "push", !.now = seen]
  OBVIOUS
<1>6. /\ to \in TrackerState /\ to.pc = "push" /\ to.before = from.before /\ to.now = seen
      /\ to.rounds = from.rounds
  BY <1>3, <1>5 DEF TrackerState
<1>7. Moves(t, from, to)
  BY <1>1, <1>4, <1>5, TrackerMoves
<1>8. t = Len(trackers) /\ record_is_start_ /\ (\A c \in Caller : caller[c] = "idle") /\ RowsOf(from)
  BY <1>1, <1>2, TrackerFinds DEF InRound
<1>9. RowsOf(to)'
  <2>1. ASSUME NEW k \in Amount
        PROVE  RowsOfAmount(list[k], to.pc, to.rounds, to.before[k], to.now[k], amount[k])
    <3>1. list[k] \in Seq(Int) /\ amount[k] \in Nat /\ from.before[k] \in Int /\ from.now[k] \in Int
      BY <1>2, <1>3 DEF List
    <3>2. RowsOfAmount(list[k], "sample", from.rounds, from.before[k], from.now[k], amount[k])
      BY <1>2, <1>8, RowsOfByAmount
    <3>3. RowsOfAmount(list[k], "push", from.rounds, from.before[k], amount[k] - from.before[k], amount[k])
      BY <1>3, <3>1, <3>2, RowsOfSample
    <3>4. seen[k] = amount[k] - from.before[k]
      BY <1>4
    <3> QED BY <1>6, <3>3, <3>4
  <2>2. RowsOf(to)
    BY <2>1, RowsOfByAmount
  <2> QED BY <1>2, <2>2 DEF RowsOf
<1> QED BY <1>2, <1>6, <1>7, <1>8, <1>9, SafeRound

LEMMA SafePush ==
  ASSUME RecordTyped, Safe, NEW t \in DOMAIN trackers, Push(t),
         UNCHANGED <<record_is_start_, amount, caller>>, ~crashed'
  PROVE  Safe'
<1>1. PICK from \in TrackerState : from = trackers[t]
  BY DEF RecordTyped
<1>2. /\ from.pc = "push" /\ PushRow(t, from.now) /\ list \in [List -> Seq(Int)] /\ amount \in [Amount -> Nat]
      /\ t \in Nat
  <2>1. from.pc = "push" /\ PushRow(t, from.now)
    BY <1>1 DEF Push
  <2> QED BY <2>1 DEF RecordTyped
<1>3. /\ from.before \in [Amount -> Int] /\ from.now \in [Amount -> Int] /\ from.rounds \in Nat
      /\ "log" \in TrackerPC
  BY DEF TrackerState, TrackerPC
<1>4. PICK seen \in [Amount -> Int] : seen = [k \in Amount |-> from.before[k] + from.now[k]]
  <2>1. [k \in Amount |-> from.before[k] + from.now[k]] \in [Amount -> Int]
    BY <1>3
  <2> QED BY <2>1
<1>5. PICK to : to = [from EXCEPT !.pc = "log", !.before = seen]
  OBVIOUS
<1>6. /\ to \in TrackerState /\ to.pc = "log" /\ to.before = seen /\ to.now = from.now
      /\ to.rounds = from.rounds
  BY <1>3, <1>5 DEF TrackerState
<1>7. Moves(t, from, to)
  <2>1. Moves(t, from, [from EXCEPT !.pc = "log", !.before = [k \in Amount |-> @[k] + from.now[k]]])
    BY <1>1, TrackerMoves
  <2>2. to = [from EXCEPT !.pc = "log", !.before = [k \in Amount |-> @[k] + from.now[k]]]
    BY <1>4, <1>5
  <2> QED BY <2>1, <2>2
<1>8. t = Len(trackers) /\ record_is_start_ /\ (\A c \in Caller : caller[c] = "idle") /\ RowsOf(from)
  BY <1>1, <1>2, TrackerFinds DEF InRound
<1>9. RowsOf(to)'
  <2>1. \A k \in Amount : list'[k] = Append(list[k], from.now[k])
    BY <1>2, <1>3, PushRowFacts
  <2>2. ASSUME NEW k \in Amount
        PROVE  RowsOfAmount(list'[k], to.pc, to.rounds, to.before[k], to.now[k], amount'[k])
    <3>1. list[k] \in Seq(Int) /\ amount[k] \in Nat /\ from.before[k] \in Int /\ from.now[k] \in Int
      BY <1>2, <1>3 DEF List
    <3>2. RowsOfAmount(list[k], "push", from.rounds, from.before[k], from.now[k], amount[k])
      BY <1>2, <1>8, RowsOfByAmount
    <3>3. RowsOfAmount(Append(list[k], from.now[k]), "log", from.rounds, from.before[k] + from.now[k],
                       from.now[k], amount[k])
      BY <1>3, <3>1, <3>2, RowsOfPush
    <3>4. seen[k] = from.before[k] + from.now[k]
      BY <1>4
    <3> QED BY <1>6, <2>1, <3>3, <3>4
  <2>3. \A k \in Amount : RowsOfAmount(list[k], to.pc, to.rounds, to.before[k], to.now[k], amount[k])'
    BY <2>2
  <2> QED BY <2>3 DEF RowsOf, RowsOfAmount, NoneNegative
<1> QED BY <1>2, <1>6, <1>7, <1>8, <1>9, SafeRound

LEMMA SafeLog ==
  ASSUME RecordTyped, Safe, NEW t \in DOMAIN trackers, Log(t),
         UNCHANGED <<record_is_start_, amount, caller>>, ~crashed'
  PROVE  Safe'
<1>1. PICK from \in TrackerState : from = trackers[t]
  BY DEF RecordTyped
<1>2. /\ from.pc = "log" /\ list' = list /\ list \in [List -> Seq(Int)] /\ amount \in [Amount -> Nat]
  BY <1>1 DEF Log, RecordTyped
<1>3. /\ from.before \in [Amount -> Int] /\ from.now \in [Amount -> Int] /\ from.rounds \in Nat
      /\ Nothing \in [Amount -> Int] /\ \A k \in Amount : Nothing[k] = 0
  BY DEF TrackerState, Nothing
<1>4. PICK label \in {"average", "test"} :
        /\ trackers' = [trackers EXCEPT ![t].pc = label, ![t].rounds = @ + 1, ![t].now = Nothing]
        /\ label = "average" => amount["send"] # 0
  BY DEF Log, EndRound
<1>5. PICK r \in Nat : r = from.rounds + 1
  BY <1>3
<1>6. PICK to : to = [from EXCEPT !.pc = label, !.rounds = r, !.now = Nothing]
  OBVIOUS
<1>7. /\ to \in TrackerState /\ to.pc = label /\ to.before = from.before /\ to.now = Nothing
      /\ to.rounds = r
  <2>1. label \in TrackerPC
    BY DEF TrackerPC
  <2> QED BY <1>3, <1>5, <1>6, <2>1 DEF TrackerState
<1>8. Moves(t, from, to)
  BY <1>1, <1>4, <1>5, <1>6 DEF Moves, RecordTyped
<1>9. t = Len(trackers) /\ record_is_start_ /\ (\A c \in Caller : caller[c] = "idle") /\ RowsOf(from)
  BY <1>1, <1>2, TrackerFinds DEF InRound
<1>10. RowsOf(to)'
  <2>1. ASSUME NEW k \in Amount
        PROVE  RowsOfAmount(list[k], to.pc, to.rounds, to.before[k], to.now[k], amount[k])
    <3>1. list[k] \in Seq(Int) /\ amount[k] \in Nat /\ from.before[k] \in Int /\ from.now[k] \in Int
      BY <1>2, <1>3 DEF List
    <3>2. RowsOfAmount(list[k], "log", from.rounds, from.before[k], from.now[k], amount[k])
      BY <1>2, <1>9, RowsOfByAmount
    <3>3. RowsOfAmount(list[k], label, from.rounds + 1, from.before[k], 0, amount[k])
      BY <1>3, <3>1, <3>2, RowsOfLog
    <3> QED BY <1>3, <1>5, <1>7, <3>3
  <2>2. RowsOf(to)
    BY <2>1, RowsOfByAmount
  <2> QED BY <1>2, <2>2 DEF RowsOf
<1> QED BY <1>2, <1>4, <1>7, <1>8, <1>9, <1>10, SafeRound

LEMMA SafeLogAverage ==
  ASSUME RecordTyped, Safe, NEW t \in DOMAIN trackers, LogAverage(t),
         UNCHANGED <<record_is_start_, amount, caller>>, ~crashed'
  PROVE  Safe'
<1>1. PICK from \in TrackerState : from = trackers[t]
  BY DEF RecordTyped
<1>2. PICK to : to = [from EXCEPT !.pc = "test"]
  OBVIOUS
<1>3. /\ to \in TrackerState /\ to.pc = "test" /\ to.before = from.before /\ to.now = from.now
      /\ to.rounds = from.rounds /\ from.pc = "average" /\ list' = list
  BY <1>1, <1>2 DEF TrackerState, TrackerPC, LogAverage
<1>4. Moves(t, from, to)
  BY <1>1, <1>2, TrackerMoves
<1>5. t = Len(trackers) /\ record_is_start_ /\ (\A c \in Caller : caller[c] = "idle") /\ RowsOf(from)
  BY <1>1, <1>3, TrackerFinds DEF InRound
<1>6. RowsOf(to)
  <2>1. \A k \in Amount : RowsOfAmount(list[k], "average", from.rounds, from.before[k], from.now[k], amount[k])
    BY <1>3, <1>5, RowsOfByAmount
  <2>2. \A k \in Amount : RowsOfAmount(list[k], to.pc, to.rounds, to.before[k], to.now[k], amount[k])
    BY <1>3, <2>1, RowsOfLogAverage
  <2> QED BY <2>2, RowsOfByAmount
<1>7. RowsOf(to)'
  BY <1>3, <1>6 DEF RowsOf
<1> QED BY <1>3, <1>4, <1>5, <1>7, SafeRound

LEMMA SafeTracker ==
  ASSUME RecordTyped, Safe, ~overlap', NEW t \in DOMAIN trackers, Tracker(t)
  PROVE  Safe'
<1>1. UNCHANGED <<record_is_start_, amount, caller>> /\ ~crashed'
  BY DEF Tracker, Safe, Orderly, NoZero
<1>2. PushFirst(t) \/ TestStarted(t) \/ Sample(t) \/ Push(t) \/ Log(t) \/ LogAverage(t)
  BY DEF Tracker
<1>3. CASE PushFirst(t)
  BY <1>1, <1>3, SafePushFirst
<1>4. CASE TestStarted(t)
  BY <1>1, <1>4, SafeTestStarted
<1>5. CASE Sample(t)
  BY <1>1, <1>5, SafeSample
<1>6. CASE Push(t)
  BY <1>1, <1>6, SafePush
<1>7. CASE Log(t)
  BY <1>1, <1>7, SafeLog
<1>8. CASE LogAverage(t)
  BY <1>1, <1>8, SafeLogAverage
<1> QED BY <1>2, <1>3, <1>4, <1>5, <1>6, <1>7, <1>8

\* Whatever is counted, the rows hold no more.
LEMMA SafeCount ==
  ASSUME RecordTyped, Safe, NEW w \in Counter, Count(w)
  PROVE  Safe'
<1>1. /\ \A k \in Amount : amount'[k] \in Nat /\ amount'[k] >= amount[k] /\ amount[k] \in Nat
      /\ UNCHANGED <<record_is_start_, list, caller, trackers, overlap, crashed>>
  BY RecordTypedCount DEF RecordTyped
<1>2. amount["send"] # 0 => amount'["send"] # 0
  <2>1. amount'["send"] \in Nat /\ amount'["send"] >= amount["send"] /\ amount["send"] \in Nat
    BY <1>1 DEF Amount
  <2> QED BY <2>1
<1>3. OneCall' /\ OneTracker' /\ RoundsApart' /\ CallsKnow'
  BY <1>1 DEF Safe, Orderly, OneCall, OneTracker, RoundsApart, InRound, CallsKnow
<1>4. NoZero'
  BY <1>1, <1>2 DEF Safe, Orderly, NoZero
<1>5. RowsCleared'
  BY <1>1 DEF Safe, RowsCleared
<1>6. RowsRecorded'
  <2>1. SUFFICES ASSUME Recording PROVE trackers # <<>> /\ Last(trackers).pc # "ended" /\ RowsOf(Last(trackers))'
    BY <1>1 DEF RowsRecorded, Recording
  <2>2. trackers # <<>> /\ Last(trackers).pc # "ended" /\ RowsOf(Last(trackers))
    BY <2>1 DEF Safe, RowsRecorded
  <2>3. PICK tracker : tracker = Last(trackers)
    OBVIOUS
  <2>4. tracker \in TrackerState
    <3>1. trackers \in Seq(TrackerState)
      BY DEF RecordTyped
    <3>2. Len(trackers) \in DOMAIN trackers
      BY <2>2, <3>1
    <3> QED BY <2>3, <3>1, <3>2 DEF Last
  <2>5. ASSUME NEW k \in Amount
        PROVE  RowsOfAmount(list[k], tracker.pc, tracker.rounds, tracker.before[k], tracker.now[k], amount'[k])
    <3>1. RowsOfAmount(list[k], tracker.pc, tracker.rounds, tracker.before[k], tracker.now[k], amount[k])
      BY <2>2, <2>3, RowsOfByAmount
    <3>2. tracker.before[k] \in Int /\ tracker.now[k] \in Int
      BY <2>4 DEF TrackerState
    <3>3. tracker.before[k] <= amount'[k]
      BY <1>1, <3>1, <3>2 DEF RowsOfAmount
    <3>4. tracker.pc = "push" => tracker.now[k] >= 0 /\ tracker.before[k] + tracker.now[k] <= amount'[k]
      <4>1. ASSUME tracker.pc = "push"
            PROVE  tracker.now[k] >= 0 /\ tracker.before[k] + tracker.now[k] <= amount[k]
        BY <3>1, <4>1 DEF RowsOfAmount
      <4>2. amount[k] \in Nat /\ amount'[k] \in Nat /\ amount'[k] >= amount[k]
        BY <1>1
      <4>3. tracker.before[k] + tracker.now[k] <= amount[k] => tracker.before[k] + tracker.now[k] <= amount'[k]
        BY <3>2, <4>2
      <4> QED BY <4>1, <4>3
    <3> QED BY <3>1, <3>3, <3>4 DEF RowsOfAmount
  <2>6. \A k \in Amount : RowsOfAmount(list[k], tracker.pc, tracker.rounds, tracker.before[k],
                                       tracker.now[k], amount[k])'
    BY <1>1, <2>5
  <2>7. RowsOf(tracker)'
    BY <2>6 DEF RowsOf, RowsOfAmount, NoneNegative
  <2>8. RowsOf(Last(trackers))'
    BY <1>1, <2>3, <2>7
  <2> QED BY <2>2, <2>8
<1> QED BY <1>3, <1>4, <1>5, <1>6 DEF Safe, Orderly

LEMMA SafeKept ==
  ASSUME Safe, UNCHANGED <<record_is_start_, amount, list, caller, trackers, crashed>>
  PROVE  Safe'
BY DEF Safe, Orderly, OneCall, OneTracker, RoundsApart, InRound, CallsKnow, NoZero, RowsRecorded, Recording,
       RowsCleared, RowsOf

LEMMA RecordInit == Init => RecordInv
<1> SUFFICES ASSUME Init PROVE RecordInv
  OBVIOUS
<1>1. RecordTyped
  BY RecordTypedInit
<1>2. ListsLineUp
  <2>1. Len(list.send) = 0 /\ Len(list.receive) = 0 /\ Len(list.latency) = 0
    BY EmptySeq DEF Init, Amount
  <2> QED BY <2>1 DEF ListsLineUp
<1>3. Orderly
  BY EmptySeq DEF Init, Orderly, OneCall, OneTracker, RoundsApart, InRound, CallsKnow, NoZero
<1>4. RowsRecorded /\ RowsCleared
  BY DEF Init, RowsRecorded, Recording, RowsCleared, Amount
<1> QED BY <1>1, <1>2, <1>3, <1>4 DEF RecordInv

LEMMA RecordStep == ASSUME [Next]_vars, RecordInv PROVE RecordInv'
<1>0. RecordTyped /\ ListsLineUp /\ (~overlap => Safe)
  BY DEF RecordInv, Safe
<1>1. CASE UNCHANGED vars
  <2>1. UNCHANGED <<record_is_start_, amount, list, caller, trackers, overlap, crashed>>
    BY <1>1 DEF vars, threads
  <2>2. RecordTyped' /\ ListsLineUp'
    BY <1>0, <2>1 DEF RecordTyped, ListsLineUp
  <2>3. ~overlap' => Safe'
    BY <1>0, <2>1, SafeKept
  <2> QED BY <2>2, <2>3 DEF RecordInv, Safe
<1>2. CASE Next
  <2>1. ListsLineUp'
    BY <1>0, <1>2, ListsLineUpStep
  <2>2. ASSUME NEW c \in Caller, StartEndManager(c)
        PROVE  RecordTyped' /\ (~overlap' => Safe')
    <3>1. RecordTyped'
      BY <1>0, <2>2, RecordTypedCaller
    <3>2. ~overlap' => ~overlap
      BY <2>2 DEF StartEndManager, Called, Begin, End, Open, RecordTracker, PrintTotals, PrintAverage,
                  Stop, Reset, Clear
    <3>3. ~overlap' => Safe'
      <4>1. SUFFICES ASSUME ~overlap' PROVE Safe'
        OBVIOUS
      <4>2. Safe
        BY <1>0, <3>2, <4>1
      <4> QED BY <1>0, <2>2, <4>1, <4>2, SafeCalled, SafeOpen, SafeRecordTracker, SafePrintTotals,
                 SafePrintAverage, SafeStop, SafeReset, SafeClear DEF StartEndManager
    <3> QED BY <3>1, <3>3
  <2>3. ASSUME NEW t \in DOMAIN trackers, Tracker(t)
        PROVE  RecordTyped' /\ (~overlap' => Safe')
    <3>1. RecordTyped'
      BY <1>0, <2>3, RecordTypedTracker
    <3>2. ~overlap' => ~overlap
      BY <2>3 DEF Tracker, PushFirst, TestStarted, Sample, Push, Log, LogAverage
    <3> QED BY <1>0, <2>3, <3>1, <3>2, SafeTracker
  <2>4. ASSUME NEW w \in Counter, Count(w)
        PROVE  RecordTyped' /\ (~overlap' => Safe')
    BY <1>0, <2>4, RecordTypedCount, SafeCount
  <2>5. ASSUME NEW w, PlaceOrder(w) \/ HandleMatchResult
        PROVE  RecordTyped' /\ (~overlap' => Safe')
    <3>1. UNCHANGED <<record_is_start_, amount, list, caller, trackers, overlap, crashed>>
      BY <2>5 DEF PlaceOrder, HandleMatchResult, Recorded
    <3>2. RecordTyped'
      BY <1>0, <3>1 DEF RecordTyped
    <3> QED BY <1>0, <3>1, <3>2, SafeKept
  <2>6. RecordTyped' /\ (~overlap' => Safe')
    BY <1>2, <2>2, <2>3, <2>4, <2>5 DEF Next
  <2> QED BY <2>1, <2>6 DEF RecordInv, Safe
<1> QED BY <1>1, <1>2

\* As long as no call of StartEndManager comes during another one, a round
\* of a tracker or its last interval, no two threads meet in the vectors and
\* none divides by zero: LostOnlyOnOverlap, for any number of callers,
\* recordings and rounds.
THEOREM OnlyOverlapLoses == Spec => []LostOnlyOnOverlap
<1>1. RecordInv => LostOnlyOnOverlap
  <2> SUFFICES ASSUME RecordTyped, Safe, ~overlap PROVE ~crashed /\ ~Race
    BY DEF RecordInv, Safe, LostOnlyOnOverlap, Lost
  <2>1. ~crashed
    BY DEF Safe, Orderly, NoZero
  <2>2. Pushing \subseteq {Len(trackers)}
    BY DEF Pushing, Safe, Orderly, OneTracker
  <2>3. \A c, d \in InLists : c = d
    BY DEF InLists, Safe, Orderly, OneCall
  <2>4. Pushing # {} => InLists = {}
    BY DEF Pushing, InLists, Safe, Orderly, RoundsApart, InRound
  <2>5. ASSUME NEW S, \A c, d \in S : c = d
        PROVE  ~(Cardinality(S) > 1)
    <3>1. CASE S = {}
      BY <3>1, FS_EmptySet
    <3>2. CASE S # {}
      <4>1. PICK c : S = {c}
        BY <2>5, <3>2
      <4> QED BY <4>1, FS_Singleton
    <3> QED BY <3>1, <3>2
  <2>6. ~(Cardinality(Pushing) > 1) /\ ~(Cardinality(InLists) > 1)
    BY <2>2, <2>3, <2>5
  <2> QED BY <2>1, <2>4, <2>6 DEF Race
<1> QED BY RecordInit, RecordStep, <1>1, PTL DEF Spec

\* Whatever calls have met, PrintRecordResult finds an entry in all three
\* lists for every row; and without an overlap the rows of a report are those
\* of its tracker, add up to what it has seen and to no more than the totals:
\* RowsAddUp, for any number of callers, recordings and rounds.
THEOREM RowsAddUpToTotals == Spec => []RowsAddUp
<1>1. RecordInv => RowsAddUp
  <2> SUFFICES ASSUME RecordInv PROVE RowsAddUp
    OBVIOUS
  <2>1. RowsLineUp
    BY DEF RecordInv, ListsLineUp, RowsLineUp
  <2>2. SUFFICES ASSUME NEW c \in Caller, caller[c] = "rows", ~overlap, NEW tracker, tracker = Last(trackers)
                 PROVE  /\ Len(list.send) = tracker.rounds + 1
                        /\ \A k \in Amount :
                             /\ \A i \in DOMAIN list[k] : list[k][i] >= 0
                             /\ Total(list[k]) = tracker.before[k]
                             /\ Total(list[k]) <= amount[k]
    BY <2>1 DEF RowsAddUp
  <2>3. Safe /\ RecordTyped
    BY <2>2 DEF RecordInv, Safe
  <2>4. record_is_start_ /\ \A d \in Caller : d # c => caller[d] = "idle"
    BY <2>2, <2>3, CallFinds DEF Safe, Orderly, CallsKnow
  <2>5. trackers # <<>> /\ tracker.pc # "ended" /\ RowsOf(tracker)
    BY <2>2, <2>3, <2>4 DEF Safe, RowsRecorded, Recording
  <2>6. tracker.pc = "test"
    <3>1. trackers \in Seq(TrackerState)
      BY <2>3 DEF RecordTyped
    <3>2. Len(trackers) \in DOMAIN trackers /\ tracker = trackers[Len(trackers)]
      BY <2>2, <2>5, <3>1 DEF Last
    <3>3. tracker.pc \in {"test", "ended"}
      BY <2>2, <2>3, <3>2, CallFinds DEF Safe
    <3> QED BY <2>5, <3>3
  <2>7. \A k \in Amount :
          /\ \A i \in DOMAIN list[k] : list[k][i] >= 0
          /\ Total(list[k]) = tracker.before[k]
          /\ tracker.before[k] <= amount[k]
          /\ Len(list[k]) = tracker.rounds + 1
    BY <2>5, <2>6 DEF RowsOf
  <2>8. Len(list.send) = tracker.rounds + 1
    BY <2>7 DEF Amount
  <2> QED BY <2>7, <2>8
<1> QED BY RecordInit, RecordStep, <1>1, PTL DEF Spec
=============================================================================
