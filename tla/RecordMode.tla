----------------------------- MODULE RecordMode -----------------------------
(***************************************************************************)
(* The record mode of the order manager (order_manager.cc).  Between a     *)
(* MANAGER_START and a MANAGER_END, PlaceOrder and HandleMatchResult count *)
(* the orders sent and the trades received; a detached thread, the tracker,*)
(* writes down once in an interval what has been counted in it; and        *)
(* MANAGER_END prints the report and resets all for the next recording.    *)
(* The calls run on the threads of gRPC, which nothing keeps apart.  The   *)
(* amounts are atomic, the lists are plain vectors.                        *)
(*                                                                         *)
(* Of latency_list_ only the tracker that wrote an entry is kept; the sum, *)
(* the minimum and the maximum of the latencies are left out.  The two     *)
(* amounts are read, and reset, in one step: no property relates them.     *)
(***************************************************************************)
EXTENDS Integers, Sequences, FiniteSets, Functions, SequencesExt

CONSTANTS
  Caller,         \* threads that serve StartEndManager
  Worker,         \* threads that serve PlaceOrder
  Bounds          \* of the calls of each caller that change anything, of the
                  \* orders and trades recorded, and of the rounds of all
                  \* trackers: the combinations that are explored

ASSUME WorkerAssumption == IsFiniteSet(Worker) /\ "subscriber" \notin Worker

VARIABLES
  bound,          \* which of Bounds it is
  record_is_start_,
  amount,         \* send_data_amount_ and receive_data_amount_
  list,           \* send_data_list_, receive_data_list_ and latency_list_
  caller,         \* where each call of StartEndManager is
  trackers,       \* the threads RecordTracker has started
  counting,       \* the threads that have found the recording on and are
                  \* about to add what they have sent or received
  called,         \* number of calls of each caller
  recorded,       \* number of orders and trades found to be recorded
  sent,           \* history: orders found to be recorded since the last reset
  overlap,        \* history: a call came while another call, or a round of
                  \* a tracker, was under way
  crashed         \* a thread has divided by zero

calls   == <<bound, called, recorded, sent>>
threads == <<caller, trackers, counting>>
vars    == <<record_is_start_, amount, list, threads, calls, overlap, crashed>>

Amount == {"send", "receive"}
Counter == Worker \cup {"subscriber"}

Nothing == [k \in Amount |-> 0]

Goto(c, label) == caller' = [caller EXCEPT ![c] = label]
Idle(c) == \A d \in Caller \ {c} : caller[d] = "idle"

TrackerAt(label, rounds) ==
  [pc |-> label, before |-> Nothing, now |-> Nothing, rounds |-> rounds]

\* A tracker that has not ended and is not just waiting for its interval.
InRound(t) == trackers[t].pc \notin {"test", "ended"}

Rounds == FoldFunction(LAMBDA tracker, n : tracker.rounds + n, 0, trackers)

\* Two threads in the vectors at a time.
Pushing == {t \in DOMAIN trackers : trackers[t].pc \in {"first", "push"}}
InLists == {c \in Caller : caller[c] \in {"rows", "clear"}}
Race ==
  \/ Cardinality(Pushing) > 1
  \/ Pushing # {} /\ InLists # {}
  \/ Cardinality(InLists) > 1 /\ \E c \in InLists : caller[c] = "clear"

-----------------------------------------------------------------------------
Init ==
  /\ bound \in Bounds
  /\ record_is_start_ = FALSE
  /\ amount = Nothing
  /\ list = [k \in Amount \cup {"latency"} |-> <<>>]
  /\ caller = [c \in Caller |-> "idle"]
  /\ trackers = <<>>
  /\ counting = {}
  /\ called = [c \in Caller |-> 0]
  /\ recorded = 0 /\ sent = 0
  /\ overlap = FALSE
  /\ crashed = FALSE

-----------------------------------------------------------------------------
\* StartEndManager.  A MANAGER_START while the recording is on changes
\* nothing, like a MANAGER_END while it is off.

\* Mutant of Begin: MANAGER_START opens the recording again.
BeginAgain(c) ==
  /\ Goto(c, "open")
  /\ overlap' = (overlap \/ ~Idle(c) \/ \E t \in DOMAIN trackers : InRound(t))

Begin(c) ==
  /\ ~record_is_start_
  /\ Goto(c, "open")
  /\ overlap' = (overlap \/ ~Idle(c) \/ \E t \in DOMAIN trackers : trackers[t].pc # "ended")

End(c) ==
  /\ record_is_start_
  /\ Goto(c, "print")
  /\ overlap' = (overlap \/ ~Idle(c) \/ \E t \in DOMAIN trackers : InRound(t))

Called(c) ==
  /\ caller[c] = "idle"
  /\ Begin(c) \/ End(c)
  /\ called[c] < bound.calls[c]
  /\ called' = [called EXCEPT ![c] = @ + 1]
  /\ UNCHANGED <<record_is_start_, amount, list, trackers, counting, bound, recorded, sent, crashed>>

Open(c) ==
  /\ caller[c] = "open"
  /\ record_is_start_' = TRUE
  /\ Goto(c, "track")
  /\ UNCHANGED <<amount, list, trackers, counting, calls, overlap, crashed>>

RecordTracker(c) ==
  /\ caller[c] = "track"
  /\ trackers' = Append(trackers, TrackerAt("first", 0))
  /\ Goto(c, "idle")
  /\ UNCHANGED <<record_is_start_, amount, list, counting, calls, overlap, crashed>>

\* PrintRecordResult: the totals, then the average of the latencies.
PrintTotals(c) ==
  /\ caller[c] = "print"
  /\ Goto(c, IF ~record_is_start_ THEN "stop"
             ELSE IF amount["send"] # 0 THEN "average" ELSE "rows")
  /\ UNCHANGED <<record_is_start_, amount, list, trackers, counting, calls, overlap, crashed>>

\* send_data_amount_ is read again to divide by it.
PrintAverage(c) ==
  /\ caller[c] = "average"
  /\ crashed' = (amount["send"] = 0)
  /\ Goto(c, "rows")
  /\ UNCHANGED <<record_is_start_, amount, list, trackers, counting, calls, overlap>>

\* The rows have been printed, or there was nothing to print.
Stop(c) ==
  /\ caller[c] \in {"rows", "stop"}
  /\ record_is_start_' = FALSE
  /\ Goto(c, "reset")
  /\ UNCHANGED <<amount, list, trackers, counting, calls, overlap, crashed>>

\* Mutant of Reset: the orders sent go on to be counted.
ResetReceived(c) ==
  /\ caller[c] = "reset"
  /\ amount' = [amount EXCEPT !["receive"] = 0]
  /\ sent' = 0
  /\ Goto(c, "clear")
  /\ UNCHANGED <<record_is_start_, list, trackers, counting, bound, called, recorded, overlap, crashed>>

Reset(c) ==
  /\ caller[c] = "reset"
  /\ amount' = Nothing
  /\ sent' = 0
  /\ Goto(c, "clear")
  /\ UNCHANGED <<record_is_start_, list, trackers, counting, bound, called, recorded, overlap, crashed>>

\* latency_list_ is not cleared.
Clear(c) ==
  /\ caller[c] = "clear"
  /\ list' = [list EXCEPT !["send"] = <<>>, !["receive"] = <<>>]
  /\ Goto(c, "idle")
  /\ UNCHANGED <<record_is_start_, amount, trackers, counting, calls, overlap, crashed>>

StartEndManager(c) ==
  \/ Called(c)
  \/ Open(c) \/ RecordTracker(c)
  \/ PrintTotals(c) \/ PrintAverage(c)
  \/ Stop(c) \/ Reset(c) \/ Clear(c)

-----------------------------------------------------------------------------
\* The tracker.

PushRow(t, now) ==
  list' = [send    |-> Append(list.send, now["send"]),
           receive |-> Append(list.receive, now["receive"]),
           latency |-> Append(list.latency, t)]

PushFirst(t) ==
  /\ trackers[t].pc = "first"
  /\ PushRow(t, Nothing)
  /\ trackers' = [trackers EXCEPT ![t].pc = "test"]
  /\ UNCHANGED overlap

\* Mutant of TestStarted: the tracker goes on for ever.
TestNothing(t) ==
  /\ trackers[t].pc = "test"
  /\ Rounds < bound.rounds
  /\ trackers' = [trackers EXCEPT ![t].pc = "sample"]
  /\ overlap' = (overlap \/ \E c \in Caller : caller[c] # "idle")
  /\ UNCHANGED list

\* The tracker tests record_is_start_ until its interval is over.
TestStarted(t) ==
  /\ trackers[t].pc = "test"
  /\ \/ /\ ~record_is_start_
        /\ trackers' = [trackers EXCEPT ![t] = TrackerAt("ended", @.rounds)]
        /\ UNCHANGED overlap
     \/ /\ record_is_start_
        /\ Rounds < bound.rounds
        /\ trackers' = [trackers EXCEPT ![t].pc = "sample"]
        /\ overlap' = (overlap \/ \E c \in Caller : caller[c] # "idle")
  /\ UNCHANGED list

\* Mutant of Sample: the row has all that was counted since the start.
SampleAll(t) ==
  /\ trackers[t].pc = "sample"
  /\ trackers' = [trackers EXCEPT ![t].pc = "push", ![t].now = amount]
  /\ UNCHANGED <<list, overlap>>

Sample(t) ==
  /\ trackers[t].pc = "sample"
  /\ trackers' = [trackers EXCEPT ![t].pc = "push",
                    ![t].now = [k \in Amount |-> amount[k] - trackers[t].before[k]]]
  /\ UNCHANGED <<list, overlap>>

Push(t) ==
  /\ trackers[t].pc = "push"
  /\ PushRow(t, trackers[t].now)
  /\ trackers' = [trackers EXCEPT ![t].pc = "log",
                    ![t].before = [k \in Amount |-> @[k] + trackers[t].now[k]]]
  /\ UNCHANGED overlap

EndRound(t, label) ==
  trackers' = [trackers EXCEPT ![t].pc = label, ![t].rounds = @ + 1, ![t].now = Nothing]

Log(t) ==
  /\ trackers[t].pc = "log"
  /\ EndRound(t, IF amount["send"] # 0 THEN "average" ELSE "test")
  /\ UNCHANGED <<list, overlap>>

\* send_data_amount_ is read again to divide by it.
LogAverage(t) ==
  /\ trackers[t].pc = "average"
  /\ trackers' = [trackers EXCEPT ![t].pc = "test"]
  /\ UNCHANGED <<list, overlap>>

Tracker(t) ==
  /\ t \in DOMAIN trackers
  /\ PushFirst(t) \/ TestStarted(t) \/ Sample(t) \/ Push(t) \/ Log(t) \/ LogAverage(t)
  /\ crashed' = (trackers[t].pc = "average" /\ amount["send"] = 0)
  /\ UNCHANGED <<record_is_start_, amount, caller, counting, calls>>

-----------------------------------------------------------------------------
\* PlaceOrder and HandleMatchResult count what they find to be recorded; what
\* they find not to be changes nothing here.

Recorded(w) ==
  /\ record_is_start_
  /\ w \notin counting
  /\ counting' = counting \cup {w}
  /\ recorded < bound.recorded
  /\ recorded' = recorded + 1
  /\ UNCHANGED <<record_is_start_, amount, list, caller, trackers, bound, called, overlap, crashed>>

PlaceOrder(w) == Recorded(w) /\ sent' = sent + 1

HandleMatchResult == Recorded("subscriber") /\ UNCHANGED sent

Count(w) ==
  /\ w \in counting
  /\ counting' = counting \ {w}
  /\ amount' = [amount EXCEPT ![IF w \in Worker THEN "send" ELSE "receive"] = @ + 1]
  /\ UNCHANGED <<record_is_start_, list, caller, trackers, calls, overlap, crashed>>

\* After a division by zero or two threads in a vector, anything may happen.
Lost == crashed \/ Race

Next ==
  /\ ~Lost
  /\ \/ \E c \in Caller : StartEndManager(c)
     \/ \E t \in DOMAIN trackers : Tracker(t)
     \/ \E w \in Worker : PlaceOrder(w)
     \/ HandleMatchResult
     \/ \E w \in Counter : Count(w)

MaxTrackers == Max({FoldFunction(LAMBDA m, n : m + n, 0, b.calls) : b \in Bounds})

\* The trackers run; nothing obliges a call, an order or a trade to come.
Spec ==
  /\ Init /\ [][Next]_vars
  /\ \A t \in 1 .. MaxTrackers : WF_vars(~Lost /\ Tracker(t))

-----------------------------------------------------------------------------
Total(rows) == SumFunction(rows)

\* As long as the calls of StartEndManager come one after the other, none of
\* them during a round of the tracker or before the last one has ended, no
\* two threads meet in the vectors of the rows and none divides by zero.
LostOnlyOnOverlap == Lost => overlap

\* PrintRecordResult goes through the three lists by the length of the
\* first: whatever calls have met, the other two have an entry for each row.
RowsLineUp ==
  ~Lost => Len(list.receive) = Len(list.send) /\ Len(list.latency) >= Len(list.send)

\* Without such an overlap, a report has one row for the start and one for
\* each round of the tracker that was started last; they add up to what the
\* tracker has seen, and to no more than the totals printed above them.
\* Even with one, the report stays within the three lists.
RowsAddUp ==
  /\ RowsLineUp
  /\ \A c \in Caller :
       caller[c] = "rows" /\ ~overlap =>
         LET tracker == Last(trackers)
         IN /\ Len(list.send) = tracker.rounds + 1
            /\ \A k \in Amount :
                 /\ \A i \in DOMAIN list[k] : list[k][i] >= 0
                 /\ Total(list[k]) = tracker.before[k]
                 /\ Total(list[k]) <= amount[k]

\* The total of the orders sent is that of the orders that PlaceOrder found
\* to be recorded since the last reset, but for the calls that have not yet
\* counted theirs and for those that a reset has met between their test and
\* their count: at most one for each thread, however the calls have met.
CountsItsOrders ==
  /\ amount["send"] >= sent - Cardinality(counting \cap Worker)
  /\ amount["send"] <= sent + Cardinality(Worker)

\* Once the recording is off, all trackers end, unless it is turned on again.
TrackersEnd ==
  ~record_is_start_ ~>
    \/ record_is_start_ \/ Lost
    \/ \A t \in DOMAIN trackers : trackers[t].pc = "ended"

\* The document: "When you need to record the send amount, receive amount and
\* latency, you can send MANAGER_START [...] send MANAGER_END [...] and you
\* will get a performance_testing.scv file [...] as the result report".  The
\* latencies in a report have been measured by the tracker of its recording.
LatencyOfTheRecording ==
  \A c \in Caller :
    caller[c] = "rows" /\ ~overlap =>
      \A i \in DOMAIN list.send : list.latency[i] = Len(trackers)
=============================================================================
