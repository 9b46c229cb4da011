-------------------------- MODULE RequestGenerator --------------------------
(***************************************************************************)
(* The request generator (request_generator/src/generator.cc): the main    *)
(* thread reads the orders from the database and deals them out, all those *)
(* of a symbol to the same thread; each thread sends its orders one by one *)
(* to the order managers in turn, waits for each reply, and at the end     *)
(* adds what it has counted to the totals under mutex_requests_count_.     *)
(* An order is its position in the database.                               *)
(***************************************************************************)
EXTENDS Integers, Sequences, FiniteSets, Functions, SequencesExt, TLC

CONSTANTS
  Symbol,
  MaxOrders,      \* bound on the orders in the database
  NumOfOrders,    \* values of num_of_orders_: -1 for all of them
  num_of_threads_,
  Servers         \* number of order managers

Thread == 0 .. num_of_threads_ - 1
Server == 0 .. Servers - 1

VARIABLES
  database,            \* the symbols of the orders in the database
  num_of_orders_,
  main,                \* where the main thread is
  orders_,             \* the orders that main has still to deal out
  symbol_to_thread_,
  thread_num_now,      \* the thread that gets the next new symbol
  orders_for_thread_,  \* what each thread has still to send
  server_index,        \* of each thread
  count_each_server,   \* of each thread: the requests that succeeded
  finished,            \* the threads that have added their counts
  requests_count_,
  count_each_server_,  \* the totals, empty until the first thread ends
  placed,              \* the orders that came to the order managers
  succeeded            \* history: number of requests answered with success

input  == <<database, num_of_orders_>>
deal   == <<orders_, symbol_to_thread_, thread_num_now>>
totals == <<requests_count_, count_each_server_>>
vars   == <<input, main, deal, orders_for_thread_, server_index, count_each_server,
            finished, totals, placed, succeeded>>

-----------------------------------------------------------------------------
Sum(f) == SumFunction(f)

\* Map m with value v at key k.
Put(m, k, v) == [x \in DOMAIN m \cup {k} |-> IF x = k THEN v ELSE m[x]]

Init ==
  /\ database \in BoundedSeq(Symbol, MaxOrders)
  /\ num_of_orders_ \in NumOfOrders
  /\ main = "prepare"
  /\ orders_ = <<>>
  /\ symbol_to_thread_ = <<>>
  /\ thread_num_now = 0
  /\ orders_for_thread_ = [t \in Thread |-> <<>>]
  /\ server_index = [t \in Thread |-> 0]
  /\ count_each_server = [t \in Thread |-> [s \in Server |-> 0]]
  /\ finished = {}
  /\ requests_count_ = 0
  /\ count_each_server_ = <<>>
  /\ placed = <<>>
  /\ succeeded = 0

\* The loop stops at the order whose count is num_of_orders_: neither -1 nor
\* 0 ever stops it.
Selected ==
  IF num_of_orders_ \in 1 .. Len(database) THEN num_of_orders_ ELSE Len(database)

PrepareOrders ==
  /\ main = "prepare"
  /\ orders_' = [i \in 1 .. Selected |-> i]
  /\ main' = "deal"
  /\ UNCHANGED <<input, symbol_to_thread_, thread_num_now, orders_for_thread_,
                 server_index, count_each_server, finished, totals, placed, succeeded>>

\* Mutant of DealOrder: every order goes to the next thread.
DealEvenly ==
  /\ main = "deal" /\ orders_ # <<>>
  /\ orders_for_thread_' = [orders_for_thread_ EXCEPT ![thread_num_now] =
                              Append(@, Head(orders_))]
  /\ thread_num_now' = (thread_num_now + 1) % num_of_threads_
  /\ symbol_to_thread_' = Put(symbol_to_thread_, database[Head(orders_)], thread_num_now)
  /\ orders_' = Tail(orders_)
  /\ UNCHANGED <<input, main, server_index, count_each_server, finished, totals, placed,
                 succeeded>>

\* The thread of an order is that of its symbol; new symbols take turns.
DealOrder ==
  /\ main = "deal" /\ orders_ # <<>>
  /\ LET symbol == database[Head(orders_)]
         new    == symbol \notin DOMAIN symbol_to_thread_
         thread == IF new THEN thread_num_now ELSE symbol_to_thread_[symbol]
     IN /\ symbol_to_thread_' = Put(symbol_to_thread_, symbol, thread)
        /\ thread_num_now' = IF ~new THEN thread_num_now
                             ELSE IF thread_num_now = num_of_threads_ - 1 THEN 0
                             ELSE thread_num_now + 1
        /\ orders_for_thread_' = [orders_for_thread_ EXCEPT ![thread] =
                                    Append(@, Head(orders_))]
  /\ orders_' = Tail(orders_)
  /\ UNCHANGED <<input, main, server_index, count_each_server, finished, totals, placed,
                 succeeded>>

\* The threads are started, each with its orders ...
StartThreads ==
  /\ main = "deal" /\ orders_ = <<>>
  /\ main' = "join"
  /\ UNCHANGED <<input, deal, orders_for_thread_, server_index, count_each_server,
                 finished, totals, placed, succeeded>>

\* ... and joined.
JoinThreads ==
  /\ main = "join" /\ finished = Thread
  /\ main' = "report"
  /\ UNCHANGED <<input, deal, orders_for_thread_, server_index, count_each_server,
                 finished, totals, placed, succeeded>>

\* PlaceOrder is called and answered.  The order may have come to the order
\* manager although the call fails; it is not sent again.
SendRequest(t) ==
  /\ main = "join" /\ orders_for_thread_[t] # <<>>
  /\ \E arrived, ok \in BOOLEAN :
       /\ ok => arrived
       /\ placed' = IF arrived THEN Append(placed, Head(orders_for_thread_[t])) ELSE placed
       /\ LET n == IF ok THEN 1 ELSE 0
          IN /\ count_each_server' = [count_each_server EXCEPT
                                        ![t][server_index[t] % Servers] = @ + n]
             /\ succeeded' = succeeded + n
  /\ orders_for_thread_' = [orders_for_thread_ EXCEPT ![t] = Tail(@)]
  /\ server_index' = [server_index EXCEPT ![t] = @ + 1]
  /\ UNCHANGED <<input, main, deal, finished, totals>>

\* The counts of a thread are added to the totals, under the mutex.
AddCounts(t) ==
  /\ main = "join" /\ orders_for_thread_[t] = <<>> /\ t \notin finished
  /\ requests_count_' = requests_count_ + Sum(count_each_server[t])
  /\ count_each_server_' =
       IF count_each_server_ = <<>> THEN count_each_server[t]
       ELSE [s \in Server |-> count_each_server_[s] + count_each_server[t][s]]
  /\ finished' = finished \cup {t}
  /\ UNCHANGED <<input, main, deal, orders_for_thread_, server_index, count_each_server,
                 placed, succeeded>>

Next ==
  \/ PrepareOrders \/ DealOrder \/ StartThreads \/ JoinThreads
  \/ \E t \in Thread : SendRequest(t) \/ AddCounts(t)

Spec == Init /\ [][Next]_vars

-----------------------------------------------------------------------------
\* The orders of a symbol come to the order managers in the order of the
\* database, each at most once, however the threads interleave and whatever
\* calls fail: the comparison of two engines rests on this.
SymbolsInOrder ==
  \A i, j \in DOMAIN placed :
    i < j /\ database[placed[i]] = database[placed[j]] => placed[i] < placed[j]

\* The totals reported are those of the requests that succeeded, summed up
\* either way; a request is counted for one of the servers or has failed.
RequestsCounted ==
  main = "report" =>
    /\ requests_count_ = succeeded
    /\ Sum(count_each_server_) = succeeded
    /\ Sum(server_index) = Selected
=============================================================================
