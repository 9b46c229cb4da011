----------------------------- MODULE ResultFeed -----------------------------
(***************************************************************************)
(* How the result host streams trades to its subscribers                   *)
(* (match_engine/src/match_engine_grpc_impl.cc and                         *)
(* match_result_sender_actor.cc).  A gRPC thread runs SubscribeMatchResult *)
(* for each client: it adds a writer to match_result_writer_keepers and    *)
(* waits for a promise.  The sender actor runs SendMatchResult: it writes  *)
(* every trade to every keeper, and drops a keeper whose write fails.      *)
(* Nothing locks the vector of keepers.  A client that stays connected but *)
(* stops reading makes the write to it wait.  Trades are numbered.         *)
(***************************************************************************)
EXTENDS Integers, Sequences, SequencesExt

CONSTANTS
  Client,      \* the calls of SubscribeMatchResult
  MaxTrades    \* bound on the trades made

ASSUME MaxTradesAssumption == MaxTrades \in Nat

VARIABLES
  keepers,     \* match_result_writer_keepers: the clients, oldest first
  capacity,    \* of the vector
  handler,     \* where the call of each client is
  connected,   \* whether the stream of each client stands
  stalled,     \* the clients whose stream stands, but that do not read it
  trade_list,  \* the trades the sender actor has still to send
  it,          \* the keeper its loop stands at, 0 between two loops
  erasing,     \* TRUE between set_value and erase for that keeper
  made,        \* number of trades that reached the sender actor
  broken,      \* TRUE once the loop's iterator has been invalidated
  received,    \* the trades written to the stream of each client
  joined       \* history: trades sent before the client was a keeper

sender  == <<trade_list, it, erasing, made>>
clients == <<handler, connected, stalled, joined>>
vars    == <<keepers, capacity, sender, clients, broken, received>>

-----------------------------------------------------------------------------
Init ==
  /\ keepers = <<>>
  /\ capacity = 0
  /\ handler = [c \in Client |-> "none"]
  /\ connected = [c \in Client |-> FALSE]
  /\ stalled = {}
  /\ trade_list = <<>>
  /\ it = 0
  /\ erasing = FALSE
  /\ made = 0
  /\ broken = FALSE
  /\ received = [c \in Client |-> <<>>]
  /\ joined = [c \in Client |-> 0]

\* A client calls SubscribeMatchResult.
Subscribe(c) ==
  /\ ~broken
  /\ handler[c] = "none"
  /\ handler' = [handler EXCEPT ![c] = "called"]
  /\ connected' = [connected EXCEPT ![c] = TRUE]
  /\ UNCHANGED <<keepers, capacity, sender, stalled, broken, received, joined>>

\* push_back begins, and nothing keeps others from the vector meanwhile.
StartPush(c) ==
  /\ ~broken
  /\ handler[c] = "called"
  /\ handler' = [handler EXCEPT ![c] = "pushing"]
  /\ UNCHANGED <<keepers, capacity, sender, connected, stalled, broken, received, joined>>

OtherPushes(c) == \E d \in Client \ {c} : handler[d] = "pushing"

\* push_back ends.  When the vector is full it moves, and a loop under way
\* goes on with an iterator into freed memory; two push_backs at once may
\* store into one place.  Nothing is said of what happens then.  Otherwise
\* the loop, which asks for end() at every round, meets the new keeper too.
FinishPush(c) ==
  /\ ~broken
  /\ handler[c] = "pushing"
  /\ keepers' = Append(keepers, c)
  /\ capacity' = IF Len(keepers) < capacity THEN capacity
                 ELSE IF capacity = 0 THEN 1 ELSE 2 * capacity
  /\ \/ OtherPushes(c) /\ broken' = TRUE
     \/ broken' = (it # 0 /\ Len(keepers) = capacity)
  /\ handler' = [handler EXCEPT ![c] = "waiting"]
  /\ joined' = [joined EXCEPT ![c] = made - Len(trade_list)]
  /\ UNCHANGED <<sender, connected, stalled, received>>

\* The promise has been set: the call returns, and its ServerWriter is gone.
Return(c) ==
  /\ handler[c] = "released"
  /\ handler' = [handler EXCEPT ![c] = "returned"]
  /\ UNCHANGED <<keepers, capacity, sender, connected, stalled, broken, received, joined>>

\* The client goes away; the server notices only when it writes.
Disconnect(c) ==
  /\ connected[c]
  /\ connected' = [connected EXCEPT ![c] = FALSE]
  /\ stalled' = stalled \ {c}
  /\ UNCHANGED <<keepers, capacity, sender, handler, broken, received, joined>>

\* The client stops reading, and goes on, with its stream open.
Stall(c) ==
  /\ connected[c] /\ c \notin stalled
  /\ stalled' = stalled \cup {c}
  /\ UNCHANGED <<keepers, capacity, sender, handler, connected, broken, received, joined>>

Resume(c) ==
  /\ c \in stalled
  /\ stalled' = stalled \ {c}
  /\ UNCHANGED <<keepers, capacity, sender, handler, connected, broken, received, joined>>

-----------------------------------------------------------------------------
\* A TradeListMsg of one or two trades reaches the sender actor.
ReceiveTradeList ==
  /\ ~broken
  /\ trade_list = <<>>
  /\ \E n \in 1 .. 2 :
       /\ made + n <= MaxTrades
       /\ trade_list' = [i \in 1 .. n |-> made + i]
       /\ made' = made + n
  /\ it' = 0
  /\ UNCHANGED <<keepers, capacity, erasing, clients, broken, received>>

\* The loop over the keepers starts, for the next trade.
StartLoop ==
  /\ ~broken
  /\ trade_list # <<>> /\ it = 0
  /\ it' = 1
  /\ UNCHANGED <<keepers, capacity, trade_list, erasing, made, clients, broken, received>>

\* The loop is about to write to the keeper it stands at.
AtKeeper == ~broken /\ trade_list # <<>> /\ it \in DOMAIN keepers /\ ~erasing

\* A write succeeds, which it may also do after the client has gone.
Written(c) ==
  /\ received' = IF connected[c]
                 THEN [received EXCEPT ![c] = Append(@, Head(trade_list))]
                 ELSE received
  /\ it' = it + 1
  /\ UNCHANGED <<handler, erasing>>

\* A write fails: set_value, and from here on the call of c may return.
WriteFails(c) ==
  /\ ~connected[c]
  /\ handler' = [handler EXCEPT ![c] = "released"]
  /\ erasing' = TRUE
  /\ UNCHANGED <<it, received>>

\* Mutant of WriteTrade: a write to a client that has gone never returns.
WriteConnected ==
  /\ AtKeeper
  /\ connected[keepers[it]] /\ keepers[it] \notin stalled
  /\ Written(keepers[it])
  /\ UNCHANGED <<keepers, capacity, trade_list, made, connected, stalled, broken, joined>>

\* Write returns when the client reads its stream or has gone.
WriteTrade ==
  /\ AtKeeper
  /\ keepers[it] \notin stalled
  /\ Written(keepers[it]) \/ WriteFails(keepers[it])
  /\ UNCHANGED <<keepers, capacity, trade_list, made, connected, stalled, broken, joined>>

\* For a client that does not read, Write returns only while there is room in
\* the buffers on the way; when they are full it waits, with no deadline.
WriteBuffered ==
  /\ AtKeeper
  /\ keepers[it] \in stalled
  /\ Written(keepers[it])
  /\ UNCHANGED <<keepers, capacity, trade_list, made, connected, stalled, broken, joined>>

Pushing == \E c \in Client : handler[c] = "pushing"

\* Mutant of EraseKeeper: the loop steps over the keeper after the erased one.
EraseAndStep ==
  /\ ~broken
  /\ erasing
  /\ keepers' = RemoveAt(keepers, it)
  /\ it' = it + 1
  /\ erasing' = FALSE
  /\ broken' \in {FALSE, Pushing}
  /\ UNCHANGED <<capacity, trade_list, made, clients, received>>

\* Mutant of EraseKeeper: the keeper stays.
EraseNothing ==
  /\ ~broken
  /\ erasing
  /\ it' = it + 1
  /\ erasing' = FALSE
  /\ UNCHANGED <<keepers, capacity, trade_list, made, clients, broken, received>>

\* The keeper whose promise has been set is erased, with its call returned or
\* not; the loop goes on with the keeper that takes its place.
EraseKeeper ==
  /\ ~broken
  /\ erasing
  /\ keepers' = RemoveAt(keepers, it)
  /\ erasing' = FALSE
  /\ broken' \in {FALSE, Pushing}
  /\ UNCHANGED <<capacity, trade_list, it, made, clients, received>>

\* Every keeper has been served: on to the next trade.
EndLoop ==
  /\ ~broken
  /\ trade_list # <<>> /\ it > Len(keepers)
  /\ trade_list' = Tail(trade_list)
  /\ it' = 0
  /\ UNCHANGED <<keepers, capacity, erasing, made, clients, broken, received>>

SendMatchResult == StartLoop \/ WriteTrade \/ EraseKeeper \/ EndLoop

Next ==
  \/ \E c \in Client : Subscribe(c) \/ StartPush(c) \/ FinishPush(c) \/ Return(c)
                        \/ Disconnect(c) \/ Stall(c) \/ Resume(c)
  \/ ReceiveTradeList \/ SendMatchResult \/ WriteBuffered

\* The actor works off the list it has received.  Nothing is supposed of a
\* write to a client that does not read.
Spec == Init /\ [][Next]_vars /\ WF_vars(SendMatchResult)

-----------------------------------------------------------------------------
\* The trades sent to the keeper at position p since it joined.
Due(p) ==
  made - Len(trade_list) + (IF p < it THEN 1 ELSE 0) - joined[keepers[p]]

\* The stream of a connected keeper holds every trade since it joined, once
\* and in order, whoever else comes, stalls and goes during the loops.
FeedComplete ==
  \A p \in DOMAIN keepers :
    LET c == keepers[p]
    IN ~broken /\ connected[c] =>
         received[c] = [i \in 1 .. Due(p) |-> joined[c] + i]

\* A keeper that the loop may still write to belongs to a call that waits, so
\* that its ServerWriter exists.  The one keeper whose call may have returned
\* is the one the loop stands at between set_value and erase, and it is not
\* written to again.
WritersAlive ==
  \A p \in DOMAIN keepers :
    handler[keepers[p]] = "waiting" \/ (erasing /\ p = it)

\* The sender actor stands in the write to a client that does not read.
Blocked == ~broken /\ ~erasing /\ it \in DOMAIN keepers /\ keepers[it] \in stalled

\* The sender actor gets through every list of trades, unless a client that
\* is connected and does not read holds it up: one such client holds up all.
ListsGetSent == trade_list # <<>> ~> trade_list = <<>> \/ broken \/ Blocked
=============================================================================
