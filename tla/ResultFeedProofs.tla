-------------------------- MODULE ResultFeedProofs --------------------------
(***************************************************************************)
(* Proofs about ResultFeed: for any number of clients and trades, however  *)
(* they come, stall and go between the steps of the sender actor's loop,   *)
(* the writers it can still reach are alive and its connected clients miss *)
(* nothing.                                                                *)
(***************************************************************************)
EXTENDS ResultFeed, DataLemmas

\* The n - 1 elements of r are those of q, without the one at k.
Without(r, q, n, k) == \A i \in 1 .. n - 1 : r[i] = IF i < k THEN q[i] ELSE q[i + 1]

\* RemoveAt takes out one element and closes the gap.
LEMMA RemoveAtFacts ==
  ASSUME NEW S, NEW q \in Seq(S), NEW n \in Nat, n = Len(q), NEW k \in 1 .. n,
         NEW r, r = RemoveAt(q, k)
  PROVE  r \in Seq(S) /\ Len(r) = n - 1 /\ Without(r, q, n, k)
<1> DEFINE a == SubSeq(q, 1, k - 1)
           b == SubSeq(q, k + 1, n)
           l == k - 1
           m == n - k
<1>1. l \in Nat /\ m \in Nat /\ l + m = n - 1 /\ k = l + 1
  OBVIOUS
<1>2. \A i \in 1 .. n : q[i] \in S
  OBVIOUS
<1>3. a \in Seq(S) /\ l = Len(a) /\ \A i \in 1 .. l : a[i] = q[i]
  <2>1. \A i \in 1 .. k - 1 : q[i] \in S
    BY <1>2
  <2> QED BY <2>1, SubSeqProperties
<1>4. b \in Seq(S) /\ m = Len(b) /\ \A i \in 1 .. m : b[i] = q[k + i]
  <2>1. \A i \in k + 1 .. n : q[i] \in S
    BY <1>2
  <2>2. k + 1 \in Int /\ n \in Int
    OBVIOUS
  <2>3. b \in Seq(S) /\ Len(b) = (IF k + 1 <= n THEN n - (k + 1) + 1 ELSE 0)
        /\ \A i \in 1 .. n - (k + 1) + 1 : b[i] = q[(k + 1) + i - 1]
    BY <2>1, <2>2, SubSeqProperties
  <2> QED BY <2>3
<1>5. r = a \o b
  BY DEF RemoveAt
<1> HIDE DEF a, b, l, m
<1>6. r \in Seq(S) /\ l + m = Len(r) /\ (\A i \in 1 .. l : r[i] = a[i]) /\ \A i \in 1 .. m : r[l + i] = b[i]
  <2>1. a \in Seq(S) /\ b \in Seq(S) /\ l \in Nat /\ m \in Nat /\ l = Len(a) /\ m = Len(b)
    BY <1>1, <1>3, <1>4
  <2> QED BY <1>5, <2>1, ConcatAt
<1>7. ASSUME NEW i \in 1 .. n - 1 PROVE r[i] = IF i < k THEN q[i] ELSE q[i + 1]
  <2>1. CASE i < k
    BY <1>1, <1>3, <1>6, <2>1
  <2>2. CASE ~(i < k)
    <3>1. PICK j \in 1 .. m : i = l + j
      <4>1. i - l \in 1 .. m /\ i = l + (i - l)
        BY <1>1, <2>2
      <4> QED BY <4>1
    <3>2. r[i] = q[k + j]
      BY <1>4, <1>6, <3>1
    <3>3. k + j = i + 1
      BY <1>1, <3>1
    <3> QED BY <2>2, <3>2, <3>3
  <2> QED BY <2>1, <2>2
<1> QED BY <1>1, <1>6, <1>7 DEF Without

-----------------------------------------------------------------------------
Handler == {"none", "called", "pushing", "waiting", "released", "returned"}

\* The types of the variables; the loop stands at a keeper or behind them
\* all, and has a trade to send while it runs.
FeedTyped ==
  /\ keepers \in Seq(Client)
  /\ handler \in [Client -> Handler]
  /\ connected \in [Client -> BOOLEAN]
  /\ received \in [Client -> Seq(Nat)]
  /\ joined \in [Client -> Nat]
  /\ made \in Nat
  /\ trade_list \in Seq(Nat) /\ Len(trade_list) <= made
  /\ it \in 0 .. Len(keepers) + 1
  /\ it # 0 => trade_list # <<>>
  /\ erasing \in BOOLEAN
  /\ broken \in BOOLEAN

\* The trades still to be sent are the latest ones.
LatestTrades == \A i \in 1 .. Len(trade_list) : trade_list[i] = made - Len(trade_list) + i

KeepersDistinct == \A p, q \in DOMAIN keepers : keepers[p] = keepers[q] => p = q

\* A client has read nothing before it is a keeper.
NothingYet == \A c \in Client : handler[c] \in {"none", "called", "pushing"} => received[c] = <<>>

JoinedBefore == \A p \in DOMAIN keepers : joined[keepers[p]] <= made - Len(trade_list)

\* Between set_value and erase the loop stands at the keeper whose call has
\* been told to return.
Released == erasing => it \in DOMAIN keepers /\ handler[keepers[it]] \in {"released", "returned"}

FeedInv ==
  /\ FeedTyped /\ LatestTrades /\ KeepersDistinct /\ NothingYet /\ JoinedBefore
  /\ Released /\ WritersAlive /\ FeedComplete

LEMMA FeedInit == Init => FeedInv
<1> SUFFICES ASSUME Init PROVE FeedInv
  OBVIOUS
<1>1. keepers = <<>> /\ DOMAIN keepers = {} /\ Len(keepers) = 0 /\ trade_list = <<>> /\ Len(trade_list) = 0
  BY EmptySeq DEF Init
<1>2. FeedTyped
  <2>1. keepers \in Seq(Client) /\ trade_list \in Seq(Nat) /\ received \in [Client -> Seq(Nat)]
    BY <1>1 DEF Init
  <2>2. handler \in [Client -> Handler] /\ connected \in [Client -> BOOLEAN] /\ joined \in [Client -> Nat]
    BY DEF Init, Handler
  <2>3. made = 0 /\ it = 0 /\ broken = FALSE /\ erasing = FALSE
    BY DEF Init
  <2>4. Len(trade_list) <= made /\ it \in 0 .. Len(keepers) + 1
    BY <1>1, <2>3
  <2> QED BY <2>1, <2>2, <2>3, <2>4 DEF FeedTyped
<1> QED BY <1>1, <1>2 DEF Init, FeedInv, LatestTrades, KeepersDistinct, NothingYet, JoinedBefore, Released,
       WritersAlive, FeedComplete

\* The call of a keeper has come to wait, and may have been told to return.
LEMMA KeeperHandlers ==
  ASSUME FeedInv
  PROVE  \A p \in DOMAIN keepers :
           keepers[p] \in Client /\ handler[keepers[p]] \in {"waiting", "released", "returned"}
<1> QED BY DEF FeedInv, FeedTyped, WritersAlive, Released

\* Steps of the clients that leave the loop, the keepers and what has been
\* read alone.
LEMMA FeedClientStep ==
  ASSUME FeedInv, NEW c \in Client, NEW h \in Handler, handler' = [handler EXCEPT ![c] = h],
         handler[c] # "waiting", h # "waiting",
         handler[c] \in {"none", "called", "pushing"} \/ h = "returned",
         connected' \in [Client -> BOOLEAN],
         \A d \in Client : connected'[d] => connected[d] \/ (d = c /\ handler[c] = "none"),
         UNCHANGED <<keepers, trade_list, it, erasing, made, broken, received, joined>>
  PROVE  FeedInv'
<1>1. FeedTyped'
  BY DEF FeedInv, FeedTyped
<1>2. handler \in [Client -> Handler]
  BY DEF FeedInv, FeedTyped
<1>3. (\A d \in Client : d # c => handler'[d] = handler[d]) /\ handler'[c] = h
  BY <1>2
<1>4. \A p \in DOMAIN keepers :
        keepers[p] \in Client /\ handler[keepers[p]] \in {"waiting", "released", "returned"}
  BY KeeperHandlers
<1>5. WritersAlive'
  BY <1>3, <1>4 DEF FeedInv, WritersAlive
<1>6. NothingYet'
  BY <1>3 DEF FeedInv, NothingYet
<1>7. FeedComplete'
  <2>1. \A p \in DOMAIN keepers : connected'[keepers[p]] => connected[keepers[p]]
    BY <1>4
  <2> QED BY <2>1 DEF FeedInv, FeedComplete, Due
<1>8. LatestTrades' /\ KeepersDistinct' /\ JoinedBefore'
  BY DEF FeedInv, LatestTrades, KeepersDistinct, JoinedBefore
<1>9. Released'
  <2>1. SUFFICES ASSUME erasing
                 PROVE  it \in DOMAIN keepers /\ handler'[keepers[it]] \in {"released", "returned"}
    BY DEF Released
  <2>2. it \in DOMAIN keepers /\ handler[keepers[it]] \in {"released", "returned"}
    BY <2>1 DEF FeedInv, Released
  <2> QED BY <1>3, <1>4, <2>2
<1> QED BY <1>1, <1>5, <1>6, <1>7, <1>8, <1>9 DEF FeedInv

LEMMA FeedSubscribe == ASSUME NEW c \in Client, Subscribe(c), FeedInv PROVE FeedInv'
<1>1. connected \in [Client -> BOOLEAN]
  BY DEF FeedInv, FeedTyped
<1>2. "called" \in Handler /\ handler[c] = "none" /\ handler' = [handler EXCEPT ![c] = "called"]
      /\ connected' = [connected EXCEPT ![c] = TRUE]
      /\ UNCHANGED <<keepers, trade_list, it, erasing, made, broken, received, joined>>
  BY DEF Subscribe, sender, Handler
<1>3. /\ connected' \in [Client -> BOOLEAN]
      /\ \A d \in Client : connected'[d] => connected[d] \/ (d = c /\ handler[c] = "none")
  BY <1>1, <1>2
<1> QED BY <1>2, <1>3, FeedClientStep

LEMMA FeedStartPush == ASSUME NEW c \in Client, StartPush(c), FeedInv PROVE FeedInv'
<1>1. connected \in [Client -> BOOLEAN]
  BY DEF FeedInv, FeedTyped
<1>2. "pushing" \in Handler /\ handler[c] = "called" /\ handler' = [handler EXCEPT ![c] = "pushing"]
      /\ UNCHANGED <<connected, keepers, trade_list, it, erasing, made, broken, received, joined>>
  BY DEF StartPush, sender, Handler
<1> QED BY <1>1, <1>2, FeedClientStep

LEMMA FeedReturn == ASSUME NEW c \in Client, Return(c), FeedInv PROVE FeedInv'
<1>1. connected \in [Client -> BOOLEAN]
  BY DEF FeedInv, FeedTyped
<1>2. "returned" \in Handler /\ handler[c] = "released" /\ handler' = [handler EXCEPT ![c] = "returned"]
      /\ UNCHANGED <<connected, keepers, trade_list, it, erasing, made, broken, received, joined>>
  BY DEF Return, sender, Handler
<1> QED BY <1>1, <1>2, FeedClientStep

\* Steps of the clients that only end streams or stop reading them.
LEMMA FeedStreamStep ==
  ASSUME FeedInv, connected' \in [Client -> BOOLEAN], \A d \in Client : connected'[d] => connected[d],
         UNCHANGED <<handler, keepers, trade_list, it, erasing, made, broken, received, joined>>
  PROVE  FeedInv'
<1>1. FeedTyped'
  BY DEF FeedInv, FeedTyped
<1>2. \A p \in DOMAIN keepers : keepers[p] \in Client
  BY DEF FeedInv, FeedTyped
<1>3. FeedComplete'
  BY <1>2 DEF FeedInv, FeedComplete, Due
<1>4. LatestTrades' /\ KeepersDistinct' /\ NothingYet' /\ JoinedBefore' /\ Released' /\ WritersAlive'
  BY DEF FeedInv, LatestTrades, KeepersDistinct, NothingYet, JoinedBefore, Released, WritersAlive
<1> QED BY <1>1, <1>3, <1>4 DEF FeedInv

LEMMA FeedStream ==
  ASSUME NEW c \in Client, Disconnect(c) \/ Stall(c) \/ Resume(c), FeedInv
  PROVE  FeedInv'
<1>1. connected \in [Client -> BOOLEAN]
  BY DEF FeedInv, FeedTyped
<1>2. connected' = connected \/ connected' = [connected EXCEPT ![c] = FALSE]
  BY DEF Disconnect, Stall, Resume
<1>3. UNCHANGED <<handler, keepers, trade_list, it, erasing, made, broken, received, joined>>
  BY DEF Disconnect, Stall, Resume, sender
<1>4. connected' \in [Client -> BOOLEAN] /\ \A d \in Client : connected'[d] => connected[d]
  BY <1>1, <1>2
<1> QED BY <1>3, <1>4, FeedStreamStep

\* A new keeper has joined after all trades that have been sent; the loop,
\* which has not reached it, sends it the trade it is at.
LEMMA FeedFinishPush == ASSUME NEW c \in Client, FinishPush(c), FeedInv PROVE FeedInv'
<1> DEFINE n == Len(keepers)
<1>1. /\ ~broken /\ handler[c] = "pushing"
      /\ keepers' = Append(keepers, c)
      /\ handler' = [handler EXCEPT ![c] = "waiting"]
      /\ joined' = [joined EXCEPT ![c] = made - Len(trade_list)]
      /\ UNCHANGED <<trade_list, it, erasing, made, connected, received>>
      /\ broken' \in BOOLEAN
  BY DEF FinishPush, sender
<1>2. /\ keepers \in Seq(Client) /\ n \in Nat /\ DOMAIN keepers = 1 .. n
      /\ handler \in [Client -> Handler] /\ joined \in [Client -> Nat]
      /\ made \in Nat /\ trade_list \in Seq(Nat) /\ Len(trade_list) \in Nat /\ Len(trade_list) <= made
      /\ it \in 0 .. n + 1
  BY DEF FeedInv, FeedTyped
<1>3. made - Len(trade_list) \in Nat
  BY <1>2
<1>4. /\ keepers' \in Seq(Client) /\ Len(keepers') = n + 1 /\ DOMAIN keepers' = 1 .. n + 1
      /\ keepers'[n + 1] = c /\ \A p \in 1 .. n : keepers'[p] = keepers[p]
  BY <1>1, <1>2
<1> HIDE DEF n
<1>5. \A p \in 1 .. n : keepers[p] \in Client /\ keepers[p] # c
  BY <1>1, <1>2, KeeperHandlers
<1>6. /\ \A d \in Client : d # c => handler'[d] = handler[d] /\ joined'[d] = joined[d]
      /\ handler'[c] = "waiting" /\ joined'[c] = made - Len(trade_list)
  BY <1>1, <1>2
<1>7. FeedTyped'
  <2>1. handler' \in [Client -> Handler] /\ joined' \in [Client -> Nat]
    BY <1>1, <1>2, <1>3 DEF Handler
  <2>2. it' \in 0 .. Len(keepers') + 1
    BY <1>1, <1>2, <1>4
  <2> QED BY <1>1, <1>4, <2>1, <2>2 DEF FeedInv, FeedTyped
<1>8. LatestTrades'
  BY <1>1 DEF FeedInv, LatestTrades
<1>9. KeepersDistinct'
  <2>1. SUFFICES ASSUME NEW p \in 1 .. n + 1, NEW q \in 1 .. n + 1, keepers'[p] = keepers'[q]
                 PROVE  p = q
    BY <1>4 DEF KeepersDistinct
  <2>2. (p \in 1 .. n \/ p = n + 1) /\ (q \in 1 .. n \/ q = n + 1)
    BY <1>2
  <2> QED BY <1>2, <1>4, <1>5, <2>1, <2>2 DEF FeedInv, KeepersDistinct
<1>10. NothingYet'
  BY <1>1, <1>6 DEF FeedInv, NothingYet
<1>11. \A p \in 1 .. n + 1 : p \in 1 .. n \/ p = n + 1
  BY <1>2
<1>12. JoinedBefore'
  <2>1. \A p \in 1 .. n : joined[keepers[p]] <= made - Len(trade_list)
    BY <1>2 DEF FeedInv, JoinedBefore
  <2>2. ASSUME NEW p \in 1 .. n + 1 PROVE joined'[keepers'[p]] <= made - Len(trade_list)
    <3>1. CASE p \in 1 .. n
      BY <1>4, <1>5, <1>6, <2>1, <3>1
    <3>2. CASE p = n + 1
      BY <1>3, <1>4, <1>6, <3>2
    <3> QED BY <1>11, <3>1, <3>2
  <2> QED BY <1>1, <1>4, <2>2 DEF JoinedBefore
<1>13. WritersAlive'
  BY <1>1, <1>2, <1>4, <1>5, <1>6, <1>11 DEF FeedInv, WritersAlive
<1>14. Released'
  <2>1. 1 .. n \subseteq 1 .. n + 1
    BY <1>2
  <2> QED BY <1>1, <1>2, <1>4, <1>5, <1>6, <2>1 DEF FeedInv, Released
<1>15. FeedComplete'
  <2>1. SUFFICES ASSUME NEW p \in 1 .. n + 1, connected[keepers'[p]]
                 PROVE  received[keepers'[p]] = [i \in 1 .. Due(p)' |-> joined'[keepers'[p]] + i]
    BY <1>1, <1>4 DEF FeedComplete
  <2>2. CASE p \in 1 .. n
    <3>1. Due(p)' = Due(p)
      BY <1>1, <1>4, <1>5, <1>6, <2>2 DEF Due
    <3>2. /\ keepers'[p] = keepers[p] /\ joined'[keepers[p]] = joined[keepers[p]]
          /\ connected[keepers[p]]
      BY <1>4, <1>5, <1>6, <2>1, <2>2
    <3>3. received[keepers[p]] = [i \in 1 .. Due(p) |-> joined[keepers[p]] + i]
      BY <1>1, <1>2, <2>2, <3>2 DEF FeedInv, FeedComplete
    <3> HIDE DEF Due
    <3> QED BY <3>1, <3>2, <3>3
  <2>3. CASE p = n + 1
    <3>1. ~(p < it)
      BY <1>2, <2>3
    <3>2. Due(p)' = 0
      BY <1>1, <1>3, <1>4, <1>6, <2>3, <3>1 DEF Due
    <3>3. received[c] = <<>>
      BY <1>1 DEF FeedInv, NothingYet
    <3>4. [i \in 1 .. 0 |-> joined'[keepers'[p]] + i] = <<>>
      BY EmptySeq
    <3> QED BY <1>4, <2>3, <3>2, <3>3, <3>4
  <2> QED BY <1>11, <2>2, <2>3
<1> QED BY <1>7, <1>8, <1>9, <1>10, <1>12, <1>13, <1>14, <1>15 DEF FeedInv

\* While keepers and clients stay, what is due is a matter of the position.
LEMMA FeedLoopStep ==
  ASSUME FeedInv, UNCHANGED <<keepers, handler, connected, received, joined>>,
         broken' = broken, erasing' = erasing, erasing => it' = it,
         \A p \in DOMAIN keepers : Due(p)' = Due(p)
  PROVE  KeepersDistinct' /\ NothingYet' /\ Released' /\ WritersAlive' /\ FeedComplete'
<1>1. KeepersDistinct' /\ NothingYet' /\ Released' /\ WritersAlive'
  BY DEF FeedInv, KeepersDistinct, NothingYet, Released, WritersAlive
<1>2. FeedComplete'
  BY DEF FeedInv, FeedComplete
<1> QED BY <1>1, <1>2

LEMMA FeedReceiveTradeList == ASSUME ReceiveTradeList, FeedInv PROVE FeedInv'
<1>1. PICK n \in 1 .. 2 : trade_list' = [i \in 1 .. n |-> made + i] /\ made' = made + n
  BY DEF ReceiveTradeList
<1>2. /\ trade_list = <<>> /\ it' = 0
      /\ UNCHANGED <<keepers, handler, connected, joined, erasing, broken, received>>
  BY DEF ReceiveTradeList, clients
<1>3. made \in Nat /\ it = 0 /\ joined \in [Client -> Nat] /\ keepers \in Seq(Client)
  BY <1>2 DEF FeedInv, FeedTyped
<1>4. Len(trade_list) = 0
  BY <1>2, EmptySeq
<1>5. trade_list' \in Seq(Nat) /\ Len(trade_list') = n /\ n \in Nat /\ trade_list' # <<>>
  <2>1. \A i \in 1 .. n : made + i \in Nat
    BY <1>3
  <2>2. n \in Nat /\ n > 0
    OBVIOUS
  <2> QED BY <1>1, <2>1, <2>2
<1>6. made' - Len(trade_list') = made - Len(trade_list)
  BY <1>1, <1>3, <1>4, <1>5
<1>7. FeedTyped'
  <2>1. made' \in Nat /\ Len(trade_list') <= made' /\ it' \in 0 .. Len(keepers) + 1
    BY <1>1, <1>2, <1>3, <1>5
  <2> QED BY <1>2, <1>5, <2>1 DEF FeedInv, FeedTyped
<1>8. LatestTrades'
  <2>1. ASSUME NEW i \in 1 .. n PROVE trade_list'[i] = made' - n + i
    <3>1. trade_list'[i] = made + i
      BY <1>1
    <3> QED BY <1>1, <1>3, <3>1
  <2> QED BY <1>5, <2>1 DEF LatestTrades
<1>9. JoinedBefore'
  BY <1>2, <1>6 DEF FeedInv, JoinedBefore
<1>10. \A p \in DOMAIN keepers : Due(p)' = Due(p)
  BY <1>2, <1>3, <1>6 DEF Due
<1> QED BY <1>2, <1>3, <1>7, <1>8, <1>9, <1>10, FeedLoopStep DEF FeedInv

LEMMA FeedStartLoop == ASSUME StartLoop, FeedInv PROVE FeedInv'
<1>1. /\ trade_list # <<>> /\ it = 0 /\ it' = 1
      /\ UNCHANGED <<keepers, trade_list, made, erasing, handler, connected, joined, broken, received>>
  BY DEF StartLoop, clients
<1>2. keepers \in Seq(Client)
  BY DEF FeedInv, FeedTyped
<1>3. FeedTyped'
  <2>1. 1 \in 0 .. Len(keepers) + 1
    BY <1>2
  <2> QED BY <1>1, <2>1 DEF FeedInv, FeedTyped
<1>4. LatestTrades' /\ JoinedBefore'
  BY <1>1 DEF FeedInv, LatestTrades, JoinedBefore
<1>5. \A p \in DOMAIN keepers : Due(p)' = Due(p)
  <2>1. \A p \in DOMAIN keepers : ~(p < 0) /\ ~(p < 1)
    BY <1>2
  <2> QED BY <1>1, <2>1 DEF Due
<1>6. ~erasing
  BY <1>1, <1>2 DEF FeedInv, Released
<1> QED BY <1>1, <1>3, <1>4, <1>5, <1>6, FeedLoopStep DEF FeedInv

\* The loop is behind all keepers: the trade at hand has been sent to each.
LEMMA FeedEndLoop == ASSUME EndLoop, FeedInv PROVE FeedInv'
<1> DEFINE l == Len(trade_list)
<1>1. /\ trade_list # <<>> /\ it > Len(keepers) /\ trade_list' = Tail(trade_list) /\ it' = 0
      /\ UNCHANGED <<keepers, made, erasing, handler, connected, joined, broken, received>>
  BY DEF EndLoop, clients
<1>2. keepers \in Seq(Client) /\ trade_list \in Seq(Nat) /\ made \in Nat /\ l <= made /\ joined \in [Client -> Nat]
      /\ it \in Nat
  BY DEF FeedInv, FeedTyped
<1>3. /\ l \in Nat \ {0} /\ trade_list' \in Seq(Nat) /\ Len(trade_list') = l - 1
      /\ \A i \in 1 .. l - 1 : trade_list'[i] = trade_list[i + 1]
  BY <1>1, <1>2
<1>4. DOMAIN keepers = 1 .. Len(keepers) /\ \A p \in DOMAIN keepers : keepers[p] \in Client
  BY <1>2
<1>5. FeedTyped'
  <2>1. Len(trade_list') <= made /\ 0 \in 0 .. Len(keepers) + 1
    BY <1>2, <1>3
  <2> QED BY <1>1, <1>3, <2>1 DEF FeedInv, FeedTyped
<1>6. LatestTrades'
  <2>1. \A i \in 1 .. l : trade_list[i] = made - l + i
    BY DEF FeedInv, LatestTrades
  <2> HIDE DEF l
  <2>2. ASSUME NEW i \in 1 .. l - 1 PROVE trade_list'[i] = made - (l - 1) + i
    <3>1. trade_list'[i] = made - l + (i + 1)
      BY <1>3, <2>1
    <3> QED BY <1>2, <1>3, <3>1
  <2> QED BY <1>1, <1>3, <2>2 DEF LatestTrades
<1>7. JoinedBefore'
  <2>1. ASSUME NEW p \in DOMAIN keepers PROVE joined[keepers[p]] <= made - (l - 1)
    <3>1. joined[keepers[p]] <= made - l /\ joined[keepers[p]] \in Nat
      BY <1>2, <1>4 DEF FeedInv, JoinedBefore
    <3> HIDE DEF l
    <3> QED BY <1>2, <1>3, <3>1
  <2> QED BY <1>1, <1>3, <2>1 DEF JoinedBefore
<1>8. \A p \in DOMAIN keepers : Due(p)' = Due(p)
  <2>1. SUFFICES ASSUME NEW p \in DOMAIN keepers PROVE Due(p)' = Due(p)
    OBVIOUS
  <2>2. p < it /\ ~(p < 0) /\ joined[keepers[p]] \in Nat
    BY <1>1, <1>2, <1>4
  <2>3. Due(p) = made - l + 1 - joined[keepers[p]]
    BY <2>2 DEF Due
  <2>4. Due(p)' = made - (l - 1) + 0 - joined[keepers[p]]
    BY <1>1, <1>3, <2>2 DEF Due
  <2>5. \A j \in Nat : made - l + 1 - j = made - (l - 1) + 0 - j
    <3>1. made \in Nat /\ l \in Nat
      BY <1>2, <1>3
    <3> HIDE DEF l
    <3> QED BY <3>1
  <2> QED BY <2>2, <2>3, <2>4, <2>5
<1>9. ~erasing
  <2>1. it \notin DOMAIN keepers
    BY <1>1, <1>2, <1>4
  <2> QED BY <2>1 DEF FeedInv, Released
<1> QED BY <1>1, <1>5, <1>6, <1>7, <1>8, <1>9, FeedLoopStep DEF FeedInv

\* What a write finds: a keeper whose call waits, and the trade that is due.
WriteFinds(c, x) ==
  /\ it \in 1 .. Len(keepers) /\ c = keepers[it] /\ c \in Client /\ handler[c] = "waiting"
  /\ x = Head(trade_list) /\ x = made - Len(trade_list) + 1 /\ x \in Nat

LEMMA WriteFindsIt ==
  ASSUME FeedInv, trade_list # <<>>, it \in DOMAIN keepers, ~erasing
  PROVE  WriteFinds(keepers[it], Head(trade_list))
<1>1. keepers \in Seq(Client) /\ trade_list \in Seq(Nat)
  BY DEF FeedInv, FeedTyped
<1>2. it \in 1 .. Len(keepers) /\ keepers[it] \in Client
  BY <1>1
<1>3. handler[keepers[it]] = "waiting"
  BY DEF FeedInv, WritersAlive
<1>4. Len(trade_list) \in Nat \ {0} /\ Head(trade_list) = trade_list[1] /\ trade_list[1] \in Nat
  BY <1>1, NonEmptySeq
<1>5. trade_list[1] = made - Len(trade_list) + 1
  BY <1>4 DEF FeedInv, LatestTrades
<1> QED BY <1>2, <1>3, <1>4, <1>5 DEF WriteFinds

\* The positions of the keepers and what is due to them after a write: the
\* one that the loop stood at is due one more.
LEMMA DueAfterWrite ==
  ASSUME FeedInv, NEW c, NEW x, WriteFinds(c, x), it' = it + 1,
         UNCHANGED <<keepers, trade_list, made, joined>>
  PROVE  /\ joined[c] < x
         /\ \A p \in DOMAIN keepers : p = it => Due(p) = x - 1 - joined[c] /\ Due(p)' = x - joined[c]
         /\ \A p \in DOMAIN keepers : p # it => Due(p)' = Due(p)
<1>1. /\ keepers \in Seq(Client) /\ it \in 1 .. Len(keepers) /\ c = keepers[it]
      /\ x = made - Len(trade_list) + 1 /\ made \in Nat /\ Len(trade_list) \in Nat /\ joined[c] \in Nat
      /\ DOMAIN keepers = 1 .. Len(keepers) /\ Len(keepers) \in Nat
  BY DEF FeedInv, FeedTyped, WriteFinds
<1>2. ASSUME NEW p \in DOMAIN keepers, p = it
      PROVE  Due(p) = x - 1 - joined[c] /\ Due(p)' = x - joined[c]
  <2>1. Due(p) = made - Len(trade_list) + 0 - joined[c]
    BY <1>1, <1>2 DEF Due
  <2>2. p < it + 1
    BY <1>1, <1>2
  <2>3. Due(p)' = made - Len(trade_list) + 1 - joined[c]
    BY <1>1, <1>2, <2>2 DEF Due
  <2> QED BY <1>1, <2>1, <2>3
<1>3. joined[c] <= made - Len(trade_list)
  BY <1>1 DEF FeedInv, JoinedBefore
<1>4. ASSUME NEW p \in DOMAIN keepers, p # it PROVE Due(p)' = Due(p)
  <2>1. (p < it + 1) <=> (p < it)
    BY <1>1, <1>4
  <2> QED BY <2>1 DEF Due
<1> QED BY <1>1, <1>2, <1>3, <1>4

\* What is left alone by every write.
WriteLeaves == UNCHANGED <<trade_list, made, connected, joined>>

LEMMA FeedServed ==
  ASSUME FeedInv, NEW c, NEW x, WriteFinds(c, x), WriteLeaves, it' = it + 1,
         received' = IF connected[c] THEN [received EXCEPT ![c] = Append(@, x)] ELSE received,
         UNCHANGED <<keepers, handler, erasing, broken>>, ~erasing, trade_list # <<>>
  PROVE  FeedInv'
<1>1. /\ keepers \in Seq(Client) /\ received \in [Client -> Seq(Nat)] /\ joined \in [Client -> Nat]
      /\ made \in Nat /\ it \in Nat /\ DOMAIN keepers = 1 .. Len(keepers) /\ Len(keepers) \in Nat
  BY DEF FeedInv, FeedTyped
<1>2. /\ it \in 1 .. Len(keepers) /\ c = keepers[it] /\ c \in Client /\ handler[c] = "waiting" /\ x \in Nat
  BY DEF WriteFinds
<1>3. UNCHANGED <<keepers, trade_list, made, connected, joined, handler, broken>>
  BY DEF WriteLeaves
<1>4. /\ received' \in [Client -> Seq(Nat)]
      /\ \A d \in Client : d # c => received'[d] = received[d]
      /\ connected[c] => received'[c] = Append(received[c], x)
  BY <1>1, <1>2
<1>5. FeedTyped'
  <2>1. it' \in 0 .. Len(keepers) + 1
    BY <1>1, <1>2
  <2> QED BY <1>3, <1>4, <2>1 DEF FeedInv, FeedTyped
<1>6. LatestTrades' /\ KeepersDistinct' /\ JoinedBefore' /\ Released' /\ WritersAlive'
  BY <1>3 DEF FeedInv, LatestTrades, KeepersDistinct, JoinedBefore, Released, WritersAlive
<1>7. NothingYet'
  <2>1. handler[c] \notin {"none", "called", "pushing"}
    BY <1>2
  <2> QED BY <1>3, <1>4, <2>1 DEF FeedInv, NothingYet
<1>8. FeedComplete'
  <2>1. SUFFICES ASSUME NEW p \in DOMAIN keepers', ~broken', connected'[keepers'[p]]
                 PROVE  received'[keepers'[p]] = [i \in 1 .. Due(p)' |-> joined'[keepers'[p]] + i]
    BY DEF FeedComplete
  <2>2. p \in DOMAIN keepers /\ received[keepers[p]] = [i \in 1 .. Due(p) |-> joined[keepers[p]] + i]
    BY <1>3, <2>1 DEF FeedInv, FeedComplete
  <2>3. CASE p # it
    <3>1. keepers[p] # c /\ keepers[p] \in Client
      <4>1. p \in DOMAIN keepers /\ it \in DOMAIN keepers
        BY <1>1, <1>2, <2>2
      <4>2. keepers[p] = keepers[it] => p = it
        BY <4>1 DEF FeedInv, KeepersDistinct
      <4>3. keepers[p] \in Client
        BY <1>1, <4>1
      <4> QED BY <1>2, <2>3, <4>2, <4>3
    <3>2. received'[keepers[p]] = received[keepers[p]]
      BY <1>4, <3>1
    <3>3. Due(p)' = Due(p)
      BY <1>3, <2>3, DueAfterWrite
    <3> HIDE DEF Due
    <3> QED BY <1>3, <2>2, <3>2, <3>3
  <2>4. CASE p = it
    <3> DEFINE j == joined[c]
               n == x - 1 - j
    <3>1. keepers[p] = c /\ Due(p) = n /\ Due(p)' = x - j /\ j < x
      BY <1>2, <1>3, <2>4, DueAfterWrite
    <3>2. j \in Nat /\ x \in Nat
      BY <1>1, <1>2
    <3>3. n \in Nat /\ x - j = n + 1 /\ x = j + (n + 1)
      BY <3>1, <3>2
    <3>4. received'[c] = Append(received[c], x) /\ received[c] = [i \in 1 .. n |-> j + i]
      <4>1. connected[c]
        BY <1>3, <2>1, <3>1
      <4>2. received[c] = [i \in 1 .. n |-> joined[c] + i]
        BY <2>2, <3>1
      <4> QED BY <1>4, <4>1, <4>2
    <3> HIDE DEF j, n
    <3>5. Append([i \in 1 .. n |-> j + i], j + (n + 1)) = [i \in 1 .. n + 1 |-> j + i]
      BY <3>2, <3>3
    <3>6. received'[c] = [i \in 1 .. n + 1 |-> j + i]
      BY <3>3, <3>4, <3>5
    <3> QED BY <1>3, <3>1, <3>3, <3>6 DEF j
  <2> QED BY <2>3, <2>4
<1> QED BY <1>5, <1>6, <1>7, <1>8 DEF FeedInv

\* A write has failed: the call of the keeper at which the loop stands is told
\* to return.
LEMMA FeedFailed ==
  ASSUME FeedInv, NEW c, NEW x, WriteFinds(c, x), WriteLeaves, WriteFails(c),
         UNCHANGED <<keepers, broken>>
  PROVE  FeedInv'
<1>1. handler \in [Client -> Handler] /\ it \in DOMAIN keepers /\ c = keepers[it] /\ c \in Client
      /\ handler[c] = "waiting"
  BY DEF FeedInv, FeedTyped, WriteFinds
<1>2. /\ handler' = [handler EXCEPT ![c] = "released"] /\ erasing' = TRUE
      /\ UNCHANGED <<keepers, trade_list, made, connected, joined, received, it, broken>>
  BY DEF WriteLeaves, WriteFails
<1>3. handler'[c] = "released" /\ \A d \in Client : d # c => handler'[d] = handler[d]
  BY <1>1, <1>2
<1>4. FeedTyped'
  <2>1. handler' \in [Client -> Handler]
    BY <1>1, <1>2 DEF Handler
  <2> QED BY <1>2, <2>1 DEF FeedInv, FeedTyped
<1>5. LatestTrades' /\ KeepersDistinct' /\ JoinedBefore'
  BY <1>2 DEF FeedInv, LatestTrades, KeepersDistinct, JoinedBefore
<1>6. NothingYet'
  BY <1>2, <1>3 DEF FeedInv, NothingYet
<1>7. Released'
  BY <1>1, <1>2, <1>3 DEF Released
<1>8. WritersAlive'
  <2>1. SUFFICES ASSUME NEW p \in DOMAIN keepers, p # it PROVE handler'[keepers[p]] = "waiting"
    BY <1>2 DEF WritersAlive
  <2>2. keepers[p] # c /\ keepers[p] \in Client
    BY <1>1, <2>1 DEF FeedInv, FeedTyped, KeepersDistinct
  <2> QED BY <1>3, <2>1, <2>2 DEF FeedInv, WritersAlive
<1>9. FeedComplete'
  BY <1>2 DEF FeedInv, FeedComplete, Due
<1> QED BY <1>4, <1>5, <1>6, <1>7, <1>8, <1>9 DEF FeedInv

\* The keeper at which the loop stands is erased: those behind it move up one
\* place, the next one to where the loop stands.
LEMMA FeedEraseKeeper == ASSUME EraseKeeper, FeedInv PROVE FeedInv'
<1> DEFINE n == Len(keepers)
           From(p) == IF p < it THEN p ELSE p + 1
           c == keepers[it]
<1>1. /\ keepers \in Seq(Client) /\ received \in [Client -> Seq(Nat)] /\ joined \in [Client -> Nat]
      /\ made \in Nat /\ DOMAIN keepers = 1 .. n /\ n \in Nat
      /\ Len(trade_list) \in Nat /\ handler \in [Client -> Handler]
  BY DEF FeedInv, FeedTyped
<1>2. it \in 1 .. n /\ c = keepers[it] /\ c \in Client
  BY <1>1 DEF EraseKeeper, FeedInv, Released
<1>3. /\ UNCHANGED <<trade_list, made, connected, joined, received, it, handler>>
      /\ keepers' = RemoveAt(keepers, it) /\ ~broken /\ broken' \in BOOLEAN
      /\ erasing /\ erasing' = FALSE
  BY DEF EraseKeeper, clients, Pushing
<1>4. /\ keepers' \in Seq(Client) /\ Len(keepers') = n - 1 /\ DOMAIN keepers' = 1 .. n - 1
      /\ \A p \in 1 .. n - 1 : keepers'[p] = IF p < it THEN keepers[p] ELSE keepers[p + 1]
  <2>1. n = Len(keepers)
    OBVIOUS
  <2>2. keepers' \in Seq(Client) /\ Len(keepers') = n - 1
        /\ \A p \in 1 .. n - 1 : keepers'[p] = IF p < it THEN keepers[p] ELSE keepers[p + 1]
    <3>1. keepers \in Seq(Client) /\ n \in Nat /\ it \in 1 .. n /\ keepers' = RemoveAt(keepers, it)
      BY <1>1, <1>2, <1>3
    <3> HIDE DEF n
    <3>2. keepers' \in Seq(Client) /\ Len(keepers') = n - 1 /\ Without(keepers', keepers, n, it)
      BY <2>1, <3>1, RemoveAtFacts
    <3> QED BY <3>2 DEF Without
  <2>3. DOMAIN keepers' = 1 .. Len(keepers')
    BY <2>2
  <2> QED BY <2>2, <2>3
<1> HIDE DEF n, c
<1>5. /\ \A p \in 1 .. n - 1 : From(p) \in 1 .. n /\ From(p) # it /\ keepers'[p] = keepers[From(p)]
      /\ \A p, q \in 1 .. n - 1 : From(p) = From(q) => p = q
      /\ \A p \in 1 .. n - 1 : p < it <=> From(p) < it
  <2>1. n \in Nat /\ it \in 1 .. n
    BY <1>1, <1>2
  <2>2. \A p \in 1 .. n - 1 : From(p) \in 1 .. n /\ From(p) # it /\ (p < it <=> From(p) < it)
    BY <2>1
  <2>3. \A p \in 1 .. n - 1 : keepers'[p] = keepers[From(p)]
    BY <1>4
  <2>4. \A p, q \in 1 .. n - 1 : From(p) = From(q) => p = q
    BY <2>1
  <2> QED BY <2>2, <2>3, <2>4
<1> HIDE DEF From
<1>6. \A p \in 1 .. n - 1 : keepers[From(p)] \in Client /\ keepers[From(p)] # c
  <2>1. \A p \in 1 .. n : keepers[p] \in Client
    BY <1>1 DEF n
  <2>2. \A p \in 1 .. n : keepers[p] = keepers[it] => p = it
    BY <1>1, <1>2 DEF FeedInv, KeepersDistinct
  <2> QED BY <1>2, <1>5, <2>1, <2>2
<1>7. Released'
  BY <1>3 DEF Released
<1>8. FeedTyped'
  <2>1. it' \in 0 .. Len(keepers') + 1
    BY <1>1, <1>2, <1>3, <1>4
  <2> QED BY <1>3, <1>4, <2>1 DEF FeedInv, FeedTyped
<1>9. LatestTrades'
  BY <1>3 DEF FeedInv, LatestTrades
<1>10. KeepersDistinct'
  BY <1>1, <1>4, <1>5 DEF FeedInv, KeepersDistinct
<1>11. NothingYet'
  BY <1>3 DEF FeedInv, NothingYet
<1>12. JoinedBefore'
  BY <1>1, <1>3, <1>4, <1>5 DEF FeedInv, JoinedBefore
<1>13. WritersAlive'
  <2>1. ASSUME NEW p \in 1 .. n - 1 PROVE handler[keepers'[p]] = "waiting"
    <3>1. From(p) \in DOMAIN keepers /\ From(p) # it /\ keepers'[p] = keepers[From(p)]
      BY <1>1, <1>5
    <3> QED BY <3>1 DEF FeedInv, WritersAlive
  <2> QED BY <1>3, <1>4, <2>1 DEF WritersAlive
<1>14. FeedComplete'
  <2>1. SUFFICES ASSUME NEW p \in 1 .. n - 1, connected[keepers'[p]]
                 PROVE  received[keepers'[p]] = [i \in 1 .. Due(p)' |-> joined'[keepers'[p]] + i]
    BY <1>3, <1>4 DEF FeedComplete
  <2> DEFINE q == From(p)
  <2>2. q \in 1 .. n /\ keepers'[p] = keepers[q] /\ (p < it <=> q < it)
    BY <1>5
  <2> HIDE DEF q
  <2>3. received[keepers[q]] = [i \in 1 .. Due(q) |-> joined[keepers[q]] + i]
    BY <1>1, <1>3, <2>1, <2>2 DEF FeedInv, FeedComplete
  <2>4. Due(p)' = Due(q)
    BY <1>3, <2>2 DEF Due
  <2> HIDE DEF Due
  <2> QED BY <1>3, <2>2, <2>3, <2>4
<1> QED BY <1>7, <1>8, <1>9, <1>10, <1>11, <1>12, <1>13, <1>14 DEF FeedInv

LEMMA FeedWrite == ASSUME WriteTrade \/ WriteBuffered, FeedInv PROVE FeedInv'
<1> DEFINE c == keepers[it]
           x == Head(trade_list)
<1>1. /\ AtKeeper /\ WriteLeaves /\ UNCHANGED <<keepers, broken>>
      /\ Written(c) \/ WriteFails(c)
  BY DEF WriteTrade, WriteBuffered, WriteLeaves
<1>2. trade_list # <<>> /\ it \in DOMAIN keepers /\ ~erasing
  BY <1>1 DEF AtKeeper
<1>3. WriteFinds(c, x)
  BY <1>2, WriteFindsIt
<1> HIDE DEF c
<1>4. CASE WriteFails(c)
  BY <1>1, <1>3, <1>4, FeedFailed
<1>5. CASE Written(c)
  <2>1. /\ received' = IF connected[c] THEN [received EXCEPT ![c] = Append(@, x)] ELSE received
        /\ it' = it + 1
        /\ UNCHANGED <<handler, erasing>>
    BY <1>5 DEF Written
  <2> HIDE DEF x
  <2> QED BY <1>1, <1>2, <1>3, <2>1, FeedServed
<1> QED BY <1>1, <1>4, <1>5

LEMMA FeedUnchanged == ASSUME UNCHANGED vars, FeedInv PROVE FeedInv'
<1>1. UNCHANGED <<keepers, handler, connected, trade_list, it, erasing, made, broken, received, joined>>
  BY DEF vars, sender, clients
<1>2. \A p \in DOMAIN keepers : Due(p)' = Due(p)
  BY <1>1 DEF Due
<1>3. FeedTyped' /\ LatestTrades' /\ JoinedBefore'
  BY <1>1 DEF FeedInv, FeedTyped, LatestTrades, JoinedBefore
<1> QED BY <1>1, <1>2, <1>3, FeedLoopStep DEF FeedInv

LEMMA FeedStep == ASSUME [Next]_vars, FeedInv PROVE FeedInv'
<1>1. CASE UNCHANGED vars
  BY <1>1, FeedUnchanged
<1>2. CASE ReceiveTradeList \/ SendMatchResult \/ WriteBuffered
  BY <1>2, FeedReceiveTradeList, FeedStartLoop, FeedWrite, FeedEraseKeeper, FeedEndLoop DEF SendMatchResult
<1>3. ASSUME NEW c \in Client,
             Subscribe(c) \/ StartPush(c) \/ FinishPush(c) \/ Return(c)
             \/ Disconnect(c) \/ Stall(c) \/ Resume(c)
      PROVE  FeedInv'
  BY <1>3, FeedSubscribe, FeedStartPush, FeedFinishPush, FeedReturn, FeedStream
<1> QED BY <1>1, <1>2, <1>3 DEF Next

\* Whatever clients come, stall, go and fail between the steps of the loop
\* over match_result_writer_keepers, it only writes through writers whose call
\* still waits on its promise, and the one call that may have returned before
\* its keeper is erased is that of the keeper it has just set free:
\* WritersAlive, for any number of clients and trades.
THEOREM WritersStayAlive == Spec => []WritersAlive
<1>1. FeedInv => WritersAlive
  BY DEF FeedInv
<1> QED BY FeedInit, FeedStep, <1>1, PTL DEF Spec

\* As long as the iterator of SendMatchResult has not been invalidated, the
\* stream of each connected subscriber holds every trade since it joined once
\* and in order, though keepers are added behind the loop and erased under it.
THEOREM NothingMissed == Spec => []FeedComplete
<1>1. FeedInv => FeedComplete
  BY DEF FeedInv
<1> QED BY FeedInit, FeedStep, <1>1, PTL DEF Spec
=============================================================================
