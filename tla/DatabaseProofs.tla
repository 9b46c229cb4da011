--------------------------- MODULE DatabaseProofs ---------------------------
(***************************************************************************)
(* Proofs about the programs around the database: InfluxWriter, for every  *)
(* size of the buffer and any number of entities, and DatabasePrograms,    *)
(* for any number of orders, threads and order managers.                   *)
(***************************************************************************)
EXTENDS DatabasePrograms, DataLemmas

-----------------------------------------------------------------------------
\* Batch b, of length n, holds the latest n of w entities, in their order.
Latest(b, n, w) ==
  /\ n = Len(b)
  /\ n <= w
  /\ \A i \in 1 .. n : b[i] = w - n + i

\* The entities of such a batch are those after the first w - n.
LEMMA LatestRange ==
  ASSUME NEW w \in Nat, NEW b \in Seq(Nat), NEW n \in Nat, Latest(b, n, w)
  PROVE  Range(b) = (w - n + 1) .. w
<1>1. DOMAIN b = 1 .. n /\ n <= w /\ \A i \in 1 .. n : b[i] = w - n + i
  BY DEF Latest
<1>2. ASSUME NEW x \in Range(b)
      PROVE  x \in (w - n + 1) .. w
  <2>1. PICK i \in 1 .. n : x = b[i]
    BY <1>1 DEF Range
  <2> QED BY <1>1, <2>1
<1>3. ASSUME NEW x \in (w - n + 1) .. w
      PROVE  x \in Range(b)
  <2> DEFINE i == x - (w - n)
  <2>1. i \in 1 .. n /\ x = w - n + i
    BY <1>1
  <2>2. b[i] = x
    BY <1>1, <2>1
  <2> QED BY <1>1, <2>1, <2>2 DEF Range
<1> QED BY <1>2, <1>3

\* One more entity joins the buffer at its end.
LEMMA LatestAppend ==
  ASSUME NEW w \in Nat, NEW b \in Seq(Nat), NEW n \in Nat, Latest(b, n, w),
         NEW r, r = Append(b, w + 1)
  PROVE  r \in Seq(Nat) /\ n + 1 = Len(r) /\ Latest(r, n + 1, w + 1)
<1>1. /\ r \in Seq(Nat) /\ n + 1 = Len(r)
      /\ \A i \in 1 .. n : r[i] = b[i]
      /\ r[n + 1] = w + 1
  BY DEF Latest
<1>2. \A i \in 1 .. n + 1 : r[i] = w + 1 - (n + 1) + i
  <2> TAKE i \in 1 .. n + 1
  <2>1. CASE i = n + 1
    BY <1>1, <2>1
  <2>2. CASE i \in 1 .. n
    BY <1>1, <2>2 DEF Latest
  <2>3. i = n + 1 \/ i \in 1 .. n
    OBVIOUS
  <2> QED BY <2>1, <2>2, <2>3
<1> QED BY <1>1, <1>2 DEF Latest
\* What a post leaves, of a batch that holds the latest n of w entities.
LEMMA PostFacts ==
  ASSUME NEW w \in 0 .. MaxWrites, NEW b \in Seq(1 .. MaxWrites), NEW n \in Nat,
         Latest(b, n, w), database \cup failed = 1 .. w - n,
         NEW ok \in BOOLEAN, Post(b, ok)
  PROVE  /\ buffer' = <<>>
         /\ database' \cup failed' = 1 .. w
         /\ failed \subseteq failed'
         /\ ~ok /\ b # <<>> => failed' # {}
<1>1. w \in Nat /\ n <= w /\ b \in Seq(Nat)
  BY MaxWritesAssumption DEF Latest
<1>2. Range(b) = (w - n + 1) .. w
  BY <1>1, LatestRange
<1>3. PICK stored \in BOOLEAN :
        /\ ok => stored
        /\ database' = database \cup (IF stored THEN Range(b) ELSE {})
  BY DEF Post
<1>4. failed' = failed \cup (IF ok THEN {} ELSE Range(b))
  BY DEF Post
<1>5. database' \cup failed' = database \cup failed \cup Range(b)
  BY <1>3, <1>4
<1>6. (1 .. w - n) \cup ((w - n + 1) .. w) = 1 .. w
  BY <1>1
<1>7. ASSUME ~ok, b # <<>>
      PROVE  failed' # {}
  <2>1. 1 \in DOMAIN b
    BY <1>7
  <2>2. b[1] \in Range(b)
    BY <2>1 DEF Range
  <2> QED BY <1>4, <1>7, <2>2
<1> QED BY <1>2, <1>4, <1>5, <1>6, <1>7 DEF Post

-----------------------------------------------------------------------------
\* Who may still write: the flag is only raised by an owner that has stopped.
EndsInOrder ==
  /\ thread_end_flag => owner # "writing" /\ enable_thread
  /\ ~enable_thread => io = "ended"
  /\ owner = "gone" => io = "ended"

\* Once nobody is left to post the buffer, it is empty, or a post has failed.
NobodyLeftToPost ==
  /\ ~enable_thread /\ owner # "writing" => buffer = <<>>
  /\ enable_thread /\ io = "ended" => failed # {} \/ (owner # "writing" /\ buffer = <<>>)

\* The inductive invariant.
WriterInv ==
  /\ TypeOK
  /\ Latest(buffer, Len(buffer), written)
  /\ database \cup failed = 1 .. written - Len(buffer)
  /\ EndsInOrder
  /\ NobodyLeftToPost

LEMMA WriterInit ==
  ASSUME Init
  PROVE  WriterInv
<1>1. /\ buffer = <<>> /\ written = 0 /\ database = {} /\ failed = {}
      /\ 0 = Len(buffer) /\ buffer \in Seq(1 .. MaxWrites)
  BY DEF Init
<1>2. TypeOK
  <2>1. Len(buffer) < FlushAt /\ written \in 0 .. MaxWrites
    BY <1>1, FlushAtAssumption, MaxWritesAssumption
  <2>2. enable_thread \in BOOLEAN /\ thread_end_flag \in BOOLEAN
    BY DEF Init
  <2>3. io \in {"scan", "check", "sleep", "ended"} /\ owner \in {"writing", "joining", "gone"}
    BY DEF Init
  <2> QED BY <1>1, <2>1, <2>2, <2>3 DEF TypeOK
<1>3. Latest(buffer, Len(buffer), written) /\ database \cup failed = 1 .. written - Len(buffer)
  BY <1>1 DEF Latest
<1>4. EndsInOrder /\ NobodyLeftToPost
  BY <1>1 DEF Init, EndsInOrder, NobodyLeftToPost
<1> QED BY <1>2, <1>3, <1>4 DEF WriterInv

\* What the buffer and its posts have to satisfy after a step.
BufferInv ==
  /\ buffer \in Seq(1 .. MaxWrites) /\ Len(buffer) < FlushAt
  /\ Latest(buffer, Len(buffer), written)
  /\ database \cup failed = 1 .. written - Len(buffer)

\* A post leaves them in order, with an empty buffer.
LEMMA PostBuffer ==
  ASSUME NEW w \in 0 .. MaxWrites, written' = w,
         NEW b \in Seq(1 .. MaxWrites), NEW n \in Nat,
         Latest(b, n, w), database \cup failed = 1 .. w - n,
         NEW ok \in BOOLEAN, Post(b, ok)
  PROVE  BufferInv'
<1>1. buffer' = <<>> /\ database' \cup failed' = 1 .. w
  BY PostFacts
<1>2. 0 = Len(buffer') /\ buffer' \in Seq(1 .. MaxWrites) /\ w \in Nat
  BY <1>1, MaxWritesAssumption
<1>3. Latest(buffer', Len(buffer'), w)
  BY <1>2 DEF Latest
<1>4. 1 .. w - Len(buffer') = 1 .. w
  BY <1>2
<1> QED BY <1>1, <1>2, <1>3, <1>4, FlushAtAssumption DEF BufferInv

\* So only entities written are in the database.
LEMMA PostedTypes ==
  ASSUME BufferInv', written' \in 0 .. MaxWrites
  PROVE  database' \subseteq 1 .. MaxWrites /\ failed' \subseteq 1 .. MaxWrites
<1>1. database' \cup failed' = 1 .. written' - Len(buffer') /\ Len(buffer') \in Nat
  BY DEF BufferInv
<1>2. 1 .. written' - Len(buffer') \subseteq 1 .. MaxWrites
  BY <1>1, MaxWritesAssumption
<1> QED BY <1>1, <1>2

LEMMA WriterWrite ==
  ASSUME WriterInv, Write
  PROVE  WriterInv'
<1> DEFINE n == Len(buffer)
           g == Append(buffer, written + 1)
<1>1. /\ buffer \in Seq(1 .. MaxWrites) /\ n \in Nat /\ n = Len(buffer)
      /\ written \in Nat /\ written < MaxWrites /\ written + 1 \in 0 .. MaxWrites
      /\ Latest(buffer, n, written) /\ n <= written
      /\ database \cup failed = 1 .. written - n
      /\ written' = written + 1
  BY MaxWritesAssumption DEF WriterInv, TypeOK, Write, Latest
<1> HIDE DEF n
<1>2. buffer \in Seq(Nat)
  BY <1>1, MaxWritesAssumption
<1>3. n + 1 = Len(g) /\ Latest(g, n + 1, written + 1)
  BY <1>1, <1>2, LatestAppend
<1>4. g \in Seq(1 .. MaxWrites)
  BY <1>1, MaxWritesAssumption
<1>5. 1 .. written - n = 1 .. written + 1 - (n + 1)
  BY <1>1
<1> HIDE DEF g
<1>6. /\ BufferInv'
      /\ failed # {} => failed' # {}
  <2>1. CASE IsFull(g)
    <3>1. PICK ok \in BOOLEAN : Post(g, ok)
      BY <2>1 DEF Write, g
    <3>2. database \cup failed = 1 .. written + 1 - (n + 1)
      BY <1>1, <1>5
    <3>3. BufferInv'
      BY <1>1, <1>3, <1>4, <3>1, <3>2, PostBuffer
    <3>4. failed \subseteq failed'
      BY <3>1 DEF Post
    <3> QED BY <3>3, <3>4
  <2>2. CASE ~IsFull(g)
    <3>1. buffer' = g /\ UNCHANGED <<database, failed>>
      BY <2>2 DEF Write, g
    <3>2. Len(g) < FlushAt
      BY <1>1, <1>3, <2>2, FlushAtAssumption DEF IsFull
    <3>3. database' \cup failed' = 1 .. written' - (n + 1)
      BY <1>1, <1>5, <3>1
    <3> QED BY <1>1, <1>3, <1>4, <3>1, <3>2, <3>3 DEF BufferInv
  <2> QED BY <2>1, <2>2
<1>7. database' \subseteq 1 .. MaxWrites /\ failed' \subseteq 1 .. MaxWrites
  BY <1>1, <1>6, PostedTypes
<1>8. TypeOK'
  BY <1>1, <1>6, <1>7 DEF WriterInv, TypeOK, BufferInv, Write, thread
<1>9. EndsInOrder'
  BY DEF WriterInv, EndsInOrder, Write, thread
<1>10. NobodyLeftToPost'
  BY <1>6 DEF WriterInv, NobodyLeftToPost, Write, thread
<1> QED BY <1>6, <1>8, <1>9, <1>10 DEF WriterInv, BufferInv
\* A step that posts the whole buffer, whatever becomes of the post.
LEMMA PostWhole ==
  ASSUME WriterInv, NEW ok \in BOOLEAN, Post(buffer, ok), written' = written
  PROVE  /\ BufferInv'
         /\ database' \subseteq 1 .. MaxWrites /\ failed' \subseteq 1 .. MaxWrites
         /\ buffer' = <<>>
         /\ failed \subseteq failed'
         /\ ~ok /\ buffer # <<>> => failed' # {}
<1> DEFINE n == Len(buffer)
<1>1. /\ buffer \in Seq(1 .. MaxWrites) /\ n \in Nat /\ written \in 0 .. MaxWrites
      /\ Latest(buffer, n, written) /\ database \cup failed = 1 .. written - n
  BY DEF WriterInv, TypeOK
<1> HIDE DEF n
<1>2. BufferInv'
  BY <1>1, PostBuffer
<1>3. /\ buffer' = <<>> /\ failed \subseteq failed'
      /\ ~ok /\ buffer # <<>> => failed' # {}
  BY <1>1, PostFacts
<1> QED BY <1>1, <1>2, <1>3, PostedTypes

LEMMA WriterScan ==
  ASSUME WriterInv, Scan
  PROVE  WriterInv'
<1>0. /\ io = "scan" /\ written' = written
      /\ UNCHANGED <<enable_thread, owner, thread_end_flag>>
  BY DEF Scan
<1>1. CASE /\ buffer = <<>> /\ io' = "check"
           /\ UNCHANGED <<buffer, database, failed>>
  BY <1>0, <1>1 DEF WriterInv, TypeOK, EndsInOrder, NobodyLeftToPost
<1>2. ASSUME buffer # <<>>, NEW ok \in BOOLEAN, Post(buffer, ok),
             io' = IF ok THEN "check" ELSE "ended"
      PROVE  WriterInv'
  <2>1. /\ BufferInv' /\ buffer' = <<>>
        /\ database' \subseteq 1 .. MaxWrites /\ failed' \subseteq 1 .. MaxWrites
        /\ ~ok => failed' # {}
    BY <1>0, <1>2, PostWhole
  <2>2. TypeOK'
    BY <1>0, <1>2, <2>1 DEF WriterInv, TypeOK, BufferInv
  <2>3. EndsInOrder'
    BY <1>0 DEF WriterInv, EndsInOrder
  <2>4. NobodyLeftToPost'
    BY <1>0, <1>2, <2>1 DEF NobodyLeftToPost
  <2> QED BY <2>1, <2>2, <2>3, <2>4 DEF WriterInv, BufferInv
<1> QED BY <1>1, <1>2 DEF Scan

LEMMA WriterDestroy ==
  ASSUME WriterInv, Destroy
  PROVE  WriterInv'
<1>0. /\ owner = "writing" /\ owner' = "joining"
      /\ UNCHANGED <<enable_thread, io, written>>
  BY DEF Destroy
<1>1. CASE enable_thread
  <2>1. thread_end_flag' = TRUE /\ UNCHANGED <<buffer, database, failed>>
    BY <1>1 DEF Destroy
  <2> QED BY <1>0, <1>1, <2>1 DEF WriterInv, TypeOK, EndsInOrder, NobodyLeftToPost
<1>2. CASE ~enable_thread
  <2>1. PICK ok \in BOOLEAN : Post(buffer, ok) /\ UNCHANGED thread_end_flag
    BY <1>2 DEF Destroy
  <2>2. /\ BufferInv' /\ buffer' = <<>>
        /\ database' \subseteq 1 .. MaxWrites /\ failed' \subseteq 1 .. MaxWrites
    BY <1>0, <2>1, PostWhole
  <2>3. TypeOK'
    BY <1>0, <2>1, <2>2 DEF WriterInv, TypeOK, BufferInv
  <2>4. EndsInOrder' /\ NobodyLeftToPost'
    BY <1>0, <1>2, <2>1, <2>2 DEF WriterInv, EndsInOrder, NobodyLeftToPost
  <2> QED BY <2>2, <2>3, <2>4 DEF WriterInv, BufferInv
<1> QED BY <1>1, <1>2

LEMMA WriterNext ==
  ASSUME WriterInv, [Next]_vars
  PROVE  WriterInv'
<1>1. CASE Write
  BY <1>1, WriterWrite
<1>2. CASE Scan
  BY <1>2, WriterScan
<1>3. CASE CheckEnd
  BY <1>3 DEF WriterInv, TypeOK, EndsInOrder, NobodyLeftToPost, CheckEnd
<1>4. CASE Wake
  BY <1>4 DEF WriterInv, TypeOK, EndsInOrder, NobodyLeftToPost, Wake
<1>5. CASE Destroy
  BY <1>5, WriterDestroy
<1>6. CASE Join
  BY <1>6 DEF WriterInv, TypeOK, EndsInOrder, NobodyLeftToPost, Join
<1>7. CASE UNCHANGED vars
  BY <1>7 DEF WriterInv, TypeOK, EndsInOrder, NobodyLeftToPost, vars, thread
<1> QED BY <1>1, <1>2, <1>3, <1>4, <1>5, <1>6, <1>7 DEF Next, IOThread

\* The inductive invariant holds in every state of every behaviour.
LEMMA WriterAlways == Spec => []WriterInv
<1>1. Init => WriterInv
  BY WriterInit
<1>2. WriterInv /\ [Next]_vars => WriterInv'
  BY WriterNext
<1> QED BY <1>1, <1>2, PTL DEF Spec

\* What a writer that has ended without a failed post has stored.
LEMMA WriterGone ==
  ASSUME WriterInv, owner = "gone", failed = {}
  PROVE  database = 1 .. written
<1>1. buffer = <<>>
  BY DEF WriterInv, EndsInOrder, NobodyLeftToPost, TypeOK
<1>2. 0 = Len(buffer) /\ written \in Nat
  BY <1>1, MaxWritesAssumption DEF WriterInv, TypeOK
<1> QED BY <1>2 DEF WriterInv

-----------------------------------------------------------------------------
\* DatabasePrograms: what the writer has been given, by either tool.

\* A set of numbers up to n has a largest one.
LEMMA LargestOne ==
  ASSUME NEW n \in Nat, NEW T \in SUBSET (1 .. n), T # {}
  PROVE  \E j \in T : \A k \in T : k <= j
<1> DEFINE HasLargest(U) == \E j \in U : \A k \in U : k <= j
           Good == {m \in Nat : \A U \in SUBSET (1 .. m) : U # {} => HasLargest(U)}
<1>1. 0 \in Good
  <2>1. 1 .. 0 = {}
    OBVIOUS
  <2>2. \A U \in SUBSET (1 .. 0) : U = {}
    BY <2>1
  <2> QED BY <2>2
<1>2. ASSUME NEW m \in Nat, m \in Good
      PROVE  m + 1 \in Good
  <2>1. ASSUME NEW U \in SUBSET (1 .. m + 1), U # {}
        PROVE  HasLargest(U)
    <3>1. CASE m + 1 \in U
      <4>1. \A k \in U : k <= m + 1
        BY <2>1
      <4> QED BY <3>1, <4>1
    <3>2. CASE m + 1 \notin U
      <4>1. U \in SUBSET (1 .. m)
        <5>1. \A k \in 1 .. m + 1 : k = m + 1 \/ k \in 1 .. m
          OBVIOUS
        <5> QED BY <3>2, <5>1
      <4> QED BY <1>2, <2>1, <4>1
    <3> QED BY <3>1, <3>2
  <2> QED BY <2>1
<1>3. Nat \subseteq Good
  <2> HIDE DEF Good
  <2> QED BY <1>1, <1>2, NaturalInduction
<1> QED BY <1>3

\* The entities are numbered as they come; the order generator counts them.
EntitiesInv ==
  /\ written = Len(entities)
  /\ clock \in Nat
  /\ earlier \in Seq(Symbol)
  /\ TradeTool => entities \in Seq([now : Nat, submit_time : 0 .. 1])
  /\ ~TradeTool =>
       /\ entities \in Seq([i : Nat, symbol : Symbol])
       /\ \A k \in 1 .. Len(entities) : entities[k].i = k - 1

\* The invariant of the part that writes.
WritingInv == WriterInv /\ EntitiesInv

LEMMA WritingInit ==
  ASSUME ProgramsInit
  PROVE  WritingInv
<1>1. WriterInv
  BY WriterInit DEF ProgramsInit
<1>2. entities = <<>> /\ clock = 0 /\ written = 0
  BY DEF ProgramsInit, Init
<1>3. earlier \in Seq(Symbol)
  <2>1. CASE TradeTool
    BY <2>1 DEF ProgramsInit
  <2>2. CASE ~TradeTool
    BY <2>2, EarlierAssumption DEF ProgramsInit
  <2> QED BY <2>1, <2>2
<1>4. EntitiesInv
  BY <1>2, <1>3 DEF EntitiesInv
<1> QED BY <1>1, <1>4 DEF WritingInv

\* A step of a program is one of its writer, or leaves the writer alone.
LEMMA ProgramsStepWriter ==
  ASSUME [ProgramsNext]_all
  PROVE  [Next]_vars
BY DEF ProgramsNext, ReadTrade, CreateOrder, MainReturns, WriterThread, PlaceRequests,
       Next, all

LEMMA EntitiesNext ==
  ASSUME WritingInv, [ProgramsNext]_all
  PROVE  EntitiesInv'
<1>0. EntitiesInv
  BY DEF WritingInv
<1>1. CASE ReadTrade
  <2>1. /\ TradeTool /\ enable_thread' = enable_thread /\ written' = written + 1
        /\ clock' \in {clock, clock + 1} /\ earlier' = earlier
    BY <1>1 DEF ReadTrade, Write, thread
  <2>2. PICK submit_time \in 0 .. 1 :
          entities' = Append(entities, [now |-> clock', submit_time |-> submit_time])
    BY <1>1 DEF ReadTrade
  <2>3. clock' \in Nat /\ earlier' \in Seq(Symbol)
    BY <1>0, <2>1 DEF EntitiesInv
  <2>4. PICK e \in [now : Nat, submit_time : 0 .. 1] : entities' = Append(entities, e)
    BY <2>2, <2>3
  <2>5. entities \in Seq([now : Nat, submit_time : 0 .. 1]) /\ written = Len(entities)
    BY <1>0, <2>1 DEF EntitiesInv
  <2>6. entities' \in Seq([now : Nat, submit_time : 0 .. 1]) /\ written' = Len(entities')
    BY <2>1, <2>4, <2>5
  <2> QED BY <2>1, <2>3, <2>6 DEF EntitiesInv, TradeTool
<1>2. CASE CreateOrder
  <2>1. /\ ~TradeTool /\ enable_thread' = enable_thread /\ written' = written + 1
        /\ clock' = clock /\ earlier' = earlier
    BY <1>2 DEF CreateOrder, Write, thread
  <2>2. PICK s \in Symbol : entities' = Append(entities, [i |-> written, symbol |-> s])
    BY <1>2 DEF CreateOrder
  <2>3. /\ entities \in Seq([i : Nat, symbol : Symbol]) /\ written = Len(entities)
        /\ \A k \in 1 .. Len(entities) : entities[k].i = k - 1
    BY <1>0, <2>1 DEF EntitiesInv
  <2>4. PICK e \in [i : Nat, symbol : Symbol] :
          entities' = Append(entities, e) /\ e.i = Len(entities)
    BY <2>2, <2>3
  <2>5. /\ entities' \in Seq([i : Nat, symbol : Symbol]) /\ written' = Len(entities')
        /\ \A k \in 1 .. Len(entities') : entities'[k].i = k - 1
    BY <2>1, <2>3, <2>4
  <2> QED BY <1>0, <2>1, <2>5 DEF EntitiesInv, TradeTool
<1>3. CASE MainReturns \/ WriterThread \/ PlaceRequests \/ UNCHANGED all
  <2>1. UNCHANGED <<entities, earlier, clock>> /\ written' = written
        /\ enable_thread' = enable_thread
    BY <1>3 DEF MainReturns, WriterThread, PlaceRequests, all, vars, thread,
                Destroy, Join, IOThread, Scan, CheckEnd, Wake
  <2> QED BY <1>0, <2>1 DEF EntitiesInv, TradeTool
<1> QED BY <1>1, <1>2, <1>3 DEF ProgramsNext

LEMMA WritingAlways == ProgramsSpec => []WritingInv
<1>1. ProgramsInit => WritingInv
  BY WritingInit
<1>2. ASSUME WritingInv, [ProgramsNext]_all
      PROVE  WritingInv'
  <2>1. WriterInv'
    BY <1>2, ProgramsStepWriter, WriterNext DEF WritingInv
  <2> QED BY <1>2, <2>1, EntitiesNext DEF WritingInv
<1> QED BY <1>1, <1>2, PTL DEF ProgramsSpec

\* No entity is forgotten or posted twice, and the buffer holds the latest
\* ones in order, whatever posts fail and whenever the IO thread runs: so it is
\* with any owner (Spec), and with the programs.
THEOREM EveryEntityPostedOnce == (Spec \/ ProgramsSpec) => []PostedOnce
<1>1. WriterInv => PostedOnce
  <2>1. ASSUME WriterInv
        PROVE  DOMAIN buffer = 1 .. Len(buffer)
    BY <2>1 DEF WriterInv, TypeOK
  <2> QED BY <2>1 DEF WriterInv, PostedOnce, Latest
<1>2. WritingInv => WriterInv
  BY DEF WritingInv
<1> QED BY <1>1, <1>2, WriterAlways, WritingAlways, PTL

\* A writer that has ended without a failed post has stored every entity:
\* what is written between the last scan and the end of the thread too.
THEOREM WriterLeavesNothingBehind == (Spec \/ ProgramsSpec) => []NothingLeftBehind
<1>1. WriterInv => NothingLeftBehind
  BY WriterGone DEF NothingLeftBehind
<1>2. WritingInv => WriterInv
  BY DEF WritingInv
<1> QED BY <1>1, <1>2, WriterAlways, WritingAlways, PTL

\* No trade is lost: when the trade persistence tool has ended and no post
\* has failed, each trade is in the database, or the last one that was read
\* at the same instant.
THEOREM TradesAreStored == ProgramsSpec => []EveryTradeStored
<1>1. ASSUME WritingInv, TradeTool, owner = "gone", failed = {}, NEW i \in 1 .. written
      PROVE  \E j \in Points : j >= i /\ entities[j].now = entities[i].now
  <2>1. database = 1 .. written
    BY <1>1, WriterGone DEF WritingInv
  <2>2. written \in Nat /\ written = Len(entities)
        /\ entities \in Seq([now : Nat, submit_time : 0 .. 1])
    BY <1>1 DEF WritingInv, EntitiesInv
  <2> DEFINE T == {j \in 1 .. written : j >= i /\ entities[j].now = entities[i].now}
  <2>3. T \in SUBSET (1 .. written) /\ i \in T
    BY <2>2
  <2>4. PICK j \in T : \A k \in T : k <= j
    <3> HIDE DEF T
    <3> QED BY <2>2, <2>3, LargestOne
  <2>5. j \in database /\ j >= i /\ entities[j].now = entities[i].now
    BY <2>1
  <2>6. ASSUME NEW k \in database, k > j
        PROVE  TimeStamp(entities[k]) # TimeStamp(entities[j])
    <3>1. k \in 1 .. written /\ j \in 1 .. written /\ k \notin T
      BY <2>1, <2>2, <2>4, <2>6
    <3>2. entities[k].now # entities[i].now
      BY <2>2, <2>5, <2>6, <3>1
    <3> QED BY <1>1, <2>5, <3>2 DEF TimeStamp
  <2>7. j \in Points
    BY <2>5, <2>6 DEF Points
  <2> QED BY <2>5, <2>7
<1>2. WritingInv => EveryTradeStored
  BY <1>1 DEF EveryTradeStored
<1> QED BY <1>2, WritingAlways, PTL

-----------------------------------------------------------------------------
\* The request generator.

\* The orders that the request generator finds are a sequence.
LEMMA GetOrdersFacts ==
  ASSUME WritingInv
  PROVE  Len(GetOrders) \in Nat /\ DOMAIN GetOrders = 1 .. Len(GetOrders)
<1>1. CASE TradeTool
  BY <1>1 DEF GetOrders
<1>2. CASE ~TradeTool
  <2> DEFINE times == DOMAIN OrderAt
             n == Cardinality(times)
  <2>1. times = {i - 1 : i \in database \cup DOMAIN earlier}
    BY DEF OrderAt
  <2>2. /\ database \subseteq 1 .. MaxWrites /\ MaxWrites \in Nat
        /\ DOMAIN earlier = 1 .. Len(earlier) /\ Len(earlier) \in Nat
    BY MaxWritesAssumption DEF WritingInv, WriterInv, TypeOK, EntitiesInv
  <2>3. times \in SUBSET Nat /\ \A t \in times : t <= MaxWrites + Len(earlier)
    BY <2>1, <2>2
  <2>4. IsFiniteSet(times)
    <3> HIDE DEF times
    <3>1. MaxWrites + Len(earlier) \in Nat
      BY <2>2
    <3> QED BY <2>3, <3>1, FS_BoundedSetOfNaturals
  <2>5. n \in Nat
    BY <2>4, FS_CardinalityType
  <2>6. GetOrders = [k \in 1 .. n |->
                       OrderAt[CHOOSE t \in times : Cardinality({s \in times : s < t}) = k - 1]]
    BY <1>2 DEF GetOrders
  <2> HIDE DEF n, times
  <2>7. DOMAIN GetOrders = 1 .. n
    BY <2>6
  <2>8. Len(GetOrders) = n
    BY <2>5, <2>6
  <2> QED BY <2>5, <2>7, <2>8
<1> QED BY <1>1, <1>2

LEMMA SelectedFacts ==
  ASSUME WritingInv
  PROVE  Requests!Selected \in 0 .. Len(GetOrders)
BY GetOrdersFacts DEF Requests!Selected

\* A map with one more value.
LEMMA PutFacts ==
  ASSUME NEW m, NEW k, NEW v, NEW r, r = Requests!Put(m, k, v)
  PROVE  /\ DOMAIN r = DOMAIN m \cup {k}
         /\ r[k] = v
         /\ \A x \in DOMAIN m : x # k => r[x] = m[x]
BY DEF Requests!Put

LEMMA ThreadsFinite ==
  /\ IsFiniteSet(Requests!Thread) /\ IsFiniteSet(Requests!Server)
  /\ 0 \in Requests!Thread /\ 0 \in Requests!Server
  /\ \A k \in Nat : k % Servers \in Requests!Server
BY NumbersAssumption, FS_Interval DEF Requests!Thread, Requests!Server

\* What the request generator's Sum adds up.
LEMMA SumInGenerator ==
  ASSUME NEW f
  PROVE  Requests!Sum(f) = SumFunctionOnSet(f, DOMAIN f)
<1>1. Requests!Sum(f) = SumOn(f, DOMAIN f)
  BY DEF Requests!Sum, Requests!SumFunction, Requests!SumFunctionOnSet,
         Requests!FoldFunctionOnSet, Requests!MapThenFoldSet, SumOn, Sums, First
<1> QED BY <1>1, SumIsSumOn

\* The types of the request generator's variables.
SendTypes ==
  /\ main \in {"prepare", "deal", "join", "report"}
  /\ orders_ \in Seq(Nat)
  /\ thread_num_now \in Requests!Thread
  /\ \A s \in DOMAIN symbol_to_thread_ : symbol_to_thread_[s] \in Requests!Thread
  /\ orders_for_thread_ \in [Requests!Thread -> Seq(Nat)]
  /\ server_index \in [Requests!Thread -> Nat]
  /\ count_each_server \in [Requests!Thread -> [Requests!Server -> Nat]]
  /\ finished \in SUBSET Requests!Thread
  /\ placed \in Seq(Nat)
  /\ requests_count_ \in Nat
  /\ succeeded \in Nat

\* What is empty while main prepares and deals, and once it waits.
Phases ==
  /\ main = "prepare" =>
       \A t \in Requests!Thread : orders_for_thread_[t] = <<>> /\ server_index[t] = 0
  /\ main \in {"prepare", "deal"} => placed = <<>> /\ finished = {}
  /\ main \in {"join", "report"} => orders_ = <<>>
  /\ main = "report" => finished = Requests!Thread
  /\ \A t \in finished : orders_for_thread_[t] = <<>>

\* The number of orders dealt out, which are the first ones.
Dealt == Requests!Selected - Len(orders_)

DealtInOrder ==
  /\ Latest(orders_, Len(orders_), Requests!Selected)
  /\ \A t \in Requests!Thread : \A i \in DOMAIN orders_for_thread_[t] :
       orders_for_thread_[t][i] \in 1 .. Dealt
  /\ \A i \in DOMAIN placed : placed[i] \in 1 .. Dealt

\* Order o is for thread t: its symbol is.
IsFor(o, t) ==
  GetOrders[o] \in DOMAIN symbol_to_thread_ /\ symbol_to_thread_[GetOrders[o]] = t

\* Each thread has orders of its own symbols to send, in increasing order.
QueuesOrdered ==
  \A t \in Requests!Thread : \A i \in DOMAIN orders_for_thread_[t] :
    /\ IsFor(orders_for_thread_[t][i], t)
    /\ \A j \in DOMAIN orders_for_thread_[t] :
         i < j => orders_for_thread_[t][i] < orders_for_thread_[t][j]

\* What a thread has placed came in increasing order, before what it has
\* still to send.
PlacedOrdered ==
  \A i \in DOMAIN placed : \E t \in Requests!Thread :
    /\ IsFor(placed[i], t)
    /\ \A j \in DOMAIN orders_for_thread_[t] : placed[i] < orders_for_thread_[t][j]
    /\ \A j \in DOMAIN placed : i < j /\ IsFor(placed[j], t) => placed[i] < placed[j]

\* What each thread has sent, or has still to send.
Work == [t \in Requests!Thread |-> server_index[t] + Len(orders_for_thread_[t])]

\* No order that was dealt out gets lost.
AllSent ==
  SumFunctionOnSet(Work, Requests!Thread) + Len(orders_) = Requests!Selected

\* The requests of each thread that have succeeded.
Successes ==
  [t \in Requests!Thread |-> SumFunctionOnSet(count_each_server[t], Requests!Server)]

\* The totals are those of the threads that have finished.
Counted ==
  /\ succeeded = SumFunctionOnSet(Successes, Requests!Thread)
  /\ requests_count_ = SumFunctionOnSet(Successes, finished)
  /\ finished = {} => count_each_server_ = <<>>
  /\ finished # {} =>
       /\ count_each_server_ \in [Requests!Server -> Nat]
       /\ SumFunctionOnSet(count_each_server_, Requests!Server) = requests_count_
  /\ succeeded <= Len(placed)

\* The inductive invariant of the request generator.
SendingInv ==
  /\ SendTypes
  /\ Phases
  /\ Counted
  /\ TradeTool \/ owner # "gone" => main = "prepare"
  /\ main # "prepare" => DealtInOrder /\ QueuesOrdered /\ PlacedOrdered /\ AllSent

LEMMA SendingInit ==
  ASSUME ProgramsInit
  PROVE  SendingInv
<1>1. /\ main = "prepare" /\ orders_ = <<>> /\ symbol_to_thread_ = <<>>
      /\ thread_num_now = 0
      /\ orders_for_thread_ = [t \in Requests!Thread |-> <<>>]
      /\ server_index = [t \in Requests!Thread |-> 0]
      /\ count_each_server = [t \in Requests!Thread |-> [s \in Requests!Server |-> 0]]
      /\ finished = {} /\ requests_count_ = 0 /\ count_each_server_ = <<>>
      /\ placed = <<>> /\ succeeded = 0
  BY DEF ProgramsInit, Requests!Init
<1>2. SendTypes
  <2>1. DOMAIN symbol_to_thread_ = {}
    BY <1>1
  <2> QED BY <1>1, <2>1, ThreadsFinite DEF SendTypes
<1>3. Phases
  BY <1>1 DEF Phases
<1>4. Counted
  <2>1. \A t \in Requests!Thread : Successes[t] = 0
    <3> TAKE t \in Requests!Thread
    <3>1. Successes[t] = SumFunctionOnSet(count_each_server[t], Requests!Server)
      BY DEF Successes
    <3>2. \A s \in Requests!Server : count_each_server[t][s] = 0
      BY <1>1
    <3> QED BY <3>1, <3>2, SumZero, ThreadsFinite
  <2>2. SumFunctionOnSet(Successes, Requests!Thread) = 0
    BY <2>1, SumZero, ThreadsFinite
  <2>3. SumFunctionOnSet(Successes, finished) = 0
    BY <1>1, SumEmpty
  <2> QED BY <1>1, <2>2, <2>3 DEF Counted
<1> QED BY <1>1, <1>2, <1>3, <1>4 DEF SendingInv

\* A step that leaves the request generator where it is.
LEMMA SendingStays ==
  ASSUME WritingInv, SendingInv, UNCHANGED sending,
         \/ main = "prepare"
         \/ owner = "gone" /\ UNCHANGED <<enable_thread, owner, GetOrders>>
  PROVE  SendingInv'
<1>1. SendTypes' /\ Phases'
  BY DEF SendingInv, SendTypes, Phases, sending
<1>2. Counted'
  BY DEF SendingInv, Counted, Successes, sending
<1>3. (TradeTool \/ owner # "gone" => main = "prepare")'
  BY DEF SendingInv, TradeTool, sending
<1>4. CASE main = "prepare"
  BY <1>1, <1>2, <1>3, <1>4 DEF SendingInv, sending
<1>5. CASE main # "prepare"
  <2>1. GetOrders' = GetOrders /\ Requests!Selected' = Requests!Selected
    BY <1>5 DEF Requests!Selected, sending
  <2>2. DealtInOrder' /\ QueuesOrdered' /\ PlacedOrdered' /\ AllSent'
    BY <1>5, <2>1 DEF SendingInv, DealtInOrder, QueuesOrdered, PlacedOrdered, AllSent,
                      Work, Dealt, IsFor, Latest, sending
  <2> QED BY <1>1, <1>2, <1>3, <2>2 DEF SendingInv
<1> QED BY <1>4, <1>5

\* The steps of the others: the request generator has not begun.
LEMMA OthersStay ==
  ASSUME WritingInv, SendingInv,
         ReadTrade \/ CreateOrder \/ MainReturns \/ WriterThread \/ UNCHANGED all
  PROVE  SendingInv'
<1>1. UNCHANGED sending
  BY DEF ReadTrade, CreateOrder, MainReturns, WriterThread, all
<1>2. CASE UNCHANGED all
  <2>1. UNCHANGED <<enable_thread, owner, database, entities, earlier>>
    BY <1>2 DEF all, vars, thread
  <2>2. GetOrders' = GetOrders
    BY <2>1 DEF GetOrders, OrderAt, TradeTool
  <2> QED BY <1>1, <2>1, <2>2, SendingStays DEF SendingInv
<1>3. CASE ReadTrade \/ CreateOrder \/ MainReturns \/ WriterThread
  <2>1. owner # "gone"
    BY <1>3 DEF ReadTrade, CreateOrder, MainReturns, WriterThread, Write, Destroy, Join,
                IOThread, Scan, CheckEnd, Wake, WritingInv, WriterInv, EndsInOrder
  <2> QED BY <1>1, <2>1, SendingStays DEF SendingInv
<1> QED BY <1>2, <1>3

\* What every step of the request generator leaves alone.
LEMMA SendingFrame ==
  ASSUME PlaceRequests
  PROVE  /\ ~TradeTool /\ owner = "gone"
         /\ GetOrders' = GetOrders
         /\ Requests!Selected' = Requests!Selected
         /\ ~TradeTool' /\ owner' = "gone"
<1>1. GetOrders' = GetOrders /\ num_of_orders_' = num_of_orders_
  BY DEF PlaceRequests, Requests!Next, Requests!PrepareOrders, Requests!DealOrder,
         Requests!StartThreads, Requests!JoinThreads, Requests!SendRequest,
         Requests!AddCounts, Requests!input
<1>2. Requests!Selected' = Requests!Selected
  BY <1>1 DEF Requests!Selected
<1> QED BY <1>1, <1>2 DEF PlaceRequests, TradeTool, vars, thread

LEMMA SendingPrepare ==
  ASSUME WritingInv, SendingInv, PlaceRequests, Requests!PrepareOrders
  PROVE  SendingInv'
<1> DEFINE n == Requests!Selected
<1>0. SendingInv
  OBVIOUS
<1>1. /\ main = "prepare" /\ main' = "deal"
      /\ orders_' = [i \in 1 .. Requests!Selected |-> i]
      /\ UNCHANGED <<symbol_to_thread_, thread_num_now, orders_for_thread_, server_index,
                     count_each_server, finished, requests_count_, count_each_server_,
                     placed, succeeded>>
  BY DEF Requests!PrepareOrders, Requests!totals
<1>2. n \in Nat /\ Requests!Selected' = n
  BY SelectedFacts, SendingFrame, GetOrdersFacts
<1>3. orders_' = [i \in 1 .. n |-> i]
  BY <1>1
<1> HIDE DEF n
<1>4. orders_' \in Seq(Nat) /\ Len(orders_') = n /\ \A i \in 1 .. n : orders_'[i] = i
  BY <1>2, <1>3
<1>5. SendTypes'
  BY <1>1, <1>4 DEF SendingInv, SendTypes
<1>6. Phases'
  BY <1>1 DEF SendingInv, Phases
<1>7. Counted'
  BY <1>1 DEF SendingInv, Counted, Successes
<1>8. /\ \A t \in Requests!Thread : orders_for_thread_'[t] = <<>> /\ server_index'[t] = 0
      /\ placed' = <<>>
  BY <1>1 DEF SendingInv, Phases
<1>9. Latest(orders_', Len(orders_'), n)
  BY <1>2, <1>4 DEF Latest
<1>10. DealtInOrder'
  BY <1>2, <1>8, <1>9 DEF DealtInOrder
<1>11. QueuesOrdered' /\ PlacedOrdered'
  BY <1>8 DEF QueuesOrdered, PlacedOrdered
<1>12. AllSent'
  <2>1. \A t \in Requests!Thread : Work'[t] = 0
    BY <1>8 DEF Work
  <2>2. SumFunctionOnSet(Work', Requests!Thread) = 0
    BY <2>1, SumZero, ThreadsFinite
  <2> QED BY <1>2, <1>4, <2>2 DEF AllSent
<1> QED BY <1>5, <1>6, <1>7, <1>10, <1>11, <1>12, SendingFrame DEF SendingInv

\* What dealing out order o to thread t does.
DealsTo(o, t) ==
  /\ t \in Requests!Thread
  /\ orders_for_thread_' = [orders_for_thread_ EXCEPT ![t] = Append(@, o)]
  /\ thread_num_now' \in Requests!Thread
  /\ \A s \in DOMAIN symbol_to_thread_' : symbol_to_thread_'[s] \in Requests!Thread
  /\ \A s \in DOMAIN symbol_to_thread_ :
       s \in DOMAIN symbol_to_thread_' /\ symbol_to_thread_'[s] = symbol_to_thread_[s]
  /\ GetOrders[o] \in DOMAIN symbol_to_thread_'
  /\ symbol_to_thread_'[GetOrders[o]] = t

LEMMA DealOrderFacts ==
  ASSUME SendingInv, Requests!DealOrder
  PROVE  \E t \in Requests!Thread : DealsTo(Head(orders_), t)
<1> DEFINE symbol == GetOrders[Head(orders_)]
           new    == symbol \notin DOMAIN symbol_to_thread_
           t      == IF new THEN thread_num_now ELSE symbol_to_thread_[symbol]
<1>1. /\ symbol_to_thread_' = Requests!Put(symbol_to_thread_, symbol, t)
      /\ thread_num_now' = IF ~new THEN thread_num_now
                           ELSE IF thread_num_now = num_of_threads_ - 1 THEN 0
                           ELSE thread_num_now + 1
      /\ orders_for_thread_' = [orders_for_thread_ EXCEPT ![t] = Append(@, Head(orders_))]
  BY DEF Requests!DealOrder
<1>2. /\ thread_num_now \in Requests!Thread
      /\ \A s \in DOMAIN symbol_to_thread_ : symbol_to_thread_[s] \in Requests!Thread
  BY DEF SendingInv, SendTypes
<1>3. t \in Requests!Thread
  BY <1>2
<1>4. thread_num_now' \in Requests!Thread
  BY <1>1, <1>2, NumbersAssumption DEF Requests!Thread
<1>5. ~new => t = symbol_to_thread_[symbol]
  OBVIOUS
<1> HIDE DEF t, new
<1>6. /\ DOMAIN symbol_to_thread_' = DOMAIN symbol_to_thread_ \cup {symbol}
      /\ symbol_to_thread_'[symbol] = t
      /\ \A s \in DOMAIN symbol_to_thread_ :
           s # symbol => symbol_to_thread_'[s] = symbol_to_thread_[s]
  BY <1>1 DEF Requests!Put
<1>7. symbol \in DOMAIN symbol_to_thread_ => t = symbol_to_thread_[symbol]
  BY <1>5 DEF new
<1>8. DealsTo(Head(orders_), t)
  BY <1>1, <1>2, <1>3, <1>4, <1>6, <1>7 DEF DealsTo
<1> QED BY <1>3, <1>8

\* The first entity of a batch leaves it.
LEMMA LatestTail ==
  ASSUME NEW w \in Nat, NEW b \in Seq(Nat), NEW n \in Nat, NEW r,
         b # <<>>, Latest(b, n, w), r = Tail(b)
  PROVE  /\ n \in Nat \ {0} /\ n <= w /\ Head(b) = w - n + 1
         /\ r \in Seq(Nat) /\ n - 1 = Len(r) /\ Latest(r, n - 1, w)
<1>1. n = Len(b) /\ n <= w /\ \A i \in 1 .. n : b[i] = w - n + i
  BY DEF Latest
<1>2. /\ n \in Nat \ {0} /\ Head(b) = b[1]
      /\ r \in Seq(Nat) /\ n - 1 = Len(r) /\ \A i \in 1 .. n - 1 : r[i] = b[i + 1]
  BY <1>1
<1>3. ASSUME NEW i \in 1 .. n - 1
      PROVE  r[i] = w - (n - 1) + i
  <2>1. i + 1 \in 1 .. n /\ r[i] = b[i + 1]
    BY <1>2
  <2>2. b[i + 1] = w - n + (i + 1)
    BY <1>1, <2>1
  <2> QED BY <1>2, <2>1, <2>2
<1>4. Latest(r, n - 1, w)
  BY <1>1, <1>2, <1>3 DEF Latest
<1> QED BY <1>1, <1>2, <1>4

\* The first order that has not been dealt out.
LEMMA NextOrder ==
  ASSUME DealtInOrder, orders_ \in Seq(Nat), orders_ # <<>>, Requests!Selected \in Nat,
         Requests!Selected' = Requests!Selected, orders_' = Tail(orders_)
  PROVE  /\ Head(orders_) = Dealt + 1 /\ Dealt \in Nat
         /\ Dealt' = Dealt + 1
         /\ Len(orders_') + 1 = Len(orders_) /\ orders_' \in Seq(Nat)
         /\ Latest(orders_', Len(orders_'), Requests!Selected)
<1>1. PICK n \in Nat : n = Len(orders_)
  OBVIOUS
<1>2. Latest(orders_, n, Requests!Selected)
  BY <1>1 DEF DealtInOrder
<1>3. /\ n \in Nat \ {0} /\ n <= Requests!Selected /\ Head(orders_) = Requests!Selected - n + 1
      /\ orders_' \in Seq(Nat) /\ n - 1 = Len(orders_')
      /\ Latest(orders_', n - 1, Requests!Selected)
  BY <1>2, LatestTail
<1>4. Dealt = Requests!Selected - n /\ Dealt' = Requests!Selected - (n - 1)
  BY <1>1, <1>3 DEF Dealt
<1> QED BY <1>1, <1>3, <1>4

\* The queues after an order has been dealt out.
LEMMA DealtQueues ==
  ASSUME SendTypes, NEW o \in Nat, NEW t \in Requests!Thread,
         orders_for_thread_' = [orders_for_thread_ EXCEPT ![t] = Append(@, o)]
  PROVE  /\ orders_for_thread_' \in [Requests!Thread -> Seq(Nat)]
         /\ \A u \in Requests!Thread : u # t => orders_for_thread_'[u] = orders_for_thread_[u]
         /\ Len(orders_for_thread_'[t]) = Len(orders_for_thread_[t]) + 1
         /\ \A i \in DOMAIN orders_for_thread_'[t] :
              \/ /\ i \in DOMAIN orders_for_thread_[t]
                 /\ orders_for_thread_'[t][i] = orders_for_thread_[t][i]
              \/ /\ i = Len(orders_for_thread_'[t])
                 /\ orders_for_thread_'[t][i] = o
<1>1. orders_for_thread_ \in [Requests!Thread -> Seq(Nat)]
  BY DEF SendTypes
<1> DEFINE q == orders_for_thread_[t]
           r == Append(q, o)
<1>2. q \in Seq(Nat)
  BY <1>1
<1>3. orders_for_thread_'[t] = r
  BY <1>1
<1>4. \A u \in Requests!Thread : u # t => orders_for_thread_'[u] = orders_for_thread_[u]
  BY <1>1
<1>5. orders_for_thread_' \in [Requests!Thread -> Seq(Nat)]
  BY <1>1, <1>2
<1> HIDE DEF q
<1>6. /\ Len(r) = Len(q) + 1
      /\ \A i \in DOMAIN r : \/ i \in DOMAIN q /\ r[i] = q[i]
                             \/ i = Len(r) /\ r[i] = o
  BY <1>2
<1> HIDE DEF r
<1> QED BY <1>3, <1>4, <1>5, <1>6 DEF q

\* The orders after one has been dealt out.
LEMMA SendingDeal ==
  ASSUME WritingInv, SendingInv, PlaceRequests, Requests!DealOrder
  PROVE  SendingInv'
<1> DEFINE o == Head(orders_)
<1>0. /\ main = "deal" /\ main' = main /\ orders_ # <<>> /\ orders_' = Tail(orders_)
      /\ UNCHANGED <<server_index, count_each_server, finished, requests_count_,
                     count_each_server_, placed, succeeded>>
  BY DEF Requests!DealOrder, Requests!totals
<1>1. /\ SendTypes /\ DealtInOrder /\ QueuesOrdered /\ PlacedOrdered /\ AllSent
      /\ placed = <<>> /\ finished = {}
  BY <1>0 DEF SendingInv, Phases
<1>2. Requests!Selected \in Nat /\ Requests!Selected' = Requests!Selected
  BY SelectedFacts, SendingFrame, GetOrdersFacts
<1>3. /\ o = Dealt + 1 /\ Dealt \in Nat /\ Dealt' = Dealt + 1
      /\ Len(orders_') + 1 = Len(orders_) /\ orders_' \in Seq(Nat)
      /\ Latest(orders_', Len(orders_'), Requests!Selected)
  BY <1>0, <1>1, <1>2, NextOrder DEF SendTypes
<1>4. PICK t \in Requests!Thread : DealsTo(o, t)
  BY DealOrderFacts
<1>5. o \in Nat
  BY <1>3
<1> HIDE DEF o
<1>6. /\ orders_for_thread_' \in [Requests!Thread -> Seq(Nat)]
      /\ \A u \in Requests!Thread : u # t => orders_for_thread_'[u] = orders_for_thread_[u]
      /\ Len(orders_for_thread_'[t]) = Len(orders_for_thread_[t]) + 1
      /\ \A i \in DOMAIN orders_for_thread_'[t] :
           \/ /\ i \in DOMAIN orders_for_thread_[t]
              /\ orders_for_thread_'[t][i] = orders_for_thread_[t][i]
           \/ /\ i = Len(orders_for_thread_'[t])
              /\ orders_for_thread_'[t][i] = o
  <2>1. orders_for_thread_' = [orders_for_thread_ EXCEPT ![t] = Append(@, o)]
    BY <1>4 DEF DealsTo
  <2> QED BY <1>1, <1>5, <2>1, DealtQueues
<1>7. SendTypes'
  <2>1. /\ thread_num_now' \in Requests!Thread
        /\ \A s \in DOMAIN symbol_to_thread_' : symbol_to_thread_'[s] \in Requests!Thread
    BY <1>4 DEF DealsTo
  <2> QED BY <1>0, <1>1, <1>3, <1>6, <2>1 DEF SendTypes
<1>8. Phases'
  BY <1>0, <1>1 DEF Phases
<1>9. Counted'
  BY <1>0 DEF SendingInv, Counted, Successes
\* An order that was for a thread still is, and the new one is for t.
<1> DEFINE WillBeFor(x, u) == /\ GetOrders[x] \in DOMAIN symbol_to_thread_'
                              /\ symbol_to_thread_'[GetOrders[x]] = u
<1>10. /\ WillBeFor(o, t)
       /\ \A x, u : IsFor(x, u) => WillBeFor(x, u)
  <2>1. /\ \A s \in DOMAIN symbol_to_thread_ :
             s \in DOMAIN symbol_to_thread_' /\ symbol_to_thread_'[s] = symbol_to_thread_[s]
        /\ GetOrders[o] \in DOMAIN symbol_to_thread_'
        /\ symbol_to_thread_'[GetOrders[o]] = t
    BY <1>4 DEF DealsTo
  <2> QED BY <2>1 DEF IsFor
<1> HIDE DEF WillBeFor
\* The elements of the queues: those of before, and o at the end of t's.
<1>11. ASSUME NEW u \in Requests!Thread, NEW i \in DOMAIN orders_for_thread_'[u]
       PROVE  \/ /\ i \in DOMAIN orders_for_thread_[u]
                 /\ orders_for_thread_'[u][i] = orders_for_thread_[u][i]
              \/ /\ u = t /\ i = Len(orders_for_thread_'[u])
                 /\ orders_for_thread_'[u][i] = o
  BY <1>6
<1>12. \A u \in Requests!Thread : \A i \in DOMAIN orders_for_thread_[u] :
         orders_for_thread_[u][i] \in 1 .. Dealt
  BY <1>1 DEF DealtInOrder
<1>13. DealtInOrder'
  <2>1. ASSUME NEW u \in Requests!Thread, NEW i \in DOMAIN orders_for_thread_'[u]
        PROVE  orders_for_thread_'[u][i] \in 1 .. Dealt'
    BY <1>3, <1>11, <1>12 DEF o
  <2>2. \A i \in DOMAIN placed' : placed'[i] \in 1 .. Dealt'
    BY <1>0, <1>1
  <2> QED BY <1>2, <1>3, <2>1, <2>2 DEF DealtInOrder
<1>14. QueuesOrdered'
  <2>1. ASSUME NEW u \in Requests!Thread, NEW i \in DOMAIN orders_for_thread_'[u]
        PROVE  WillBeFor(orders_for_thread_'[u][i], u)
    <3>0. PICK x : x = orders_for_thread_'[u][i]
      OBVIOUS
    <3>1. CASE i \in DOMAIN orders_for_thread_[u] /\ x = orders_for_thread_[u][i]
      BY <3>0, <3>1, <1>1, <1>10 DEF QueuesOrdered
    <3>2. CASE u = t /\ x = o
      BY <3>0, <3>2, <1>10
    <3> QED BY <3>0, <1>11, <3>1, <3>2
  <2>2. ASSUME NEW u \in Requests!Thread, NEW i \in DOMAIN orders_for_thread_'[u],
               NEW j \in DOMAIN orders_for_thread_'[u], i < j
        PROVE  orders_for_thread_'[u][i] < orders_for_thread_'[u][j]
    <3>1. DOMAIN orders_for_thread_'[u] = 1 .. Len(orders_for_thread_'[u])
      BY <1>6
    <3>2. i \in DOMAIN orders_for_thread_[u]
          /\ orders_for_thread_'[u][i] = orders_for_thread_[u][i]
      BY <1>11, <2>2, <3>1
    <3>3. CASE j \in DOMAIN orders_for_thread_[u]
               /\ orders_for_thread_'[u][j] = orders_for_thread_[u][j]
      BY <1>1, <2>2, <3>2, <3>3 DEF QueuesOrdered
    <3>4. CASE orders_for_thread_'[u][j] = o
      BY <1>3, <1>12, <3>2, <3>4 DEF o
    <3> QED BY <1>11, <3>3, <3>4
  <2>3. \A u \in Requests!Thread : \A i \in DOMAIN orders_for_thread_'[u] :
          WillBeFor(orders_for_thread_'[u][i], u)
    BY <2>1
  <2>4. \A u \in Requests!Thread : \A i \in DOMAIN orders_for_thread_'[u] :
          \A j \in DOMAIN orders_for_thread_'[u] :
            i < j => orders_for_thread_'[u][i] < orders_for_thread_'[u][j]
    BY <2>2
  <2> QED BY <2>3, <2>4, SendingFrame DEF QueuesOrdered, IsFor, WillBeFor
<1>15. PlacedOrdered'
  BY <1>0, <1>1 DEF PlacedOrdered
<1>16. AllSent'
  <2>1. PICK q, r, f, e : /\ q = orders_for_thread_ /\ r = orders_for_thread_'
                          /\ f = Work /\ e = Work'
    OBVIOUS
  <2>2. \A u \in Requests!Thread :
          /\ server_index[u] \in Nat /\ Len(q[u]) \in Nat
          /\ f[u] = server_index[u] + Len(q[u])
          /\ e[u] = server_index[u] + Len(r[u])
    <3>1. /\ server_index \in [Requests!Thread -> Nat]
          /\ orders_for_thread_ \in [Requests!Thread -> Seq(Nat)]
          /\ server_index' = server_index
      BY <1>0, <1>1 DEF SendTypes
    <3> QED BY <2>1, <3>1 DEF Work
  <2>3. /\ \A u \in Requests!Thread : f[u] \in Int
        /\ e[t] = f[t] + 1
        /\ \A u \in Requests!Thread \ {t} : e[u] = f[u]
    <3>1. /\ Len(r[t]) = Len(q[t]) + 1
          /\ \A u \in Requests!Thread : u # t => r[u] = q[u]
      BY <1>6, <2>1
    <3> QED BY <2>2, <3>1
  <2>4. SumFunctionOnSet(e, Requests!Thread) = SumFunctionOnSet(f, Requests!Thread) + 1
    BY <2>3, SumChange, ThreadsFinite
  <2>5. SumFunctionOnSet(f, Requests!Thread) + Len(orders_) = Requests!Selected
    BY <1>1, <2>1 DEF AllSent
  <2>6. SumFunctionOnSet(f, Requests!Thread) \in Int
    BY <2>3, SumType, ThreadsFinite
  <2>7. SumFunctionOnSet(e, Requests!Thread) + Len(orders_') = Requests!Selected
    BY <1>3, <2>4, <2>5, <2>6
  <2> QED BY <1>2, <2>1, <2>7 DEF AllSent
<1> QED BY <1>7, <1>8, <1>9, <1>13, <1>14, <1>15, <1>16, SendingFrame DEF SendingInv

LEMMA SendingPhase ==
  ASSUME WritingInv, SendingInv, PlaceRequests,
         Requests!StartThreads \/ Requests!JoinThreads
  PROVE  SendingInv'
<1>1. /\ \/ main = "deal" /\ orders_ = <<>> /\ main' = "join"
         \/ main = "join" /\ finished = Requests!Thread /\ main' = "report"
      /\ UNCHANGED <<orders_, symbol_to_thread_, thread_num_now, orders_for_thread_,
                     server_index, count_each_server, finished, requests_count_,
                     count_each_server_, placed, succeeded>>
  BY DEF Requests!StartThreads, Requests!JoinThreads, Requests!deal, Requests!totals
<1>2. SendTypes'
  BY <1>1 DEF SendingInv, SendTypes
<1>3. Phases'
  BY <1>1 DEF SendingInv, Phases
<1>4. Counted'
  BY <1>1 DEF SendingInv, Counted, Successes
<1>5. DealtInOrder' /\ QueuesOrdered' /\ PlacedOrdered' /\ AllSent'
  <2>1. DealtInOrder /\ QueuesOrdered /\ PlacedOrdered /\ AllSent
    BY <1>1 DEF SendingInv
  <2>2. GetOrders' = GetOrders /\ Requests!Selected' = Requests!Selected
    BY SendingFrame
  <2> QED BY <1>1, <2>1, <2>2 DEF DealtInOrder, QueuesOrdered, PlacedOrdered, AllSent,
                                  Work, Dealt, IsFor, Latest
<1> QED BY <1>2, <1>3, <1>4, <1>5, SendingFrame DEF SendingInv

\* What sending the first order o of thread t does: n of its requests
\* succeed, none or one, and no request succeeds that has not arrived.
Sends(t, o, n) ==
  /\ main = "join" /\ main' = "join"
  /\ orders_for_thread_[t] # <<>> /\ o = Head(orders_for_thread_[t])
  /\ n \in 0 .. 1 /\ placed' \in {placed, Append(placed, o)}
  /\ n = 1 => placed' = Append(placed, o)
  /\ count_each_server' = [count_each_server EXCEPT ![t][server_index[t] % Servers] = @ + n]
  /\ succeeded' = succeeded + n
  /\ orders_for_thread_' = [orders_for_thread_ EXCEPT ![t] = Tail(@)]
  /\ server_index' = [server_index EXCEPT ![t] = @ + 1]
  /\ UNCHANGED <<orders_, symbol_to_thread_, thread_num_now, finished, requests_count_,
                 count_each_server_>>

LEMMA SendRequestFacts ==
  ASSUME NEW t \in Requests!Thread, Requests!SendRequest(t)
  PROVE  \E o, n : Sends(t, o, n)
<1>1. PICK arrived \in BOOLEAN, ok \in BOOLEAN :
        /\ ok => arrived
        /\ placed' = IF arrived THEN Append(placed, Head(orders_for_thread_[t])) ELSE placed
        /\ count_each_server' = [count_each_server EXCEPT
                                   ![t][server_index[t] % Servers] = @ + (IF ok THEN 1 ELSE 0)]
        /\ succeeded' = succeeded + (IF ok THEN 1 ELSE 0)
  BY DEF Requests!SendRequest
<1>2. PICK o, n : o = Head(orders_for_thread_[t]) /\ n = IF ok THEN 1 ELSE 0
  OBVIOUS
<1>3. /\ n \in 0 .. 1 /\ placed' \in {placed, Append(placed, o)}
      /\ n = 1 => placed' = Append(placed, o)
  BY <1>1, <1>2
<1>4. /\ count_each_server' = [count_each_server EXCEPT
                                 ![t][server_index[t] % Servers] = @ + n]
      /\ succeeded' = succeeded + n
  BY <1>1, <1>2
<1>5. Sends(t, o, n)
  BY <1>2, <1>3, <1>4 DEF Sends, Requests!SendRequest, Requests!deal, Requests!totals
<1> QED BY <1>5

\* The queues after a request.
LEMMA SentQueues ==
  ASSUME SendTypes, NEW t \in Requests!Thread, NEW o, NEW n, Sends(t, o, n)
  PROVE  /\ o \in Nat /\ 1 \in DOMAIN orders_for_thread_[t] /\ o = orders_for_thread_[t][1]
         /\ orders_for_thread_' \in [Requests!Thread -> Seq(Nat)]
         /\ \A u \in Requests!Thread : u # t => orders_for_thread_'[u] = orders_for_thread_[u]
         /\ Len(orders_for_thread_'[t]) + 1 = Len(orders_for_thread_[t])
         /\ \A i \in DOMAIN orders_for_thread_'[t] :
              /\ i \in Nat \ {0} /\ i + 1 \in DOMAIN orders_for_thread_[t]
              /\ orders_for_thread_'[t][i] = orders_for_thread_[t][i + 1]
<1>1. /\ orders_for_thread_ \in [Requests!Thread -> Seq(Nat)]
      /\ orders_for_thread_[t] # <<>> /\ o = Head(orders_for_thread_[t])
      /\ orders_for_thread_' = [orders_for_thread_ EXCEPT ![t] = Tail(@)]
  BY DEF SendTypes, Sends
<1>2. PICK q, r : q = orders_for_thread_[t] /\ r = orders_for_thread_'[t]
  OBVIOUS
<1>3. q \in Seq(Nat) /\ q # <<>> /\ r = Tail(q) /\ o = Head(q)
  BY <1>1, <1>2
<1>4. /\ o \in Nat /\ 1 \in DOMAIN q /\ o = q[1] /\ r \in Seq(Nat)
      /\ Len(r) + 1 = Len(q)
      /\ \A i \in DOMAIN r : i \in Nat \ {0} /\ i + 1 \in DOMAIN q /\ r[i] = q[i + 1]
  BY <1>3
<1>5. \A u \in Requests!Thread : u # t => orders_for_thread_'[u] = orders_for_thread_[u]
  BY <1>1
<1>6. orders_for_thread_' \in [Requests!Thread -> Seq(Nat)]
  BY <1>1, <1>2, <1>4
<1> QED BY <1>2, <1>4, <1>5, <1>6

\* What r holds: what p does, and perhaps o at the end.
GrownBy(r, p, o) ==
  \A i \in DOMAIN r : \/ i \in DOMAIN p /\ r[i] = p[i]
                      \/ i = Len(r) /\ i \notin DOMAIN p /\ r[i] = o

\* A sequence of numbers after at most one more.
LEMMA GrownSeq ==
  ASSUME NEW p \in Seq(Nat), NEW o \in Nat, NEW r, r = p \/ r = Append(p, o)
  PROVE  /\ r \in Seq(Nat) /\ Len(p) \in Nat /\ Len(r) \in Nat /\ Len(p) <= Len(r)
         /\ DOMAIN r = 1 .. Len(r)
         /\ GrownBy(r, p, o)
<1>1. CASE r = p
  BY <1>1 DEF GrownBy
<1>2. CASE r = Append(p, o)
  BY <1>2 DEF GrownBy
<1> QED BY <1>1, <1>2

\* The counts after a request.
LEMMA SentCounts ==
  ASSUME SendTypes, Phases, Counted, NEW t \in Requests!Thread, NEW o, NEW n,
         Sends(t, o, n)
  PROVE  /\ count_each_server' \in [Requests!Thread -> [Requests!Server -> Nat]]
         /\ server_index' \in [Requests!Thread -> Nat]
         /\ placed' \in Seq(Nat) /\ succeeded' \in Nat
         /\ Counted'
<1>1. /\ n \in 0 .. 1 /\ n \in Int /\ succeeded' = succeeded + n /\ succeeded \in Nat
      /\ count_each_server' = [count_each_server EXCEPT ![t][server_index[t] % Servers] = @ + n]
      /\ server_index' = [server_index EXCEPT ![t] = @ + 1]
      /\ UNCHANGED <<finished, requests_count_, count_each_server_>>
  BY DEF Sends, SendTypes
<1>2. /\ count_each_server \in [Requests!Thread -> [Requests!Server -> Nat]]
      /\ server_index \in [Requests!Thread -> Nat] /\ placed \in Seq(Nat)
      /\ finished \in SUBSET Requests!Thread
  BY DEF SendTypes
<1>3. PICK k : k = server_index[t] % Servers /\ k \in Requests!Server
  BY <1>2, ThreadsFinite
<1>4. PICK c, d : c = count_each_server[t] /\ d = count_each_server'[t]
  OBVIOUS
<1>5. /\ c \in [Requests!Server -> Nat] /\ d = [c EXCEPT ![k] = @ + n]
      /\ \A u \in Requests!Thread : u # t => count_each_server'[u] = count_each_server[u]
  BY <1>1, <1>2, <1>3, <1>4
<1>6. /\ d \in [Requests!Server -> Nat] /\ d[k] = c[k] + n
      /\ \A s \in Requests!Server : c[s] \in Int
      /\ \A s \in Requests!Server \ {k} : d[s] = c[s]
  BY <1>1, <1>3, <1>5
<1>7. count_each_server' \in [Requests!Thread -> [Requests!Server -> Nat]]
  BY <1>1, <1>2, <1>4, <1>6
<1>8. SumFunctionOnSet(d, Requests!Server) = SumFunctionOnSet(c, Requests!Server) + n
  BY <1>1, <1>3, <1>6, SumChange, ThreadsFinite
<1>9. PICK f, e : f = Successes /\ e = Successes'
  OBVIOUS
<1>10. \A u \in Requests!Thread :
         /\ f[u] = SumFunctionOnSet(count_each_server[u], Requests!Server)
         /\ e[u] = SumFunctionOnSet(count_each_server'[u], Requests!Server)
  BY <1>9 DEF Successes
<1>11. \A u \in Requests!Thread : f[u] \in Int
  <2> TAKE u \in Requests!Thread
  <2>1. \A s \in Requests!Server : count_each_server[u][s] \in Int
    BY <1>2
  <2>2. SumFunctionOnSet(count_each_server[u], Requests!Server) \in Int
    BY <2>1, SumType, ThreadsFinite
  <2> QED BY <1>10, <2>2
<1>12. /\ e[t] = f[t] + n
       /\ \A u \in Requests!Thread \ {t} : e[u] = f[u]
  BY <1>4, <1>5, <1>8, <1>10
<1>13. SumFunctionOnSet(e, Requests!Thread) = SumFunctionOnSet(f, Requests!Thread) + n
  BY <1>1, <1>11, <1>12, SumChange, ThreadsFinite
<1>14. SumFunctionOnSet(e, finished) = SumFunctionOnSet(f, finished)
  <2>1. t \notin finished
    BY DEF Phases, Sends
  <2>2. \A u \in finished : e[u] = f[u]
    BY <1>2, <1>12, <2>1
  <2>3. IsFiniteSet(finished)
    BY <1>2, ThreadsFinite, FS_Subset
  <2> QED BY <2>2, <2>3, SumAgrees
<1>15. /\ succeeded = SumFunctionOnSet(f, Requests!Thread)
       /\ requests_count_ = SumFunctionOnSet(f, finished)
       /\ finished = {} => count_each_server_ = <<>>
       /\ finished # {} =>
            /\ count_each_server_ \in [Requests!Server -> Nat]
            /\ SumFunctionOnSet(count_each_server_, Requests!Server) = requests_count_
       /\ succeeded <= Len(placed)
  BY <1>9 DEF Counted
<1>16. placed' \in Seq(Nat) /\ succeeded' <= Len(placed')
  <2>1. o \in Nat
    BY SentQueues
  <2>2. CASE n = 1
    <3>1. placed' = Append(placed, o)
      BY <2>2 DEF Sends
    <3> QED BY <1>1, <1>2, <1>15, <2>1, <2>2, <3>1
  <2>3. CASE n = 0
    <3>1. placed' = placed \/ placed' = Append(placed, o)
      BY DEF Sends
    <3>2. placed' \in Seq(Nat) /\ Len(placed) <= Len(placed')
      BY <1>2, <2>1, <3>1, GrownSeq
    <3>3. Len(placed) \in Nat /\ Len(placed') \in Nat /\ succeeded' = succeeded
      BY <1>1, <1>2, <2>3, <3>2
    <3> QED BY <1>1, <1>15, <3>2, <3>3
  <2> QED BY <1>1, <2>2, <2>3
<1>17. server_index' \in [Requests!Thread -> Nat] /\ succeeded' \in Nat
  BY <1>1, <1>2
<1>18. Counted'
  BY <1>1, <1>9, <1>13, <1>14, <1>15, <1>16 DEF Counted
<1> QED BY <1>7, <1>16, <1>17, <1>18

\* The orders after a request: the one sent comes after all that its thread
\* has placed, and before all that it has still to send.
LEMMA SentOrders ==
  ASSUME SendTypes, DealtInOrder, QueuesOrdered, PlacedOrdered, AllSent,
         NEW t \in Requests!Thread, NEW o, NEW n, Sends(t, o, n),
         GetOrders' = GetOrders, Requests!Selected' = Requests!Selected
  PROVE  DealtInOrder' /\ QueuesOrdered' /\ PlacedOrdered' /\ AllSent'
<1>1. /\ o \in Nat /\ 1 \in DOMAIN orders_for_thread_[t] /\ o = orders_for_thread_[t][1]
      /\ orders_for_thread_' \in [Requests!Thread -> Seq(Nat)]
      /\ \A u \in Requests!Thread : u # t => orders_for_thread_'[u] = orders_for_thread_[u]
      /\ Len(orders_for_thread_'[t]) + 1 = Len(orders_for_thread_[t])
      /\ \A i \in DOMAIN orders_for_thread_'[t] :
           /\ i \in Nat \ {0} /\ i + 1 \in DOMAIN orders_for_thread_[t]
           /\ orders_for_thread_'[t][i] = orders_for_thread_[t][i + 1]
  BY SentQueues
<1>2. /\ UNCHANGED <<orders_, symbol_to_thread_>>
      /\ placed' \in {placed, Append(placed, o)}
      /\ server_index' = [server_index EXCEPT ![t] = @ + 1]
  BY DEF Sends
<1>3. /\ server_index \in [Requests!Thread -> Nat] /\ placed \in Seq(Nat)
      /\ orders_for_thread_ \in [Requests!Thread -> Seq(Nat)]
  BY DEF SendTypes
\* The elements of the queues were there before, in the same order.
<1>4. ASSUME NEW u \in Requests!Thread, NEW i \in DOMAIN orders_for_thread_'[u]
      PROVE  \E k \in DOMAIN orders_for_thread_[u] :
               /\ orders_for_thread_'[u][i] = orders_for_thread_[u][k]
               /\ k = IF u = t THEN i + 1 ELSE i
  BY <1>1
\* What has been placed: as before, and perhaps o at the end.
<1>5. \A i \in DOMAIN placed' :
        \/ i \in DOMAIN placed /\ placed'[i] = placed[i]
        \/ i = Len(placed') /\ i \notin DOMAIN placed /\ placed'[i] = o
  <2>1. placed \in Seq(Nat) /\ o \in Nat /\ (placed' = placed \/ placed' = Append(placed, o))
    BY <1>1, <1>2, <1>3
  <2>2. GrownBy(placed', placed, o)
    BY <2>1, GrownSeq
  <2> QED BY <2>2 DEF GrownBy
<1>6. /\ \A x, u : IsFor(x, u)' <=> IsFor(x, u)
      /\ Dealt' = Dealt
  BY <1>2 DEF IsFor, Dealt
<1>7. DealtInOrder'
  <2>1. /\ Latest(orders_, Len(orders_), Requests!Selected)
        /\ \A u \in Requests!Thread : \A i \in DOMAIN orders_for_thread_[u] :
             orders_for_thread_[u][i] \in 1 .. Dealt
        /\ \A i \in DOMAIN placed : placed[i] \in 1 .. Dealt
    BY DEF DealtInOrder
  <2>2. Latest(orders_', Len(orders_'), Requests!Selected')
    BY <1>2, <2>1
  <2>3. \A u \in Requests!Thread : \A i \in DOMAIN orders_for_thread_'[u] :
          orders_for_thread_'[u][i] \in 1 .. Dealt'
    BY <1>4, <1>6, <2>1
  <2>4. o \in 1 .. Dealt
    BY <1>1, <2>1
  <2>5. \A i \in DOMAIN placed' : placed'[i] \in 1 .. Dealt'
    BY <1>5, <1>6, <2>1, <2>4
  <2> QED BY <2>2, <2>3, <2>5 DEF DealtInOrder
<1>8. QueuesOrdered'
  <2>1. ASSUME NEW u \in Requests!Thread, NEW i \in DOMAIN orders_for_thread_'[u]
        PROVE  IsFor(orders_for_thread_'[u][i], u)
    <3>1. PICK k \in DOMAIN orders_for_thread_[u] :
            orders_for_thread_'[u][i] = orders_for_thread_[u][k]
      BY <1>4
    <3>2. IsFor(orders_for_thread_[u][k], u)
      BY DEF QueuesOrdered
    <3> QED BY <3>1, <3>2
  <2>2. ASSUME NEW u \in Requests!Thread, NEW i \in DOMAIN orders_for_thread_'[u],
               NEW j \in DOMAIN orders_for_thread_'[u], i < j
        PROVE  orders_for_thread_'[u][i] < orders_for_thread_'[u][j]
    <3>1. DOMAIN orders_for_thread_'[u] = 1 .. Len(orders_for_thread_'[u])
      BY <1>1
    <3>2. PICK k \in DOMAIN orders_for_thread_[u] :
            /\ orders_for_thread_'[u][i] = orders_for_thread_[u][k]
            /\ k = IF u = t THEN i + 1 ELSE i
      BY <1>4
    <3>3. PICK l \in DOMAIN orders_for_thread_[u] :
            /\ orders_for_thread_'[u][j] = orders_for_thread_[u][l]
            /\ l = IF u = t THEN j + 1 ELSE j
      BY <1>4
    <3>4. k < l
      BY <2>2, <3>1, <3>2, <3>3
    <3>5. orders_for_thread_[u][k] < orders_for_thread_[u][l]
      BY <3>4 DEF QueuesOrdered
    <3> QED BY <3>2, <3>3, <3>5
  <2> QED BY <1>6, <2>1, <2>2 DEF QueuesOrdered
<1>9. PlacedOrdered'
  <2>0. IsFor(o, t)
    BY <1>1 DEF QueuesOrdered
  <2>1. ASSUME NEW i \in DOMAIN placed, i \in DOMAIN placed', placed'[i] = placed[i]
        PROVE  \E u \in Requests!Thread :
                 /\ IsFor(placed'[i], u)
                 /\ \A j \in DOMAIN orders_for_thread_'[u] :
                      placed'[i] < orders_for_thread_'[u][j]
                 /\ \A j \in DOMAIN placed' :
                      i < j /\ IsFor(placed'[j], u) => placed'[i] < placed'[j]
    <3>1. PICK u \in Requests!Thread :
            /\ IsFor(placed[i], u)
            /\ \A j \in DOMAIN orders_for_thread_[u] : placed[i] < orders_for_thread_[u][j]
            /\ \A j \in DOMAIN placed : i < j /\ IsFor(placed[j], u) => placed[i] < placed[j]
      BY DEF PlacedOrdered
    <3>2. \A j \in DOMAIN orders_for_thread_'[u] : placed'[i] < orders_for_thread_'[u][j]
      BY <1>4, <2>1, <3>1
    <3>3. ASSUME NEW j \in DOMAIN placed', i < j, IsFor(placed'[j], u)
          PROVE  placed'[i] < placed'[j]
      <4>1. CASE j \in DOMAIN placed /\ placed'[j] = placed[j]
        BY <2>1, <3>1, <3>3, <4>1
      <4>2. CASE placed'[j] = o
        <5>1. u = t
          BY <2>0, <3>3, <4>2 DEF IsFor
        <5> QED BY <1>1, <2>1, <3>1, <4>2, <5>1
      <4> QED BY <1>5, <4>1, <4>2
    <3>4. IsFor(placed'[i], u)
      BY <2>1, <3>1
    <3> QED BY <3>2, <3>3, <3>4
  <2>2. ASSUME NEW i \in DOMAIN placed', i = Len(placed'), placed'[i] = o
        PROVE  \E u \in Requests!Thread :
                 /\ IsFor(placed'[i], u)
                 /\ \A j \in DOMAIN orders_for_thread_'[u] :
                      placed'[i] < orders_for_thread_'[u][j]
                 /\ \A j \in DOMAIN placed' :
                      i < j /\ IsFor(placed'[j], u) => placed'[i] < placed'[j]
    <3>1. ASSUME NEW j \in DOMAIN orders_for_thread_'[t]
          PROVE  o < orders_for_thread_'[t][j]
      <4>1. /\ j + 1 \in DOMAIN orders_for_thread_[t] /\ 1 < j + 1
            /\ orders_for_thread_'[t][j] = orders_for_thread_[t][j + 1]
        BY <1>1
      <4>2. orders_for_thread_[t][1] < orders_for_thread_[t][j + 1]
        BY <1>1, <4>1 DEF QueuesOrdered
      <4> QED BY <1>1, <4>1, <4>2
    <3>2. DOMAIN placed' = 1 .. Len(placed') /\ Len(placed') \in Nat
      BY <1>1, <1>2, <1>3, GrownSeq
    <3>3. ASSUME NEW j \in DOMAIN placed', i < j
          PROVE  FALSE
      BY <2>2, <3>2, <3>3
    <3> QED BY <2>0, <2>2, <3>1, <3>3
  <2> QED BY <1>5, <1>6, <2>1, <2>2 DEF PlacedOrdered
<1>10. AllSent'
  <2>1. PICK q, r, s, f, e : /\ q = orders_for_thread_ /\ r = orders_for_thread_'
                             /\ s = server_index /\ f = Work /\ e = Work'
    OBVIOUS
  <2>2. \A u \in Requests!Thread :
          /\ s[u] \in Nat /\ Len(q[u]) \in Nat /\ Len(r[u]) \in Nat
          /\ f[u] = s[u] + Len(q[u])
          /\ e[u] = (IF u = t THEN s[u] + 1 ELSE s[u]) + Len(r[u])
    BY <1>1, <1>2, <1>3, <2>1 DEF Work
  <2>3. Len(r[t]) + 1 = Len(q[t]) /\ \A u \in Requests!Thread : u # t => r[u] = q[u]
    BY <1>1, <2>1
  <2>4. \A u \in Requests!Thread : e[u] = f[u]
    BY <2>2, <2>3
  <2>5. SumFunctionOnSet(e, Requests!Thread) = SumFunctionOnSet(f, Requests!Thread)
    BY <2>4, SumAgrees, ThreadsFinite
  <2> QED BY <1>2, <2>1, <2>5 DEF AllSent
<1> QED BY <1>7, <1>8, <1>9, <1>10

LEMMA SendingRequest ==
  ASSUME WritingInv, SendingInv, PlaceRequests,
         NEW t \in Requests!Thread, Requests!SendRequest(t)
  PROVE  SendingInv'
<1>1. PICK o, n : Sends(t, o, n)
  BY SendRequestFacts
<1>2. /\ SendTypes /\ Phases /\ Counted
      /\ main = "join" /\ main' = "join"
      /\ DealtInOrder /\ QueuesOrdered /\ PlacedOrdered /\ AllSent
  BY <1>1 DEF SendingInv, Sends
<1>3. /\ count_each_server' \in [Requests!Thread -> [Requests!Server -> Nat]]
      /\ server_index' \in [Requests!Thread -> Nat]
      /\ placed' \in Seq(Nat) /\ succeeded' \in Nat
      /\ Counted'
  BY <1>1, <1>2, SentCounts
<1>4. /\ orders_for_thread_' \in [Requests!Thread -> Seq(Nat)]
      /\ \A u \in Requests!Thread : u # t => orders_for_thread_'[u] = orders_for_thread_[u]
  BY <1>1, <1>2, SentQueues
<1>5. UNCHANGED <<orders_, symbol_to_thread_, thread_num_now, finished, requests_count_>>
  BY <1>1 DEF Sends
<1>6. SendTypes'
  BY <1>2, <1>3, <1>4, <1>5 DEF SendTypes
<1>7. Phases'
  <2>1. t \notin finished
    BY <1>1, <1>2 DEF Phases, Sends
  <2>2. \A u \in finished' : orders_for_thread_'[u] = <<>>
    BY <1>2, <1>4, <1>5, <2>1 DEF Phases, SendTypes
  <2> QED BY <1>2, <1>5, <2>2 DEF Phases
<1>8. DealtInOrder' /\ QueuesOrdered' /\ PlacedOrdered' /\ AllSent'
  BY <1>1, <1>2, SendingFrame, SentOrders
<1> QED BY <1>2, <1>3, <1>6, <1>7, <1>8, SendingFrame DEF SendingInv

\* A thread adds what it has counted, per order manager and in all.
LEMMA AddedCounts ==
  ASSUME SendTypes, Counted, NEW t \in Requests!Thread, Requests!AddCounts(t)
  PROVE  requests_count_' \in Nat /\ Counted'
<1>1. /\ t \notin finished /\ finished' = finished \cup {t}
      /\ requests_count_' = requests_count_ + Requests!Sum(count_each_server[t])
      /\ count_each_server_' =
           IF count_each_server_ = <<>> THEN count_each_server[t]
           ELSE [s \in Requests!Server |-> count_each_server_[s] + count_each_server[t][s]]
      /\ UNCHANGED <<count_each_server, placed, succeeded>>
  BY DEF Requests!AddCounts
<1>2. /\ count_each_server \in [Requests!Thread -> [Requests!Server -> Nat]]
      /\ finished \in SUBSET Requests!Thread /\ requests_count_ \in Nat
  BY DEF SendTypes
<1>3. PICK c, f : c = count_each_server[t] /\ f = Successes
  OBVIOUS
<1>4. /\ c \in [Requests!Server -> Nat] /\ DOMAIN c = Requests!Server
      /\ \A s \in Requests!Server : c[s] \in Nat /\ c[s] \in Int
  BY <1>2, <1>3
<1>5. Requests!Sum(c) = SumFunctionOnSet(c, Requests!Server)
  BY <1>4, SumInGenerator
<1>6. \A u \in Requests!Thread :
        /\ f[u] = SumFunctionOnSet(count_each_server[u], Requests!Server)
        /\ f[u] \in Nat
  <2> TAKE u \in Requests!Thread
  <2>1. \A s \in Requests!Server :
          count_each_server[u][s] \in Int /\ count_each_server[u][s] \in Nat
    BY <1>2
  <2>2. SumFunctionOnSet(count_each_server[u], Requests!Server) \in Nat
    BY <2>1, SumType, ThreadsFinite
  <2>3. f[u] = SumFunctionOnSet(count_each_server[u], Requests!Server)
    BY <1>3 DEF Successes
  <2> QED BY <2>2, <2>3
<1>7. requests_count_' = requests_count_ + f[t] /\ f[t] = SumFunctionOnSet(c, Requests!Server)
  BY <1>1, <1>3, <1>5, <1>6
<1>8. /\ succeeded = SumFunctionOnSet(f, Requests!Thread)
      /\ requests_count_ = SumFunctionOnSet(f, finished)
      /\ finished = {} => count_each_server_ = <<>>
      /\ finished # {} =>
           /\ count_each_server_ \in [Requests!Server -> Nat]
           /\ SumFunctionOnSet(count_each_server_, Requests!Server) = requests_count_
      /\ succeeded <= Len(placed)
  BY <1>3 DEF Counted
<1>9. SumFunctionOnSet(f, finished') = SumFunctionOnSet(f, finished) + f[t]
  <2>1. IsFiniteSet(finished)
    BY <1>2, ThreadsFinite, FS_Subset
  <2>2. f[t] \in Int /\ \A u \in finished : f[u] \in Int
    BY <1>2, <1>6
  <2> QED BY <1>1, <2>1, <2>2, SumAdd
<1>10. /\ count_each_server_' \in [Requests!Server -> Nat]
       /\ SumFunctionOnSet(count_each_server_', Requests!Server) = requests_count_'
  <2>1. CASE finished = {}
    <3>1. count_each_server_' = c
      BY <1>1, <1>3, <1>8, <2>1
    <3>2. requests_count_ = 0
      BY <1>8, <2>1, SumEmpty
    <3> QED BY <1>4, <1>6, <1>7, <3>1, <3>2
  <2>2. CASE finished # {}
    <3>1. PICK d, e : d = count_each_server_ /\ e = count_each_server_'
      OBVIOUS
    <3>2. d \in [Requests!Server -> Nat] /\ d # <<>>
      <4>1. d \in [Requests!Server -> Nat] /\ 0 \in DOMAIN d
        BY <1>8, <2>2, <3>1, ThreadsFinite
      <4>2. 0 \notin DOMAIN <<>>
        OBVIOUS
      <4> QED BY <4>1, <4>2
    <3>3. e = [s \in Requests!Server |-> d[s] + c[s]]
      BY <1>1, <1>3, <3>1, <3>2
    <3>4. \A s \in Requests!Server : d[s] \in Int /\ c[s] \in Int /\ e[s] = d[s] + c[s]
      BY <1>4, <3>2, <3>3
    <3>5. SumFunctionOnSet(e, Requests!Server)
            = SumFunctionOnSet(d, Requests!Server) + SumFunctionOnSet(c, Requests!Server)
      BY <3>4, SumPlus, ThreadsFinite
    <3>6. e \in [Requests!Server -> Nat]
      BY <1>4, <3>2, <3>3
    <3> QED BY <1>7, <1>8, <2>2, <3>1, <3>5, <3>6
  <2> QED BY <2>1, <2>2
<1>11. Successes' = f
  BY <1>1, <1>3 DEF Successes
<1>12. requests_count_' \in Nat
  BY <1>2, <1>6, <1>7
<1>13. finished' # {}
  BY <1>1
<1> QED BY <1>1, <1>7, <1>8, <1>9, <1>10, <1>11, <1>12, <1>13 DEF Counted

LEMMA SendingAdd ==
  ASSUME WritingInv, SendingInv, PlaceRequests,
         NEW t \in Requests!Thread, Requests!AddCounts(t)
  PROVE  SendingInv'
<1>1. /\ main = "join" /\ orders_for_thread_[t] = <<>> /\ finished' = finished \cup {t}
      /\ UNCHANGED <<main, orders_, symbol_to_thread_, thread_num_now, orders_for_thread_,
                     server_index, count_each_server, placed, succeeded>>
  BY DEF Requests!AddCounts, Requests!deal
<1>2. /\ SendTypes /\ Phases /\ Counted
      /\ DealtInOrder /\ QueuesOrdered /\ PlacedOrdered /\ AllSent
  BY <1>1 DEF SendingInv
<1>3. requests_count_' \in Nat /\ Counted'
  BY <1>2, AddedCounts
<1>4. SendTypes'
  BY <1>1, <1>2, <1>3 DEF SendTypes
<1>5. Phases'
  BY <1>1, <1>2 DEF Phases, SendTypes
<1>6. DealtInOrder' /\ QueuesOrdered' /\ PlacedOrdered' /\ AllSent'
  <2>1. GetOrders' = GetOrders /\ Requests!Selected' = Requests!Selected
    BY SendingFrame
  <2> QED BY <1>1, <1>2, <2>1 DEF DealtInOrder, QueuesOrdered, PlacedOrdered, AllSent,
                                  Work, Dealt, IsFor, Latest
<1> QED BY <1>1, <1>3, <1>4, <1>5, <1>6, SendingFrame DEF SendingInv

LEMMA SendingAlways == ProgramsSpec => [](WritingInv /\ SendingInv)
<1>1. ProgramsInit => SendingInv
  BY SendingInit
<1>2. ASSUME WritingInv, SendingInv, [ProgramsNext]_all
      PROVE  SendingInv'
  <2>1. CASE PlaceRequests
    <3>1. CASE Requests!PrepareOrders
      BY <1>2, <2>1, <3>1, SendingPrepare
    <3>2. CASE Requests!DealOrder
      BY <1>2, <2>1, <3>2, SendingDeal
    <3>3. CASE Requests!StartThreads \/ Requests!JoinThreads
      BY <1>2, <2>1, <3>3, SendingPhase
    <3>4. ASSUME NEW t \in Requests!Thread, Requests!SendRequest(t)
          PROVE  SendingInv'
      BY <1>2, <2>1, <3>4, SendingRequest
    <3>5. ASSUME NEW t \in Requests!Thread, Requests!AddCounts(t)
          PROVE  SendingInv'
      BY <1>2, <2>1, <3>5, SendingAdd
    <3> QED BY <2>1, <3>1, <3>2, <3>3, <3>4, <3>5 DEF PlaceRequests, Requests!Next
  <2>2. CASE ReadTrade \/ CreateOrder \/ MainReturns \/ WriterThread \/ UNCHANGED all
    BY <1>2, <2>2, OthersStay
  <2> QED BY <1>2, <2>1, <2>2 DEF ProgramsNext
<1>3. ProgramsSpec => []WritingInv
  BY WritingAlways
<1> QED BY <1>1, <1>2, <1>3, PTL DEF ProgramsSpec

\* The orders of a symbol come to the order managers in the order of the
\* database, each at most once, whatever threads and failures do.
THEOREM OrdersKeepTheirOrder == ProgramsSpec => []SymbolsInOrder
<1>1. ASSUME SendingInv, NEW i \in DOMAIN placed, NEW j \in DOMAIN placed, i < j,
             GetOrders[placed[i]] = GetOrders[placed[j]]
      PROVE  placed[i] < placed[j]
  <2>1. CASE main \in {"prepare", "deal"}
    <3>1. placed = <<>>
      BY <1>1, <2>1 DEF SendingInv, Phases
    <3> QED BY <1>1, <3>1
  <2>2. CASE main \notin {"prepare", "deal"}
    <3>1. PICK t \in Requests!Thread :
            /\ IsFor(placed[i], t)
            /\ \A k \in DOMAIN placed : i < k /\ IsFor(placed[k], t) => placed[i] < placed[k]
      BY <1>1, <2>2 DEF SendingInv, PlacedOrdered
    <3>2. IsFor(placed[j], t)
      BY <1>1, <3>1 DEF IsFor
    <3> QED BY <1>1, <3>1, <3>2
  <2> QED BY <2>1, <2>2
<1>2. SendingInv => SymbolsInOrder
  BY <1>1 DEF SymbolsInOrder, Requests!SymbolsInOrder
<1> QED BY <1>2, SendingAlways, PTL

\* The totals reported are those of the requests that succeeded, per order
\* manager and in all, and every order selected was sent.
THEOREM TotalsAreRight == ProgramsSpec => []RequestsCounted
<1>1. ASSUME SendingInv, main = "report"
      PROVE  /\ requests_count_ = succeeded
             /\ Requests!Sum(count_each_server_) = succeeded
             /\ Requests!Sum(server_index) = Requests!Selected
  <2>1. /\ SendTypes /\ Counted /\ AllSent /\ orders_ = <<>>
        /\ finished = Requests!Thread /\ finished # {}
        /\ \A t \in Requests!Thread : orders_for_thread_[t] = <<>>
    BY <1>1, ThreadsFinite DEF SendingInv, Phases
  <2>2. requests_count_ = succeeded
    BY <2>1 DEF Counted
  <2>3. /\ DOMAIN count_each_server_ = Requests!Server
        /\ SumFunctionOnSet(count_each_server_, Requests!Server) = succeeded
    BY <2>1, <2>2 DEF Counted
  <2>4. /\ DOMAIN server_index = Requests!Thread
        /\ \A t \in Requests!Thread : Work[t] = server_index[t]
    BY <2>1 DEF SendTypes, Work
  <2>5. SumFunctionOnSet(Work, Requests!Thread) = SumFunctionOnSet(server_index, Requests!Thread)
    BY <2>4, SumAgrees, ThreadsFinite
  <2>6. SumFunctionOnSet(Work, Requests!Thread) = Requests!Selected
    <3>1. \A t \in Requests!Thread : server_index[t] \in Int
      BY <2>1 DEF SendTypes
    <3>2. SumFunctionOnSet(server_index, Requests!Thread) \in Int
      BY <3>1, SumType, ThreadsFinite
    <3>3. Len(orders_) = 0
      BY <2>1
    <3> QED BY <2>1, <2>5, <3>2, <3>3 DEF AllSent
  <2> QED BY <2>2, <2>3, <2>4, <2>5, <2>6, SumInGenerator
<1>2. SendingInv => RequestsCounted
  BY <1>1 DEF RequestsCounted, Requests!RequestsCounted
<1> QED BY <1>2, SendingAlways, PTL

\* The orders found after the order generator has stored all of its own:
\* those, and beyond them what an earlier run had left.
LEMMA FoundOrders ==
  ASSUME WritingInv, ~TradeTool, owner = "gone", failed = {}
  PROVE  /\ Len(GetOrders) = IF written >= Len(earlier) THEN written ELSE Len(earlier)
         /\ \A i \in 1 .. Len(GetOrders) :
              GetOrders[i] = IF i \in 1 .. written THEN entities[i].symbol ELSE earlier[i]
<1>1. database = 1 .. written
  BY WriterGone DEF WritingInv
<1>2. PICK m, w, l : /\ w = written /\ l = Len(earlier)
                     /\ m = IF written >= Len(earlier) THEN written ELSE Len(earlier)
  OBVIOUS
<1>3. w \in Nat /\ l \in Nat /\ m \in Nat /\ DOMAIN earlier = 1 .. l
      /\ m = IF w >= l THEN w ELSE l
  BY <1>2 DEF WritingInv, EntitiesInv, WriterInv, TypeOK
<1> DEFINE times == DOMAIN OrderAt
           rank(t) == Cardinality({s \in times : s < t})
<1>4. times = 0 .. m - 1
  <2>1. times = {i - 1 : i \in (1 .. w) \cup (1 .. l)}
    BY <1>1, <1>2, <1>3 DEF OrderAt
  <2>2. (1 .. w) \cup (1 .. l) = 1 .. m
    BY <1>3
  <2>3. {i - 1 : i \in 1 .. m} = 0 .. m - 1
    <3>1. ASSUME NEW t \in 0 .. m - 1
          PROVE  t \in {i - 1 : i \in 1 .. m}
      <4>1. t + 1 \in 1 .. m /\ t = (t + 1) - 1
        BY <1>3
      <4> QED BY <4>1
    <3> QED BY <1>3, <3>1
  <2> QED BY <2>1, <2>2, <2>3
<1>5. Cardinality(times) = m
  <2>1. m - 1 \in Int /\ 0 \in Int /\ (IF 0 > m - 1 THEN 0 ELSE (m - 1) - 0 + 1) = m
    BY <1>3
  <2>2. Cardinality(0 .. m - 1) = m
    BY <2>1, FS_Interval
  <2> QED BY <1>4, <2>2
<1>6. ASSUME NEW t \in times
      PROVE  rank(t) = t
  <2>1. t \in Nat /\ {s \in times : s < t} = 0 .. t - 1
    <3> HIDE DEF times
    <3>1. t \in 0 .. m - 1
      BY <1>4
    <3>2. \A s : s \in times /\ s < t <=> s \in 0 .. t - 1
      BY <1>3, <1>4, <3>1
    <3> QED BY <1>3, <3>1, <3>2
  <2>2. Cardinality(0 .. t - 1) = t
    BY <2>1, FS_Interval
  <2> QED BY <2>1, <2>2
<1>7. GetOrders = [k \in 1 .. m |-> OrderAt[CHOOSE t \in times : rank(t) = k - 1]]
  BY <1>5 DEF GetOrders
<1>8. \A t \in times :
        OrderAt[t] = IF t + 1 \in database THEN entities[t + 1].symbol ELSE earlier[t + 1]
  BY DEF OrderAt
<1> HIDE DEF times, rank
<1>9. ASSUME NEW k \in 1 .. m
      PROVE  GetOrders[k] = IF k \in 1 .. written THEN entities[k].symbol ELSE earlier[k]
  <2>1. k - 1 \in times /\ (k - 1) + 1 = k
    BY <1>3, <1>4
  <2>2. (CHOOSE t \in times : rank(t) = k - 1) = k - 1
    BY <1>6, <2>1
  <2>3. GetOrders[k] = OrderAt[k - 1]
    BY <1>7, <2>2
  <2>4. OrderAt[k - 1] = IF (k - 1) + 1 \in database THEN entities[(k - 1) + 1].symbol
                         ELSE earlier[(k - 1) + 1]
    BY <1>8, <2>1
  <2> QED BY <1>1, <2>1, <2>3, <2>4
<1>10. Len(GetOrders) = m
  BY <1>3, <1>7
<1> QED BY <1>2, <1>9, <1>10

\* Once all requests have succeeded, the order managers have got every order
\* generated, once, and beyond them only what an earlier run had left.
THEOREM EveryOrderPlacedOnce == ProgramsSpec => []PlacedAsGenerated
<1>1. ASSUME WritingInv, SendingInv, main = "report", num_of_orders_ = -1,
             failed = {}, succeeded = Len(GetOrders)
      PROVE  /\ Range(placed) = DOMAIN GetOrders
             /\ Len(placed) = IF written >= Len(earlier) THEN written ELSE Len(earlier)
             /\ \A i \in 1 .. written : GetOrders[i] = entities[i].symbol
             /\ \A i \in written + 1 .. Len(placed) : GetOrders[i] = earlier[i]
  <2>1. /\ ~TradeTool /\ owner = "gone" /\ SendTypes /\ Counted
        /\ DealtInOrder /\ PlacedOrdered /\ orders_ = <<>>
    BY <1>1 DEF SendingInv, Phases
  <2>2. PICK n, p : n = Len(GetOrders) /\ p = Len(placed)
    OBVIOUS
  <2>3. n \in Nat /\ DOMAIN GetOrders = 1 .. n /\ Requests!Selected = n
    BY <1>1, <2>2, GetOrdersFacts DEF Requests!Selected
  <2>4. p \in Nat /\ DOMAIN placed = 1 .. p /\ n <= p
    <3>1. placed \in Seq(Nat) /\ succeeded <= Len(placed)
      BY <2>1 DEF SendTypes, Counted
    <3> QED BY <1>1, <2>2, <3>1
  <2>5. \A i \in 1 .. p : placed[i] \in 1 .. n
    <3>1. Dealt = n
      BY <2>1, <2>3 DEF Dealt
    <3> QED BY <2>1, <2>4, <3>1 DEF DealtInOrder
  <2>6. ASSUME NEW i \in 1 .. p, NEW j \in 1 .. p, i < j
        PROVE  placed[i] # placed[j]
    <3>1. SUFFICES ASSUME placed[i] = placed[j]
                   PROVE  FALSE
      OBVIOUS
    <3>2. PICK t \in Requests!Thread :
            /\ IsFor(placed[i], t)
            /\ \A k \in DOMAIN placed : i < k /\ IsFor(placed[k], t) => placed[i] < placed[k]
      BY <2>1, <2>4 DEF PlacedOrdered
    <3>3. placed[i] < placed[j]
      BY <2>4, <2>6, <3>1, <3>2
    <3> QED BY <2>5, <3>1, <3>3
  <2>7. placed \in Injection(1 .. p, 1 .. n)
    <3>1. placed \in [1 .. p -> 1 .. n]
      BY <2>1, <2>4, <2>5 DEF SendTypes
    <3>2. \A i, j \in 1 .. p : placed[i] = placed[j] => i = j
      BY <2>4, <2>6
    <3> QED BY <3>1, <3>2 DEF Injection, IsInjective
  <2>8. /\ IsFiniteSet(1 .. n) /\ Cardinality(1 .. n) = n
        /\ Cardinality(1 .. p) = p
    BY <2>3, <2>4, FS_Interval
  <2>9. /\ p <= n
        /\ p = n => placed \in Surjection(1 .. p, 1 .. n)
    BY <2>7, <2>8, FS_Injection
  <2>10. p = n
    BY <2>3, <2>4, <2>9
  <2>11. Range(placed) = 1 .. n
    BY <2>4, <2>5, <2>9, <2>10 DEF Surjection, Range
  <2>12. /\ n = IF written >= Len(earlier) THEN written ELSE Len(earlier)
         /\ \A i \in 1 .. n :
              GetOrders[i] = IF i \in 1 .. written THEN entities[i].symbol ELSE earlier[i]
    BY <1>1, <2>1, <2>2, FoundOrders
  <2>13. written \in Nat /\ Len(earlier) \in Nat
    BY <1>1 DEF WritingInv, EntitiesInv, WriterInv, TypeOK
  <2> QED BY <2>2, <2>3, <2>10, <2>11, <2>12, <2>13
<1>2. WritingInv /\ SendingInv => PlacedAsGenerated
  BY <1>1 DEF PlacedAsGenerated
<1> QED BY <1>2, SendingAlways, PTL

-----------------------------------------------------------------------------
(***************************************************************************)
(* OrderManager supposes of its writer that each write replaces the point  *)
(* of its time stamp in what the database will hold, that a post brings    *)
(* the database up to that, and that one that fails takes it back to what  *)
(* the database has.  The writer with its buffer does so.                  *)
(***************************************************************************)

Stamps == [i \in DOMAIN entities |-> TimeStamp(entities[i])]

\* The points of the entities D: at each of their times s, the latest one.
LatestAt(s, D, t) == {i \in D : s[i] = t /\ \A j \in D : s[j] = t => j <= i}

Point(i) == [id |-> i, status |-> "unsubmitted", concluded |-> 0]

Kept(s, D) ==
  [t \in {s[i] : i \in D} |-> Point(First(LatestAt(s, D, t)))]

\* What the database will hold once the buffer is posted, and what it holds.
ToStore == Kept(Stamps, database \cup Range(buffer))
Stored  == Kept(Stamps, database)

\* The order manager as the owner of the writer.
Manager == INSTANCE OrderManager
  WITH store <- ToStore, database <- Stored,
       Worker <- {}, Amount <- {}, MaxOrders <- 0, MaxRestarts <- 0,
       ClockSteps <- {}, TestMode <- {FALSE},
       order_id_ <- 0, order_id_to_order_status_ <- <<>>, pc <- <<>>, order <- <<>>,
       to_persist <- <<>>, test_mode_is_open_ <- FALSE, subscription <- "open",
       clock <- 0, engine <- {}, stream <- <<>>, missed <- <<>>, placed <- {},
       overtaken <- {}, requests <- 0, restarts <- 0,
       MaxFailures <- 0, io_thread <- "running", lost <- {}, failures <- 0

\* A write.  If it fills the buffer, its post is part of the step: the
\* database shows it at once, or is left as it was with all the buffer lost.
OneWrite ==
  \E t \in Nat :
    LET grown == Manager!PersistOrder(ToStore,
                   [time |-> t, id |-> written + 1, status |-> "unsubmitted", concluded |-> 0])
    IN \/ ToStore' = grown /\ Stored' \in {Stored, grown}
       \/ ToStore' = Stored /\ Stored' = Stored

WriterAsSupposed ==
  [][OneWrite \/ Manager!Flush \/ Manager!BatchFails]_<<ToStore, Stored>>

\* A write replaces the point of its time.
LEMMA KeptNext ==
  ASSUME NEW s, NEW n \in Nat, NEW D, D \subseteq 1 .. n
  PROVE  Kept(s, D \cup {n + 1})
           = Manager!PersistOrder(Kept(s, D),
               [time |-> s[n + 1], id |-> n + 1, status |-> "unsubmitted", concluded |-> 0])
<1> DEFINE F == D \cup {n + 1}
           u == s[n + 1]
           old == Kept(s, D)
<1>1. F = D \cup {n + 1} /\ \A j \in F : j <= n + 1
  OBVIOUS
<1>2. \A j \in D : ~(n + 1 <= j)
  OBVIOUS
<1>3. LatestAt(s, F, u) = {n + 1}
  <2>1. n + 1 \in F /\ n + 1 \in Nat
    OBVIOUS
  <2> HIDE DEF F
  <2>2. \A i \in F : i = n + 1 \/ (i \in D /\ ~(n + 1 <= i))
    BY <1>1, <1>2
  <2> QED BY <1>1, <2>1, <2>2 DEF LatestAt
<1>4. ASSUME NEW t, t # u
      PROVE  LatestAt(s, F, t) = LatestAt(s, D, t)
  <2> HIDE DEF F
  <2> QED BY <1>1, <1>4 DEF LatestAt
<1>5. First({n + 1}) = n + 1
  BY FirstIn
<1> DEFINE w == [time |-> u, id |-> n + 1, status |-> "unsubmitted", concluded |-> 0]
           p == [id |-> n + 1, status |-> "unsubmitted", concluded |-> 0]
<1>6. Manager!PersistOrder(old, w)
        = [t \in DOMAIN old \cup {u} |-> IF t = u THEN p ELSE old[t]]
  <2> HIDE DEF old, u
  <2> QED BY DEF Manager!PersistOrder, Manager!Put
<1>7. /\ DOMAIN old = {s[i] : i \in D}
      /\ \A t \in DOMAIN old : old[t] = Point(First(LatestAt(s, D, t)))
  BY DEF Kept
<1>8. {s[i] : i \in F} = DOMAIN old \cup {u}
  <2> HIDE DEF F
  <2> QED BY <1>1, <1>7
<1>9. p = Point(n + 1)
  BY DEF Point
<1> DEFINE new(t) == Point(First(LatestAt(s, F, t)))
<1>10. Kept(s, F) = [t \in DOMAIN old \cup {u} |-> new(t)]
  <2> HIDE DEF F, old
  <2> QED BY <1>8 DEF Kept, new
<1>11. ASSUME NEW t \in DOMAIN old \cup {u}
       PROVE  new(t) = IF t = u THEN p ELSE old[t]
  <2>1. CASE t = u
    <3> HIDE DEF F, old, u, p
    <3> QED BY <1>3, <1>5, <1>9, <2>1
  <2>2. CASE t # u
    <3>1. t \in DOMAIN old
      BY <2>2
    <3> HIDE DEF F, old, u, p
    <3> QED BY <1>4, <1>7, <2>2, <3>1
  <2> QED BY <2>1, <2>2
<1> HIDE DEF old, u, p, new, F, w
<1>12. Kept(s, F) = Manager!PersistOrder(old, w)
  BY <1>6, <1>10, <1>11
<1> QED BY <1>12 DEF old, u, w, F

\* What is kept depends on the times of the entities kept.
LEMMA KeptAgrees ==
  ASSUME NEW r, NEW s, NEW D, \A i \in D : r[i] = s[i]
  PROVE  Kept(r, D) = Kept(s, D)
<1>1. {r[i] : i \in D} = {s[i] : i \in D}
  OBVIOUS
<1>2. \A t : LatestAt(r, D, t) = LatestAt(s, D, t)
  BY DEF LatestAt
<1> DEFINE f(t) == Point(First(LatestAt(r, D, t)))
           g(t) == Point(First(LatestAt(s, D, t)))
           E    == {s[i] : i \in D}
<1>3. \A t : f(t) = g(t)
  BY <1>2
<1>4. Kept(r, D) = [t \in E |-> f(t)] /\ Kept(s, D) = [t \in E |-> g(t)]
  BY <1>1 DEF Kept
<1> HIDE DEF f, g, E
<1> QED BY <1>3, <1>4

\* The time stamps that have been given stay.
LEMMA StampsStay ==
  ASSUME WritingInv, [ProgramsNext]_all
  PROVE  /\ \A i \in 1 .. written : Stamps'[i] = Stamps[i]
         /\ written \in Nat
         /\ \/ /\ ReadTrade \/ CreateOrder
               /\ Write /\ Stamps'[written + 1] \in Nat
            \/ UNCHANGED <<Stamps, written>>
<1>0. EntitiesInv
  BY DEF WritingInv
<1> DEFINE W == written
<1>1. W \in Nat /\ W = Len(entities)
  BY <1>0, MaxWritesAssumption DEF EntitiesInv, WritingInv, WriterInv, TypeOK
<1>2. CASE ReadTrade \/ CreateOrder
  <2>1. Write /\ enable_thread' = enable_thread
    BY <1>2 DEF ReadTrade, CreateOrder, Write, thread
  <2>2. \E S : \E e \in S : /\ entities \in Seq(S) /\ entities' = Append(entities, e)
                            /\ (IF TradeTool THEN e.now ELSE e.i) \in Nat
    <3>1. CASE ReadTrade
      <4>1. TradeTool /\ entities \in Seq([now : Nat, submit_time : 0 .. 1]) /\ clock' \in Nat
        BY <3>1, <1>0 DEF ReadTrade, EntitiesInv
      <4>2. PICK x \in 0 .. 1 : entities' = Append(entities, [now |-> clock', submit_time |-> x])
        BY <3>1 DEF ReadTrade
      <4>3. /\ [now |-> clock', submit_time |-> x] \in [now : Nat, submit_time : 0 .. 1]
            /\ [now |-> clock', submit_time |-> x].now \in Nat
        BY <4>1
      <4> QED BY <4>1, <4>2, <4>3
    <3>2. CASE CreateOrder
      <4>1. ~TradeTool /\ entities \in Seq([i : Nat, symbol : Symbol])
        BY <3>2, <1>0 DEF CreateOrder, EntitiesInv
      <4>2. PICK x \in Symbol : entities' = Append(entities, [i |-> W, symbol |-> x])
        BY <3>2 DEF CreateOrder
      <4>3. /\ [i |-> W, symbol |-> x] \in [i : Nat, symbol : Symbol]
            /\ [i |-> W, symbol |-> x].i \in Nat
        BY <1>1
      <4> QED BY <4>1, <4>2, <4>3
    <3> QED BY <1>2, <3>1, <3>2
  <2>3. PICK S : \E x \in S : /\ entities \in Seq(S) /\ entities' = Append(entities, x)
                              /\ (IF TradeTool THEN x.now ELSE x.i) \in Nat
    BY <2>2
  <2>8. PICK e \in S : /\ entities \in Seq(S) /\ entities' = Append(entities, e)
                       /\ (IF TradeTool THEN e.now ELSE e.i) \in Nat
    BY <2>3
  <2> HIDE DEF W
  <2>4. /\ DOMAIN entities = 1 .. W /\ DOMAIN entities' = 1 .. W + 1
        /\ \A i \in 1 .. W : entities'[i] = entities[i]
        /\ entities'[W + 1] = e
    BY <1>1, <2>8
  <2>5. 1 .. W \subseteq 1 .. W + 1 /\ W + 1 \in 1 .. W + 1
    BY <1>1
  <2>6. \A i \in 1 .. W : Stamps'[i] = Stamps[i]
    BY <2>1, <2>4, <2>5 DEF Stamps, TimeStamp, TradeTool
  <2>7. Stamps'[W + 1] \in Nat
    BY <2>1, <2>8, <2>4, <2>5 DEF Stamps, TimeStamp, TradeTool
  <2> QED BY <1>1, <1>2, <2>1, <2>6, <2>7 DEF W
<1>3. CASE MainReturns \/ WriterThread \/ PlaceRequests \/ UNCHANGED all
  <2>1. /\ entities' = entities /\ written' = written /\ enable_thread' = enable_thread
    BY <1>3 DEF MainReturns, WriterThread, PlaceRequests, all, vars, thread,
                Destroy, Join, IOThread, Scan, CheckEnd, Wake
  <2> QED BY <1>1, <2>1 DEF Stamps, TimeStamp, TradeTool
<1> QED BY <1>2, <1>3 DEF ProgramsNext

\* What a step does to the database and to the buffer.
LEMMA BatchSteps ==
  ASSUME WriterInv, [Next]_vars
  PROVE  LET D == database
             B == Range(buffer)
             grown == B \cup {written + 1}
         IN \/ /\ Write
               /\ \/ D' = D /\ B' = grown
                  \/ B' = {} /\ D' \in {D, D \cup grown}
            \/ /\ written' = written
               /\ \/ D' = D /\ B' = B
                  \/ B' = {} /\ D' \in {D, D \cup B}
<1> DEFINE B == Range(buffer)
           grown == B \cup {written + 1}
<1>1. buffer \in Seq(1 .. MaxWrites) /\ written \in Nat
  BY MaxWritesAssumption DEF WriterInv, TypeOK
<1>2. ASSUME NEW b, NEW ok, Post(b, ok)
      PROVE  B' = {} /\ database' \in {database, database \cup Range(b)}
  BY <1>2 DEF Post, Range
<1>3. CASE Write
  <2> DEFINE b == Append(buffer, written + 1)
  <2>1. Range(b) = grown
    <3>1. /\ DOMAIN b = 1 .. Len(buffer) + 1 /\ DOMAIN buffer = 1 .. Len(buffer)
          /\ Len(buffer) \in Nat
          /\ \A i \in 1 .. Len(buffer) : b[i] = buffer[i]
          /\ b[Len(buffer) + 1] = written + 1
      BY <1>1
    <3> QED BY <3>1 DEF Range
  <2>2. CASE IsFull(b)
    <3>1. PICK ok \in BOOLEAN : Post(b, ok)
      BY <1>3, <2>2 DEF Write
    <3>2. B' = {} /\ database' \in {database, database \cup Range(b)}
      BY <1>2, <3>1
    <3> QED BY <1>3, <2>1, <3>2
  <2>3. CASE ~IsFull(b)
    <3>1. buffer' = b /\ database' = database
      BY <1>3, <2>3 DEF Write
    <3>2. B' = Range(b)
      BY <3>1
    <3> QED BY <1>3, <2>1, <3>1, <3>2
  <2> QED BY <2>2, <2>3
<1>4. CASE (\E ok \in BOOLEAN : Post(buffer, ok)) /\ written' = written
  BY <1>2, <1>4
<1>5. CASE UNCHANGED <<buffer, database, written>>
  BY <1>5
<1>6. \/ Write
      \/ (\E ok \in BOOLEAN : Post(buffer, ok)) /\ written' = written
      \/ UNCHANGED <<buffer, database, written>>
  BY DEF Next, IOThread, Scan, CheckEnd, Wake, Destroy, Join, vars, thread
<1> QED BY <1>3, <1>4, <1>5, <1>6

\* A step of a program, as the order manager sees its writer.
LEMMA WriterSeen ==
  ASSUME WritingInv, [ProgramsNext]_all
  PROVE  [OneWrite \/ Manager!Flush \/ Manager!BatchFails]_<<ToStore, Stored>>
<1> DEFINE W == written
           D == database
           B == Range(buffer)
           u == Stamps'[W + 1]
           grown == Manager!PersistOrder(ToStore,
                      [time |-> u, id |-> W + 1, status |-> "unsubmitted", concluded |-> 0])
<1>1. /\ \A i \in 1 .. W : Stamps'[i] = Stamps[i]
      /\ W \in Nat
      /\ \/ Write /\ u \in Nat
         \/ UNCHANGED <<Stamps, written>>
  BY StampsStay
<1>2. WriterInv /\ [Next]_vars
  BY ProgramsStepWriter DEF WritingInv
<1>3. D \subseteq 1 .. W /\ B \subseteq 1 .. W
  <2> DEFINE n == Len(buffer)
  <2>1. /\ buffer \in Seq(1 .. MaxWrites) /\ n \in Nat
        /\ Latest(buffer, n, written) /\ D \cup failed = 1 .. written - n
    BY <1>2 DEF WriterInv, TypeOK
  <2>2. B = (written - n + 1) .. written
    <3>1. buffer \in Seq(Nat)
      BY <2>1, MaxWritesAssumption
    <3> HIDE DEF n
    <3> QED BY <1>1, <2>1, <3>1, LatestRange
  <2>3. n <= written
    BY <2>1 DEF Latest
  <2> HIDE DEF n, B
  <2> QED BY <1>1, <2>1, <2>2, <2>3
<1>4. ASSUME NEW E, E \subseteq 1 .. W
      PROVE  Kept(Stamps', E) = Kept(Stamps, E)
  BY <1>1, <1>4, KeptAgrees
<1>5. CASE Write /\ u \in Nat
  <2>1. Kept(Stamps', (D \cup B) \cup {W + 1}) = grown
    <3> DEFINE E == D \cup B
    <3>1. E \subseteq 1 .. W
      BY <1>3
    <3>2. Kept(Stamps', E) = ToStore
      BY <1>4, <3>1 DEF ToStore
    <3>3. Kept(Stamps', E \cup {W + 1}) = grown
      <4> HIDE DEF E
      <4> QED BY <1>1, <3>1, <3>2, KeptNext
    <3> QED BY <3>3
  <2>2. Kept(Stamps', D) = Stored
    BY <1>3, <1>4 DEF Stored
  <2>3. \/ D' = D /\ D' \cup B' = (D \cup B) \cup {W + 1}
        \/ D' = D /\ D' \cup B' = D
        \/ D' = (D \cup B) \cup {W + 1} /\ D' \cup B' = (D \cup B) \cup {W + 1}
    <3>1. Write => written' # written
      BY <1>1 DEF Write
    <3> QED BY <1>2, <1>5, <3>1, BatchSteps
  <2>4. Stored' = Kept(Stamps', D') /\ ToStore' = Kept(Stamps', D' \cup B')
    BY DEF Stored, ToStore
  <2> HIDE DEF D, B, u, grown
  <2>5. \/ ToStore' = grown /\ Stored' \in {Stored, grown}
        \/ ToStore' = Stored /\ Stored' = Stored
    BY <2>1, <2>2, <2>3, <2>4
  <2> QED BY <1>5, <2>5 DEF OneWrite, u, grown
<1>6. CASE UNCHANGED <<Stamps, written>>
  <2>1. \/ D' = D /\ D' \cup B' = D \cup B
        \/ D' = D /\ D' \cup B' = D
        \/ D' = D \cup B /\ D' \cup B' = D \cup B
    <3>1. Write => written' # written
      BY <1>1 DEF Write
    <3> QED BY <1>2, <1>6, <3>1, BatchSteps
  <2>2. Stored' = Kept(Stamps, D') /\ ToStore' = Kept(Stamps, D' \cup B')
    BY <1>6 DEF Stored, ToStore
  <2>3. Stored = Kept(Stamps, D) /\ ToStore = Kept(Stamps, D \cup B)
    BY DEF Stored, ToStore
  <2> HIDE DEF D, B
  <2>4. \/ UNCHANGED <<ToStore, Stored>>
        \/ ToStore' = Stored /\ Stored' = Stored
        \/ ToStore' = ToStore /\ Stored' = ToStore
    BY <2>1, <2>2, <2>3
  <2>5. CASE ToStore' = Stored /\ Stored' = Stored /\ ToStore # Stored
    BY <2>5 DEF Manager!BatchFails
  <2>6. CASE ToStore' = ToStore /\ Stored' = ToStore /\ ToStore # Stored
    BY <2>6 DEF Manager!Flush, Manager!manager, Manager!outside, Manager!ghosts,
                Manager!counts, Manager!posting
  <2> QED BY <2>4, <2>5, <2>6
<1> QED BY <1>1, <1>5, <1>6

\* What the writer's buffer and posts do to the database is what OrderManager
\* supposes: a write replaces the point of its time stamp, a post brings the
\* database up to all that has been written and not been lost, and a post that
\* fails leaves the order manager with what the database has.
THEOREM WriterDoesAsSupposed == ProgramsSpec => WriterAsSupposed
<1>1. WritingInv /\ [ProgramsNext]_all
        => [OneWrite \/ Manager!Flush \/ Manager!BatchFails]_<<ToStore, Stored>>
  BY WriterSeen
<1> QED BY <1>1, WritingAlways, PTL DEF ProgramsSpec, WriterAsSupposed

-----------------------------------------------------------------------------
(***************************************************************************)
(* The destructor ends after at most five steps of the IO thread and its   *)
(* own, whatever the thread was doing.  DestructorEnds follows from that   *)
(* by fairness, a conclusion that is left to TLC.                          *)
(***************************************************************************)

\* A destructor that waits has told the thread to end.
FlagRaised == owner = "joining" /\ enable_thread => thread_end_flag

\* Every step keeps that.
LEMMA FlagNext ==
  ASSUME FlagRaised, [Next]_vars
  PROVE  FlagRaised'
<1>1. CASE Write \/ IOThread \/ Join \/ UNCHANGED vars
  BY <1>1 DEF FlagRaised, Write, IOThread, Scan, CheckEnd, Wake, Join, vars, thread
<1>2. CASE Destroy
  BY <1>2 DEF FlagRaised, Destroy
<1> QED BY <1>1, <1>2 DEF Next

\* The most steps that the destructor still has to wait for, its last one
\* included: a thread between its scan and its test has to go round once more
\* if something has been written meanwhile.
StepsToEnd ==
  CASE io = "ended" -> 1
    [] io = "check" /\ buffer = <<>> -> 2
    [] io = "scan" -> 3
    [] io = "sleep" -> 4
    [] io = "check" /\ buffer # <<>> -> 5

\* Each step, of whichever thread, brings a waiting destructor nearer to its
\* end or ends it.
EndComesNearer ==
  owner = "joining" =>
    \/ owner' = "gone"
    \/ owner' = "joining" /\ StepsToEnd' < StepsToEnd

\* While the destructor waits, only the thread goes on, or the destructor ends.
LEMMA DestructorStep ==
  ASSUME TypeOK, EndsInOrder, FlagRaised, Next
  PROVE  EndComesNearer
<1> SUFFICES ASSUME owner = "joining" PROVE EndComesNearer
  BY DEF EndComesNearer
<1>1. CASE Scan
  <2>1. /\ io = "scan" /\ owner' = owner
        /\ io' = "ended" \/ (io' = "check" /\ buffer' = <<>>)
    BY <1>1 DEF Scan, Post
  <2>2. StepsToEnd = 3 /\ StepsToEnd' \in {1, 2}
    BY <2>1 DEF StepsToEnd
  <2> QED BY <2>1, <2>2 DEF EndComesNearer
<1>2. CASE CheckEnd
  <2>1. /\ io = "check" /\ owner' = owner /\ buffer' = buffer
        /\ io' = IF buffer = <<>> THEN "ended" ELSE "sleep"
    BY <1>2 DEF CheckEnd, FlagRaised, EndsInOrder, TypeOK
  <2>2. \/ StepsToEnd = 2 /\ StepsToEnd' = 1
        \/ StepsToEnd = 5 /\ StepsToEnd' = 4
    BY <2>1 DEF StepsToEnd
  <2> QED BY <2>1, <2>2 DEF EndComesNearer
<1>3. CASE Wake
  <2>1. io = "sleep" /\ io' = "scan" /\ owner' = owner
    BY <1>3 DEF Wake
  <2>2. StepsToEnd = 4 /\ StepsToEnd' = 3
    BY <2>1 DEF StepsToEnd
  <2> QED BY <2>1, <2>2 DEF EndComesNearer
<1>4. CASE Join
  BY <1>4 DEF Join, EndComesNearer
<1>5. ~Write /\ ~Destroy
  BY DEF Write, Destroy
<1> QED BY <1>1, <1>2, <1>3, <1>4, <1>5 DEF Next, IOThread

\* A destructor that waits always has a step before it, and each step that is
\* taken brings it nearer to its end: it never waits for a thread that sleeps
\* on, or that has ended without it, through posts that fail as well.
THEOREM DestructorCountsDown ==
  (Spec \/ ProgramsSpec) =>
    [](owner = "joining" => StepsToEnd \in 1 .. 5) /\ [][EndComesNearer]_vars
<1>1. Init => FlagRaised
  BY DEF Init, FlagRaised
<1>2. FlagRaised /\ [Next]_vars => FlagRaised'
  BY FlagNext
<1>3. WriterInv => (owner = "joining" => StepsToEnd \in 1 .. 5)
  BY DEF WriterInv, TypeOK, StepsToEnd
<1>4. WriterInv /\ FlagRaised /\ [Next]_vars => [EndComesNearer]_vars
  <2> SUFFICES ASSUME WriterInv, FlagRaised, Next PROVE EndComesNearer
    OBVIOUS
  <2> QED BY DestructorStep DEF WriterInv
<1>5. WritingInv => WriterInv
  BY DEF WritingInv
<1>6. [ProgramsNext]_all => [Next]_vars
  BY ProgramsStepWriter
<1>7. ProgramsInit => Init
  BY DEF ProgramsInit
<1> QED
  BY <1>1, <1>2, <1>3, <1>4, <1>5, <1>6, <1>7, WriterAlways, WritingAlways, PTL
     DEF Spec, ProgramsSpec
=============================================================================
