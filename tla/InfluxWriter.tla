---------------------------- MODULE InfluxWriter ----------------------------
(***************************************************************************)
(* database_interface::InfluxDB (common/src/database_interface.cc), the    *)
(* buffered writer of the order manager, the trade persistence tool and    *)
(* the order generator.  write() only fills the buffer, and posts it when  *)
(* it has grown to 10000 entities (FlushAt); an IO thread posts it every   *)
(* five seconds.  Without the IO thread (enable_thread = false, the order  *)
(* generator) the owner posts the rest itself before it ends.  An entity   *)
(* is its number; buffer_mutex makes each critical section one step, the   *)
(* post included.                                                          *)
(***************************************************************************)
EXTENDS Integers, Sequences, FiniteSets, Functions

CONSTANTS
  FlushAt,     \* the buffer size at which write() posts the buffer
  MaxWrites    \* bound on the entities written

ASSUME FlushAtAssumption   == FlushAt \in Nat \ {0}
ASSUME MaxWritesAssumption == MaxWrites \in Nat

VARIABLES
  enable_thread,
  buffer,            \* the entities not yet posted
  io,                \* where the IO thread is
  owner,             \* where the owner of the writer is
  thread_end_flag,
  written,           \* number of entities given to write()
  database,          \* the entities the database has stored
  failed             \* history: the entities of the posts that failed

thread == <<enable_thread, io, owner, thread_end_flag>>
vars   == <<thread, buffer, written, database, failed>>

-----------------------------------------------------------------------------
Init ==
  /\ enable_thread \in BOOLEAN
  /\ buffer = <<>>
  /\ io = IF enable_thread THEN "scan" ELSE "ended"
  /\ owner = "writing"
  /\ thread_end_flag = FALSE
  /\ written = 0
  /\ database = {}
  /\ failed = {}

\* Mutant of Post: a post that failed leaves its entities in the buffer.
PostKeeps(batch, ok) ==
  /\ \E stored \in BOOLEAN :
       /\ ok => stored
       /\ database' = database \cup (IF stored THEN Range(batch) ELSE {})
  /\ failed' = failed \cup (IF ok THEN {} ELSE Range(batch))
  /\ buffer' = IF ok THEN <<>> ELSE batch

\* flush_buffer: the batch is posted, and the buffer is cleared whatever
\* became of the post, which may have been stored even if no answer came.
Post(batch, ok) ==
  /\ \E stored \in BOOLEAN :
       /\ ok => stored
       /\ database' = database \cup (IF stored THEN Range(batch) ELSE {})
  /\ failed' = failed \cup (IF ok THEN {} ELSE Range(batch))
  /\ buffer' = <<>>

IsFull(b) == Len(b) >= FlushAt

\* write() returns true whatever becomes of the post.
Write ==
  /\ owner = "writing"
  /\ written < MaxWrites
  /\ written' = written + 1
  /\ LET grown == Append(buffer, written + 1)
     IN IF IsFull(grown)
        THEN \E ok \in BOOLEAN : Post(grown, ok)
        ELSE buffer' = grown /\ UNCHANGED <<database, failed>>
  /\ UNCHANGED thread

\* The IO thread posts what there is; a failed post ends it.
Scan ==
  /\ io = "scan"
  /\ \/ /\ buffer = <<>>
        /\ io' = "check"
        /\ UNCHANGED <<buffer, database, failed>>
     \/ /\ buffer # <<>>
        /\ \E ok \in BOOLEAN :
             Post(buffer, ok) /\ io' = IF ok THEN "check" ELSE "ended"
  /\ UNCHANGED <<enable_thread, owner, thread_end_flag, written>>

\* Mutant of CheckEnd: the buffer is taken to be as the scan has left it.
CheckFlagOnly ==
  /\ io = "check"
  /\ io' = IF thread_end_flag THEN "ended" ELSE "sleep"
  /\ UNCHANGED <<enable_thread, owner, thread_end_flag, buffer, written, database, failed>>

\* Mutant of CheckEnd: the size is compared the wrong way round.
CheckNotEmpty ==
  /\ io = "check"
  /\ io' = IF thread_end_flag /\ buffer # <<>> THEN "ended" ELSE "sleep"
  /\ UNCHANGED <<enable_thread, owner, thread_end_flag, buffer, written, database, failed>>

\* The mutex is free again: what was written meanwhile is in the buffer.
CheckEnd ==
  /\ io = "check"
  /\ io' = IF thread_end_flag /\ buffer = <<>> THEN "ended" ELSE "sleep"
  /\ UNCHANGED <<enable_thread, owner, thread_end_flag, buffer, written, database, failed>>

\* Mutant of Wake: the thread wakes up for a full buffer only.
WakeWhenFull ==
  /\ io = "sleep"
  /\ thread_end_flag \/ IsFull(buffer)
  /\ io' = "scan"
  /\ UNCHANGED <<enable_thread, owner, thread_end_flag, buffer, written, database, failed>>

\* sleep(5)
Wake ==
  /\ io = "sleep"
  /\ io' = "scan"
  /\ UNCHANGED <<enable_thread, owner, thread_end_flag, buffer, written, database, failed>>

\* Mutant of Destroy: a writer without an IO thread posts nothing at its end.
DestroyAtOnce ==
  /\ owner = "writing"
  /\ thread_end_flag' = enable_thread
  /\ owner' = "joining"
  /\ UNCHANGED <<enable_thread, io, written, buffer, database, failed>>

\* The owner, done with writing, destroys the writer; one without an IO
\* thread first posts what is left.
Destroy ==
  /\ owner = "writing"
  /\ IF enable_thread
     THEN thread_end_flag' = TRUE /\ UNCHANGED <<buffer, database, failed>>
     ELSE (\E ok \in BOOLEAN : Post(buffer, ok)) /\ UNCHANGED thread_end_flag
  /\ owner' = "joining"
  /\ UNCHANGED <<enable_thread, io, written>>

\* th.join()
Join ==
  /\ owner = "joining"
  /\ io = "ended"
  /\ owner' = "gone"
  /\ UNCHANGED <<enable_thread, io, thread_end_flag, buffer, written, database, failed>>

IOThread == Scan \/ CheckEnd \/ Wake

Next == Write \/ IOThread \/ Destroy \/ Join

\* The IO thread keeps running and the destructor goes on once it can;
\* nothing obliges the owner to write or to end.
Spec == Init /\ [][Next]_vars /\ WF_vars(IOThread) /\ WF_vars(Join)

-----------------------------------------------------------------------------
\* The types of the variables; whoever writes finds the buffer below the
\* limit at which it is posted, even once the IO thread has ended.
TypeOK ==
  /\ enable_thread \in BOOLEAN /\ thread_end_flag \in BOOLEAN
  /\ buffer \in Seq(1 .. MaxWrites) /\ Len(buffer) < FlushAt
  /\ io \in {"scan", "check", "sleep", "ended"}
  /\ owner \in {"writing", "joining", "gone"}
  /\ written \in 0 .. MaxWrites
  /\ database \subseteq 1 .. MaxWrites
  /\ failed \subseteq 1 .. MaxWrites

\* Every entity is in the buffer or has been posted, never both: none is
\* forgotten, none is posted twice, and the buffer holds the latest ones in
\* the order they were written.
PostedOnce ==
  /\ \A i \in DOMAIN buffer : buffer[i] = written - Len(buffer) + i
  /\ database \cup failed = 1 .. written - Len(buffer)

\* When the writer is gone and no post has failed, the database has every
\* entity: a write between the last scan and the end of the thread counts.
NothingLeftBehind ==
  owner = "gone" /\ failed = {} => database = 1 .. written

\* As long as the IO thread lives, every entity gets posted.
EveryEntityPosted ==
  \A i \in 1 .. MaxWrites :
    i \in Range(buffer) ~> i \notin Range(buffer) \/ io = "ended"

\* The destructor comes to its end.
DestructorEnds == owner = "joining" ~> owner = "gone"
=============================================================================
