---------------------------- MODULE DataVerifier ----------------------------
(***************************************************************************)
(* The data verifier (data_verifier/src/data_verifier.cc) compares the     *)
(* trades of two measurements of the database, in one of three modes: as   *)
(* lists, symbol by symbol, or by looking up each trade.  The queries are  *)
(* those of data_source_influxdb.cc; one that fails is answered with a     *)
(* document that holds no values.                                          *)
(*                                                                         *)
(* A trade has a symbol, a key (amount, price, buyer and seller) and the   *)
(* ids of its two orders.                                                  *)
(***************************************************************************)
EXTENDS Integers, Sequences, FiniteSets, SequencesExt

CONSTANTS
  Trade,        \* records [symbol, key, orders]
  MaxA, MaxB,   \* bounds on the trades of the two sources
  EachTurn,     \* number_of_entries_to_compare_each_turn_, 0 for all at once
  MaxFailures   \* bound on the queries that fail

ASSUME TradeAssumption ==
  \A t \in Trade : DOMAIN t = {"symbol", "key", "orders"}
ASSUME BoundsAssumption ==
  {MaxA, MaxB, MaxFailures} \subseteq Nat /\ EachTurn \subseteq Nat

Mode == {"fully ordered", "ordered by symbol", "unordered"}

VARIABLES
  a, b,                 \* the trades of the two sources, oldest first
  mode,
  each_turn,
  phase,                \* start, load, compare, done, or undefined behaviour
  limits,               \* the number of entries of each source
  remaining,            \* data_source_number_remaining
  offset,
  loaded,               \* what has been loaded of each source, by symbol
  symbols,              \* the symbols still to compare
  inconsistency_found,
  verdict,              \* what VerifyEquality returns
  failures              \* number of queries that have failed

sources == <<a, b, mode, each_turn>>
turns   == <<remaining, offset>>
vars    == <<sources, phase, limits, turns, loaded, symbols, inconsistency_found,
             verdict, failures>>

-----------------------------------------------------------------------------
Lesser(m, n) == IF m < n THEN m ELSE n

\* The answers to a query: the right one, or what is left when it fails.
Query(right, without) ==
  {[value |-> right, failed |-> 0], [value |-> without, failed |-> 1]}

\* The queries that fail stay within the bound.
Fail(n) ==
  /\ failures + n <= MaxFailures
  /\ failures' = failures + n

\* "limit n offset m"; the database takes limit 0 for no limit at all.
DataEntries(d, limit, from) ==
  SubSeq(d, from + 1, IF limit = 0 THEN Len(d) ELSE Lesser(Len(d), from + limit))

\* Mutant of CompareTradeJsonElement: the ids of the orders count as well.
CompareAll(t, u) == t = u

\* The ids of the orders are not compared.
CompareTradeJsonElement(t, u) == t.symbol = u.symbol /\ t.key = u.key

\* The positions of the values of one symbol.
PositionsOf(d, s) == {i \in DOMAIN d : d[i].symbol = s}

\* The values of one symbol, in their order.
BySymbol(d, s) ==
  LET at == PositionsOf(d, s)
  IN [k \in 1 .. Cardinality(at) |->
        d[CHOOSE i \in at : Cardinality({j \in at : j < i}) = k - 1]]

\* Mutant of ToRetrieve: one entry more.
RetrieveMore ==
  LET limit == Lesser(limits[1], limits[2])
  IN 1 + IF each_turn = 0 THEN limit ELSE Lesser(limit, each_turn)

\* data_source_number_to_retrieve, the same in every turn.
ToRetrieve ==
  LET limit == Lesser(limits[1], limits[2])
  IN IF each_turn = 0 THEN limit ELSE Lesser(limit, each_turn)

-----------------------------------------------------------------------------
Init ==
  /\ a \in BoundedSeq(Trade, MaxA)
  /\ b \in BoundedSeq(Trade, MaxB)
  /\ mode \in Mode
  /\ each_turn \in IF mode = "ordered by symbol" THEN {0} ELSE EachTurn
  /\ phase = "start"
  /\ limits = <<0, 0>>
  /\ remaining = 0
  /\ offset = 0
  /\ loaded = <<<<>>, <<>>>>
  /\ symbols = {}
  /\ inconsistency_found = FALSE
  /\ verdict = "none"
  /\ failures = 0

\* VerifyEquality asks for the numbers of entries; two empty sources do not
\* count as equal.
VerifyEquality ==
  /\ phase = "start"
  /\ \E na \in Query(Len(a), 0), nb \in Query(Len(b), 0) :
       /\ Fail(na.failed + nb.failed)
       /\ IF na.value = 0 /\ nb.value = 0
          THEN /\ phase' = "done" /\ verdict' = "different"
               /\ UNCHANGED <<limits, remaining>>
          ELSE /\ phase' = IF mode = "ordered by symbol" THEN "load" ELSE "compare"
               /\ limits' = <<na.value, nb.value>>
               /\ remaining' = Lesser(na.value, nb.value)
               /\ UNCHANGED verdict
  /\ UNCHANGED <<sources, offset, loaded, symbols, inconsistency_found>>

NextTurn ==
  /\ remaining' = remaining - ToRetrieve
  /\ offset' = offset + ToRetrieve

\* A turn over fully ordered sources.  The last turn asks for as many
\* entries as the others, and the loop runs over those of the first source:
\* it may read data_entries_b beyond its end.
CompareTurn ==
  /\ phase = "compare" /\ mode = "fully ordered" /\ remaining > 0
  /\ \E ea \in Query(DataEntries(a, ToRetrieve, offset), <<>>),
        eb \in Query(DataEntries(b, ToRetrieve, offset), <<>>) :
       /\ Fail(ea.failed + eb.failed)
       /\ phase' = IF Len(ea.value) > Len(eb.value) THEN "undefined" ELSE phase
       /\ inconsistency_found' =
            \/ inconsistency_found
            \/ \E i \in DOMAIN ea.value \cap DOMAIN eb.value :
                 ~CompareTradeJsonElement(ea.value[i], eb.value[i])
  /\ NextTurn
  /\ UNCHANGED <<sources, limits, loaded, symbols, verdict>>

\* A turn over unordered sources: every entry of the first one is looked up
\* in the second.  A look-up that fails counts as found.
FindTurn ==
  /\ phase = "compare" /\ mode = "unordered" /\ remaining > 0
  /\ \E ea \in Query(DataEntries(a, ToRetrieve, offset), <<>>) :
       \E unanswered \in SUBSET DOMAIN ea.value :
         /\ Fail(ea.failed + Cardinality(unanswered))
         /\ inconsistency_found' =
              \/ inconsistency_found
              \/ \E i \in DOMAIN ea.value \ unanswered : ~Contains(b, ea.value[i])
  /\ NextTurn
  /\ UNCHANGED <<sources, phase, limits, loaded, symbols, verdict>>

\* Both sources are loaded and sorted by symbol.
Load ==
  /\ phase = "load"
  /\ \E ea \in Query(DataEntries(a, limits[1], 0), <<>>),
        eb \in Query(DataEntries(b, limits[2], 0), <<>>) :
       /\ Fail(ea.failed + eb.failed)
       /\ loaded' = <<ea.value, eb.value>>
       /\ symbols' = {ea.value[i].symbol : i \in DOMAIN ea.value}
  /\ phase' = "compare"
  /\ UNCHANGED <<sources, limits, turns, inconsistency_found, verdict>>

\* The positions, as far as both lists reach, at which they differ.
Unmatched(x, y) ==
  {i \in DOMAIN x \cap DOMAIN y : ~CompareTradeJsonElement(x[i], y[i])}

\* Mutant of Differs: the unmatched keys only have to be as many.
DiffersInNumber(x, y) ==
  \/ y = <<>>
  \/ Cardinality({x[i].key : i \in Unmatched(x, y)})
       # Cardinality({y[i].key : i \in Unmatched(x, y)})

\* Of the trades that differ at their position, each key of the first source
\* must turn up in the second; what is left over is only logged.
Differs(x, y) ==
  \/ y = <<>>
  \/ ~({x[i].key : i \in Unmatched(x, y)} \subseteq {y[i].key : i \in Unmatched(x, y)})

CompareSymbol ==
  /\ phase = "compare" /\ mode = "ordered by symbol"
  /\ \E s \in symbols :
       /\ symbols' = symbols \ {s}
       /\ inconsistency_found' =
            (inconsistency_found \/ Differs(BySymbol(loaded[1], s), BySymbol(loaded[2], s)))
  /\ UNCHANGED <<sources, phase, limits, turns, loaded, verdict, failures>>

Return ==
  /\ phase = "compare"
  /\ remaining <= 0 \/ mode = "ordered by symbol"
  /\ symbols = {}
  /\ phase' = "done"
  /\ verdict' = IF inconsistency_found THEN "different" ELSE "equal"
  /\ UNCHANGED <<sources, limits, turns, loaded, symbols, inconsistency_found, failures>>

Next ==
  \/ VerifyEquality \/ CompareTurn \/ FindTurn
  \/ Load \/ CompareSymbol \/ Return

Spec == Init /\ [][Next]_vars

-----------------------------------------------------------------------------
\* The same trades as far as the keys tell, each as often, for symbol s.
SameKeys(s) ==
  \A k \in {t.key : t \in Trade} :
    Cardinality({i \in PositionsOf(a, s) : a[i].key = k})
      = Cardinality({i \in PositionsOf(b, s) : b[i].key = k})

\* What each mode takes for the same data.
SameData ==
  CASE mode = "fully ordered" ->
         /\ Len(a) = Len(b)
         /\ \A i \in DOMAIN a : a[i].symbol = b[i].symbol /\ a[i].key = b[i].key
    [] mode = "ordered by symbol" -> \A t \in Trade : SameKeys(t.symbol)
    [] mode = "unordered" -> ToSet(a) \subseteq ToSet(b)

\* Data that are the same are found equal: in the order of the trades of
\* each symbol where only that counts, with trades of the same key
\* exchanged, and whatever the size of the turns.
NoFalseAlarm ==
  phase \in {"done", "undefined"} /\ failures = 0 /\ a # <<>> /\ SameData
    => verdict = "equal"

Prefix(n, d) == SubSeq(d, 1, n)

\* Data found equal agree at least where they have been compared: as far as
\* the shorter source goes, position by position, key by key of each symbol,
\* or trade by trade.
ComparedPartAgrees ==
  verdict = "equal" /\ failures = 0 =>
    LET n == Lesser(Len(a), Len(b))
    IN CASE mode = "fully ordered" ->
              \A i \in 1 .. n : a[i].symbol = b[i].symbol /\ a[i].key = b[i].key
         [] mode = "ordered by symbol" ->
              \A t \in ToSet(a) :
                LET x == BySymbol(a, t.symbol)
                    y == BySymbol(b, t.symbol)
                    m == Lesser(Len(x), Len(y))
                IN /\ m > 0
                   /\ {u.key : u \in ToSet(Prefix(m, x))}
                        \subseteq {u.key : u \in ToSet(Prefix(m, y))}
         [] mode = "unordered" -> ToSet(Prefix(n, a)) \subseteq ToSet(b)

\* The second source is read past its end only when the first is longer and
\* the turns do not come out even.
ReadsInBounds ==
  phase = "undefined" /\ failures = 0 =>
    /\ Len(a) > Len(b)
    /\ each_turn # 0 /\ Len(b) % each_turn # 0
=============================================================================
