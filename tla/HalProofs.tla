----------------------------- MODULE HalProofs -----------------------------
(***************************************************************************)
(* Memory, time and the log, for every value of the constants: the         *)
(* caches and what is written back from them, the start of the program,    *)
(* the alarms in their ring, the time of day, waiting, the timestamp, and  *)
(* what the HAL logs.                                                      *)
(* Each part has an inductive invariant of its own; at the end they are    *)
(* joined for the behaviours of BoardParts.                                *)
(***************************************************************************)
EXTENDS BoardParts, FiniteSetTheorems, SequenceTheorems, TLAPS

---------------------------------------------------------------------------
(* Numbers *)

LEMMA Divided ==
  ASSUME NEW k \in Nat, NEW n \in Nat \ {0}
  PROVE  k \div n \in Nat /\ k % n \in Nat /\ k % n < n /\ k = (k \div n) * n + (k % n)
BY SMT

LEMMA Grows ==
  ASSUME NEW i \in Nat, NEW h \in Nat, i <= h, NEW n \in Nat
  PROVE  i * n <= h * n
BY SMT

LEMMA Products ==
  ASSUME NEW i \in Nat, NEW j \in Nat, NEW n \in Nat
  PROVE  i * n \in Nat /\ j * n \in Nat /\ (i + j) * n = i * n + j * n /\ (i + 1) * n = i * n + n
BY SMT

\* A quotient is known by the remainder it leaves.
LEMMA QuotientIs ==
  ASSUME NEW k \in Nat, NEW n \in Nat \ {0}, NEW q \in Nat, NEW r \in Nat, r < n, k = q * n + r
  PROVE  k \div n = q /\ k % n = r
<1> DEFINE p == k \div n
           s == k % n
<1>1. p \in Nat /\ s \in Nat /\ s < n /\ k = p * n + s  BY Divided
<1>2. ~(p < q)
  <2> SUFFICES ASSUME p < q PROVE FALSE  OBVIOUS
  <2>1. (p + 1) * n <= q * n  BY <1>1, Grows
  <2>2. p * n \in Nat /\ q * n \in Nat /\ (p + 1) * n = p * n + n  BY <1>1, Products
  <2> HIDE DEF p, s
  <2> QED BY <1>1, <2>1, <2>2
<1>3. ~(q < p)
  <2> SUFFICES ASSUME q < p PROVE FALSE  OBVIOUS
  <2>1. (q + 1) * n <= p * n  BY <1>1, Grows
  <2>2. p * n \in Nat /\ q * n \in Nat /\ (q + 1) * n = q * n + n  BY <1>1, Products
  <2> HIDE DEF p, s
  <2> QED BY <1>1, <2>1, <2>2
<1> HIDE DEF p, s
<1>4. p = q  BY <1>1, <1>2, <1>3
<1>5. q * n \in Nat  BY Products
<1>6. s = r  BY <1>1, <1>4, <1>5
<1> QED BY <1>4, <1>6 DEF p, s


---------------------------------------------------------------------------
(* Sequences *)

LEMMA Joined ==
  ASSUME NEW S, NEW s \in Seq(S), NEW t \in Seq(S)
  PROVE  /\ s \o t \in Seq(S) /\ Len(s \o t) = Len(s) + Len(t)
         /\ \A n \in Nat : 1 <= n /\ n <= Len(s) => (s \o t)[n] = s[n]
         /\ \A n \in Nat : 1 <= n /\ n <= Len(t) => (s \o t)[n + Len(s)] = t[n]
<1>1. \A i \in 1 .. Len(s) + Len(t) :
        (s \o t)[i] = IF i <= Len(s) THEN s[i] ELSE t[i - Len(s)]
  BY ConcatProperties
<1> QED BY <1>1, ConcatProperties, LenProperties

---------------------------------------------------------------------------
(* Lines *)

CacheLines == 0 .. MemoryLines - 1

LEMMA CacheSizes ==
  /\ CacheLine \in Nat \ {0} /\ DataLines \in Nat \ {0} /\ CodeLines \in Nat \ {0}
  /\ MemoryLines \in Nat \ {0} /\ MaxStores \in Nat
BY CacheAssumption, SMT

LEMMA LineIs ==
  ASSUME NEW a \in Nat
  PROVE  LineOf(a) \in Nat /\ a % CacheLine \in Nat /\ a % CacheLine < CacheLine
         /\ a = LineOf(a) * CacheLine + (a % CacheLine)
BY CacheSizes, Divided DEF LineOf

LEMMA LineKnown ==
  ASSUME NEW a \in Nat, NEW l \in Nat, NEW o \in Nat, o < CacheLine, a = l * CacheLine + o
  PROVE  LineOf(a) = l /\ a % CacheLine = o
BY CacheSizes, QuotientIs DEF LineOf

LEMMA AddressLine ==
  ASSUME NEW a \in Addresses
  PROVE  a \in Nat /\ LineOf(a) \in CacheLines /\ a \in BytesIn(LineOf(a))
<1>1. a \in Nat /\ MemoryLines * CacheLine \in Nat /\ a < MemoryLines * CacheLine
  BY CacheSizes, Products DEF Addresses
<1>2. LineOf(a) \in Nat /\ a % CacheLine \in Nat /\ a = LineOf(a) * CacheLine + (a % CacheLine)
  BY <1>1, LineIs
<1>3. LineOf(a) < MemoryLines
  <2> SUFFICES ASSUME MemoryLines <= LineOf(a) PROVE FALSE  BY <1>2, CacheSizes
  <2>1. MemoryLines * CacheLine <= LineOf(a) * CacheLine  BY <1>2, CacheSizes, Grows
  <2>2. LineOf(a) * CacheLine \in Nat  BY <1>2, CacheSizes, Products
  <2> QED BY <1>1, <1>2, <2>1, <2>2
<1> QED BY <1>1, <1>2, <1>3, CacheSizes DEF CacheLines, BytesIn

\* The line so many lines on.
LEMMA LineOn ==
  ASSUME NEW s \in Nat, NEW k \in Nat
  PROVE  s + k * CacheLine \in Nat /\ LineOf(s + k * CacheLine) = LineOf(s) + k
<1> DEFINE l == LineOf(s)
           o == s % CacheLine
<1>1. l \in Nat /\ o \in Nat /\ o < CacheLine /\ s = l * CacheLine + o  BY LineIs
<1>2. l * CacheLine \in Nat /\ k * CacheLine \in Nat
      /\ (l + k) * CacheLine = l * CacheLine + k * CacheLine
  BY <1>1, CacheSizes, Products
<1> HIDE DEF l, o
<1>3. s + k * CacheLine \in Nat /\ l + k \in Nat
      /\ s + k * CacheLine = (l + k) * CacheLine + o
  BY <1>1, <1>2
<1>4. LineOf(s + k * CacheLine) = l + k  BY <1>1, <1>3, LineKnown
<1> QED BY <1>3, <1>4 DEF l

\* The loop of a call goes through every line its range has a byte in.
Begun(r) == {k \in 0 .. r.len : k * CacheLine < r.len}

LEMMA LinesCover ==
  ASSUME NEW r, r.start \in Nat, r.len \in Nat, NEW a \in Range0(r)
  PROVE  LineOf(a) \in LinesOf(r)
<1> DEFINE s == r.start
           o == a - s
           k == o \div CacheLine
           more == IF s % CacheLine # 0 THEN {Cardinality(Begun(r))} ELSE {}
<1>1. o \in Nat /\ o < r.len /\ a = s + o  BY DEF Range0
<1>2. k \in Nat /\ o % CacheLine \in Nat /\ o % CacheLine < CacheLine
      /\ o = k * CacheLine + (o % CacheLine) /\ k * CacheLine \in Nat
  BY <1>1, CacheSizes, Divided, Products
<1>3. LinesOf(r) = {LineOf(s + n * CacheLine) : n \in Begun(r) \cup more}
  BY DEF LinesOf, Begun
<1> HIDE DEF o, k, more
<1>4. k <= k * CacheLine
  <2>1. k * 1 <= k * CacheLine  BY <1>2, CacheSizes, SMT
  <2> QED BY <1>2, <2>1
<1>5. k \in Begun(r)  BY <1>1, <1>2, <1>4 DEF Begun
<1>6. LineOf(s) \in Nat /\ s % CacheLine \in Nat /\ s % CacheLine < CacheLine
      /\ s = LineOf(s) * CacheLine + (s % CacheLine) /\ LineOf(s) * CacheLine \in Nat
  BY CacheSizes, LineIs, Products
<1>7. a \in Nat  BY <1>1
<1> DEFINE l == LineOf(s)
           x == s % CacheLine
           y == o % CacheLine
<1>8. (l + k) * CacheLine = l * CacheLine + k * CacheLine
      /\ ((l + k) + 1) * CacheLine = (l + k) * CacheLine + CacheLine /\ l + k \in Nat
  BY <1>2, <1>6, CacheSizes, Products
<1> HIDE DEF l, x, y, s
<1>9. a = (l + k) * CacheLine + (x + y)  BY <1>1, <1>2, <1>6, <1>8, CacheSizes DEF l, x, y
<1>10. x \in Nat /\ y \in Nat /\ x < CacheLine /\ y < CacheLine  BY <1>2, <1>6 DEF x, y
<1>11. CASE x + y < CacheLine
  <2>1. LineOf(a) = l + k  BY <1>7, <1>8, <1>9, <1>10, <1>11, LineKnown
  <2>2. LineOf(s + k * CacheLine) = l + k  BY <1>2, LineOn DEF s, l
  <2> QED BY <1>3, <1>5, <2>1, <2>2
<1>12. CASE ~(x + y < CacheLine)
  <2>1. x + y - CacheLine \in Nat /\ x + y - CacheLine < CacheLine /\ l + k + 1 \in Nat
        /\ a = (l + k + 1) * CacheLine + (x + y - CacheLine)
    <3>1. x + y - CacheLine \in Nat /\ x + y - CacheLine < CacheLine /\ l + k + 1 \in Nat
      BY <1>8, <1>10, <1>12, CacheSizes
    <3>2. (l + k) * CacheLine \in Nat  BY <1>8, CacheSizes, Products
    <3> QED BY <1>8, <1>9, <1>10, <3>1, <3>2, CacheSizes
  <2>2. LineOf(a) = l + k + 1  BY <1>7, <2>1, LineKnown
  <2>3. LineOf(s + (k + 1) * CacheLine) = l + (k + 1)
    <3>1. k + 1 \in Nat /\ s \in Nat  BY <1>2 DEF s
    <3> QED BY <3>1, LineOn DEF l
  <2>4. k + 1 \in Begun(r) \cup more
    <3>1. CASE (k + 1) * CacheLine < r.len
      <4>1. k + 1 <= (k + 1) * CacheLine
        <5>1. (k + 1) * 1 <= (k + 1) * CacheLine  BY <1>2, CacheSizes, SMT
        <5> QED BY <1>2, <5>1
      <4>2. (k + 1) * CacheLine \in Nat  BY <1>2, CacheSizes, Products
      <4> QED BY <1>2, <3>1, <4>1, <4>2 DEF Begun
    <3>2. CASE ~((k + 1) * CacheLine < r.len)
      <4>1. \A n \in Nat : n * CacheLine < r.len <=> n <= k
        <5> TAKE n \in Nat
        <5>1. n * CacheLine \in Nat /\ (k + 1) * CacheLine \in Nat  BY <1>2, CacheSizes, Products
        <5>2. CASE n <= k
          <6>1. n * CacheLine <= k * CacheLine  BY <1>2, <5>2, CacheSizes, Grows
          <6> QED BY <1>1, <1>2, <5>1, <5>2, <6>1
        <5>3. CASE ~(n <= k)
          <6>1. (k + 1) * CacheLine <= n * CacheLine
            <7>1. k + 1 <= n /\ k + 1 \in Nat  BY <1>2, <5>3
            <7> QED BY <7>1, CacheSizes, Grows
          <6> QED BY <3>2, <5>1, <5>3, <6>1
        <5> QED BY <5>2, <5>3
      <4>2. Begun(r) = 0 .. k  BY <1>2, <1>5, <4>1 DEF Begun
      <4>3. Cardinality(Begun(r)) = k + 1  BY <1>2, <4>2, FS_Interval
      <4>4. x # 0  BY <1>10, <1>12
      <4> QED BY <4>3, <4>4 DEF more, x, s
    <3> QED BY <3>1, <3>2
  <2>5. l + (k + 1) = l + k + 1  BY <1>2, <1>6 DEF l
  <2> QED BY <1>3, <2>2, <2>3, <2>4, <2>5
<1> QED BY <1>11, <1>12

---------------------------------------------------------------------------
(* The caches: inductive invariant *)

CacheTypes ==
  /\ memory \in [Addresses -> Nat] /\ latest \in [Addresses -> Nat]
  /\ DOMAIN held \subseteq CacheLines
  /\ \A l \in DOMAIN held : DOMAIN held[l] = BytesIn(l)
  /\ \A l \in DOMAIN held : \A a \in BytesIn(l) : held[l][a] \in Nat
  /\ dirty \subseteq DOMAIN held
  /\ uncached \in Ranges \cup {NoRange} /\ buffer \in Ranges \cup {NoRange}
  /\ stores \in Nat

\* The lines a device has stored to.
BufferLines == {LineOf(b) : b \in Range0(buffer)}
CachedBytes == Addresses \ Range0(uncached)

\* The last store is in the cache if its line is dirty, and else in memory.
LatestFound ==
  \A a \in CachedBytes :
    latest[a] = IF LineOf(a) \in dirty THEN held[LineOf(a)][a] ELSE memory[a]

\* A clean line is as memory is, unless a device has stored to it.
CleanAgrees ==
  \A a \in CachedBytes :
    LineOf(a) \in DOMAIN held /\ LineOf(a) \notin dirty /\ LineOf(a) \notin BufferLines
      => held[LineOf(a)][a] = memory[a]

CacheInv ==
  /\ CacheTypes /\ LatestFound /\ CleanAgrees
  /\ FlushedInMemory /\ DeviceIsRead /\ FetchedAnew /\ UncachedKept

LEMMA NoRangeEmpty == Range0(NoRange) = {}
BY DEF Range0, NoRange

LEMMA RangeSizes ==
  ASSUME NEW r \in Ranges \cup {NoRange}
  PROVE  r.start \in Nat /\ r.len \in Nat /\ Range0(r) \subseteq Addresses
<1>1. CASE r \in Ranges
  <2>1. r.start \in Nat /\ r.len \in Nat /\ r.start + r.len <= MemoryLines * CacheLine
    BY <1>1, CacheAssumption
  <2>2. MemoryLines * CacheLine \in Nat  BY CacheSizes, Products
  <2> QED BY <2>1, <2>2 DEF Range0, Addresses
<1>2. CASE r = NoRange  BY <1>2, NoRangeEmpty DEF NoRange
<1> QED BY <1>1, <1>2

LEMMA RangeLines ==
  ASSUME NEW r \in Ranges \cup {NoRange}, NEW a \in Range0(r)
  PROVE  LineOf(a) \in LinesOf(r) /\ a \in Addresses
BY RangeSizes, LinesCover

LEMMA CacheStarts == CacheInit => CacheInv
<1> SUFFICES ASSUME CacheInit PROVE CacheInv  OBVIOUS
<1>1. CacheTypes  BY DEF CacheInit, CacheTypes
<1>2. LatestFound /\ CleanAgrees
  BY DEF CacheInit, LatestFound, CleanAgrees, CachedBytes
<1>3. FlushedInMemory /\ DeviceIsRead /\ FetchedAnew
  BY DEF CacheInit, FlushedInMemory, DeviceIsRead, FetchedAnew, NoFlush
<1>4. UncachedKept  BY NoRangeEmpty DEF CacheInit, UncachedKept
<1> QED BY <1>1, <1>2, <1>3, <1>4 DEF CacheInv

\* After a step that is no call, the calls' promises say nothing.
LEMMA NothingCalled ==
  ASSUME done' = NoFlush
  PROVE  FlushedInMemory' /\ DeviceIsRead' /\ FetchedAnew'
BY DEF FlushedInMemory, DeviceIsRead, FetchedAnew, NoFlush

\* Writing lines back: they leave the cache, and memory has what they held.
LEMMA WrittenBackIs ==
  ASSUME CacheTypes, LatestFound, NEW ls,
         memory' = WrittenBack(ls), dirty' = dirty \ ls, latest' = latest
  PROVE  /\ memory' \in [Addresses -> Nat]
         /\ \A a \in Addresses : LineOf(a) \notin ls \cap dirty => memory'[a] = memory[a]
         /\ \A a \in CachedBytes : LineOf(a) \notin dirty' => memory'[a] = latest'[a]
<1>1. \A a \in Addresses :
        memory'[a] = IF LineOf(a) \in ls \cap dirty THEN held[LineOf(a)][a] ELSE memory[a]
  BY DEF WrittenBack
<1>2. \A a \in Addresses : memory'[a] \in Nat
  <2> TAKE a \in Addresses
  <2>1. CASE LineOf(a) \in ls \cap dirty
    <3>1. a \in BytesIn(LineOf(a))  BY DEF BytesIn
    <3> QED BY <1>1, <2>1, <3>1 DEF CacheTypes
  <2>2. CASE LineOf(a) \notin ls \cap dirty  BY <1>1, <2>2 DEF CacheTypes
  <2> QED BY <2>1, <2>2
<1>3. memory' \in [Addresses -> Nat]  BY <1>2 DEF WrittenBack
<1>4. \A a \in CachedBytes : LineOf(a) \notin dirty' => memory'[a] = latest'[a]
  BY <1>1 DEF LatestFound, CachedBytes
<1> QED BY <1>1, <1>3, <1>4

LEMMA UncachedAfterWrite ==
  ASSUME CacheTypes, UncachedKept, NEW ls,
         memory' = WrittenBack(ls), dirty' = dirty \ ls, latest' = latest, uncached' = uncached
  PROVE  UncachedKept'
<1> SUFFICES ASSUME NEW a \in Range0(uncached), BytesIn(LineOf(a)) \subseteq Range0(uncached)
             PROVE  memory'[a] = latest'[a] /\ LineOf(a) \notin dirty'
  BY DEF UncachedKept
<1>1. memory[a] = latest[a] /\ LineOf(a) \notin dirty  BY DEF UncachedKept
<1>2. a \in Addresses  BY RangeLines DEF CacheTypes
<1> QED BY <1>1, <1>2 DEF WrittenBack

LEMMA LoadKeeps ==
  ASSUME CacheInv, NEW l \in CacheLines, Load(l)
  PROVE  CacheInv'
<1> DEFINE out == Rivals(DOMAIN held, l, DataLines)
<1>1. /\ l \notin DOMAIN held /\ memory' = WrittenBack(out) /\ dirty' = dirty \ out
      /\ held' = [k \in (DOMAIN held \ out) \cup {l} |->
                    IF k = l THEN [a \in BytesIn(l) |-> memory[a]] ELSE held[k]]
      /\ done' = NoFlush /\ UNCHANGED <<fetched, uncached, buffer, latest, stores>>
  BY DEF Load
<1>2. CacheTypes /\ LatestFound /\ CleanAgrees /\ UncachedKept  BY DEF CacheInv
<1> HIDE DEF out
<1>3. /\ memory' \in [Addresses -> Nat]
      /\ \A a \in Addresses : LineOf(a) \notin out \cap dirty => memory'[a] = memory[a]
      /\ \A a \in CachedBytes : LineOf(a) \notin dirty' => memory'[a] = latest'[a]
  BY <1>1, <1>2, WrittenBackIs
<1>4. \A k \in DOMAIN held' : k # l => k \in DOMAIN held \ out /\ held'[k] = held[k]  BY <1>1
<1>5. l \in DOMAIN held' /\ held'[l] = [a \in BytesIn(l) |-> memory[a]]  BY <1>1
<1>6. \A a \in Addresses : memory[a] \in Nat  BY <1>2 DEF CacheTypes
<1>7. CacheTypes'
  <2>1. DOMAIN held' \subseteq CacheLines  BY <1>1, <1>2 DEF CacheTypes
  <2>2. \A k \in DOMAIN held' : DOMAIN held'[k] = BytesIn(k)
    BY <1>2, <1>4, <1>5 DEF CacheTypes
  <2>3. \A k \in DOMAIN held' : \A a \in BytesIn(k) : held'[k][a] \in Nat
    BY <1>2, <1>4, <1>5, <1>6 DEF CacheTypes, BytesIn
  <2>4. dirty' \subseteq DOMAIN held'  BY <1>1, <1>2 DEF CacheTypes
  <2> QED BY <1>1, <1>2, <1>3, <2>1, <2>2, <2>3, <2>4 DEF CacheTypes
<1>8. l \notin dirty'  BY <1>1, <1>2 DEF CacheTypes
<1>9. LatestFound'
  <2> SUFFICES ASSUME NEW a \in CachedBytes, LineOf(a) \in dirty'
               PROVE  latest'[a] = held'[LineOf(a)][a]
    BY <1>1, <1>3 DEF LatestFound, CachedBytes
  <2>1. LineOf(a) \in dirty /\ LineOf(a) \in DOMAIN held' /\ LineOf(a) # l
    BY <1>7, <1>8, <1>1 DEF CacheTypes
  <2> QED BY <1>1, <1>2, <1>4, <2>1 DEF LatestFound
<1>10. CleanAgrees'
  <2> SUFFICES ASSUME NEW a \in CachedBytes, LineOf(a) \in DOMAIN held', LineOf(a) \notin dirty',
                      LineOf(a) \notin BufferLines
               PROVE  held'[LineOf(a)][a] = memory'[a]
    BY <1>1 DEF CleanAgrees, CachedBytes, BufferLines
  <2>1. a \in Addresses /\ a \in BytesIn(LineOf(a))  BY DEF CachedBytes, BytesIn
  <2>2. CASE LineOf(a) = l
    <3>1. LineOf(a) \notin dirty  BY <1>1, <1>2, <2>2 DEF CacheTypes
    <3> QED BY <1>3, <1>5, <2>1, <2>2, <3>1
  <2>3. CASE LineOf(a) # l
    <3>1. LineOf(a) \in DOMAIN held \ out /\ held'[LineOf(a)] = held[LineOf(a)]  BY <1>4, <2>3
    <3>2. LineOf(a) \notin dirty  BY <1>1, <3>1
    <3> QED BY <1>2, <1>3, <2>1, <3>1, <3>2 DEF CleanAgrees
  <2> QED BY <2>2, <2>3
<1>11. UncachedKept'  BY <1>1, <1>2, UncachedAfterWrite
<1> QED BY <1>1, <1>7, <1>9, <1>10, <1>11, NothingCalled DEF CacheInv

LEMMA FetchKeeps ==
  ASSUME CacheInv, NEW l \in CacheLines, Fetch(l)
  PROVE  CacheInv'
<1>1. FlushedInMemory' /\ DeviceIsRead' /\ FetchedAnew'  BY NothingCalled DEF Fetch
<1>2. CacheTypes' /\ LatestFound' /\ CleanAgrees' /\ UncachedKept'
  BY DEF Fetch, CacheInv, CacheTypes, LatestFound, CleanAgrees, UncachedKept, CachedBytes,
         BufferLines
<1> QED BY <1>1, <1>2 DEF CacheInv

LEMMA StoreKeeps ==
  ASSUME CacheInv, NEW a \in Addresses, Store(a)
  PROVE  CacheInv'
<1> DEFINE l == LineOf(a)
<1>1. /\ stores' = stores + 1 /\ l \in DOMAIN held /\ a \notin Range0(uncached)
      /\ l \notin BufferLines
      /\ held' = [held EXCEPT ![l] = [@ EXCEPT ![a] = stores']]
      /\ dirty' = dirty \cup {l} /\ latest' = [latest EXCEPT ![a] = stores'] /\ done' = NoFlush
      /\ UNCHANGED <<memory, fetched, uncached, buffer>>
  BY DEF Store, BufferLines
<1>2. CacheTypes /\ LatestFound /\ CleanAgrees /\ UncachedKept  BY DEF CacheInv
<1>3. a \in BytesIn(l) /\ stores' \in Nat  BY <1>1, <1>2 DEF BytesIn, CacheTypes
<1> HIDE DEF l
<1>4. DOMAIN held' = DOMAIN held
      /\ \A k \in DOMAIN held : k # l => held'[k] = held[k]
  BY <1>1
<1>5. DOMAIN held'[l] = BytesIn(l) /\ held'[l][a] = stores'
      /\ \A b \in BytesIn(l) : b # a => held'[l][b] = held[l][b]
  BY <1>1, <1>2, <1>3 DEF CacheTypes
<1>6. latest'[a] = stores' /\ \A b \in Addresses : b # a => latest'[b] = latest[b]
  BY <1>1, <1>2 DEF CacheTypes
<1>7. CacheTypes'
  <2>1. \A k \in DOMAIN held' : DOMAIN held'[k] = BytesIn(k)  BY <1>2, <1>4, <1>5 DEF CacheTypes
  <2>2. \A k \in DOMAIN held' : \A b \in BytesIn(k) : held'[k][b] \in Nat
    BY <1>2, <1>3, <1>4, <1>5 DEF CacheTypes
  <2>3. latest' \in [Addresses -> Nat]  BY <1>1, <1>2, <1>3 DEF CacheTypes
  <2>4. dirty' \subseteq DOMAIN held'  BY <1>1, <1>2, <1>4 DEF CacheTypes
  <2> QED BY <1>1, <1>2, <1>3, <1>4, <2>1, <2>2, <2>3, <2>4 DEF CacheTypes
<1>8. LatestFound'
  <2> SUFFICES ASSUME NEW b \in CachedBytes
               PROVE  latest'[b] = IF LineOf(b) \in dirty' THEN held'[LineOf(b)][b] ELSE memory[b]
    BY <1>1 DEF LatestFound, CachedBytes
  <2>1. b \in Addresses /\ b \in BytesIn(LineOf(b))  BY DEF CachedBytes, BytesIn
  <2>2. CASE b = a  BY <1>1, <1>5, <1>6, <2>2 DEF l
  <2>3. CASE b # a /\ LineOf(b) = l
    <3>1. latest'[b] = latest[b] /\ held'[LineOf(b)][b] = held[l][b] /\ LineOf(b) \in dirty'
      BY <1>1, <1>5, <1>6, <2>1, <2>3
    <3>2. latest[b] = held[l][b]  BY <1>1, <1>2, <2>3 DEF LatestFound, CleanAgrees
    <3> QED BY <3>1, <3>2
  <2>4. CASE LineOf(b) # l
    <3>1. b # a  BY <2>4 DEF l
    <3>2. LineOf(b) \in dirty' <=> LineOf(b) \in dirty  BY <1>1, <2>4
    <3>3. LineOf(b) \in dirty => held'[LineOf(b)] = held[LineOf(b)]
      BY <1>2, <1>4, <2>4 DEF CacheTypes
    <3>4. latest'[b] = latest[b]  BY <1>6, <2>1, <3>1
    <3> QED BY <1>2, <3>2, <3>3, <3>4 DEF LatestFound
  <2> QED BY <2>2, <2>3, <2>4
<1>9. CleanAgrees'
  <2> SUFFICES ASSUME NEW b \in CachedBytes, LineOf(b) \in DOMAIN held', LineOf(b) \notin dirty',
                      LineOf(b) \notin BufferLines
               PROVE  held'[LineOf(b)][b] = memory[b]
    BY <1>1 DEF CleanAgrees, CachedBytes, BufferLines
  <2>1. LineOf(b) # l /\ LineOf(b) \notin dirty  BY <1>1
  <2> QED BY <1>2, <1>4, <2>1 DEF CleanAgrees
<1>10. UncachedKept'
  <2> SUFFICES ASSUME NEW b \in Range0(uncached), BytesIn(LineOf(b)) \subseteq Range0(uncached)
               PROVE  memory[b] = latest'[b] /\ LineOf(b) \notin dirty'
    BY <1>1 DEF UncachedKept
  <2>1. memory[b] = latest[b] /\ LineOf(b) \notin dirty  BY <1>2 DEF UncachedKept
  <2>2. b # a /\ LineOf(b) # l  BY <1>1, <1>3
  <2>3. b \in Addresses  BY <1>2, RangeLines DEF CacheTypes
  <2> QED BY <1>1, <1>6, <2>1, <2>2, <2>3
<1> QED BY <1>1, <1>7, <1>8, <1>9, <1>10, NothingCalled DEF CacheInv

LEMMA StoreUncachedKeeps ==
  ASSUME CacheInv, NEW a \in Addresses, StoreUncached(a)
  PROVE  CacheInv'
<1>1. /\ stores' = stores + 1 /\ a \in Range0(uncached)
      /\ memory' = [memory EXCEPT ![a] = stores'] /\ latest' = [latest EXCEPT ![a] = stores']
      /\ done' = NoFlush /\ UNCHANGED <<held, dirty, fetched, uncached, buffer>>
  BY DEF StoreUncached
<1>2. CacheTypes /\ LatestFound /\ CleanAgrees /\ UncachedKept  BY DEF CacheInv
<1>3. stores' \in Nat  BY <1>1, <1>2 DEF CacheTypes
<1>4. \A b \in Addresses : memory'[b] = (IF b = a THEN stores' ELSE memory[b])
                           /\ latest'[b] = (IF b = a THEN stores' ELSE latest[b])
  BY <1>1, <1>2 DEF CacheTypes
<1>5. CacheTypes'  BY <1>1, <1>2, <1>3 DEF CacheTypes
<1>6. LatestFound'  BY <1>1, <1>2, <1>4 DEF LatestFound, CachedBytes
<1>7. CleanAgrees'  BY <1>1, <1>2, <1>4 DEF CleanAgrees, CachedBytes, BufferLines
<1>8. UncachedKept'
  <2> SUFFICES ASSUME NEW b \in Range0(uncached), BytesIn(LineOf(b)) \subseteq Range0(uncached)
               PROVE  memory'[b] = latest'[b] /\ LineOf(b) \notin dirty
    BY <1>1 DEF UncachedKept
  <2>1. b \in Addresses  BY <1>2, RangeLines DEF CacheTypes
  <2> QED BY <1>2, <1>4, <2>1 DEF UncachedKept
<1> QED BY <1>1, <1>5, <1>6, <1>7, <1>8, NothingCalled DEF CacheInv

LEMMA DeviceKeeps ==
  ASSUME CacheInv, NEW r \in Ranges, DeviceStores(r)
  PROVE  CacheInv'
<1>1. /\ stores' = stores + 1 /\ buffer = NoRange /\ \A a \in Range0(r) : LineOf(a) \notin dirty
      /\ buffer' = r
      /\ memory' = [a \in Addresses |-> IF a \in Range0(r) THEN stores' ELSE memory[a]]
      /\ latest' = [a \in Addresses |-> IF a \in Range0(r) THEN stores' ELSE latest[a]]
      /\ done' = NoFlush /\ UNCHANGED <<held, dirty, fetched, uncached>>
  BY DEF DeviceStores
<1>2. CacheTypes /\ LatestFound /\ CleanAgrees /\ UncachedKept  BY DEF CacheInv
<1>3. stores' \in Nat  BY <1>1, <1>2 DEF CacheTypes
<1>4. CacheTypes'  BY <1>1, <1>2, <1>3 DEF CacheTypes
<1>5. LatestFound'  BY <1>1, <1>2 DEF LatestFound, CachedBytes
<1>6. CleanAgrees'
  <2> SUFFICES ASSUME NEW b \in CachedBytes, LineOf(b) \in DOMAIN held, LineOf(b) \notin dirty,
                      LineOf(b) \notin {LineOf(c) : c \in Range0(r)}
               PROVE  held[LineOf(b)][b] = memory'[b]
    BY <1>1 DEF CleanAgrees, CachedBytes, BufferLines
  <2>1. b \notin Range0(r) /\ b \in Addresses  BY DEF CachedBytes
  <2>2. LineOf(b) \notin BufferLines  BY <1>1, NoRangeEmpty DEF BufferLines
  <2> QED BY <1>1, <1>2, <2>1, <2>2 DEF CleanAgrees
<1>7. UncachedKept'
  <2> SUFFICES ASSUME NEW b \in Range0(uncached), BytesIn(LineOf(b)) \subseteq Range0(uncached)
               PROVE  memory'[b] = latest'[b] /\ LineOf(b) \notin dirty
    BY <1>1 DEF UncachedKept
  <2>1. b \in Addresses  BY <1>2, RangeLines DEF CacheTypes
  <2> QED BY <1>1, <1>2, <2>1 DEF UncachedKept
<1> QED BY <1>1, <1>4, <1>5, <1>6, <1>7, NothingCalled DEF CacheInv

---------------------------------------------------------------------------
(* The caches: the calls *)

\* Writing lines back, and what a range they cover promises then.
LEMMA WriteLinesKeeps ==
  ASSUME CacheTypes, LatestFound, CleanAgrees, NEW ls, WriteLines(ls),
         UNCHANGED <<buffer, latest, stores>>,
         uncached' \in Ranges \cup {NoRange}, Range0(uncached) \subseteq Range0(uncached')
  PROVE  /\ CacheTypes' /\ LatestFound' /\ CleanAgrees'
         /\ \A a \in CachedBytes : LineOf(a) \in ls =>
              LineOf(a) \notin DOMAIN held' /\ LineOf(a) \notin dirty' /\ memory'[a] = latest'[a]
<1>1. /\ memory' = WrittenBack(ls) /\ dirty' = dirty \ ls
      /\ held' = [l \in DOMAIN held \ ls |-> held[l]]
  BY DEF WriteLines, Without
<1>2. /\ memory' \in [Addresses -> Nat]
      /\ \A a \in Addresses : LineOf(a) \notin ls \cap dirty => memory'[a] = memory[a]
      /\ \A a \in CachedBytes : LineOf(a) \notin dirty' => memory'[a] = latest'[a]
  BY <1>1, WrittenBackIs
<1>3. DOMAIN held' = DOMAIN held \ ls /\ \A l \in DOMAIN held' : held'[l] = held[l]  BY <1>1
<1>4. CacheTypes'
  <2>1. /\ DOMAIN held' \subseteq CacheLines /\ dirty' \subseteq DOMAIN held'
        /\ \A l \in DOMAIN held' : DOMAIN held'[l] = BytesIn(l)
        /\ \A l \in DOMAIN held' : \A a \in BytesIn(l) : held'[l][a] \in Nat
    BY <1>1, <1>3 DEF CacheTypes
  <2> QED BY <1>2, <2>1 DEF CacheTypes
<1>5. LatestFound'
  <2> SUFFICES ASSUME NEW a \in CachedBytes
               PROVE  latest[a] = IF LineOf(a) \in dirty' THEN held'[LineOf(a)][a] ELSE memory'[a]
    BY DEF LatestFound, CachedBytes
  <2>1. CASE LineOf(a) \in dirty'
    <3>1. LineOf(a) \in dirty /\ held'[LineOf(a)] = held[LineOf(a)]
      BY <1>1, <1>3, <1>4, <2>1 DEF CacheTypes
    <3> QED BY <2>1, <3>1 DEF LatestFound
  <2>2. CASE LineOf(a) \notin dirty'  BY <1>2, <2>2
  <2> QED BY <2>1, <2>2
<1>6. CleanAgrees'
  <2> SUFFICES ASSUME NEW a \in CachedBytes, LineOf(a) \in DOMAIN held', LineOf(a) \notin dirty',
                      LineOf(a) \notin BufferLines
               PROVE  held'[LineOf(a)][a] = memory'[a]
    BY DEF CleanAgrees, CachedBytes, BufferLines
  <2>1. LineOf(a) \in DOMAIN held /\ LineOf(a) \notin dirty /\ held'[LineOf(a)] = held[LineOf(a)]
    BY <1>1, <1>3
  <2>2. a \in Addresses  BY DEF CachedBytes
  <2> QED BY <1>2, <2>1, <2>2 DEF CleanAgrees
<1>7. \A a \in CachedBytes : LineOf(a) \in ls => LineOf(a) \notin DOMAIN held' /\ LineOf(a) \notin dirty'
  BY <1>1, <1>3
<1> QED BY <1>2, <1>4, <1>5, <1>6, <1>7

LEMMA FlushKeeps ==
  ASSUME CacheInv, NEW r \in Ranges, DcacheFlush(r)
  PROVE  CacheInv'
<1>1. /\ WriteLines(LinesOf(r)) /\ done' = [does |-> "flush", range |-> r]
      /\ UNCHANGED <<fetched, uncached, buffer, latest, stores>>
  BY DEF DcacheFlush
<1>2. CacheTypes /\ LatestFound /\ CleanAgrees /\ UncachedKept  BY DEF CacheInv
<1>3. uncached' \in Ranges \cup {NoRange}  BY <1>1, <1>2 DEF CacheTypes
<1>4. /\ CacheTypes' /\ LatestFound' /\ CleanAgrees'
      /\ \A a \in CachedBytes : LineOf(a) \in LinesOf(r) =>
           LineOf(a) \notin DOMAIN held' /\ LineOf(a) \notin dirty' /\ memory'[a] = latest'[a]
  BY <1>1, <1>2, <1>3, WriteLinesKeeps
<1>5. FlushedInMemory'
  <2> SUFFICES ASSUME NEW a \in Range0(r) \ Range0(uncached)
               PROVE  LineOf(a) \notin DOMAIN held' /\ memory'[a] = latest'[a]
    BY <1>1 DEF FlushedInMemory
  <2>1. a \in CachedBytes /\ LineOf(a) \in LinesOf(r)  BY RangeLines DEF CachedBytes
  <2> QED BY <1>4, <2>1
<1>6. DeviceIsRead' /\ FetchedAnew'  BY <1>1 DEF DeviceIsRead, FetchedAnew
<1>7. UncachedKept'  BY <1>1, <1>2, UncachedAfterWrite DEF WriteLines
<1> QED BY <1>4, <1>5, <1>6, <1>7 DEF CacheInv

LEMMA FlushAllKeeps == CacheInv /\ DcacheFlushAll => CacheInv'
<1> SUFFICES ASSUME CacheInv, DcacheFlushAll PROVE CacheInv'  OBVIOUS
<1> DEFINE all == [start |-> 0, len |-> Cardinality(Addresses)]
<1>1. /\ WriteLines(DOMAIN held) /\ done' = [does |-> "flush", range |-> all]
      /\ UNCHANGED <<fetched, uncached, buffer, latest, stores>>
  BY DEF DcacheFlushAll
<1>2. CacheTypes /\ LatestFound /\ CleanAgrees /\ UncachedKept  BY DEF CacheInv
<1>3. uncached' \in Ranges \cup {NoRange}  BY <1>1, <1>2 DEF CacheTypes
<1>4. /\ CacheTypes' /\ LatestFound' /\ CleanAgrees'
      /\ \A a \in CachedBytes : LineOf(a) \in DOMAIN held =>
           LineOf(a) \notin DOMAIN held' /\ LineOf(a) \notin dirty' /\ memory'[a] = latest'[a]
  BY <1>1, <1>2, <1>3, WriteLinesKeeps
<1>5. DOMAIN held' = {} /\ dirty' = {}
  BY <1>1, <1>2 DEF WriteLines, Without, CacheTypes
<1>6. Range0(all) \subseteq Addresses
  <2>1. MemoryLines * CacheLine \in Nat  BY CacheSizes, Products
  <2>2. Cardinality(Addresses) = MemoryLines * CacheLine
    <3> DEFINE n == MemoryLines * CacheLine
    <3>1. n \in Nat  BY <2>1
    <3> HIDE DEF n
    <3>2. Cardinality(0 .. n - 1) = n
      <4>1. CASE n = 0  BY <4>1, FS_Interval
      <4>2. CASE n # 0  BY <3>1, <4>2, FS_Interval
      <4> QED BY <4>1, <4>2
    <3> QED BY <3>2 DEF n, Addresses
  <2> QED BY <2>1, <2>2 DEF Range0, Addresses
<1> HIDE DEF all
<1>7. FlushedInMemory'
  <2> SUFFICES ASSUME NEW a \in Range0(all) \ Range0(uncached)
               PROVE  LineOf(a) \notin DOMAIN held' /\ memory'[a] = latest'[a]
    BY <1>1 DEF FlushedInMemory
  <2>1. a \in CachedBytes  BY <1>6 DEF CachedBytes
  <2>2. latest'[a] = memory'[a]  BY <1>1, <1>4, <1>5, <2>1 DEF LatestFound, CachedBytes
  <2> QED BY <1>5, <2>2
<1>8. DeviceIsRead' /\ FetchedAnew'  BY <1>1 DEF DeviceIsRead, FetchedAnew
<1>9. UncachedKept'  BY <1>1, <1>2, UncachedAfterWrite DEF WriteLines
<1> QED BY <1>4, <1>7, <1>8, <1>9 DEF CacheInv

LEMMA DiscardKeeps ==
  ASSUME CacheInv, NEW r \in Ranges, DcacheFlushNoWriteback(r)
  PROVE  CacheInv'
<1>1. /\ buffer = r /\ LinesOf(r) \cap dirty = {} /\ buffer' = NoRange
      /\ held' = [l \in DOMAIN held \ LinesOf(r) |-> held[l]]
      /\ done' = [does |-> "discard", range |-> r]
      /\ UNCHANGED <<memory, dirty, fetched, uncached, latest, stores>>
  BY DEF DcacheFlushNoWriteback, Without
<1>2. CacheTypes /\ LatestFound /\ CleanAgrees /\ UncachedKept  BY DEF CacheInv
<1>3. DOMAIN held' = DOMAIN held \ LinesOf(r) /\ \A l \in DOMAIN held' : held'[l] = held[l]
  BY <1>1
<1>4. \A l \in dirty : l \in DOMAIN held'  BY <1>1, <1>2, <1>3 DEF CacheTypes
<1>5. CacheTypes'
  <2>1. /\ DOMAIN held' \subseteq CacheLines /\ dirty' \subseteq DOMAIN held'
        /\ \A l \in DOMAIN held' : DOMAIN held'[l] = BytesIn(l)
        /\ \A l \in DOMAIN held' : \A a \in BytesIn(l) : held'[l][a] \in Nat
    BY <1>1, <1>2, <1>3, <1>4 DEF CacheTypes
  <2> QED BY <1>1, <1>2, <2>1 DEF CacheTypes
<1>6. LatestFound'
  BY <1>1, <1>2, <1>3, <1>4 DEF LatestFound, CachedBytes
<1>7. CleanAgrees'
  <2> SUFFICES ASSUME NEW a \in CachedBytes, LineOf(a) \in DOMAIN held', LineOf(a) \notin dirty
               PROVE  held'[LineOf(a)][a] = memory[a]
    BY <1>1 DEF CleanAgrees, CachedBytes
  <2>1. LineOf(a) \in DOMAIN held /\ LineOf(a) \notin LinesOf(r)
        /\ held'[LineOf(a)] = held[LineOf(a)]
    BY <1>3
  <2>2. \A b \in Range0(r) : LineOf(b) \in LinesOf(r)  BY RangeLines
  <2>3. LineOf(a) \notin BufferLines  BY <1>1, <2>1, <2>2 DEF BufferLines
  <2> QED BY <1>2, <2>1, <2>3 DEF CleanAgrees
<1>8. DeviceIsRead'
  <2> SUFFICES ASSUME NEW a \in Range0(r) \ Range0(uncached)
               PROVE  LineOf(a) \notin DOMAIN held' /\ memory[a] = latest[a]
    BY <1>1 DEF DeviceIsRead
  <2>1. a \in CachedBytes /\ LineOf(a) \in LinesOf(r)  BY RangeLines DEF CachedBytes
  <2>2. LineOf(a) \notin dirty  BY <1>1, <2>1
  <2> QED BY <1>2, <1>3, <2>1, <2>2 DEF LatestFound
<1>9. FlushedInMemory' /\ FetchedAnew'  BY <1>1 DEF FlushedInMemory, FetchedAnew
<1>10. UncachedKept'  BY <1>1, <1>2 DEF UncachedKept
<1> QED BY <1>5, <1>6, <1>7, <1>8, <1>9, <1>10 DEF CacheInv

LEMMA RemapKeeps ==
  ASSUME CacheInv, NEW r \in Ranges, RemapUncached(r)
  PROVE  CacheInv'
<1>1. /\ uncached = NoRange /\ uncached' = r /\ WriteLines(LinesOf(r)) /\ done' = NoFlush
      /\ UNCHANGED <<fetched, buffer, latest, stores>>
  BY DEF RemapUncached, WholeOf
<1>2. CacheTypes /\ LatestFound /\ CleanAgrees /\ UncachedKept  BY DEF CacheInv
<1>3. /\ CacheTypes' /\ LatestFound' /\ CleanAgrees'
      /\ \A a \in CachedBytes : LineOf(a) \in LinesOf(r) =>
           LineOf(a) \notin DOMAIN held' /\ LineOf(a) \notin dirty' /\ memory'[a] = latest'[a]
  BY <1>1, <1>2, NoRangeEmpty, WriteLinesKeeps
<1>4. UncachedKept'
  <2> SUFFICES ASSUME NEW a \in Range0(r)
               PROVE  memory'[a] = latest'[a] /\ LineOf(a) \notin dirty'
    BY <1>1 DEF UncachedKept
  <2>1. a \in CachedBytes /\ LineOf(a) \in LinesOf(r)
    BY <1>1, RangeLines, NoRangeEmpty DEF CachedBytes
  <2> QED BY <1>3, <2>1
<1> QED BY <1>1, <1>3, <1>4, NothingCalled DEF CacheInv

\* A later byte is in the same line or in a later one.
LEMMA LinesInOrder ==
  ASSUME NEW s \in Nat, NEW a \in Nat, s <= a
  PROVE  LineOf(s) <= LineOf(a)
<1> DEFINE p == LineOf(s)
           q == LineOf(a)
<1>1. p \in Nat /\ p * CacheLine <= s /\ p * CacheLine \in Nat
  <2>1. p \in Nat /\ s % CacheLine \in Nat /\ s = p * CacheLine + (s % CacheLine)  BY LineIs
  <2>2. p * CacheLine \in Nat  BY <2>1, CacheSizes, Products
  <2> HIDE DEF p
  <2> QED BY <2>1, <2>2
<1>2. q \in Nat /\ (q + 1) * CacheLine \in Nat /\ a < (q + 1) * CacheLine
  <2>1. q \in Nat /\ a % CacheLine \in Nat /\ a % CacheLine < CacheLine
        /\ a = q * CacheLine + (a % CacheLine)
    BY LineIs
  <2>2. q * CacheLine \in Nat /\ (q + 1) * CacheLine = q * CacheLine + CacheLine
    BY <2>1, CacheSizes, Products
  <2> HIDE DEF q
  <2> QED BY <2>1, <2>2, CacheSizes
<1> HIDE DEF p, q
<1>3. ~(q < p)
  <2> SUFFICES ASSUME q < p PROVE FALSE  OBVIOUS
  <2>1. (q + 1) * CacheLine <= p * CacheLine  BY <1>1, <1>2, CacheSizes, Grows
  <2> QED BY <1>1, <1>2, <2>1
<1>4. p <= q  BY <1>1, <1>2, <1>3
<1> QED BY <1>4 DEF p, q

\* The places that alt_icache_flush empties are those of all the lines of the
\* range, however long it is.
LEMMA PlacesCover ==
  ASSUME NEW r \in [start : Nat, len : Nat], NEW a \in Range0(r)
  PROVE  \E l \in LinesOf([r EXCEPT !.len = Trimmed(@)]) : LineOf(a) % CodeLines = l % CodeLines
<1> DEFINE t == [r EXCEPT !.len = Trimmed(@)]
           s == r.start
           n == CodeLines * CacheLine
<1>1. t.start = s /\ t.len = Trimmed(r.len) /\ s \in Nat /\ r.len \in Nat /\ n \in Nat
  BY CacheSizes, Products
<1>2. t.len \in Nat  BY <1>1 DEF Trimmed
<1>3. a \in Nat /\ s <= a  BY DEF Range0
<1> HIDE DEF t
<1>4. CASE r.len <= n
  <2>1. t.len = r.len  BY <1>1, <1>4 DEF Trimmed
  <2>2. a \in Range0(t)  BY <1>1, <2>1 DEF Range0
  <2>3. LineOf(a) \in LinesOf(t)  BY <1>1, <1>2, <2>2, LinesCover
  <2> QED BY <2>3 DEF t
<1>5. CASE ~(r.len <= n)
  <2> DEFINE p == LineOf(s)
             d == LineOf(a) - p
             q == d \div CodeLines
             m == d % CodeLines
             b == s + m * CacheLine
             x == (p + m) \div CodeLines
             y == (p + m) % CodeLines
  <2>1. t.len = n  BY <1>1, <1>5 DEF Trimmed
  <2>2. p \in Nat /\ LineOf(a) \in Nat /\ d \in Nat /\ LineOf(a) = p + d
    <3>1. p \in Nat /\ LineOf(a) \in Nat /\ p <= LineOf(a)  BY <1>1, <1>3, LineIs, LinesInOrder
    <3> HIDE DEF p
    <3> QED BY <3>1
  <2> HIDE DEF p, d
  <2>3. q \in Nat /\ m \in Nat /\ m < CodeLines /\ d = q * CodeLines + m /\ q * CodeLines \in Nat
    BY <2>2, CacheSizes, Divided, Products
  <2> HIDE DEF q, m
  <2>4. b \in Nat /\ LineOf(b) = p + m  BY <1>1, <2>3, LineOn DEF p
  <2>5. m * CacheLine \in Nat /\ m * CacheLine < n
    <3>1. (m + 1) * CacheLine <= n  BY <2>3, CacheSizes, Grows
    <3>2. m * CacheLine \in Nat /\ (m + 1) * CacheLine = m * CacheLine + CacheLine
      BY <2>3, CacheSizes, Products
    <3> HIDE DEF n
    <3> QED BY <1>1, <3>1, <3>2, CacheSizes
  <2>6. b \in Range0(t)
    <3> HIDE DEF n
    <3> QED BY <1>1, <2>1, <2>5 DEF Range0
  <2>7. p + m \in LinesOf(t)  BY <1>1, <1>2, <2>4, <2>6, LinesCover
  <2>8. p + m \in Nat /\ x \in Nat /\ y \in Nat /\ y < CodeLines /\ p + m = x * CodeLines + y
    BY <2>2, <2>3, CacheSizes, Divided
  <2> HIDE DEF x
  <2>9. (x + q) * CodeLines = x * CodeLines + q * CodeLines /\ x * CodeLines \in Nat
    BY <2>3, <2>8, CacheSizes, Products
  <2>10. LineOf(a) = (x + q) * CodeLines + y /\ x + q \in Nat
    <3> HIDE DEF y
    <3> QED BY <2>2, <2>3, <2>8, <2>9
  <2>11. LineOf(a) % CodeLines = y
    <3> HIDE DEF y
    <3> QED BY <2>2, <2>8, <2>10, CacheSizes, QuotientIs
  <2> QED BY <2>7, <2>11 DEF t
<1> QED BY <1>1, <1>4, <1>5

LEMMA IcacheKeeps ==
  ASSUME CacheInv, NEW r \in [start : Nat, len : Nat], IcacheFlush(r)
  PROVE  CacheInv'
<1> DEFINE places == {l % CodeLines : l \in LinesOf([r EXCEPT !.len = Trimmed(@)])}
<1>1. /\ fetched' = {l \in fetched : l % CodeLines \notin places}
      /\ done' = [does |-> "icache", range |-> r]
      /\ UNCHANGED <<memory, held, dirty, uncached, buffer, latest, stores>>
  BY DEF IcacheFlush
<1>2. FetchedAnew'
  <2> SUFFICES ASSUME NEW a \in Range0(r) PROVE LineOf(a) \notin fetched'
    BY <1>1 DEF FetchedAnew
  <2>1. LineOf(a) % CodeLines \in places  BY PlacesCover
  <2> HIDE DEF places
  <2> QED BY <1>1, <2>1
<1>3. FlushedInMemory' /\ DeviceIsRead'  BY <1>1 DEF FlushedInMemory, DeviceIsRead
<1>4. CacheTypes' /\ LatestFound' /\ CleanAgrees' /\ UncachedKept'
  BY <1>1 DEF CacheInv, CacheTypes, LatestFound, CleanAgrees, UncachedKept, CachedBytes,
              BufferLines
<1> QED BY <1>2, <1>3, <1>4 DEF CacheInv

LEMMA CacheKeeps == CacheInv /\ [CacheNext]_cacheVars => CacheInv'
<1> SUFFICES ASSUME CacheInv, [CacheNext]_cacheVars PROVE CacheInv'  OBVIOUS
<1>1. CASE UNCHANGED cacheVars
  BY <1>1 DEF cacheVars, CacheInv, CacheTypes, LatestFound, CleanAgrees, UncachedKept, CachedBytes,
              BufferLines, FlushedInMemory, DeviceIsRead, FetchedAnew
<1>2. ASSUME NEW l \in 0 .. MemoryLines - 1, Load(l) \/ Fetch(l)  PROVE CacheInv'
  BY <1>2, LoadKeeps, FetchKeeps DEF CacheLines
<1>3. ASSUME NEW a \in Addresses, Store(a) \/ StoreUncached(a)  PROVE CacheInv'
  BY <1>3, StoreKeeps, StoreUncachedKeeps
<1>4. ASSUME NEW r \in Ranges,
             \/ DeviceStores(r) \/ DcacheFlush(r) \/ DcacheFlushNoWriteback(r) \/ IcacheFlush(r)
             \/ RemapUncached(r)
      PROVE  CacheInv'
  <2>1. r \in [start : Nat, len : Nat]  BY CacheAssumption
  <2> QED BY <1>4, <2>1, DeviceKeeps, FlushKeeps, DiscardKeeps, IcacheKeeps, RemapKeeps
<1>5. CASE IcacheFlushAll
  <2>1. [start |-> 0, len |-> CodeLines * CacheLine] \in [start : Nat, len : Nat]
    BY CacheSizes, Products
  <2> QED BY <1>5, <2>1, IcacheKeeps DEF IcacheFlushAll
<1> QED BY <1>1, <1>2, <1>3, <1>4, <1>5, FlushAllKeeps DEF CacheNext

---------------------------------------------------------------------------
(* The start *)

LEMMA StartSizes ==
  /\ RoWords \in Nat /\ RwWords \in Nat /\ BssWords \in Nat
  /\ CppObjects \in Nat /\ SysRate \in Nat \ {0} /\ MaxUpTicks \in Nat
BY StartupAssumption

\* The steps in their order.
BootSteps == {"clear_bss", "alt_load", "irq_init", "sys_timer", "timestamp_timer", "jtag_uart",
              "jtag_alarm", "av_config", "audio", "lcd", "ps2", "rs232", "char_buffer",
              "pixel_buffer", "sd_card", "redirect", "ctors", "main"}

LEMMA BootIs ==
  /\ Len(Boot) = 18
  /\ Boot[1] = "clear_bss" /\ Boot[2] = "alt_load" /\ Boot[3] = "irq_init"
  /\ Boot[4] = "sys_timer" /\ Boot[5] = "timestamp_timer" /\ Boot[6] = "jtag_uart"
  /\ Boot[7] = "jtag_alarm" /\ Boot[8] = "av_config" /\ Boot[9] = "audio" /\ Boot[10] = "lcd"
  /\ Boot[11] = "ps2" /\ Boot[12] = "rs232" /\ Boot[13] = "char_buffer"
  /\ Boot[14] = "pixel_buffer" /\ Boot[15] = "sd_card" /\ Boot[16] = "redirect"
  /\ Boot[17] = "ctors" /\ Boot[18] = "main"
<1> DEFINE first == <<"irq_init">>
           last == <<"redirect", "ctors", "main">>
           before == <<"clear_bss", "alt_load">>
           middle == first \o SysInit
<1>1. /\ SysInit \in Seq(BootSteps) /\ first \in Seq(BootSteps) /\ last \in Seq(BootSteps)
      /\ before \in Seq(BootSteps)
  BY DEF SysInit, BootSteps
<1>2. Len(SysInit) = 12 /\ Len(first) = 1 /\ Len(last) = 3 /\ Len(before) = 2  BY DEF SysInit
<1>3. first[1] = "irq_init" /\ last[1] = "redirect" /\ last[2] = "ctors" /\ last[3] = "main"
      /\ before[1] = "clear_bss" /\ before[2] = "alt_load"
  OBVIOUS
<1>4. /\ SysInit[1] = "sys_timer" /\ SysInit[2] = "timestamp_timer" /\ SysInit[3] = "jtag_uart"
      /\ SysInit[4] = "jtag_alarm" /\ SysInit[5] = "av_config" /\ SysInit[6] = "audio"
      /\ SysInit[7] = "lcd" /\ SysInit[8] = "ps2" /\ SysInit[9] = "rs232"
      /\ SysInit[10] = "char_buffer" /\ SysInit[11] = "pixel_buffer" /\ SysInit[12] = "sd_card"
  BY DEF SysInit
<1>5. AltMain = middle \o last /\ Boot = before \o AltMain  BY DEF AltMain, Boot
<1> HIDE DEF first, last, before
<1>6. /\ middle \in Seq(BootSteps) /\ Len(middle) = 13 /\ middle[1] = first[1]
      /\ \A n \in Nat : 1 <= n /\ n <= 12 => middle[n + 1] = SysInit[n]
  <2>1. /\ first \o SysInit \in Seq(BootSteps) /\ Len(first \o SysInit) = Len(first) + Len(SysInit)
        /\ \A n \in Nat : 1 <= n /\ n <= Len(first) => (first \o SysInit)[n] = first[n]
        /\ \A n \in Nat : 1 <= n /\ n <= Len(SysInit) => (first \o SysInit)[n + Len(first)] = SysInit[n]
    BY <1>1, Joined
  <2> HIDE DEF middle
  <2>2. /\ middle \in Seq(BootSteps) /\ Len(middle) = 13
        /\ \A n \in Nat : 1 <= n /\ n <= 1 => middle[n] = first[n]
        /\ \A n \in Nat : 1 <= n /\ n <= 12 => middle[n + 1] = SysInit[n]
    <3>1. Len(first) + Len(SysInit) = 13  BY <1>2
    <3> QED BY <1>2, <2>1, <3>1 DEF middle
  <2>3. middle[1] = first[1]  BY <2>2
  <2> QED BY <2>2, <2>3
<1> HIDE DEF middle
<1>7. /\ AltMain \in Seq(BootSteps) /\ Len(AltMain) = 16
      /\ \A n \in Nat : 1 <= n /\ n <= 13 => AltMain[n] = middle[n]
      /\ \A n \in Nat : 1 <= n /\ n <= 3 => AltMain[n + 13] = last[n]
  <2>1. /\ middle \o last \in Seq(BootSteps) /\ Len(middle \o last) = Len(middle) + Len(last)
        /\ \A n \in Nat : 1 <= n /\ n <= Len(middle) => (middle \o last)[n] = middle[n]
        /\ \A n \in Nat : 1 <= n /\ n <= Len(last) => (middle \o last)[n + Len(middle)] = last[n]
    <3>1. middle \in Seq(BootSteps)  BY <1>6
    <3> QED BY <1>1, <3>1, Joined
  <2>2. AltMain = middle \o last /\ Len(middle) = 13  BY <1>5, <1>6
  <2> QED BY <1>2, <2>1, <2>2
<1>8. /\ Len(Boot) = 18
      /\ \A n \in Nat : 1 <= n /\ n <= 2 => Boot[n] = before[n]
      /\ \A n \in Nat : 1 <= n /\ n <= 16 => Boot[n + 2] = AltMain[n]
  <2>1. /\ before \o AltMain \in Seq(BootSteps) /\ Len(before \o AltMain) = Len(before) + Len(AltMain)
        /\ \A n \in Nat : 1 <= n /\ n <= Len(before) => (before \o AltMain)[n] = before[n]
        /\ \A n \in Nat : 1 <= n /\ n <= Len(AltMain) => (before \o AltMain)[n + Len(before)] = AltMain[n]
    <3>1. AltMain \in Seq(BootSteps)  BY <1>7
    <3> QED BY <1>1, <3>1, Joined
  <2>2. Boot = before \o AltMain /\ Len(AltMain) = 16  BY <1>5, <1>7
  <2>3. Len(Boot) = 18  BY <1>2, <2>1, <2>2
  <2>4. \A n \in Nat : 1 <= n /\ n <= 2 => Boot[n] = before[n]
    <3> TAKE n \in Nat
    <3> QED BY <1>2, <2>1, <2>2
  <2>5. \A n \in Nat : 1 <= n /\ n <= 16 => Boot[n + 2] = AltMain[n]
    <3> TAKE n \in Nat
    <3> QED BY <1>2, <2>1, <2>2
  <2> QED BY <2>3, <2>4, <2>5
<1>9. Boot[1] = "clear_bss" /\ Boot[2] = "alt_load"  BY <1>3, <1>8
<1>10. Boot[3] = "irq_init"
  <2>1. Boot[1 + 2] = AltMain[1] /\ AltMain[1] = middle[1] /\ middle[1] = first[1]
    BY <1>6, <1>7, <1>8
  <2> QED BY <1>3, <2>1
<1>11. ASSUME NEW n \in Nat, 1 <= n, n <= 12 PROVE Boot[n + 3] = SysInit[n]
  <2>1. n + 1 \in Nat /\ 1 <= n + 1 /\ n + 1 <= 13 /\ (n + 1) + 2 = n + 3  BY <1>11
  <2>2. Boot[(n + 1) + 2] = AltMain[n + 1]  BY <1>8, <2>1
  <2>3. AltMain[n + 1] = middle[n + 1]  BY <1>7, <2>1
  <2>4. middle[n + 1] = SysInit[n]  BY <1>6, <1>11
  <2> QED BY <2>1, <2>2, <2>3, <2>4
<1>12. ASSUME NEW n \in Nat, 1 <= n, n <= 3 PROVE Boot[n + 15] = last[n]
  <2>1. n + 13 \in Nat /\ 1 <= n + 13 /\ n + 13 <= 16 /\ (n + 13) + 2 = n + 15  BY <1>12
  <2>2. Boot[(n + 13) + 2] = AltMain[n + 13]  BY <1>8, <2>1
  <2> QED BY <1>7, <1>12, <2>1, <2>2
<1>13. /\ Boot[1 + 3] = SysInit[1] /\ Boot[2 + 3] = SysInit[2] /\ Boot[3 + 3] = SysInit[3]
       /\ Boot[4 + 3] = SysInit[4] /\ Boot[5 + 3] = SysInit[5] /\ Boot[6 + 3] = SysInit[6]
       /\ Boot[7 + 3] = SysInit[7] /\ Boot[8 + 3] = SysInit[8] /\ Boot[9 + 3] = SysInit[9]
       /\ Boot[10 + 3] = SysInit[10] /\ Boot[11 + 3] = SysInit[11] /\ Boot[12 + 3] = SysInit[12]
  BY <1>11
<1>14. Boot[1 + 15] = last[1] /\ Boot[2 + 15] = last[2] /\ Boot[3 + 15] = last[3]
  BY <1>12
<1> QED BY <1>3, <1>4, <1>8, <1>9, <1>10, <1>13, <1>14

\* Each step by its place.
LEMMA BootPlaces ==
  ASSUME NEW n \in 1 .. 18
  PROVE  /\ Boot[n] = "clear_bss" <=> n = 1
         /\ Boot[n] = "alt_load" <=> n = 2
         /\ Boot[n] = "sys_timer" <=> n = 4
         /\ Boot[n] = "jtag_uart" <=> n = 6
         /\ Boot[n] = "jtag_alarm" <=> n = 7
         /\ Boot[n] = "redirect" <=> n = 16
         /\ Boot[n] = "main" <=> n = 18
<1>1. \/ n = 1 \/ n = 2 \/ n = 3 \/ n = 4 \/ n = 5 \/ n = 6 \/ n = 7 \/ n = 8 \/ n = 9
      \/ n = 10 \/ n = 11 \/ n = 12 \/ n = 13 \/ n = 14 \/ n = 15 \/ n = 16 \/ n = 17 \/ n = 18
  OBVIOUS
<1> QED BY <1>1, BootIs

LEMMA DriversStart ==
  "sys_timer" \in Range(SysInit) /\ "jtag_uart" \in Range(SysInit) /\ "jtag_alarm" \in Range(SysInit)
<1>1. DOMAIN SysInit = 1 .. 12 /\ SysInit[1] = "sys_timer" /\ SysInit[3] = "jtag_uart"
      /\ SysInit[4] = "jtag_alarm"
  BY DEF SysInit
<1> QED BY <1>1 DEF Range

BssCleared == \A a \in Bss : words[a] = <<"zero">>
Loaded == \A a \in RwLoaded : words[a] = AsLinked("rwdata", a - RoWords - RwWords)
Constants == \A a \in 0 .. RoWords - 1 : words[a] = AsLinked("rodata", a)
Used == \A a \in RwUsed : words[a] = AsLinked("rwdata", a - RoWords)

StartInv ==
  /\ at \in 1 .. 18 /\ upTicks \in Nat /\ hostAlarm \in Nat /\ DOMAIN words = AllWords
  /\ over \in {"no", "exit", "kill"} /\ (over # "no" => at = 18)
  /\ Constants /\ Loaded
  /\ at > 1 => BssCleared
  /\ at > 2 => Used
  /\ upRate = IF at > 4 THEN SysRate ELSE 0
  /\ at <= 4 => upTicks = 0
  /\ at <= 7 => hostAlarm = 0
  /\ at > 7 => upTicks < hostAlarm /\ hostAlarm <= upTicks + upRate + 1
  /\ at > 6 => "jtag_uart" \in known
  /\ at > 16 /\ over # "exit" => stdio = "jtag_uart"

LEMMA StartStarts == StartInit => StartInv
<1> SUFFICES ASSUME StartInit PROVE StartInv  OBVIOUS
<1>1. at = 1 /\ words = Image0 /\ upRate = 0 /\ upTicks = 0 /\ hostAlarm = 0 /\ over = "no"
  BY DEF StartInit
<1>2. DOMAIN words = AllWords /\ Constants /\ Loaded
  BY <1>1, StartSizes DEF Image0, Constants, Loaded, AllWords, RwLoaded
<1> QED BY <1>1, <1>2 DEF StartInv

\* The words as alt_load leaves them.
LEMMA LoadedWords ==
  ASSUME DOMAIN words = AllWords, Constants, Loaded, BssCleared, AltLoad
  PROVE  DOMAIN words' = AllWords /\ Constants' /\ Loaded' /\ BssCleared' /\ Used'
<1>1. words' = LoadSection(words, RoWords + RwWords, RoWords, RwWords)
  BY DEF AltLoad, LoadSection
<1>2. CASE RwWords = 0
  <2>1. words' = words  BY <1>1, <1>2, StartSizes DEF LoadSection
  <2>2. Used'  BY <1>2, StartSizes DEF Used, RwUsed
  <2> QED BY <2>1, <2>2 DEF Constants, Loaded, BssCleared
<1>3. CASE RwWords # 0
  <2>1. words' = [a \in AllWords |-> IF a \in RwUsed THEN words[a + RwWords] ELSE words[a]]
    <3>1. RoWords + RwWords # RoWords  BY <1>3, StartSizes
    <3>2. \A a \in RwUsed : a - RoWords + (RoWords + RwWords) = a + RwWords
      BY StartSizes DEF RwUsed
    <3> QED BY <1>1, <3>1, <3>2, StartSizes DEF LoadSection, RwUsed
  <2>2. Constants'  BY <2>1, StartSizes DEF Constants, AllWords, RwUsed
  <2>3. Loaded'  BY <2>1, StartSizes DEF Loaded, AllWords, RwUsed, RwLoaded
  <2>4. BssCleared'  BY <2>1, StartSizes DEF BssCleared, AllWords, RwUsed, Bss
  <2>5. Used'
    <3> SUFFICES ASSUME NEW a \in RwUsed PROVE words'[a] = AsLinked("rwdata", a - RoWords)
      BY DEF Used
    <3>1. a \in AllWords /\ a + RwWords \in RwLoaded
          /\ (a + RwWords) - RoWords - RwWords = a - RoWords
      BY StartSizes DEF AllWords, RwUsed, RwLoaded
    <3> QED BY <2>1, <3>1 DEF Loaded
  <2> QED BY <2>1, <2>2, <2>3, <2>4, <2>5
<1> QED BY <1>2, <1>3

LEMMA ClearedWords ==
  ASSUME DOMAIN words = AllWords, Constants, Loaded, ClearBss
  PROVE  DOMAIN words' = AllWords /\ Constants' /\ Loaded' /\ BssCleared'
<1>1. words' = [a \in AllWords |-> IF a \in Bss THEN <<"zero">> ELSE words[a]]  BY DEF ClearBss
<1>2. Constants'  BY <1>1, StartSizes DEF Constants, AllWords, Bss
<1>3. Loaded'  BY <1>1, StartSizes DEF Loaded, AllWords, Bss, RwLoaded
<1>4. BssCleared'  BY <1>1, StartSizes DEF BssCleared, AllWords, Bss
<1> QED BY <1>1, <1>2, <1>3, <1>4

LEMMA BootKeeps == StartInv /\ BootStep => StartInv'
<1> SUFFICES ASSUME StartInv, BootStep PROVE StartInv'  OBVIOUS
<1>1. /\ Boot[at] # "main" /\ at' = at + 1
      /\ IF Boot[at] = "clear_bss" THEN ClearBss
         ELSE IF Boot[at] = "alt_load" THEN AltLoad ELSE UNCHANGED words
      /\ IF Boot[at] \in Range(SysInit) THEN DriverInit(Boot[at])
         ELSE UNCHANGED <<upRate, hostAlarm, known>>
      /\ IF Boot[at] = "redirect" THEN IoRedirect ELSE UNCHANGED stdio
      /\ UNCHANGED <<upTicks, over>>
  BY DEF BootStep, BootNow
<1>2. at \in 1 .. 18  BY DEF StartInv
<1>3. /\ Boot[at] = "clear_bss" <=> at = 1
      /\ Boot[at] = "alt_load" <=> at = 2
      /\ Boot[at] = "sys_timer" <=> at = 4
      /\ Boot[at] = "jtag_uart" <=> at = 6
      /\ Boot[at] = "jtag_alarm" <=> at = 7
      /\ Boot[at] = "redirect" <=> at = 16
      /\ Boot[at] = "main" <=> at = 18
  BY <1>2, BootPlaces
<1>4. at' \in 1 .. 18 /\ at \in 1 .. 17  BY <1>1, <1>2, <1>3
<1>5. over = "no" /\ over' = "no" /\ upTicks' = upTicks
  BY <1>1, <1>4 DEF StartInv
<1>6. /\ DOMAIN words' = AllWords /\ Constants' /\ Loaded'
      /\ at' > 1 => BssCleared'
      /\ at' > 2 => Used'
  <2>1. CASE at = 1
    <3>1. ClearBss  BY <1>1, <1>3, <2>1
    <3>2. DOMAIN words = AllWords /\ Constants /\ Loaded  BY DEF StartInv
    <3> QED BY <1>1, <2>1, <3>1, <3>2, ClearedWords
  <2>2. CASE at = 2
    <3>1. AltLoad  BY <1>1, <1>3, <2>2
    <3>2. DOMAIN words = AllWords /\ Constants /\ Loaded /\ BssCleared  BY <2>2 DEF StartInv
    <3> QED BY <3>1, <3>2, LoadedWords
  <2>3. CASE at > 2
    <3>1. words' = words  BY <1>1, <1>3, <2>3
    <3> QED BY <1>1, <2>3, <3>1 DEF StartInv, Constants, Loaded, BssCleared, Used
  <2> QED BY <1>4, <2>1, <2>2, <2>3
<1>7. upRate' = IF at' > 4 THEN SysRate ELSE 0
  <2>1. CASE at = 4
    <3>1. upRate' = IF upRate = 0 THEN SysRate ELSE upRate
      BY <1>1, <1>3, <2>1, DriversStart DEF DriverInit, SysclkInit
    <3>2. upRate = 0  BY <2>1 DEF StartInv
    <3> QED BY <1>1, <2>1, <3>1, <3>2
  <2>2. CASE at # 4
    <3>1. upRate' = upRate  BY <1>1, <1>3, <2>2 DEF DriverInit
    <3> QED BY <1>1, <1>4, <2>2, <3>1 DEF StartInv
  <2> QED BY <2>1, <2>2
<1>8. /\ hostAlarm' \in Nat
      /\ at' <= 7 => hostAlarm' = 0
      /\ at' > 7 => upTicks < hostAlarm' /\ hostAlarm' <= upTicks + upRate' + 1
  <2>1. CASE at = 7
    <3>1. hostAlarm' = IF upRate = 0 THEN 0 ELSE upTicks + upRate + 1
      BY <1>1, <1>3, <2>1, DriversStart DEF DriverInit, JtagUartAlarm
    <3>2. upRate = SysRate /\ upTicks \in Nat  BY <2>1 DEF StartInv
    <3>3. upRate' = SysRate  BY <1>1, <1>7, <2>1
    <3> QED BY <1>1, <2>1, <3>1, <3>2, <3>3, StartSizes
  <2>2. CASE at # 7
    <3>1. hostAlarm' = hostAlarm  BY <1>1, <1>3, <2>2 DEF DriverInit
    <3>2. at > 7 => upRate' = upRate  BY <1>1, <1>4, <1>7 DEF StartInv
    <3> QED BY <1>1, <1>4, <2>2, <3>1, <3>2 DEF StartInv
  <2> QED BY <2>1, <2>2
<1>9. at' > 6 => "jtag_uart" \in known'
  <2>1. known \subseteq known'  BY <1>1 DEF DriverInit
  <2>2. CASE at = 6
    <3>1. "jtag_uart" \notin {"sys_timer", "timestamp_timer", "jtag_alarm"}  OBVIOUS
    <3> QED BY <1>1, <1>3, <2>2, <3>1, DriversStart DEF DriverInit
  <2>3. CASE at # 6  BY <1>1, <1>4, <2>1, <2>3 DEF StartInv
  <2> QED BY <2>2, <2>3
<1>10. at' > 16 => stdio' = "jtag_uart"
  <2>1. CASE at = 16
    <3>1. "jtag_uart" \in known  BY <2>1 DEF StartInv
    <3> QED BY <1>1, <1>3, <2>1, <3>1 DEF IoRedirect
  <2>2. CASE at # 16
    <3>1. stdio' = stdio  BY <1>1, <1>3, <2>2
    <3> QED BY <1>1, <1>4, <1>5, <2>2, <3>1 DEF StartInv
  <2> QED BY <2>1, <2>2
<1>11. at' <= 4 => upTicks' = 0  BY <1>1, <1>4, <1>5 DEF StartInv
<1> QED BY <1>4, <1>5, <1>6, <1>7, <1>8, <1>9, <1>10, <1>11 DEF StartInv

LEMMA UpTickKeeps == StartInv /\ UpTick => StartInv'
<1> SUFFICES ASSUME StartInv, UpTick PROVE StartInv'  OBVIOUS
<1>1. /\ upRate # 0 /\ upTicks' = upTicks + 1
      /\ hostAlarm' = IF hostAlarm = upTicks + 1 THEN hostAlarm + upRate ELSE hostAlarm
      /\ UNCHANGED <<at, words, upRate, known, stdio, built, razed, over, killed>>
  BY DEF UpTick
<1>2. at > 4 /\ upRate = SysRate /\ upTicks \in Nat /\ hostAlarm \in Nat /\ at \in 1 .. 18
  BY <1>1 DEF StartInv
<1>3. hostAlarm' \in Nat /\ (at <= 7 => hostAlarm' = 0)
      /\ (at > 7 => upTicks' < hostAlarm' /\ hostAlarm' <= upTicks' + upRate + 1)
  <2>1. CASE at <= 7
    <3>1. hostAlarm = 0  BY <2>1 DEF StartInv
    <3> QED BY <1>1, <1>2, <2>1, <3>1
  <2>2. CASE at > 7
    <3>1. upTicks < hostAlarm /\ hostAlarm <= upTicks + upRate + 1  BY <2>2 DEF StartInv
    <3> QED BY <1>1, <1>2, <2>2, <3>1, StartSizes
  <2> QED BY <1>2, <2>1, <2>2
<1> QED BY <1>1, <1>2, <1>3 DEF StartInv, Constants, Loaded, BssCleared, Used

LEMMA StartKeeps == StartInv /\ [StartNext]_startVars => StartInv'
<1> SUFFICES ASSUME StartInv, [StartNext]_startVars PROVE StartInv'  OBVIOUS
<1>1. CASE UNCHANGED startVars
  BY <1>1 DEF startVars, StartInv, Constants, Loaded, BssCleared, Used
<1>2. BootNow = "main" => at = 18
  <2>1. at \in 1 .. 18  BY DEF StartInv
  <2> QED BY <2>1, BootPlaces DEF BootNow
<1>3. CASE MainReturns
  BY <1>2, <1>3 DEF MainReturns, StartInv, Constants, Loaded, BssCleared, Used
<1>4. ASSUME NEW pid, NEW sig, Kill(pid, sig) PROVE StartInv'
  <2>1. over' \in {"no", "kill"} /\ over = "no" /\ BootNow = "main"
        /\ UNCHANGED <<at, words, upRate, upTicks, hostAlarm, known, stdio, built, razed>>
    BY <1>4 DEF Kill
  <2> QED BY <1>2, <2>1 DEF StartInv, Constants, Loaded, BssCleared, Used
<1> QED BY <1>1, <1>3, <1>4, BootKeeps, UpTickKeeps DEF StartNext

LEMMA StartHolds == StartInv => DataAsLinked /\ HostWatched /\ StdioAtMain
<1> SUFFICES ASSUME StartInv PROVE DataAsLinked /\ HostWatched /\ StdioAtMain  OBVIOUS
<1>1. at \in 1 .. 18  BY DEF StartInv
<1>2. BootNow = "main" => at = 18  BY <1>1, BootPlaces DEF BootNow
<1>3. DataAsLinked  BY <1>1 DEF StartInv, DataAsLinked, Constants, Loaded, BssCleared, Used
<1>4. HostWatched  BY <1>2 DEF StartInv, HostWatched
<1>5. StdioAtMain  BY <1>2 DEF StartInv, StdioAtMain
<1> QED BY <1>3, <1>4, <1>5

---------------------------------------------------------------------------
(* The list of alarms: a ring through the head *)

LEMMA AlarmSizes ==
  /\ Wrap \in Nat \ {0}
  /\ \A d \in Delays : d \in Nat /\ d + 1 < Wrap
  /\ \A i \in Intervals : i \in Nat /\ i < Wrap
  /\ ListHead \notin AlarmSet /\ Null \notin AlarmSet /\ Null # ListHead
<1>1. /\ Wrap \in Nat \ {0} /\ Delays \subseteq 0 .. Wrap - 2 /\ Intervals \subseteq 0 .. Wrap - 1
      /\ AlarmSet \cap {"alt_alarm_list", "null"} = {}
  BY AlarmAssumption
<1>2. /\ \A d \in Delays : d \in Nat /\ d + 1 < Wrap
      /\ \A i \in Intervals : i \in Nat /\ i < Wrap
  BY <1>1
<1> QED BY <1>1, <1>2 DEF ListHead, Null

\* The n alarms of s in their order, with the head before and behind them.
RingAt(n, s, i) == IF i \in 1 .. n THEN s[i] ELSE ListHead
Linked(n, s) ==
  /\ s \in [1 .. n -> AlarmSet]
  /\ \A i, j \in 1 .. n : s[i] = s[j] => i = j
  /\ \A i \in 0 .. n : /\ next[RingAt(n, s, i)] = RingAt(n, s, i + 1)
                       /\ previous[RingAt(n, s, i + 1)] = RingAt(n, s, i)
Members(n, s) == {s[i] : i \in 1 .. n}

LinkTypes ==
  next \in [Entries -> Entries \cup {Null}] /\ previous \in [Entries -> Entries \cup {Null}]

LEMMA RingApart ==
  ASSUME NEW n \in Nat, NEW s, Linked(n, s), NEW i \in Nat, NEW j \in Nat, i # j,
         i <= n + 1, j <= n + 1, ~(i = 0 /\ j = n + 1), ~(i = n + 1 /\ j = 0)
  PROVE  RingAt(n, s, i) # RingAt(n, s, j)
<1>1. CASE i \in 1 .. n /\ j \in 1 .. n  BY <1>1 DEF Linked, RingAt
<1>2. CASE i \in 1 .. n /\ j \notin 1 .. n
  BY <1>2, AlarmSizes DEF Linked, RingAt
<1>3. CASE i \notin 1 .. n /\ j \in 1 .. n
  BY <1>3, AlarmSizes DEF Linked, RingAt
<1>4. CASE i \notin 1 .. n /\ j \notin 1 .. n  BY <1>4
<1> QED BY <1>1, <1>2, <1>3, <1>4

LEMMA RingEntries ==
  ASSUME NEW n \in Nat, NEW s, Linked(n, s), NEW i \in Nat
  PROVE  RingAt(n, s, i) \in Entries
BY DEF Linked, RingAt, Entries

\* alt_llist_insert puts an alarm first.
AddFirst(n, s, a) == [i \in 1 .. n + 1 |-> IF i = 1 THEN a ELSE s[i - 1]]

LEMMA InsertLinks ==
  ASSUME LinkTypes, NEW n \in Nat, NEW s, Linked(n, s),
         NEW a \in AlarmSet, a \notin Members(n, s), Insert(a)
  PROVE  /\ LinkTypes' /\ Linked(n + 1, AddFirst(n, s, a))'
         /\ Members(n + 1, AddFirst(n, s, a)) = Members(n, s) \cup {a}
         /\ \A e \in AlarmSet \ (Members(n, s) \cup {a}) :
              next'[e] = next[e] /\ previous'[e] = previous[e]
<1> DEFINE t == AddFirst(n, s, a)
           first == next[ListHead]
<1>1. first = RingAt(n, s, 1) /\ first \in Entries
  <2>1. RingAt(n, s, 0) = ListHead  BY DEF RingAt
  <2>2. next[RingAt(n, s, 0)] = RingAt(n, s, 0 + 1)  BY DEF Linked
  <2> QED BY <2>1, <2>2, RingEntries
<1>2. /\ next' = [next EXCEPT ![a] = first, ![ListHead] = a]
      /\ previous' = [previous EXCEPT ![a] = ListHead, ![first] = a]
  BY DEF Insert
<1>3. a \in Entries /\ ListHead \in Entries /\ a # ListHead  BY AlarmSizes DEF Entries
<1>4. s \in [1 .. n -> AlarmSet] /\ \A i \in 1 .. n : s[i] # a  BY DEF Linked, Members
<1>5. first # a  BY <1>1, <1>3, <1>4 DEF RingAt
<1> HIDE DEF first
<1>6. LinkTypes'  BY <1>1, <1>2, <1>3 DEF LinkTypes
<1>7. /\ next'[a] = first /\ next'[ListHead] = a
      /\ \A e \in Entries : e # a /\ e # ListHead => next'[e] = next[e]
  BY <1>2, <1>3 DEF LinkTypes
<1>8. /\ previous'[a] = ListHead /\ previous'[first] = a
      /\ \A e \in Entries : e # a /\ e # first => previous'[e] = previous[e]
  BY <1>1, <1>2, <1>3, <1>5 DEF LinkTypes
<1>9. t \in [1 .. n + 1 -> AlarmSet]  BY <1>4 DEF AddFirst
<1>10. t[1] = a /\ \A i \in 2 .. n + 1 : t[i] = s[i - 1]  BY DEF AddFirst
<1> HIDE DEF t
<1>11. \A i, j \in 1 .. n + 1 : t[i] = t[j] => i = j
  <2> SUFFICES ASSUME NEW i \in 1 .. n + 1, NEW j \in 1 .. n + 1, t[i] = t[j] PROVE i = j
    OBVIOUS
  <2>1. CASE i = 1 /\ j = 1  BY <2>1
  <2>2. CASE i = 1 /\ j # 1  BY <1>4, <1>10, <2>2
  <2>3. CASE i # 1 /\ j = 1  BY <1>4, <1>10, <2>3
  <2>4. CASE i # 1 /\ j # 1
    <3>1. i - 1 \in 1 .. n /\ j - 1 \in 1 .. n /\ s[i - 1] = s[j - 1]  BY <1>10, <2>4
    <3>2. i - 1 = j - 1  BY <3>1 DEF Linked
    <3> QED BY <3>2
  <2> QED BY <2>1, <2>2, <2>3, <2>4
<1>12. /\ RingAt(n + 1, t, 0) = ListHead /\ RingAt(n + 1, t, 1) = a
       /\ \A i \in Nat : i >= 2 => RingAt(n + 1, t, i) = RingAt(n, s, i - 1)
  <2>1. RingAt(n + 1, t, 0) = ListHead /\ RingAt(n + 1, t, 1) = a  BY <1>10 DEF RingAt
  <2>2. ASSUME NEW i \in Nat, i >= 2 PROVE RingAt(n + 1, t, i) = RingAt(n, s, i - 1)
    <3>1. i \in 1 .. n + 1 <=> i - 1 \in 1 .. n  BY <2>2
    <3>2. i \in 1 .. n + 1 => t[i] = s[i - 1]  BY <1>10, <2>2
    <3> QED BY <3>1, <3>2 DEF RingAt
  <2> QED BY <2>1, <2>2
<1>13. ASSUME NEW i \in 0 .. n + 1
       PROVE  /\ next'[RingAt(n + 1, t, i)] = RingAt(n + 1, t, i + 1)
              /\ previous'[RingAt(n + 1, t, i + 1)] = RingAt(n + 1, t, i)
  <2>1. CASE i = 0
    <3>1. RingAt(n + 1, t, i) = ListHead /\ RingAt(n + 1, t, i + 1) = a  BY <1>12, <2>1
    <3> QED BY <1>7, <1>8, <3>1
  <2>2. CASE i = 1
    <3>1. RingAt(n + 1, t, 2) = RingAt(n, s, 2 - 1)  BY <1>12
    <3>2. RingAt(n + 1, t, i) = a /\ RingAt(n + 1, t, i + 1) = first  BY <1>1, <1>12, <2>2, <3>1
    <3> QED BY <1>7, <1>8, <3>2
  <2>3. CASE i >= 2
    <3> DEFINE p == RingAt(n, s, i - 1)
               q == RingAt(n, s, i)
    <3>1. i - 1 \in 1 .. n /\ i - 1 \in Nat /\ (i - 1) + 1 = i /\ i \in Nat /\ i + 1 \in Nat
          /\ (i + 1) - 1 = i
      BY <2>3
    <3>2. RingAt(n + 1, t, i) = p /\ RingAt(n + 1, t, i + 1) = q  BY <1>12, <2>3, <3>1
    <3>3. next[p] = q /\ previous[q] = p
      <4>1. i - 1 \in 0 .. n  BY <3>1
      <4>2. next[RingAt(n, s, i - 1)] = RingAt(n, s, (i - 1) + 1)
            /\ previous[RingAt(n, s, (i - 1) + 1)] = RingAt(n, s, i - 1)
        BY <4>1 DEF Linked
      <4> QED BY <3>1, <4>2
    <3>4. p \in AlarmSet /\ p # a /\ p # ListHead /\ p \in Entries
      BY <1>4, <3>1, AlarmSizes DEF RingAt, Entries
    <3>5. q \in Entries /\ q # a  BY <1>3, <1>4, <3>1, RingEntries DEF RingAt
    <3>6. q # first
      <4>1. 1 \in Nat /\ i # 1 /\ 1 <= n + 1 /\ i <= n + 1  BY <2>3
      <4> QED BY <1>1, <3>1, <4>1, RingApart
    <3> HIDE DEF p, q
    <3> QED BY <1>7, <1>8, <3>2, <3>3, <3>4, <3>5, <3>6
  <2>4. i = 0 \/ i = 1 \/ i >= 2  OBVIOUS
  <2> QED BY <2>1, <2>2, <2>3, <2>4
<1>14. Linked(n + 1, t)'
  BY <1>9, <1>11, <1>13 DEF Linked, RingAt
<1>15. Members(n + 1, t) = Members(n, s) \cup {a}
  <2>1. \A i \in 1 .. n + 1 : t[i] \in Members(n, s) \cup {a}
    <3> TAKE i \in 1 .. n + 1
    <3>1. CASE i = 1  BY <1>10, <3>1
    <3>2. CASE i # 1
      <4>1. i - 1 \in 1 .. n /\ t[i] = s[i - 1]  BY <1>10, <3>2
      <4> QED BY <4>1 DEF Members
    <3> QED BY <3>1, <3>2
  <2>2. \A i \in 1 .. n : s[i] = t[i + 1] /\ i + 1 \in 1 .. n + 1
    <3> TAKE i \in 1 .. n
    <3>1. i + 1 \in 2 .. n + 1 /\ (i + 1) - 1 = i  OBVIOUS
    <3> QED BY <1>10, <3>1
  <2>3. 1 \in 1 .. n + 1  OBVIOUS
  <2> QED BY <1>10, <2>1, <2>2, <2>3 DEF Members
<1>16. \A e \in AlarmSet \ (Members(n, s) \cup {a}) : next'[e] = next[e] /\ previous'[e] = previous[e]
  <2> TAKE e \in AlarmSet \ (Members(n, s) \cup {a})
  <2>1. e \in Entries /\ e # a /\ e # ListHead  BY AlarmSizes DEF Entries
  <2>2. e # first  BY <1>1, <2>1, AlarmSizes DEF RingAt, Members
  <2> QED BY <1>7, <1>8, <2>1, <2>2
<1> QED BY <1>6, <1>14, <1>15, <1>16 DEF t

\* alt_llist_remove takes an alarm out wherever it is.
Without1(n, s, m) == [i \in 1 .. n - 1 |-> IF i < m THEN s[i] ELSE s[i + 1]]

LEMMA UnlinkLinks ==
  ASSUME LinkTypes, NEW n \in Nat, NEW s, Linked(n, s), NEW m \in 1 .. n, Unlink(s[m])
  PROVE  /\ LinkTypes' /\ n - 1 \in Nat /\ Linked(n - 1, Without1(n, s, m))'
         /\ Members(n - 1, Without1(n, s, m)) = Members(n, s) \ {s[m]}
         /\ next'[s[m]] = s[m] /\ previous'[s[m]] = s[m]
         /\ \A e \in AlarmSet \ Members(n, s) : next'[e] = next[e] /\ previous'[e] = previous[e]
<1> DEFINE a == s[m]
           t == Without1(n, s, m)
           p == RingAt(n, s, m - 1)
           q == RingAt(n, s, m + 1)
<1>0. m \in Nat /\ m - 1 \in Nat /\ m + 1 \in Nat /\ m <= n /\ n - 1 \in Nat /\ (m - 1) + 1 = m
      /\ m >= 1 /\ m - 1 \in 0 .. n /\ m \in 0 .. n
  OBVIOUS
<1>1. a = RingAt(n, s, m) /\ a \in AlarmSet /\ a \in Entries  BY DEF RingAt, Linked, Entries
<1>2. previous[a] = p /\ next[a] = q
  <2>1. next[RingAt(n, s, m)] = q  BY <1>0 DEF Linked
  <2>2. previous[RingAt(n, s, (m - 1) + 1)] = p  BY <1>0 DEF Linked
  <2> QED BY <1>0, <1>1, <2>1, <2>2
<1>3. p \in Entries /\ q \in Entries  BY <1>0, RingEntries
<1>4. p # a /\ q # a  BY <1>0, <1>1, RingApart
<1>5. /\ next' = [next EXCEPT ![p] = q, ![a] = a]
      /\ previous' = [previous EXCEPT ![q] = p, ![a] = a]
  BY <1>2 DEF Unlink
<1> HIDE DEF a, p, q
<1>6. LinkTypes'  BY <1>1, <1>3, <1>5 DEF LinkTypes
<1>7. /\ next'[p] = q /\ next'[a] = a
      /\ \A e \in Entries : e # a /\ e # p => next'[e] = next[e]
  BY <1>1, <1>3, <1>4, <1>5 DEF LinkTypes
<1>8. /\ previous'[q] = p /\ previous'[a] = a
      /\ \A e \in Entries : e # a /\ e # q => previous'[e] = previous[e]
  BY <1>1, <1>3, <1>4, <1>5 DEF LinkTypes
<1>9. t \in [1 .. n - 1 -> AlarmSet] /\ \A i \in 1 .. n - 1 : t[i] = IF i < m THEN s[i] ELSE s[i + 1]
  <2>1. \A i \in 1 .. n - 1 : i \in 1 .. n /\ i + 1 \in 1 .. n  BY <1>0
  <2>2. \A i \in 1 .. n - 1 : s[i] \in AlarmSet /\ s[i + 1] \in AlarmSet  BY <2>1 DEF Linked
  <2> QED BY <2>2 DEF Without1
<1> HIDE DEF t
<1>10. \A i, j \in 1 .. n - 1 : t[i] = t[j] => i = j
  <2> SUFFICES ASSUME NEW i \in 1 .. n - 1, NEW j \in 1 .. n - 1, t[i] = t[j] PROVE i = j
    OBVIOUS
  <2>1. i \in 1 .. n /\ i + 1 \in 1 .. n /\ j \in 1 .. n /\ j + 1 \in 1 .. n  BY <1>0
  <2>2. \A x, y \in 1 .. n : s[x] = s[y] => x = y  BY DEF Linked
  <2>3. CASE i < m /\ j < m  BY <1>9, <2>1, <2>2, <2>3
  <2>4. CASE i < m /\ ~(j < m)
    <3>1. s[i] = s[j + 1]  BY <1>9, <2>4
    <3>2. i = j + 1  BY <2>1, <2>2, <3>1
    <3> QED BY <1>0, <2>4, <3>2
  <2>5. CASE ~(i < m) /\ j < m
    <3>1. s[i + 1] = s[j]  BY <1>9, <2>5
    <3>2. i + 1 = j  BY <2>1, <2>2, <3>1
    <3> QED BY <1>0, <2>5, <3>2
  <2>6. CASE ~(i < m) /\ ~(j < m)
    <3>1. s[i + 1] = s[j + 1]  BY <1>9, <2>6
    <3>2. i + 1 = j + 1  BY <2>1, <2>2, <3>1
    <3> QED BY <3>2
  <2> QED BY <2>3, <2>4, <2>5, <2>6
<1>11. \A i \in Nat : i <= n =>
         RingAt(n - 1, t, i) = IF i < m THEN RingAt(n, s, i) ELSE RingAt(n, s, i + 1)
  <2> SUFFICES ASSUME NEW i \in Nat, i <= n
               PROVE  RingAt(n - 1, t, i) = IF i < m THEN RingAt(n, s, i) ELSE RingAt(n, s, i + 1)
    OBVIOUS
  <2>1. CASE i \in 1 .. n - 1
    <3>1. i \in 1 .. n /\ i + 1 \in 1 .. n  BY <1>0, <2>1
    <3> QED BY <1>9, <2>1, <3>1 DEF RingAt
  <2>2. CASE i = 0
    <3>1. i < m /\ i \notin 1 .. n - 1 /\ i \notin 1 .. n  BY <1>0, <2>2
    <3> QED BY <3>1 DEF RingAt
  <2>3. CASE i = n
    <3>1. ~(i < m) /\ i \notin 1 .. n - 1 /\ i + 1 \notin 1 .. n  BY <1>0, <2>3
    <3> QED BY <3>1 DEF RingAt
  <2>4. i \in 1 .. n - 1 \/ i = 0 \/ i = n  BY <1>0
  <2> QED BY <2>1, <2>2, <2>3, <2>4
<1>12. ASSUME NEW i \in Nat, i <= n PROVE /\ next[RingAt(n, s, i)] = RingAt(n, s, i + 1)
                                          /\ previous[RingAt(n, s, i + 1)] = RingAt(n, s, i)
  <2>1. i \in 0 .. n  BY <1>12
  <2> QED BY <2>1 DEF Linked
<1>13. ASSUME NEW i \in 0 .. n - 1
       PROVE  /\ next'[RingAt(n - 1, t, i)] = RingAt(n - 1, t, i + 1)
              /\ previous'[RingAt(n - 1, t, i + 1)] = RingAt(n - 1, t, i)
  <2>0. i \in Nat /\ i + 1 \in Nat /\ i + 2 \in Nat /\ i <= n /\ i + 1 <= n /\ (i + 1) + 1 = i + 2
    BY <1>0
  <2>1. CASE i = m - 1
    <3>1. RingAt(n - 1, t, i) = p
      BY <1>0, <1>11, <2>0, <2>1 DEF p
    <3>2. RingAt(n - 1, t, i + 1) = q
      <4>1. ~(i + 1 < m) /\ (i + 1) + 1 = m + 1  BY <1>0, <2>1
      <4> QED BY <1>11, <2>0, <4>1 DEF q
    <3> QED BY <1>7, <1>8, <3>1, <3>2
  <2>2. CASE i < m - 1
    <3> DEFINE x == RingAt(n, s, i)
               y == RingAt(n, s, i + 1)
    <3>1. i < m /\ i + 1 < m  BY <1>0, <2>2
    <3>2. RingAt(n - 1, t, i) = x /\ RingAt(n - 1, t, i + 1) = y  BY <1>11, <2>0, <3>1
    <3>3. next[x] = y /\ previous[y] = x /\ x \in Entries /\ y \in Entries
      BY <1>12, <2>0, RingEntries
    <3>4. x # a /\ x # p
      <4>1. i # m /\ i # m - 1 /\ i <= n + 1 /\ m <= n + 1 /\ m - 1 <= n + 1 /\ i # n + 1
            /\ m # n + 1 /\ m - 1 # n + 1
        BY <1>0, <2>2
      <4> QED BY <1>0, <1>1, <2>0, <4>1, RingApart DEF p
    <3>5. y # a /\ y # q
      <4>1. i + 1 # m /\ i + 1 # m + 1 /\ i + 1 <= n + 1 /\ m <= n + 1 /\ m + 1 <= n + 1 /\ i + 1 # 0
            /\ m # 0 /\ m + 1 # 0
        BY <1>0, <2>2
      <4> QED BY <1>0, <1>1, <2>0, <4>1, RingApart DEF q
    <3> HIDE DEF x, y
    <3> QED BY <1>7, <1>8, <3>2, <3>3, <3>4, <3>5
  <2>3. CASE i >= m
    <3> DEFINE x == RingAt(n, s, i + 1)
               y == RingAt(n, s, i + 2)
    <3>1. ~(i < m) /\ ~(i + 1 < m)  BY <1>0, <2>3
    <3>2. RingAt(n - 1, t, i) = x /\ RingAt(n - 1, t, i + 1) = y  BY <1>11, <2>0, <3>1
    <3>3. next[x] = y /\ previous[y] = x /\ x \in Entries /\ y \in Entries
      BY <1>12, <2>0, RingEntries
    <3>4. x # a /\ x # p
      <4>1. i + 1 # m /\ i + 1 # m - 1 /\ i + 1 <= n + 1 /\ m <= n + 1 /\ m - 1 <= n + 1
            /\ i + 1 # n + 1 /\ m # n + 1 /\ m - 1 # n + 1
        BY <1>0, <2>0, <2>3
      <4> QED BY <1>0, <1>1, <2>0, <4>1, RingApart DEF p
    <3>5. y # a /\ y # q
      <4>1. i + 2 # m /\ i + 2 # m + 1 /\ i + 2 <= n + 1 /\ m <= n + 1 /\ m + 1 <= n + 1
            /\ i + 2 # 0 /\ m # 0 /\ m + 1 # 0
        BY <1>0, <2>0, <2>3
      <4> QED BY <1>0, <1>1, <2>0, <4>1, RingApart DEF q
    <3> HIDE DEF x, y
    <3> QED BY <1>7, <1>8, <3>2, <3>3, <3>4, <3>5
  <2>4. i = m - 1 \/ i < m - 1 \/ i >= m  BY <1>0, <2>0
  <2> QED BY <2>1, <2>2, <2>3, <2>4
<1>14. Linked(n - 1, t)'  BY <1>9, <1>10, <1>13 DEF Linked, RingAt
<1>15. Members(n - 1, t) = Members(n, s) \ {a}
  <2>1. ASSUME NEW i \in 1 .. n - 1 PROVE t[i] \in Members(n, s) \ {a}
    <3>1. i \in 1 .. n /\ i + 1 \in 1 .. n  BY <1>0
    <3>2. \A x, y \in 1 .. n : s[x] = s[y] => x = y  BY DEF Linked
    <3>3. CASE i < m
      <4>1. t[i] = s[i] /\ i # m  BY <1>0, <1>9, <3>3
      <4> QED BY <3>1, <3>2, <4>1 DEF Members, a
    <3>4. CASE ~(i < m)
      <4>1. t[i] = s[i + 1] /\ i + 1 # m  BY <1>0, <1>9, <3>4
      <4> QED BY <3>1, <3>2, <4>1 DEF Members, a
    <3> QED BY <3>3, <3>4
  <2>2. ASSUME NEW i \in 1 .. n, i # m PROVE \E j \in 1 .. n - 1 : t[j] = s[i]
    <3>1. CASE i < m
      <4>1. i \in 1 .. n - 1 /\ t[i] = s[i]  BY <1>0, <1>9, <3>1
      <4> QED BY <4>1
    <3>2. CASE ~(i < m)
      <4>1. i - 1 \in 1 .. n - 1 /\ ~(i - 1 < m) /\ (i - 1) + 1 = i  BY <1>0, <2>2, <3>2
      <4>2. t[i - 1] = s[i]  BY <1>9, <4>1
      <4> QED BY <4>1, <4>2
    <3> QED BY <3>1, <3>2
  <2>3. \A x \in Members(n, s) \ {a} : x \in Members(n - 1, t)
    <3> TAKE x \in Members(n, s) \ {a}
    <3>1. PICK i \in 1 .. n : x = s[i]  BY DEF Members
    <3>2. i # m  BY <3>1 DEF a
    <3>3. PICK j \in 1 .. n - 1 : t[j] = s[i]  BY <2>2, <3>2
    <3> QED BY <3>1, <3>3 DEF Members
  <2>4. \A x \in Members(n - 1, t) : x \in Members(n, s) \ {a}
    <3> TAKE x \in Members(n - 1, t)
    <3>1. PICK i \in 1 .. n - 1 : x = t[i]  BY DEF Members
    <3> QED BY <2>1, <3>1
  <2> QED BY <2>3, <2>4
<1>16. \A e \in AlarmSet \ Members(n, s) : next'[e] = next[e] /\ previous'[e] = previous[e]
  <2> TAKE e \in AlarmSet \ Members(n, s)
  <2>1. e \in Entries /\ e # ListHead  BY AlarmSizes DEF Entries
  <2>2. \A i \in 1 .. n : e # s[i]  BY DEF Members
  <2>3. e # a /\ e # p /\ e # q  BY <2>1, <2>2 DEF a, p, q, RingAt
  <2> QED BY <1>7, <1>8, <2>1, <2>3
<1> QED BY <1>0, <1>6, <1>7, <1>8, <1>14, <1>15, <1>16 DEF a, t

---------------------------------------------------------------------------
(* Alarms *)

\* What the program has written of an alarm that is d ticks away, and of one
\* that the tick has come nearer to and the loop has not come to yet: its
\* rollover still speaks of the tick before.
DueAt(now, t, d) == t = IF now + d < Wrap THEN now + d ELSE now + d - Wrap
SettledAt(now, t, r, d) ==
  d \in Nat /\ d >= 1 /\ d < Wrap /\ DueAt(now, t, d) /\ r \in BOOLEAN /\ (r <=> t < now)
PendingAt(now, t, r, d) ==
  d \in Nat /\ d + 1 < Wrap /\ DueAt(now, t, d) /\ r \in BOOLEAN
  /\ (now # 0 => (r <=> t < now - 1))

LEMMA WrapsTo ==
  ASSUME NEW x \in Nat, x < 2 * Wrap
  PROVE  x % Wrap = IF x < Wrap THEN x ELSE x - Wrap
<1>0. Wrap \in Nat \ {0}  BY AlarmSizes
<1>1. CASE x < Wrap
  <2>1. x = 0 * Wrap + x  BY <1>0
  <2> QED BY <1>0, <1>1, <2>1, QuotientIs
<1>2. CASE ~(x < Wrap)
  <2>1. x - Wrap \in Nat /\ x - Wrap < Wrap /\ x = 1 * Wrap + (x - Wrap)  BY <1>0, <1>2
  <2> QED BY <1>0, <1>2, <2>1, QuotientIs
<1> QED BY <1>1, <1>2

LEMMA AskedSettles ==
  ASSUME NEW now \in Nat, now < Wrap, NEW d \in Nat, d >= 1, d < Wrap, NEW x, x = now + d
  PROVE  SettledAt(now, x % Wrap, x % Wrap < now, d) /\ x % Wrap \in Nat
<1>0. Wrap \in Nat \ {0} /\ x \in Nat /\ x < 2 * Wrap  BY AlarmSizes
<1>1. x % Wrap = IF x < Wrap THEN x ELSE x - Wrap  BY <1>0, WrapsTo
<1> DEFINE t == x % Wrap
<1>2. t = IF x < Wrap THEN x ELSE x - Wrap  BY <1>1
<1>3. t \in Nat  BY <1>0, <1>2
<1>4. (t < now) \in BOOLEAN  BY <1>3
<1> HIDE DEF t
<1>5. SettledAt(now, t, t < now, d)  BY <1>0, <1>2, <1>4 DEF SettledAt, DueAt
<1> QED BY <1>3, <1>5 DEF t

LEMMA TickPends ==
  ASSUME NEW now \in Nat, now < Wrap, NEW t \in Nat, NEW r, NEW d, SettledAt(now, t, r, d)
  PROVE  PendingAt((now + 1) % Wrap, t, r, d - 1)
<1>1. d \in Nat /\ d >= 1 /\ d < Wrap /\ Wrap \in Nat  BY AlarmSizes DEF SettledAt
<1>2. (now + 1) % Wrap = IF now + 1 < Wrap THEN now + 1 ELSE now + 1 - Wrap
  <2> DEFINE x == now + 1
  <2>1. x \in Nat /\ x < 2 * Wrap  BY <1>1
  <2> HIDE DEF x
  <2>2. x % Wrap = IF x < Wrap THEN x ELSE x - Wrap  BY <2>1, WrapsTo
  <2> QED BY <1>1, <2>2 DEF x
<1>3. CASE now + 1 < Wrap
  <2>1. (now + 1) % Wrap = now + 1  BY <1>2, <1>3
  <2>2. PendingAt(now + 1, t, r, d - 1)  BY <1>1, <1>3 DEF SettledAt, PendingAt, DueAt
  <2> QED BY <2>1, <2>2
<1>4. CASE ~(now + 1 < Wrap)
  <2>1. (now + 1) % Wrap = 0  BY <1>1, <1>2, <1>4
  <2>2. PendingAt(0, t, r, d - 1)  BY <1>1, <1>4 DEF SettledAt, PendingAt, DueAt
  <2> QED BY <2>1, <2>2
<1> QED BY <1>3, <1>4

LEMMA WaitSettles ==
  ASSUME NEW now \in Nat, now < Wrap, NEW t \in Nat, NEW r, NEW d, PendingAt(now, t, r, d),
         t > now \/ (r /\ now # 0)
  PROVE  d >= 1 /\ SettledAt(now, t, r /\ now # 0, d)
<1>0. Wrap \in Nat /\ r \in BOOLEAN  BY AlarmSizes DEF PendingAt
<1>1. (r /\ now # 0) \in BOOLEAN  BY <1>0
<1>2. (r /\ now # 0) <=> t < now  BY <1>0 DEF PendingAt, DueAt
<1>3. d \in Nat /\ d >= 1 /\ d < Wrap /\ DueAt(now, t, d)  BY <1>0 DEF PendingAt, DueAt
<1> QED BY <1>1, <1>2, <1>3 DEF SettledAt

LEMMA DueNow ==
  ASSUME NEW now \in Nat, now < Wrap, NEW t \in Nat, NEW r, NEW d, PendingAt(now, t, r, d),
         t <= now, ~(r /\ now # 0)
  PROVE  d = 0 /\ t = now
BY AlarmSizes DEF PendingAt, DueAt

Settled(a) == SettledAt(_alt_nticks, time[a], rollover[a], due[a])
Pending(a) == PendingAt(_alt_nticks, time[a], rollover[a], due[a])

AlarmTypes ==
  /\ LinkTypes
  /\ _alt_nticks \in Nat /\ _alt_nticks < Wrap
  /\ time \in [AlarmSet -> Nat] /\ rollover \in [AlarmSet -> BOOLEAN]
  /\ due \in [AlarmSet -> Int] /\ \A a \in AlarmSet : due[a] >= -1
  /\ wrongly = FALSE

\* An alarm that is not in the list.
Unlisted(a) == next[a] = previous[a] /\ next[a] \in {a, Null}

\* The loop has come to the k-th of n alarms: those before it are settled, it
\* and those behind it are pending.
Walked(n, s, k) ==
  /\ Linked(n, s) /\ Listed = Members(n, s)
  /\ visiting = IF k = n + 1 THEN Null ELSE s[k]
  /\ \A i \in 1 .. n : (i < k => Settled(s[i])) /\ (i >= k => Pending(s[i]))

AlarmInv ==
  /\ AlarmTypes
  /\ \A a \in AlarmSet \ Listed : Unlisted(a)
  /\ \E n \in Nat : \E s, k : k \in 1 .. n + 1 /\ Walked(n, s, k)

LEMMA AlarmStarts == AlarmsInit => AlarmInv
<1> SUFFICES ASSUME AlarmsInit PROVE AlarmInv  OBVIOUS
<1> USE DEF AlarmsInit
<1> DEFINE s == [i \in 1 .. 0 |-> ListHead]
<1>1. AlarmTypes
  BY AlarmSizes DEF AlarmTypes, LinkTypes, Entries
<1>2. Listed = {}  BY DEF Listed
<1>3. \A a \in AlarmSet : Unlisted(a)  BY AlarmSizes DEF Unlisted, Entries
<1>4. \A i \in 1 .. 0 : FALSE  OBVIOUS
<1>5. s \in [1 .. 0 -> AlarmSet]  BY <1>4
<1>6. next[ListHead] = ListHead /\ previous[ListHead] = ListHead  BY DEF Entries
<1>7. \A i \in 0 .. 0 : RingAt(0, s, i) = ListHead /\ RingAt(0, s, i + 1) = ListHead
  BY DEF RingAt
<1>8. Linked(0, s)  BY <1>4, <1>5, <1>6, <1>7 DEF Linked
<1>9. Members(0, s) = {}  BY <1>4 DEF Members
<1>10. Walked(0, s, 1)
  BY <1>2, <1>4, <1>8, <1>9 DEF Walked
<1>11. 0 \in Nat /\ 1 \in 1 .. 0 + 1  OBVIOUS
<1> QED BY <1>1, <1>3, <1>10, <1>11 DEF AlarmInv

\* What is settled or pending stays so while none of it changes.
LEMMA SameAlarm ==
  ASSUME NEW a, _alt_nticks' = _alt_nticks, time'[a] = time[a], rollover'[a] = rollover[a],
         due'[a] = due[a]
  PROVE  Settled(a)' = Settled(a) /\ Pending(a)' = Pending(a)
BY DEF Settled, Pending

LEMMA StartsWalk ==
  ASSUME AlarmInv, NEW a \in AlarmSet, NEW d \in Delays, Start(a, d)
  PROVE  AlarmInv'
<1> USE DEF Start
<1>1. PICK n \in Nat : \E s, k : k \in 1 .. n + 1 /\ Walked(n, s, k)  BY DEF AlarmInv
<1>2. PICK s, k : k \in 1 .. n + 1 /\ Walked(n, s, k)  BY <1>1
<1> DEFINE t == AddFirst(n, s, a)
           x == d + _alt_nticks + 1
<1>3. Linked(n, s) /\ Listed = Members(n, s) /\ a \notin Members(n, s) /\ AlarmTypes /\ LinkTypes
  BY <1>2 DEF Walked, AlarmInv, AlarmTypes
<1>4. s \in [1 .. n -> AlarmSet] /\ \A i \in 1 .. n : s[i] # a  BY <1>3 DEF Linked, Members
<1>5. k = n + 1
  <2>1. visiting = IF k = n + 1 THEN Null ELSE s[k]  BY <1>2 DEF Walked
  <2>2. CASE k # n + 1
    <3>1. k \in 1 .. n  BY <1>2, <2>2
    <3> QED BY <1>4, <2>1, <2>2, <3>1, AlarmSizes
  <2> QED BY <2>2
<1>6. /\ LinkTypes' /\ Linked(n + 1, t)' /\ Members(n + 1, t) = Members(n, s) \cup {a}
      /\ \A e \in AlarmSet \ (Members(n, s) \cup {a}) : next'[e] = next[e] /\ previous'[e] = previous[e]
  BY <1>3, InsertLinks
<1>7. d \in Nat /\ d + 1 < Wrap /\ Wrap \in Nat  BY AlarmSizes
<1>8. _alt_nticks \in Nat /\ _alt_nticks < Wrap /\ x = _alt_nticks + (d + 1) /\ d + 1 \in Nat /\ d + 1 >= 1
  BY <1>3, <1>7 DEF AlarmTypes
<1>9. SettledAt(_alt_nticks, x % Wrap, x % Wrap < _alt_nticks, d + 1) /\ x % Wrap \in Nat
  BY <1>7, <1>8, AskedSettles
<1>10. /\ time'[a] = x % Wrap /\ rollover'[a] = (x % Wrap < _alt_nticks) /\ due'[a] = d + 1
       /\ \A e \in AlarmSet : e # a => time'[e] = time[e] /\ rollover'[e] = rollover[e] /\ due'[e] = due[e]
  BY <1>3 DEF AlarmTypes, RollsOver
<1>11. Settled(a)'  BY <1>9, <1>10 DEF Settled
<1>12. AlarmTypes'
  <2>1. (x % Wrap < _alt_nticks) \in BOOLEAN  BY <1>9 DEF SettledAt
  <2>2. due'[a] >= -1 /\ due'[a] \in Int  BY <1>7, <1>10
  <2>3. time' \in [AlarmSet -> Nat] /\ due' \in [AlarmSet -> Int]
    BY <1>3, <1>7, <1>9 DEF AlarmTypes
  <2>4. rollover' \in [AlarmSet -> BOOLEAN]  BY <1>3, <1>10, <2>1 DEF AlarmTypes
  <2>5. \A e \in AlarmSet : due'[e] >= -1  BY <1>3, <1>10, <2>2 DEF AlarmTypes
  <2> QED BY <1>3, <1>6, <2>3, <2>4, <2>5 DEF AlarmTypes
<1>13. Listed' = Listed \cup {a}
  BY <1>7, <1>10 DEF Listed
<1>14. (\A e \in AlarmSet \ Listed : Unlisted(e))'
  <2> SUFFICES ASSUME NEW e \in AlarmSet \ (Listed \cup {a}) PROVE Unlisted(e)'  BY <1>13
  <2>1. next'[e] = next[e] /\ previous'[e] = previous[e]  BY <1>3, <1>6
  <2> QED BY <2>1 DEF AlarmInv, Unlisted
<1>15. \A i \in 1 .. n : Settled(s[i])'
  <2> TAKE i \in 1 .. n
  <2>1. i < k /\ s[i] \in AlarmSet /\ s[i] # a  BY <1>4, <1>5
  <2>2. Settled(s[i])  BY <1>2, <2>1 DEF Walked
  <2> QED BY <1>10, <2>1, <2>2, SameAlarm
<1>16. t[1] = a /\ \A i \in 1 .. n + 1 : i # 1 => t[i] = s[i - 1] /\ i - 1 \in 1 .. n  BY DEF AddFirst
<1> HIDE DEF t
<1>17. ASSUME NEW i \in 1 .. n + 1 PROVE Settled(t[i])' /\ i < n + 2
  BY <1>11, <1>15, <1>16, <1>17
<1>18. Walked(n + 1, t, n + 2)'
  <2>1. (n + 1) + 1 = n + 2 /\ visiting' = Null  BY <1>2, <1>5 DEF Walked
  <2>2. Listed' = Members(n + 1, t)  BY <1>3, <1>6, <1>13
  <2>3. \A i \in 1 .. n + 1 : (i < n + 2 => Settled(t[i])') /\ (i >= n + 2 => Pending(t[i])')
    <3> TAKE i \in 1 .. n + 1
    <3>1. ~(i >= n + 2)  OBVIOUS
    <3> QED BY <1>17, <3>1
  <2> QED BY <1>6, <2>1, <2>2, <2>3 DEF Walked, Members
<1>19. n + 1 \in Nat /\ n + 2 \in 1 .. (n + 1) + 1  OBVIOUS
<1> QED BY <1>12, <1>14, <1>18, <1>19 DEF AlarmInv

\* The alarm at a place is listed, and no other place has it.
LEMMA WalkedPlace ==
  ASSUME NEW n \in Nat, NEW s, NEW k \in 1 .. n + 1, Walked(n, s, k), NEW i \in 1 .. n
  PROVE  /\ s[i] \in AlarmSet /\ s[i] \in Listed /\ due[s[i]] >= 0
         /\ \A j \in 1 .. n : j # i => s[j] # s[i]
<1>1. s[i] \in AlarmSet /\ \A j \in 1 .. n : j # i => s[j] # s[i]  BY DEF Walked, Linked
<1>2. s[i] \in Listed  BY DEF Walked, Members
<1> QED BY <1>1, <1>2 DEF Listed

LEMMA StopsWalk ==
  ASSUME AlarmInv, NEW a \in AlarmSet, Stop(a)
  PROVE  AlarmInv'
<1> USE DEF Stop
<1>1. PICK n \in Nat : \E s, k : k \in 1 .. n + 1 /\ Walked(n, s, k)  BY DEF AlarmInv
<1>2. PICK s, k : k \in 1 .. n + 1 /\ Walked(n, s, k)  BY <1>1
<1>3. Linked(n, s) /\ Listed = Members(n, s) /\ AlarmTypes /\ LinkTypes
  BY <1>2 DEF Walked, AlarmInv, AlarmTypes
<1>4. s \in [1 .. n -> AlarmSet]  BY <1>3 DEF Linked
<1>5. k = n + 1
  <2>1. visiting = IF k = n + 1 THEN Null ELSE s[k]  BY <1>2 DEF Walked
  <2>2. CASE k # n + 1
    <3>1. k \in 1 .. n  BY <1>2, <2>2
    <3> QED BY <1>4, <2>1, <2>2, <3>1, AlarmSizes
  <2> QED BY <2>2
<1>6. /\ due'[a] = -1
      /\ \A e \in AlarmSet : e # a => due'[e] = due[e]
      /\ time' = time /\ rollover' = rollover /\ _alt_nticks' = _alt_nticks /\ wrongly' = wrongly
      /\ due' \in [AlarmSet -> Int]
  BY <1>3 DEF AlarmTypes
<1>7. Listed' = Listed \ {a}  BY <1>6 DEF Listed
<1>8. LinkTypes' => AlarmTypes'
  <2>1. \A e \in AlarmSet : due'[e] >= -1  BY <1>3, <1>6 DEF AlarmTypes
  <2> QED BY <1>3, <1>6, <2>1 DEF AlarmTypes
<1>9. CASE a \in Listed
  <2>1. PICK m \in 1 .. n : a = s[m]  BY <1>3, <1>9 DEF Members
  <2> DEFINE t == Without1(n, s, m)
  <2>2. /\ LinkTypes' /\ n - 1 \in Nat /\ Linked(n - 1, t)' /\ Members(n - 1, t) = Members(n, s) \ {a}
        /\ next'[a] = a /\ previous'[a] = a
        /\ \A e \in AlarmSet \ Members(n, s) : next'[e] = next[e] /\ previous'[e] = previous[e]
    BY <1>3, <2>1, UnlinkLinks
  <2>3. (\A e \in AlarmSet \ Listed : Unlisted(e))'
    <3> SUFFICES ASSUME NEW e \in AlarmSet, e \notin Listed \ {a} PROVE Unlisted(e)'  BY <1>7
    <3>1. CASE e = a  BY <2>2, <3>1 DEF Unlisted
    <3>2. CASE e # a  BY <1>3, <2>2, <3>2 DEF AlarmInv, Unlisted
    <3> QED BY <3>1, <3>2
  <2>4. \A i \in 1 .. n : i # m => Settled(s[i])'
    <3> SUFFICES ASSUME NEW i \in 1 .. n, i # m PROVE Settled(s[i])'  OBVIOUS
    <3>1. s[i] \in AlarmSet /\ s[i] # a  BY <1>2, <2>1, WalkedPlace
    <3>2. Settled(s[i])
      <4>1. i < k  BY <1>5
      <4> QED BY <1>2, <4>1 DEF Walked
    <3> QED BY <1>6, <3>1, <3>2, SameAlarm
  <2>5. \A i \in 1 .. n - 1 : \E j \in 1 .. n : j # m /\ t[i] = s[j]
    <3> TAKE i \in 1 .. n - 1
    <3>1. CASE i < m
      <4>1. i \in 1 .. n /\ i # m /\ t[i] = s[i]  BY <3>1 DEF Without1
      <4> QED BY <4>1
    <3>2. CASE ~(i < m)
      <4>1. i + 1 \in 1 .. n /\ i + 1 # m /\ t[i] = s[i + 1]  BY <3>2 DEF Without1
      <4> QED BY <4>1
    <3> QED BY <3>1, <3>2
  <2> HIDE DEF t
  <2>6. Walked(n - 1, t, n)'
    <3>1. \A i \in 1 .. n - 1 : (i < n => Settled(t[i])') /\ (i >= n => Pending(t[i])')
      <4> TAKE i \in 1 .. n - 1
      <4>1. ~(i >= n) /\ Settled(t[i])'  BY <2>4, <2>5, <2>2
      <4> QED BY <4>1
    <3>2. (n - 1) + 1 = n /\ visiting' = Null  BY <1>2, <1>5
    <3>3. Listed' = Members(n - 1, t)  BY <1>3, <1>7, <2>2
    <3> QED BY <2>2, <3>1, <3>2, <3>3 DEF Walked, Members
  <2>7. n - 1 \in Nat /\ n \in 1 .. (n - 1) + 1  BY <2>2
  <2> QED BY <1>8, <2>2, <2>3, <2>6, <2>7 DEF AlarmInv
\* An alarm stopped before: it is linked to itself.
<1>10. CASE a \notin Listed
  <2>1. next[a] = a /\ previous[a] = a  BY <1>10 DEF AlarmInv, Unlisted
  <2>2. next' = next /\ previous' = previous
    <3>1. next' = [next EXCEPT ![a] = a] /\ previous' = [previous EXCEPT ![a] = a]
      BY <1>3, <2>1 DEF Unlink, LinkTypes
    <3> QED BY <1>3, <2>1, <3>1 DEF LinkTypes
  <2>3. due[a] = -1  BY <1>3, <1>10 DEF AlarmTypes, Listed
  <2>4. due' = due  BY <1>3, <2>3 DEF AlarmTypes
  <2>5. AlarmTypes'  BY <1>3, <1>6, <2>2, <2>4 DEF AlarmTypes, LinkTypes
  <2>6. (\A e \in AlarmSet \ Listed : Unlisted(e))'
    BY <2>2, <2>4 DEF AlarmInv, Listed, Unlisted
  <2>7. Walked(n, s, k)'
    <3>1. Linked(n, s)'  BY <1>3, <2>2 DEF Linked, RingAt
    <3>2. (Listed = Members(n, s))'  BY <1>3, <2>4 DEF Listed, Members
    <3>3. \A i \in 1 .. n : Settled(s[i])' = Settled(s[i]) /\ Pending(s[i])' = Pending(s[i])
      BY <1>6, <2>4 DEF Settled, Pending
    <3> QED BY <1>2, <3>1, <3>2, <3>3 DEF Walked
  <2> QED BY <1>2, <2>5, <2>6, <2>7 DEF AlarmInv
<1> QED BY <1>9, <1>10

LEMMA TicksWalk ==
  ASSUME AlarmInv, Tick
  PROVE  AlarmInv'
<1> USE DEF Tick
<1>1. PICK n \in Nat : \E s, k : k \in 1 .. n + 1 /\ Walked(n, s, k)  BY DEF AlarmInv
<1>2. PICK s, k : k \in 1 .. n + 1 /\ Walked(n, s, k)  BY <1>1
<1>3. Linked(n, s) /\ Listed = Members(n, s) /\ AlarmTypes /\ LinkTypes
  BY <1>2 DEF Walked, AlarmInv, AlarmTypes
<1>4. s \in [1 .. n -> AlarmSet]  BY <1>3 DEF Linked
<1>5. k = n + 1
  <2>1. visiting = IF k = n + 1 THEN Null ELSE s[k]  BY <1>2 DEF Walked
  <2>2. CASE k # n + 1
    <3>1. k \in 1 .. n  BY <1>2, <2>2
    <3> QED BY <1>4, <2>1, <2>2, <3>1, AlarmSizes
  <2> QED BY <2>2
<1>6. /\ next' = next /\ previous' = previous /\ time' = time /\ rollover' = rollover
      /\ wrongly' = wrongly /\ _alt_nticks' = (_alt_nticks + 1) % Wrap
      /\ due' \in [AlarmSet -> Int]
      /\ \A a \in AlarmSet : due'[a] = IF a \in Listed THEN due[a] - 1 ELSE -1
  BY <1>3 DEF AlarmTypes
<1>7. _alt_nticks' \in Nat /\ _alt_nticks' < Wrap
  <2> DEFINE x == _alt_nticks + 1
  <2>1. x \in Nat /\ Wrap \in Nat \ {0}  BY <1>3, AlarmSizes DEF AlarmTypes
  <2> HIDE DEF x
  <2>2. x % Wrap \in Nat /\ x % Wrap < Wrap  BY <2>1, Divided
  <2>3. _alt_nticks' = x % Wrap  BY <1>6 DEF x
  <2> QED BY <2>2, <2>3
<1>8. ASSUME NEW i \in 1 .. n PROVE Pending(s[i])' /\ due'[s[i]] >= 0 /\ s[i] \in AlarmSet
  <2> DEFINE a == s[i]
  <2>1. a \in AlarmSet /\ a \in Listed  BY <1>2, WalkedPlace
  <2>2. Settled(a)
    <3>1. i < k  BY <1>5
    <3> QED BY <1>2, <3>1 DEF Walked
  <2> HIDE DEF a
  <2>3. _alt_nticks \in Nat /\ _alt_nticks < Wrap /\ time[a] \in Nat  BY <1>3, <2>1 DEF AlarmTypes
  <2>4. PendingAt((_alt_nticks + 1) % Wrap, time[a], rollover[a], due[a] - 1)
    BY <2>2, <2>3, TickPends DEF Settled
  <2>5. due'[a] = due[a] - 1  BY <1>6, <2>1
  <2>6. Pending(a)'
    <3>1. PendingAt(_alt_nticks', time'[a], rollover'[a], due'[a])  BY <1>6, <2>4, <2>5
    <3> QED BY <3>1 DEF Pending
  <2>7. due'[a] >= 0  BY <2>4, <2>5 DEF PendingAt
  <2> QED BY <2>1, <2>6, <2>7 DEF a
<1>9. Listed' = Listed
  <2>1. ASSUME NEW a \in Listed PROVE due'[a] >= 0
    <3>1. PICK i \in 1 .. n : a = s[i]  BY <1>3, <2>1 DEF Members
    <3> QED BY <1>8, <3>1
  <2>2. \A a \in AlarmSet \ Listed : ~(due'[a] >= 0)  BY <1>6
  <2> QED BY <2>1, <2>2 DEF Listed
<1>10. AlarmTypes'
  <2>1. \A a \in AlarmSet : due'[a] >= -1
    <3> TAKE a \in AlarmSet
    <3>1. CASE a \in Listed
      <4>1. due'[a] >= 0 /\ due'[a] \in Int  BY <1>6, <1>9, <3>1 DEF Listed
      <4> QED BY <4>1
    <3>2. CASE a \notin Listed  BY <1>6, <3>2
    <3> QED BY <3>1, <3>2
  <2> QED BY <1>3, <1>6, <1>7, <2>1 DEF AlarmTypes, LinkTypes
<1>11. (\A a \in AlarmSet \ Listed : Unlisted(a))'
  BY <1>6, <1>9 DEF AlarmInv, Unlisted
<1>12. Linked(n, s)'  BY <1>3, <1>6 DEF Linked, RingAt
<1>13. visiting' = IF 1 = n + 1 THEN Null ELSE s[1]
  <2>1. next[RingAt(n, s, 0)] = RingAt(n, s, 0 + 1)  BY <1>3 DEF Linked
  <2>2. RingAt(n, s, 0) = ListHead  BY DEF RingAt
  <2>3. next[ListHead] = RingAt(n, s, 1)  BY <2>1, <2>2
  <2>4. CASE n = 0  BY <2>3, <2>4 DEF RingAt
  <2>5. CASE n # 0
    <3>1. 1 \in 1 .. n  BY <2>5
    <3> QED BY <1>4, <2>3, <3>1, AlarmSizes DEF RingAt
  <2> QED BY <2>4, <2>5
<1>14. Walked(n, s, 1)'
  <2>1. \A i \in 1 .. n : (i < 1 => Settled(s[i])') /\ (i >= 1 => Pending(s[i])')
    <3> TAKE i \in 1 .. n
    <3>1. ~(i < 1) /\ Pending(s[i])'  BY <1>8
    <3> QED BY <3>1
  <2>2. Listed' = Members(n, s)  BY <1>3, <1>9
  <2> QED BY <1>12, <1>13, <2>1, <2>2 DEF Walked, Members
<1>15. 1 \in 1 .. n + 1  OBVIOUS
<1> QED BY <1>10, <1>11, <1>14, <1>15 DEF AlarmInv

\* Where the loop goes from the k-th alarm of the list.
LEMMA NextPlace ==
  ASSUME NEW n \in Nat, NEW s, NEW k \in 1 .. n, Linked(n, s), visiting = s[k], GoOn
  PROVE  visiting' = IF k = n THEN Null ELSE s[k + 1]
<1>1. k \in 0 .. n /\ s \in [1 .. n -> AlarmSet]  BY DEF Linked
<1>2. next[RingAt(n, s, k)] = RingAt(n, s, k + 1)  BY <1>1 DEF Linked
<1>3. next[s[k]] = RingAt(n, s, k + 1)  BY <1>2 DEF RingAt
<1>4. CASE k = n
  <2>1. k + 1 \notin 1 .. n  BY <1>4
  <2> QED BY <1>3, <1>4, <2>1 DEF RingAt, GoOn
<1>5. CASE k # n
  <2>1. k + 1 \in 1 .. n  BY <1>5
  <2> QED BY <1>1, <1>3, <1>5, <2>1, AlarmSizes DEF RingAt, GoOn
<1> QED BY <1>4, <1>5

\* The loop is at an alarm of the list.
LEMMA AtPlace ==
  ASSUME NEW n \in Nat, NEW s, NEW k \in 1 .. n + 1, Walked(n, s, k), visiting # Null
  PROVE  k \in 1 .. n /\ visiting = s[k] /\ Pending(s[k])
<1>1. visiting = IF k = n + 1 THEN Null ELSE s[k]  BY DEF Walked
<1>2. k # n + 1  BY <1>1
<1>3. k \in 1 .. n /\ k >= k  BY <1>2
<1> QED BY <1>1, <1>2, <1>3 DEF Walked

LEMMA PassesWalk ==
  ASSUME AlarmInv, NotYet
  PROVE  AlarmInv'
<1> USE DEF NotYet
<1>1. PICK n \in Nat : \E s, k : k \in 1 .. n + 1 /\ Walked(n, s, k)  BY DEF AlarmInv
<1>2. PICK s, k : k \in 1 .. n + 1 /\ Walked(n, s, k)  BY <1>1
<1>3. Linked(n, s) /\ Listed = Members(n, s) /\ AlarmTypes /\ LinkTypes
  BY <1>2 DEF Walked, AlarmInv, AlarmTypes
<1>4. k \in 1 .. n /\ visiting = s[k] /\ Pending(s[k])  BY <1>2, AtPlace
<1> DEFINE a == s[k]
<1>5. a \in AlarmSet /\ visiting = a /\ Pending(a)  BY <1>2, <1>4, WalkedPlace
<1>6. /\ _alt_nticks' = _alt_nticks /\ next' = next /\ previous' = previous /\ time' = time
      /\ due' = due
  OBVIOUS
<1>7. visiting' = IF k = n THEN Null ELSE s[k + 1]  BY <1>3, <1>4, NextPlace
<1>8. \A i \in 1 .. n : i # k => s[i] # a  BY <1>2, <1>4, WalkedPlace
<1>9. \A i \in 1 .. n : s[i] \in AlarmSet  BY <1>2, WalkedPlace
<1> HIDE DEF a
<1>10. _alt_nticks \in Nat /\ _alt_nticks < Wrap /\ time[a] \in Nat  BY <1>3, <1>5 DEF AlarmTypes
<1>11. due[a] >= 1 /\ SettledAt(_alt_nticks, time[a], rollover[a] /\ _alt_nticks # 0, due[a])
  <2>1. time[a] > _alt_nticks \/ (rollover[a] /\ _alt_nticks # 0)  BY <1>5 DEF Wraps
  <2> QED BY <1>5, <1>10, <2>1, WaitSettles DEF Pending
<1>12. /\ rollover'[a] = (rollover[a] /\ _alt_nticks # 0)
       /\ \A e \in AlarmSet : e # a => rollover'[e] = rollover[e]
       /\ rollover' \in [AlarmSet -> BOOLEAN]
  <2>1. rollover \in [AlarmSet -> BOOLEAN]  BY <1>3 DEF AlarmTypes
  <2>2. (rollover[a] /\ _alt_nticks # 0) \in BOOLEAN  BY <1>5, <2>1
  <2>3. rollover' = [rollover EXCEPT ![a] = (rollover[a] /\ _alt_nticks # 0)]  BY <1>5 DEF Wraps
  <2> QED BY <1>5, <2>1, <2>2, <2>3
<1>13. Settled(a)'  BY <1>6, <1>11, <1>12 DEF Settled
<1>14. wrongly' = FALSE
  <2>1. wrongly = FALSE /\ due[a] \in Int  BY <1>3, <1>5 DEF AlarmTypes
  <2>2. ~(due[a] <= 0)  BY <1>11, <2>1
  <2>3. wrongly' = (wrongly \/ due[a] <= 0)  BY <1>5
  <2> QED BY <2>1, <2>2, <2>3
<1>15. AlarmTypes'  BY <1>3, <1>6, <1>12, <1>14 DEF AlarmTypes, LinkTypes
<1>16. (\A e \in AlarmSet \ Listed : Unlisted(e))'
  BY <1>6 DEF AlarmInv, Listed, Unlisted
<1>17. ASSUME NEW i \in 1 .. n, i # k
       PROVE  Settled(s[i])' = Settled(s[i]) /\ Pending(s[i])' = Pending(s[i])
  <2>1. s[i] \in AlarmSet /\ s[i] # a  BY <1>8, <1>9, <1>17
  <2> QED BY <1>6, <1>12, <2>1, SameAlarm
<1>18. Walked(n, s, k + 1)'
  <2>1. \A i \in 1 .. n : (i < k + 1 => Settled(s[i])') /\ (i >= k + 1 => Pending(s[i])')
    <3> TAKE i \in 1 .. n
    <3>0. k \in Nat /\ i \in Nat  BY <1>4
    <3>1. CASE i = k
      <4>1. ~(i >= k + 1) /\ s[i] = a  BY <3>0, <3>1 DEF a
      <4> QED BY <1>13, <4>1
    <3>2. CASE i < k
      <4>1. ~(i >= k + 1) /\ i # k  BY <3>0, <3>2
      <4> QED BY <1>2, <1>17, <3>2, <4>1 DEF Walked
    <3>3. CASE i > k
      <4>1. ~(i < k + 1) /\ i # k /\ i >= k  BY <3>0, <3>3
      <4> QED BY <1>2, <1>17, <4>1 DEF Walked
    <3> QED BY <3>0, <3>1, <3>2, <3>3
  <2>2. Listed' = Members(n, s)  BY <1>3, <1>6 DEF Listed
  <2>3. Linked(n, s)'  BY <1>3, <1>6 DEF Linked, RingAt
  <2>4. visiting' = IF k + 1 = n + 1 THEN Null ELSE s[k + 1]
    <3>1. k + 1 = n + 1 <=> k = n  BY <1>4
    <3> QED BY <1>7, <3>1
  <2> QED BY <2>1, <2>2, <2>3, <2>4 DEF Walked, Members
<1>19. k + 1 \in 1 .. n + 1  BY <1>4
<1> QED BY <1>15, <1>16, <1>18, <1>19 DEF AlarmInv

LEMMA GoesOffWalk ==
  ASSUME AlarmInv, NEW interval \in Intervals, GoOff(interval)
  PROVE  AlarmInv'
<1> USE DEF GoOff
<1>1. PICK n \in Nat : \E s, k : k \in 1 .. n + 1 /\ Walked(n, s, k)  BY DEF AlarmInv
<1>2. PICK s, k : k \in 1 .. n + 1 /\ Walked(n, s, k)  BY <1>1
<1>3. Linked(n, s) /\ Listed = Members(n, s) /\ AlarmTypes /\ LinkTypes
  BY <1>2 DEF Walked, AlarmInv, AlarmTypes
<1>4. k \in 1 .. n /\ visiting = s[k] /\ Pending(s[k])  BY <1>2, AtPlace
<1> DEFINE a == s[k]
<1>5. a \in AlarmSet /\ visiting = a /\ Pending(a) /\ a \in Listed  BY <1>2, <1>4, WalkedPlace
<1>6. visiting' = IF k = n THEN Null ELSE s[k + 1]  BY <1>3, <1>4, NextPlace
<1>7. \A i \in 1 .. n : i # k => s[i] # a  BY <1>2, <1>4, WalkedPlace
<1>8. \A i \in 1 .. n : s[i] \in AlarmSet  BY <1>2, WalkedPlace
<1>9. a = s[k]  OBVIOUS
<1> HIDE DEF a
<1>10. _alt_nticks \in Nat /\ _alt_nticks < Wrap /\ time[a] \in Nat /\ _alt_nticks' = _alt_nticks
  BY <1>3, <1>5 DEF AlarmTypes
<1>11. due[a] = 0 /\ time[a] = _alt_nticks
  <2>1. time[a] <= _alt_nticks /\ ~(rollover[a] /\ _alt_nticks # 0)  BY <1>5 DEF Wraps
  <2> QED BY <1>5, <1>10, <2>1, DueNow DEF Pending
<1>12. wrongly' = FALSE
  <2>1. wrongly = FALSE  BY <1>3 DEF AlarmTypes
  <2>2. wrongly' = (wrongly \/ due[a] # 0)  BY <1>5
  <2> QED BY <1>11, <2>1, <2>2
<1>13. interval \in Nat /\ interval < Wrap /\ Wrap \in Nat  BY AlarmSizes
<1>14. /\ due' \in [AlarmSet -> Int] /\ due'[a] = IF interval = 0 THEN -1 ELSE interval
       /\ \A e \in AlarmSet : e # a => due'[e] = due[e]
       /\ \A e \in AlarmSet : due'[e] >= -1
  <2>1. due \in [AlarmSet -> Int] /\ \A e \in AlarmSet : due[e] >= -1  BY <1>3 DEF AlarmTypes
  <2>2. due' = [due EXCEPT ![a] = IF interval = 0 THEN -1 ELSE interval]  BY <1>5
  <2> QED BY <1>5, <1>13, <2>1, <2>2
\* The callback asked for another time: the alarm stays in its place.
<1>15. CASE interval # 0
  <2> DEFINE x == _alt_nticks + interval
  <2>1. x \in Nat /\ interval >= 1 /\ x = _alt_nticks + interval  BY <1>10, <1>13, <1>15
  <2> HIDE DEF x
  <2>2. SettledAt(_alt_nticks, x % Wrap, x % Wrap < _alt_nticks, interval) /\ x % Wrap \in Nat
    BY <1>10, <1>13, <2>1, AskedSettles
  <2>3. /\ time' = [time EXCEPT ![a] = x % Wrap]
        /\ rollover' = [rollover EXCEPT ![a] = time'[a] < _alt_nticks]
        /\ next' = next /\ previous' = previous
    <3>1. time' = [time EXCEPT ![a] = (time[a] + interval) % Wrap]  BY <1>5, <1>15
    <3>2. time' = [time EXCEPT ![a] = x % Wrap]  BY <1>11, <2>1, <3>1
    <3> QED BY <1>5, <1>15, <3>2 DEF RollsOver
  <2>4. /\ time' \in [AlarmSet -> Nat] /\ time'[a] = x % Wrap
        /\ \A e \in AlarmSet : e # a => time'[e] = time[e]
    <3>1. time \in [AlarmSet -> Nat]  BY <1>3 DEF AlarmTypes
    <3> QED BY <1>5, <2>2, <2>3, <3>1
  <2>5. /\ rollover' \in [AlarmSet -> BOOLEAN] /\ rollover'[a] = (x % Wrap < _alt_nticks)
        /\ \A e \in AlarmSet : e # a => rollover'[e] = rollover[e]
    <3>1. rollover \in [AlarmSet -> BOOLEAN]  BY <1>3 DEF AlarmTypes
    <3>2. (x % Wrap < _alt_nticks) \in BOOLEAN  BY <2>2 DEF SettledAt
    <3>3. rollover' = [rollover EXCEPT ![a] = (x % Wrap < _alt_nticks)]  BY <2>3, <2>4
    <3> QED BY <1>5, <3>1, <3>2, <3>3
  <2>6. Settled(a)'
    <3>1. due'[a] = interval  BY <1>14, <1>15
    <3> QED BY <1>10, <2>2, <2>4, <2>5, <3>1 DEF Settled
  <2>7. AlarmTypes'  BY <1>3, <1>10, <1>12, <1>14, <2>3, <2>4, <2>5 DEF AlarmTypes, LinkTypes
  <2>8. Listed' = Listed
    <3>1. due'[a] >= 0 /\ due[a] >= 0  BY <1>11, <1>13, <1>14, <1>15
    <3> QED BY <1>14, <3>1 DEF Listed
  <2>9. (\A e \in AlarmSet \ Listed : Unlisted(e))'  BY <2>3, <2>8 DEF AlarmInv, Unlisted
  <2>10. ASSUME NEW i \in 1 .. n, i # k
         PROVE  Settled(s[i])' = Settled(s[i]) /\ Pending(s[i])' = Pending(s[i])
    <3>1. s[i] \in AlarmSet /\ s[i] # a  BY <1>7, <1>8, <2>10
    <3> QED BY <1>10, <1>14, <2>4, <2>5, <3>1, SameAlarm
  <2>11. Walked(n, s, k + 1)'
    <3>1. \A i \in 1 .. n : (i < k + 1 => Settled(s[i])') /\ (i >= k + 1 => Pending(s[i])')
      <4> TAKE i \in 1 .. n
      <4>0. k \in Nat /\ i \in Nat  BY <1>4
      <4>1. CASE i = k
        <5>1. ~(i >= k + 1) /\ s[i] = a  BY <1>9, <4>0, <4>1
        <5> QED BY <2>6, <5>1
      <4>2. CASE i < k
        <5>1. ~(i >= k + 1) /\ i # k  BY <4>0, <4>2
        <5> QED BY <1>2, <2>10, <4>2, <5>1 DEF Walked
      <4>3. CASE i > k
        <5>1. ~(i < k + 1) /\ i # k /\ i >= k  BY <4>0, <4>3
        <5> QED BY <1>2, <2>10, <5>1 DEF Walked
      <4> QED BY <4>0, <4>1, <4>2, <4>3
    <3>2. Listed' = Members(n, s)  BY <1>3, <2>8
    <3>3. Linked(n, s)'  BY <1>3, <2>3 DEF Linked, RingAt
    <3>4. visiting' = IF k + 1 = n + 1 THEN Null ELSE s[k + 1]
      <4>1. k + 1 = n + 1 <=> k = n  BY <1>4
      <4> QED BY <1>6, <4>1
    <3> QED BY <3>1, <3>2, <3>3, <3>4 DEF Walked, Members
  <2>12. k + 1 \in 1 .. n + 1  BY <1>4
  <2> QED BY <2>7, <2>9, <2>11, <2>12 DEF AlarmInv
\* The callback returned 0: those behind the alarm move up to its place.
<1>16. CASE interval = 0
  <2> DEFINE t == Without1(n, s, k)
  <2>1. Unlink(s[k]) /\ time' = time /\ rollover' = [rollover EXCEPT ![a] = FALSE]
    BY <1>4, <1>5, <1>16
  <2>2. /\ LinkTypes' /\ n - 1 \in Nat /\ Linked(n - 1, t)' /\ Members(n - 1, t) = Members(n, s) \ {a}
        /\ next'[a] = a /\ previous'[a] = a
        /\ \A e \in AlarmSet \ Members(n, s) : next'[e] = next[e] /\ previous'[e] = previous[e]
    BY <1>3, <1>4, <1>9, <2>1, UnlinkLinks
  <2>3. /\ rollover' \in [AlarmSet -> BOOLEAN]
        /\ \A e \in AlarmSet : e # a => rollover'[e] = rollover[e]
    <3>1. rollover \in [AlarmSet -> BOOLEAN]  BY <1>3 DEF AlarmTypes
    <3> QED BY <1>5, <2>1, <3>1
  <2>4. AlarmTypes'  BY <1>3, <1>10, <1>12, <1>14, <2>1, <2>2, <2>3 DEF AlarmTypes
  <2>5. Listed' = Listed \ {a}
    <3>1. due'[a] = -1  BY <1>14, <1>16
    <3> QED BY <1>14, <3>1 DEF Listed
  <2>6. (\A e \in AlarmSet \ Listed : Unlisted(e))'
    <3> SUFFICES ASSUME NEW e \in AlarmSet, e \notin Listed \ {a} PROVE Unlisted(e)'  BY <2>5
    <3>1. CASE e = a  BY <2>2, <3>1 DEF Unlisted
    <3>2. CASE e # a  BY <1>3, <2>2, <3>2 DEF AlarmInv, Unlisted
    <3> QED BY <3>1, <3>2
  <2>7. ASSUME NEW i \in 1 .. n, i # k
        PROVE  Settled(s[i])' = Settled(s[i]) /\ Pending(s[i])' = Pending(s[i])
    <3>1. s[i] \in AlarmSet /\ s[i] # a  BY <1>7, <1>8, <2>7
    <3> QED BY <1>10, <1>14, <2>1, <2>3, <3>1, SameAlarm
  <2>8. \A i \in 1 .. n - 1 : t[i] = IF i < k THEN s[i] ELSE s[i + 1]  BY DEF Without1
  <2> HIDE DEF t
  <2>9. Walked(n - 1, t, k)'
    <3>1. \A i \in 1 .. n - 1 : (i < k => Settled(t[i])') /\ (i >= k => Pending(t[i])')
      <4> TAKE i \in 1 .. n - 1
      <4>0. k \in Nat /\ i \in Nat /\ n \in Nat /\ i <= n - 1 /\ i >= 1  BY <1>4
      <4>1. CASE i < k
        <5>1. ~(i >= k) /\ i # k /\ i \in 1 .. n /\ t[i] = s[i]  BY <2>8, <4>0, <4>1
        <5> QED BY <1>2, <2>7, <4>1, <5>1 DEF Walked
      <4>2. CASE ~(i < k)
        <5>1. i + 1 # k /\ i + 1 \in 1 .. n /\ i + 1 >= k /\ t[i] = s[i + 1]  BY <2>8, <4>0, <4>2
        <5> QED BY <1>2, <2>7, <4>2, <5>1 DEF Walked
      <4> QED BY <4>1, <4>2
    <3>2. Listed' = Members(n - 1, t)  BY <1>3, <2>2, <2>5
    <3>3. visiting' = IF k = (n - 1) + 1 THEN Null ELSE t[k]
      <4>1. CASE k = n  BY <1>6, <4>1
      <4>2. CASE k # n
        <5>1. k \in 1 .. n - 1 /\ ~(k < k)  BY <1>4, <4>2
        <5>2. t[k] = s[k + 1]  BY <2>8, <5>1
        <5> QED BY <1>6, <4>2, <5>2
      <4> QED BY <4>1, <4>2
    <3> QED BY <2>2, <3>1, <3>2, <3>3 DEF Walked, Members
  <2>10. k \in 1 .. (n - 1) + 1  BY <1>4
  <2> QED BY <2>2, <2>4, <2>6, <2>9, <2>10 DEF AlarmInv
<1> QED BY <1>15, <1>16

LEMMA AlarmKeeps == AlarmInv /\ [AlarmsNext]_alarmVars => AlarmInv'
<1> SUFFICES ASSUME AlarmInv, [AlarmsNext]_alarmVars PROVE AlarmInv'  OBVIOUS
<1>1. CASE UNCHANGED alarmVars
  <2>1. /\ next' = next /\ previous' = previous /\ time' = time /\ rollover' = rollover /\ due' = due
        /\ wrongly' = wrongly /\ _alt_nticks' = _alt_nticks /\ visiting' = visiting
    BY <1>1 DEF alarmVars
  <2>2. Listed' = Listed /\ AlarmTypes'  BY <2>1 DEF Listed, AlarmInv, AlarmTypes, LinkTypes
  <2>3. (\A a \in AlarmSet \ Listed : Unlisted(a))'  BY <2>1, <2>2 DEF AlarmInv, Unlisted
  <2>4. PICK n \in Nat : \E s, k : k \in 1 .. n + 1 /\ Walked(n, s, k)  BY DEF AlarmInv
  <2>5. PICK s, k : k \in 1 .. n + 1 /\ Walked(n, s, k)  BY <2>4
  <2>6. Walked(n, s, k)'
    <3>1. \A a : Settled(a)' = Settled(a) /\ Pending(a)' = Pending(a)
      BY <2>1 DEF Settled, Pending
    <3>2. Linked(n, s)'  BY <2>1, <2>5 DEF Walked, Linked, RingAt
    <3>3. Members(n, s)' = Members(n, s)  BY DEF Members
    <3> QED BY <2>1, <2>2, <2>5, <3>1, <3>2, <3>3 DEF Walked
  <2> QED BY <2>2, <2>3, <2>5, <2>6 DEF AlarmInv
<1>2. ASSUME NEW a \in AlarmSet, Stop(a) PROVE AlarmInv'  BY <1>2, StopsWalk
<1>3. ASSUME NEW a \in AlarmSet, NEW d \in Delays, Start(a, d) PROVE AlarmInv'  BY <1>3, StartsWalk
<1>4. ASSUME Tick PROVE AlarmInv'  BY <1>4, TicksWalk
<1>5. ASSUME NotYet PROVE AlarmInv'  BY <1>5, PassesWalk
<1>6. ASSUME NEW i \in Intervals, GoOff(i) PROVE AlarmInv'  BY <1>6, GoesOffWalk
<1> QED BY <1>1, <1>2, <1>3, <1>4, <1>5, <1>6 DEF AlarmsNext

LEMMA AlarmHolds == AlarmInv => OnTime /\ ListWhole
<1> SUFFICES ASSUME AlarmInv PROVE OnTime /\ ListWhole  OBVIOUS
<1>1. PICK n \in Nat : \E s, k : k \in 1 .. n + 1 /\ Walked(n, s, k)  BY DEF AlarmInv
<1>2. PICK s, k : k \in 1 .. n + 1 /\ Walked(n, s, k)  BY <1>1
<1>3. Linked(n, s) /\ Listed = Members(n, s)  BY <1>2 DEF Walked
<1>4. OnTime  BY DEF AlarmInv, AlarmTypes, OnTime
<1>5. \A i \in 0 .. n + 1 : RingAt(n, s, i) \in Listed \cup {ListHead}
  BY <1>3 DEF RingAt, Members
<1>6. ASSUME NEW e \in Listed \cup {ListHead}
      PROVE  /\ next[e] \in Listed \cup {ListHead} /\ previous[next[e]] = e /\ next[previous[e]] = e
             /\ next[e] = e => e = ListHead /\ Listed = {}
  <2>1. PICK i \in 0 .. n : e = RingAt(n, s, i)
    <3>1. CASE e = ListHead
      <4>1. 0 \in 0 .. n /\ RingAt(n, s, 0) = ListHead  BY DEF RingAt
      <4> QED BY <3>1, <4>1
    <3>2. CASE e # ListHead
      <4>1. PICK i \in 1 .. n : e = s[i]  BY <1>3, <1>6, <3>2 DEF Members
      <4>2. i \in 0 .. n /\ e = RingAt(n, s, i)  BY <4>1 DEF RingAt
      <4> QED BY <4>2
    <3> QED BY <3>1, <3>2
  <2>2. next[e] = RingAt(n, s, i + 1) /\ previous[next[e]] = e  BY <1>3, <2>1 DEF Linked
  <2>3. next[e] \in Listed \cup {ListHead}
    <3>1. i + 1 \in 0 .. n + 1  OBVIOUS
    <3> QED BY <1>5, <2>2, <3>1
  <2>4. next[previous[e]] = e
    <3>1. PICK j \in 0 .. n : e = RingAt(n, s, j + 1)
      <4>1. CASE i = 0
        <5>1. n \in 0 .. n /\ RingAt(n, s, n + 1) = ListHead /\ RingAt(n, s, 0) = ListHead
          BY DEF RingAt
        <5> QED BY <2>1, <4>1, <5>1
      <4>2. CASE i # 0
        <5>1. i - 1 \in 0 .. n /\ (i - 1) + 1 = i  BY <4>2
        <5> QED BY <2>1, <5>1
      <4> QED BY <4>1, <4>2
    <3> QED BY <1>3, <3>1 DEF Linked
  <2>5. next[e] = e => e = ListHead /\ Listed = {}
    <3> SUFFICES ASSUME next[e] = e PROVE e = ListHead /\ Listed = {}  OBVIOUS
    <3>1. RingAt(n, s, i) = RingAt(n, s, i + 1)  BY <2>1, <2>2
    <3>2. i \in Nat /\ i + 1 \in Nat /\ i # i + 1 /\ i <= n + 1 /\ i + 1 <= n + 1 /\ ~(i = n + 1)
      OBVIOUS
    <3>3. i = 0 /\ i + 1 = n + 1  BY <1>3, <3>1, <3>2, RingApart
    <3>4. n = 0  BY <3>3
    <3>5. Members(n, s) = {}
      <4>1. \A j \in 1 .. n : FALSE  BY <3>4
      <4> QED BY <4>1 DEF Members
    <3> QED BY <1>3, <2>1, <3>3, <3>5 DEF RingAt
  <2> QED BY <2>2, <2>3, <2>4, <2>5
<1>7. \A a \in AlarmSet \ Listed : next[a] = previous[a] /\ next[a] \in {a, Null}
  BY DEF AlarmInv, Unlisted
<1> QED BY <1>4, <1>6, <1>7 DEF ListWhole

---------------------------------------------------------------------------
(* Waiting and measuring *)

LEMMA DelaySizes ==
  IntMax \in Nat \ {0} /\ Rate \in Nat \ {0} /\ Rate <= IntMax /\ Half \in Nat \ {0} /\ Full \in Nat
<1>1. IntMax \in Nat \ {0} /\ Rate \in Nat \ {0} /\ Rate <= IntMax /\ Half \in Nat \ {0}
  BY DelayAssumption
<1>2. Half * Half \in Nat /\ Half * Half >= 1 * Half  BY <1>1, Products, Grows
<1> QED BY <1>1, <1>2 DEF Full

LEMMA ChunkIs == Chunk \in Nat \ {0} /\ IntMax % Rate \in Nat /\ IntMax % Rate < Rate
                 /\ IntMax = Chunk * Rate + (IntMax % Rate)
<1>1. Chunk \in Nat /\ IntMax % Rate \in Nat /\ IntMax % Rate < Rate
      /\ IntMax = Chunk * Rate + (IntMax % Rate)
  BY DelaySizes, Divided DEF Chunk
<1>2. Chunk # 0
  <2> SUFFICES ASSUME Chunk = 0 PROVE FALSE  OBVIOUS
  <2> HIDE DEF Chunk
  <2> QED BY <1>1, DelaySizes
<1> QED BY <1>1, <1>2

\* The passes of a wait.
PassesOf(t) ==
  IF BigLoops(t) = 0 THEN IF Rest(t) = 0 THEN 1 ELSE Rest(t)
  ELSE BigLoops(t) * IntMax + (IF Rest(t) = 0 THEN 2 * (IntMax + 1) ELSE Rest(t))

LEMMA PassesAsAsked ==
  ASSUME NEW t \in Nat, BigLoops(t) > 0 => t % Chunk # 0
  PROVE  t * Rate <= PassesOf(t) /\ PassesOf(t) <= t * Rate + BigLoops(t) * Rate + 1
<1> DEFINE b == BigLoops(t)
           m == t % Chunk
           r == IntMax % Rate
<1>1. b \in Nat /\ m \in Nat /\ m < Chunk /\ t = b * Chunk + m
  BY ChunkIs, Divided DEF BigLoops
<1>2. Chunk \in Nat \ {0} /\ r \in Nat /\ r < Rate /\ IntMax = Chunk * Rate + r
      /\ Rate \in Nat \ {0}
  BY ChunkIs, DelaySizes
<1>3. b > 0 => m # 0  OBVIOUS
<1>4. Rest(t) = m * Rate
  <2>1. Rest(t) = (t - b * Chunk) * Rate  BY DEF Rest
  <2>2. b * Chunk \in Nat  BY <1>1, <1>2, Products
  <2> HIDE DEF b, m
  <2>3. t - b * Chunk = m  BY <1>1, <2>2
  <2> QED BY <2>1, <2>3
<1> DEFINE p == PassesOf(t)
<1>5. p = IF b = 0 THEN IF Rest(t) = 0 THEN 1 ELSE Rest(t)
          ELSE b * IntMax + (IF Rest(t) = 0 THEN 2 * (IntMax + 1) ELSE Rest(t))
  BY DEF PassesOf
<1> HIDE DEF b, m, r, p
<1>6. m * Rate \in Nat /\ b * Rate \in Nat /\ b * Chunk \in Nat /\ (b * Chunk) * Rate \in Nat
      /\ t * Rate = (b * Chunk) * Rate + m * Rate
  BY <1>1, <1>2, Products
<1>7. m # 0 => m * Rate # 0
  <2>1. m # 0 => 1 * Rate <= m * Rate  BY <1>1, <1>2, Grows
  <2> QED BY <1>1, <1>2, <1>6, <2>1
<1>8. CASE b = 0
  <2>1. (b * Chunk) * Rate = 0 /\ b * Rate = 0  BY <1>2, <1>8
  <2>2. p = IF m * Rate = 0 THEN 1 ELSE m * Rate  BY <1>4, <1>5, <1>8
  <2> QED BY <1>6, <2>1, <2>2 DEF b, p
<1>9. CASE b # 0
  <2>1. p = b * IntMax + m * Rate  BY <1>1, <1>3, <1>4, <1>5, <1>7, <1>9
  <2>2. b * IntMax = b * (Chunk * Rate) + b * r
    <3>1. Chunk * Rate \in Nat  BY <1>2, Products
    <3> QED BY <1>1, <1>2, <3>1
  <2>3. b * (Chunk * Rate) = (b * Chunk) * Rate  BY <1>1, <1>2
  <2>4. b * r \in Nat /\ b * r <= b * Rate
    <3>1. r * b \in Nat /\ r * b <= Rate * b  BY <1>1, <1>2, Grows, Products
    <3>2. r * b = b * r /\ Rate * b = b * Rate  BY <1>1, <1>2
    <3> QED BY <3>1, <3>2
  <2> QED BY <1>6, <2>1, <2>2, <2>3, <2>4 DEF b, p
<1> QED BY <1>8, <1>9

DelayInv ==
  /\ us \in Nat /\ (passes = 0 \/ passes = PassesOf(us))
  /\ counter \in 0 .. Full /\ snap \in 0 .. Full /\ stamp \in 0 .. Full
  /\ ran \in BOOLEAN /\ pc \in {"out", "lower", "upper"}
  /\ pc = "upper" => lower = snap % Half
  /\ ~ran /\ pc = "out" => stamp <= Full - counter
  /\ ~ran /\ pc # "out" => counter <= snap /\ stamp <= Full - snap

LEMMA DelayStarts == DelayInit => DelayInv
<1>1. Full \in 0 .. Full /\ 0 \in 0 .. Full /\ 0 <= Full - Full  BY DelaySizes
<1> SUFFICES ASSUME DelayInit PROVE DelayInv  OBVIOUS
<1>2. us = 0 /\ passes = 0 /\ counter = Full /\ snap = 0 /\ stamp = 0 /\ pc = "out" /\ ~ran
      /\ ran \in BOOLEAN
  BY DEF DelayInit
<1>3. ~ran /\ pc = "out" => stamp <= Full - counter  BY <1>1, <1>2
<1>4. pc # "upper"  BY <1>2
<1> QED BY <1>1, <1>2, <1>3, <1>4 DEF DelayInv

LEMMA StampIs ==
  ASSUME DelayInv, ReadUpper
  PROVE  stamp' = Full - snap
<1> DEFINE h == snap \div Half
<1>1. stamp' = Full - (h * Half + (snap % Half))  BY DEF DelayInv, ReadUpper, CountRead
<1>2. snap = h * Half + (snap % Half)  BY DelaySizes, Divided DEF DelayInv
<1> QED BY <1>1, <1>2

LEMMA DelayKeeps == DelayInv /\ [DelayNext]_delayVars => DelayInv'
<1> SUFFICES ASSUME DelayInv, [DelayNext]_delayVars PROVE DelayInv'  OBVIOUS
<1>1. CASE UNCHANGED delayVars  BY <1>1 DEF delayVars, DelayInv
<1>2. ASSUME NEW t \in Waits, Sleep(t) PROVE DelayInv'
  <2>1. t \in Nat  BY DelayAssumption
  <2>2. us' = t /\ passes' = PassesOf(t)
        /\ UNCHANGED <<counter, running, snap, ts_freq, pc, lower, stamp, ran>>
    BY <1>2 DEF Sleep, PassesOf
  <2> HIDE DEF PassesOf
  <2> QED BY <2>1, <2>2 DEF DelayInv
<1>3. CASE TimerChosen  BY <1>3 DEF TimerChosen, DelayInv
<1>4. CASE CountsDown
  <2>1. CASE counter = 0
    <3>1. counter' = Full /\ ran' = TRUE /\ UNCHANGED <<us, passes, snap, pc, lower, stamp>>
      BY <1>4, <2>1 DEF CountsDown
    <3>2. Full \in 0 .. Full  BY DelaySizes
    <3> QED BY <3>1, <3>2 DEF DelayInv
  <2>2. CASE counter # 0
    <3>1. counter' = counter - 1 /\ UNCHANGED <<us, passes, ran, snap, pc, lower, stamp>>
      BY <1>4, <2>2 DEF CountsDown
    <3> QED BY <2>2, <3>1, DelaySizes DEF DelayInv
  <2> QED BY <2>1, <2>2
<1>5. CASE TimestampStart
  <2>1. /\ pc = "out" /\ counter' = Full /\ ran' = FALSE /\ stamp' = 0
        /\ UNCHANGED <<us, passes, snap, pc, lower>>
    BY <1>5 DEF TimestampStart
  <2>2. Full \in 0 .. Full /\ 0 \in 0 .. Full /\ 0 <= Full - Full  BY DelaySizes
  <2> QED BY <2>1, <2>2 DEF DelayInv
<1>6. CASE Timestamp  BY <1>6, DelaySizes DEF Timestamp, DelayInv
<1>7. CASE ReadLower  BY <1>7, DelaySizes DEF ReadLower, DelayInv, CountRead
<1>8. CASE ReadUpper
  <2>1. stamp' = Full - snap  BY <1>8, StampIs
  <2> QED BY <1>8, <2>1, DelaySizes DEF ReadUpper, DelayInv
<1> QED BY <1>1, <1>2, <1>3, <1>4, <1>5, <1>6, <1>7, <1>8 DEF DelayNext

LEMMA DelayHolds == DelayInv => SleepsAsAsked
<1> SUFFICES ASSUME DelayInv, passes > 0, BigLoops(us) > 0 => us % Chunk # 0
             PROVE  us * Rate <= passes /\ passes <= us * Rate + BigLoops(us) * Rate + 1
  BY DEF SleepsAsAsked
<1>1. us \in Nat /\ passes = PassesOf(us)  BY DEF DelayInv
<1> QED BY <1>1, PassesAsAsked

LEMMA StampsForward ==
  DelayInv /\ [DelayNext]_delayVars
    => [~ran /\ stamp' # stamp => stamp' > stamp \/ stamp' = 0]_delayVars
<1> SUFFICES ASSUME DelayInv, DelayNext, ~ran, stamp' # stamp
             PROVE  stamp' > stamp \/ stamp' = 0
  OBVIOUS
<1>1. ReadUpper \/ TimestampStart
  BY DEF DelayNext, Sleep, TimerChosen, CountsDown, Timestamp, ReadLower
<1>2. CASE TimestampStart  BY <1>2 DEF TimestampStart
<1>3. CASE ReadUpper
  <2>1. stamp' = Full - snap  BY <1>3, StampIs
  <2>2. stamp <= Full - snap  BY <1>3 DEF ReadUpper, DelayInv
  <2> QED BY <2>1, <2>2, DelaySizes DEF DelayInv
<1> QED BY <1>1, <1>2, <1>3

---------------------------------------------------------------------------
(* The time of day *)

LEMMA TimeSizes ==
  /\ TickRate \in Nat \ {0} /\ Us \in Nat \ {0} /\ Word \in Nat /\ Us < Word
  /\ Us \div TickRate \in Nat /\ Us = (Us \div TickRate) * TickRate
  /\ \A t \in Times : t.sec \in Nat /\ t.usec \in Nat /\ t.usec < Us
<1>1. TickRate \in Nat \ {0} /\ Us \in Nat \ {0} /\ Word \in Nat /\ Word > Us /\ Us % TickRate = 0
      /\ \A t \in Times : t.sec \in Nat /\ t.usec \in 0 .. Us - 1
  BY TimeAssumption
<1>2. Us \div TickRate \in Nat /\ Us = (Us \div TickRate) * TickRate + (Us % TickRate)
  BY <1>1, Divided
<1> DEFINE p == (Us \div TickRate) * TickRate
<1>3. p \in Nat  BY <1>1, <1>2, Products
<1>4. Us = p
  <2> HIDE DEF p
  <2>1. Us = p + 0  BY <1>1, <1>2 DEF p
  <2> QED BY <1>3, <2>1
<1> QED BY <1>1, <1>2, <1>4

TodInv ==
  /\ clockTicks \in Nat /\ ticksSet \in Nat /\ since \in Nat /\ clockTicks = ticksSet + since
  /\ setTo.sec \in Nat /\ setTo.usec \in Nat /\ setTo.usec < Us
  /\ alt_resettime = ResetTime(setTo, ticksSet)

\* The microseconds of some ticks are those of the ticks over the last second.
LEMMA FractionIs ==
  ASSUME NEW n \in Nat
  PROVE  Fraction(n) = (n % TickRate) * (Us \div TickRate)
         /\ Fraction(n) \in Nat /\ Fraction(n) < Us
<1> DEFINE p == Us \div TickRate
           q == n \div TickRate
           r == n % TickRate
<1>1. p \in Nat /\ Us = p * TickRate /\ TickRate \in Nat \ {0} /\ Us \in Nat \ {0}  BY TimeSizes
<1>2. q \in Nat /\ r \in Nat /\ r < TickRate /\ n = q * TickRate + r  BY <1>1, Divided
<1> HIDE DEF p, q, r
<1>3. p # 0  BY <1>1
<1>4. n * p = (q * TickRate) * p + r * p /\ q * TickRate \in Nat /\ r * p \in Nat
  BY <1>1, <1>2, Products
<1>5. (q * TickRate) * p = q * (p * TickRate)  BY <1>1, <1>2
<1>6. r * p < Us
  <2>1. (r + 1) * p <= TickRate * p  BY <1>1, <1>2, Grows
  <2>2. (r + 1) * p = r * p + p /\ TickRate * p = p * TickRate  BY <1>1, <1>2, Products
  <2> QED BY <1>1, <1>3, <1>4, <2>1, <2>2
<1>7. n * p \in Nat /\ n * p = q * Us + r * p
  BY <1>1, <1>2, <1>4, <1>5, Products
<1>8. (n * p) % Us = r * p
  <2> DEFINE x == n * p
             y == r * p
  <2>1. x \in Nat /\ y \in Nat /\ y < Us /\ x = q * Us + y  BY <1>4, <1>6, <1>7
  <2> HIDE DEF x, y
  <2>2. x % Us = y  BY <1>1, <1>2, <2>1, QuotientIs
  <2> QED BY <2>2 DEF x, y
<1> QED BY <1>4, <1>6, <1>8 DEF Fraction, p, r

LEMMA FractionFits ==
  ASSUME NEW n \in Nat, n * (Us \div TickRate) < Word
  PROVE  Fraction32(n) = Fraction(n)
<1> DEFINE m == n * (Us \div TickRate)
<1>1. m \in Nat /\ m < Word /\ Word \in Nat \ {0}  BY TimeSizes, Products
<1>2. m % Word = m
  <2> HIDE DEF m
  <2>1. 0 * Word = 0  BY <1>1
  <2>2. m = 0 * Word + m  BY <1>1, <2>1
  <2> QED BY <1>1, <2>2, QuotientIs
<1> QED BY <1>2 DEF Fraction32, Fraction

LEMMA TodStarts == TodInit => TodInv
<1> SUFFICES ASSUME TodInit PROVE TodInv  OBVIOUS
<1>1. TickRate \in Nat \ {0} /\ Us \in Nat \ {0} /\ Us \div TickRate \in Nat /\ Word \in Nat \ {0}
  BY TimeSizes
<1>2. 0 \div TickRate = 0
  <2>1. 0 * TickRate = 0  BY <1>1
  <2> QED BY <1>1, <2>1, QuotientIs
<1>3. Fraction32(0) = 0
  <2>1. 0 * (Us \div TickRate) = 0  BY <1>1
  <2>2. 0 * (Us \div TickRate) < Word  BY <1>1, <2>1
  <2>3. Fraction32(0) = 0 % Us
    <3>1. 0 * Word = 0  BY <1>1
    <3>2. 0 % Word = 0  BY <1>1, <3>1, QuotientIs
    <3> QED BY <2>1, <3>2 DEF Fraction32
  <2>4. 0 * Us = 0  BY <1>1
  <2>5. 0 % Us = 0  BY <1>1, <2>4, QuotientIs
  <2> QED BY <2>3, <2>5
<1> QED BY <1>1, <1>2, <1>3 DEF TodInit, TodInv, ResetTime

LEMMA TodKeeps == TodInv /\ [TodNext]_todVars => TodInv'
<1> SUFFICES ASSUME TodInv, [TodNext]_todVars PROVE TodInv'  OBVIOUS
<1>1. CASE UNCHANGED todVars  BY <1>1 DEF todVars, TodInv
<1>2. CASE TimePasses  BY <1>2 DEF TimePasses, TodInv
<1>3. ASSUME NEW t \in Times, SetTimeOfDay(t) PROVE TodInv'
  <2>1. t.sec \in Nat /\ t.usec \in Nat /\ t.usec < Us  BY TimeSizes
  <2> QED BY <1>3, <2>1 DEF SetTimeOfDay, TodInv
<1> QED BY <1>1, <1>2, <1>3 DEF TodNext

\* Seconds and microseconds that are carried or not are the same time.
LEMMA CarriedAlike ==
  ASSUME NEW sec \in Nat, NEW usec \in Nat, usec < Us + Us
  PROVE  Carried(sec + 1, usec - Us) = Carried(sec, usec)
<1>1. Us \in Nat \ {0}  BY TimeSizes
<1>2. CASE usec < Us
  <2>1. Carried(sec + 1, usec - Us) = [sec |-> sec, usec |-> usec]
    <3>1. usec - Us < 0 /\ ~(sec + 1 <= 0) /\ (sec + 1) - 1 = sec /\ (usec - Us) + Us = usec
      BY <1>1, <1>2
    <3> QED BY <3>1 DEF Carried
  <2>2. usec \div Us = 0 /\ usec % Us = usec
    <3>1. 0 * Us = 0  BY <1>1
    <3>2. usec = 0 * Us + usec  BY <3>1
    <3> QED BY <1>1, <1>2, <3>2, QuotientIs
  <2>3. Carried(sec, usec) = [sec |-> sec, usec |-> usec]
    <3>1. ~(usec < 0) /\ sec + 0 = sec  OBVIOUS
    <3> QED BY <2>2, <3>1 DEF Carried
  <2> QED BY <2>1, <2>3
<1>3. CASE ~(usec < Us)
  <2> DEFINE u == usec - Us
  <2>1. u \in Nat /\ u < Us /\ ~(u < 0) /\ ~(usec < 0)  BY <1>1, <1>3
  <2>2. 0 * Us = 0 /\ 1 * Us = Us  BY <1>1
  <2> HIDE DEF u
  <2>3. u \div Us = 0 /\ u % Us = u
    <3>1. u = 0 * Us + u  BY <2>1, <2>2
    <3> QED BY <1>1, <2>1, <3>1, QuotientIs
  <2>4. usec \div Us = 1 /\ usec % Us = u
    <3>1. usec = 1 * Us + u  BY <1>1, <2>1, <2>2 DEF u
    <3> QED BY <1>1, <2>1, <3>1, QuotientIs
  <2>5. Carried(sec + 1, u) = [sec |-> sec + 1, usec |-> u]
    <3>1. (sec + 1) + 0 = sec + 1  OBVIOUS
    <3> QED BY <2>1, <2>3, <3>1 DEF Carried
  <2>6. Carried(sec, usec) = [sec |-> sec + 1, usec |-> u]  BY <2>1, <2>4 DEF Carried
  <2> QED BY <2>5, <2>6 DEF u
<1> QED BY <1>2, <1>3

LEMMA TodHolds == TodInv => TimeKept
<1> SUFFICES ASSUME TodInv, ticksSet * (Us \div TickRate) < Word
             PROVE  GetTimeOfDay = Carried(setTo.sec + (since \div TickRate),
                                           setTo.usec + Fraction(since))
  BY DEF TimeKept
<1> DEFINE p == Us \div TickRate
           s == setTo.sec
           u == setTo.usec
           a == ticksSet \div TickRate
           b == ticksSet % TickRate
           d == since \div TickRate
           e == since % TickRate
<1>1. p \in Nat /\ Us = p * TickRate /\ TickRate \in Nat \ {0} /\ Us \in Nat \ {0}  BY TimeSizes
<1>2. /\ s \in Nat /\ u \in Nat /\ u < Us /\ ticksSet \in Nat /\ since \in Nat
      /\ clockTicks = ticksSet + since /\ clockTicks \in Nat
  BY DEF TodInv
<1>3. a \in Nat /\ b \in Nat /\ b < TickRate /\ ticksSet = a * TickRate + b /\ a * TickRate \in Nat
  BY <1>1, <1>2, Divided, Products
<1>4. d \in Nat /\ e \in Nat /\ e < TickRate /\ since = d * TickRate + e /\ d * TickRate \in Nat
  BY <1>1, <1>2, Divided, Products
<1>5. Fraction(ticksSet) = b * p /\ Fraction(since) = e * p /\ b * p \in Nat /\ e * p \in Nat
      /\ e * p < Us
  BY <1>2, FractionIs
<1>6. GetTimeOfDay = Carried((s - a) + (clockTicks \div TickRate), (u - b * p) + Fraction(clockTicks))
  BY <1>2, <1>5, FractionFits DEF TodInv, ResetTime, GetTimeOfDay
<1> HIDE DEF p, s, u, a, b, d, e
<1>7. (a + d) * TickRate = a * TickRate + d * TickRate
      /\ ((a + d) + 1) * TickRate = (a + d) * TickRate + TickRate /\ a + d \in Nat
  BY <1>1, <1>3, <1>4, Products
<1>8. (b + e) * p = b * p + e * p  BY <1>1, <1>3, <1>4, Products
<1>9. CASE b + e < TickRate
  <2>1. clockTicks = (a + d) * TickRate + (b + e) /\ b + e \in Nat
    BY <1>2, <1>3, <1>4, <1>7
  <2>2. clockTicks \div TickRate = a + d /\ clockTicks % TickRate = b + e
    <3> DEFINE x == a + d
               y == b + e
    <3>1. x \in Nat /\ y \in Nat /\ y < TickRate /\ clockTicks = x * TickRate + y
      BY <1>7, <1>9, <2>1
    <3> HIDE DEF x, y
    <3>2. clockTicks \div TickRate = x /\ clockTicks % TickRate = y
      BY <1>1, <1>2, <3>1, QuotientIs
    <3> QED BY <3>2 DEF x, y
  <2>3. Fraction(clockTicks) = b * p + e * p  BY <1>2, <1>8, <2>2, FractionIs DEF p
  <2>4. (s - a) + (a + d) = s + d /\ (u - b * p) + (b * p + e * p) = u + e * p
    BY <1>2, <1>3, <1>4, <1>5
  <2> QED BY <1>5, <1>6, <2>2, <2>3, <2>4 DEF s, u, d
<1>10. CASE ~(b + e < TickRate)
  <2> DEFINE f == b + e - TickRate
  <2>1. f \in Nat /\ f < TickRate /\ a + d + 1 \in Nat
        /\ clockTicks = (a + d + 1) * TickRate + f
    BY <1>1, <1>2, <1>3, <1>4, <1>7, <1>10
  <2> HIDE DEF f
  <2>2. clockTicks \div TickRate = a + d + 1 /\ clockTicks % TickRate = f
    BY <1>1, <1>2, <2>1, QuotientIs
  <2>3. f * p = b * p + e * p - Us
    <3>1. (f + TickRate) * p = f * p + TickRate * p /\ f * p \in Nat /\ TickRate * p \in Nat
      BY <1>1, <2>1, Products
    <3>2. f + TickRate = b + e  BY <1>1, <1>3, <1>4 DEF f
    <3>3. TickRate * p = Us  BY <1>1
    <3> QED BY <1>1, <1>5, <1>8, <3>1, <3>2, <3>3
  <2>4. Fraction(clockTicks) = b * p + e * p - Us  BY <1>2, <2>2, <2>3, FractionIs DEF p
  <2>5. (s - a) + (a + d + 1) = (s + d) + 1
        /\ (u - b * p) + (b * p + e * p - Us) = (u + e * p) - Us
    BY <1>1, <1>2, <1>3, <1>4, <1>5
  <2>6. s + d \in Nat /\ u + e * p \in Nat /\ u + e * p < Us + Us
    BY <1>1, <1>2, <1>4, <1>5
  <2>7. GetTimeOfDay = Carried((s + d) + 1, (u + e * p) - Us)  BY <1>6, <2>2, <2>4, <2>5
  <2> QED BY <1>5, <2>6, <2>7, CarriedAlike DEF s, u, d
<1> QED BY <1>9, <1>10

---------------------------------------------------------------------------
(* What is logged *)

LogKinds == {"boot", "startup", "write", "clock", "alarm", "isr"}
LineAt == [line : Nat, left : Nat]
PortAt == [line : Nat, pos : Nat]

LEMMA LogSizes ==
  /\ \A l \in LogLevels : l \in Int /\ l >= -1 /\ l <= 3
  /\ ClockInterval \in Nat /\ JtagTicks \in Nat /\ JtagTicks >= 1
  /\ LineLength \in Nat /\ LineLength >= 1
  /\ PortDepth \in Nat /\ PortDepth >= 1 /\ PortDepth < 65536
BY LogPointAssumption

---------------------------------------------------------------------------
(* Reports: the fields of the control register *)

FieldBit(bits, bit) == IF bit \in bits THEN 1 ELSE 0

LEMMA FieldIs ==
  ASSUME NEW control \in Nat, NEW size \in Nat \ {0}, NEW unit \in Nat \ {0},
         NEW above \in Nat, NEW field \in Nat, NEW below \in Nat, field < size, below < unit,
         control = (above * size + field) * unit + below
  PROVE  Field(control, size, unit) = field
<1> DEFINE q == above * size + field
<1>1. q \in Nat  BY Products
<1>2. control = q * unit + below  OBVIOUS
<1>3. q = above * size + field  OBVIOUS
<1> HIDE DEF q
<1>4. control \div unit = q  BY <1>1, <1>2, QuotientIs
<1>5. q % size = field  BY <1>1, <1>3, QuotientIs
<1> QED BY <1>4, <1>5 DEF Field

LEMMA ReportIs ==
  ASSUME NEW bits, NEW space \in Nat, space < 65536
  PROVE  PrintControlReg(Control(bits, space)) =
           [space |-> space, we |-> FieldBit(bits, "WE"), re |-> FieldBit(bits, "RE"),
            ri |-> FieldBit(bits, "RI"), wi |-> FieldBit(bits, "WI"), ac |-> FieldBit(bits, "AC")]
<1> DEFINE re0 == FieldBit(bits, "RE")
           we0 == FieldBit(bits, "WE")
           ri0 == FieldBit(bits, "RI")
           wi0 == FieldBit(bits, "WI")
           ac0 == FieldBit(bits, "AC")
           c == Control(bits, space)
<1>1. /\ re0 \in Nat /\ we0 \in Nat /\ ri0 \in Nat /\ wi0 \in Nat /\ ac0 \in Nat
      /\ re0 < 2 /\ we0 < 2 /\ ri0 < 2 /\ wi0 < 2 /\ ac0 < 2
  BY DEF FieldBit
<1>2. c = re0 + 2 * we0 + 256 * ri0 + 512 * wi0 + 1024 * ac0 + 65536 * space
  BY DEF FieldBit, Control
<1> HIDE DEF re0, we0, ri0, wi0, ac0, c
<1>3. c \in Nat  BY <1>1, <1>2
<1>4. Field(c, 65536, 65536) = space
  <2> DEFINE b == re0 + 2 * we0 + 256 * ri0 + 512 * wi0 + 1024 * ac0
  <2>1. b \in Nat /\ b < 65536 /\ c = (0 * 65536 + space) * 65536 + b  BY <1>1, <1>2
  <2> HIDE DEF b
  <2> QED BY <1>3, <2>1, FieldIs
<1>5. Field(c, 2, 1) = re0
  <2> DEFINE a == we0 + 128 * ri0 + 256 * wi0 + 512 * ac0 + 32768 * space
  <2>1. a \in Nat /\ 0 \in Nat /\ 0 < 1 /\ c = (a * 2 + re0) * 1 + 0  BY <1>1, <1>2
  <2> HIDE DEF a
  <2> QED BY <1>1, <1>3, <2>1, FieldIs
<1>6. Field(c, 2, 2) = we0
  <2> DEFINE a == 64 * ri0 + 128 * wi0 + 256 * ac0 + 16384 * space
  <2>1. a \in Nat /\ c = (a * 2 + we0) * 2 + re0  BY <1>1, <1>2
  <2> HIDE DEF a
  <2> QED BY <1>1, <1>3, <2>1, FieldIs
<1>7. Field(c, 2, 256) = ri0
  <2> DEFINE a == wi0 + 2 * ac0 + 128 * space
             b == re0 + 2 * we0
  <2>1. a \in Nat /\ b \in Nat /\ b < 256 /\ c = (a * 2 + ri0) * 256 + b  BY <1>1, <1>2
  <2> HIDE DEF a, b
  <2> QED BY <1>1, <1>3, <2>1, FieldIs
<1>8. Field(c, 2, 512) = wi0
  <2> DEFINE a == ac0 + 64 * space
             b == re0 + 2 * we0 + 256 * ri0
  <2>1. a \in Nat /\ b \in Nat /\ b < 512 /\ c = (a * 2 + wi0) * 512 + b  BY <1>1, <1>2
  <2> HIDE DEF a, b
  <2> QED BY <1>1, <1>3, <2>1, FieldIs
<1>9. Field(c, 2, 1024) = ac0
  <2> DEFINE a == 32 * space
             b == re0 + 2 * we0 + 256 * ri0 + 512 * wi0
  <2>1. a \in Nat /\ b \in Nat /\ b < 1024 /\ c = (a * 2 + ac0) * 1024 + b  BY <1>1, <1>2
  <2> HIDE DEF a, b
  <2> QED BY <1>1, <1>3, <2>1, FieldIs
<1> QED BY <1>4, <1>5, <1>6, <1>7, <1>8, <1>9
        DEF PrintControlReg, c, re0, we0, ri0, wi0, ac0

ReportTypes == inFifo \in Nat /\ inFifo <= PortDepth /\ ReportsRegister

LEMMA ReportTrue ==
  ASSUME ReportTypes, NEW flag \in BOOLEAN, Reports(flag)
  PROVE  ReportsRegister'
<1>1. CASE ~flag
  BY <1>1 DEF Reports, ReportTypes, ReportsRegister, NoReport
<1>2. CASE flag
  <2>1. PICK bits \in PortBits :
          report' = [shown |-> PrintControlReg(Control(bits, PortDepth - inFifo)),
                     was |-> [bits |-> bits, space |-> PortDepth - inFifo]]
    BY <1>2 DEF Reports
  <2> DEFINE space == PortDepth - inFifo
  <2>2. space \in Nat /\ space < 65536  BY LogSizes DEF ReportTypes
  <2>3. report' = [shown |-> PrintControlReg(Control(bits, space)),
                   was |-> [bits |-> bits, space |-> space]]
    BY <2>1
  <2> HIDE DEF space
  <2>4. report'.shown = PrintControlReg(Control(bits, space)) /\ report'.was.bits = bits
        /\ report'.was.space = space
    BY <2>3
  <2>5. report'.shown = [space |-> space, we |-> FieldBit(bits, "WE"), re |-> FieldBit(bits, "RE"),
                         ri |-> FieldBit(bits, "RI"), wi |-> FieldBit(bits, "WI"), ac |-> FieldBit(bits, "AC")]
    BY <2>2, <2>4, ReportIs
  <2> QED BY <2>4, <2>5 DEF ReportsRegister, FieldBit
<1> QED BY <1>1, <1>2

---------------------------------------------------------------------------
(* Lines: how many of a kind *)

CountIn(s, kind) == Cardinality({n \in DOMAIN s : s[n] = kind})

LEMMA CountAppends ==
  ASSUME NEW s \in Seq(LogKinds), NEW k \in LogKinds, NEW kind
  PROVE  /\ CountIn(s, kind) \in Nat
         /\ CountIn(Append(s, k), kind) = CountIn(s, kind) + (IF k = kind THEN 1 ELSE 0)
<1> DEFINE before == {n \in DOMAIN s : s[n] = kind}
           t == Append(s, k)
           after == {n \in DOMAIN t : t[n] = kind}
<1>1. /\ t \in Seq(LogKinds) /\ Len(t) = Len(s) + 1 /\ t[Len(s) + 1] = k
      /\ \A n \in 1 .. Len(s) : t[n] = s[n]
  BY AppendProperties
<1>2. DOMAIN s = 1 .. Len(s) /\ DOMAIN t = 1 .. Len(t) /\ Len(s) \in Nat  BY <1>1, LenProperties
<1> HIDE DEF t
<1>3. IsFiniteSet(before) /\ before \subseteq 1 .. Len(s)
  <2>1. before \subseteq 1 .. Len(s)  BY <1>2
  <2>2. IsFiniteSet(1 .. Len(s))  BY <1>2, FS_Interval
  <2> QED BY <2>1, <2>2, FS_Subset
<1>4. Cardinality(before) \in Nat  BY <1>3, FS_CardinalityType
<1>5. CASE k = kind
  <2>1. after = before \cup {Len(s) + 1}  BY <1>1, <1>2, <1>5
  <2>2. Len(s) + 1 \notin before  BY <1>2, <1>3
  <2>3. Cardinality(after) = Cardinality(before) + 1  BY <1>3, <2>1, <2>2, FS_AddElement
  <2> QED BY <1>4, <1>5, <2>3 DEF CountIn, t
<1>6. CASE k # kind
  <2>1. after = before  BY <1>1, <1>2, <1>6
  <2> HIDE DEF before, after
  <2>2. Cardinality(after) = Cardinality(before) + 0  BY <1>4, <2>1
  <2> QED BY <1>4, <1>6, <2>2 DEF CountIn, t, before, after
<1> QED BY <1>5, <1>6

\* What a call prints: nothing, a line, or the two of a tick.
LEMMA PrintedOne ==
  ASSUME NEW s \in Seq(LogKinds), NEW k \in LogKinds, NEW flag \in BOOLEAN
  PROVE  /\ If(flag, k) \in Seq(LogKinds) /\ s \o If(flag, k) \in Seq(LogKinds)
         /\ s \o If(flag, k) = IF flag THEN Append(s, k) ELSE s
         /\ \A n \in DOMAIN If(flag, k) : flag /\ If(flag, k)[n] = k
<1>1. CASE flag
  <2>1. s \o <<k>> = Append(s, k)  BY AppendIsConcat
  <2> QED BY <1>1, <2>1, AppendProperties DEF If
<1>2. CASE ~flag
  <2>1. s \o << >> = s  BY ConcatEmptySeq
  <2> QED BY <1>2, <2>1 DEF If
<1> QED BY <1>1, <1>2

LEMMA PrintedTwo ==
  ASSUME NEW s \in Seq(LogKinds), NEW k \in LogKinds, NEW l \in LogKinds, NEW f \in BOOLEAN,
         NEW g \in BOOLEAN
  PROVE  /\ If(f, k) \o If(g, l) \in Seq(LogKinds)
         /\ s \o (If(f, k) \o If(g, l)) = (s \o If(f, k)) \o If(g, l)
         /\ \A n \in DOMAIN (If(f, k) \o If(g, l)) :
              (If(f, k) \o If(g, l))[n] \in (IF f THEN {k} ELSE {}) \cup (IF g THEN {l} ELSE {})
<1>1. If(f, k) \in Seq(LogKinds) /\ If(g, l) \in Seq(LogKinds)  BY PrintedOne
<1>2. If(f, k) \o If(g, l) \in Seq(LogKinds)  BY <1>1, ConcatProperties
<1>3. s \o (If(f, k) \o If(g, l)) = (s \o If(f, k)) \o If(g, l)  BY <1>1, ConcatAssociative
<1>4. \A n \in DOMAIN (If(f, k) \o If(g, l)) :
        (If(f, k) \o If(g, l))[n] \in (IF f THEN {k} ELSE {}) \cup (IF g THEN {l} ELSE {})
  BY DEF If
<1> QED BY <1>2, <1>3, <1>4

---------------------------------------------------------------------------
(* Levels, heartbeats and alarms *)

LevelOf(kind) ==
  CASE kind = "boot" -> 0 [] kind \in {"clock", "startup"} -> 1
    [] kind \in {"write", "alarm"} -> 2 [] kind = "isr" -> 3

CountTypes ==
  /\ level \in Int /\ level >= -1 /\ level <= 3
  /\ stage \in {"crt0", "main", "uart", "running"}
  /\ logTicks \in Nat /\ alt_log_sys_clk_count \in Nat /\ alt_system_clock_in_sec \in Nat
  /\ alarmAt \in Int /\ alarmSince \in Int
  /\ lines \in Seq(LogKinds)

LinesByLevel == \A n \in DOMAIN lines : level >= LevelOf(lines[n])

\* The lines so far, in numbers.
LogCounted ==
  /\ CountTypes /\ LinesByLevel
  /\ Count("boot") = IF stage # "crt0" /\ level >= 0 THEN 1 ELSE 0
  /\ Count("startup") = IF stage \in {"uart", "running"} /\ level >= 1 THEN 1 ELSE 0
  /\ Count("clock") = alt_system_clock_in_sec
  /\ alt_log_sys_clk_count <= ClockInterval
  /\ level >= 1 =>
       logTicks = alt_system_clock_in_sec * (ClockInterval + 1) + alt_log_sys_clk_count
  /\ stage \in {"crt0", "main"} => alarmAt = NoAlarm
  /\ IF alarmAt = NoAlarm THEN alarmSince = NoAlarm /\ Count("alarm") = 0
     ELSE /\ level >= 2 /\ alarmSince \in Nat /\ alarmSince <= logTicks
          /\ alarmAt = alarmSince + 1 + Count("alarm") * JtagTicks + JtagTicks
          /\ logTicks < alarmAt
          /\ Count("alarm") > 0 => alarmAt <= logTicks + JtagTicks

LEMMA CountedStarts ==
  ASSUME NEW levels, levels \subseteq LogLevels \cup {0}, PointsInitOf(levels)
  PROVE  LogCounted
<1> USE DEF PointsInitOf
<1>1. CountTypes  BY LogSizes DEF CountTypes, NoAlarm
<1>2. lines = << >> /\ DOMAIN lines = {}  OBVIOUS
<1>3. \A kind : Count(kind) = 0
  <2> TAKE kind
  <2>1. {n \in DOMAIN lines : lines[n] = kind} = {}  BY <1>2
  <2> QED BY <2>1, FS_EmptySet DEF Count
<1> QED BY <1>1, <1>2, <1>3, LogSizes DEF LogCounted, LinesByLevel, NoAlarm

LEMMA CountedHolds ==
  LogCounted => LoggedByLevel /\ HeartbeatsCounted
<1> SUFFICES ASSUME LogCounted PROVE LoggedByLevel /\ HeartbeatsCounted  OBVIOUS
<1>1. LoggedByLevel  BY DEF LogCounted, LinesByLevel, LevelOf, LoggedByLevel
<1>2. level >= 1 => /\ alt_system_clock_in_sec * ClockInterval <= logTicks
                    /\ logTicks < (alt_system_clock_in_sec + 1) * (ClockInterval + 1)
  <2> DEFINE s == alt_system_clock_in_sec
             c == alt_log_sys_clk_count
  <2> SUFFICES ASSUME level >= 1
               PROVE  s * ClockInterval <= logTicks /\ logTicks < (s + 1) * (ClockInterval + 1)
    OBVIOUS
  <2>1. s \in Nat /\ c \in Nat /\ ClockInterval \in Nat /\ c <= ClockInterval
        /\ logTicks = s * (ClockInterval + 1) + c
    BY LogSizes DEF LogCounted, CountTypes
  <2> HIDE DEF s, c
  <2>2. s * (ClockInterval + 1) = s * ClockInterval + s /\ s * ClockInterval \in Nat
    BY <2>1, SMT
  <2>3. (s + 1) * (ClockInterval + 1) = s * (ClockInterval + 1) + (ClockInterval + 1)
        /\ s * (ClockInterval + 1) \in Nat
    BY <2>1, SMT
  <2> QED BY <2>1, <2>2, <2>3
<1>3. Count("alarm") = IF alarmSince = NoAlarm \/ logTicks = alarmSince THEN 0
                       ELSE (logTicks - alarmSince - 1) \div JtagTicks
  <2>1. CASE alarmAt = NoAlarm  BY <2>1 DEF LogCounted
  <2>2. CASE alarmAt # NoAlarm
    <3> DEFINE m == Count("alarm")
               g == logTicks - alarmSince - 1
    <3>1. m \in Nat
      <4>1. lines \in Seq(LogKinds) /\ "boot" \in LogKinds  BY DEF LogCounted, CountTypes, LogKinds
      <4> QED BY <4>1, CountAppends DEF Count, CountIn
    <3>2. /\ alarmSince \in Nat /\ alarmSince <= logTicks /\ logTicks \in Nat
          /\ alarmAt = alarmSince + 1 + m * JtagTicks + JtagTicks /\ logTicks < alarmAt
          /\ m > 0 => alarmAt <= logTicks + JtagTicks
      BY <2>2 DEF LogCounted, CountTypes
    <3> HIDE DEF m
    <3>3. m * JtagTicks \in Nat /\ (m + 1) * JtagTicks = m * JtagTicks + JtagTicks
          /\ JtagTicks \in Nat \ {0} /\ (m = 0 => m * JtagTicks = 0)
      BY <3>1, LogSizes, Products
    <3>4. CASE logTicks = alarmSince
      <4>1. ~(m > 0)
        <5> SUFFICES ASSUME m > 0 PROVE FALSE  OBVIOUS
        <5>1. alarmSince + 1 + m * JtagTicks <= alarmSince  BY <3>2, <3>3, <3>4, LogSizes
        <5> QED BY <3>2, <3>3, <5>1
      <4> QED BY <3>1, <3>4, <4>1 DEF m
    <3>5. CASE logTicks # alarmSince
      <4> DEFINE r == g - m * JtagTicks
      <4>1. g \in Nat /\ r \in Nat /\ r < JtagTicks
        <5>1. CASE m = 0  BY <3>2, <3>3, <3>5, <5>1
        <5>2. CASE m # 0
          <6>1. m > 0  BY <3>1, <5>2
          <6> QED BY <3>2, <3>3, <3>5, <6>1
        <5> QED BY <5>1, <5>2
      <4>2. g = m * JtagTicks + r  BY <3>2, <3>3
      <4> HIDE DEF g, r
      <4>3. g \div JtagTicks = m  BY <3>1, <3>3, <4>1, <4>2, QuotientIs
      <4>4. alarmSince # NoAlarm  BY <3>2 DEF NoAlarm
      <4> QED BY <3>5, <4>3, <4>4 DEF m, g
    <3> QED BY <3>4, <3>5
  <2> QED BY <2>1, <2>2
<1> QED BY <1>1, <1>2, <1>3 DEF HeartbeatsCounted, LogCounted

LEMMA CountPrinted ==
  ASSUME NEW s \in Seq(LogKinds), NEW k \in LogKinds, NEW flag \in BOOLEAN
  PROVE  /\ s \o If(flag, k) \in Seq(LogKinds)
         /\ \A kind : CountIn(s \o If(flag, k), kind)
                        = CountIn(s, kind) + (IF flag /\ k = kind THEN 1 ELSE 0)
         /\ \A n \in DOMAIN (s \o If(flag, k)) :
              \/ n \in DOMAIN s /\ (s \o If(flag, k))[n] = s[n]
              \/ flag /\ (s \o If(flag, k))[n] = k
<1>1. CASE flag
  <2> DEFINE t == Append(s, k)
  <2>1. s \o If(flag, k) = t  BY <1>1, PrintedOne
  <2>2. \A kind : CountIn(t, kind) = CountIn(s, kind) + (IF k = kind THEN 1 ELSE 0)
    BY CountAppends
  <2>3. t \in Seq(LogKinds) /\ Len(t) = Len(s) + 1 /\ t[Len(s) + 1] = k
        /\ (\A n \in 1 .. Len(s) : t[n] = s[n])
    BY AppendProperties
  <2>4. DOMAIN t = 1 .. Len(t) /\ DOMAIN s = 1 .. Len(s) /\ Len(s) \in Nat  BY <2>3, LenProperties
  <2> HIDE DEF t
  <2>5. \A n \in DOMAIN t : (n \in DOMAIN s /\ t[n] = s[n]) \/ t[n] = k  BY <2>3, <2>4
  <2> QED BY <1>1, <2>1, <2>2, <2>3, <2>5
<1>2. CASE ~flag
  <2>1. s \o If(flag, k) = s  BY <1>2, PrintedOne
  <2>2. \A kind : CountIn(s, kind) = CountIn(s, kind) + 0
    <3> TAKE kind
    <3>1. CountIn(s, kind) \in Nat  BY CountAppends
    <3> QED BY <3>1
  <2> QED BY <1>2, <2>1, <2>2
<1> QED BY <1>1, <1>2

\* A call that prints one line or none.
LEMMA OneLine ==
  ASSUME CountTypes, LinesByLevel, NEW k \in LogKinds, NEW flag \in BOOLEAN,
         PrintLines(If(flag, k)), flag => level >= LevelOf(k), level' = level
  PROVE  /\ lines' \in Seq(LogKinds) /\ LinesByLevel'
         /\ \A kind : Count(kind)' = Count(kind) + (IF flag /\ k = kind THEN 1 ELSE 0)
<1>1. lines \in Seq(LogKinds)  BY DEF CountTypes
<1>2. lines' = lines \o If(flag, k)  BY DEF PrintLines
<1>3. LinesByLevel'  BY <1>1, <1>2, CountPrinted DEF LinesByLevel
<1>4. \A kind : CountIn(lines', kind) = CountIn(lines, kind) + (IF flag /\ k = kind THEN 1 ELSE 0)
  BY <1>1, <1>2, CountPrinted
<1> QED BY <1>1, <1>2, <1>3, <1>4, CountPrinted DEF Count, CountIn

LEMMA CountsAre ==
  ASSUME CountTypes, NEW kind
  PROVE  Count(kind) \in Nat
BY CountAppends DEF CountTypes, Count, CountIn, LogKinds

LEMMA BootCounted == LogCounted /\ LogBoot => LogCounted'
<1> SUFFICES ASSUME LogCounted, LogBoot PROVE LogCounted'  OBVIOUS
<1> USE DEF LogBoot
<1>1. CountTypes /\ LinesByLevel  BY DEF LogCounted
<1>2. BOOT_ON(level) \in BOOLEAN /\ (BOOT_ON(level) <=> level >= 0)
  BY <1>1 DEF BOOT_ON, CountTypes
<1>3. "boot" \in LogKinds /\ LevelOf("boot") = 0  BY DEF LogKinds, LevelOf
<1>4. /\ lines' \in Seq(LogKinds) /\ LinesByLevel'
      /\ \A kind : Count(kind)' = Count(kind) + (IF BOOT_ON(level) /\ "boot" = kind THEN 1 ELSE 0)
  BY <1>1, <1>2, <1>3, OneLine
<1>5. CountTypes'  BY <1>1, <1>4 DEF CountTypes
<1>6. /\ Count("boot")' = IF level >= 0 THEN 1 ELSE 0
      /\ Count("startup")' = Count("startup") /\ Count("clock")' = Count("clock")
      /\ Count("alarm")' = Count("alarm")
  <2>1. Count("boot") = 0  BY DEF LogCounted
  <2> QED BY <1>1, <1>2, <1>4, <2>1, CountsAre
<1> QED BY <1>4, <1>5, <1>6 DEF LogCounted

LEMMA UartCounted == LogCounted /\ LogUartInit => LogCounted'
<1> SUFFICES ASSUME LogCounted, LogUartInit PROVE LogCounted'  OBVIOUS
<1> USE DEF LogUartInit
<1>1. CountTypes /\ LinesByLevel  BY DEF LogCounted
<1> DEFINE on == JTAG_UART_STARTUP_INFO_ON(level)
<1>2. on \in BOOLEAN /\ (on <=> level >= 1)
      /\ (JTAG_UART_ALARM_ON(level) <=> level >= 2)
  BY <1>1 DEF JTAG_UART_STARTUP_INFO_ON, JTAG_UART_ALARM_ON, CountTypes
<1>3. "startup" \in LogKinds /\ LevelOf("startup") = 1  BY DEF LogKinds, LevelOf
<1>4. /\ lines' \in Seq(LogKinds) /\ LinesByLevel'
      /\ \A kind : Count(kind)' = Count(kind) + (IF on /\ "startup" = kind THEN 1 ELSE 0)
  <2>1. PrintLines(If(on, "startup")) /\ level' = level  OBVIOUS
  <2> HIDE DEF on
  <2> QED BY <1>1, <1>2, <1>3, <2>1, OneLine
<1> HIDE DEF on
<1>5. CountTypes'
  <2>1. alarmAt' \in Int /\ alarmSince' \in Int  BY <1>1, LogSizes DEF CountTypes
  <2> QED BY <1>1, <1>4, <2>1 DEF CountTypes
<1>6. /\ Count("startup")' = IF level >= 1 THEN 1 ELSE 0
      /\ Count("boot")' = Count("boot") /\ Count("clock")' = Count("clock")
      /\ Count("alarm")' = Count("alarm")
  <2>1. Count("startup") = 0  BY DEF LogCounted
  <2> QED BY <1>1, <1>2, <1>4, <2>1, CountsAre
<1>7. IF alarmAt' = NoAlarm THEN alarmSince' = NoAlarm /\ Count("alarm")' = 0
      ELSE /\ level' >= 2 /\ alarmSince' \in Nat /\ alarmSince' <= logTicks'
           /\ alarmAt' = alarmSince' + 1 + Count("alarm")' * JtagTicks + JtagTicks
           /\ logTicks' < alarmAt'
           /\ Count("alarm")' > 0 => alarmAt' <= logTicks' + JtagTicks
  <2>1. CASE level >= 2
    <3>1. alarmAt' = logTicks + JtagTicks + 1 /\ alarmSince' = logTicks /\ logTicks \in Nat
          /\ JtagTicks \in Nat
      BY <1>1, <1>2, <2>1, LogSizes DEF CountTypes
    <3>2. Count("alarm") = 0  BY DEF LogCounted
    <3>3. 0 * JtagTicks = 0  BY <3>1
    <3> QED BY <1>6, <2>1, <3>1, <3>2, <3>3 DEF NoAlarm
  <2>2. CASE ~(level >= 2)
    <3>1. alarmAt' = alarmAt /\ alarmSince' = alarmSince  BY <1>2, <2>2
    <3> QED BY <1>6, <2>2, <3>1 DEF LogCounted
  <2> QED BY <2>1, <2>2
<1> QED BY <1>4, <1>5, <1>6, <1>7 DEF LogCounted

LEMMA EchoCounted == LogCounted /\ LogEcho => LogCounted'
<1> SUFFICES ASSUME LogCounted, LogEcho PROVE LogCounted'  OBVIOUS
<1> USE DEF LogEcho
<1>1. CountTypes /\ LinesByLevel  BY DEF LogCounted
<1> DEFINE on == WRITE_ON(level)
<1>2. on \in BOOLEAN /\ (on => level >= 2)  BY <1>1 DEF WRITE_ON, CountTypes
<1>3. "write" \in LogKinds /\ LevelOf("write") = 2  BY DEF LogKinds, LevelOf
<1>4. /\ lines' \in Seq(LogKinds) /\ LinesByLevel'
      /\ \A kind : Count(kind)' = Count(kind) + (IF on /\ "write" = kind THEN 1 ELSE 0)
  <2>1. PrintLines(If(on, "write")) /\ level' = level  OBVIOUS
  <2> HIDE DEF on
  <2> QED BY <1>1, <1>2, <1>3, <2>1, OneLine
<1> HIDE DEF on
<1>5. CountTypes'  BY <1>1, <1>4 DEF CountTypes
<1>6. /\ Count("startup")' = Count("startup") /\ Count("boot")' = Count("boot")
      /\ Count("clock")' = Count("clock") /\ Count("alarm")' = Count("alarm")
  BY <1>1, <1>4, CountsAre
<1> QED BY <1>4, <1>5, <1>6 DEF LogCounted

LEMMA IrqCounted == LogCounted /\ LogUartIrq => LogCounted'
<1> SUFFICES ASSUME LogCounted, LogUartIrq PROVE LogCounted'  OBVIOUS
<1> USE DEF LogUartIrq
<1>1. CountTypes /\ LinesByLevel  BY DEF LogCounted
<1> DEFINE on == JTAG_UART_ISR_ON(level)
<1>2. on \in BOOLEAN /\ (on => level >= 3)  BY <1>1 DEF JTAG_UART_ISR_ON, CountTypes
<1>3. "isr" \in LogKinds /\ LevelOf("isr") = 3  BY DEF LogKinds, LevelOf
<1>4. /\ lines' \in Seq(LogKinds) /\ LinesByLevel'
      /\ \A kind : Count(kind)' = Count(kind) + (IF on /\ "isr" = kind THEN 1 ELSE 0)
  <2>1. PrintLines(If(on, "isr")) /\ level' = level  OBVIOUS
  <2> HIDE DEF on
  <2> QED BY <1>1, <1>2, <1>3, <2>1, OneLine
<1> HIDE DEF on
<1>5. CountTypes'  BY <1>1, <1>4 DEF CountTypes
<1>6. /\ Count("startup")' = Count("startup") /\ Count("boot")' = Count("boot")
      /\ Count("clock")' = Count("clock") /\ Count("alarm")' = Count("alarm")
  BY <1>1, <1>4, CountsAre
<1> QED BY <1>4, <1>5, <1>6 DEF LogCounted

LEMMA TickCounted == LogCounted /\ LogTick => LogCounted'
<1> SUFFICES ASSUME LogCounted, LogTick PROVE LogCounted'  OBVIOUS
<1> USE DEF LogTick
<1>1. CountTypes /\ LinesByLevel  BY DEF LogCounted
<1> DEFINE beat == Heartbeat
           ring == AlarmDue
           s == lines \o If(beat, "clock")
           m == Count("alarm")
<1>2. /\ beat \in BOOLEAN /\ ring \in BOOLEAN
      /\ (beat <=> level >= 1 /\ alt_log_sys_clk_count + 1 > ClockInterval)
      /\ (ring <=> alarmAt # NoAlarm /\ alarmAt <= logTicks + 1)
      /\ (SYS_CLK_ON(level) <=> level >= 1)
  BY <1>1 DEF Heartbeat, AlarmDue, SYS_CLK_ON, CountTypes
<1>3. /\ "clock" \in LogKinds /\ LevelOf("clock") = 1
      /\ "alarm" \in LogKinds /\ LevelOf("alarm") = 2
  BY DEF LogKinds, LevelOf
<1>4. lines' = lines \o (If(beat, "clock") \o If(ring, "alarm"))  BY DEF PrintLines
<1> HIDE DEF beat, ring
<1>5. lines' = s \o If(ring, "alarm")
  <2>1. If(beat, "clock") \in Seq(LogKinds) /\ If(ring, "alarm") \in Seq(LogKinds)
        /\ lines \in Seq(LogKinds)
    BY <1>1, <1>2, <1>3, PrintedOne DEF CountTypes
  <2> DEFINE b == If(beat, "clock")
             r == If(ring, "alarm")
  <2>2. b \in Seq(LogKinds) /\ r \in Seq(LogKinds) /\ lines \in Seq(LogKinds)
        /\ lines' = lines \o (b \o r) /\ s = lines \o b
    BY <1>4, <2>1
  <2> HIDE DEF b, r, s
  <2>3. (lines \o b) \o r = lines \o (b \o r)  BY <2>2, ConcatAssociative
  <2>4. lines' = s \o r  BY <2>2, <2>3
  <2> QED BY <2>4 DEF r
<1>6. /\ s \in Seq(LogKinds)
      /\ \A kind : CountIn(s, kind) = CountIn(lines, kind) + (IF beat /\ "clock" = kind THEN 1 ELSE 0)
      /\ \A n \in DOMAIN s : (n \in DOMAIN lines /\ s[n] = lines[n]) \/ (beat /\ s[n] = "clock")
  BY <1>1, <1>2, <1>3, CountPrinted DEF CountTypes
<1> HIDE DEF s
<1>7. /\ lines' \in Seq(LogKinds)
      /\ \A kind : CountIn(lines', kind) = CountIn(s, kind) + (IF ring /\ "alarm" = kind THEN 1 ELSE 0)
      /\ \A n \in DOMAIN lines' : (n \in DOMAIN s /\ lines'[n] = s[n]) \/ (ring /\ lines'[n] = "alarm")
  <2>1. s \in Seq(LogKinds) /\ "alarm" \in LogKinds /\ ring \in BOOLEAN  BY <1>2, <1>3, <1>6
  <2>2. /\ s \o If(ring, "alarm") \in Seq(LogKinds)
        /\ \A kind : CountIn(s \o If(ring, "alarm"), kind)
                       = CountIn(s, kind) + (IF ring /\ "alarm" = kind THEN 1 ELSE 0)
        /\ \A n \in DOMAIN (s \o If(ring, "alarm")) :
             \/ n \in DOMAIN s /\ (s \o If(ring, "alarm"))[n] = s[n]
             \/ ring /\ (s \o If(ring, "alarm"))[n] = "alarm"
    BY <2>1, CountPrinted
  <2> QED BY <1>5, <2>2
<1>8. /\ Count("startup")' = Count("startup") /\ Count("boot")' = Count("boot")
      /\ Count("clock")' = Count("clock") + (IF beat THEN 1 ELSE 0)
      /\ Count("alarm")' = m + (IF ring THEN 1 ELSE 0)
  <2>1. \A kind : Count(kind) = CountIn(lines, kind) /\ Count(kind)' = CountIn(lines', kind)
                  /\ Count(kind) \in Nat
    BY <1>1, CountsAre DEF Count, CountIn
  <2> QED BY <1>6, <1>7, <2>1
<1>9. m \in Nat  BY <1>1, CountsAre
<1>10. LinesByLevel'
  <2>1. ring => level >= 2  BY <1>2 DEF LogCounted
  <2>2. beat => level >= 1  BY <1>2
  <2> QED BY <1>1, <1>3, <1>6, <1>7, <2>1, <2>2 DEF LinesByLevel
<1> HIDE DEF m
<1>11. /\ alt_log_sys_clk_count' \in Nat /\ alt_log_sys_clk_count' <= ClockInterval
       /\ alt_system_clock_in_sec' \in Nat
       /\ alt_system_clock_in_sec' = alt_system_clock_in_sec + (IF beat THEN 1 ELSE 0)
       /\ alt_log_sys_clk_count' = IF beat THEN 0 ELSE alt_log_sys_clk_count
                                                       + (IF level >= 1 THEN 1 ELSE 0)
  <2>1. alt_log_sys_clk_count \in Nat /\ alt_system_clock_in_sec \in Nat
        /\ alt_log_sys_clk_count <= ClockInterval
    BY DEF LogCounted, CountTypes
  <2>2. CASE beat  BY <1>2, <2>1, <2>2, LogSizes DEF beat
  <2>3. CASE ~beat
    <3>1. alt_system_clock_in_sec' = alt_system_clock_in_sec
          /\ alt_log_sys_clk_count' = alt_log_sys_clk_count + (IF level >= 1 THEN 1 ELSE 0)
      BY <1>2, <2>3 DEF beat
    <3>2. level >= 1 => alt_log_sys_clk_count + 1 <= ClockInterval  BY <1>2, <2>1, <2>3, LogSizes
    <3> QED BY <2>1, <2>3, <3>1, <3>2, LogSizes
  <2> QED BY <2>2, <2>3
<1>12. level' = level /\ logTicks' = logTicks + 1 /\ stage' = stage /\ alarmSince' = alarmSince
  OBVIOUS
<1>13. alarmAt' = IF ring THEN alarmAt + JtagTicks ELSE alarmAt  BY DEF ring
<1>14. CountTypes'
  <2>1. alarmAt' \in Int  BY <1>1, <1>13, LogSizes DEF CountTypes
  <2> QED BY <1>1, <1>7, <1>11, <1>12, <2>1 DEF CountTypes
<1>15. level' >= 1 =>
         logTicks' = alt_system_clock_in_sec' * (ClockInterval + 1) + alt_log_sys_clk_count'
  <2> SUFFICES ASSUME level >= 1
               PROVE  logTicks + 1 = alt_system_clock_in_sec' * (ClockInterval + 1)
                                     + alt_log_sys_clk_count'
    BY <1>12
  <2> DEFINE i == ClockInterval + 1
             n == alt_system_clock_in_sec
             c == alt_log_sys_clk_count
  <2>1. /\ i \in Nat /\ n \in Nat /\ c \in Nat /\ c < i /\ logTicks \in Nat
        /\ logTicks = n * i + c
        /\ n' = (IF beat THEN n + 1 ELSE n) /\ c' = (IF beat THEN 0 ELSE c + 1)
        /\ (beat <=> c + 1 >= i)
    BY <1>1, <1>2, <1>11, LogSizes DEF LogCounted, CountTypes
  <2>2. n * i \in Nat /\ (n + 1) * i = n * i + i  BY <2>1, Products
  <2>3. logTicks + 1 = n' * i + c'
    <3> HIDE DEF i, n, c
    <3>1. CASE beat
      <4>1. c + 1 = i /\ n' * i = n * i + i  BY <2>1, <2>2, <3>1
      <4> QED BY <2>1, <2>2, <3>1, <4>1
    <3>2. CASE ~beat  BY <2>1, <2>2, <3>2
    <3> QED BY <3>1, <3>2
  <2> QED BY <2>3
<1>16. IF alarmAt' = NoAlarm THEN alarmSince' = NoAlarm /\ Count("alarm")' = 0
       ELSE /\ level' >= 2 /\ alarmSince' \in Nat /\ alarmSince' <= logTicks'
            /\ alarmAt' = alarmSince' + 1 + Count("alarm")' * JtagTicks + JtagTicks
            /\ logTicks' < alarmAt'
            /\ Count("alarm")' > 0 => alarmAt' <= logTicks' + JtagTicks
  <2>1. CASE alarmAt = NoAlarm
    <3>1. ~ring  BY <1>2, <2>1
    <3>2. Count("alarm")' = m  BY <1>8, <1>9, <3>1
    <3> QED BY <1>12, <1>13, <2>1, <3>1, <3>2 DEF LogCounted, m
  <2>2. CASE alarmAt # NoAlarm
    <3>1. /\ level >= 2 /\ alarmSince \in Nat /\ alarmSince <= logTicks /\ logTicks \in Nat
          /\ alarmAt = alarmSince + 1 + m * JtagTicks + JtagTicks /\ logTicks < alarmAt
          /\ m > 0 => alarmAt <= logTicks + JtagTicks
      BY <2>2 DEF LogCounted, CountTypes, m
    <3>2. m * JtagTicks \in Nat /\ (m + 1) * JtagTicks = m * JtagTicks + JtagTicks
          /\ JtagTicks \in Nat /\ JtagTicks >= 1
      BY <1>9, LogSizes, Products
    <3>3. CASE ring
      <4>1. alarmAt = logTicks + 1 /\ alarmAt' = alarmAt + JtagTicks /\ Count("alarm")' = m + 1
        BY <1>2, <1>8, <1>13, <3>1, <3>2, <3>3
      <4>2. Count("alarm")' * JtagTicks = m * JtagTicks + JtagTicks  BY <3>2, <4>1
      <4>3. alarmAt' # NoAlarm  BY <3>1, <3>2, <4>1 DEF NoAlarm
      <4> QED BY <1>12, <3>1, <3>2, <4>1, <4>2, <4>3
    <3>4. CASE ~ring
      <4>1. alarmAt > logTicks + 1 /\ alarmAt' = alarmAt /\ Count("alarm")' = m
        BY <1>2, <1>8, <1>9, <1>13, <2>2, <3>1, <3>2, <3>4
      <4> QED BY <1>9, <1>12, <2>2, <3>1, <3>2, <4>1
    <3> QED BY <3>3, <3>4
  <2> QED BY <2>1, <2>2
<1>17. stage \in {"main", "uart", "running"}  OBVIOUS
<1>18. stage' \in {"crt0", "main"} => alarmAt' = NoAlarm
  BY <1>2, <1>12, <1>13 DEF LogCounted
<1>19. /\ Count("boot")' = IF stage' # "crt0" /\ level' >= 0 THEN 1 ELSE 0
       /\ Count("startup")' = IF stage' \in {"uart", "running"} /\ level' >= 1 THEN 1 ELSE 0
       /\ Count("clock")' = alt_system_clock_in_sec'
  BY <1>8, <1>11, <1>12 DEF LogCounted
<1> QED BY <1>10, <1>11, <1>14, <1>15, <1>16, <1>18, <1>19 DEF LogCounted

LEMMA CountedSame ==
  ASSUME LogCounted,
         UNCHANGED <<level, stage, logTicks, alt_log_sys_clk_count, alt_system_clock_in_sec,
                     alarmAt, lines, alarmSince>>
  PROVE  LogCounted'
BY DEF LogCounted, CountTypes, LinesByLevel, Count

---------------------------------------------------------------------------
(* Lines: what the handlers break and leave whole *)

LineTypes ==
  /\ lines \in Seq(LogKinds) /\ printing \in Seq(LineAt) /\ port \in Seq(PortAt)

\* The lines begun: a handler's line is only behind another while nothing of it
\* is out, and what is out of the first one is the last that went out.
Stacked ==
  /\ \A k \in 1 .. Len(printing) :
       /\ printing[k].line >= 1 /\ printing[k].line <= Len(lines)
       /\ printing[k].left >= 1 /\ printing[k].left <= LineLength
       /\ k > 1 /\ InHandler(lines[printing[k].line]) => printing[k].left = LineLength
  /\ \A j, k \in 1 .. Len(printing) : printing[j].line = printing[k].line => j = k
  /\ Len(printing) >= 1 /\ InHandler(lines[printing[1].line]) /\ printing[1].left < LineLength
       => /\ Len(port) >= 1 /\ port[Len(port)].line = printing[1].line
          /\ port[Len(port)].pos = LineLength - printing[1].left

\* The characters that are out.
InTheirOrder ==
  \A i, j \in 1 .. Len(port) :
    port[i].line = port[j].line =>
      /\ (i < j) <=> (port[i].pos < port[j].pos)
      /\ InHandler(lines[port[i].line]) => port[j].pos - port[i].pos = j - i
OfBegunLines ==
  \A i \in 1 .. Len(port) :
    /\ port[i].line >= 1 /\ port[i].line <= Len(lines)
    /\ port[i].pos >= 1 /\ port[i].pos <= LineLength
    /\ \A k \in 1 .. Len(printing) :
         port[i].line = printing[k].line => port[i].pos <= LineLength - printing[k].left
IsOut(n, k) == \E i \in 1 .. Len(port) : port[i].line = n /\ port[i].pos = k
IsLeft(n, k) ==
  \E i \in 1 .. Len(printing) : printing[i].line = n /\ k > LineLength - printing[i].left
AllAccounted == \A n \in 1 .. Len(lines) : \A k \in 1 .. LineLength : IsOut(n, k) \/ IsLeft(n, k)

LinesInv == LineTypes /\ Stacked /\ InTheirOrder /\ OfBegunLines /\ AllAccounted

LEMMA LinesStart ==
  ASSUME NEW levels, PointsInitOf(levels)
  PROVE  LinesInv
<1> USE DEF PointsInitOf
<1>1. LineTypes  BY DEF LineTypes
<1>2. Len(lines) = 0 /\ Len(printing) = 0 /\ Len(port) = 0  OBVIOUS
<1>3. \A i \in 1 .. 0 : FALSE  OBVIOUS
<1> QED BY <1>1, <1>2, <1>3 DEF LinesInv, Stacked, InTheirOrder, OfBegunLines, AllAccounted

LEMMA FirstIs ==
  ASSUME NEW S, NEW s \in Seq(S), Len(s) >= 1
  PROVE  Head(s) = s[1] /\ s # << >> /\ Tail(s) \in Seq(S) /\ Len(Tail(s)) = Len(s) - 1
         /\ \A i \in 1 .. Len(s) - 1 : Tail(s)[i] = s[i + 1]
<1>1. s # << >>  OBVIOUS
<1> QED BY <1>1, HeadTailProperties

\* What is printed comes before what is being printed.
LEMMA PushKeeps ==
  ASSUME LinesInv, NEW kinds \in Seq(LogKinds), HandlersMayRun, PrintLines(kinds), port' = port
  PROVE  LinesInv'
<1> DEFINE d == Len(kinds)
           p == Len(printing)
           n0 == Len(lines)
           new == [k \in DOMAIN kinds |-> [line |-> Len(lines) + k, left |-> LineLength]]
<1>1. /\ lines \in Seq(LogKinds) /\ printing \in Seq(LineAt) /\ port \in Seq(PortAt)
      /\ d \in Nat /\ p \in Nat /\ n0 \in Nat
  BY LenProperties DEF LinesInv, LineTypes
<1>2. new \in Seq(LineAt) /\ Len(new) = d /\ \A k \in 1 .. d : new[k] = [line |-> n0 + k, left |-> LineLength]
  <2>1. DOMAIN kinds = 1 .. d  BY LenProperties
  <2>2. \A k \in 1 .. d : [line |-> n0 + k, left |-> LineLength] \in LineAt
    BY <1>1, LogSizes DEF LineAt
  <2>3. new = [k \in 1 .. d |-> [line |-> n0 + k, left |-> LineLength]]  BY <2>1
  <2>4. new \in [1 .. d -> LineAt]  BY <2>2, <2>3
  <2> QED BY <1>1, <2>3, <2>4, SeqDef, LenProperties
<1>3. printing' = new \o printing /\ lines' = lines \o kinds  BY DEF PrintLines
<1> HIDE DEF new
<1>4. /\ printing' \in Seq(LineAt) /\ Len(printing') = d + p
      /\ \A k \in Nat : 1 <= k /\ k <= d => printing'[k] = [line |-> n0 + k, left |-> LineLength]
      /\ \A k \in Nat : 1 <= k /\ k <= p => printing'[k + d] = printing[k]
  <2>1. /\ new \o printing \in Seq(LineAt) /\ Len(new \o printing) = Len(new) + Len(printing)
        /\ \A n \in Nat : 1 <= n /\ n <= Len(new) => (new \o printing)[n] = new[n]
        /\ \A n \in Nat : 1 <= n /\ n <= Len(printing) => (new \o printing)[n + Len(new)] = printing[n]
    <3>1. new \in Seq(LineAt) /\ printing \in Seq(LineAt)  BY <1>1, <1>2
    <3> QED BY <3>1, Joined
  <2> QED BY <1>2, <1>3, <2>1
<1>5. /\ lines' \in Seq(LogKinds) /\ Len(lines') = n0 + d
      /\ \A k \in Nat : 1 <= k /\ k <= n0 => lines'[k] = lines[k]
  <2>1. /\ lines \o kinds \in Seq(LogKinds) /\ Len(lines \o kinds) = Len(lines) + Len(kinds)
        /\ \A n \in Nat : 1 <= n /\ n <= Len(lines) => (lines \o kinds)[n] = lines[n]
    BY <1>1, Joined
  <2> QED BY <1>3, <2>1
<1> HIDE DEF d, n0, p
<1>6. ASSUME NEW k \in 1 .. Len(printing')
      PROVE  \/ k <= d /\ printing'[k].line = n0 + k /\ printing'[k].left = LineLength
             \/ k > d /\ k - d \in 1 .. Len(printing) /\ printing'[k] = printing[k - d]
  <2>1. CASE k <= d
    <3>1. k \in Nat /\ 1 <= k  OBVIOUS
    <3>2. printing'[k] = [line |-> n0 + k, left |-> LineLength]  BY <1>4, <2>1, <3>1
    <3> QED BY <2>1, <3>2
  <2>2. CASE ~(k <= d)
    <3>1. k - d \in Nat /\ 1 <= k - d /\ k - d <= p /\ (k - d) + d = k  BY <1>1, <1>4, <2>2
    <3>2. printing'[k] = printing[k - d]  BY <1>4, <3>1
    <3> QED BY <1>1, <2>2, <3>1, <3>2 DEF p
  <2> QED BY <2>1, <2>2
<1>7. ASSUME NEW k \in 1 .. Len(printing)
      PROVE  /\ printing[k].line \in Nat /\ printing[k].line >= 1 /\ printing[k].line <= n0
             /\ printing[k].left \in Nat /\ lines'[printing[k].line] = lines[printing[k].line]
  <2>1. printing[k] \in LineAt  BY <1>1, ElementOfSeq
  <2>2. printing[k].line \in Nat /\ printing[k].left \in Nat  BY <2>1 DEF LineAt
  <2>3. printing[k].line >= 1 /\ printing[k].line <= n0  BY DEF LinesInv, Stacked, n0
  <2> QED BY <1>5, <2>2, <2>3
<1>8. d > 0 => ~(Len(printing) >= 1 /\ InHandler(lines[printing[1].line]))
  BY <1>1, FirstIs DEF HandlersMayRun
<1>9. Stacked'
  <2>1. ASSUME NEW k \in 1 .. Len(printing')
        PROVE  /\ printing'[k].line >= 1 /\ printing'[k].line <= Len(lines')
               /\ printing'[k].left >= 1 /\ printing'[k].left <= LineLength
               /\ k > 1 /\ InHandler(lines'[printing'[k].line]) => printing'[k].left = LineLength
    <3>1. CASE k <= d  BY <1>1, <1>5, <1>6, <3>1, LogSizes
    <3>2. CASE k > d
      <4> DEFINE l == k - d
      <4>1. l \in 1 .. Len(printing) /\ printing'[k] = printing[l]  BY <1>1, <1>6, <3>2
      <4>2. /\ printing[l].line \in Nat /\ printing[l].line >= 1 /\ printing[l].line <= n0
            /\ lines'[printing[l].line] = lines[printing[l].line]
        BY <1>7, <4>1
      <4>3. /\ printing[l].left >= 1 /\ printing[l].left <= LineLength
            /\ l > 1 /\ InHandler(lines[printing[l].line]) => printing[l].left = LineLength
        BY <4>1 DEF LinesInv, Stacked
      <4>4. l = 1 /\ k > 1 => ~InHandler(lines[printing[l].line])
        <5>1. l = 1 /\ k > 1 => d > 0 /\ Len(printing) >= 1  BY <1>1, <4>1
        <5> QED BY <1>8, <5>1
      <4>5. l = 1 \/ l > 1  BY <4>1
      <4> HIDE DEF l
      <4> QED BY <1>1, <1>5, <4>1, <4>2, <4>3, <4>4, <4>5
    <3> QED BY <1>1, <3>1, <3>2
  <2>2. ASSUME NEW j \in 1 .. Len(printing'), NEW k \in 1 .. Len(printing'),
               printing'[j].line = printing'[k].line
        PROVE  j = k
    <3>1. CASE j <= d /\ k <= d  BY <1>1, <1>6, <2>2, <3>1
    <3>2. CASE j <= d /\ k > d
      <4>1. printing'[j].line > n0  BY <1>1, <1>6, <3>2
      <4>2. k - d \in 1 .. Len(printing) /\ printing'[k] = printing[k - d]  BY <1>1, <1>6, <3>2
      <4>3. printing'[k].line \in Nat /\ printing'[k].line <= n0  BY <1>7, <4>2
      <4> QED BY <1>1, <2>2, <4>1, <4>3
    <3>3. CASE j > d /\ k <= d
      <4>1. printing'[k].line > n0  BY <1>1, <1>6, <3>3
      <4>2. j - d \in 1 .. Len(printing) /\ printing'[j] = printing[j - d]  BY <1>1, <1>6, <3>3
      <4>3. printing'[j].line \in Nat /\ printing'[j].line <= n0  BY <1>7, <4>2
      <4> QED BY <1>1, <2>2, <4>1, <4>3
    <3>4. CASE j > d /\ k > d
      <4>1. j - d \in 1 .. Len(printing) /\ k - d \in 1 .. Len(printing)
            /\ printing[j - d].line = printing[k - d].line
        BY <1>1, <1>6, <2>2, <3>4
      <4>2. j - d = k - d  BY <4>1 DEF LinesInv, Stacked
      <4> QED BY <1>1, <4>2
    <3> QED BY <1>1, <3>1, <3>2, <3>3, <3>4
  <2>3. Len(printing') >= 1 /\ InHandler(lines'[printing'[1].line]) /\ printing'[1].left < LineLength
          => /\ Len(port') >= 1 /\ port'[Len(port')].line = printing'[1].line
             /\ port'[Len(port')].pos = LineLength - printing'[1].left
    <3> SUFFICES ASSUME Len(printing') >= 1, InHandler(lines'[printing'[1].line]),
                        printing'[1].left < LineLength
                 PROVE  /\ Len(port) >= 1 /\ port[Len(port)].line = printing'[1].line
                        /\ port[Len(port)].pos = LineLength - printing'[1].left
      OBVIOUS
    <3>1. 1 \in 1 .. Len(printing')  BY <1>1, <1>4
    <3>2. ~(1 <= d)
      <4>1. 1 <= d => printing'[1].left = LineLength  BY <1>1, <1>6, <3>1
      <4> QED BY <4>1, LogSizes
    <3>3. d = 0  BY <1>1, <3>2
    <3>4. 1 \in 1 .. Len(printing) /\ printing'[1] = printing[1]  BY <1>6, <3>1, <3>3
    <3>5. lines'[printing[1].line] = lines[printing[1].line]  BY <1>7, <3>4
    <3>6. Len(printing) >= 1  BY <3>4
    <3> QED BY <3>4, <3>5, <3>6 DEF LinesInv, Stacked
  <2> QED BY <2>1, <2>2, <2>3 DEF Stacked
<1>10. InTheirOrder' /\ OfBegunLines'
  <2>1. ASSUME NEW i \in 1 .. Len(port)
        PROVE  /\ port[i].line \in Nat /\ port[i].line >= 1 /\ port[i].line <= n0 /\ port[i].pos \in Nat
               /\ port[i].pos >= 1 /\ port[i].pos <= LineLength
               /\ lines'[port[i].line] = lines[port[i].line]
    <3>1. port[i] \in PortAt  BY <1>1, ElementOfSeq
    <3>2. port[i].line \in Nat /\ port[i].pos \in Nat  BY <3>1 DEF PortAt
    <3> QED BY <1>5, <3>2 DEF LinesInv, OfBegunLines, n0
  <2>2. InTheirOrder'
    <3>1. \A i \in 1 .. Len(port) : InHandler(lines'[port[i].line]) = InHandler(lines[port[i].line])
      BY <2>1
    <3> QED BY <3>1 DEF LinesInv, InTheirOrder
  <2>3. ASSUME NEW i \in 1 .. Len(port), NEW k \in 1 .. Len(printing'), port[i].line = printing'[k].line
        PROVE  port[i].pos <= LineLength - printing'[k].left
    <3>1. ~(k <= d)  BY <1>1, <1>6, <2>1, <2>3
    <3>2. k - d \in 1 .. Len(printing) /\ printing'[k] = printing[k - d]  BY <1>1, <1>6, <3>1
    <3> QED BY <2>3, <3>2 DEF LinesInv, OfBegunLines
  <2> QED BY <1>1, <1>5, <2>1, <2>2, <2>3 DEF OfBegunLines
<1>11. AllAccounted'
  <2> SUFFICES ASSUME NEW n \in 1 .. Len(lines'), NEW k \in 1 .. LineLength
               PROVE  IsOut(n, k)' \/ IsLeft(n, k)'
    BY DEF AllAccounted
  <2>1. CASE n <= n0
    <3>1. n \in 1 .. Len(lines)  BY <1>1, <2>1 DEF n0
    <3>2. IsOut(n, k) \/ IsLeft(n, k)  BY <3>1 DEF LinesInv, AllAccounted
    <3>3. IsOut(n, k) => IsOut(n, k)'  BY DEF IsOut
    <3>4. IsLeft(n, k) => IsLeft(n, k)'
      <4> SUFFICES ASSUME IsLeft(n, k) PROVE IsLeft(n, k)'  OBVIOUS
      <4>1. PICK i \in 1 .. Len(printing) : printing[i].line = n /\ k > LineLength - printing[i].left
        BY DEF IsLeft
      <4>2. i \in Nat /\ 1 <= i /\ i <= p  BY <1>1 DEF p
      <4>3. i + d \in 1 .. Len(printing')  BY <1>1, <1>4, <4>2
      <4>4. printing'[i + d] = printing[i]  BY <1>4, <4>2
      <4> QED BY <4>1, <4>3, <4>4 DEF IsLeft
    <3> QED BY <3>2, <3>3, <3>4
  <2>2. CASE ~(n <= n0)
    <3> DEFINE i == n - n0
    <3>1. i \in Nat /\ 1 <= i /\ i <= d /\ n0 + i = n  BY <1>1, <1>5, <2>2
    <3> HIDE DEF i
    <3>2. printing'[i] = [line |-> n0 + i, left |-> LineLength]  BY <1>4, <3>1
    <3>3. i \in 1 .. Len(printing')  BY <1>1, <1>4, <3>1
    <3>4. printing'[i].line = n /\ k > LineLength - printing'[i].left  BY <3>1, <3>2, LogSizes
    <3> QED BY <3>3, <3>4 DEF IsLeft
  <2> QED BY <2>1, <2>2
<1> QED BY <1>1, <1>4, <1>5, <1>9, <1>10, <1>11 DEF LinesInv, LineTypes

\* One character of the first line goes out.
LEMMA TxCharKeeps ==
  ASSUME LinesInv, LogTxChar
  PROVE  LinesInv'
<1> DEFINE p == Len(printing)
           now == printing[1]
           l == now.line
           q == Len(port)
           pos0 == LineLength - now.left + 1
           c == [line |-> l, pos |-> pos0]
<1>1. /\ lines \in Seq(LogKinds) /\ printing \in Seq(LineAt) /\ port \in Seq(PortAt)
      /\ p \in Nat /\ q \in Nat /\ lines' = lines
  BY LenProperties DEF LinesInv, LineTypes, LogTxChar
<1>2. p >= 1 /\ Head(printing) = now /\ Tail(printing) \in Seq(LineAt) /\ Len(Tail(printing)) = p - 1
      /\ \A i \in 1 .. p - 1 : Tail(printing)[i] = printing[i + 1]
  <2>1. printing # << >>  BY DEF LogTxChar
  <2>2. p >= 1  BY <1>1, <2>1, EmptySeq
  <2> QED BY <1>1, <2>2, FirstIs
<1>3. now \in LineAt /\ 1 \in 1 .. p  BY <1>1, <1>2, ElementOfSeq
<1>4. /\ l \in Nat /\ now.left \in Nat /\ l >= 1 /\ l <= Len(lines)
      /\ now.left >= 1 /\ now.left <= LineLength
  BY <1>3 DEF LinesInv, Stacked, LineAt
<1>5. pos0 \in Nat /\ pos0 >= 1 /\ pos0 <= LineLength /\ c \in PortAt
  BY <1>4, LogSizes DEF PortAt
<1>6. /\ port' = Append(port, c)
      /\ printing' = (IF now.left = 1 THEN << >> ELSE <<[now EXCEPT !.left = @ - 1]>>) \o Tail(printing)
  BY <1>2 DEF LogTxChar
<1>7. /\ port' \in Seq(PortAt) /\ Len(port') = q + 1 /\ port'[q + 1] = c
      /\ \A i \in 1 .. q : port'[i] = port[i]
  BY <1>1, <1>5, <1>6, AppendProperties
<1>8. c.line = l /\ c.pos = pos0  OBVIOUS
<1>9. ASSUME NEW k \in 1 .. p, k > 1, InHandler(lines[printing[k].line])
      PROVE  printing[k].left = LineLength
  BY <1>9 DEF LinesInv, Stacked
<1>10. \A j, k \in 1 .. p : printing[j].line = printing[k].line => j = k
  BY DEF LinesInv, Stacked
<1>11. ASSUME NEW k \in 1 .. p
       PROVE  /\ printing[k].line \in Nat /\ printing[k].left \in Nat
              /\ printing[k].line >= 1 /\ printing[k].line <= Len(lines)
              /\ printing[k].left >= 1 /\ printing[k].left <= LineLength
  <2>1. printing[k] \in LineAt  BY <1>1, ElementOfSeq
  <2> QED BY <2>1 DEF LineAt, LinesInv, Stacked
<1>12. ASSUME NEW i \in 1 .. q
       PROVE  /\ port[i].line \in Nat /\ port[i].pos \in Nat
              /\ port[i].line >= 1 /\ port[i].line <= Len(lines)
              /\ port[i].pos >= 1 /\ port[i].pos <= LineLength
              /\ \A k \in 1 .. p :
                   port[i].line = printing[k].line => port[i].pos <= LineLength - printing[k].left
  <2>1. port[i] \in PortAt  BY <1>1, ElementOfSeq
  <2> QED BY <2>1 DEF PortAt, LinesInv, OfBegunLines
<1>13. ASSUME NEW i \in 1 .. q, port[i].line = l
       PROVE  port[i].pos < pos0
  <2>1. port[i].pos <= LineLength - now.left  BY <1>3, <1>12, <1>13
  <2> QED BY <1>4, <1>12, <2>1, LogSizes
<1> HIDE DEF c
\* The new character stands in its place among those of its line.
<1>14. ASSUME NEW i \in 1 .. q, port[i].line = l, InHandler(lines[l])
       PROVE  pos0 - port[i].pos = (q + 1) - i
  <2>1. now.left < LineLength  BY <1>4, <1>5, <1>12, <1>13, <1>14, LogSizes
  <2>2. q >= 1 /\ port[q].line = l /\ port[q].pos = LineLength - now.left
    BY <1>2, <1>14, <2>1 DEF LinesInv, Stacked
  <2>3. q \in 1 .. q  BY <1>1, <2>2
  <2>4. port[q].pos - port[i].pos = q - i
    BY <1>14, <2>2, <2>3 DEF LinesInv, InTheirOrder
  <2>5. port[i].pos \in Nat /\ i \in Nat /\ LineLength \in Nat /\ now.left \in Nat
    BY <1>4, <1>12, LogSizes
  <2> DEFINE left == now.left
             pos == port[i].pos
  <2>6. LineLength - left - pos = q - i /\ pos0 = LineLength - left + 1  BY <2>2, <2>4
  <2>7. pos \in Nat /\ i \in Nat /\ LineLength \in Nat /\ left \in Nat /\ q \in Nat  BY <1>1, <2>5
  <2> HIDE DEF left, pos, q, pos0
  <2>8. pos0 - pos = (q + 1) - i  BY <2>6, <2>7
  <2> QED BY <2>8 DEF pos, q
<1> HIDE DEF pos0
<1>15. InTheirOrder'
  <2> SUFFICES ASSUME NEW i \in 1 .. q + 1, NEW j \in 1 .. q + 1, port'[i].line = port'[j].line
               PROVE  /\ (i < j) <=> (port'[i].pos < port'[j].pos)
                      /\ InHandler(lines[port'[i].line]) => port'[j].pos - port'[i].pos = j - i
    BY <1>1, <1>7 DEF InTheirOrder
  <2>0. (i \in 1 .. q \/ i = q + 1) /\ (j \in 1 .. q \/ j = q + 1)  BY <1>1
  <2>1. CASE i \in 1 .. q /\ j \in 1 .. q
    BY <1>7, <2>1 DEF LinesInv, InTheirOrder
  <2>2. CASE i \in 1 .. q /\ j = q + 1
    <3>1. port[i].line = l /\ port'[i] = port[i] /\ port'[j] = c  BY <1>7, <1>8, <2>2
    <3>2. port[i].pos < pos0  BY <1>13, <2>2, <3>1
    <3>3. InHandler(lines[l]) => pos0 - port[i].pos = (q + 1) - i  BY <1>14, <2>2, <3>1
    <3> QED BY <1>1, <1>8, <2>2, <3>1, <3>2, <3>3
  <2>3. CASE i = q + 1 /\ j \in 1 .. q
    <3>1. port[j].line = l /\ port'[j] = port[j] /\ port'[i] = c  BY <1>7, <1>8, <2>3
    <3>2. port[j].pos < pos0  BY <1>13, <2>3, <3>1
    <3>3. InHandler(lines[l]) => pos0 - port[j].pos = (q + 1) - j  BY <1>14, <2>3, <3>1
    <3>4. port[j].pos \in Nat /\ j \in Nat /\ i \in Nat /\ pos0 \in Nat /\ j < i
      BY <1>1, <1>5, <1>12, <2>3
    <3>5. InHandler(lines[l]) => port[j].pos - pos0 = j - i  BY <1>1, <2>3, <3>3, <3>4
    <3> QED BY <1>8, <3>1, <3>2, <3>4, <3>5
  <2>4. CASE i = q + 1 /\ j = q + 1  BY <1>1, <1>5, <1>7, <1>8, <2>4
  <2> QED BY <2>0, <2>1, <2>2, <2>3, <2>4
\* The line goes on.
<1>16. CASE now.left # 1
  <2> DEFINE rest == [now EXCEPT !.left = @ - 1]
  <2>1. rest \in LineAt /\ rest.line = l /\ rest.left = now.left - 1  BY <1>3, <1>4, <1>16 DEF LineAt
  <2>2. printing' = <<rest>> \o Tail(printing)  BY <1>6, <1>16
  <2> HIDE DEF rest
  <2>3. /\ printing' \in Seq(LineAt) /\ Len(printing') = p /\ printing'[1] = rest
        /\ \A k \in Nat : 2 <= k /\ k <= p => printing'[k] = printing[k]
    <3>1. <<rest>> \in Seq(LineAt) /\ Len(<<rest>>) = 1 /\ <<rest>>[1] = rest  BY <2>1
    <3> DEFINE one == <<rest>>
               t == Tail(printing)
    <3>2. one \in Seq(LineAt) /\ t \in Seq(LineAt) /\ Len(one) = 1 /\ one[1] = rest /\ Len(t) = p - 1
          /\ printing' = one \o t
      BY <1>2, <2>2, <3>1
    <3>3. \A i \in 1 .. p - 1 : t[i] = printing[i + 1]  BY <1>2
    <3> HIDE DEF one, t
    <3>4. /\ one \o t \in Seq(LineAt) /\ Len(one \o t) = Len(one) + Len(t)
          /\ \A n \in Nat : 1 <= n /\ n <= Len(one) => (one \o t)[n] = one[n]
          /\ \A n \in Nat : 1 <= n /\ n <= Len(t) => (one \o t)[n + Len(one)] = t[n]
      <4>1. one \in Seq(LineAt) /\ t \in Seq(LineAt)  BY <3>2
      <4> QED BY <4>1, Joined
    <3>5. printing' \in Seq(LineAt) /\ Len(printing') = p /\ printing'[1] = rest
      BY <1>1, <3>2, <3>4
    <3>6. ASSUME NEW k \in Nat, 2 <= k, k <= p PROVE printing'[k] = printing[k]
      <4>1. k - 1 \in Nat /\ 1 <= k - 1 /\ k - 1 <= p - 1 /\ (k - 1) + 1 = k /\ k - 1 \in 1 .. p - 1
        BY <1>1, <3>6
      <4>2. (one \o t)[(k - 1) + 1] = t[k - 1]  BY <3>2, <3>4, <4>1
      <4>3. t[k - 1] = printing[(k - 1) + 1]  BY <3>3, <4>1
      <4> QED BY <3>2, <4>1, <4>2, <4>3
    <3> QED BY <3>5, <3>6
  <2>4. ASSUME NEW k \in 1 .. p
        PROVE  \/ k = 1 /\ printing'[k].line = l /\ printing'[k].left = now.left - 1
               \/ k > 1 /\ printing'[k] = printing[k]
    <3>1. k = 1 \/ (k \in Nat /\ 2 <= k /\ k <= p /\ k > 1)  BY <1>1
    <3> QED BY <2>1, <2>3, <3>1
  <2>5. \A k \in 1 .. p : printing'[k].line = printing[k].line
    <3> TAKE k \in 1 .. p
    <3> QED BY <2>4
  <2>6. Stacked'
    <3>1. ASSUME NEW k \in 1 .. p
          PROVE  /\ printing'[k].line >= 1 /\ printing'[k].line <= Len(lines)
                 /\ printing'[k].left >= 1 /\ printing'[k].left <= LineLength
                 /\ k > 1 /\ InHandler(lines[printing'[k].line]) => printing'[k].left = LineLength
      <4>1. CASE k = 1  BY <1>4, <1>16, <2>4, <4>1, LogSizes
      <4>2. CASE k # 1
        <5>1. k > 1 /\ printing'[k] = printing[k]  BY <2>4, <4>2
        <5> QED BY <1>9, <1>11, <5>1
      <4> QED BY <4>1, <4>2
    <3>2. \A j, k \in 1 .. p : printing'[j].line = printing'[k].line => j = k  BY <1>10, <2>5
    <3>3. Len(port') >= 1 /\ port'[Len(port')].line = printing'[1].line
          /\ port'[Len(port')].pos = LineLength - printing'[1].left
      BY <1>1, <1>4, <1>7, <1>8, <2>1, <2>3, LogSizes DEF pos0
    <3> QED BY <1>1, <2>3, <3>1, <3>2, <3>3 DEF Stacked
  <2>7. OfBegunLines'
    <3>1. ASSUME NEW i \in 1 .. q + 1
          PROVE  /\ port'[i].line >= 1 /\ port'[i].line <= Len(lines)
                 /\ port'[i].pos >= 1 /\ port'[i].pos <= LineLength
                 /\ \A k \in 1 .. p :
                      port'[i].line = printing'[k].line => port'[i].pos <= LineLength - printing'[k].left
      <4>1. CASE i = q + 1
        <5>1. port'[i].line = l /\ port'[i].pos = pos0  BY <1>7, <1>8, <4>1
        <5>2. ASSUME NEW k \in 1 .. p, l = printing'[k].line
              PROVE  pos0 <= LineLength - printing'[k].left
          <6>1. k = 1  BY <1>3, <1>10, <2>5, <5>2
          <6>2. printing'[k].left = now.left - 1  BY <2>4, <6>1
          <6> QED BY <1>4, <6>2, LogSizes DEF pos0
        <5> QED BY <1>4, <1>5, <5>1, <5>2
      <4>2. CASE i # q + 1
        <5>1. i \in 1 .. q /\ port'[i] = port[i]  BY <1>1, <1>7, <4>2
        <5>2. ASSUME NEW k \in 1 .. p, port[i].line = printing'[k].line
              PROVE  port[i].pos <= LineLength - printing'[k].left
          <6>1. port[i].pos <= LineLength - printing[k].left  BY <1>12, <2>5, <5>1, <5>2
          <6>2. printing'[k].left <= printing[k].left /\ printing'[k].left \in Int
            BY <1>4, <1>11, <2>4
          <6> QED BY <1>11, <1>12, <5>1, <6>1, <6>2, LogSizes
        <5> QED BY <1>12, <5>1, <5>2
      <4> QED BY <4>1, <4>2
    <3> QED BY <1>1, <1>7, <2>3, <3>1 DEF OfBegunLines
  <2>8. AllAccounted'
    <3> SUFFICES ASSUME NEW n \in 1 .. Len(lines), NEW k \in 1 .. LineLength
                 PROVE  IsOut(n, k)' \/ IsLeft(n, k)'
      BY <1>1 DEF AllAccounted
    <3>1. CASE n = l /\ k = pos0
      <4>1. q + 1 \in 1 .. Len(port') /\ port'[q + 1].line = n /\ port'[q + 1].pos = k
        BY <1>1, <1>7, <1>8, <3>1
      <4> QED BY <4>1 DEF IsOut
    <3>2. CASE ~(n = l /\ k = pos0)
      <4>1. CASE IsOut(n, k)
        <5>1. PICK i \in 1 .. q : port[i].line = n /\ port[i].pos = k  BY <4>1 DEF IsOut
        <5>2. i \in 1 .. Len(port') /\ port'[i] = port[i]  BY <1>1, <1>7
        <5> QED BY <5>1, <5>2 DEF IsOut
      <4>2. CASE IsLeft(n, k)
        <5>1. PICK i \in 1 .. p : printing[i].line = n /\ k > LineLength - printing[i].left
          BY <4>2 DEF IsLeft
        <5>2. i \in 1 .. Len(printing') /\ printing'[i].line = n  BY <2>3, <2>5, <5>1
        <5>3. k > LineLength - printing'[i].left
          <6>1. CASE i = 1
            <7>1. n = l /\ k # pos0 /\ printing'[i].left = now.left - 1  BY <2>4, <3>2, <5>1, <6>1
            <7>2. k > LineLength - now.left  BY <5>1, <6>1
            <7> QED BY <1>4, <7>1, <7>2, LogSizes DEF pos0
          <6>2. CASE i # 1  BY <2>4, <5>1, <6>2
          <6> QED BY <6>1, <6>2
        <5> QED BY <5>2, <5>3 DEF IsLeft
      <4> QED BY <4>1, <4>2 DEF LinesInv, AllAccounted
    <3> QED BY <3>1, <3>2
  <2> QED BY <1>1, <1>7, <1>15, <2>3, <2>6, <2>7, <2>8 DEF LinesInv, LineTypes
\* The line is done.
<1>17. CASE now.left = 1
  <2>1. printing' = Tail(printing)
    <3>1. printing' = << >> \o Tail(printing)  BY <1>6, <1>17
    <3> QED BY <1>2, <3>1, ConcatEmptySeq
  <2>2. /\ printing' \in Seq(LineAt) /\ Len(printing') = p - 1
        /\ \A k \in 1 .. p - 1 : printing'[k] = printing[k + 1]
    BY <1>2, <2>1
  <2>3. \A k \in 1 .. p - 1 : k + 1 \in 1 .. p /\ k + 1 > 1  BY <1>1
  <2>4. pos0 = LineLength  BY <1>17, LogSizes DEF pos0
  <2>5. Stacked'
    <3>1. ASSUME NEW k \in 1 .. p - 1
          PROVE  /\ printing'[k].line >= 1 /\ printing'[k].line <= Len(lines)
                 /\ printing'[k].left >= 1 /\ printing'[k].left <= LineLength
                 /\ InHandler(lines[printing'[k].line]) => printing'[k].left = LineLength
      BY <1>9, <1>11, <2>2, <2>3
    <3>2. ASSUME NEW j \in 1 .. p - 1, NEW k \in 1 .. p - 1, printing'[j].line = printing'[k].line
          PROVE  j = k
      <4>1. j + 1 = k + 1  BY <1>10, <2>2, <2>3, <3>2
      <4> QED BY <1>1, <4>1
    <3>3. Len(printing') >= 1 /\ InHandler(lines[printing'[1].line]) => ~(printing'[1].left < LineLength)
      <4> SUFFICES ASSUME Len(printing') >= 1, InHandler(lines[printing'[1].line])
                   PROVE  ~(printing'[1].left < LineLength)
        OBVIOUS
      <4>1. 1 \in 1 .. p - 1  BY <1>1, <2>2
      <4> QED BY <3>1, <4>1, LogSizes
    <3> QED BY <1>1, <2>2, <3>1, <3>2, <3>3 DEF Stacked
  <2>6. OfBegunLines'
    <3>1. ASSUME NEW i \in 1 .. q + 1
          PROVE  /\ port'[i].line >= 1 /\ port'[i].line <= Len(lines)
                 /\ port'[i].pos >= 1 /\ port'[i].pos <= LineLength
                 /\ \A k \in 1 .. p - 1 :
                      port'[i].line = printing'[k].line => port'[i].pos <= LineLength - printing'[k].left
      <4>1. CASE i = q + 1
        <5>1. port'[i].line = l /\ port'[i].pos = pos0  BY <1>7, <1>8, <4>1
        <5>2. ASSUME NEW k \in 1 .. p - 1 PROVE printing'[k].line # l
          <6>1. k + 1 \in 1 .. p /\ k + 1 # 1 /\ printing'[k] = printing[k + 1]  BY <1>1, <2>2, <2>3
          <6> QED BY <1>3, <1>10, <6>1
        <5> QED BY <1>4, <1>5, <5>1, <5>2
      <4>2. CASE i # q + 1
        <5>1. i \in 1 .. q /\ port'[i] = port[i]  BY <1>1, <1>7, <4>2
        <5>2. ASSUME NEW k \in 1 .. p - 1, port[i].line = printing'[k].line
              PROVE  port[i].pos <= LineLength - printing'[k].left
          BY <1>12, <2>2, <2>3, <5>1, <5>2
        <5> QED BY <1>12, <5>1, <5>2
      <4> QED BY <4>1, <4>2
    <3> QED BY <1>1, <1>7, <2>2, <3>1 DEF OfBegunLines
  <2>7. AllAccounted'
    <3> SUFFICES ASSUME NEW n \in 1 .. Len(lines), NEW k \in 1 .. LineLength
                 PROVE  IsOut(n, k)' \/ IsLeft(n, k)'
      BY <1>1 DEF AllAccounted
    <3>1. CASE n = l /\ k = pos0
      <4>1. q + 1 \in 1 .. Len(port') /\ port'[q + 1].line = n /\ port'[q + 1].pos = k
        BY <1>1, <1>7, <1>8, <3>1
      <4> QED BY <4>1 DEF IsOut
    <3>2. CASE ~(n = l /\ k = pos0)
      <4>1. CASE IsOut(n, k)
        <5>1. PICK i \in 1 .. q : port[i].line = n /\ port[i].pos = k  BY <4>1 DEF IsOut
        <5>2. i \in 1 .. Len(port') /\ port'[i] = port[i]  BY <1>1, <1>7
        <5> QED BY <5>1, <5>2 DEF IsOut
      <4>2. CASE IsLeft(n, k)
        <5>1. PICK i \in 1 .. p : printing[i].line = n /\ k > LineLength - printing[i].left
          BY <4>2 DEF IsLeft
        <5>2. i # 1
          <6> SUFFICES ASSUME i = 1 PROVE FALSE  OBVIOUS
          <6>1. n = l /\ k > LineLength - 1  BY <1>17, <5>1
          <6>2. k = pos0  BY <2>4, <6>1, LogSizes
          <6> QED BY <3>2, <6>1, <6>2
        <5>3. i - 1 \in 1 .. p - 1 /\ (i - 1) + 1 = i  BY <1>1, <5>2
        <5>4. printing'[i - 1] = printing[i]  BY <2>2, <5>3
        <5>5. i - 1 \in 1 .. Len(printing')  BY <2>2, <5>3
        <5> QED BY <5>1, <5>4, <5>5 DEF IsLeft
      <4> QED BY <4>1, <4>2 DEF LinesInv, AllAccounted
    <3> QED BY <3>1, <3>2
  <2> QED BY <1>1, <1>7, <1>15, <2>2, <2>5, <2>6, <2>7 DEF LinesInv, LineTypes
<1> QED BY <1>16, <1>17

---------------------------------------------------------------------------
(* The log as a whole *)

PointsInv == LogCounted /\ ReportTypes /\ LinesInv

LEMMA PointsBegin ==
  ASSUME NEW levels, levels \subseteq LogLevels \cup {0}, PointsInitOf(levels)
  PROVE  PointsInv
<1>1. ReportTypes  BY LogSizes DEF PointsInitOf, ReportTypes, ReportsRegister
<1> QED BY <1>1, CountedStarts, LinesStart DEF PointsInv

LEMMA LinesSame ==
  ASSUME LinesInv, UNCHANGED <<lines, printing, port>>
  PROVE  LinesInv'
<1>1. lines' = lines /\ printing' = printing /\ port' = port  OBVIOUS
<1>2. LineTypes' /\ Stacked'  BY <1>1 DEF LinesInv, LineTypes, Stacked
<1>3. InTheirOrder' /\ OfBegunLines'  BY <1>1 DEF LinesInv, InTheirOrder, OfBegunLines
<1>4. AllAccounted'
  <2> SUFFICES ASSUME NEW n \in 1 .. Len(lines), NEW k \in 1 .. LineLength
               PROVE  IsOut(n, k)' \/ IsLeft(n, k)'
    BY <1>1 DEF AllAccounted
  <2>1. IsOut(n, k) \/ IsLeft(n, k)  BY DEF LinesInv, AllAccounted
  <2> QED BY <1>1, <2>1 DEF IsOut, IsLeft
<1> QED BY <1>2, <1>3, <1>4 DEF LinesInv

LEMMA ReportSame ==
  ASSUME ReportTypes, report' = report
  PROVE  ReportsRegister'
BY DEF ReportTypes, ReportsRegister

\* A call that prints at most one line.
LEMMA OneLineKeeps ==
  ASSUME LinesInv, NEW k \in LogKinds, NEW flag \in BOOLEAN, HandlersMayRun,
         PrintLines(If(flag, k)), port' = port
  PROVE  LinesInv'
<1>1. lines \in Seq(LogKinds)  BY DEF LinesInv, LineTypes
<1>2. If(flag, k) \in Seq(LogKinds)  BY <1>1, PrintedOne
<1> QED BY <1>2, PushKeeps

LEMMA PointsKeeps == PointsInv /\ [PointsNext]_pointVars => PointsInv'
<1> SUFFICES ASSUME PointsInv, [PointsNext]_pointVars PROVE PointsInv'  OBVIOUS
<1>1. LogCounted /\ ReportTypes /\ LinesInv /\ CountTypes  BY DEF PointsInv, LogCounted
<1>2. /\ BOOT_ON(level) \in BOOLEAN /\ JTAG_UART_STARTUP_INFO_ON(level) \in BOOLEAN
      /\ WRITE_ON(level) \in BOOLEAN /\ JTAG_UART_ISR_ON(level) \in BOOLEAN
  BY DEF BOOT_ON, JTAG_UART_STARTUP_INFO_ON, WRITE_ON, JTAG_UART_ISR_ON
<1>3. ProgramRuns => HandlersMayRun  BY DEF ProgramRuns, HandlersMayRun
<1>4. /\ "boot" \in LogKinds /\ "startup" \in LogKinds /\ "write" \in LogKinds
      /\ "clock" \in LogKinds /\ "alarm" \in LogKinds /\ "isr" \in LogKinds
  BY DEF LogKinds
<1>5. CASE LogBoot
  <2>1. LogCounted'  BY <1>1, <1>5, BootCounted
  <2>2. ReportTypes'  BY <1>1, <1>5, ReportSame DEF LogBoot, ReportTypes
  <2>3. LinesInv'
    <3>1. HandlersMayRun /\ PrintLines(If(BOOT_ON(level), "boot")) /\ port' = port
      BY <1>3, <1>5 DEF LogBoot
    <3> QED BY <1>1, <1>2, <1>4, <3>1, OneLineKeeps
  <2> QED BY <2>1, <2>2, <2>3 DEF PointsInv
<1>6. CASE LogUartInit
  <2>1. LogCounted'  BY <1>1, <1>6, UartCounted
  <2>2. ReportTypes'
    <3>1. Reports(JTAG_UART_STARTUP_INFO_ON(level)) /\ inFifo' = inFifo  BY <1>6 DEF LogUartInit
    <3>2. ReportsRegister'  BY <1>1, <1>2, <3>1, ReportTrue
    <3> QED BY <1>1, <3>1, <3>2 DEF ReportTypes
  <2>3. LinesInv'
    <3>1. /\ HandlersMayRun /\ PrintLines(If(JTAG_UART_STARTUP_INFO_ON(level), "startup"))
          /\ port' = port
      BY <1>3, <1>6 DEF LogUartInit
    <3> QED BY <1>1, <1>2, <1>4, <3>1, OneLineKeeps
  <2> QED BY <2>1, <2>2, <2>3 DEF PointsInv
<1>7. CASE LogEcho
  <2>1. LogCounted'  BY <1>1, <1>7, EchoCounted
  <2>2. ReportTypes'  BY <1>1, <1>7, ReportSame DEF LogEcho, ReportTypes
  <2>3. LinesInv'
    <3>1. HandlersMayRun /\ PrintLines(If(WRITE_ON(level), "write")) /\ port' = port
      BY <1>3, <1>7 DEF LogEcho
    <3> QED BY <1>1, <1>2, <1>4, <3>1, OneLineKeeps
  <2> QED BY <2>1, <2>2, <2>3 DEF PointsInv
<1>8. CASE LogTick
  <2>1. LogCounted'  BY <1>1, <1>8, TickCounted
  <2>2. Heartbeat \in BOOLEAN /\ AlarmDue \in BOOLEAN  BY DEF Heartbeat, AlarmDue, SYS_CLK_ON
  <2>3. ReportTypes'
    <3>1. Reports(AlarmDue) /\ inFifo' = inFifo  BY <1>8 DEF LogTick
    <3>2. ReportsRegister'  BY <1>1, <2>2, <3>1, ReportTrue
    <3> QED BY <1>1, <3>1, <3>2 DEF ReportTypes
  <2>4. LinesInv'
    <3>1. /\ HandlersMayRun /\ PrintLines(If(Heartbeat, "clock") \o If(AlarmDue, "alarm"))
          /\ port' = port
      BY <1>8 DEF LogTick
    <3>2. lines \in Seq(LogKinds)  BY <1>1 DEF LinesInv, LineTypes
    <3>3. If(Heartbeat, "clock") \o If(AlarmDue, "alarm") \in Seq(LogKinds)
      BY <1>4, <2>2, <3>2, PrintedTwo
    <3> QED BY <1>1, <3>1, <3>3, PushKeeps
  <2> QED BY <2>1, <2>3, <2>4 DEF PointsInv
<1>9. CASE LogUartIrq
  <2>1. LogCounted'  BY <1>1, <1>9, IrqCounted
  <2>2. ReportTypes'
    <3>1. Reports(JTAG_UART_ISR_ON(level)) /\ inFifo' = inFifo  BY <1>9 DEF LogUartIrq
    <3>2. ReportsRegister'  BY <1>1, <1>2, <3>1, ReportTrue
    <3> QED BY <1>1, <3>1, <3>2 DEF ReportTypes
  <2>3. LinesInv'
    <3>1. HandlersMayRun /\ PrintLines(If(JTAG_UART_ISR_ON(level), "isr")) /\ port' = port
      BY <1>9 DEF LogUartIrq
    <3> QED BY <1>1, <1>2, <1>4, <3>1, OneLineKeeps
  <2> QED BY <2>1, <2>2, <2>3 DEF PointsInv
<1>10. CASE LogTxChar
  <2>1. LogCounted'  BY <1>1, <1>10, CountedSame DEF LogTxChar
  <2>2. ReportTypes'
    <3>1. ReportsRegister'  BY <1>1, <1>10, ReportSame DEF LogTxChar
    <3>2. inFifo' = inFifo + 1 /\ inFifo < PortDepth  BY <1>10 DEF LogTxChar
    <3> QED BY <1>1, <3>1, <3>2, LogSizes DEF ReportTypes
  <2>3. LinesInv'  BY <1>1, <1>10, TxCharKeeps
  <2> QED BY <2>1, <2>2, <2>3 DEF PointsInv
<1>11. CASE HostTakes
  <2>1. LogCounted'  BY <1>1, <1>11, CountedSame DEF HostTakes
  <2>2. ReportTypes'
    <3>1. ReportsRegister'  BY <1>1, <1>11, ReportSame DEF HostTakes
    <3>2. inFifo' = inFifo - 1 /\ inFifo > 0  BY <1>11 DEF HostTakes
    <3> QED BY <1>1, <3>1, <3>2, LogSizes DEF ReportTypes
  <2>3. LinesInv'  BY <1>1, <1>11, LinesSame DEF HostTakes
  <2> QED BY <2>1, <2>2, <2>3 DEF PointsInv
<1>12. CASE UNCHANGED pointVars
  <2>1. LogCounted'  BY <1>1, <1>12, CountedSame DEF pointVars
  <2>2. ReportTypes'  BY <1>1, <1>12, ReportSame DEF pointVars, ReportTypes
  <2>3. LinesInv'  BY <1>1, <1>12, LinesSame DEF pointVars
  <2> QED BY <2>1, <2>2, <2>3 DEF PointsInv
<1> QED BY <1>5, <1>6, <1>7, <1>8, <1>9, <1>10, <1>11, <1>12 DEF PointsNext

LEMMA PointsHold ==
  PointsInv => LoggedByLevel /\ HeartbeatsCounted /\ LogLinesWhole /\ ReportsRegister
<1> SUFFICES ASSUME PointsInv
             PROVE  LoggedByLevel /\ HeartbeatsCounted /\ LogLinesWhole /\ ReportsRegister
  OBVIOUS
<1>1. LogCounted /\ ReportTypes /\ LinesInv  BY DEF PointsInv
<1>2. /\ lines \in Seq(LogKinds) /\ printing \in Seq(LineAt) /\ port \in Seq(PortAt)
      /\ DOMAIN lines = 1 .. Len(lines) /\ DOMAIN port = 1 .. Len(port)
      /\ DOMAIN printing = 1 .. Len(printing)
  BY <1>1, LenProperties DEF LinesInv, LineTypes
<1>3. LogLinesWhole
  <2>1. ASSUME NEW i \in DOMAIN port, NEW j \in DOMAIN port, port[i].line = port[j].line
        PROVE  /\ (i < j) <=> (port[i].pos < port[j].pos)
               /\ InHandler(lines[port[i].line]) => port[j].pos - port[i].pos = j - i
    BY <1>1, <1>2, <2>1 DEF LinesInv, InTheirOrder
  <2>2. ASSUME NEW n \in DOMAIN lines, NEW k \in 1 .. LineLength
        PROVE  \/ \E i \in DOMAIN port : port[i] = [line |-> n, pos |-> k]
               \/ \E i \in DOMAIN printing : printing[i].line = n /\ k > LineLength - printing[i].left
    <3>1. IsOut(n, k) \/ IsLeft(n, k)  BY <1>1, <1>2 DEF LinesInv, AllAccounted
    <3>2. CASE IsOut(n, k)
      <4>1. PICK i \in 1 .. Len(port) : port[i].line = n /\ port[i].pos = k  BY <3>2 DEF IsOut
      <4>2. port[i] \in PortAt  BY <1>2, ElementOfSeq
      <4>3. port[i] = [line |-> n, pos |-> k]  BY <4>1, <4>2 DEF PortAt
      <4> QED BY <1>2, <4>3
    <3>3. CASE IsLeft(n, k)  BY <1>2, <3>3 DEF IsLeft
    <3> QED BY <3>1, <3>2, <3>3
  <2> QED BY <2>1, <2>2 DEF LogLinesWhole
<1> QED BY <1>1, <1>3, CountedHolds DEF ReportTypes

---------------------------------------------------------------------------
(* The parts together *)

LEMMA HalStep ==
  ASSUME [PartsNext]_<<part, calculated, peripherals, hal, processor, utilities>>
  PROVE  /\ [CacheNext]_cacheVars /\ [StartNext]_startVars
         /\ [AlarmsNext]_alarmVars /\ [TodNext]_todVars /\ [DelayNext]_delayVars
         /\ [PointsNext]_pointVars
BY DEF PartsNext, calculated, peripherals, ports, hal, processor, utilities

LEMMA HalStart == PartsInit => CacheInv /\ StartInv /\ AlarmInv /\ TodInv /\ DelayInv
BY CacheStarts, StartStarts, AlarmStarts, TodStarts, DelayStarts DEF PartsInit

LEMMA LogStart == PartsInit => PointsInv
<1> SUFFICES ASSUME PartsInit PROVE PointsInv  OBVIOUS
<1>1. PointsInitOf(LogLevels) \/ PointsInitOf({0})
  BY DEF PartsInit, Starts, PointsInit, PointsIdle
<1> QED BY <1>1, PointsBegin

\* Processor, devices and memory agree where they must: after flushes, for
\* uncached memory, and when main begins (alt_dcache_flush.c,
\* alt_remap_uncached.c, alt_load.c, alt_main.c).
THEOREM MemoryAsMeantAlways == PartsSpec => []MemoryAsMeant
<1>1. PartsInit => CacheInv /\ StartInv  BY HalStart
<1>2. CacheInv /\ StartInv /\ [PartsNext]_<<part, calculated, peripherals, hal, processor, utilities>>
        => (CacheInv /\ StartInv)'
  BY HalStep, CacheKeeps, StartKeeps
<1>3. CacheInv /\ StartInv => MemoryAsMeant
  BY StartHolds DEF CacheInv, MemoryAsMeant
<1> QED BY <1>1, <1>2, <1>3, PTL DEF PartsSpec

\* Alarms go off when they should, once, over the wrap of the counter, the list
\* is whole also while a callback takes its alarm out, times asked for are the
\* times waited and told, and the timestamp does not go back (alt_tick.c,
\* alt_alarm_start.c, alt_gettod.c, alt_busy_sleep.c, altera_avalon_timer_ts.c).
THEOREM TimesKeptAlways == PartsSpec => TimesKept
<1> DEFINE TimeInv == AlarmInv /\ TodInv /\ DelayInv
<1>1. PartsInit => TimeInv  BY HalStart
<1>2. TimeInv /\ [PartsNext]_<<part, calculated, peripherals, hal, processor, utilities>> => TimeInv'
  BY HalStep, AlarmKeeps, TodKeeps, DelayKeeps
<1>3. TimeInv => OnTime /\ ListWhole /\ TimeKept /\ SleepsAsAsked
  BY AlarmHolds, TodHolds, DelayHolds
<1>4. TimeInv /\ [PartsNext]_<<part, calculated, peripherals, hal, processor, utilities>>
        => [~ran /\ stamp' # stamp => stamp' > stamp \/ stamp' = 0]_delayVars
  BY HalStep, StampsForward
<1> HIDE DEF TimeInv
<1> QED BY <1>1, <1>2, <1>3, <1>4, PTL DEF PartsSpec, TimesKept, NeverBack

\* The log says what the levels ask for, at its times, of what is there, and
\* its lines come out whole but for those of the program that handlers break
\* (alt_log_printf.h, alt_log_printf.c).
THEOREM LogTellsAlways == PartsSpec => []LogTells
<1>1. PartsInit => PointsInv  BY LogStart
<1>2. PointsInv /\ [PartsNext]_<<part, calculated, peripherals, hal, processor, utilities>>
        => PointsInv'
  BY HalStep, PointsKeeps
<1>3. PointsInv => LogTells  BY PointsHold DEF LogTells
<1> QED BY <1>1, <1>2, <1>3, PTL DEF PartsSpec
=============================================================================
