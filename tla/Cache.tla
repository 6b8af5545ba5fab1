------------------------------- MODULE Cache -------------------------------
(***************************************************************************)
(* The processor's two caches and the calls that keep them in step with    *)
(* memory: alt_dcache_flush, alt_dcache_flush_no_writeback,                *)
(* alt_dcache_flush_all, alt_icache_flush, alt_icache_flush_all, and the   *)
(* uncached memory of alt_uncached_malloc and alt_remap_uncached, which    *)
(* main uses for the buffer it draws in.                                   *)
(*                                                                         *)
(* Both caches are direct mapped, the data cache writes back.              *)
(***************************************************************************)
EXTENDS Integers, FiniteSets

CONSTANTS
  CacheLine,       \* NIOS2_DCACHE_LINE_SIZE and NIOS2_ICACHE_LINE_SIZE
  DataLines,       \* NIOS2_DCACHE_SIZE / CacheLine
  CodeLines,       \* NIOS2_ICACHE_SIZE / CacheLine
  MemoryLines,     \* size of the memory, in lines
  Ranges,          \* the ranges the calls are made for
  MaxStores        \* bound on the stores of a behaviour

ASSUME CacheAssumption ==
  /\ CacheLine \in Nat \ {0} /\ DataLines \in Nat \ {0} /\ CodeLines \in Nat \ {0}
  /\ MemoryLines \in Nat \ {0} /\ MaxStores \in Nat
  /\ Ranges \subseteq [start : Nat, len : Nat]
  /\ \A r \in Ranges : r.start + r.len <= MemoryLines * CacheLine

Addresses == 0 .. MemoryLines * CacheLine - 1
LineOf(a) == a \div CacheLine
BytesIn(l) == {a \in Addresses : LineOf(a) = l}
Range0(r) == r.start .. r.start + r.len - 1

VARIABLES
  memory,          \* what each byte holds: the number of the store it is from
  held,            \* lines in the data cache, each with its bytes
  dirty,           \* lines of them that were stored to
  fetched,         \* lines in the instruction cache
  uncached,        \* the block that is used uncached, or NoRange
  buffer,          \* what a device has stored and the program has not looked at, or NoRange
  latest,          \* history: what each byte should be
  stores,          \* stores so far
  done             \* history: the call just made and its range, or NoFlush
cacheVars == <<memory, held, dirty, fetched, uncached, buffer, latest, stores, done>>

NoRange == [start |-> 0, len |-> 0]
NoFlush == [does |-> "none", range |-> NoRange]
CacheInit ==
  /\ memory = [a \in Addresses |-> 0] /\ held = << >> /\ dirty = {} /\ fetched = {}
  /\ uncached = NoRange /\ buffer = NoRange /\ latest = memory /\ stores = 0 /\ done = NoFlush

\* Memory and cache once a set of lines has been written back.
WrittenBack(lines) ==
  [a \in Addresses |-> IF LineOf(a) \in lines \cap dirty THEN held[LineOf(a)][a] ELSE memory[a]]
Without(f, lines) == [l \in DOMAIN f \ lines |-> f[l]]
Rivals(lines, l, size) == {k \in lines : k % size = l % size /\ k # l}

\* A line comes in; the one that was in its place goes.
Load(l) ==
  /\ l \notin DOMAIN held
  /\ LET out == Rivals(DOMAIN held, l, DataLines)
     IN /\ memory' = WrittenBack(out) /\ dirty' = dirty \ out
        /\ held' = [k \in (DOMAIN held \ out) \cup {l} |->
                      IF k = l THEN [a \in BytesIn(l) |-> memory[a]] ELSE held[k]]
  /\ done' = NoFlush
  /\ UNCHANGED <<fetched, uncached, buffer, latest, stores>>
Fetch(l) ==
  /\ l \notin fetched
  /\ fetched' = (fetched \ Rivals(fetched, l, CodeLines)) \cup {l}
  /\ done' = NoFlush
  /\ UNCHANGED <<memory, held, dirty, uncached, buffer, latest, stores>>

\* A store through the cache, to a line that is there, outside the block that
\* is used uncached.
Store(a) ==
  /\ stores < MaxStores /\ stores' = stores + 1
  /\ LineOf(a) \in DOMAIN held /\ a \notin Range0(uncached)
  /\ LineOf(a) \notin {LineOf(b) : b \in Range0(buffer)}
  /\ held' = [held EXCEPT ![LineOf(a)] = [@ EXCEPT ![a] = stores']]
  /\ dirty' = dirty \cup {LineOf(a)}
  /\ latest' = [latest EXCEPT ![a] = stores'] /\ done' = NoFlush
  /\ UNCHANGED <<memory, fetched, uncached, buffer>>

\* A store past the cache: bit 31 of the address is set.
StoreUncached(a) ==
  /\ stores < MaxStores /\ stores' = stores + 1
  /\ a \in Range0(uncached)
  /\ memory' = [memory EXCEPT ![a] = stores']
  /\ latest' = [latest EXCEPT ![a] = stores'] /\ done' = NoFlush
  /\ UNCHANGED <<held, dirty, fetched, uncached, buffer>>

\* A device stores a buffer, which the program leaves alone with all its lines
\* until it looks at it.
DeviceStores(r) ==
  /\ stores < MaxStores /\ stores' = stores + 1
  /\ buffer = NoRange /\ r.len > 0 /\ \A a \in Range0(r) : LineOf(a) \notin dirty
  /\ buffer' = r
  /\ memory' = [a \in Addresses |-> IF a \in Range0(r) THEN stores' ELSE memory[a]]
  /\ latest' = [a \in Addresses |-> IF a \in Range0(r) THEN stores' ELSE latest[a]]
  /\ done' = NoFlush
  /\ UNCHANGED <<held, dirty, fetched, uncached>>

---------------------------------------------------------------------------
(* The calls *)

\* Seeded bug: a range that starts inside a line has no line more.
LinesOfAligned(r) == {LineOf(r.start + k * CacheLine) : k \in {k \in 0 .. r.len : k * CacheLine < r.len}}

\* The lines the loop goes through, one more if the range starts inside one.
LinesOf(r) ==
  LET steps == {k \in 0 .. r.len : k * CacheLine < r.len}
  IN {LineOf(r.start + k * CacheLine) :
        k \in steps \cup (IF r.start % CacheLine # 0 THEN {Cardinality(steps)} ELSE {})}

\* flushda writes a line back and gives it up.
WriteLines(lines) ==
  memory' = WrittenBack(lines) /\ dirty' = dirty \ lines /\ held' = Without(held, lines)

\* alt_dcache_flush.
DcacheFlush(r) ==
  /\ WriteLines(LinesOf(r)) /\ done' = [does |-> "flush", range |-> r]
  /\ UNCHANGED <<fetched, uncached, buffer, latest, stores>>

\* alt_dcache_flush_all flushes by place, whatever line is there.
DcacheFlushAll ==
  /\ WriteLines(DOMAIN held) /\ done' = [does |-> "flush", range |-> [start |-> 0, len |-> Cardinality(Addresses)]]
  /\ UNCHANGED <<fetched, uncached, buffer, latest, stores>>

\* alt_dcache_flush_no_writeback: initda gives a line up, stored to or not; it
\* is called for a buffer that a device has stored, while the lines it goes through, one
\* of which may lie behind the buffer, hold nothing of the program's.
DcacheFlushNoWriteback(r) ==
  /\ buffer = r /\ r.len > 0 /\ LinesOf(r) \cap dirty = {} /\ buffer' = NoRange
  /\ held' = Without(held, LinesOf(r))
  /\ done' = [does |-> "discard", range |-> r]
  /\ UNCHANGED <<memory, dirty, fetched, uncached, latest, stores>>

Trimmed(len) == IF len > CodeLines * CacheLine THEN CodeLines * CacheLine ELSE len

\* alt_icache_flush: flushi goes by place too, so no more than the cache holds
\* is needed.
IcacheFlush(r) ==
  /\ LET places == {l % CodeLines : l \in LinesOf([r EXCEPT !.len = Trimmed(@)])}
     IN fetched' = {l \in fetched : l % CodeLines \notin places}
  /\ done' = [does |-> "icache", range |-> r]
  /\ UNCHANGED <<memory, held, dirty, uncached, buffer, latest, stores>>
IcacheFlushAll == IcacheFlush([start |-> 0, len |-> CodeLines * CacheLine])

WholeOf(r) == r

\* alt_uncached_malloc, and alt_remap_uncached of a block from malloc; the block
\* is not turned back.
RemapUncached(r) ==
  /\ uncached = NoRange /\ r.len > 0 /\ uncached' = r
  /\ WriteLines(LinesOf(WholeOf(r))) /\ done' = NoFlush
  /\ UNCHANGED <<fetched, buffer, latest, stores>>

CacheNext ==
  \/ \E l \in 0 .. MemoryLines - 1 : Load(l) \/ Fetch(l)
  \/ \E a \in Addresses : Store(a) \/ StoreUncached(a)
  \/ \E r \in Ranges :
       \/ DeviceStores(r) \/ DcacheFlush(r) \/ DcacheFlushNoWriteback(r) \/ IcacheFlush(r)
       \/ RemapUncached(r)
  \/ DcacheFlushAll \/ IcacheFlushAll

---------------------------------------------------------------------------
(* Properties *)

\* After a flush a device finds in memory what the program has stored, at
\* every byte of the range, and the cache has none of them: in whatever line
\* the range starts and ends (alt_dcache_flush.c:78-94).
FlushedInMemory ==
  done.does = "flush" =>
    \A a \in Range0(done.range) \ Range0(uncached) :
      LineOf(a) \notin DOMAIN held /\ memory[a] = latest[a]

\* What the program reads of a device's buffer after it has discarded the
\* range is what the device has stored (alt_dcache_flush_no_writeback.c:69-86).
DeviceIsRead ==
  done.does = "discard" =>
    \A a \in Range0(done.range) \ Range0(uncached) :
      LineOf(a) \notin DOMAIN held /\ memory[a] = latest[a]

\* After its flush nothing of a range is fetched from the cache, also when the
\* range is larger than the cache (alt_icache_flush.c:49-74).
FetchedAnew == done.does = "icache" => \A a \in Range0(done.range) : LineOf(a) \notin fetched

\* A line that is all in uncached memory is never in the cache unless it was
\* only read there, so no write-back undoes an uncached store; a line shared
\* with a neighbour of the block has no such promise (alt_uncached_malloc.c:46).
UncachedKept ==
  \A a \in Range0(uncached) :
    (BytesIn(LineOf(a)) \subseteq Range0(uncached)) => memory[a] = latest[a] /\ LineOf(a) \notin dirty
============================================================================
