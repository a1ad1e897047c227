------------------------------- MODULE FatCache ----------------------------
(***************************************************************************)
(* Entries of the FAT (src/src/fat.c, src/src/fatent_ops.c) and the sector   *)
(* cache a context uses when the FAT is too large to be held in memory.      *)
(*                                                                          *)
(* A FAT12 entry is 12 bits in one and a half bytes, so that two entries     *)
(* share a byte and one of them may lie in two sectors; a sector is          *)
(* FcSectorBytes bytes.  fat12_flush_fat, which every command that changed   *)
(* the FAT calls, writes the FAT from the context's buffer; a context with a *)
(* cache has none, and what it writes is whatever lies at address 0.         *)
(***************************************************************************)
EXTENDS Integers, Sequences, FiniteSets

CONSTANTS
  FcSectors,      \* sectors of the FAT, 0 .. n
  FcSectorBytes,  \* bytes of a sector
  FcClusters,     \* clusters whose entries are read and written
  FcValues,       \* values of an entry
  FcSlots,        \* FAT_CACHE_SIZE
  FcFlushes       \* how often a command flushes (bound)

JUNK == 90        \* a byte of what lies at address 0
NoSector == -1    \* 0xFFFFFFFF

VARIABLES
  fcDisk,      \* the FAT on the disk, a function of the byte's position
  fcCache,     \* ctx->cache: sector, data, dirty, access_time
  fcClock,     \* ctx->cache_access_counter
  fcFlushed,   \* flushes so far
  fcSet        \* history: the value last set for each cluster

fcVars == <<fcDisk, fcCache, fcClock, fcFlushed, fcSet>>

FcBytes == 0 .. Cardinality(FcSectors) * FcSectorBytes - 1
SecOf(b) == b \div FcSectorBytes
NoEntry == [sector |-> NoSector, data |-> <<>>, dirty |-> FALSE, time |-> 0]

-----------------------------------------------------------------------------
(* The codec: fat12_get_entry and fat12_set_entry (the same twice more in    *)
(* fatent_ops.c and byte by byte in the cached accessors).                   *)
Offset(c) == c + c \div 2
GetEntry(b0, b1, c) ==
  IF c % 2 = 1 THEN (b0 \div 16) + b1 * 16 ELSE b0 + (b1 % 16) * 256
SetBytes(b0, b1, c, v) ==
  IF c % 2 = 1 THEN <<(b0 % 16) + (v % 16) * 16, v \div 16>>
  ELSE <<v % 256, ((b1 \div 16) * 16) + (v \div 256)>>

FcInit ==
  /\ fcDisk = [b \in FcBytes |-> 0]
  /\ fcCache = [i \in FcSlots |-> NoEntry]
  /\ fcClock = 0
  /\ fcFlushed = 0
  /\ fcSet = [c \in FcClusters |-> 0]

(* fat_cache_evict: the least recently used slot, the first of them, is      *)
(* written back if it is dirty.                                              *)
Victim(cache) ==
  CHOOSE i \in FcSlots : \A j \in FcSlots : /\ cache[i].time <= cache[j].time
                                           /\ cache[i].time = cache[j].time => i <= j
WriteBack(disk, e) ==
  IF e.dirty /\ e.sector # NoSector
    THEN [b \in FcBytes |-> IF SecOf(b) = e.sector THEN e.data[b % FcSectorBytes] ELSE disk[b]]
    ELSE disk
SectorData(disk, s) == [o \in 0 .. FcSectorBytes - 1 |-> disk[s * FcSectorBytes + o]]

(* fat_get_sector: find, else evict and load; m is [disk, cache, clock].     *)
fat_get_sector(m, s, forWrite) ==
  LET hits == {i \in FcSlots : m.cache[i].sector = s}
      hit  == CHOOSE i \in hits : TRUE
      vic  == Victim(m.cache)
      disk == WriteBack(m.disk, m.cache[vic])
  IN  IF hits # {}
        THEN [m EXCEPT !.clock = @ + 1,
                       !.cache[hit].time = m.clock + 1,
                       !.cache[hit].dirty = @ \/ forWrite]
        ELSE [disk |-> disk, clock |-> m.clock + 1,
              cache |-> [m.cache EXCEPT ![vic] =
                           [sector |-> s, data |-> SectorData(disk, s),
                            dirty |-> forWrite, time |-> m.clock + 1]]]

SlotOf(m, s) == CHOOSE i \in FcSlots : m.cache[i].sector = s
ByteIn(m, b) == m.cache[SlotOf(m, SecOf(b))].data[b % FcSectorBytes]
Put(m, b, x) ==
  LET l == fat_get_sector(m, SecOf(b), TRUE)
  IN  [l EXCEPT !.cache[SlotOf(l, SecOf(b))].data[b % FcSectorBytes] = x]

Machine == [disk |-> fcDisk, cache |-> fcCache, clock |-> fcClock]

(* fat12_get_entry_cached: two bytes through the cache.                      *)
Loaded(m, c) == fat_get_sector(m, SecOf(Offset(c)), FALSE)
FcRead(m, c) ==
  LET m1 == Loaded(m, c)
      b0 == ByteIn(m1, Offset(c))
      m2 == fat_get_sector(m1, SecOf(Offset(c) + 1), FALSE)
  IN  [m |-> m2, b0 |-> b0, b1 |-> ByteIn(m2, Offset(c) + 1)]

Become(m) == fcDisk' = m.disk /\ fcCache' = m.cache /\ fcClock' = m.clock

(* Times only matter by their order: the model renumbers them after a step.  *)
Ranked(m) ==
  LET rank(t) == Cardinality({m.cache[i].time : i \in FcSlots} \cap 0 .. t - 1)
  IN  [m EXCEPT !.clock = Cardinality({m.cache[i].time : i \in FcSlots}),
                !.cache = [i \in FcSlots |-> [m.cache[i] EXCEPT !.time = rank(m.cache[i].time)]]]

fat12_get_entry_cached(c) ==
  /\ Become(Ranked(FcRead(Machine, c).m))
  /\ UNCHANGED <<fcFlushed, fcSet>>

(* fat12_set_entry_cached: both bytes are read, changed and put back.        *)
fat12_set_entry_cached(c, v) ==
  LET r == FcRead(Machine, c)
      n == SetBytes(r.b0, r.b1, c, v)
      m == Put(Put(r.m, Offset(c), n[1]), Offset(c) + 1, n[2])
  IN  /\ Become(Ranked(m))
      /\ fcSet' = [fcSet EXCEPT ![c] = v]
      /\ UNCHANGED fcFlushed

(* fat12_deinit, fat12_init: the dirty sectors are written; the next context *)
(* starts with an empty cache.                                               *)
fat12_deinit ==
  LET out(b) == {i \in FcSlots : fcCache[i].dirty /\ fcCache[i].sector = SecOf(b)}
  IN  /\ fcDisk' = [b \in FcBytes |->
                      IF out(b) # {} THEN fcCache[CHOOSE i \in out(b) : TRUE].data[b % FcSectorBytes]
                      ELSE fcDisk[b]]
      /\ fcCache' = [i \in FcSlots |-> NoEntry]
      /\ fcClock' = 0
      /\ UNCHANGED <<fcFlushed, fcSet>>

(* fat12_reload: the cache is emptied, unwritten changes included; it is     *)
(* called when there are none.                                               *)
fat12_reload_cached ==
  /\ \A i \in FcSlots : ~fcCache[i].dirty
  /\ fcCache' = [i \in FcSlots |-> NoEntry]
  /\ UNCHANGED <<fcDisk, fcClock, fcFlushed, fcSet>>

(* fat12_flush_fat of a context that has no buffer. *)
fat12_flush_cached ==
  /\ fcFlushed < FcFlushes
  /\ fcFlushed' = fcFlushed + 1
  /\ fcDisk' = [b \in FcBytes |-> JUNK]
  /\ UNCHANGED <<fcCache, fcClock, fcSet>>

FcNext ==
  \/ \E c \in FcClusters : fat12_get_entry_cached(c)
  \/ \E c \in FcClusters, v \in FcValues : fat12_set_entry_cached(c, v)
  \/ fat12_deinit
  \/ fat12_reload_cached
  \/ fat12_flush_cached

-----------------------------------------------------------------------------
(* What fat12_get_entry_cached would return now. *)
FcGet(c) == LET r == FcRead(Machine, c) IN GetEntry(r.b0, r.b1, c)

(* The FAT in the cache and on the disk are bytes; a sector is cached once.  *)
FcTypeOK ==
  /\ fcDisk \in [FcBytes -> 0 .. 255]
  /\ \A i, j \in FcSlots : fcCache[i].sector # NoSector /\ i # j
                             => fcCache[i].sector # fcCache[j].sector

(* An entry read through the cache is the one last set, however sectors were *)
(* evicted, shared with neighbouring entries or split over two sectors, as   *)
(* long as nobody has called fat12_flush_fat.                                *)
FcReadsWhatWasSet == fcFlushed = 0 => \A c \in FcClusters : FcGet(c) = fcSet[c]

(* "Full FAT buffer (kept for compatibility, can be NULL with cache)"        *)
(* (include/fat.h): also after a flush an entry is the one last set.         *)
FcFlushKeepsFat == \A c \in FcClusters : FcGet(c) = fcSet[c]
=============================================================================
