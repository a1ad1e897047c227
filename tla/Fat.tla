--------------------------------- MODULE Fat -------------------------------
(***************************************************************************)
(* The FAT file system (src/src/fat.c) on a volume whose FAT is small enough *)
(* to be held in memory.  Every command opens its own context, that is it    *)
(* reads the FAT from the disk, changes the copy, and writes data sectors,   *)
(* the directory and at last the FAT and its copy.  The VFS mount keeps one  *)
(* context for its whole life and reloads it (fat12_reload) before each use. *)
(*                                                                          *)
(* A command decides everything in one step and leaves the sector writes it  *)
(* issues in fatQueue; each is a step of its own and the power may fail      *)
(* between any two.  A directory is a sector of slots, the root or one       *)
(* cluster; the content of a data cluster is <<tag of the write, index>>.    *)
(***************************************************************************)
EXTENDS Integers, Sequences, SequencesExt, FiniteSets

CONSTANTS
  FatClusters,    \* cluster numbers, 2 .. n
  FatSplit,       \* the first cluster whose entry is in the second FAT sector
  FatRootSlots,   \* directory entries of the root
  FatDirSlots,    \* directory entries of a cluster
  FatNames,       \* file names: [long, sfn, lfns, fits]: lfns slots for the long name,
                  \* fits when it is the 8.3 name up to case
  FatDirName,     \* the name of the one subdirectory
  FatLengths,     \* lengths of a written file, in clusters
  FatTags,        \* tags telling writes apart
  FatRmdirCwd     \* whether somebody removes the current directory

FREE == 0
EOC  == 4095
ROOT == 0        \* the directory "cluster" of the root

VARIABLES
  vol,        \* the disk: fat, fat2, root, data
  mountFat,   \* the FAT in the memory of the VFS mount's context
  cwd,        \* fat12_cwd_cluster
  fatQueue,   \* sector writes the running command has yet to do
  fatOp,      \* the running command, for the records kept when it ends
  torn,       \* history: kinds of commands a power failure cut
  wrote       \* history: <<directory, sfn>> -> tag and length last written

fatVars == <<vol, mountFat, cwd, fatQueue, fatOp, torn, wrote>>

SlotEnd == [st |-> "end"]
SlotDel == [st |-> "del"]
Sfn(name, dir, first, len) ==
  [st |-> "sfn", name |-> name, dir |-> dir, first |-> first, len |-> len]
Lfn(long, sfn) == [st |-> "lfn", long |-> long, name |-> sfn]
Blank(n) == [i \in 1 .. n |-> SlotEnd]

-----------------------------------------------------------------------------
(* The FAT. *)

(* The clusters of a chain, in order; fat_is_eoc and entries below 2 end it. *)
Chain(fat, start) ==
  LET n == Cardinality(FatClusters)
      hop[i \in 0 .. n] ==
        IF i = 0 THEN start
        ELSE IF hop[i-1] \in FatClusters THEN fat[hop[i-1]] ELSE FREE
  IN  SelectSeq([i \in 1 .. n |-> hop[i-1]], LAMBDA c : c \in FatClusters)
ChainSet(fat, start) == ToSet(Chain(fat, start))

fat12_free_chain(fat, start) ==
  [c \in FatClusters |-> IF c \in ChainSet(fat, start) THEN FREE ELSE fat[c]]

(* fat_find_free_cluster: the lowest free cluster, EOC if there is none. *)
fat_find_free_cluster(fat) ==
  IF \A c \in FatClusters : fat[c] # FREE THEN EOC
  ELSE CHOOSE c \in FatClusters :
         fat[c] = FREE /\ \A d \in FatClusters : d < c => fat[d] # FREE

(* The allocation loop of fat12_write_file_ex: n clusters one by one, each   *)
(* linked to the one before; the clusters it got, in order, and the FAT.     *)
Allocate(fat, n) ==
  LET take[i \in 0 .. n] ==
        IF i = 0 THEN [fat |-> fat, got |-> <<>>]
        ELSE LET s == take[i-1]
                 c == fat_find_free_cluster(s.fat)
             IN  IF c = EOC \/ Len(s.got) < i - 1 THEN s
                 ELSE [fat |-> [x \in FatClusters |->
                                  IF x = c THEN EOC
                                  ELSE IF s.got # <<>> /\ x = Last(s.got) THEN c
                                  ELSE s.fat[x]],
                       got |-> Append(s.got, c)]
  IN  take[n]

-----------------------------------------------------------------------------
(* Directories. *)

Slots(v, d) == IF d = ROOT THEN v.root ELSE v.data[d]

(* The entries before the first unused one: what a search sees. *)
Seen(slots) == {i \in DOMAIN slots : \A j \in 1 .. i : slots[j].st # "end"}
Live(slots) == {i \in Seen(slots) : slots[i].st = "sfn"}

(* fat12_find_in_dir: the first live entry with that 8.3 name, 0 if none. *)
fat12_find_in_dir(slots, sfn) ==
  LET hits == {i \in Live(slots) : slots[i].name = sfn}
  IN  IF hits = {} THEN 0 ELSE CHOOSE i \in hits : \A j \in hits : i <= j

(* fat_extract_lfn: the long name in front of an 8.3 entry, if any. *)
fat_extract_lfn(slots, i) ==
  IF i > 1 /\ slots[i-1].st = "lfn" /\ slots[i-1].name = slots[i].name
    THEN slots[i-1].long ELSE ""

(* fat12_find_in_dir_lfn and the searches of rm and rmdir: by long name, or  *)
(* by the 8.3 name whatever the case.                                        *)
fat12_find_in_dir_lfn(slots, nm) ==
  LET hits == {i \in Live(slots) : fat_extract_lfn(slots, i) = nm.long
                                   \/ (nm.fits /\ slots[i].name = nm.sfn)}
  IN  IF hits = {} THEN 0 ELSE CHOOSE i \in hits : \A j \in hits : i <= j

(* Marks the long-name entries in front of slot i as deleted; those of a     *)
(* file being replaced except the very first slot of the directory, which    *)
(* the loop of fat12_write_file_ex does not reach.                           *)
DropLfn(slots, i, from) ==
  [j \in DOMAIN slots |->
     IF j >= from /\ j < i /\ (\A k \in j .. i-1 : slots[k].st = "lfn")
       THEN SlotDel ELSE slots[j]]

Unused(s) == s.st \in {"end", "del"}

(* Where fat12_write_file_ex puts a new entry: behind the first run of       *)
(* enough unused slots; 0 if the directory has none.                         *)
NewSlot(slots, lfns) ==
  LET runs == {i \in DOMAIN slots : /\ i + lfns <= Len(slots)
                                    /\ \A k \in i .. i + lfns : Unused(slots[k])}
  IN  IF runs = {} THEN 0
      ELSE lfns + CHOOSE i \in runs : \A j \in runs : i <= j

(* fat_create_lfn_entries: the long name's slots, right in front of slot i   *)
(* when there is room for them.                                              *)
fat_create_lfn_entries(slots, i, nm) ==
  IF nm.lfns > 0 /\ i > nm.lfns
    THEN [j \in DOMAIN slots |-> IF j \in i - nm.lfns .. i - 1
                                   THEN Lfn(nm.long, nm.sfn) ELSE slots[j]]
    ELSE slots

-----------------------------------------------------------------------------
(* Sector writes. *)

WData(c, x)  == [t |-> "data", c |-> c, x |-> x]
WDir(d, x)   == [t |-> "dir", c |-> d, x |-> x]
WFat(s, x)   == [t |-> "fat", c |-> s, x |-> x]
WCopy(s, x)  == [t |-> "copy", c |-> s, x |-> x]
Sector(c) == IF c < FatSplit THEN 1 ELSE 2

(* fat12_flush_fat: each sector of the FAT, then the same sector of its copy. *)
fat12_flush_fat(fat) == <<WFat(1, fat), WCopy(1, fat), WFat(2, fat), WCopy(2, fat)>>

Applied(v, w) ==
  CASE w.t = "data" -> [v EXCEPT !.data[w.c] = w.x]
    [] w.t = "dir"  -> IF w.c = ROOT THEN [v EXCEPT !.root = w.x] ELSE [v EXCEPT !.data[w.c] = w.x]
    [] w.t = "fat"  -> [v EXCEPT !.fat = [c \in FatClusters |->
                                            IF Sector(c) = w.c THEN w.x[c] ELSE @[c]]]
    [] w.t = "copy" -> [v EXCEPT !.fat2 = [c \in FatClusters |->
                                            IF Sector(c) = w.c THEN w.x[c] ELSE @[c]]]

EmptyVolume ==
  [fat  |-> [c \in FatClusters |-> FREE], fat2 |-> [c \in FatClusters |-> FREE],
   root |-> Blank(FatRootSlots), data |-> [c \in FatClusters |-> <<>>]]

FatInit ==
  /\ vol = EmptyVolume
  /\ mountFat = vol.fat
  /\ cwd = ROOT
  /\ fatQueue = <<>>
  /\ fatOp = [kind |-> "none"]
  /\ torn = {}
  /\ wrote = <<>>

(* fat12_resolve_dir: the cluster of a directory, -1 when it is not there.   *)
fat12_resolve_dir(v, path) ==
  CASE path = "/"  -> ROOT
    [] path = "."  -> cwd
    [] path = "/D" -> LET i == fat12_find_in_dir(v.root, FatDirName)
                      IN  IF i # 0 /\ v.root[i].dir THEN v.root[i].first ELSE -1

-----------------------------------------------------------------------------
(* Commands.  FatKey names a file in the history: its directory and 8.3 name.   *)

FatKey(d, nm) == <<d, nm.sfn>>
Idle0 == fatQueue = <<>> /\ fatOp.kind = "none" /\ torn \subseteq {"delete"}

(* fat12_write_file_ex on a FAT already in memory.  A file of that 8.3 name  *)
(* is replaced: its chain is freed in memory and may be allocated again.     *)
(* When the clusters run out the data sectors written so far stay written.   *)
WritePlan(v, fat, d, nm, n, tag) ==
  LET slots == Slots(v, d)
      old   == fat12_find_in_dir(slots, nm.sfn)
      kept  == IF old # 0 THEN DropLfn(slots, old, 2) ELSE slots
      freed == IF old # 0 THEN fat12_free_chain(fat, slots[old].first) ELSE fat
      at    == IF old # 0 THEN old ELSE NewSlot(slots, nm.lfns)
      need  == IF n = 0 THEN 1 ELSE n
      al    == Allocate(freed, need)
      datas == [i \in 1 .. Len(al.got) |->
                  WData(al.got[i], IF n = 0 THEN <<"zero">> ELSE <<tag, i>>)]
      named == [fat_create_lfn_entries(kept, at, nm) EXCEPT
                  ![at] = Sfn(nm.sfn, FALSE, al.got[1], n)]
  IN  IF at = 0 THEN [ok |-> FALSE, fat |-> fat, writes |-> <<>>]
      ELSE IF Len(al.got) < need
        THEN [ok |-> FALSE, fat |-> IF al.got = <<>> THEN freed
                                    ELSE fat12_free_chain(al.fat, al.got[1]), writes |-> datas]
      ELSE [ok |-> TRUE, fat |-> al.fat,
            writes |-> datas \o <<WDir(d, named)>> \o fat12_flush_fat(al.fat)]

(* A failed overwrite may have written into the clusters of the old file, so *)
(* its content is no longer known; a successful one replaces it.             *)
Recorded(d, nm, n, tag, ok) ==
  IF ok THEN [k \in DOMAIN wrote \cup {FatKey(d, nm)} |->
                IF k = FatKey(d, nm) THEN [tag |-> tag, n |-> n] ELSE wrote[k]]
  ELSE [k \in DOMAIN wrote \ {FatKey(d, nm)} |-> wrote[k]]

fat12_write_file(path, nm, n, tag) ==
  LET d == fat12_resolve_dir(vol, path)
      plan == WritePlan(vol, vol.fat, d, nm, n, tag)
  IN  /\ Idle0 /\ d # -1
      /\ fatQueue' = plan.writes
      /\ fatOp' = [kind |-> "write", wrote |-> Recorded(d, nm, n, tag, plan.ok)]
      /\ UNCHANGED <<vol, mountFat, cwd, torn, wrote>>

(* vfs_fat_open with the create flag: reload the mount's context, then, if   *)
(* the file cannot be read, write an empty one through it.                   *)
fat12_reload_Not(v) == mountFat   \* mutant: the mount goes on with what it read before
fat12_reload(v) == v.fat
VfsFatOpen(nm) ==
  LET fat == fat12_reload(vol)
      found == fat12_find_in_dir(vol.root, nm.sfn) # 0 \/ fat12_find_in_dir_lfn(vol.root, nm) # 0
      plan == WritePlan(vol, fat, ROOT, nm, 0, 0)
  IN  /\ Idle0
      /\ mountFat' = IF found THEN fat ELSE plan.fat
      /\ fatQueue' = IF found THEN <<>> ELSE plan.writes
      /\ fatOp' = IF found THEN fatOp
                  ELSE [kind |-> "write", wrote |-> Recorded(ROOT, nm, 0, 0, plan.ok)]
      /\ UNCHANGED <<vol, cwd, torn, wrote>>

(* fat12_mkdir with fat12_create_dir: an entry in the first unused slot of   *)
(* the parent, the new directory's own sector, then the FAT.                 *)
fat12_mkdir ==
  LET at == {i \in DOMAIN vol.root : Unused(vol.root[i])}
      i  == CHOOSE x \in at : \A y \in at : x <= y
      c  == fat_find_free_cluster(vol.fat)
      fat == [vol.fat EXCEPT ![c] = EOC]
      dot == [Blank(FatDirSlots) EXCEPT ![1] = Sfn(".", TRUE, c, 0),
                                        ![2] = Sfn("..", TRUE, ROOT, 0)]
  IN  /\ Idle0
      /\ fat12_find_in_dir(vol.root, FatDirName) = 0
      /\ c # EOC /\ at # {}
      /\ fatQueue' = <<WDir(ROOT, [vol.root EXCEPT ![i] = Sfn(FatDirName, TRUE, c, 0)]),
                       WDir(c, dot)>> \o fat12_flush_fat(fat)
      /\ fatOp' = [kind |-> "mkdir", wrote |-> wrote]
      /\ UNCHANGED <<vol, mountFat, cwd, torn, wrote>>

(* What rm and rmdir write: the directory with the entry and its long name   *)
(* marked, then the FAT with the chain freed.                                *)
Removal_FatFirst(v, d, i) ==   \* mutant: the FAT before the directory
  fat12_flush_fat(fat12_free_chain(v.fat, Slots(v, d)[i].first))
    \o <<WDir(d, [DropLfn(Slots(v, d), i, 1) EXCEPT ![i] = SlotDel])>>
Removal(v, d, i) ==
  <<WDir(d, [DropLfn(Slots(v, d), i, 1) EXCEPT ![i] = SlotDel])>>
    \o fat12_flush_fat(fat12_free_chain(v.fat, Slots(v, d)[i].first))

fat12_delete_file(path, nm) ==
  LET d == fat12_resolve_dir(vol, path)
      i == fat12_find_in_dir_lfn(Slots(vol, d), nm)
  IN  /\ Idle0 /\ d # -1
      /\ i # 0 /\ ~Slots(vol, d)[i].dir
      /\ fatQueue' = Removal(vol, d, i)
      /\ fatOp' = [kind |-> "delete",
                   wrote |-> [k \in DOMAIN wrote \ {<<d, Slots(vol, d)[i].name>>} |-> wrote[k]]]
      /\ UNCHANGED <<vol, mountFat, cwd, torn, wrote>>

(* fat12_rmdir: a directory with no entries but . and .. . *)
fat12_rmdir ==
  LET i == fat12_find_in_dir(vol.root, FatDirName)
      c == vol.root[i].first
  IN  /\ Idle0 /\ i # 0 /\ vol.root[i].dir
      /\ FatRmdirCwd \/ cwd # c
      /\ \A j \in Live(Slots(vol, c)) : Slots(vol, c)[j].name \in {".", ".."}
      /\ fatQueue' = Removal(vol, ROOT, i)
      /\ fatOp' = [kind |-> "delete", wrote |-> wrote]
      /\ UNCHANGED <<vol, mountFat, cwd, torn, wrote>>

(* cmd_cd *)
cmd_cd(path) ==
  LET d == fat12_resolve_dir(vol, path)
  IN  /\ Idle0 /\ d # -1 /\ cwd # d
      /\ cwd' = d
      /\ UNCHANGED <<vol, mountFat, fatQueue, fatOp, torn, wrote>>

-----------------------------------------------------------------------------
(* A sector reaches the disk; after the last one the command returns.        *)
SectorWrite ==
  /\ fatQueue # <<>>
  /\ vol' = Applied(vol, Head(fatQueue))
  /\ fatQueue' = Tail(fatQueue)
  /\ UNCHANGED <<mountFat, cwd, fatOp, torn, wrote>>

FatReturn ==
  /\ fatQueue = <<>> /\ fatOp.kind # "none"
  /\ wrote' = fatOp.wrote
  /\ fatOp' = [kind |-> "none"]
  /\ UNCHANGED <<vol, mountFat, cwd, fatQueue, torn>>

(* The power fails between two sector writes; the next boot mounts the disk  *)
(* as it is and starts in the root.                                          *)
FatCrash ==
  /\ fatQueue # <<>>
  /\ torn' = torn \cup {fatOp.kind}
  /\ fatQueue' = <<>>
  /\ fatOp' = [kind |-> "none"]
  /\ mountFat' = vol.fat
  /\ cwd' = ROOT
  /\ wrote' = <<>>
  /\ UNCHANGED vol

(* Bound: a volume torn inside a write or a mkdir, where an entry may lead   *)
(* to a free cluster, is not used further; its image is made anew.           *)
FatReimage ==
  /\ torn \cap {"write", "mkdir"} # {}
  /\ vol' = EmptyVolume
  /\ mountFat' = vol'.fat
  /\ torn' = {}
  /\ UNCHANGED <<cwd, fatQueue, fatOp, wrote>>

FatPaths == {"/", ".", "/D"}

FatNext ==
  \/ \E path \in FatPaths, nm \in FatNames, n \in FatLengths, tag \in FatTags :
       fat12_write_file(path, nm, n, tag)
  \/ \E nm \in FatNames : VfsFatOpen(nm)
  \/ fat12_mkdir
  \/ \E path \in FatPaths, nm \in FatNames : fat12_delete_file(path, nm)
  \/ fat12_rmdir
  \/ \E path \in FatPaths : cmd_cd(path)
  \/ SectorWrite
  \/ FatReturn
  \/ FatCrash
  \/ FatReimage

-----------------------------------------------------------------------------
(* Live entries of the volume, as <<directory, slot>>, and their chains.     *)
DirCluster(v) == fat12_resolve_dir(v, "/D")
Entries(v) ==
  {<<ROOT, i>> : i \in Live(v.root)} \cup
  (IF DirCluster(v) \in FatClusters /\ Len(v.data[DirCluster(v)]) = FatDirSlots
     THEN {<<DirCluster(v), i>> : i \in {j \in Live(v.data[DirCluster(v)]) : j > 2}} ELSE {})
FirstOf(v, e) == Slots(v, e[1])[e[2]].first
ChainOf(v, e) == ChainSet(v.fat, FirstOf(v, e))

(* The variables have their types: a FAT entry is free, the end of a chain   *)
(* or a cluster of the volume, and the current directory is the root or a    *)
(* cluster.                                                                  *)
FatTypeOK ==
  /\ vol.fat \in [FatClusters -> {FREE, EOC} \cup FatClusters]
  /\ vol.fat2 \in [FatClusters -> {FREE, EOC} \cup FatClusters]
  /\ cwd \in {ROOT} \cup FatClusters
  /\ Len(vol.root) = FatRootSlots

(* Every live entry has an allocated chain that ends properly, and no two    *)
(* share a cluster: between commands, as long as the power has failed at     *)
(* most inside rm or rmdir, which write the directory before the FAT.        *)
Sound(v) ==
  /\ \A e \in Entries(v) : \A c \in ChainOf(v, e) \cup {FirstOf(v, e)} :
       c \in FatClusters /\ v.fat[c] # FREE
  /\ \A e, f \in Entries(v) : e # f => ChainOf(v, e) \cap ChainOf(v, f) = {}
FatChainsSound == torn \subseteq {"delete"} /\ fatQueue = <<>> => Sound(vol)

(* Without a power failure no cluster is lost: the allocated ones are those  *)
(* of the live entries, and the FAT's copy is the FAT.                       *)
FatNothingLost ==
  torn = {} /\ fatQueue = <<>> =>
    /\ {c \in FatClusters : vol.fat[c] # FREE} \subseteq UNION {ChainOf(vol, e) : e \in Entries(vol)}
    /\ vol.fat2 = vol.fat

(* A file that was written reads back: the entry has the length and the      *)
(* chain the data, whatever was allocated, freed or replaced since.          *)
FatReadsBack ==
  torn = {} /\ Idle0 =>
    \A k \in DOMAIN wrote :
      LET slots == Slots(vol, k[1])
          i == fat12_find_in_dir(slots, k[2])
          ch == Chain(vol.fat, slots[i].first)
      IN  /\ i # 0 /\ slots[i].len = wrote[k].n
          /\ wrote[k].n > 0 =>
               /\ Len(ch) = wrote[k].n
               /\ \A j \in 1 .. wrote[k].n : vol.data[ch[j]] = <<wrote[k].tag, j>>
=============================================================================
