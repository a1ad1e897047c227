--------------------------------- MODULE Vfs -------------------------------
(***************************************************************************)
(* The virtual file system (src/src/vfs.c) and the RAM file system           *)
(* (src/src/ramfs.c) under it, with the SFTP server as the second user of    *)
(* the RAM file system.  Opening a file copies all of it into a block of the *)
(* kernel heap, and the descriptor's handle is that block.                   *)
(*                                                                          *)
(* A path is a sequence of tokens: "/" and pieces of names.  The content of  *)
(* a file is its size.                                                       *)
(***************************************************************************)
EXTENDS Integers, Sequences, SequencesExt, FiniteSets, FiniteSetsExt

CONSTANTS
  VfsMaxMounts,  \* VFS_MAX_MOUNTS
  VfsMaxFds,     \* VFS_MAX_FDS
  VfsPoints,     \* mount points with their types: set of [at, type]
  VfsPaths,      \* paths that are opened
  VfsFatPaths,   \* files of the FAT that other commands write and remove
  RamMaxFiles,   \* RAMFS_MAX_FILES
  RamNameLen,    \* RAMFS_MAX_NAME_LEN, in tokens
  RamNames,      \* names SFTP stores (it strips the leading slash)
  VfsSizes       \* sizes of files

NEWFILE == 0     \* the handle (void *)0x1 of a file just created
NoMount == 0

VARIABLES
  vMounts,   \* mounts[]
  vFds,      \* fds[]
  vHeap,     \* live blocks of file data: block -> size
  vFat,      \* files of the FAT mount: path -> size
  rFiles,    \* ramfs files[]
  rCount,    \* file_count
  rTotal,    \* total_size
  vCat,      \* the reader between its stat, open and read
  rWrote     \* history: ramfs name that fits -> size last written

vfsVars == <<vMounts, vFds, vHeap, vFat, rFiles, rCount, rTotal, vCat, rWrote>>

Unmounted == [used |-> FALSE, at |-> <<>>, type |-> "none"]
NoFile == [used |-> FALSE, name |-> <<>>, size |-> 0, cap |-> 0, cut |-> FALSE]
NoFd   == [used |-> FALSE, mount |-> NoMount, off |-> 0, handle |-> NEWFILE]
NoCat  == [pc |-> "idle", path |-> <<>>, size |-> 0, fd |-> 0, raced |-> FALSE]

(* vfs_init, ramfs_init and the root mount of kernel_main. *)
VfsInit ==
  /\ vMounts = [i \in 1 .. VfsMaxMounts |-> Unmounted]
  /\ vFds = [i \in 1 .. VfsMaxFds |-> NoFd]
  /\ vHeap = <<>>
  /\ vFat = <<>>
  /\ rFiles = [i \in 1 .. RamMaxFiles |-> NoFile]
  /\ rCount = 0 /\ rTotal = 0
  /\ vCat = NoCat
  /\ rWrote = <<>>

With(f, k, v) == [x \in DOMAIN f \cup {k} |-> IF x = k THEN v ELSE f[x]]
Without(f, S) == [x \in DOMAIN f \ S |-> f[x]]

-----------------------------------------------------------------------------
(* Mounts. *)

vfs_mount(pt) ==
  LET free == {i \in DOMAIN vMounts : ~vMounts[i].used}
  IN  /\ free # {}
      /\ ~\E i \in DOMAIN vMounts : vMounts[i].used /\ vMounts[i].at = pt.at
      /\ vMounts' = [vMounts EXCEPT ![Min(free)] = [used |-> TRUE, at |-> pt.at, type |-> pt.type]]
      /\ vCat' = [vCat EXCEPT !.raced = @ \/ vCat.pc = "open"]
      /\ UNCHANGED <<vFds, vHeap, vFat, rFiles, rCount, rTotal, rWrote>>

(* vfs_find_mount: the longest mount point that is a prefix of the path and  *)
(* ends at a slash or with it.                                               *)
Matches(at, path) ==
  /\ IsPrefix(at, path)
  /\ Len(at) = 1 \/ Len(path) = Len(at) \/ path[Len(at) + 1] = "/"
vfs_find_mount(path) ==
  LET hits == {i \in DOMAIN vMounts : vMounts[i].used /\ Matches(vMounts[i].at, path)}
  IN  IF hits = {} THEN NoMount
      ELSE CHOOSE i \in hits : \A j \in hits : Len(vMounts[j].at) <= Len(vMounts[i].at)

(* vfs_resolve_path: the rest of the path, with a leading slash. *)
vfs_resolve_path(path) ==
  LET n    == Len(vMounts[vfs_find_mount(path)].at)
      rest == SubSeq(path, n + 1, Len(path))
  IN  IF Len(path) <= n THEN <<"/">>
      ELSE IF Head(rest) # "/" THEN <<"/">> \o rest ELSE rest

(* vfs_umount: the descriptors of the mount are closed first. *)
vfs_umount_KeepsFds(i) == {}   \* mutant: the descriptors stay open
vfs_umount_Closes(i) == {f \in DOMAIN vFds : vFds[f].used /\ vFds[f].mount = i}
Handles(S) == {vFds[f].handle : f \in S} \ {NEWFILE}
vfs_umount(i) ==
  LET S == vfs_umount_Closes(i)
  IN  /\ vMounts[i].used
      /\ vMounts' = [vMounts EXCEPT ![i] = Unmounted]
      /\ vFds' = [f \in DOMAIN vFds |-> IF f \in S THEN NoFd ELSE vFds[f]]
      /\ vHeap' = Without(vHeap, Handles(S))
      /\ vCat' = IF vCat.pc = "read" /\ vCat.fd \in S THEN NoCat
                  ELSE [vCat EXCEPT !.raced = @ \/ vCat.pc = "open"]
      /\ UNCHANGED <<vFat, rFiles, rCount, rTotal, rWrote>>

-----------------------------------------------------------------------------
(* The RAM file system. *)

ramfs_find_file(name) ==
  LET hits == {i \in DOMAIN rFiles : rFiles[i].used /\ rFiles[i].name = name}
  IN  IF hits = {} THEN 0 ELSE Min(hits)
RamFree == {i \in DOMAIN rFiles : ~rFiles[i].used}
Fits(name) == Len(name) <= RamNameLen
Cut(name) == IF Fits(name) THEN name ELSE SubSeq(name, 1, RamNameLen)
Capacity(size) == IF size < 1 THEN 1 ELSE size   \* at least 64 bytes

(* ramfs_create_file: a name that is not there; it is stored cut off.  A   *)
(* slot is in use only once kmalloc has not failed.                          *)
ramfs_create_file(name, size, ok) ==
  LET i == Min(RamFree)
  IN  IF ramfs_find_file(name) # 0 \/ RamFree = {} \/ ~ok THEN UNCHANGED <<rFiles, rCount, rTotal>>
      ELSE /\ rFiles' = [rFiles EXCEPT ![i] = [used |-> TRUE, name |-> Cut(name), size |-> size,
                                               cap |-> Capacity(size), cut |-> ~Fits(name)]]
           /\ rCount' = rCount + 1
           /\ rTotal' = rTotal + size

(* ramfs_write_file: creates, or writes over and grows the buffer. *)
ramfs_write_total(i, size) == rTotal - rFiles[i].size + size
ramfs_write_file(name, size, ok) ==
  LET i == ramfs_find_file(name)
  IN  IF i = 0 THEN ramfs_create_file(name, size, ok)
      ELSE IF size > rFiles[i].cap /\ ~ok THEN UNCHANGED <<rFiles, rCount, rTotal>>
      ELSE /\ rTotal' = ramfs_write_total(i, size)
           /\ rFiles' = [rFiles EXCEPT ![i].size = size,
                                       ![i].cap = IF size > @ THEN size ELSE @]
           /\ UNCHANGED rCount

Stored(name, size) ==
  rFiles' # rFiles /\ \E i \in DOMAIN rFiles : rFiles'[i].used /\ rFiles'[i].name = Cut(name)
                                             /\ rFiles'[i].size = size

(* sftp_store_file on the RAM file system. *)
RamStore(name, size, ok) ==
  /\ ramfs_write_file(name, size, ok)
  /\ rWrote' = IF Fits(name) /\ Stored(name, size) THEN With(rWrote, name, size) ELSE rWrote
  /\ vCat' = [vCat EXCEPT !.raced = @ \/ vCat.pc = "open"]
  /\ UNCHANGED <<vMounts, vFds, vHeap, vFat>>

(* ramfs_delete_file *)
ramfs_count_down == rCount - 1
ramfs_delete_file(name) ==
  LET i == ramfs_find_file(name)
  IN  /\ i # 0
      /\ rFiles' = [rFiles EXCEPT ![i] = NoFile]
      /\ rTotal' = rTotal - rFiles[i].size
      /\ rCount' = ramfs_count_down
      /\ rWrote' = Without(rWrote, {name})
      /\ vCat' = [vCat EXCEPT !.raced = @ \/ vCat.pc = "open"]
      /\ UNCHANGED <<vMounts, vFds, vHeap, vFat>>

-----------------------------------------------------------------------------
(* Descriptors. *)

NewBlock == Min(1 .. VfsMaxFds + 1 \ DOMAIN vHeap)
FreeFds == {f \in DOMAIN vFds : ~vFds[f].used}

(* The size a file of the file system has, -1 when it is not there: the      *)
(* stat of vfs_fat_stat (which reads the file) and of vfs_ramfs_stat.        *)
StatOf(m, fs) ==
  IF vMounts[m].type = "fat" THEN IF fs \in DOMAIN vFat THEN vFat[fs] ELSE -1
  ELSE IF ramfs_find_file(fs) = 0 THEN -1 ELSE rFiles[ramfs_find_file(fs)].size
vfs_stat(path) ==
  IF vfs_find_mount(path) = NoMount THEN -1
  ELSE StatOf(vfs_find_mount(path), vfs_resolve_path(path))

(* What fat12_read_file_to_ram_ex and ramfs_read_file copy: the whole file.  *)
DataOf(m, fs) == IF vMounts[m].type = "fat" THEN vFat[fs] ELSE rFiles[ramfs_find_file(fs)].size

(* vfs_open with vfs_fat_open and vfs_ramfs_open: the file is copied into a  *)
(* block; with the create flag a missing one is made and has no block.       *)
CopyIn(m, size) ==
  /\ vFds' = [vFds EXCEPT ![Min(FreeFds)] =
                [used |-> TRUE, mount |-> m, off |-> 0, handle |-> NewBlock]]
  /\ vHeap' = With(vHeap, NewBlock, size)
CreateIn(m, fs, ok) ==
  /\ IF vMounts[m].type = "fat"
       THEN /\ vFat' = IF ok THEN With(vFat, fs, 0) ELSE vFat
            /\ UNCHANGED <<rFiles, rCount, rTotal>>
       ELSE ramfs_create_file(fs, 0, ok) /\ UNCHANGED vFat
  /\ vFds' = IF ok /\ (vFat' # vFat \/ rCount' # rCount)
               THEN [vFds EXCEPT ![Min(FreeFds)] =
                       [used |-> TRUE, mount |-> m, off |-> 0, handle |-> NEWFILE]]
               ELSE vFds

vfs_open(path, create, ok) ==
  LET m == vfs_find_mount(path)
      size == vfs_stat(path)
  IN  /\ m # NoMount /\ FreeFds # {}
      /\ \/ /\ size >= 0 /\ ok
            /\ CopyIn(m, DataOf(m, vfs_resolve_path(path)))
            /\ UNCHANGED <<vFat, rFiles, rCount, rTotal, rWrote>>
         \/ /\ size < 0 /\ create /\ vfs_resolve_path(path) # <<"/">>
            /\ CreateIn(m, vfs_resolve_path(path), ok)
            /\ rWrote' = IF rCount' # rCount THEN With(rWrote, vfs_resolve_path(path), 0) ELSE rWrote
            /\ UNCHANGED vHeap
      /\ UNCHANGED <<vMounts, vCat>>

vfs_close(f) ==
  /\ vFds[f].used
  /\ vFds' = [vFds EXCEPT ![f] = NoFd]
  /\ vHeap' = Without(vHeap, {vFds[f].handle} \ {NEWFILE})
  /\ vCat' = IF vCat.pc = "read" /\ vCat.fd = f THEN NoCat ELSE vCat
  /\ UNCHANGED <<vMounts, vFat, rFiles, rCount, rTotal, rWrote>>

(* Files of the FAT come and go underneath (the boot volume is also written  *)
(* by fat12_write_file and fat12_delete_file).                               *)
FatChange(path, size) ==
  /\ vFat' = IF size < 0 THEN Without(vFat, {path}) ELSE With(vFat, path, size)
  /\ vFat' # vFat
  /\ vCat' = [vCat EXCEPT !.raced = @ \/ vCat.pc = "open"]
  /\ UNCHANGED <<vMounts, vFds, vHeap, rFiles, rCount, rTotal, rWrote>>

(* vfs_cmd_cat and vfs_read_file_ram: stat, then open, then one vfs_read of  *)
(* the size that stat gave, then close.  vfs_fat_read and vfs_ramfs_read     *)
(* copy as many bytes as they are asked for.                                 *)
CatStat(path) ==
  /\ vCat.pc = "idle" /\ vfs_stat(path) > 0
  /\ vCat' = [pc |-> "open", path |-> path, size |-> vfs_stat(path), fd |-> 0, raced |-> FALSE]
  /\ UNCHANGED <<vMounts, vFds, vHeap, vFat, rFiles, rCount, rTotal, rWrote>>
CatOpen ==
  LET m == vfs_find_mount(vCat.path)
  IN  /\ vCat.pc = "open"
      /\ IF m # NoMount /\ FreeFds # {} /\ vfs_stat(vCat.path) >= 0
           THEN /\ CopyIn(m, DataOf(m, vfs_resolve_path(vCat.path)))
                /\ vCat' = [vCat EXCEPT !.pc = "read", !.fd = Min(FreeFds)]
           ELSE vCat' = NoCat /\ UNCHANGED <<vFds, vHeap>>
      /\ UNCHANGED <<vMounts, vFat, rFiles, rCount, rTotal, rWrote>>
CatRead ==
  /\ vCat.pc = "read" /\ vFds[vCat.fd].off = 0
  /\ vFds' = [vFds EXCEPT ![vCat.fd].off = @ + vCat.size]
  /\ UNCHANGED <<vMounts, vHeap, vFat, rFiles, rCount, rTotal, vCat, rWrote>>

VfsNext ==
  \/ \E pt \in VfsPoints : vfs_mount(pt)
  \/ \E i \in DOMAIN vMounts : vfs_umount(i)
  \/ \E n \in RamNames, s \in VfsSizes, ok \in BOOLEAN : RamStore(n, s, ok)
  \/ \E n \in RamNames : ramfs_delete_file(n)
  \/ \E p \in VfsPaths, c, ok \in BOOLEAN : vfs_open(p, c, ok)
  \/ \E f \in DOMAIN vFds : vfs_close(f)
  \/ \E p \in VfsFatPaths, s \in VfsSizes \cup {-1} : FatChange(p, s)
  \/ \E p \in VfsPaths : CatStat(p)
  \/ CatOpen
  \/ CatRead

-----------------------------------------------------------------------------
(* The variables have their types. *)
VfsTypeOK ==
  /\ \A f \in DOMAIN vFds : vFds[f].mount \in 0 .. VfsMaxMounts /\ vFds[f].handle \in 0 .. VfsMaxFds
  /\ DOMAIN vHeap \subseteq 1 .. VfsMaxFds
  /\ rCount \in 0 .. RamMaxFiles /\ rTotal \in Nat

(* A block of file data belongs to exactly one open descriptor, and a        *)
(* descriptor to a file system that is mounted: through umount, close and    *)
(* failed opens nothing leaks and nothing is freed twice.                    *)
VfsHandlesOwned ==
  LET open == {f \in DOMAIN vFds : vFds[f].used}
  IN  /\ Handles(open) = DOMAIN vHeap
      /\ \A f, g \in open : f # g /\ vFds[f].handle = vFds[g].handle => vFds[f].handle = NEWFILE
      /\ \A f \in open : vMounts[vFds[f].mount].used

(* The counters of the RAM file system are those of its files. *)
RamCountsRight ==
  LET used == {i \in DOMAIN rFiles : rFiles[i].used}
  IN  /\ rCount = Cardinality(used)
      /\ rTotal = MapThenSumSet(LAMBDA i : rFiles[i].size, used)
      /\ \A i \in used : rFiles[i].size <= rFiles[i].cap

(* What was stored under a name that fits is found under it, once, unless a  *)
(* longer name was cut down to it.                                           *)
RamReadsBack ==
  \A n \in DOMAIN rWrote :
    \/ \E i \in DOMAIN rFiles : rFiles[i].used /\ rFiles[i].name = n /\ rFiles[i].cut
    \/ /\ ramfs_find_file(n) # 0
       /\ rFiles[ramfs_find_file(n)].size = rWrote[n]
       /\ Cardinality({i \in DOMAIN rFiles : rFiles[i].used /\ rFiles[i].name = n}) = 1

(* cat and vfs_read_file_ram read inside the block, as long as the file did  *)
(* not change between their stat and their open.                             *)
CatReadsInside ==
  vCat.pc = "read" /\ ~vCat.raced => vFds[vCat.fd].off <= vHeap[vFds[vCat.fd].handle]

(* A path resolves to the mount whose directory it is in. *)
PathsResolve ==
  \A p \in VfsPaths : LET m == vfs_find_mount(p) IN
    m # NoMount /\ Len(vMounts[m].at) > 1 =>
      vMounts[m].at \o (IF vfs_resolve_path(p) = <<"/">> THEN <<>> ELSE vfs_resolve_path(p)) = p
=============================================================================
