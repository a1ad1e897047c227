------------------------------- MODULE MCFiles ------------------------------
(***************************************************************************)
(* The file systems for TLC: the disk and its caches, the FAT driver, its  *)
(* sector cache, VFS and ramfs. Each is checked by itself: a behaviour is  *)
(* one of the component in part, the others stay as they start.            *)
(***************************************************************************)
EXTENDS Disk, Fat, FatCache, Vfs

VARIABLE part      \* the component that runs in this behaviour

MCNames == {[long |-> "A.TXT", sfn |-> "A", lfns |-> 0, fits |-> TRUE],
            [long |-> "b.txt", sfn |-> "B", lfns |-> 1, fits |-> TRUE]}
MCPoints == {[at |-> <<"/">>, type |-> "fat"], [at |-> <<"/", "tmp">>, type |-> "ram"]}
MCPaths == {<<"/", "tmp", "/", "f">>, <<"/", "tmp", "x">>}
MCFatPaths == {<<"/", "tmp", "x">>}
MCRamNames == {<<"f", "g">>, <<"f", "g", "h">>}

Init ==
  /\ part \in {"Disk", "Fat", "FatCache", "Vfs"}
  /\ DiskInit /\ FatInit /\ FcInit /\ VfsInit
  /\ part # "Disk" => dMode.boot = "floppy" /\ ~dMode.bios /\ ~dMode.ata /\ ~dMode.bpb
  /\ part # "Disk" => \A l \in DiskLbas : dMedia[l] = 1

Next ==
  \/ part = "Disk" /\ DiskNext
     /\ UNCHANGED <<part, fatVars, fcVars, vfsVars>>
  \/ part = "Fat" /\ FatNext
     /\ UNCHANGED <<part, diskVars, fcVars, vfsVars>>
  \/ part = "FatCache" /\ FcNext
     /\ UNCHANGED <<part, diskVars, fatVars, vfsVars>>
  \/ part = "Vfs" /\ VfsNext
     /\ UNCHANGED <<part, diskVars, fatVars, fcVars>>

-----------------------------------------------------------------------------
(* Each property is asked of the behaviours of its component; in the others  *)
(* the component's variables do not change.                                  *)

(* Between commands, also after a power failure inside rm or rmdir, every    *)
(* entry has a chain of its own that ends; without a power failure no        *)
(* cluster is lost and the FAT's copy is the FAT; allocation stays inside    *)
(* the volume.                                                               *)
FatSound ==
  part = "Fat" =>
    /\ FatTypeOK
    /\ FatChainsSound
    /\ FatNothingLost

(* A path leads to the mount whose directory it is in, a block of file data  *)
(* belongs to one open descriptor of a mounted file system (umount and       *)
(* failed opens included), the counters of ramfs are those of its files, and *)
(* cat reads inside the block it opened unless the file changed since its    *)
(* stat.                                                                     *)
VfsSound ==
  part = "Vfs" =>
    /\ VfsTypeOK
    /\ VfsHandlesOwned
    /\ RamCountsRight
    /\ CatReadsInside /\ PathsResolve

(* At every layer what is read is what was written last: a sector through    *)
(* the RAM image and the write-behind cache (but for the two cases disk.c    *)
(* gives up on), a FAT entry through the sector cache until fat12_flush_fat, *)
(* a file through a mount with its own copy of the FAT, a file of ramfs.     *)
StorageReadsBack ==
  /\ part = "Disk" => DiskTypeOK /\ DiskReadsLastWrite
  /\ part = "FatCache" => FcTypeOK /\ FcReadsWhatWasSet
  /\ part = "Fat" => FatReadsBack
  /\ part = "Vfs" => RamReadsBack
=============================================================================
