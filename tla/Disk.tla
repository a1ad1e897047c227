-------------------------------- MODULE Disk -------------------------------
(***************************************************************************)
(* Sectors (src/src/disk.c over src/src/ata.c and the BIOS).                *)
(*                                                                          *)
(* The sectors of a boot floppy below DISK_CACHE_SECTORS live in the RAM     *)
(* image the boot loader left; those above it, once written, in a bounded    *)
(* write-behind cache.  Both stand in for BIOS writes that fail or that      *)
(* report success without reaching the medium.  A hard disk is read and      *)
(* written through ATA, with the BIOS as the fallback of reads.              *)
(*                                                                          *)
(* Sector contents are numbers: 0 is a sector of zeros and DirEntries says   *)
(* how many directory entries a sector looks like.                           *)
(***************************************************************************)
EXTENDS Integers, Sequences, FiniteSets

CONSTANTS
  DiskLbas,      \* the sectors, 0 .. n
  DiskCached,    \* DISK_CACHE_SECTORS: the first sector outside the RAM image
  DiskRefresh,   \* the sectors whose zeros are checked against the medium
  DiskScan,      \* where disk_init looks for the root when the BPB is bad
  DiskValues,    \* contents of a sector, 0 among them
  WbSlots        \* FLOPPY_WB_SLOTS

DirEntries(v) == v   \* live entries disk_init counts in a sector of content v

VARIABLES
  dMode,    \* the machine: floppy or hard disk, BIOS calls disabled, ATA found
  dMedia,   \* contents of the medium
  dImage,   \* the RAM image of the first sectors
  dRoot,    \* root_lba_start, or -1: the root directory's sector
  dWb,      \* floppy_wb: a sequence of <<lba, content>>, free slots absent
  dLast     \* history: what each sector held, or was last written in this boot

diskVars == <<dMode, dMedia, dImage, dRoot, dWb, dLast>>

Image(m) == [l \in {x \in DiskLbas : x < DiskCached} |-> m[l]]

(* disk_init: the root directory of a boot floppy is where the BPB says or,  *)
(* when the BPB is not usable, the first of the sectors that look most like  *)
(* a directory; it must lie inside the RAM image.                            *)
ScannedRoot(img) ==
  LET best == CHOOSE l \in DiskScan :
                \A k \in DiskScan : /\ DirEntries(img[k]) <= DirEntries(img[l])
                                    /\ DirEntries(img[k]) = DirEntries(img[l]) => l <= k
  IN  best
disk_init(mode, img) ==
  IF mode.boot # "floppy" THEN -1
  ELSE IF mode.bpb THEN mode.bpbRoot ELSE ScannedRoot(img)

DiskInit ==
  /\ dMode \in [boot : {"floppy", "hard"}, bios : BOOLEAN, ata : BOOLEAN,
                bpb : BOOLEAN, bpbRoot : {1}]
  /\ dMode.boot = "hard" => dMode.ata \/ dMode.bios
  /\ dMode.boot = "hard" => dMode.bpb
  /\ \E m \in [DiskLbas -> {0, 1}] :
       /\ \A l \in DiskLbas : l >= DiskCached => m[l] = 1
       /\ dMedia = m
       /\ dLast = m
  /\ dImage = Image(dMedia)
  /\ dRoot = disk_init(dMode, dImage)
  /\ dWb = <<>>

-----------------------------------------------------------------------------
(* The write-behind cache. *)

WbIndex(wb, l) == {i \in DOMAIN wb : wb[i][1] = l}

(* floppy_wb_store: the slot of the sector, else a free one, else the first. *)
floppy_wb_store(wb, l, v) ==
  IF WbIndex(wb, l) # {} THEN [i \in DOMAIN wb |-> IF wb[i][1] = l THEN <<l, v>> ELSE wb[i]]
  ELSE IF Len(wb) < WbSlots THEN Append(wb, <<l, v>>)
  ELSE [wb EXCEPT ![1] = <<l, v>>]

(* floppy_wb_fetch: the first slot of the sector. *)
floppy_wb_fetch(wb, l) ==
  wb[CHOOSE i \in WbIndex(wb, l) : \A j \in WbIndex(wb, l) : i <= j][2]

(* bios_write_sector_lba: what the medium may hold afterwards and whether    *)
(* the call reports success; a BIOS may report it and write nothing.         *)
bios_write_sector_lba(m, l, v) ==
  IF ~dMode.bios THEN {m} ELSE {m, [m EXCEPT ![l] = v]}

(* ata_write_sector: one attempt, which a device that does not answer fails. *)
ata_write_sector(m, l, v) == {m, [m EXCEPT ![l] = v]}

(* disk_write_sector: to the device, then into the copies in memory.         *)
DiskWrite(l, v) ==
  /\ dMedia' \in IF dMode.ata /\ dMode.boot = "hard" THEN ata_write_sector(dMedia, l, v)
                 ELSE bios_write_sector_lba(dMedia, l, v)
  /\ dImage' = IF dMode.boot = "floppy" /\ l < DiskCached
                 THEN [dImage EXCEPT ![l] = v] ELSE dImage
  /\ dWb' = IF dMode.boot = "floppy" /\ l >= DiskCached
              THEN floppy_wb_store(dWb, l, v) ELSE dWb
  /\ dLast' = [dLast EXCEPT ![l] = v]
  /\ UNCHANGED <<dMode, dRoot>>

(* disk_read_sector: the root range from the image; the rest of the image    *)
(* too, except that zeros in some sectors are read again from the medium,    *)
(* which replaces the image; then the write-behind cache, then the medium    *)
(* through ATA (three attempts) or the BIOS.                                 *)
RereadsZeros(l) ==
  dImage[l] = 0 /\ l # dRoot /\ (l = 0 \/ l \in DiskRefresh) /\ dMode.bios
ReadsImage(l) == dMode.boot = "floppy" /\ l < DiskCached
disk_read_sector(l) ==
  IF ReadsImage(l) THEN IF RereadsZeros(l) THEN dMedia[l] ELSE dImage[l]
  ELSE IF dMode.boot = "floppy" /\ WbIndex(dWb, l) # {} THEN floppy_wb_fetch(dWb, l)
  ELSE dMedia[l]

DiskRead(l) ==
  /\ ReadsImage(l) /\ RereadsZeros(l)     \* the reads that change the image
  /\ dImage' = [dImage EXCEPT ![l] = disk_read_sector(l)]
  /\ UNCHANGED <<dMode, dMedia, dRoot, dWb, dLast>>

(* disk_refresh_root_from_boot: the root's sectors again from the medium.    *)
disk_refresh_root_from_boot ==
  /\ dMode.boot = "floppy" /\ dMode.bios /\ dRoot >= 0
  /\ dImage' = [dImage EXCEPT ![dRoot] = dMedia[dRoot]]
  /\ dLast' = [dLast EXCEPT ![dRoot] = dMedia[dRoot]]
  /\ UNCHANGED <<dMode, dMedia, dRoot, dWb>>

(* A reboot: the loader reads the image again and the write-behind cache is  *)
(* gone.                                                                     *)
DiskReboot ==
  /\ dImage' = Image(dMedia)
  /\ dRoot' = disk_init(dMode, Image(dMedia))
  /\ dWb' = <<>>
  /\ dLast' = dMedia
  /\ UNCHANGED <<dMode, dMedia>>

DiskNext ==
  \/ \E l \in DiskLbas, v \in DiskValues : DiskWrite(l, v)
  \/ \E l \in DiskLbas : DiskRead(l)
  \/ disk_refresh_root_from_boot
  \/ DiskReboot

-----------------------------------------------------------------------------
(* The variables have their types. *)
DiskTypeOK ==
  /\ dMedia \in [DiskLbas -> DiskValues] /\ dLast \in [DiskLbas -> DiskValues]
  /\ DOMAIN dImage = {l \in DiskLbas : l < DiskCached}
  /\ dRoot \in DiskLbas \cup {-1} /\ Len(dWb) <= WbSlots

(* On a boot floppy, disk_read_sector returns what disk_write_sector last    *)
(* wrote in this boot, whatever the BIOS did with the write ("so ls/cat      *)
(* match touch/redir within the same boot session"), except for two cases    *)
(* the code gives up on: a sector whose write-behind slot was taken by       *)
(* another one, and zeros in a sector that is checked against the medium.    *)
DiskReadsLastWrite ==
  dMode.boot = "floppy" =>
    \A l \in DiskLbas :
      \/ disk_read_sector(l) = dLast[l]
      \/ l >= DiskCached /\ Len(dWb) = WbSlots /\ WbIndex(dWb, l) = {}
      \/ l < DiskCached /\ dLast[l] = 0 /\ (l = 0 \/ l \in DiskRefresh) /\ l # dRoot
=============================================================================
