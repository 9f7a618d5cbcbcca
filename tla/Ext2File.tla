------------------------------ MODULE Ext2File ------------------------------
(***************************************************************************)
(* File contents in main/e2/ext2fs.c: mounting (ext2fs_fs_open,            *)
(* ext2fs_init_state, ext2fs_fs_close), the block map with its two cached  *)
(* indirect blocks (ext2_blkno), and ext2fs_read() and ext2fs_seek() on an *)
(* open file.  Module Ext2Names models how a file is found and opened.     *)
(*                                                                         *)
(* A volume gives each file's inode and the table of pointers each block   *)
(* holds.  Data is named by where it lies, <<volume, block>>.  Lengths are *)
(* in units of which a block has BS.  Every read_bytes() may fail.         *)
(***************************************************************************)
EXTENDS Integers

CONSTANTS
  NDir,          \* EXT2_NDIR_BLOCKS
  Ptrs,          \* pointers in a block
  BS,            \* units in a block
  OffMod,        \* byte offsets wrap here: 2^32, in units
  Volumes, NoVolume,
  Files,
  Blocks,        \* block numbers 0..Blocks are used; 0 is a hole
  Inode,         \* Inode[v][f]: size, direct, ind and dind
  Table,         \* Table[v][b]: the pointers block b of volume v holds
  Sizes,         \* sizes asked of ext2fs_read()
  Failures       \* may a read_bytes() fail?

Index == 0..(Ptrs - 1)
Block == 0..Blocks

InodeType ==
  [size : Nat, direct : [0..(NDir - 1) -> Block], ind : Block, dind : Block]

ASSUME NumbersAssumption ==
  /\ NDir \in Nat \ {0} /\ Ptrs \in Nat \ {0} /\ BS \in Nat \ {0}
  /\ OffMod \in Nat \ {0} /\ OffMod % BS = 0
  /\ Blocks \in Nat /\ Sizes \subseteq Nat /\ Failures \in BOOLEAN
ASSUME VolumesAssumption ==
  /\ NoVolume \notin Volumes
  /\ Inode \in [Volumes -> [Files -> InodeType]]
  /\ Table \in [Volumes -> [Block -> [Index -> Block]]]

VARIABLES
  this,                         \* the mounted volume
  cached_iblkno, iblkbuf,       \* the cached indirect block
  cached_diblkno, diblkbuf,     \* the cached double-indirect block
  file, fdpos,                  \* the open file and its position
  pc,                           \* "idle" or in the loop of ext2fs_read()
  pos, count,                   \* locals of ext2fs_read()
  chunk,                        \* history: the last piece handed over
  failed                        \* history: did a read_bytes() of this
                                \* ext2fs_read() fail?

caches == <<cached_iblkno, iblkbuf, cached_diblkno, diblkbuf>>
call   == <<pc, pos, count>>
vars == <<this, caches, file, fdpos, call, chunk, failed>>

None == -1                      \* no block cached, no file open
NoChunk == [at |-> 0, len |-> 0, from |-> 0]
Zeros == [k \in Index |-> 0]

directlim == NDir - 1
ind1lim   == Ptrs + directlim
ind2lim   == Ptrs * Ptrs + directlim

(* read_bytes(): offset is an unsigned int, so what lies behind 4 GB of    *)
(* the partition is read from its beginning.                               *)
Offset(b) == ((b * BS) % OffMod) \div BS

Init ==
  /\ this = NoVolume
  /\ cached_iblkno = None /\ iblkbuf = Zeros
  /\ cached_diblkno = None /\ diblkbuf = Zeros
  /\ file = None /\ fdpos = 0
  /\ pc = "idle" /\ pos = 0 /\ count = 0
  /\ chunk = NoChunk /\ failed = FALSE

-----------------------------------------------------------------------------
(* Mutant: the caches survive a mount.                                     *)
ResetCaches_Dropped == UNCHANGED caches

(* ext2fs_init_state() clears the state, and with it the caches.           *)
ResetCaches ==
  /\ cached_iblkno' = None /\ iblkbuf' = Zeros
  /\ cached_diblkno' = None /\ diblkbuf' = Zeros

(* ext2fs_fs_open(): a superblock that cannot be read changes nothing, an  *)
(* unreadable group descriptor table leaves no file system mounted.  After *)
(* an abort key the volume before may still be mounted; a caller who gets  *)
(* an error does not use it any more.                                      *)
Mount(v) ==
  /\ pc = "idle"
  /\ \/ this' = v /\ ResetCaches
     \/ Failures /\ this = NoVolume /\ UNCHANGED <<this, caches>>
     \/ Failures /\ this' = NoVolume /\ ResetCaches
  /\ file' = None /\ fdpos' = 0
  /\ UNCHANGED <<call, chunk, failed>>

(* ext2fs_fs_close().                                                      *)
Unmount ==
  /\ pc = "idle" /\ this # NoVolume
  /\ this' = NoVolume
  /\ UNCHANGED <<caches, file, fdpos, call, chunk, failed>>

(* ext2fs_open() found f.                                                  *)
Open(f) ==
  /\ pc = "idle" /\ this # NoVolume
  /\ file' = f /\ fdpos' = 0
  /\ UNCHANGED <<this, caches, call, chunk, failed>>

inode == Inode[this][file]

(* ext2fs_seek(): refused behind the end.                                  *)
Seek(p) ==
  /\ pc = "idle" /\ this # NoVolume /\ file # None
  /\ p <= inode.size
  /\ fdpos' = p
  /\ UNCHANGED <<this, caches, file, call, chunk, failed>>

ReadLen(n) == IF n < inode.size - fdpos THEN n ELSE inode.size - fdpos

(* ext2fs_read(): nothing to do at the end of the file.                    *)
StartRead(n) ==
  /\ pc = "idle" /\ this # NoVolume /\ file # None
  /\ ReadLen(n) # 0 /\ count' = ReadLen(n)
  /\ pos' = fdpos /\ pc' = "read"
  /\ failed' = FALSE /\ chunk' = NoChunk
  /\ UNCHANGED <<this, caches, file, fdpos>>

-----------------------------------------------------------------------------
(* The results of ext2_blkno(): the block, and the caches it leaves.  A    *)
(* failed read gives block 0.                                              *)
Result(b, i, ib, d, db, e) ==
  [blkno |-> b, ci |-> i, ibuf |-> ib, cd |-> d, dbuf |-> db, err |-> e]

Same(b, e) == Result(b, cached_iblkno, iblkbuf, cached_diblkno, diblkbuf, e)

IsCached(ib) == cached_iblkno = ib

(* Entry k of indirect block ib, with diblkbuf as in d, db.                *)
Indirect(ib, k, d, db) ==
  IF ib = 0 THEN {Result(0, cached_iblkno, iblkbuf, d, db, FALSE)}
  ELSE IF IsCached(ib)
  THEN {Result(iblkbuf[k], cached_iblkno, iblkbuf, d, db, FALSE)}
  ELSE {Result(Table[this][Offset(ib)][k], ib, Table[this][Offset(ib)], d, db, FALSE)}
       \cup (IF Failures THEN {Result(0, cached_iblkno, iblkbuf, d, db, TRUE)} ELSE {})

DoubleIndirect(n) ==
  LET di == inode.dind
      row == (n - (ind1lim + 1)) \div Ptrs
      col == (n - (ind1lim + 1)) % Ptrs
      db == Table[this][Offset(di)]
  IN IF di = 0 THEN {Same(0, FALSE)}
     ELSE IF cached_diblkno = di
     THEN Indirect(diblkbuf[row], col, di, diblkbuf)
     ELSE Indirect(db[row], col, di, db)
          \cup (IF Failures THEN {Same(0, TRUE)} ELSE {})

ext2_blkno(n) ==
  IF n <= directlim THEN {Same(inode.direct[n], FALSE)}
  ELSE IF n <= ind1lim
  THEN Indirect(inode.ind, n - (directlim + 1), cached_diblkno, diblkbuf)
  ELSE IF n <= ind2lim THEN DoubleIndirect(n)
  ELSE {Same(0, FALSE)}

SetCaches(r) ==
  /\ cached_iblkno' = r.ci /\ iblkbuf' = r.ibuf
  /\ cached_diblkno' = r.cd /\ diblkbuf' = r.dbuf

PieceLen == LET rest == BS - (pos % BS) IN IF count < rest THEN count ELSE rest

(* One turn of ext2fs_read()'s loop: map the block, read it (a block 0 is  *)
(* a hole, of zeros), copy the piece asked for.                            *)
ReadBlock ==
  /\ pc = "read" /\ count > 0
  /\ \E r \in ext2_blkno(pos \div BS) :
       /\ SetCaches(r)
       /\ failed' = (failed \/ r.err)
       /\ chunk' = [at |-> pos, len |-> PieceLen,
                    from |-> IF r.blkno = 0 THEN 0 ELSE Offset(r.blkno)]
  /\ pos' = pos + PieceLen /\ count' = count - PieceLen
  /\ UNCHANGED <<this, file, fdpos, pc>>

(* The data cannot be read: ext2fs_read() returns -1 and keeps fdpos.      *)
ReadFails ==
  /\ pc = "read" /\ count > 0 /\ Failures
  /\ \E r \in ext2_blkno(pos \div BS) : r.blkno # 0 /\ SetCaches(r)
  /\ pc' = "idle" /\ failed' = TRUE
  /\ UNCHANGED <<this, file, fdpos, pos, count, chunk>>

(* An abort key, polled for in every disk read: the call is left for good, *)
(* with the indirect blocks it had read, and try_disk_boot() starts again. *)
Abort ==
  /\ pc = "read" /\ count > 0 /\ Failures
  /\ UNCHANGED caches \/ \E r \in ext2_blkno(pos \div BS) : SetCaches(r)
  /\ pc' = "idle" /\ failed' = TRUE
  /\ UNCHANGED <<this, file, fdpos, pos, count, chunk>>

EndRead ==
  /\ pc = "read" /\ count = 0
  /\ fdpos' = pos /\ pc' = "idle"
  /\ UNCHANGED <<this, caches, file, pos, count, chunk, failed>>

Next ==
  \/ \E v \in Volumes : Mount(v)
  \/ Unmount
  \/ \E f \in Files : Open(f)
  \/ \E n \in Sizes : StartRead(n)
  \/ \E p \in Sizes : Seek(p)
  \/ ReadBlock \/ ReadFails \/ Abort \/ EndRead

Spec == Init /\ [][Next]_vars

-----------------------------------------------------------------------------
(* Reference: the block of the file, straight from the pointers.           *)
BlockOf(v, f, n) ==
  LET i == Inode[v][f]
      m == n - NDir
      l == m - Ptrs
      Entry(b, k) == IF b = 0 THEN 0 ELSE Table[v][b][k]
  IN IF n < NDir THEN i.direct[n]
     ELSE IF m < Ptrs THEN Entry(i.ind, m)
     ELSE Entry(Entry(i.dind, l \div Ptrs), l % Ptrs)

InFirst4GB == Blocks * BS < OffMod

Handed == pc = "read" /\ chunk # NoChunk

BufferType == [Index -> Block]

(* What ext2fs_read() hands over is the file: each piece comes from the    *)
(* block the file has at its position, does not reach into the next one,   *)
(* and lies before the end of the file, although the two cached indirect   *)
(* blocks are recognised by their number alone, on the next partition too, *)
(* and a failed or aborted read may have replaced only one of them.        *)
(* Where the piece comes from is claimed up to ind2lim only; see           *)
(* DoubleIndirectMapped for what lies behind.  It holds on the first 4 GB  *)
(* of a partition and if no indirect block was unreadable.                 *)
HandsOverTheFile ==
  (Handed /\ ~failed /\ InFirst4GB) =>
    LET n == chunk.at \div BS IN
    /\ n <= ind2lim => chunk.from = BlockOf(this, file, n)
    /\ (chunk.at % BS) + chunk.len <= BS
    /\ chunk.at + chunk.len <= inode.size

(* Every block the double-indirect block maps is found, as ind2lim, the    *)
(* "Maximum double-indir blkno" of main/e2/ext2fs.c:73, promises.  Not so: *)
(* ext2fs_init_state() leaves the Ptrs single-indirect blocks out of the   *)
(* sum, and ext2_blkno() takes the last Ptrs blocks for holes.             *)
DoubleIndirectMapped ==
  (Handed /\ ~failed /\ InFirst4GB) =>
    LET n == chunk.at \div BS IN
    n < NDir + Ptrs + Ptrs * Ptrs => chunk.from = BlockOf(this, file, n)
=============================================================================
