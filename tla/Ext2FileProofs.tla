--------------------------- MODULE Ext2FileProofs ---------------------------
(***************************************************************************)
(* Proofs about Ext2File, for any volumes and files, any number of direct  *)
(* blocks and of pointers in a block, and any block size, and about        *)
(* BootVolume: on any bus and with any table of partitions.                *)
(***************************************************************************)
EXTENDS BootVolume, TLAPS

TypeInv ==
  /\ this \in Volumes \cup {NoVolume} /\ file \in Files \cup {None}
  /\ fdpos \in Nat /\ pos \in Nat /\ count \in Nat

(* A read under way stays before the end of the file it is of.             *)
PositionInv ==
  /\ this \in Volumes /\ file # None => fdpos <= inode.size
  /\ pc = "read" => /\ this \in Volumes /\ file # None
                    /\ pos + count <= inode.size

(* A cache with a number holds that block of the mounted volume.           *)
Holds(ci, buf) == ci # None => ci \in Block /\ buf = Table[this][ci]
CacheInv ==
  (InFirst4GB /\ this \in Volumes) =>
    Holds(cached_iblkno, iblkbuf) /\ Holds(cached_diblkno, diblkbuf)

IInv == TypeInv /\ PositionInv /\ CacheInv /\ HandsOverTheFile

-----------------------------------------------------------------------------
LEMMA InodeFields ==
  ASSUME NEW v \in Volumes, NEW f \in Files
  PROVE  /\ Inode[v][f].size \in Nat /\ Inode[v][f].ind \in Block /\ Inode[v][f].dind \in Block
         /\ \A n \in 0..(NDir - 1) : Inode[v][f].direct[n] \in Block
<1>1. Inode[v][f] \in InodeType
  BY VolumesAssumption
<1> QED BY <1>1 DEF InodeType

(* read_bytes() reads block b where it is, on the first 4 GB.              *)
LEMMA OffsetExact ==
  ASSUME InFirst4GB, NEW b \in Block
  PROVE  Offset(b) = b
<1>1. /\ b \in Nat /\ BS \in Nat /\ BS > 0 /\ OffMod \in Nat /\ OffMod > 0 /\ Blocks \in Nat
      /\ b <= Blocks
  BY NumbersAssumption DEF Block
<1>2. b * BS <= Blocks * BS
  BY <1>1
<1>3. b * BS \in Nat /\ b * BS < OffMod
  BY <1>1, <1>2 DEF InFirst4GB
<1>4. (b * BS) % OffMod = b * BS
  BY <1>1, <1>3
<1>5. (b * BS) \div BS = b
  BY <1>1
<1> QED BY <1>4, <1>5 DEF Offset

(* A block number up to ind2lim has its row and column inside the blocks   *)
(* of pointers.                                                            *)
LEMMA RowAndColumn ==
  ASSUME NEW n \in Nat, n > ind1lim, n <= ind2lim
  PROVE  /\ (n - (ind1lim + 1)) \div Ptrs \in Index /\ (n - (ind1lim + 1)) % Ptrs \in Index
         /\ n - (ind1lim + 1) = n - NDir - Ptrs
<1> DEFINE l == n - (ind1lim + 1)
           q == l \div Ptrs
<1>1. NDir \in Nat /\ NDir > 0 /\ Ptrs \in Nat /\ Ptrs > 0
  BY NumbersAssumption
<1>2. l \in Nat /\ l = n - NDir - Ptrs
  BY <1>1 DEF ind1lim, directlim
<1>3. l % Ptrs \in Index
  BY <1>1, <1>2 DEF Index
<1>4. l < Ptrs * Ptrs
  BY <1>1, <1>2 DEF ind2lim, directlim
<1>5. q \in Nat /\ q * Ptrs <= l
  BY <1>1, <1>2
<1>6. q < Ptrs
  <2>1. q >= Ptrs => q * Ptrs >= Ptrs * Ptrs
    BY <1>1, <1>5
  <2> HIDE DEF q, l
  <2>2. q * Ptrs \in Nat /\ Ptrs * Ptrs \in Nat /\ l \in Nat
    BY <1>1, <1>2, <1>5
  <2> QED BY <1>1, <1>4, <1>5, <2>1, <2>2
<1>7. q \in Index
  BY <1>1, <1>5, <1>6 DEF Index
<1> QED BY <1>2, <1>3, <1>7

-----------------------------------------------------------------------------
(* What the entry of an indirect block should be.                          *)
Entry(b, k) == IF b = 0 THEN 0 ELSE Table[this][b][k]

(* A result of ext2_blkno() that agrees with block b of the volume.        *)
Exact(r, b) ==
  /\ Holds(r.ci, r.ibuf) /\ Holds(r.cd, r.dbuf)
  /\ r.blkno \in Block /\ r.err \in BOOLEAN /\ (~r.err => r.blkno = b)

LEMMA EntryInBlock ==
  ASSUME this \in Volumes, NEW b \in Block, NEW k \in Index
  PROVE  Entry(b, k) \in Block /\ Table[this][b] \in [Index -> Block]
<1>1. Table[this][b] \in [Index -> Block]
  BY VolumesAssumption
<1>2. 0 \in Block
  BY NumbersAssumption DEF Block
<1> QED BY <1>1, <1>2 DEF Entry

(* The indirect block, cached or read.                                     *)
LEMMA IndirectExact ==
  ASSUME InFirst4GB, this \in Volumes, Holds(cached_iblkno, iblkbuf),
         NEW ib \in Block, NEW k \in Index, NEW d, NEW db, Holds(d, db),
         NEW r \in Indirect(ib, k, d, db)
  PROVE  Exact(r, Entry(ib, k))
<1>1. Entry(ib, k) \in Block /\ 0 \in Block
  BY EntryInBlock, NumbersAssumption DEF Block
<1>2. ib # None
  BY DEF Block, None
<1>3. Offset(ib) = ib
  BY OffsetExact
<1>4. CASE ib = 0
  <2>1. r = Result(0, cached_iblkno, iblkbuf, d, db, FALSE) /\ Entry(ib, k) = 0
    BY <1>4 DEF Indirect, Entry
  <2> QED BY <1>1, <2>1 DEF Result, Exact
<1>5. CASE ib # 0 /\ IsCached(ib)
  <2>1. r = Result(iblkbuf[k], cached_iblkno, iblkbuf, d, db, FALSE)
    BY <1>5 DEF Indirect
  <2>2. iblkbuf[k] = Entry(ib, k)
    BY <1>2, <1>5 DEF IsCached, Holds, Entry
  <2> QED BY <1>1, <2>1, <2>2 DEF Result, Exact
<1>6. CASE ib # 0 /\ ~IsCached(ib)
  <2>1. CASE r = Result(Table[this][Offset(ib)][k], ib, Table[this][Offset(ib)], d, db, FALSE)
    BY <1>1, <1>3, <1>6, <2>1 DEF Result, Exact, Entry, Holds
  <2>2. CASE r = Result(0, cached_iblkno, iblkbuf, d, db, TRUE)
    BY <1>1, <2>2 DEF Result, Exact
  <2> QED BY <1>6, <2>1, <2>2 DEF Indirect
<1> QED BY <1>4, <1>5, <1>6

LEMMA DoubleIndirectExact ==
  ASSUME InFirst4GB, this \in Volumes, file \in Files, CacheInv,
         NEW n \in Nat, n > ind1lim, n <= ind2lim, NEW r \in DoubleIndirect(n)
  PROVE  Exact(r, BlockOf(this, file, n))
<1> DEFINE di == inode.dind
           row == (n - (ind1lim + 1)) \div Ptrs
           col == (n - (ind1lim + 1)) % Ptrs
<1>1. /\ row \in Index /\ col \in Index /\ n - (ind1lim + 1) = n - NDir - Ptrs
  BY RowAndColumn
<1>2. di \in Block /\ di # None /\ 0 \in Block
  BY InodeFields, NumbersAssumption DEF inode, Block, None
<1>3. Offset(di) = di
  BY <1>2, OffsetExact
<1>4. Holds(cached_iblkno, iblkbuf) /\ Holds(cached_diblkno, diblkbuf)
  BY DEF CacheInv
<1>5. BlockOf(this, file, n) = Entry(Entry(di, row), col)
  <2>1. ~(n < NDir) /\ ~(n - NDir < Ptrs)
    BY NumbersAssumption DEF ind1lim, directlim
  <2> QED BY <1>1, <2>1 DEF BlockOf, Entry, inode
<1>6. Entry(di, row) \in Block
  BY <1>1, <1>2, EntryInBlock
<1>7. Entry(Entry(di, row), col) \in Block
  BY <1>1, <1>6, EntryInBlock
<1> HIDE DEF row, col, di
<1>8. DoubleIndirect(n) = IF di = 0 THEN {Same(0, FALSE)}
                          ELSE IF cached_diblkno = di
                          THEN Indirect(diblkbuf[row], col, di, diblkbuf)
                          ELSE Indirect(Table[this][Offset(di)][row], col, di, Table[this][Offset(di)])
                               \cup (IF Failures THEN {Same(0, TRUE)} ELSE {})
  BY DEF DoubleIndirect, row, col, di
<1>9. CASE di = 0
  <2>1. Entry(Entry(di, row), col) = 0
    BY <1>9 DEF Entry
  <2>2. r = Same(0, FALSE)
    BY <1>8, <1>9
  <2> QED BY <1>2, <1>4, <1>5, <2>1, <2>2 DEF Same, Result, Exact
<1>10. CASE di # 0 /\ cached_diblkno = di
  <2>1. diblkbuf[row] = Entry(di, row) /\ Holds(di, diblkbuf)
    BY <1>2, <1>4, <1>10 DEF Holds, Entry
  <2>2. r \in Indirect(Entry(di, row), col, di, diblkbuf)
    BY <1>8, <1>10, <2>1
  <2> QED BY <1>1, <1>4, <1>5, <1>6, <2>1, <2>2, IndirectExact
<1>11. CASE di # 0 /\ cached_diblkno # di
  <2> DEFINE db == Table[this][di]
  <2>1. db[row] = Entry(di, row) /\ Holds(di, db)
    BY <1>2, <1>11 DEF Holds, Entry
  <2>2. CASE r \in Indirect(Entry(di, row), col, di, db)
    BY <1>1, <1>4, <1>5, <1>6, <2>1, <2>2, IndirectExact
  <2>3. CASE r = Same(0, TRUE)
    BY <1>2, <1>4, <2>3 DEF Same, Result, Exact
  <2> QED BY <1>3, <1>8, <1>11, <2>1, <2>2, <2>3
<1> QED BY <1>9, <1>10, <1>11

(* ext2_blkno() finds the block the file has there, and leaves caches that *)
(* are true.                                                               *)
LEMMA BlknoExact ==
  ASSUME InFirst4GB, this \in Volumes, file \in Files, CacheInv,
         NEW n \in Nat, NEW r \in ext2_blkno(n)
  PROVE  Exact(r, IF n <= ind2lim THEN BlockOf(this, file, n) ELSE 0)
<1>1. /\ NDir \in Nat /\ NDir > 0 /\ Ptrs \in Nat /\ Ptrs > 0 /\ Ptrs * Ptrs \in Nat
      /\ Ptrs * Ptrs >= Ptrs /\ 0 \in Block
  BY NumbersAssumption DEF Block
<1>2. directlim < ind1lim /\ ind1lim <= ind2lim
  BY <1>1 DEF directlim, ind1lim, ind2lim
<1>3. Holds(cached_iblkno, iblkbuf) /\ Holds(cached_diblkno, diblkbuf)
  BY DEF CacheInv
<1>4. CASE n <= directlim
  <2>1. n \in 0..(NDir - 1) /\ n < NDir /\ n <= ind2lim
    BY <1>1, <1>2, <1>4 DEF directlim, ind1lim, ind2lim
  <2>2. inode.direct[n] \in Block /\ BlockOf(this, file, n) = inode.direct[n]
    BY <2>1, InodeFields DEF inode, BlockOf
  <2>3. r = Same(inode.direct[n], FALSE)
    BY <1>4 DEF ext2_blkno
  <2> QED BY <1>3, <2>1, <2>2, <2>3 DEF Same, Result, Exact
<1>5. CASE n > directlim /\ n <= ind1lim
  <2> DEFINE k == n - (directlim + 1)
  <2>1. k \in Index /\ k = n - NDir /\ ~(n < NDir) /\ n - NDir < Ptrs /\ n <= ind2lim
    BY <1>1, <1>2, <1>5 DEF directlim, ind1lim, ind2lim, Index
  <2>2. inode.ind \in Block
    BY InodeFields DEF inode
  <2>3. BlockOf(this, file, n) = Entry(inode.ind, k)
    BY <2>1 DEF BlockOf, Entry, inode
  <2>4. ~(n <= directlim)
    BY <1>1, <1>5 DEF directlim
  <2>5. r \in Indirect(inode.ind, k, cached_diblkno, diblkbuf)
    BY <1>5, <2>4 DEF ext2_blkno
  <2> QED BY <1>3, <2>1, <2>2, <2>3, <2>5, IndirectExact
<1>6. CASE n > ind1lim /\ n <= ind2lim
  <2>1. ~(n <= directlim) /\ ~(n <= ind1lim)
    BY <1>1, <1>6 DEF directlim, ind1lim
  <2>2. r \in DoubleIndirect(n)
    BY <1>6, <2>1 DEF ext2_blkno
  <2> QED BY <1>6, <2>2, DoubleIndirectExact
<1>7. CASE n > ind2lim
  <2>1. ~(n <= directlim) /\ ~(n <= ind1lim) /\ ~(n <= ind2lim)
    BY <1>1, <1>2, <1>7 DEF directlim, ind1lim, ind2lim
  <2>2. r = Same(0, FALSE)
    BY <2>1 DEF ext2_blkno
  <2> QED BY <1>1, <1>3, <2>1, <2>2 DEF Same, Result, Exact
<1> QED BY <1>1, <1>4, <1>5, <1>6, <1>7 DEF directlim, ind1lim, ind2lim

-----------------------------------------------------------------------------
LEMMA TypeStep == IInv /\ [Next]_vars => TypeInv'
<1> SUFFICES ASSUME IInv, [Next]_vars PROVE TypeInv'
  OBVIOUS
<1> USE DEF IInv, TypeInv, caches, call
<1>1. CASE (\E v \in Volumes : Mount(v)) \/ Unmount \/ \E f \in Files : Open(f)
  BY <1>1 DEF Mount, Unmount, Open
<1>2. ASSUME NEW n \in Sizes, StartRead(n) PROVE TypeInv'
  <2>1. this \in Volumes /\ file \in Files
    BY <1>2 DEF StartRead
  <2>2. inode.size \in Nat /\ fdpos <= inode.size /\ n \in Nat
    BY <1>2, <2>1, InodeFields, NumbersAssumption DEF inode, PositionInv, StartRead
  <2>3. ReadLen(n) \in Nat
    BY <2>2 DEF ReadLen
  <2> QED BY <1>2, <2>3 DEF StartRead
<1>3. CASE \E p \in Sizes : Seek(p)
  BY <1>3, NumbersAssumption DEF Seek
<1>4. CASE ReadBlock
  <2>1. PieceLen \in Nat /\ PieceLen <= count
    BY <1>4, NumbersAssumption DEF ReadBlock, PieceLen
  <2>2. pos + PieceLen \in Nat /\ count - PieceLen \in Nat
    BY <2>1
  <2> QED BY <1>4, <2>2 DEF ReadBlock
<1>5. CASE ReadFails \/ Abort \/ EndRead \/ UNCHANGED vars
  BY <1>5 DEF ReadFails, Abort, EndRead, vars
<1> QED BY <1>1, <1>2, <1>3, <1>4, <1>5 DEF Next

LEMMA PositionStep == IInv /\ [Next]_vars => PositionInv'
<1> SUFFICES ASSUME IInv, [Next]_vars PROVE PositionInv'
  OBVIOUS
<1> USE DEF IInv, TypeInv, PositionInv, caches, call
<1>1. CASE \E v \in Volumes : Mount(v)
  BY <1>1 DEF Mount
<1>2. CASE Unmount
  BY <1>2, VolumesAssumption DEF Unmount
<1>3. ASSUME NEW f \in Files, Open(f) PROVE PositionInv'
  <2>1. this \in Volumes /\ 0 <= Inode[this][f].size
    BY <1>3, InodeFields DEF Open
  <2> QED BY <1>3, <2>1 DEF Open, inode
<1>4. ASSUME NEW n \in Sizes, StartRead(n) PROVE PositionInv'
  <2>1. this \in Volumes /\ file \in Files
    BY <1>4 DEF StartRead
  <2>2. inode.size \in Nat /\ fdpos <= inode.size /\ n \in Nat
    BY <1>4, <2>1, InodeFields, NumbersAssumption DEF inode, StartRead
  <2>3. fdpos + ReadLen(n) <= inode.size
    BY <2>2 DEF ReadLen
  <2> QED BY <1>4, <2>1, <2>3 DEF StartRead, inode
<1>5. CASE \E p \in Sizes : Seek(p)
  BY <1>5 DEF Seek, inode
<1>6. CASE ReadBlock
  <2>1. PieceLen \in Nat /\ PieceLen <= count
    BY <1>6, NumbersAssumption DEF ReadBlock, PieceLen
  <2>2. pos' + count' = pos + count
    BY <1>6, <2>1 DEF ReadBlock
  <2> QED BY <1>6, <2>2 DEF ReadBlock, inode
<1>7. CASE EndRead
  <2>1. pos <= inode.size
    BY <1>7 DEF EndRead
  <2> QED BY <1>7, <2>1 DEF EndRead, inode
<1>8. CASE ReadFails \/ Abort \/ UNCHANGED vars
  BY <1>8 DEF ReadFails, Abort, vars, inode
<1> QED BY <1>1, <1>2, <1>3, <1>4, <1>5, <1>6, <1>7, <1>8 DEF Next

(* A turn of the loop, whether it succeeds or not, leaves caches that are  *)
(* true.                                                                   *)
LEMMA TurnKeepsCaches ==
  ASSUME IInv, pc = "read", NEW r \in ext2_blkno(pos \div BS), SetCaches(r), this' = this
  PROVE  CacheInv'
<1> SUFFICES ASSUME InFirst4GB, this \in Volumes PROVE CacheInv'
  BY DEF CacheInv, InFirst4GB
<1>1. pos \div BS \in Nat /\ file \in Files
  BY NumbersAssumption DEF IInv, TypeInv, PositionInv
<1>2. Holds(r.ci, r.ibuf) /\ Holds(r.cd, r.dbuf)
  BY <1>1, BlknoExact DEF IInv, Exact
<1> QED BY <1>2 DEF SetCaches, CacheInv, Holds

LEMMA CacheStep == IInv /\ [Next]_vars => CacheInv'
<1> SUFFICES ASSUME IInv, [Next]_vars PROVE CacheInv'
  OBVIOUS
<1>1. ASSUME UNCHANGED <<this, caches>> PROVE CacheInv'
  BY <1>1 DEF IInv, CacheInv, Holds, caches
<1>2. ASSUME NEW v \in Volumes, Mount(v) PROVE CacheInv'
  <2>1. CASE ResetCaches
    BY <2>1 DEF ResetCaches, CacheInv, Holds
  <2> QED BY <1>1, <1>2, <2>1 DEF Mount
<1>3. CASE Unmount
  BY <1>3, VolumesAssumption DEF Unmount, CacheInv
<1>4. CASE ReadBlock
  BY <1>4, TurnKeepsCaches DEF ReadBlock
<1>5. CASE ReadFails \/ Abort
  BY <1>1, <1>5, TurnKeepsCaches DEF ReadFails, Abort
<1>6. CASE \/ \E f \in Files : Open(f)
           \/ \E n \in Sizes : StartRead(n) \/ Seek(n)
           \/ EndRead \/ UNCHANGED vars
  BY <1>1, <1>6 DEF Open, StartRead, Seek, EndRead, vars
<1> QED BY <1>2, <1>3, <1>4, <1>5, <1>6 DEF Next

LEMMA HandOverStep == IInv /\ [Next]_vars => HandsOverTheFile'
<1> SUFFICES ASSUME IInv, [Next]_vars PROVE HandsOverTheFile'
  OBVIOUS
<1>1. CASE ReadBlock
  <2> SUFFICES ASSUME InFirst4GB, ~failed' PROVE HandsOverTheFile'
    BY DEF HandsOverTheFile, InFirst4GB
  <2> DEFINE n == pos \div BS
  <2>1. /\ this \in Volumes /\ file \in Files /\ n \in Nat /\ pos \in Nat /\ count \in Nat
        /\ inode.size \in Nat /\ pos + count <= inode.size
    <3>1. this \in Volumes /\ file \in Files
      BY <1>1 DEF ReadBlock, IInv, TypeInv, PositionInv
    <3> QED BY <1>1, <3>1, NumbersAssumption, InodeFields
            DEF ReadBlock, IInv, TypeInv, PositionInv, inode
  <2>2. PICK r \in ext2_blkno(n) :
          /\ failed' = (failed \/ r.err)
          /\ chunk' = [at |-> pos, len |-> PieceLen,
                       from |-> IF r.blkno = 0 THEN 0 ELSE Offset(r.blkno)]
    BY <1>1 DEF ReadBlock
  <2>3. Exact(r, IF n <= ind2lim THEN BlockOf(this, file, n) ELSE 0)
    BY <2>1, BlknoExact DEF IInv
  <2>4. r.blkno \in Block /\ r.blkno = IF n <= ind2lim THEN BlockOf(this, file, n) ELSE 0
    BY <2>2, <2>3 DEF Exact
  <2>5. chunk'.from = r.blkno /\ chunk'.at = pos /\ chunk'.len = PieceLen
    BY <2>2, <2>4, OffsetExact
  <2>6. (pos % BS) + PieceLen <= BS /\ pos + PieceLen <= inode.size
    BY <2>1, NumbersAssumption DEF PieceLen
  <2>7. UNCHANGED <<this, file>>
    BY <1>1 DEF ReadBlock
  <2> QED BY <2>4, <2>5, <2>6, <2>7 DEF HandsOverTheFile, inode
<1>2. ASSUME ~(pc' = "read") \/ chunk' = NoChunk PROVE HandsOverTheFile'
  BY <1>2 DEF HandsOverTheFile, Handed
<1>3. CASE \E n \in Sizes : StartRead(n)
  BY <1>2, <1>3 DEF StartRead
<1>4. CASE ReadFails \/ Abort \/ EndRead
  BY <1>2, <1>4 DEF ReadFails, Abort, EndRead
<1>5. CASE \/ \E v \in Volumes : Mount(v)
           \/ Unmount \/ \E f \in Files : Open(f)
           \/ \E p \in Sizes : Seek(p)
  <2>1. ~(pc' = "read")
    BY <1>5 DEF Mount, Unmount, Open, Seek, call
  <2> QED BY <1>2, <2>1
<1>6. CASE UNCHANGED vars
  BY <1>6 DEF IInv, HandsOverTheFile, Handed, InFirst4GB, inode, vars, call
<1> QED BY <1>1, <1>3, <1>4, <1>5, <1>6 DEF Next

-----------------------------------------------------------------------------
(* ext2fs_read() (ext2fs.c) hands over the contents of the open file: each *)
(* piece up to ind2lim is from the block the inode, its indirect and       *)
(* double-indirect blocks give for its position, whatever the caches held  *)
(* before, and each piece lies in one block and before the end of the      *)
(* file, with mounts, failures and abort keys in any order.                *)
THEOREM FileHandedOver == Spec => []HandsOverTheFile
<1>1. Init => IInv
  <2> SUFFICES ASSUME Init PROVE IInv
    OBVIOUS
  <2>1. TypeInv /\ PositionInv /\ CacheInv
    BY VolumesAssumption DEF Init, TypeInv, PositionInv, CacheInv, Holds
  <2>2. HandsOverTheFile
    BY DEF Init, HandsOverTheFile, Handed
  <2> QED BY <2>1, <2>2 DEF IInv
<1>2. IInv /\ [Next]_vars => IInv'
  BY TypeStep, PositionStep, CacheStep, HandOverStep DEF IInv
<1>3. IInv => HandsOverTheFile
  BY DEF IInv
<1> QED BY <1>1, <1>2, <1>3, PTL DEF Spec

(* try_disk_boot() composes its parts without disturbing them: whatever    *)
(* probe, table and file do one after the other, each of them does what it *)
(* does alone, so that what is proved of each of them holds in the whole.  *)
THEOREM VolumeImplementsParts ==
  VolumeSpec => Spec /\ GptSpec /\ ScanInit /\ [][ScanNext]_scan_vars
<1>1. VolumeInit => Init /\ GptInit /\ ScanInit
  <2> SUFFICES ASSUME VolumeInit PROVE Init /\ GptInit /\ ScanInit
    OBVIOUS
  <2>1. PICK m \in Machines : type = m.type /\ config = m.config /\ image = m.image
    BY DEF VolumeInit
  <2>2. m \in [type : Types, config : [0..(Buses - 1) -> [0..(Slots - 1) -> Devices]],
               image : Images]
    BY MachinesAssumption
  <2> QED BY <2>1, <2>2 DEF VolumeInit, GptInit, ScanInit
<1>2. ASSUME [VolumeNext]_volume_vars
      PROVE  [Next]_vars /\ [GptNext]_gpt_vars /\ [ScanNext]_scan_vars
  BY <1>2 DEF VolumeNext, ProbeStep, TableStep, FileStep, volume_vars
<1> QED BY <1>1, <1>2, PTL DEF VolumeSpec, Spec, GptSpec

(* What is handed over is the file, also when it is reached by way of a    *)
(* probe of the bus and a table of partitions.                             *)
THEOREM VolumeHandedOver == VolumeSpec => []HandsOverTheFile
  BY VolumeImplementsParts, FileHandedOver, PTL
=============================================================================
