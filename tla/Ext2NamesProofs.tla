-------------------------- MODULE Ext2NamesProofs ---------------------------
(***************************************************************************)
(* Proofs about Ext2Names, for any tree of directories and links, any      *)
(* paths, any number of slots in the inode table and any number of calls.  *)
(***************************************************************************)
EXTENDS Ext2Names, FiniteSetTheorems, SequenceTheorems, WellFoundedInduction, TLAPS

Walking == {"namei", "open", "hang"}

TypeInv ==
  /\ inode_table \in [Slots -> Inodes \cup {Free}]
  /\ fds \in [Slots -> Inodes \cup {Free}]
  /\ root_inode \in Slots \cup {NoSlot}
  /\ links \in 0..MaxOpenFiles
  /\ pc \in Walking \cup {"idle"}

(* A walk has a slot in use, which is no open file's unless the root's.    *)
WalkInv ==
  pc # "idle" => ip \in Used /\ (ip \in OpenFds => ip = root_inode)

(* Slots that are neither the root's nor an open file's nor the walk's.    *)
Leaked == Used \ (OpenFds \cup {root_inode})
LeakInv ==
  /\ pc = "idle" => Cardinality(Leaked) <= links
  /\ pc # "idle" => Cardinality(Leaked \ {ip}) <= links

IInv == TypeInv /\ DescriptorsKeepTheirInode /\ WalkInv /\ LeakInv

-----------------------------------------------------------------------------
(* The natural numbers are well-ordered.                                   *)
LEMMA NatOrder ==
  \E R : IsWellFoundedOn(R, Nat) /\ \A x, y \in Nat : x < y => <<x, y>> \in R
<1> DEFINE R == OpToRel(<, Nat)
<1>1. IsWellFoundedOn(R, Nat)
  BY NatLessThanWellFounded, Zenon
<1>2. \A x, y \in Nat : x < y => <<x, y>> \in R
  BY Zenon DEF OpToRel
<1> HIDE DEF R
<1> QED BY <1>1, <1>2

LEMMA Least ==
  ASSUME NEW T, T \subseteq Nat, T # {}
  PROVE  \E m \in T : \A n \in T : ~(n < m)
<1>1. PICK R : IsWellFoundedOn(R, Nat) /\ \A x, y \in Nat : x < y => <<x, y>> \in R
  BY NatOrder, Zenon
<1>2. IsWellFoundedOn(R, Nat)
  BY <1>1
<1>3. PICK m \in T : \A n \in T : ~(<<n, m>> \in R)
  BY <1>2, WFMin, Zenon
<1>4. \A n \in T : ~(n < m)
  BY <1>1, <1>3
<1> QED BY <1>4

(* ext2_iget() finds a slot that is free, if there is one.                 *)
LEMMA FirstFreeIsFree ==
  ASSUME NEW t, HasFree(t)
  PROVE  FirstFree(t) \in Slots /\ t[FirstFree(t)] = Free
<1> DEFINE T == { s \in Slots : t[s] = Free }
<1>1. Slots \subseteq Nat /\ MaxOpenFiles \in Nat
  BY BoundsAssumption DEF Slots
<1>2. T \subseteq Nat /\ T # {}
  BY <1>1 DEF HasFree
<1>3. PICK m \in T : \A n \in T : ~(n < m)
  BY <1>2, Least
<1>4. ASSUME NEW r \in 1..(m - 1) PROVE t[r] # Free
  <2>1. m \in Slots /\ m \in Nat /\ r \in Slots /\ r < m
    BY <1>1, <1>3 DEF Slots
  <2> QED BY <1>3, <2>1
<1>5. \E s \in Slots : t[s] = Free /\ \A r \in 1..(s - 1) : t[r] # Free
  BY <1>3, <1>4
<1> QED BY <1>5 DEF FirstFree

-----------------------------------------------------------------------------
LEMMA FiniteSlots ==
  IsFiniteSet(Slots) /\ Cardinality(Slots) = MaxOpenFiles
<1>1. 1 \in Int /\ MaxOpenFiles \in Int /\ MaxOpenFiles >= 1
  BY BoundsAssumption
<1> QED BY <1>1, FS_Interval DEF Slots

LEMMA SlotSets ==
  ASSUME NEW S, S \subseteq Slots
  PROVE  /\ IsFiniteSet(S) /\ Cardinality(S) \in Nat /\ Cardinality(S) <= MaxOpenFiles
         /\ \A T : T \subseteq S => Cardinality(T) <= Cardinality(S)
<1>1. S \in SUBSET Slots
  OBVIOUS
<1>2. IsFiniteSet(S) /\ Cardinality(S) <= MaxOpenFiles
  BY <1>1, FiniteSlots, FS_Subset
<1>3. ASSUME NEW T, T \subseteq S PROVE Cardinality(T) <= Cardinality(S)
  <2>1. T \in SUBSET S
    BY <1>3
  <2> QED BY <1>2, <2>1, FS_Subset
<1> QED BY <1>2, <1>3, FS_CardinalityType

(* One slot more is one leak more; never more than there are slots.        *)
LEMMA OneMoreLeak ==
  ASSUME NEW S, S \subseteq Slots, NEW x, links \in 0..MaxOpenFiles,
         Cardinality(S \ {x}) <= links
  PROVE  Cardinality(S) <= NextLinks /\ NextLinks \in 0..MaxOpenFiles
<1>1. IsFiniteSet(S) /\ Cardinality(S) \in Nat /\ Cardinality(S) <= MaxOpenFiles
  BY SlotSets
<1>2. Cardinality(S \ {x}) = IF x \in S THEN Cardinality(S) - 1 ELSE Cardinality(S)
  BY <1>1, FS_RemoveElement
<1> QED BY <1>1, <1>2, BoundsAssumption DEF NextLinks

-----------------------------------------------------------------------------
(* Starting a walk.  Leaks that are accounted for stay so: the slot the    *)
(* root may take is its own.                                               *)
LEMMA StartWalkKeeps ==
  ASSUME TypeInv, DescriptorsKeepTheirInode, NEW p, StartWalk(p, inode_table),
         UNCHANGED fds, links' \in 0..MaxOpenFiles, Cardinality(Leaked) <= links'
  PROVE  IInv'
<1> USE DEF TypeInv, DescriptorsKeepTheirInode
<1>1. NoSlot \notin Slots /\ Root \in Inodes /\ Free \notin Inodes /\ Leaked \subseteq Slots
  BY TreeAssumption DEF NoSlot, Slots, Leaked, Used
<1>2. OpenFds' = OpenFds
  BY DEF OpenFds
<1>3. \A T : T \subseteq Leaked => Cardinality(T) <= links'
  <2>1. ASSUME NEW T, T \subseteq Leaked PROVE Cardinality(T) <= links'
    <3>1. Cardinality(T) <= Cardinality(Leaked)
      BY <1>1, <2>1, SlotSets
    <3>2. T \subseteq Slots
      BY <1>1, <2>1
    <3>3. Cardinality(Leaked) \in Nat /\ Cardinality(T) \in Nat /\ links' \in Int
      BY <1>1, <3>2, SlotSets
    <3> QED BY <3>1, <3>3
  <2> QED BY <2>1
<1>4. CASE /\ root_inode # NoSlot /\ ip' = root_inode /\ pc' = "namei"
           /\ inode_table' = inode_table /\ UNCHANGED root_inode
  <2>1. Used' = Used /\ Leaked' = Leaked /\ root_inode \in Used
    BY <1>1, <1>2, <1>4 DEF Used, Leaked
  <2>2. (Leaked \ {ip})' \subseteq Leaked
    BY <2>1
  <2>3. TypeInv' /\ DescriptorsKeepTheirInode' /\ WalkInv'
    BY <1>2, <1>4, <2>1 DEF WalkInv, Walking
  <2> QED BY <1>3, <1>4, <2>2, <2>3 DEF IInv, LeakInv
<1>5. CASE /\ root_inode = NoSlot /\ HasFree(inode_table) /\ pc' = "namei"
           /\ root_inode' = FirstFree(inode_table) /\ ip' = FirstFree(inode_table)
           /\ inode_table' = Iget(inode_table, Root)
  <2> DEFINE f == FirstFree(inode_table)
  <2>1. f \in Slots /\ inode_table[f] = Free
    BY <1>5, FirstFreeIsFree
  <2> HIDE DEF f
  <2>2. inode_table' = [inode_table EXCEPT ![f] = Root] /\ root_inode' = f /\ ip' = f
    BY <1>5 DEF Iget, f
  <2>3. f \notin OpenFds
    BY <2>1 DEF OpenFds
  <2>4. TypeInv' /\ Used' = Used \cup {f}
    BY <1>1, <1>5, <2>1, <2>2 DEF Used, Walking
  <2>5. (Leaked \ {ip})' \subseteq Leaked
    BY <1>1, <1>2, <1>5, <2>2, <2>4 DEF Leaked, Used
  <2>6. DescriptorsKeepTheirInode'
    BY <1>1, <1>2, <2>1, <2>2, <2>3, <2>4 DEF OpenFds
  <2>7. WalkInv'
    BY <2>2, <2>4 DEF WalkInv
  <2> QED BY <1>3, <1>5, <2>4, <2>5, <2>6, <2>7 DEF IInv, LeakInv
<1>6. CASE pc' = "idle" /\ inode_table' = inode_table /\ UNCHANGED root_inode
  <2>1. Used' = Used /\ Leaked' = Leaked
    BY <1>2, <1>6 DEF Used, Leaked
  <2>2. TypeInv' /\ DescriptorsKeepTheirInode' /\ WalkInv'
    BY <1>2, <1>6, <2>1 DEF WalkInv
  <2> QED BY <1>6, <2>1, <2>2 DEF IInv, LeakInv
<1> QED BY <1>4, <1>5, <1>6 DEF StartWalk

LEMMA OpenKeeps ==
  ASSUME IInv, NEW p \in Paths, Open(p)
  PROVE  IInv'
<1>1. /\ StartWalk(p, inode_table) /\ UNCHANGED fds /\ links' = links
      /\ Cardinality(Leaked) <= links
  BY DEF Open, IInv, LeakInv
<1> QED BY <1>1, StartWalkKeeps DEF IInv, TypeInv

(* A link keeps its slot, which is one leak more.                          *)
LEMMA LinkLeaks ==
  ASSUME IInv, pc = "open"
  PROVE  Cardinality(Leaked) <= NextLinks /\ NextLinks \in 0..MaxOpenFiles
<1>1. Leaked \subseteq Slots /\ Cardinality(Leaked \ {ip}) <= links /\ links \in 0..MaxOpenFiles
  BY DEF IInv, LeakInv, TypeInv, Leaked, Used
<1> QED BY <1>1, OneMoreLeak

LEMMA FollowLinkKeeps == IInv /\ FollowLink => IInv'
<1> SUFFICES ASSUME IInv, FollowLink PROVE IInv'
  OBVIOUS
<1>1. PICK p : StartWalk(p, inode_table)
  BY DEF FollowLink, AfterLink
<1>2. UNCHANGED fds /\ links' = NextLinks /\ pc = "open"
  BY DEF FollowLink
<1>3. links' \in 0..MaxOpenFiles /\ Cardinality(Leaked) <= links'
  BY <1>2, LinkLeaks
<1> QED BY <1>1, <1>2, <1>3, StartWalkKeeps DEF IInv

LEMMA FollowLinkFailsKeeps == IInv /\ FollowLinkFails => IInv'
<1> SUFFICES ASSUME IInv, FollowLinkFails PROVE IInv'
  OBVIOUS
<1>1. /\ pc = "open" /\ pc' = "idle" /\ links' = NextLinks
      /\ UNCHANGED <<inode_table, root_inode, fds, ip>>
  BY DEF FollowLinkFails
<1>2. links' \in 0..MaxOpenFiles /\ Cardinality(Leaked) <= links'
  BY <1>1, LinkLeaks
<1>3. Used' = Used /\ OpenFds' = OpenFds /\ Leaked' = Leaked
  BY <1>1 DEF Used, OpenFds, Leaked
<1>4. TypeInv' /\ DescriptorsKeepTheirInode' /\ WalkInv'
  BY <1>1, <1>2, <1>3 DEF IInv, TypeInv, DescriptorsKeepTheirInode, WalkInv
<1> QED BY <1>1, <1>2, <1>3, <1>4 DEF IInv, LeakInv

-----------------------------------------------------------------------------
(* A directory given back: neither an open file nor the root loses its     *)
(* slot.                                                                   *)
LEMMA IputDirKeeps ==
  ASSUME IInv, pc # "idle"
  PROVE  /\ IputDir \in [Slots -> Inodes \cup {Free}]
         /\ \A s \in OpenFds : IputDir[s] = fds[s]
         /\ root_inode # NoSlot => IputDir[root_inode] = Root
         /\ \A s \in Slots : IputDir[s] # Free /\ s \notin OpenFds \cup {root_inode}
                               => s \in Leaked \ {ip}
<1>1. ip \in Slots /\ ip \in Used /\ (ip \in OpenFds => ip = root_inode)
  BY DEF IInv, WalkInv, Used
<1>2. CASE ip = root_inode
  BY <1>1, <1>2 DEF IInv, TypeInv, DescriptorsKeepTheirInode, IputDir, Leaked, Used
<1>3. CASE ip # root_inode
  <2>1. IputDir = [inode_table EXCEPT ![ip] = Free] /\ ip \notin OpenFds
    BY <1>1, <1>3 DEF IputDir
  <2>2. IputDir \in [Slots -> Inodes \cup {Free}]
    BY <1>1, <2>1 DEF IInv, TypeInv
  <2>3. \A s \in OpenFds : s \in Slots /\ IputDir[s] = fds[s]
    BY <1>1, <2>1 DEF IInv, TypeInv, DescriptorsKeepTheirInode, OpenFds
  <2>4. root_inode # NoSlot => IputDir[root_inode] = Root
    BY <1>1, <1>3, <2>1 DEF IInv, TypeInv, DescriptorsKeepTheirInode
  <2>5. \A s \in Slots : IputDir[s] # Free /\ s \notin OpenFds \cup {root_inode}
                           => s \in Leaked \ {ip}
    BY <1>1, <2>1 DEF IInv, TypeInv, Leaked, Used
  <2> QED BY <2>2, <2>3, <2>4, <2>5
<1> QED BY <1>2, <1>3

(* What was leaked before bounds what is leaked now.                       *)
LEMMA NoMoreLeaks ==
  ASSUME IInv, pc # "idle", NEW T, T \subseteq Leaked \ {ip}
  PROVE  Cardinality(T) <= links
<1>1. Leaked \ {ip} \subseteq Slots /\ T \subseteq Slots
  BY DEF Leaked, Used
<1>2. Cardinality(T) <= Cardinality(Leaked \ {ip}) /\ Cardinality(Leaked \ {ip}) <= links
  BY <1>1, SlotSets DEF IInv, LeakInv
<1>3. Cardinality(T) \in Nat /\ Cardinality(Leaked \ {ip}) \in Nat /\ links \in Int
  BY <1>1, SlotSets DEF IInv, TypeInv
<1> QED BY <1>2, <1>3

LEMMA StepKeeps == IInv /\ Step => IInv'
<1> SUFFICES ASSUME IInv, Step PROVE IInv'
  OBVIOUS
<1> DEFINE u == IputDir
           f == FirstFree(u)
<1>1. PICK ino \in Inodes : inode_table' = Iget(u, ino) /\ ip' = f
  BY DEF Step
<1>2. f \in Slots /\ u[f] = Free
  BY FirstFreeIsFree DEF Step
<1>3. /\ u \in [Slots -> Inodes \cup {Free}] /\ \A s \in OpenFds : u[s] = fds[s]
      /\ root_inode # NoSlot => u[root_inode] = Root
      /\ \A s \in Slots : u[s] # Free /\ s \notin OpenFds \cup {root_inode}
                            => s \in Leaked \ {ip}
  BY IputDirKeeps DEF Step
<1>4. inode_table' = [u EXCEPT ![f] = ino]
  BY <1>1 DEF Iget
<1> HIDE DEF u, f
<1>5. pc = "namei" /\ UNCHANGED <<pc, root_inode, fds, links>>
  BY DEF Step
<1>6. OpenFds' = OpenFds /\ OpenFds \subseteq Slots
  BY <1>5 DEF OpenFds
<1>7. Free \notin Inodes /\ Root \in Inodes
  BY TreeAssumption
<1>8. f \notin OpenFds /\ f # root_inode
  <2>1. f \notin OpenFds
    BY <1>2, <1>3 DEF OpenFds
  <2>2. f # NoSlot
    BY <1>2 DEF Slots, NoSlot
  <2> QED BY <1>2, <1>3, <1>7, <2>1, <2>2
<1>9. TypeInv'
  BY <1>2, <1>3, <1>4, <1>5 DEF IInv, TypeInv
<1>10. f \in Used'
  BY <1>2, <1>3, <1>4, <1>7 DEF Used
<1>11. DescriptorsKeepTheirInode'
  <2>1. \A s \in OpenFds' : inode_table'[s] = fds'[s]
    BY <1>3, <1>4, <1>5, <1>6, <1>8
  <2>2. root_inode' # NoSlot => inode_table'[root_inode'] = Root
    BY <1>3, <1>4, <1>5, <1>8 DEF IInv, TypeInv
  <2> QED BY <1>1, <1>10, <2>1, <2>2 DEF DescriptorsKeepTheirInode
<1>12. WalkInv'
  BY <1>1, <1>6, <1>8, <1>10 DEF WalkInv
<1>13. (Leaked \ {ip})' \subseteq Leaked \ {ip}
  <2>1. ASSUME NEW s \in (Leaked \ {ip})' PROVE s \in Leaked \ {ip}
    <3>1. s \in Slots /\ inode_table'[s] # Free /\ s \notin OpenFds \cup {root_inode} /\ s # f
      BY <1>1, <1>5, <1>6, <2>1 DEF Leaked, Used
    <3>2. u[s] # Free
      BY <1>3, <1>4, <3>1
    <3> QED BY <1>3, <3>1, <3>2
  <2> QED BY <2>1
<1>14. Cardinality((Leaked \ {ip})') <= links
  BY <1>5, <1>13, NoMoreLeaks
<1> QED BY <1>5, <1>9, <1>11, <1>12, <1>14 DEF IInv, LeakInv

LEMMA StepFailsKeeps == IInv /\ StepFails => IInv'
<1> SUFFICES ASSUME IInv, StepFails PROVE IInv'
  OBVIOUS
<1> DEFINE u == IputDir
<1>1. /\ pc = "namei" /\ pc' = "idle" /\ inode_table' = u
      /\ UNCHANGED <<root_inode, fds, links>>
  BY DEF StepFails
<1>2. /\ u \in [Slots -> Inodes \cup {Free}] /\ \A s \in OpenFds : u[s] = fds[s]
      /\ root_inode # NoSlot => u[root_inode] = Root
      /\ \A s \in Slots : u[s] # Free /\ s \notin OpenFds \cup {root_inode}
                            => s \in Leaked \ {ip}
  BY <1>1, IputDirKeeps
<1> HIDE DEF u
<1>3. OpenFds' = OpenFds
  BY <1>1 DEF OpenFds
<1>4. TypeInv' /\ DescriptorsKeepTheirInode' /\ WalkInv'
  BY <1>1, <1>2, <1>3 DEF IInv, TypeInv, DescriptorsKeepTheirInode, WalkInv
<1>5. Leaked' \subseteq Leaked \ {ip}
  BY <1>1, <1>2, <1>3 DEF Leaked, Used
<1>6. Cardinality(Leaked') <= links
  BY <1>1, <1>5, NoMoreLeaks
<1> QED BY <1>1, <1>4, <1>6 DEF IInv, LeakInv

-----------------------------------------------------------------------------
LEMMA OpenedKeeps == IInv /\ Opened => IInv'
<1> SUFFICES ASSUME IInv, Opened PROVE IInv'
  OBVIOUS
<1>1. /\ pc = "open" /\ pc' = "idle" /\ fds' = [fds EXCEPT ![ip] = inode_table[ip]]
      /\ UNCHANGED <<inode_table, root_inode, links>>
  BY DEF Opened
<1>2. ip \in Slots /\ inode_table[ip] # Free
  BY <1>1 DEF IInv, WalkInv, Used
<1>3. OpenFds' = OpenFds \cup {ip} /\ Used' = Used
  BY <1>1, <1>2 DEF OpenFds, Used, IInv, TypeInv
<1>4. TypeInv'
  BY <1>1, <1>2 DEF IInv, TypeInv
<1>5. DescriptorsKeepTheirInode' /\ WalkInv'
  BY <1>1, <1>2, <1>3 DEF IInv, TypeInv, DescriptorsKeepTheirInode, WalkInv, OpenFds
<1>6. Leaked' \subseteq Leaked \ {ip}
  BY <1>1, <1>3 DEF Leaked
<1>7. Cardinality(Leaked') <= links
  BY <1>1, <1>6, NoMoreLeaks
<1> QED BY <1>1, <1>4, <1>5, <1>7 DEF IInv, LeakInv

LEMMA CloseKeeps ==
  ASSUME IInv, NEW s \in Slots, Close(s)
  PROVE  IInv'
<1>1. /\ pc = "idle" /\ fds[s] # Free /\ fds' = [fds EXCEPT ![s] = Free]
      /\ inode_table' = IF s = root_inode THEN inode_table ELSE [inode_table EXCEPT ![s] = Free]
      /\ UNCHANGED <<pc, root_inode, links>>
  BY DEF Close
<1>2. TypeInv'
  BY <1>1 DEF IInv, TypeInv
<1>3. OpenFds' = OpenFds \ {s}
  BY <1>1 DEF OpenFds, IInv, TypeInv
<1>4. DescriptorsKeepTheirInode' /\ WalkInv'
  BY <1>1, <1>3 DEF IInv, TypeInv, DescriptorsKeepTheirInode, WalkInv, OpenFds
<1>5. Leaked' \subseteq Leaked /\ Leaked \subseteq Slots
  BY <1>1, <1>3 DEF Leaked, Used, IInv, TypeInv
<1>6. Cardinality(Leaked') <= links
  <2>1. Cardinality(Leaked') <= Cardinality(Leaked) /\ Cardinality(Leaked) <= links
    BY <1>1, <1>5, SlotSets DEF IInv, LeakInv
  <2>2. Leaked' \subseteq Slots
    BY <1>5
  <2>3. Cardinality(Leaked') \in Nat /\ Cardinality(Leaked) \in Nat /\ links \in Int
    BY <1>5, <2>2, SlotSets DEF IInv, TypeInv
  <2> QED BY <2>1, <2>3
<1> QED BY <1>1, <1>2, <1>4, <1>6 DEF IInv, LeakInv

(* The steps that leave the table alone.                                   *)
LEMMA QuietStep ==
  ASSUME IInv, UNCHANGED <<inode_table, root_inode, ip, fds, links>>,
         (pc = "idle") <=> (pc' = "idle"), pc' \in Walking \cup {"idle"}
  PROVE  IInv'
<1>1. Used' = Used /\ OpenFds' = OpenFds /\ Leaked' = Leaked
  BY DEF Used, OpenFds, Leaked
<1>2. TypeInv' /\ DescriptorsKeepTheirInode' /\ WalkInv'
  BY <1>1 DEF IInv, TypeInv, DescriptorsKeepTheirInode, WalkInv
<1>3. LeakInv'
  BY <1>1 DEF IInv, LeakInv
<1> QED BY <1>2, <1>3 DEF IInv

LEMMA InitEstablishes == Init => IInv
<1> SUFFICES ASSUME Init PROVE IInv
  OBVIOUS
<1>1. TypeInv
  BY BoundsAssumption DEF Init, TypeInv
<1>2. DescriptorsKeepTheirInode /\ WalkInv
  BY DEF Init, DescriptorsKeepTheirInode, WalkInv, OpenFds
<1>3. Leaked = {}
  BY DEF Init, Leaked, Used
<1>4. Cardinality(Leaked) = 0
  BY <1>3, FS_EmptySet
<1> QED BY <1>1, <1>2, <1>4 DEF Init, IInv, LeakInv

LEMMA NextPreserves == IInv /\ [Next]_vars => IInv'
<1> SUFFICES ASSUME IInv, [Next]_vars PROVE IInv'
  OBVIOUS
<1>1. CASE SearchHangs \/ WalkDone
  BY <1>1, QuietStep DEF SearchHangs, WalkDone, Walking
<1>2. CASE UNCHANGED vars
  BY <1>2, QuietStep DEF vars, IInv, TypeInv
<1> QED BY <1>1, <1>2, OpenKeeps, CloseKeeps, StepKeeps, StepFailsKeeps, FollowLinkKeeps,
           FollowLinkFailsKeeps, OpenedKeeps DEF Next, Finished

(* ext2fs.c: the slots of the inode table behind open descriptors and the  *)
(* root are never given to another inode, whatever walks, failures, links  *)
(* and closes come between; and between two calls no slot is lost but to a *)
(* symbolic link that was followed, one each.                              *)
THEOREM TableSound == Spec => []InodeTableSound
<1>1. IInv => InodeTableSound
  BY DEF IInv, LeakInv, Leaked, InodeTableSound, SlotsAccountedFor
<1> QED BY <1>1, InitEstablishes, NextPreserves, PTL DEF Spec

-----------------------------------------------------------------------------
(* Which file is opened.  The inode reached, with what is left of the path *)
(* walked along, stands for the same as the path opened, unless it is a    *)
(* link that is about to be taken for a directory.                         *)
Here == inode_table[ip]
Wanted == Finds[<<Root, opening>>]

NamesInv ==
  exact =>
    /\ pc = "namei" => walk = <<>> \/ walk \in Trails
    /\ pc = "namei" /\ walk # <<>> => Here \in DOMAIN Link \/ Finds[<<Here, walk>>] = Wanted
    /\ pc = "open" \/ (pc = "namei" /\ walk = <<>>) => Target(Here, parent) = Wanted

ResultInv == pc # "idle" => result = "none"

OpenInv == NamesInv /\ ResultInv /\ OpensTheNamedFile

(* A trail is left along its tail.                                         *)
LEMMA TrailTail ==
  ASSUME NEW q \in Trails
  PROVE  q # <<>> /\ (Tail(q) = <<>> \/ Tail(q) \in Trails)
<1> DEFINE All == Paths \cup { Link[l].path : l \in DOMAIN Link }
<1>1. PICK p \in All : \E k \in 1..Len(p) : q = SubSeq(p, k, Len(p))
  BY DEF Trails
<1>0. PICK k \in 1..Len(p) : q = SubSeq(p, k, Len(p))
  BY <1>1
<1>2. p \in Seq(Names)
  BY TreeAssumption DEF LinkType
<1> HIDE DEF All
<1>3. Len(p) \in Nat /\ k \in Nat /\ k <= Len(p)
  BY <1>0, <1>1, <1>2
<1>4. Tail(q) = SubSeq(p, k + 1, Len(p))
  BY <1>0, <1>2, <1>3, HeadTailOfSubSeq
<1>5. q # <<>>
  <2>1. \A i \in k..Len(p) : p[i] \in Names
    BY <1>2, <1>3
  <2>2. Len(q) = Len(p) - k + 1
    BY <1>0, <1>3, <2>1, SubSeqProperties
  <2> QED BY <1>3, <2>2
<1>6. CASE k = Len(p)
  BY <1>3, <1>4, <1>5, <1>6, SubSeqEmpty
<1>7. CASE k # Len(p)
  <2>1. k + 1 \in 1..Len(p)
    BY <1>3, <1>7
  <2>2. Tail(q) \in { SubSeq(p, j, Len(p)) : j \in 1..Len(p) }
    BY <1>4, <2>1
  <2>3. Trails = UNION { { SubSeq(x, j, Len(x)) : j \in 1..Len(x) } : x \in All }
    BY DEF Trails, All
  <2>4. { SubSeq(p, j, Len(p)) : j \in 1..Len(p) } \in
        { { SubSeq(x, j, Len(x)) : j \in 1..Len(x) } : x \in All }
    OBVIOUS
  <2>5. Tail(q) \in Trails
    BY <2>2, <2>3, <2>4, Zenon
  <2> QED BY <1>5, <2>5
<1> QED BY <1>6, <1>7

LEMMA WholeTrail ==
  ASSUME NEW p \in Paths \cup { Link[l].path : l \in DOMAIN Link }
  PROVE  p \in Trails
<1>1. p \in Seq(Names) /\ p # <<>>
  BY TreeAssumption DEF LinkType
<1>2. 1 \in 1..Len(p) /\ p = SubSeq(p, 1, Len(p))
  BY <1>1
<1> QED BY <1>2 DEF Trails

(* The search in a directory is a step of the resolution.                  *)
LEMMA ResolvesStep ==
  ASSUME NEW d \in Inodes \cup {Free}, NEW q \in Trails
  PROVE  /\ d \notin DOMAIN Dir => Finds[<<d, q>>] = Free
         /\ d \in DOMAIN Dir /\ Head(q) \notin DOMAIN Dir[d] => Finds[<<d, q>>] = Free
         /\ d \in DOMAIN Dir /\ Head(q) \in DOMAIN Dir[d] =>
              LET t == Target(Dir[d][Head(q)], d)
              IN  Finds[<<d, q>>] = IF Tail(q) = <<>> THEN t ELSE Finds[<<t, Tail(q)>>]
  BY ResolutionAssumption

(* A walk starts in the root.                                              *)
LEMMA StartWalkIs ==
  ASSUME IInv, NEW p, StartWalk(p, inode_table)
  PROVE  \/ pc' = "namei" /\ result' = "none" /\ walk' = p /\ Here' = Root
         \/ pc' = "idle" /\ result' = "error"
<1>1. CASE root_inode # NoSlot
  <2>1. inode_table[root_inode] = Root
    BY <1>1 DEF IInv, DescriptorsKeepTheirInode
  <2> QED BY <1>1, <2>1 DEF StartWalk, Here
<1>2. CASE root_inode = NoSlot /\ pc' # "idle"
  <2>1. /\ HasFree(inode_table) /\ ip' = FirstFree(inode_table) /\ inode_table' = Iget(inode_table, Root)
        /\ walk' = p /\ pc' = "namei" /\ result' = "none"
    BY <1>2 DEF StartWalk
  <2>2. FirstFree(inode_table) \in Slots
    BY <2>1, FirstFreeIsFree
  <2>3. Here' = Root
    BY <2>1, <2>2 DEF Here, Iget, IInv, TypeInv
  <2> QED BY <2>1, <2>3
<1>3. CASE root_inode = NoSlot /\ pc' = "idle"
  BY <1>3 DEF StartWalk
<1> QED BY <1>1, <1>2, <1>3

LEMMA WalkOpens ==
  ASSUME IInv, NEW p, StartWalk(p, inode_table),
         exact' => p \in Trails /\ Finds[<<Root, p>>] = Wanted'
  PROVE  OpenInv'
<1>1. CASE pc' = "namei" /\ result' = "none" /\ walk' = p /\ Here' = Root
  <2>1. exact' => walk' # <<>>
    BY <1>1, TrailTail
  <2>2. NamesInv'
    BY <1>1, <2>1 DEF NamesInv
  <2> QED BY <1>1, <2>2 DEF OpenInv, ResultInv, OpensTheNamedFile
<1>2. CASE pc' = "idle" /\ result' = "error"
  BY <1>2 DEF OpenInv, NamesInv, ResultInv, OpensTheNamedFile
<1> QED BY <1>1, <1>2, StartWalkIs

LEMMA OpenOpens ==
  ASSUME IInv, NEW p \in Paths, Open(p)
  PROVE  OpenInv'
<1>1. StartWalk(p, inode_table) /\ opening' = p
  BY DEF Open
<1> QED BY <1>1, WholeTrail, WalkOpens DEF Wanted

LEMMA StepOpens ==
  ASSUME IInv, OpenInv, Step
  PROVE  OpenInv'
<1>1. PICK ino \in Inodes :
        /\ IF IsDir THEN Found /\ ino = Dir[Here][Head(walk)] ELSE TRUE
        /\ inode_table' = Iget(IputDir, ino) /\ ip' = FirstFree(IputDir)
  BY DEF Step, Here
<1>2. /\ pc = "namei" /\ walk # <<>> /\ walk' = Tail(walk) /\ parent' = Here
      /\ exact' = (exact /\ IsDir) /\ UNCHANGED <<pc, opening, result>> /\ result = "none"
  BY DEF Step, Here, OpenInv, ResultInv
<1>3. Here' = ino
  <2>1. FirstFree(IputDir) \in Slots /\ IputDir \in [Slots -> Inodes \cup {Free}]
    BY <1>2, FirstFreeIsFree, IputDirKeeps DEF Step
  <2> QED BY <1>1, <2>1 DEF Here, Iget
<1>4. ASSUME exact'
      PROVE  /\ walk' = <<>> \/ walk' \in Trails
             /\ walk' # <<>> => ino \in DOMAIN Link \/ Finds[<<ino, walk'>>] = Wanted
             /\ walk' = <<>> => Target(ino, Here) = Wanted
  <2>1. exact /\ Here \in DOMAIN Dir /\ Head(walk) \in DOMAIN Dir[Here] /\ ino = Dir[Here][Head(walk)]
    BY <1>1, <1>2, <1>4 DEF IsDir, Found, Here
  <2>2. walk \in Trails /\ Here \notin DOMAIN Link /\ Here \in Inodes
    BY <1>2, <2>1, TreeAssumption DEF OpenInv, NamesInv
  <2>3. Finds[<<Here, walk>>] = Wanted
    BY <1>2, <2>1, <2>2 DEF OpenInv, NamesInv
  <2>4. Wanted = IF Tail(walk) = <<>> THEN Target(ino, Here)
                 ELSE Finds[<<Target(ino, Here), Tail(walk)>>]
    BY <2>1, <2>2, <2>3, ResolvesStep
  <2> QED BY <1>2, <2>2, <2>4, TrailTail DEF Target
<1>5. Wanted' = Wanted
  BY <1>2 DEF Wanted
<1>6. NamesInv'
  BY <1>2, <1>3, <1>4, <1>5 DEF NamesInv, Target
<1> QED BY <1>2, <1>6 DEF OpenInv, ResultInv, OpensTheNamedFile

LEMMA StepFailsOpens ==
  ASSUME IInv, OpenInv, StepFails
  PROVE  OpenInv'
<1>1. /\ pc = "namei" /\ walk # <<>> /\ pc' = "idle" /\ result' = (IF Found THEN "error" ELSE "notFound")
      /\ exact' = (exact /\ ~IsLink) /\ opening' = opening
  BY DEF StepFails
<1>2. ASSUME exact', ~Found
      PROVE  Wanted = Free
  <2>1. exact /\ Here \notin DOMAIN Link
    BY <1>1, <1>2 DEF IsLink, Here
  <2>2. walk \in Trails /\ Finds[<<Here, walk>>] = Wanted
    BY <1>1, <2>1 DEF OpenInv, NamesInv
  <2>3. Here \in Inodes \cup {Free}
    BY <1>1 DEF IInv, WalkInv, Used, TypeInv, Here
  <2> QED BY <1>2, <2>2, <2>3, ResolvesStep DEF Found, IsDir, Here
<1>3. OpensTheNamedFile'
  BY <1>1, <1>2 DEF OpensTheNamedFile, Wanted
<1> QED BY <1>1, <1>3 DEF OpenInv, NamesInv, ResultInv

LEMMA FollowLinkOpens ==
  ASSUME IInv, OpenInv, FollowLink
  PROVE  OpenInv'
<1>1. PICK p \in IF link.long THEN [1..Len(link.path) -> Names] ELSE {link.path} :
        StartWalk(p, inode_table)
  BY DEF FollowLink, AfterLink
<1>2. /\ pc = "open" /\ Here \in DOMAIN Link /\ link = Link[Here] /\ opening' = opening
      /\ exact' = (exact /\ ~link.long /\ (link.abs \/ parent = Root))
  BY DEF FollowLink, IsLink, Here, link
<1>3. exact' => p \in Trails /\ Finds[<<Root, p>>] = Wanted'
  <2> SUFFICES ASSUME exact' PROVE p \in Trails /\ Finds[<<Root, p>>] = Wanted'
    OBVIOUS
  <2>1. exact /\ p = Link[Here].path /\ (Link[Here].abs \/ parent = Root)
    BY <1>1, <1>2
  <2>2. Target(Here, parent) = Wanted
    BY <1>2, <2>1 DEF OpenInv, NamesInv
  <2>3. Finds[<<Root, p>>] = Wanted
    BY <1>2, <2>1, <2>2 DEF Target
  <2>4. p \in Trails
    BY <1>2, <2>1, WholeTrail
  <2> QED BY <1>2, <2>3, <2>4 DEF Wanted
<1> QED BY <1>1, <1>3, WalkOpens

LEMMA OpenedOpens ==
  ASSUME OpenInv, Opened
  PROVE  OpenInv'
<1>1. /\ pc = "open" /\ Here \notin DOMAIN Link /\ pc' = "idle" /\ result' = "opened"
      /\ UNCHANGED <<inode_table, opening, ip, exact>>
  BY DEF Opened, IsLink, Here
<1>2. exact => Here = Wanted
  BY <1>1 DEF OpenInv, NamesInv, Target
<1> QED BY <1>1, <1>2 DEF OpenInv, NamesInv, ResultInv, OpensTheNamedFile, Here, Wanted

(* The steps that leave the walk where it is, and those that end it.       *)
LEMMA OtherOpens ==
  ASSUME OpenInv,
         WalkDone \/ SearchHangs \/ FollowLinkFails \/ (\E s \in Slots : Close(s)) \/ UNCHANGED vars
  PROVE  OpenInv'
<1>1. CASE WalkDone
  BY <1>1 DEF WalkDone, OpenInv, NamesInv, ResultInv, OpensTheNamedFile, Here, Wanted, Target
<1>2. CASE SearchHangs
  BY <1>2 DEF SearchHangs, OpenInv, NamesInv, ResultInv, OpensTheNamedFile, Wanted
<1>3. CASE FollowLinkFails
  BY <1>3 DEF FollowLinkFails, OpenInv, NamesInv, ResultInv, OpensTheNamedFile
<1>4. CASE \E s \in Slots : Close(s)
  BY <1>4 DEF Close, OpenInv, NamesInv, ResultInv, OpensTheNamedFile
<1>5. CASE UNCHANGED vars
  BY <1>5 DEF vars, OpenInv, NamesInv, ResultInv, OpensTheNamedFile, Here, Wanted, Target
<1> QED BY <1>1, <1>2, <1>3, <1>4, <1>5

(* ext2fs_open() (ext2fs.c) opens the file a path denotes and reports "not *)
(* found" only if there is none, outside the three kinds of links it does  *)
(* not read right: for any tree, any paths, and through any number of      *)
(* links.                                                                  *)
THEOREM RightFileOpened == Spec => []OpensTheNamedFile
<1>1. Init => OpenInv
  BY DEF Init, OpenInv, NamesInv, ResultInv, OpensTheNamedFile
<1>2. IInv /\ OpenInv /\ [Next]_vars => OpenInv'
  BY OpenOpens, StepOpens, StepFailsOpens, FollowLinkOpens, OpenedOpens, OtherOpens DEF Next, Finished
<1>3. OpenInv => OpensTheNamedFile
  BY DEF OpenInv
<1> QED BY <1>1, <1>2, <1>3, InitEstablishes, NextPreserves, PTL DEF Spec
=============================================================================
