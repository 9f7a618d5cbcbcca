----------------------------- MODULE Ext2Names ------------------------------
(***************************************************************************)
(* Finding files in main/e2/ext2fs.c: the table of inodes in use           *)
(* (ext2_iget, ext2_iput), the walk along a path (ext2_namei,              *)
(* ext2_readdiri), symbolic links (ext2_open, ext2_follow_link) and        *)
(* ext2fs_open() and ext2fs_close().  Module Ext2File models what is read  *)
(* from an open file.                                                      *)
(*                                                                         *)
(* A path is a sequence of names.  A directory is a function from names to *)
(* inode numbers.  A link has a target path, is absolute or relative, and  *)
(* short (kept in the inode) or long (kept in a block).  Every disk read   *)
(* may fail.                                                               *)
(***************************************************************************)
EXTENDS Naturals, Sequences, FiniteSets

CONSTANTS
  Root,           \* EXT2_ROOT_INO
  Inodes,         \* inode numbers in use on the volume
  Dir,            \* Dir[ino]: the entries, for directories
  BigDirs,        \* directories with indirect blocks
  Link,           \* Link[ino]: [abs, long, path], for symbolic links
  Names,
  Paths,          \* the paths that are opened
  Finds,          \* Finds[<<d, p>>]: the inode POSIX finds for path p from
                  \* directory d, or Free
  MaxOpenFiles,   \* MAX_OPEN_FILES
  MaxOpens        \* bound: calls of ext2fs_open()

Free == 0         \* a free slot holds no inode
NoSlot == 0
Slots == 1..MaxOpenFiles

LinkType == [abs : BOOLEAN, long : BOOLEAN, path : Seq(Names) \ {<<>>}]

ASSUME TreeAssumption ==
  /\ Free \notin Inodes
  /\ Root \in DOMAIN Dir /\ DOMAIN Dir \subseteq Inodes /\ BigDirs \subseteq DOMAIN Dir
  /\ \A d \in DOMAIN Dir : \A n \in DOMAIN Dir[d] : Dir[d][n] \in Inodes
  /\ DOMAIN Link \subseteq Inodes /\ \A l \in DOMAIN Link : Link[l] \in LinkType
  /\ Paths \subseteq Seq(Names) \ {<<>>}
  /\ DOMAIN Dir \cap DOMAIN Link = {}

(* The paths that are walked along, and what is left of them on the way.   *)
Trails ==
  UNION { { SubSeq(p, k, Len(p)) : k \in 1..Len(p) } :
          p \in Paths \cup { Link[l].path : l \in DOMAIN Link } }

(* What inode i, an entry of directory d, stands for.                      *)
Target(i, d) ==
  IF i \in DOMAIN Link THEN Finds[<<IF Link[i].abs THEN Root ELSE d, Link[i].path>>] ELSE i

(* Path resolution: entry by entry, and through every link.  It says       *)
(* nothing of links that form a circle.                                    *)
ASSUME ResolutionAssumption ==
  \A d \in Inodes \cup {Free}, p \in Trails :
    Finds[<<d, p>>] =
      IF d \notin DOMAIN Dir THEN Free
      ELSE IF Head(p) \notin DOMAIN Dir[d] THEN Free
      ELSE LET t == Target(Dir[d][Head(p)], d)
           IN  IF Tail(p) = <<>> THEN t ELSE Finds[<<t, Tail(p)>>]
ASSUME BoundsAssumption == MaxOpenFiles \in Nat \ {0} /\ MaxOpens \in Nat

VARIABLES
  inode_table,    \* inode_table[s]: the inode slot s holds, or Free
  root_inode,     \* the slot of the root directory, or NoSlot
  pc,             \* "idle", "namei" (in the walk), "open" (walk done), "hang"
  opening,        \* the path ext2fs_open() was called with
  walk,           \* what is left of the path walked along
  ip,             \* the slot of the inode reached
  result,         \* of the last ext2fs_open(): "none", "opened",
                  \* "notFound" or "error" (something could not be read)
  fds,            \* fds[s]: the inode handed out as descriptor s, or Free
  opens,          \* calls of ext2fs_open()
  links,          \* history: symbolic links met, at most MaxOpenFiles
  parent,         \* history: the directory the inode was found in
  exact           \* history: no link of this walk was misread

vars == <<inode_table, root_inode, pc, opening, walk, ip, result, fds, opens,
          links, parent, exact>>

(* ext2fs_init_state(): all slots are free, the root is not read yet.      *)
Init ==
  /\ inode_table = [s \in Slots |-> Free] /\ root_inode = NoSlot
  /\ pc = "idle" /\ opening = <<>> /\ walk = <<>> /\ ip = NoSlot /\ result = "none"
  /\ fds = [s \in Slots |-> Free] /\ opens = 0
  /\ links = 0 /\ parent = Root /\ exact = TRUE

-----------------------------------------------------------------------------
(* ext2_iget() takes the first free slot.                                  *)
FirstFree(t) == CHOOSE s \in Slots : t[s] = Free /\ \A r \in 1..(s - 1) : t[r] # Free

HasFree(t) == \E s \in Slots : t[s] = Free

(* ext2_iget(): the slot holds the inode read.                             *)
Iget(t, ino) == [t EXCEPT ![FirstFree(t)] = ino]

(* Mutant: a directory is not given back.                                  *)
IputDir_Dropped == inode_table

(* After the search in a directory: it is given back, unless it is the     *)
(* root.                                                                   *)
IputDir == IF ip = root_inode THEN inode_table ELSE [inode_table EXCEPT ![ip] = Free]

(* ext2_namei(p), called with the table t: the walk starts at the root,    *)
(* which is read once per mount.                                           *)
StartWalk(p, t) ==
  \/ /\ root_inode # NoSlot
     /\ ip' = root_inode /\ walk' = p /\ pc' = "namei" /\ result' = "none"
     /\ inode_table' = t /\ UNCHANGED root_inode
  \/ /\ root_inode = NoSlot /\ HasFree(t)
     /\ root_inode' = FirstFree(t) /\ ip' = FirstFree(t)
     /\ inode_table' = Iget(t, Root)
     /\ walk' = p /\ pc' = "namei" /\ result' = "none"
  \/ /\ root_inode = NoSlot
     /\ pc' = "idle" /\ result' = "error"
     /\ inode_table' = t /\ UNCHANGED <<root_inode, ip, walk>>

(* ext2fs_open().                                                          *)
Open(p) ==
  /\ pc = "idle" /\ opens < MaxOpens
  /\ opens' = opens + 1 /\ opening' = p
  /\ StartWalk(p, inode_table)
  /\ parent' = Root /\ exact' = TRUE
  /\ UNCHANGED <<fds, links>>

(* Mutant: links are opened as if they were files.                         *)
IsLink_Never == FALSE

IsLink == inode_table[ip] \in DOMAIN Link

IsDir == inode_table[ip] \in DOMAIN Dir
Found == IsDir /\ Head(walk) \in DOMAIN Dir[inode_table[ip]]

(* A component of the path is found and its inode read.  Where a directory *)
(* should be, the data of anything else is searched as if it were one.     *)
Step ==
  /\ pc = "namei" /\ walk # <<>> /\ HasFree(IputDir)
  /\ \E ino \in Inodes :
       /\ IF IsDir THEN Found /\ ino = Dir[inode_table[ip]][Head(walk)] ELSE TRUE
       /\ inode_table' = Iget(IputDir, ino)
       /\ ip' = FirstFree(IputDir)
  /\ walk' = Tail(walk) /\ parent' = inode_table[ip] /\ exact' = (exact /\ IsDir)
  /\ UNCHANGED <<root_inode, pc, opening, result, fds, opens, links>>

(* It is not there; or the directory or the inode cannot be read, or no    *)
(* slot is free, which looks the same to the caller.  A link on the way is *)
(* not followed, but searched.                                             *)
StepFails ==
  /\ pc = "namei" /\ walk # <<>>
  /\ inode_table' = IputDir /\ pc' = "idle"
  /\ result' = IF Found THEN "error" ELSE "notFound"
  /\ exact' = (exact /\ ~IsLink)
  /\ UNCHANGED <<root_inode, opening, walk, ip, fds, opens, links, parent>>

(* ext2_readdiri() advances by rec_len.  In a block of zeros it is 0 and   *)
(* the search never ends: a file that is no directory, or a directory with *)
(* an unreadable indirect block, which ext2_breadi() takes for a hole.     *)
SearchHangs ==
  /\ pc = "namei" /\ walk # <<>>
  /\ ~IsDir \/ inode_table[ip] \in BigDirs
  /\ pc' = "hang"
  /\ UNCHANGED <<inode_table, root_inode, opening, walk, ip, result, fds, opens,
                 links, parent, exact>>

WalkDone ==
  /\ pc = "namei" /\ walk = <<>>
  /\ pc' = "open"
  /\ UNCHANGED <<inode_table, root_inode, opening, walk, ip, result, fds, opens,
                 links, parent, exact>>

(* Mutant: the link's slot is given back when the link is followed.        *)
AfterLink_Iput == [inode_table EXCEPT ![ip] = Free]

(* ext2_open() does not give back the slot of a link.                      *)
AfterLink == inode_table

link == Link[inode_table[ip]]
NextLinks == IF links < MaxOpenFiles THEN links + 1 ELSE links

(***************************************************************************)
(* ext2_follow_link().  The names of a long link lie in blkbuf, which the  *)
(* search overwrites with directories: they may read as anything.  A       *)
(* relative link should start where it lies, but strtok_simple() has cut   *)
(* the path at its first '/' and strrchr() finds none: the walk starts at  *)
(* the root.                                                               *)
(***************************************************************************)
FollowLink ==
  /\ pc = "open" /\ IsLink
  /\ \E p \in IF link.long THEN [1..Len(link.path) -> Names] ELSE {link.path} :
       StartWalk(p, AfterLink)
  /\ links' = NextLinks /\ parent' = Root
  /\ exact' = (exact /\ ~link.long /\ (link.abs \/ parent = Root))
  /\ UNCHANGED <<opening, fds, opens>>

(* The target of a long link cannot be read.                               *)
FollowLinkFails ==
  /\ pc = "open" /\ IsLink /\ link.long
  /\ pc' = "idle" /\ result' = "error" /\ links' = NextLinks
  /\ UNCHANGED <<inode_table, root_inode, opening, walk, ip, fds, opens, parent, exact>>

(* Anything but a link is opened.                                          *)
Opened ==
  /\ pc = "open" /\ ~IsLink
  /\ pc' = "idle" /\ result' = "opened"
  /\ fds' = [fds EXCEPT ![ip] = inode_table[ip]]
  /\ UNCHANGED <<inode_table, root_inode, opening, walk, ip, opens, links, parent, exact>>

(* ext2fs_close(): the root's slot is kept.                                *)
Close(s) ==
  /\ pc = "idle" /\ fds[s] # Free
  /\ fds' = [fds EXCEPT ![s] = Free] /\ result' = "none"
  /\ inode_table' = IF s = root_inode THEN inode_table
                    ELSE [inode_table EXCEPT ![s] = Free]
  /\ UNCHANGED <<root_inode, pc, opening, walk, ip, opens, links, parent, exact>>

(* No further call, or a search that never ends.                           *)
Finished == (pc = "hang" \/ (pc = "idle" /\ opens = MaxOpens)) /\ UNCHANGED vars

Next ==
  \/ \E p \in Paths : Open(p)
  \/ \E s \in Slots : Close(s)
  \/ Step \/ StepFails \/ SearchHangs \/ WalkDone \/ FollowLink \/ FollowLinkFails
  \/ Opened \/ Finished

Spec == Init /\ [][Next]_vars

(* A call that runs goes on.                                               *)
FairSpec == Spec /\ WF_vars(Next)

-----------------------------------------------------------------------------
Used == { s \in Slots : inode_table[s] # Free }
OpenFds == { s \in Slots : fds[s] # Free }

(* The slot behind a descriptor, and the root's, are never reused while    *)
(* they are open: ext2_iput() and ext2_iget() of later walks leave them    *)
(* alone, and so does a failed ext2fs_open().  A walk holds the inode it   *)
(* searches.                                                               *)
DescriptorsKeepTheirInode ==
  /\ \A s \in OpenFds : inode_table[s] = fds[s]
  /\ root_inode # NoSlot => inode_table[root_inode] = Root
  /\ pc # "idle" => ip \in Used

(* Between two calls every slot in use is the root's, an open file's, or   *)
(* that of a symbolic link that was followed: directories are given back   *)
(* on every path out of ext2_namei().                                      *)
SlotsAccountedFor ==
  pc = "idle" => Cardinality(Used \ (OpenFds \cup {root_inode})) <= links

(* The inode table across calls: see the two parts.                        *)
InodeTableSound == DescriptorsKeepTheirInode /\ SlotsAccountedFor

(* ext2fs_open() opens the file the path denotes, and reports "not found"  *)
(* only if there is none, unless the path leads through a long link, a     *)
(* relative link below the root, or a link or other file that is taken for *)
(* a directory.                                                            *)
OpensTheNamedFile ==
  exact =>
    /\ result = "opened" => inode_table[ip] = Finds[<<Root, opening>>]
    /\ result = "notFound" => Finds[<<Root, opening>>] = Free

(* ext2fs_open() returns, unless the search hangs, even when links form a  *)
(* circle: there is no limit on links, but each takes a slot for good, and *)
(* ext2_iget() fails when none is left.                                    *)
OpenReturns == pc \in {"namei", "open"} ~> pc \in {"idle", "hang"}
=============================================================================
