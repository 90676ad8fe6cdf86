------------------------------- MODULE FsOps -------------------------------
(***************************************************************************)
(* What fs_tmpfs.py and fs_ext2.py do to one filesystem, as operators on a *)
(* record of its inodes and of the next inode number.  The two differ in   *)
(* how they start and in what else create does; their lookups, reads and   *)
(* writes are the same.                                                    *)
(*                                                                         *)
(* Modes, owners, link counts and device numbers, which are only           *)
(* displayed, are left out; the size of an inode is the length of its      *)
(* data.  The program makes no symbolic links and no device nodes.         *)
(***************************************************************************)
EXTENDS Integers, Sequences

NoChild == [name \in {} |-> 0]
NewInode(itype) == [itype |-> itype, children |-> NoChild, data |-> <<>>]

\* A tmpfs as its constructor leaves it: one directory, and the number the
\* next inode gets.
TmpFs == [root |-> 1, nextIno |-> 2, inodes |-> [i \in {1} |-> NewInode("DIR")]]

\* An ext2 volume as its constructor leaves it.  The root has the number that
\* the next inode gets, too.  freeInodes is that of the superblock, which has
\* 1023 before the root is made.
Ext2Fs ==
  [root |-> 2, nextIno |-> 2, inodes |-> [i \in {2} |-> NewInode("DIR")],
   freeInodes |-> 1022]

Inos(fs)        == DOMAIN fs.inodes
IsDir(fs, ino)  == ino \in Inos(fs) /\ fs.inodes[ino].itype = "DIR"
IsFile(fs, ino) == ino \in Inos(fs) /\ fs.inodes[ino].itype = "REG"

\* lookup_name finds something.
HasChild(fs, ino, name) ==
  /\ IsDir(fs, ino)
  /\ name \in DOMAIN fs.inodes[ino].children
  /\ fs.inodes[ino].children[name] \in Inos(fs)

ChildOf(fs, ino, name) == fs.inodes[ino].children[name]

\* Mutants: an existing name may be created again; a file may be a parent.
CanCreateAgain(fs, parent, name)  == IsDir(fs, parent)
CanCreateInFile(fs, parent, name) ==
  parent \in Inos(fs) /\ name \notin DOMAIN fs.inodes[parent].children

CanCreate(fs, parent, name) ==
  IsDir(fs, parent) /\ name \notin DOMAIN fs.inodes[parent].children

WithChild(inode, name, ino) ==
  [inode EXCEPT !.children = [n \in DOMAIN @ \cup {name} |-> IF n = name THEN ino ELSE @[n]]]

NextIno(fs) == fs.nextIno + 1

\* create.  The new inode enters the table under the next number, whatever is
\* there; the entry goes to the inode that was the parent before.
Created(fs, parent, name, itype) ==
  [fs EXCEPT
     !.inodes = [i \in Inos(fs) \cup {fs.nextIno} |->
                   IF i = fs.nextIno THEN NewInode(itype)
                   ELSE IF i = parent THEN WithChild(fs.inodes[i], name, fs.nextIno)
                   ELSE fs.inodes[i]],
     !.nextIno = NextIno(fs)]

\* create of ext2.  The first inode made takes the place of the root, its only
\* parent, whose entries go with it.
Ext2Created(fs, parent, name, itype) ==
  [Created(fs, parent, name, itype) EXCEPT !.freeInodes = @ - 1]

Remaining(data, offset, bytes) == SubSeq(data, offset + Len(bytes) + 1, Len(data))

\* write's new content: zeros up to the offset, the bytes, and the rest.
Overwritten(data, offset, bytes) ==
  [i \in 1 .. offset |-> IF i <= Len(data) THEN data[i] ELSE 0]
    \o bytes \o Remaining(data, offset, bytes)

\* write, of a regular file; anything else is refused.
Written(fs, ino, offset, bytes) ==
  IF IsFile(fs, ino)
  THEN [fs EXCEPT !.inodes[ino].data = Overwritten(@, offset, bytes)]
  ELSE fs

\* read: nothing of what is no file.
BytesAt(fs, ino, offset, size) ==
  LET data == IF IsFile(fs, ino) THEN fs.inodes[ino].data ELSE <<>>
  IN  SubSeq(data, offset + 1, IF offset + size < Len(data) THEN offset + size ELSE Len(data))

----------------------------------------------------------------------------
EntriesOf(fs) ==
  UNION {{<<d, n>> : n \in DOMAIN fs.inodes[d].children} : d \in Inos(fs)}

\* Every entry of a directory leads to an inode, no inode but the root is
\* without an entry or has two, and the numbers grow downwards, so that every
\* inode hangs from the root and no directory contains itself.
IsTree(fs) ==
  /\ IsDir(fs, fs.root)
  /\ \A e \in EntriesOf(fs) :
       /\ IsDir(fs, e[1])
       /\ ChildOf(fs, e[1], e[2]) \in Inos(fs) \ {fs.root}
       /\ ChildOf(fs, e[1], e[2]) > e[1]
  /\ \A i \in Inos(fs) \ {fs.root} : \E e \in EntriesOf(fs) : ChildOf(fs, e[1], e[2]) = i
  /\ \A e, f \in EntriesOf(fs) :
       ChildOf(fs, e[1], e[2]) = ChildOf(fs, f[1], f[2]) => e = f

\* No number in the table is one that will be handed out again.
NumbersAreUsed(fs) == \A i \in Inos(fs) : i < fs.nextIno
=============================================================================
