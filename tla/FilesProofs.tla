----------------------------- MODULE FilesProofs -----------------------------
(***************************************************************************)
(* Theorems about Files, for any processes, filesystems, paths and         *)
(* contents: descriptors are private and inside their files, writes land   *)
(* where the position was, the longest mountpoint wins, and directories    *)
(* stay trees that lose no entry.                                          *)
(***************************************************************************)
EXTENDS Files, ListLemmas, FiniteSetTheorems

----------------------------------------------------------------------------
(* One filesystem.                                                         *)

Byte == 0 .. 255        \* a byte of a file

\* An inode: a directory has no data, and a file no entries.
IsInode(n) ==
  /\ n \in [itype : {"DIR", "REG"}, children : {n.children}, data : Seq(Byte)]
  /\ n.children \in [DOMAIN n.children -> Nat]
  /\ n.itype = "DIR" => n.data = <<>>
  /\ n.itype = "REG" => DOMAIN n.children = {}

\* A tmpfs or an ext2 volume, with inodes in its table.
FsShape(x) ==
  /\ \/ x \in [root : Nat, nextIno : Nat, inodes : {x.inodes}]
     \/ x \in [root : Nat, nextIno : Nat, inodes : {x.inodes}, freeInodes : Int]
  /\ Inos(x) \subseteq Nat /\ x.root \in Inos(x)
  /\ x.inodes = [i \in Inos(x) |-> x.inodes[i]]
  /\ \A i \in Inos(x) : IsInode(x.inodes[i])

\* The directory d has an entry n, wherever that leads.
HasEntry(x, d, n) == d \in Inos(x) /\ n \in DOMAIN x.inodes[d].children

\* The entries of a filesystem, as pairs.
LEMMA EntriesChar ==
  ASSUME NEW x, NEW e
  PROVE  e \in EntriesOf(x) <=> e = <<e[1], e[2]>> /\ HasEntry(x, e[1], e[2])
BY DEF EntriesOf, HasEntry

\* The filesystem y is x with one inode more.
Grown(x, y, parent, name, itype) ==
  /\ FsShape(y)
  /\ y.root = x.root /\ y.nextIno = x.nextIno + 1
  /\ Inos(y) = Inos(x) \cup {x.nextIno}
  /\ y.inodes[x.nextIno] = NewInode(itype)
  /\ \A i \in Inos(x) \ {x.nextIno} :
       y.inodes[i] = IF i = parent THEN WithChild(x.inodes[i], name, x.nextIno)
                     ELSE x.inodes[i]

\* create of tmpfs adds one inode.
LEMMA CreatedGrows ==
  ASSUME NEW x, FsShape(x), NEW parent, NEW name, NEW itype \in {"DIR", "REG"},
         CanCreate(x, parent, name)
  PROVE  Grown(x, Created(x, parent, name, itype), parent, name, itype)
<1> DEFINE y == Created(x, parent, name, itype)
           t == [i \in Inos(x) \cup {x.nextIno} |->
                   IF i = x.nextIno THEN NewInode(itype)
                   ELSE IF i = parent THEN WithChild(x.inodes[i], name, x.nextIno)
                   ELSE x.inodes[i]]
<1>1. IsInode(NewInode(itype))
  BY EmptySeq DEF IsInode, NewInode, NoChild
<1>2. x.nextIno \in Nat
  BY DEF FsShape
<1>3. parent \in Inos(x) /\ x.inodes[parent].itype = "DIR" /\ IsInode(x.inodes[parent])
  BY DEF CanCreate, IsDir, FsShape
<1>4. IsInode(WithChild(x.inodes[parent], name, x.nextIno))
  BY <1>2, <1>3 DEF IsInode, WithChild
<1>5. y = [x EXCEPT !.inodes = t, !.nextIno = NextIno(x)]
  BY DEF Created
<1> HIDE DEF y
<1>6. y.inodes = t /\ y.root = x.root /\ y.nextIno = x.nextIno + 1
  BY <1>5 DEF FsShape, NextIno
<1>7. \/ y \in [root : Nat, nextIno : Nat, inodes : {y.inodes}]
      \/ y \in [root : Nat, nextIno : Nat, inodes : {y.inodes}, freeInodes : Int]
  <2>1. CASE x \in [root : Nat, nextIno : Nat, inodes : {x.inodes}]
    <3>1. y = [root |-> x.root, nextIno |-> x.nextIno + 1, inodes |-> t]
      <4> HIDE DEF t
      <4> QED BY <1>5, <2>1 DEF NextIno
    <3> HIDE DEF t
    <3> QED BY <1>2, <2>1, <3>1
  <2>2. CASE x \in [root : Nat, nextIno : Nat, inodes : {x.inodes}, freeInodes : Int]
    <3>1. y = [root |-> x.root, nextIno |-> x.nextIno + 1, inodes |-> t,
               freeInodes |-> x.freeInodes]
      <4> HIDE DEF t
      <4> QED BY <1>5, <2>2 DEF NextIno
    <3> HIDE DEF t
    <3> QED BY <1>2, <2>2, <3>1
  <2> QED BY <2>1, <2>2 DEF FsShape
<1>8. Inos(y) = Inos(x) \cup {x.nextIno}
  BY <1>6 DEF Inos
<1>9. \A i \in Inos(y) : IsInode(y.inodes[i])
  <2> QED BY <1>1, <1>4, <1>6, <1>8 DEF FsShape
<1>10. FsShape(y)
  BY <1>2, <1>6, <1>7, <1>8, <1>9 DEF FsShape
<1> QED BY <1>6, <1>8, <1>10 DEF y, Grown

\* write's new content has the bytes where they were meant to be, and the old
\* ones elsewhere.
LEMMA OverwrittenFacts ==
  ASSUME NEW data \in Seq(Byte), NEW offset \in Nat, NEW bytes \in Seq(Byte)
  PROVE  LET new == Overwritten(data, offset, bytes)
         IN  /\ new \in Seq(Byte)
             /\ Len(data) <= Len(new) /\ offset + Len(bytes) <= Len(new)
             /\ \A i \in 1 .. Len(new) :
                  \/ i \in offset + 1 .. offset + Len(bytes)
                  \/ i \in 1 .. Len(data) /\ new[i] = data[i]
                  \/ i \in Len(data) + 1 .. offset
<1> DEFINE head == [i \in 1 .. offset |-> IF i <= Len(data) THEN data[i] ELSE 0]
           rest == Remaining(data, offset, bytes)
           new  == Overwritten(data, offset, bytes)
           end  == offset + Len(bytes)
<1>1. Len(data) \in Nat /\ Len(bytes) \in Nat
  BY LenProperties
<1>2. head \in Seq(Byte) /\ Len(head) = offset
  <2>1. \A i \in 1 .. offset : (IF i <= Len(data) THEN data[i] ELSE 0) \in Byte
    <3>1. 0 \in Byte
      BY DEF Byte
    <3>2. \A i \in 1 .. offset : i <= Len(data) => i \in 1 .. Len(data)
      BY <1>1
    <3>3. \A i \in 1 .. Len(data) : data[i] \in Byte
      BY ElementOfSeq
    <3> QED BY <3>1, <3>2, <3>3
  <2>2. head \in [1 .. offset -> Byte]
    BY <2>1
  <2> QED BY <2>2, SeqDef
<1>3. /\ rest \in Seq(Byte)
      /\ Len(rest) = IF end + 1 <= Len(data) THEN Len(data) - end ELSE 0
      /\ \A i \in 1 .. Len(data) - end : rest[i] = data[end + i]
  <2>1. \A i \in end + 1 .. Len(data) : data[i] \in Byte
    BY <1>1
  <2>2. /\ SubSeq(data, end + 1, Len(data)) \in Seq(Byte)
        /\ Len(SubSeq(data, end + 1, Len(data)))
             = IF end + 1 <= Len(data) THEN Len(data) - (end + 1) + 1 ELSE 0
        /\ \A i \in 1 .. Len(data) - (end + 1) + 1 :
             SubSeq(data, end + 1, Len(data))[i] = data[end + 1 + i - 1]
    <3>1. end + 1 \in Int /\ Len(data) \in Int
      BY <1>1
    <3> HIDE DEF end
    <3> QED BY <2>1, <3>1, SubSeqProperties
  <2>3. rest = SubSeq(data, end + 1, Len(data))
    BY DEF Remaining
  <2> HIDE DEF rest
  <2> QED BY <1>1, <2>2, <2>3
<1>4. new = (head \o bytes) \o rest
  BY DEF Overwritten
<1> HIDE DEF head, rest, new
<1> DEFINE front == head \o bytes
<1>5. /\ front \in Seq(Byte)
      /\ Len(front) = end
      /\ \A i \in 1 .. offset : front[i] = head[i]
  <2>1. /\ front \in Seq(Byte)
        /\ Len(front) = Len(head) + Len(bytes)
        /\ \A i \in 1 .. Len(head) + Len(bytes) :
             front[i] = IF i <= Len(head) THEN head[i] ELSE bytes[i - Len(head)]
    BY <1>2, ConcatProperties
  <2> HIDE DEF front
  <2> QED BY <1>1, <1>2, <2>1
<1> HIDE DEF front
<1>6. /\ new \in Seq(Byte)
      /\ Len(new) = end + Len(rest)
      /\ \A i \in 1 .. end + Len(rest) :
           new[i] = IF i <= end THEN front[i] ELSE rest[i - end]
  <2>1. /\ front \o rest \in Seq(Byte)
        /\ Len(front \o rest) = Len(front) + Len(rest)
        /\ \A i \in 1 .. Len(front) + Len(rest) :
             (front \o rest)[i] = IF i <= Len(front) THEN front[i] ELSE rest[i - Len(front)]
    BY <1>3, <1>5, ConcatProperties
  <2>2. new = front \o rest
    BY <1>4 DEF front
  <2> HIDE DEF end
  <2> QED BY <1>5, <2>1, <2>2
<1>7. ASSUME NEW i \in 1 .. Len(new), i \notin offset + 1 .. end
      PROVE  \/ i \in 1 .. Len(data) /\ new[i] = data[i]
             \/ i \in Len(data) + 1 .. offset
  <2>1. CASE i <= offset
    <3>1. new[i] = head[i]
      BY <1>1, <1>5, <1>6, <2>1
    <3> QED BY <1>1, <2>1, <3>1 DEF head
  <2>2. CASE i > end
    <3>1. Len(rest) \in Nat
      BY <1>3, LenProperties
    <3>2. i - end \in 1 .. Len(rest) /\ new[i] = rest[i - end]
      BY <1>1, <1>6, <2>2, <3>1
    <3>3. i - end \in 1 .. Len(data) - end /\ end + (i - end) = i
      BY <1>1, <1>3, <3>2
    <3> QED BY <1>1, <1>3, <3>2, <3>3
  <2> QED BY <1>1, <1>7, <2>1, <2>2
<1>8. Len(data) <= Len(new) /\ end <= Len(new)
  <2>1. Len(rest) \in Nat
    BY <1>3, LenProperties
  <2>2. Len(new) = end + Len(rest) /\ (end + 1 <= Len(data) => Len(rest) = Len(data) - end)
    BY <1>3, <1>6
  <2> QED BY <1>1, <2>1, <2>2
<1> QED BY <1>6, <1>7, <1>8 DEF new

\* The filesystem y is x with other data in one file.
Rewritten(x, y, ino, offset, bytes) ==
  /\ FsShape(y)
  /\ y.root = x.root /\ y.nextIno = x.nextIno /\ Inos(y) = Inos(x)
  /\ \A i \in Inos(x) :
       /\ y.inodes[i].itype = x.inodes[i].itype
       /\ y.inodes[i].children = x.inodes[i].children
       /\ y.inodes[i].data =
            IF IsFile(x, ino) /\ i = ino
            THEN Overwritten(x.inodes[i].data, offset, bytes)
            ELSE x.inodes[i].data

\* write changes the data of the file alone.
LEMMA WrittenFacts ==
  ASSUME NEW x, FsShape(x), NEW ino, NEW offset \in Nat, NEW bytes \in Seq(Byte),
         NEW y, y = Written(x, ino, offset, bytes)
  PROVE  Rewritten(x, y, ino, offset, bytes)
<1>1. CASE ~IsFile(x, ino)
  BY <1>1 DEF Written, Rewritten
<1>2. CASE IsFile(x, ino)
  <2> DEFINE d == Overwritten(x.inodes[ino].data, offset, bytes)
             n == [x.inodes[ino] EXCEPT !.data = d]
             t == [x.inodes EXCEPT ![ino] = n]
  <2>1. ino \in Inos(x) /\ x.inodes[ino].itype = "REG" /\ IsInode(x.inodes[ino])
    BY <1>2 DEF IsFile, FsShape
  <2>2. d \in Seq(Byte)
    BY <2>1, OverwrittenFacts DEF IsInode
  <2>3. y = [x EXCEPT !.inodes = t]
    BY <1>2 DEF Written
  <2> HIDE DEF d
  <2>4. /\ IsInode(n) /\ n.data = d
        /\ n.itype = x.inodes[ino].itype /\ n.children = x.inodes[ino].children
    BY <2>1, <2>2 DEF IsInode
  <2> HIDE DEF n
  <2>5. /\ DOMAIN t = Inos(x) /\ t = [i \in Inos(x) |-> t[i]]
        /\ \A i \in Inos(x) : t[i] = IF i = ino THEN n ELSE x.inodes[i]
    BY <2>1 DEF FsShape, Inos
  <2> HIDE DEF t
  <2>6. y.inodes = t /\ y.root = x.root /\ y.nextIno = x.nextIno
    BY <2>3 DEF FsShape
  <2>7. \/ y \in [root : Nat, nextIno : Nat, inodes : {y.inodes}]
        \/ y \in [root : Nat, nextIno : Nat, inodes : {y.inodes}, freeInodes : Int]
    <3>1. CASE x \in [root : Nat, nextIno : Nat, inodes : {x.inodes}]
      <4>1. y = [root |-> x.root, nextIno |-> x.nextIno, inodes |-> t]
        BY <2>3, <3>1
      <4> QED BY <3>1, <4>1
    <3>2. CASE x \in [root : Nat, nextIno : Nat, inodes : {x.inodes}, freeInodes : Int]
      <4>1. y = [root |-> x.root, nextIno |-> x.nextIno, inodes |-> t,
                 freeInodes |-> x.freeInodes]
        BY <2>3, <3>2
      <4> QED BY <3>2, <4>1
    <3> QED BY <3>1, <3>2 DEF FsShape
  <2>8. Inos(y) = Inos(x)
    BY <2>5, <2>6 DEF Inos
  <2>9. FsShape(y)
    BY <2>1, <2>4, <2>5, <2>6, <2>7, <2>8 DEF FsShape
  <2>10. \A i \in Inos(x) :
            /\ y.inodes[i].itype = x.inodes[i].itype
            /\ y.inodes[i].children = x.inodes[i].children
            /\ y.inodes[i].data = IF i = ino THEN d ELSE x.inodes[i].data
    BY <2>4, <2>5, <2>6
  <2> QED BY <1>2, <2>6, <2>8, <2>9, <2>10 DEF d, Rewritten
<1> QED BY <1>1, <1>2

\* create of ext2 does, too.
LEMMA Ext2CreatedGrows ==
  ASSUME NEW x, FsShape(x), NEW parent, NEW name, NEW itype \in {"DIR", "REG"},
         CanCreate(x, parent, name)
  PROVE  Grown(x, Ext2Created(x, parent, name, itype), parent, name, itype)
<1> DEFINE c == Created(x, parent, name, itype)
           y == [c EXCEPT !.freeInodes = @ - 1]
<1>1. Grown(x, c, parent, name, itype)
  BY CreatedGrows
<1> HIDE DEF c
<1>2. FsShape(c)
  BY <1>1 DEF Grown
<1>3. y.root = c.root /\ y.nextIno = c.nextIno /\ y.inodes = c.inodes
  BY <1>2 DEF FsShape
<1>4. \/ y \in [root : Nat, nextIno : Nat, inodes : {y.inodes}]
      \/ y \in [root : Nat, nextIno : Nat, inodes : {y.inodes}, freeInodes : Int]
  <2>1. CASE c \in [root : Nat, nextIno : Nat, inodes : {c.inodes}]
    <3>1. y = c
      BY <2>1
    <3> QED BY <2>1, <3>1
  <2>2. CASE c \in [root : Nat, nextIno : Nat, inodes : {c.inodes}, freeInodes : Int]
    <3>1. y = [root |-> c.root, nextIno |-> c.nextIno, inodes |-> c.inodes,
               freeInodes |-> c.freeInodes - 1]
      BY <2>2
    <3>2. c.freeInodes - 1 \in Int
      BY <2>2
    <3> QED BY <1>3, <2>2, <3>1, <3>2
  <2> QED BY <1>2, <2>1, <2>2 DEF FsShape
<1>5. Ext2Created(x, parent, name, itype) = y
  BY DEF Ext2Created, c
<1> HIDE DEF y
<1>6. FsShape(y)
  BY <1>2, <1>3, <1>4 DEF FsShape, Inos
<1> QED BY <1>1, <1>3, <1>5, <1>6 DEF Grown, Inos

\* IsTree, said of directories and names.
LEMMA TreeChar ==
  ASSUME NEW x
  PROVE  IsTree(x) <=>
           /\ IsDir(x, x.root)
           /\ \A d, n : HasEntry(x, d, n) =>
                /\ IsDir(x, d)
                /\ ChildOf(x, d, n) \in Inos(x) \ {x.root}
                /\ ChildOf(x, d, n) > d
           /\ \A i \in Inos(x) \ {x.root} : \E d, n : HasEntry(x, d, n) /\ ChildOf(x, d, n) = i
           /\ \A d, n, e, m :
                HasEntry(x, d, n) /\ HasEntry(x, e, m) /\ ChildOf(x, d, n) = ChildOf(x, e, m)
                  => d = e /\ n = m
<1>1. \A d, n : HasEntry(x, d, n) <=> <<d, n>> \in EntriesOf(x)
  BY EntriesChar
<1>2. \A e \in EntriesOf(x) : e = <<e[1], e[2]>> /\ HasEntry(x, e[1], e[2])
  BY EntriesChar
<1>3. \A d, n : <<d, n>>[1] = d /\ <<d, n>>[2] = n
  OBVIOUS
<1>4. \A e, f \in EntriesOf(x) : e = f <=> e[1] = f[1] /\ e[2] = f[2]
  BY <1>2
<1>5. (\A e \in EntriesOf(x) : /\ IsDir(x, e[1])
                             /\ ChildOf(x, e[1], e[2]) \in Inos(x) \ {x.root}
                             /\ ChildOf(x, e[1], e[2]) > e[1])
        <=> \A d, n : HasEntry(x, d, n) =>
                        /\ IsDir(x, d)
                        /\ ChildOf(x, d, n) \in Inos(x) \ {x.root}
                        /\ ChildOf(x, d, n) > d
  <2> DEFINE Down(d, n) == /\ IsDir(x, d)
                           /\ ChildOf(x, d, n) \in Inos(x) \ {x.root}
                           /\ ChildOf(x, d, n) > d
  <2>1. ASSUME \A e \in EntriesOf(x) : Down(e[1], e[2]), NEW d, NEW n, HasEntry(x, d, n)
        PROVE  Down(d, n)
    <3>1. <<d, n>> \in EntriesOf(x)
      BY <1>1, <2>1
    <3>2. Down(<<d, n>>[1], <<d, n>>[2])
      BY <2>1, <3>1
    <3> QED BY <1>3, <3>2
  <2>2. ASSUME \A d, n : HasEntry(x, d, n) => Down(d, n), NEW e \in EntriesOf(x)
        PROVE  Down(e[1], e[2])
    <3> HIDE DEF Down
    <3> QED BY <1>2, <2>2
  <2> QED BY <2>1, <2>2
<1>6. \A i : (\E e \in EntriesOf(x) : ChildOf(x, e[1], e[2]) = i)
                <=> \E d, n : HasEntry(x, d, n) /\ ChildOf(x, d, n) = i
  BY <1>1, <1>2, <1>3
<1>7. (\A e, f \in EntriesOf(x) :
         ChildOf(x, e[1], e[2]) = ChildOf(x, f[1], f[2]) => e = f)
        <=> \A d, n, e, m :
              HasEntry(x, d, n) /\ HasEntry(x, e, m) /\ ChildOf(x, d, n) = ChildOf(x, e, m)
                => d = e /\ n = m
  <2>1. ASSUME \A e, f \in EntriesOf(x) :
                 ChildOf(x, e[1], e[2]) = ChildOf(x, f[1], f[2]) => e = f,
               NEW d, NEW n, NEW e, NEW m,
               HasEntry(x, d, n), HasEntry(x, e, m), ChildOf(x, d, n) = ChildOf(x, e, m)
        PROVE  d = e /\ n = m
    <3>1. <<d, n>> \in EntriesOf(x) /\ <<e, m>> \in EntriesOf(x)
      BY <1>1, <2>1
    <3>2. <<d, n>> = <<e, m>>
      BY <1>3, <2>1, <3>1
    <3> QED BY <3>2
  <2>2. ASSUME \A d, n, e, m :
                 HasEntry(x, d, n) /\ HasEntry(x, e, m) /\ ChildOf(x, d, n) = ChildOf(x, e, m)
                   => d = e /\ n = m,
               NEW e \in EntriesOf(x), NEW f \in EntriesOf(x),
               ChildOf(x, e[1], e[2]) = ChildOf(x, f[1], f[2])
        PROVE  e = f
    BY <1>2, <1>4, <2>2
  <2> QED BY <2>1, <2>2
<1> QED BY <1>5, <1>6, <1>7 DEF IsTree

\* A tree with one inode more is a tree that has every entry it had.
LEMMA GrownTree ==
  ASSUME NEW x, FsShape(x), IsTree(x), NumbersAreUsed(x),
         NEW parent, NEW name, NEW itype, CanCreate(x, parent, name),
         NEW y, Grown(x, y, parent, name, itype)
  PROVE  /\ IsTree(y) /\ NumbersAreUsed(y)
         /\ \A d, n : HasEntry(x, d, n) => HasEntry(y, d, n) /\ ChildOf(y, d, n) = ChildOf(x, d, n)
<1>1. /\ x.nextIno \in Nat \ Inos(x)
      /\ \A i \in Inos(x) : i \in Nat /\ i < x.nextIno
  BY DEF NumbersAreUsed, FsShape
<1>2. parent \in Inos(x) /\ x.inodes[parent].itype = "DIR"
      /\ name \notin DOMAIN x.inodes[parent].children
  BY DEF CanCreate, IsDir
<1>3. \A i \in Inos(x) : i # parent => y.inodes[i] = x.inodes[i]
  BY <1>1 DEF Grown
<1>4. /\ y.inodes[parent].itype = "DIR"
      /\ y.inodes[parent].children =
           [n \in DOMAIN x.inodes[parent].children \cup {name} |->
              IF n = name THEN x.nextIno ELSE x.inodes[parent].children[n]]
  <2>1. y.inodes[parent] = WithChild(x.inodes[parent], name, x.nextIno)
    BY <1>1, <1>2 DEF Grown
  <2>2. IsInode(x.inodes[parent])
    BY <1>2 DEF FsShape
  <2> QED BY <1>2, <2>1, <2>2 DEF WithChild, IsInode
<1>5. DOMAIN y.inodes[x.nextIno].children = {}
  BY DEF Grown, NewInode, NoChild
<1>6. Inos(y) = Inos(x) \cup {x.nextIno} /\ y.root = x.root /\ y.nextIno = x.nextIno + 1
  BY DEF Grown
<1>7. ASSUME NEW d, NEW n
      PROVE  HasEntry(y, d, n) <=> HasEntry(x, d, n) \/ (d = parent /\ n = name)
  BY <1>1, <1>2, <1>3, <1>4, <1>5, <1>6 DEF HasEntry
<1>8. \A d, n : HasEntry(x, d, n) => ChildOf(y, d, n) = ChildOf(x, d, n)
  BY <1>2, <1>3, <1>4 DEF HasEntry, ChildOf
<1>9. ChildOf(y, parent, name) = x.nextIno
  BY <1>4 DEF ChildOf
<1>10. \A i \in Inos(x) : IsDir(x, i) => IsDir(y, i)
  BY <1>3, <1>4, <1>6 DEF IsDir
<1>11. ~HasEntry(x, parent, name)
  BY <1>2 DEF HasEntry
<1>12. NumbersAreUsed(y)
  BY <1>1, <1>6 DEF NumbersAreUsed
<1>13. IsTree(y)
  <2>1. IsDir(y, y.root)
    BY <1>6, <1>10 DEF FsShape, IsTree
  <2>2. ASSUME NEW d, NEW n, HasEntry(y, d, n)
        PROVE  /\ IsDir(y, d)
               /\ ChildOf(y, d, n) \in Inos(y) \ {y.root}
               /\ ChildOf(y, d, n) > d
    <3>1. CASE HasEntry(x, d, n)
      BY <1>6, <1>8, <1>10, <3>1, TreeChar DEF HasEntry
    <3>2. CASE d = parent /\ n = name
      <4>1. x.root \in Inos(x) /\ IsDir(x, parent)
        BY DEF FsShape, CanCreate
      <4> QED BY <1>1, <1>2, <1>6, <1>9, <1>10, <3>2, <4>1
    <3> QED BY <1>7, <2>2, <3>1, <3>2
  <2>3. ASSUME NEW i \in Inos(y) \ {y.root}
        PROVE  \E d, n : HasEntry(y, d, n) /\ ChildOf(y, d, n) = i
    <3>1. CASE i = x.nextIno
      BY <1>7, <1>9, <3>1
    <3>2. CASE i \in Inos(x) \ {x.root}
      <4>1. PICK d, n : HasEntry(x, d, n) /\ ChildOf(x, d, n) = i
        BY <3>2, TreeChar
      <4> QED BY <1>7, <1>8, <4>1
    <3> QED BY <1>6, <3>1, <3>2
  <2>4. ASSUME NEW d, NEW n, NEW e, NEW m,
               HasEntry(y, d, n), HasEntry(y, e, m), ChildOf(y, d, n) = ChildOf(y, e, m)
        PROVE  d = e /\ n = m
    <3>1. \A c, k : HasEntry(x, c, k) => ChildOf(x, c, k) # x.nextIno
      BY <1>1, TreeChar
    <3>2. CASE HasEntry(x, d, n) /\ HasEntry(x, e, m)
      BY <1>8, <2>4, <3>2, TreeChar
    <3> QED BY <1>7, <1>8, <1>9, <2>4, <3>1, <3>2
  <2> QED BY <2>1, <2>2, <2>3, <2>4, TreeChar
<1> QED BY <1>7, <1>8, <1>12, <1>13

----------------------------------------------------------------------------
\* A volume in which only the root is: as it was made, or with a file there.
Single(x) ==
  /\ Inos(x) = {x.root} /\ DOMAIN x.inodes[x.root].children = {}
  /\ x.nextIno = x.root \/ ~IsDir(x, x.root)

\* A filesystem that is what it should be.
Rooted(x) == IsTree(x) /\ NumbersAreUsed(x)

\* What is in the filesystem x is in y, and no file is shorter there.
Extends(x, y) ==
  /\ \A i \in Inos(x) : i \in Inos(y) /\ Len(x.inodes[i].data) <= Len(y.inodes[i].data)
  /\ \A d, n : HasEntry(x, d, n) => HasEntry(y, d, n) /\ ChildOf(y, d, n) = ChildOf(x, d, n)

LEMMA ExtendsSelf == ASSUME NEW x, FsShape(x) PROVE Extends(x, x)
<1>1. \A i \in Inos(x) : Len(x.inodes[i].data) \in Nat
  BY LenProperties DEF FsShape, IsInode
<1> QED BY <1>1 DEF Extends

LEMMA ExtendsTransitive ==
  ASSUME NEW x, NEW y, NEW z, FsShape(x), FsShape(y), FsShape(z), Extends(x, y), Extends(y, z)
  PROVE  Extends(x, z)
<1>1. \A i \in Inos(x) : Len(x.inodes[i].data) \in Nat
  BY LenProperties DEF FsShape, IsInode
<1>2. \A i \in Inos(y) : Len(y.inodes[i].data) \in Nat
  BY LenProperties DEF FsShape, IsInode
<1>3. \A i \in Inos(z) : Len(z.inodes[i].data) \in Nat
  BY LenProperties DEF FsShape, IsInode
<1>4. ASSUME NEW i \in Inos(x)
      PROVE  i \in Inos(z) /\ Len(x.inodes[i].data) <= Len(z.inodes[i].data)
  <2>1. i \in Inos(y) /\ Len(x.inodes[i].data) <= Len(y.inodes[i].data)
    BY DEF Extends
  <2>2. i \in Inos(z) /\ Len(y.inodes[i].data) <= Len(z.inodes[i].data)
    BY <2>1 DEF Extends
  <2>3. /\ Len(x.inodes[i].data) \in Nat
        /\ Len(y.inodes[i].data) \in Nat
        /\ Len(z.inodes[i].data) \in Nat
    BY <1>1, <1>2, <1>3, <2>1, <2>2
  <2>4. \A a, b, c \in Nat : a <= b /\ b <= c => a <= c
    OBVIOUS
  <2> QED BY <2>1, <2>2, <2>3, <2>4, Zenon
<1> QED BY <1>4 DEF Extends

\* create, of either filesystem.
LEMMA GrownSound ==
  ASSUME NEW x, FsShape(x), Rooted(x) \/ Single(x),
         NEW parent, NEW name, NEW itype \in {"DIR", "REG"}, CanCreate(x, parent, name),
         NEW y, Grown(x, y, parent, name, itype)
  PROVE  /\ FsShape(y) /\ Extends(x, y)
         /\ Rooted(x) => Rooted(y)
         /\ Single(x) => Rooted(y) \/ Single(y)
<1>1. FsShape(y)
  BY DEF Grown
<1>2. CASE Rooted(x)
  <2>1. Rooted(y) /\ \A d, n : HasEntry(x, d, n) =>
          HasEntry(y, d, n) /\ ChildOf(y, d, n) = ChildOf(x, d, n)
    BY <1>2, GrownTree DEF Rooted
  <2>2. ASSUME NEW i \in Inos(x)
        PROVE  i \in Inos(y) /\ y.inodes[i].data = x.inodes[i].data
    <3>1. i # x.nextIno
      BY <1>2 DEF Rooted, NumbersAreUsed, FsShape
    <3>2. IsInode(x.inodes[i])
      BY DEF FsShape
    <3> QED BY <3>1, <3>2 DEF Grown, WithChild, IsInode
  <2>3. \A i \in Inos(x) : Len(x.inodes[i].data) \in Nat
    BY LenProperties DEF FsShape, IsInode
  <2> QED BY <1>1, <2>1, <2>2, <2>3 DEF Extends
<1>3. CASE Single(x)
  <2>1. parent = x.root /\ IsDir(x, x.root) /\ x.nextIno = x.root /\ Inos(x) = {x.root}
    BY <1>3 DEF CanCreate, IsDir, Single
  <2>2. /\ Inos(y) = {x.root} /\ y.root = x.root /\ y.nextIno = x.root + 1
        /\ y.inodes[x.root] = NewInode(itype)
    BY <2>1 DEF Grown
  <2>3. x.inodes[x.root].data = <<>> /\ x.root \in Nat
    BY <2>1 DEF FsShape, IsInode, IsDir
  <2>4. y.inodes[x.root].data = <<>> /\ DOMAIN y.inodes[x.root].children = {}
        /\ y.inodes[x.root].itype = itype
    BY <2>2 DEF NewInode, NoChild
  <2>5. \A d, n : ~HasEntry(x, d, n) /\ ~HasEntry(y, d, n)
    BY <1>3, <2>2, <2>4 DEF HasEntry, Single
  <2>6. Extends(x, y)
    BY <2>1, <2>2, <2>3, <2>4, <2>5 DEF Extends
  <2>7. ~Rooted(x)
    BY <2>1, <2>3 DEF Rooted, NumbersAreUsed
  <2>8. CASE itype = "REG"
    <3>1. ~IsDir(y, y.root)
      BY <2>2, <2>4, <2>8 DEF IsDir
    <3>2. Single(y)
      BY <2>2, <2>4, <3>1 DEF Single
    <3> QED BY <1>1, <2>6, <2>7, <3>2
  <2>9. CASE itype = "DIR"
    <3>1. NumbersAreUsed(y)
      BY <2>2, <2>3 DEF NumbersAreUsed
    <3>2. IsTree(y)
      BY <2>2, <2>4, <2>5, <2>9, TreeChar DEF IsDir
    <3> QED BY <1>1, <2>6, <3>1, <3>2 DEF Rooted
  <2> QED BY <1>1, <2>6, <2>8, <2>9, <2>7
<1> QED BY <1>2, <1>3

\* write.
LEMMA WrittenSound ==
  ASSUME NEW x, FsShape(x), NEW ino, NEW offset \in Nat, NEW bytes \in Seq(Byte),
         NEW y, y = Written(x, ino, offset, bytes)
  PROVE  /\ FsShape(y) /\ Extends(x, y)
         /\ Rooted(x) => Rooted(y)
         /\ Single(x) => Single(y)
<1>1. Rewritten(x, y, ino, offset, bytes)
  BY WrittenFacts
<1>2. \A d, n : HasEntry(y, d, n) <=> HasEntry(x, d, n)
  BY <1>1 DEF HasEntry, Rewritten
<1>3. \A d, n : HasEntry(x, d, n) => ChildOf(y, d, n) = ChildOf(x, d, n)
  BY <1>1 DEF HasEntry, ChildOf, Rewritten
<1>4. \A i : IsDir(y, i) <=> IsDir(x, i)
  BY <1>1 DEF IsDir, Rewritten
<1>5. ASSUME NEW i \in Inos(x) PROVE Len(x.inodes[i].data) <= Len(y.inodes[i].data)
  <2>1. x.inodes[i].data \in Seq(Byte)
    BY DEF FsShape, IsInode
  <2>2. Len(x.inodes[i].data) \in Nat
    BY <2>1, LenProperties
  <2>3. CASE IsFile(x, ino) /\ i = ino
    BY <1>1, <2>1, <2>3, OverwrittenFacts DEF Rewritten
  <2>4. CASE ~(IsFile(x, ino) /\ i = ino)
    BY <1>1, <2>2, <2>4 DEF Rewritten
  <2> QED BY <2>3, <2>4
<1>6. Extends(x, y)
  BY <1>1, <1>2, <1>3, <1>5 DEF Extends, Rewritten
<1>7. Rooted(x) => Rooted(y)
  <2>1. NumbersAreUsed(x) => NumbersAreUsed(y)
    BY <1>1 DEF NumbersAreUsed, Rewritten
  <2>2. ASSUME IsTree(x) PROVE IsTree(y)
    <3>1. IsDir(y, y.root)
      BY <1>1, <1>4, <2>2, TreeChar DEF Rewritten
    <3>2. \A d, n : HasEntry(y, d, n) =>
            /\ IsDir(y, d)
            /\ ChildOf(y, d, n) \in Inos(y) \ {y.root}
            /\ ChildOf(y, d, n) > d
      BY <1>1, <1>2, <1>3, <1>4, <2>2, TreeChar DEF Rewritten
    <3>3. \A i \in Inos(y) \ {y.root} : \E d, n : HasEntry(y, d, n) /\ ChildOf(y, d, n) = i
      BY <1>1, <1>2, <1>3, <2>2, TreeChar DEF Rewritten
    <3>4. \A d, n, e, m :
            HasEntry(y, d, n) /\ HasEntry(y, e, m) /\ ChildOf(y, d, n) = ChildOf(y, e, m)
              => d = e /\ n = m
      BY <1>2, <1>3, <2>2, TreeChar
    <3> QED BY <3>1, <3>2, <3>3, <3>4, TreeChar
  <2> QED BY <2>1, <2>2 DEF Rooted
<1>8. Single(x) => Single(y)
  BY <1>1, <1>4 DEF Single, FsShape, Rewritten
<1> QED BY <1>1, <1>6, <1>7, <1>8 DEF Rewritten

----------------------------------------------------------------------------
(* Mounts and paths.                                                       *)

Mountpoint == [path : Seq(STRING), fs : FsId]

\* The mounts have the longest path first, and one of them is at the root.
MountsSorted ==
  /\ mounts \in Seq(Mountpoint)
  /\ \E i \in 1 .. Len(mounts) : mounts[i].path = <<>>
  /\ \A i, j \in 1 .. Len(mounts) :
       i <= j => Len(mounts[j].path) <= Len(mounts[i].path)

\* The root is above every path.
LEMMA RootIsPrefix == ASSUME NEW path \in Seq(STRING) PROVE IsPrefix(<<>>, path)
<1>1. Len(path) \in Nat
  BY LenProperties
<1>2. SubSeq(<<>>, 1, Len(<<>>)) = <<>> /\ SubSeq(path, 1, Len(<<>>)) = <<>>
  BY SubSeqEmpty
<1> QED BY <1>1, <1>2 DEF IsPrefix

\* Every path is under a mount, and one of them is the first.
LEMMA BestMountFacts ==
  ASSUME MountsSorted, NEW path \in Seq(STRING)
  PROVE  /\ BestMount(path) \in 1 .. Len(mounts)
         /\ IsPrefix(mounts[BestMount(path)].path, path)
         /\ \A j \in 1 .. BestMount(path) - 1 : ~IsPrefix(mounts[j].path, path)
         /\ mounts[BestMount(path)].path \in Seq(STRING)
         /\ FsOf(path) \in FsId
<1>1. DOMAIN mounts = 1 .. Len(mounts) /\ Len(mounts) \in Nat
  BY LenProperties DEF MountsSorted
<1> DEFINE T == {i \in 1 .. Len(mounts) : IsPrefix(mounts[i].path, path)}
<1>2. T \in SUBSET Nat /\ T # {}
  BY <1>1, RootIsPrefix DEF MountsSorted
<1>3. PICK i \in T : \A j \in T : i <= j
  BY <1>2, FirstPlace
<1>4. \A j \in 1 .. i - 1 : ~IsPrefix(mounts[j].path, path)
  <2> SUFFICES ASSUME NEW j \in 1 .. i - 1, IsPrefix(mounts[j].path, path) PROVE FALSE
    OBVIOUS
  <2>1. j \in 1 .. Len(mounts) /\ j < i
    BY <1>1, <1>3
  <2> QED BY <1>3, <2>1
<1> DEFINE First(k) == /\ IsPrefix(mounts[k].path, path)
                       /\ \A j \in 1 .. k - 1 : ~IsPrefix(mounts[j].path, path)
<1>5. \E k \in DOMAIN mounts : First(k)
  BY <1>1, <1>3, <1>4
<1>6. BestMount(path) = CHOOSE k \in DOMAIN mounts : First(k)
  BY DEF BestMount
<1> HIDE DEF First
<1>7. BestMount(path) \in DOMAIN mounts /\ First(BestMount(path))
  BY <1>5, <1>6, Zenon
<1>8. mounts[BestMount(path)] \in Mountpoint
  BY <1>1, <1>7, ElementOfSeq DEF MountsSorted
<1> QED BY <1>1, <1>7, <1>8 DEF First, FsOf, Mountpoint

\* Of the mounts a path is under, the first is the one it leads into, and none
\* of them is longer.
LEMMA SortedWins ==
  ASSUME MountsSorted, NEW path \in Seq(STRING), NEW i \in DOMAIN mounts,
         IsPrefix(mounts[i].path, path)
  PROVE  Len(mounts[i].path) <= Len(mounts[BestMount(path)].path)
<1>1. DOMAIN mounts = 1 .. Len(mounts) /\ Len(mounts) \in Nat
  BY LenProperties DEF MountsSorted
<1>2. BestMount(path) \in 1 .. Len(mounts)
      /\ \A j \in 1 .. BestMount(path) - 1 : ~IsPrefix(mounts[j].path, path)
  BY BestMountFacts
<1>3. BestMount(path) <= i
  BY <1>1, <1>2
<1> QED BY <1>1, <1>2, <1>3 DEF MountsSorted

\* The parent of a path is a path.
LEMMA FrontOfPath ==
  ASSUME NEW path \in Seq(STRING)
  PROVE  ParentOf(path) \in Seq(STRING)
<1>1. CASE path = <<>>
  BY <1>1 DEF ParentOf
<1>2. CASE path # <<>>
  <2>1. Len(path) \in Nat /\ \A i \in 1 .. Len(path) - 1 : path[i] \in STRING
    BY LenProperties, ElementOfSeq
  <2>2. SubSeq(path, 1, Len(path) - 1) \in Seq(STRING)
    BY <2>1, SubSeqProperties
  <2> QED BY <1>2, <2>2 DEF ParentOf, Front
<1> QED BY <1>1, <1>2

\* Walking names ends at an inode of the filesystem or nowhere.  The function
\* the walk is made of exists by recursion on the length of the path.
LEMMA WalkEnds ==
  ASSUME NEW f, FsShape(fs[f]), NEW names, Len(names) \in Nat
  PROVE  Walk(f, names) \in Inos(fs[f]) \cup {NoIno}
<1> DEFINE A == Inos(fs[f]) \cup {NoIno}
           L == Len(names)
           To(i, x) == IF HasChild(fs[f], x, names[i + 1])
                       THEN ChildOf(fs[f], x, names[i + 1]) ELSE NoIno
           F == [i \in Nat |-> [x \in A |-> To(i, x)]]
           Body(g) == [i \in 0 .. L |->
                         IF i = 0 THEN fs[f].root
                         ELSE IF HasChild(fs[f], g[i - 1], names[i])
                              THEN ChildOf(fs[f], g[i - 1], names[i]) ELSE NoIno]
           at == CHOOSE g : g = Body(g)
<1>1. Walk(f, names) = at[L]
  BY DEF Walk
<1>2. \A i, x : To(i, x) \in A
  BY DEF HasChild, ChildOf
<1>3. fs[f].root \in A
  BY DEF FsShape
<1>4. StepsIn(A, F)
  BY <1>2 DEF StepsIn
<1>5. \A i \in Nat, x \in A : F[i][x] = To(i, x)
  OBVIOUS
<1> HIDE DEF F, A, To
<1>6. \E h : Follows(h, A, fs[f].root, F)
  BY <1>3, <1>4, Recursion
<1>7. PICK h \in [Nat -> A] : h[0] = fs[f].root /\ \A n \in Nat : h[n + 1] = F[n][h[n]]
  BY <1>6 DEF Follows
<1> DEFINE g == [i \in 0 .. L |-> h[i]]
<1>8. g = Body(g)
  <2>1. ASSUME NEW i \in 0 .. L PROVE g[i] = Body(g)[i]
    <3>1. CASE i = 0
      BY <1>7, <3>1
    <3>2. CASE i # 0
      <4>1. i - 1 \in Nat /\ i - 1 \in 0 .. L /\ (i - 1) + 1 = i
        BY <3>2
      <4>2. g[i - 1] = h[i - 1] /\ h[i - 1] \in A
        BY <1>7, <4>1
      <4>3. h[i] = To(i - 1, h[i - 1])
        BY <1>5, <1>7, <4>1, <4>2
      <4> QED BY <3>2, <4>1, <4>2, <4>3 DEF To
    <3> QED BY <3>1, <3>2
  <2> QED BY <2>1
<1> HIDE DEF g, Body
<1>9. at = Body(at)
  BY <1>8, Zenon
<1> HIDE DEF at
<1>10. at[L] \in A
  <2>1. L \in 0 .. L
    OBVIOUS
  <2>2. at[L] = Body(at)[L]
    BY <1>9
  <2>3. Body(at)[L] = IF L = 0 THEN fs[f].root ELSE To(L - 1, at[L - 1])
    BY <2>1 DEF Body, To
  <2> QED BY <1>2, <1>3, <2>2, <2>3 DEF A, To, HasChild, ChildOf
<1> QED BY <1>1, <1>10 DEF A

\* A path leads to an inode of the filesystem that it leads into, or nowhere.
LEMMA InoOfPath ==
  ASSUME MountsSorted, NEW path \in Seq(STRING), FsShape(fs[FsOf(path)])
  PROVE  InoOf(path) \in Inos(fs[FsOf(path)]) \cup {NoIno}
<1> DEFINE m == mounts[BestMount(path)]
           names == SubSeq(path, Len(m.path) + 1, Len(path))
<1>1. m.path \in Seq(STRING)
  BY BestMountFacts
<1>2. Len(path) \in Nat /\ Len(m.path) \in Nat
  BY <1>1, LenProperties
<1>3. names \in Seq(STRING)
  <2>1. \A i \in Len(m.path) + 1 .. Len(path) : path[i] \in STRING
    BY <1>2, ElementOfSeq
  <2> HIDE DEF m
  <2> QED BY <1>2, <2>1, SubSeqProperties
<1>4. Len(names) \in Nat
  BY <1>3, LenProperties
<1>5. InoOf(path) = Walk(FsOf(path), names)
  BY DEF InoOf, FsOf
<1> HIDE DEF names
<1> QED BY <1>4, <1>5, WalkEnds

\* mount keeps the mounts sorted.
LEMMA MountedSortedFacts ==
  ASSUME MountsSorted, NEW m \in Mountpoint, mounts' = MountedSorted(m)
  PROVE  MountsSorted'
<1> DEFINE L == Len(mounts)
           before == {i \in DOMAIN mounts : Len(mounts[i].path) >= Len(m.path)}
           k == Cardinality(before)
<1>1. L \in Nat /\ DOMAIN mounts = 1 .. L /\ \A i \in 1 .. L : mounts[i] \in Mountpoint
  BY LenProperties, ElementOfSeq DEF MountsSorted
<1>2. \A i \in 1 .. L : Len(mounts[i].path) \in Nat
  BY <1>1, LenProperties DEF Mountpoint
<1>3. Len(m.path) \in Nat
  BY LenProperties DEF Mountpoint
<1>4. PICK n \in 0 .. L : before = 1 .. n
  <2> DEFINE after == {i \in 1 .. L + 1 : i = L + 1 \/ Len(mounts[i].path) < Len(m.path)}
  <2>1. after \in SUBSET Nat /\ after # {}
    BY <1>1
  <2>2. PICK a \in after : \A j \in after : a <= j
    BY <2>1, FirstPlace
  <2>3. a \in 1 .. L + 1 /\ a - 1 \in 0 .. L
    BY <1>1, <2>2
  <2>4. ASSUME NEW i \in 1 .. L PROVE i \in before <=> i < a
    <3>1. CASE i < a
      <4>1. i \notin after
        BY <1>1, <2>2, <2>3, <3>1
      <4>2. ~(Len(mounts[i].path) < Len(m.path))
        BY <1>1, <4>1
      <4> QED BY <1>1, <1>2, <1>3, <3>1, <4>2
    <3>2. CASE ~(i < a)
      <4>1. a \in 1 .. L /\ a <= i
        BY <1>1, <2>3, <3>2
      <4>2. Len(mounts[a].path) < Len(m.path)
        BY <1>1, <2>2, <4>1
      <4>3. Len(mounts[i].path) <= Len(mounts[a].path)
        BY <4>1 DEF MountsSorted
      <4> QED BY <1>1, <1>2, <1>3, <3>2, <4>1, <4>2, <4>3
    <3> QED BY <3>1, <3>2
  <2>5. before = 1 .. a - 1
    BY <1>1, <2>3, <2>4
  <2> QED BY <2>3, <2>5
<1>5. k = n
  <2>1. n \in Nat /\ 1 \in Int
    BY <1>1
  <2>2. Cardinality(1 .. n) = IF 1 > n THEN 0 ELSE n - 1 + 1
    BY <2>1, FS_Interval
  <2>3. Cardinality(1 .. n) = n
    BY <2>1, <2>2
  <2> QED BY <1>4, <2>3
<1>6. mounts' = SubSeq(mounts, 1, n) \o <<m>> \o SubSeq(mounts, n + 1, L)
  <2>1. mounts' = InsertAt(mounts, k + 1, m)
    BY DEF MountedSorted
  <2>2. mounts' = InsertAt(mounts, n + 1, m)
    BY <1>5, <2>1
  <2>3. (n + 1) - 1 = n
    OBVIOUS
  <2> QED BY <2>2, <2>3 DEF InsertAt
<1> DEFINE front == SubSeq(mounts, 1, n)
           back  == SubSeq(mounts, n + 1, L)
<1>7. /\ front \in Seq(Mountpoint) /\ Len(front) = n
      /\ \A i \in 1 .. n : front[i] = mounts[i]
  <2>1. \A i \in 1 .. n : mounts[i] \in Mountpoint
    BY <1>1
  <2>2. 1 \in Int /\ n \in Int
    BY <1>1
  <2>3. /\ front \in Seq(Mountpoint)
        /\ Len(front) = IF 1 <= n THEN n - 1 + 1 ELSE 0
        /\ \A i \in 1 .. n - 1 + 1 : front[i] = mounts[1 + i - 1]
    BY <2>1, <2>2, SubSeqProperties
  <2> HIDE DEF front
  <2> QED BY <1>1, <2>3
<1>8. /\ back \in Seq(Mountpoint) /\ Len(back) = L - n
      /\ \A i \in 1 .. L - n : back[i] = mounts[n + i]
  <2>1. \A i \in n + 1 .. L : mounts[i] \in Mountpoint
    BY <1>1
  <2>2. n + 1 \in Int /\ L \in Int
    BY <1>1
  <2>3. /\ back \in Seq(Mountpoint)
        /\ Len(back) = IF n + 1 <= L THEN L - (n + 1) + 1 ELSE 0
        /\ \A i \in 1 .. L - (n + 1) + 1 : back[i] = mounts[n + 1 + i - 1]
    <3> HIDE DEF L
    <3> QED BY <2>1, <2>2, SubSeqProperties
  <2> HIDE DEF back
  <2>4. Len(back) = L - n
    <3>1. Len(back) = IF n + 1 <= L THEN L - (n + 1) + 1 ELSE 0
      BY <2>3
    <3>2. L \in Nat /\ n \in 0 .. L
      BY <1>1
    <3> HIDE DEF L
    <3>3. (IF n + 1 <= L THEN L - (n + 1) + 1 ELSE 0) = L - n
      BY <3>2
    <3> QED BY <3>1, <3>3
  <2>5. ASSUME NEW i \in 1 .. L - n PROVE back[i] = mounts[n + i]
    <3>1. i \in 1 .. L - (n + 1) + 1 /\ n + 1 + i - 1 = n + i
      BY <1>1
    <3> QED BY <2>3, <3>1
  <2> QED BY <2>3, <2>4, <2>5
<1> HIDE DEF front, back, before, k
<1>9. /\ front \o <<m>> \in Seq(Mountpoint) /\ Len(front \o <<m>>) = n + 1
      /\ \A i \in 1 .. n : (front \o <<m>>)[i] = mounts[i]
      /\ (front \o <<m>>)[n + 1] = m
  <2>1. <<m>> \in Seq(Mountpoint) /\ Len(<<m>>) = 1 /\ <<m>>[1] = m
    OBVIOUS
  <2>2. /\ front \o <<m>> \in Seq(Mountpoint)
        /\ Len(front \o <<m>>) = Len(front) + Len(<<m>>)
        /\ \A i \in 1 .. Len(front) + Len(<<m>>) :
             (front \o <<m>>)[i] = IF i <= Len(front) THEN front[i] ELSE <<m>>[i - Len(front)]
    BY <1>7, <2>1, ConcatProperties
  <2> QED BY <1>1, <1>7, <2>1, <2>2
<1> DEFINE head == front \o <<m>>
<1>10. /\ mounts' \in Seq(Mountpoint) /\ Len(mounts') = L + 1
       /\ \A i \in 1 .. L + 1 : mounts'[i] = IF i <= n THEN mounts[i]
                                             ELSE IF i = n + 1 THEN m ELSE mounts[i - 1]
  <2>1. mounts' = head \o back
    BY <1>6 DEF front, back
  <2> HIDE DEF head
  <2>2. head \in Seq(Mountpoint) /\ Len(head) = n + 1 /\ head[n + 1] = m
        /\ \A i \in 1 .. n : head[i] = mounts[i]
    BY <1>9 DEF head
  <2>3. /\ head \o back \in Seq(Mountpoint)
        /\ Len(head \o back) = Len(head) + Len(back)
        /\ \A i \in 1 .. Len(head) + Len(back) :
             (head \o back)[i] = IF i <= Len(head) THEN head[i] ELSE back[i - Len(head)]
    BY <1>8, <2>2, ConcatProperties
  <2>4. Len(head) + Len(back) = L + 1
    BY <1>1, <1>8, <2>2
  <2>5. ASSUME NEW i \in 1 .. L + 1
        PROVE  mounts'[i] = IF i <= n THEN mounts[i]
                            ELSE IF i = n + 1 THEN m ELSE mounts[i - 1]
    <3>1. CASE i <= n + 1
      BY <1>1, <2>1, <2>2, <2>3, <2>4, <3>1
    <3>2. CASE i > n + 1
      <4>1. i - (n + 1) \in 1 .. L - n /\ n + (i - (n + 1)) = i - 1
        BY <1>1, <3>2
      <4>2. mounts'[i] = back[i - (n + 1)]
        BY <1>1, <2>1, <2>2, <2>3, <2>4, <3>2
      <4>3. ~(i <= n) /\ i # n + 1
        BY <1>1, <3>2
      <4> QED BY <1>8, <4>1, <4>2, <4>3
    <3> QED BY <1>1, <3>1, <3>2
  <2> QED BY <2>1, <2>3, <2>4, <2>5
<1>11. \E i \in 1 .. Len(mounts') : mounts'[i].path = <<>>
  <2>1. PICK i \in 1 .. L : mounts[i].path = <<>>
    BY DEF MountsSorted
  <2>2. CASE i <= n
    <3>1. i \in 1 .. L + 1
      BY <1>1
    <3> QED BY <1>10, <2>1, <2>2, <3>1
  <2>3. CASE i > n
    <3>1. i + 1 \in 1 .. L + 1 /\ ~(i + 1 <= n) /\ i + 1 # n + 1 /\ (i + 1) - 1 = i
      BY <1>1, <2>3
    <3> QED BY <1>10, <2>1, <3>1
  <2> QED BY <1>1, <2>2, <2>3
<1>12. ASSUME NEW i \in 1 .. Len(mounts'), NEW j \in 1 .. Len(mounts'), i <= j
       PROVE  Len(mounts'[j].path) <= Len(mounts'[i].path)
  <2>1. \A u \in 1 .. n : Len(m.path) <= Len(mounts[u].path)
    BY <1>1, <1>4 DEF before
  <2>2. \A u \in n + 1 .. L : Len(mounts[u].path) <= Len(m.path)
    <3> SUFFICES ASSUME NEW u \in n + 1 .. L PROVE Len(mounts[u].path) <= Len(m.path)
      OBVIOUS
    <3>1. u \notin before /\ u \in 1 .. L
      BY <1>1, <1>4
    <3> QED BY <1>1, <1>2, <1>3, <3>1 DEF before
  <2>3. \A u, v \in 1 .. L : u <= v => Len(mounts[v].path) <= Len(mounts[u].path)
    BY DEF MountsSorted
  <2> DEFINE at(u) == IF u <= n THEN mounts[u] ELSE IF u = n + 1 THEN m ELSE mounts[u - 1]
  <2>4. mounts'[i] = at(i) /\ mounts'[j] = at(j) /\ i \in 1 .. L + 1 /\ j \in 1 .. L + 1
    BY <1>10
  <2>5. CASE j <= n
    <3>1. i <= n /\ i \in 1 .. L /\ j \in 1 .. L
      BY <1>12, <1>1, <2>4, <2>5
    <3> QED BY <1>12, <2>3, <2>4, <2>5, <3>1
  <2>6. CASE j = n + 1
    <3>1. CASE i = n + 1
      BY <1>3, <2>4, <2>6, <3>1
    <3>2. CASE i <= n
      BY <2>1, <2>4, <2>6, <3>2
    <3> QED BY <1>12, <2>4, <2>6, <3>1, <3>2
  <2>7. CASE j > n + 1
    <3>1. j - 1 \in n + 1 .. L /\ j - 1 \in 1 .. L
      BY <1>1, <2>4, <2>7
    <3>2. CASE i <= n
      <4>1. i \in 1 .. L /\ i <= j - 1
        BY <1>1, <2>4, <2>7, <3>2
      <4> QED BY <2>3, <2>4, <2>7, <3>1, <3>2, <4>1
    <3>3. CASE i = n + 1
      BY <2>2, <2>4, <2>7, <3>1, <3>3
    <3>4. CASE i > n + 1
      <4>1. i - 1 \in 1 .. L /\ i - 1 <= j - 1
        BY <1>1, <1>12, <2>4, <3>4
      <4> QED BY <2>3, <2>4, <2>7, <3>1, <3>4, <4>1
    <3> QED BY <2>4, <3>2, <3>3, <3>4
  <2> QED BY <2>4, <2>5, <2>6, <2>7
<1> QED BY <1>10, <1>11, <1>12 DEF MountsSorted

----------------------------------------------------------------------------
(* The inductive invariant.                                                *)

\* Every filesystem has the shape of one, and is a tree; of a volume the root
\* may be all there is.
FsSound(f) == FsShape(fs[f]) /\ (Rooted(fs[f]) \/ (f \in Volumes /\ Single(fs[f])))

FilesystemsSound == fs = [f \in FsId |-> fs[f]] /\ \A f \in FsId : FsSound(f)

\* The descriptors of the tables are numbers, and what is open is a file.
OpenFile == [path : Paths, ino : Nat, flags : Flags, position : Nat]

TablesTyped ==
  /\ nextFd \in Nat
  /\ fdt \in [Process -> SUBSET Nat]
  /\ DOMAIN openFiles \subseteq Nat
  /\ openFiles \in [DOMAIN openFiles -> OpenFile]

DescriptorsSound == TablesTyped /\ FdsArePrivate

\* The inductive invariant.
FilesInv == FilesystemsSound /\ MountsSorted /\ DescriptorsSound /\ PositionsInFile

\* What a step may do to the filesystems.
FsGrows == \A f \in FsId : Extends(fs[f], fs'[f])

----------------------------------------------------------------------------
(* The invariant over one filesystem, and at the start.                    *)

\* What is written is a sequence of bytes.
LEMMA ByteSeqs == Contents \subseteq Seq(Byte)
BY FilesAssumption DEF Byte

\* A system with one empty filesystem mounted is sound.
LEMMA InitFilesInv == Init => FilesInv
<1> SUFFICES ASSUME Init PROVE FilesInv
  OBVIOUS
<1>1. \A x : x = TmpFs => FsShape(x) /\ Rooted(x)
  <2> SUFFICES ASSUME NEW x, x = TmpFs PROVE FsShape(x) /\ Rooted(x)
    OBVIOUS
  <2>1. /\ Inos(x) = {1} /\ x.root = 1 /\ x.nextIno = 2
        /\ x.inodes[1] = NewInode("DIR") /\ x.inodes = [i \in {1} |-> x.inodes[i]]
        /\ x \in [root : Nat, nextIno : Nat, inodes : {x.inodes}]
    BY DEF TmpFs, Inos
  <2>2. IsInode(NewInode("DIR")) /\ DOMAIN NewInode("DIR").children = {}
        /\ NewInode("DIR").itype = "DIR"
    BY EmptySeq DEF IsInode, NewInode, NoChild
  <2>3. FsShape(x)
    BY <2>1, <2>2 DEF FsShape
  <2>4. \A d, n : ~HasEntry(x, d, n)
    BY <2>1, <2>2 DEF HasEntry
  <2>5. IsTree(x)
    BY <2>1, <2>2, <2>4, TreeChar DEF IsDir
  <2> QED BY <2>1, <2>3, <2>5 DEF Rooted, NumbersAreUsed
<1>2. \A x : x = Ext2Fs => FsShape(x) /\ Single(x)
  <2> SUFFICES ASSUME NEW x, x = Ext2Fs PROVE FsShape(x) /\ Single(x)
    OBVIOUS
  <2>1. /\ Inos(x) = {2} /\ x.root = 2 /\ x.nextIno = 2
        /\ x.inodes[2] = NewInode("DIR") /\ x.inodes = [i \in {2} |-> x.inodes[i]]
        /\ x \in [root : Nat, nextIno : Nat, inodes : {x.inodes}, freeInodes : Int]
    BY DEF Ext2Fs, Inos
  <2>2. IsInode(NewInode("DIR")) /\ DOMAIN NewInode("DIR").children = {}
    BY EmptySeq DEF IsInode, NewInode, NoChild
  <2> QED BY <2>1, <2>2 DEF FsShape, Single
<1>3. FilesystemsSound
  BY <1>1, <1>2 DEF Init, FilesystemsSound, FsSound
<1>4. MountsSorted
  <2>1. <<>> \in Seq(STRING)
    BY EmptySeq
  <2>2. [path |-> <<>>, fs |-> RootFs] \in Mountpoint
    BY <2>1, FilesAssumption DEF Mountpoint
  <2>3. /\ mounts \in Seq(Mountpoint) /\ Len(mounts) = 1
        /\ mounts[1] = [path |-> <<>>, fs |-> RootFs]
    BY <2>2 DEF Init
  <2>4. Len(mounts[1].path) = 0 /\ mounts[1].path = <<>>
    BY <2>3
  <2> HIDE DEF Init
  <2> QED BY <2>3, <2>4 DEF MountsSorted
<1>5. DescriptorsSound
  BY DEF Init, DescriptorsSound, TablesTyped, FdsArePrivate
<1>6. PositionsInFile
  BY DEF Init, PositionsInFile
<1> QED BY <1>3, <1>4, <1>5, <1>6 DEF FilesInv

\* Where a path leads depends on the mounts alone.
LEMMA FsOfStays ==
  ASSUME mounts' = mounts, NEW path
  PROVE  FsOf(path)' = FsOf(path)
BY DEF FsOf, BestMount

\* When filesystems grow under the open files, their positions stay inside.
LEMMA PositionsStay ==
  ASSUME FilesInv, FilesystemsSound', FsGrows, mounts' = mounts,
         NEW fd \in DOMAIN openFiles, NEW of, of = openFiles[fd]
  PROVE  /\ FsOf(of.path) \in FsId
         /\ of.ino \in Inos(fs'[FsOf(of.path)])
         /\ of.position \in Nat
         /\ of.position <= Len(fs'[FsOf(of.path)].inodes[of.ino].data)
         /\ Len(fs'[FsOf(of.path)].inodes[of.ino].data) \in Nat
<1>1. of \in OpenFile
  BY DEF FilesInv, DescriptorsSound, TablesTyped
<1>2. of.path \in Seq(STRING) /\ of.position \in Nat
  BY <1>1, FilesAssumption DEF OpenFile
<1>3. FsOf(of.path) \in FsId
  BY <1>2, BestMountFacts DEF FilesInv
<1> DEFINE x == fs[FsOf(of.path)]
           y == fs'[FsOf(of.path)]
<1>4. of.ino \in Inos(x) /\ of.position <= Len(x.inodes[of.ino].data)
  BY DEF FilesInv, PositionsInFile
<1>5. FsShape(x) /\ FsShape(y) /\ Extends(x, y)
  BY <1>3 DEF FilesInv, FilesystemsSound, FsSound, FsGrows
<1> HIDE DEF x, y
<1>6. of.ino \in Inos(y) /\ Len(x.inodes[of.ino].data) <= Len(y.inodes[of.ino].data)
  BY <1>4, <1>5 DEF Extends
<1>7. Len(x.inodes[of.ino].data) \in Nat /\ Len(y.inodes[of.ino].data) \in Nat
  BY <1>4, <1>5, <1>6, LenProperties DEF FsShape, IsInode
<1>8. of.position <= Len(y.inodes[of.ino].data)
  <2>1. \A a, b, c \in Nat : a <= b /\ b <= c => a <= c
    OBVIOUS
  <2> QED BY <1>2, <1>4, <1>6, <1>7, <2>1, Zenon
<1> QED BY <1>2, <1>3, <1>6, <1>7, <1>8 DEF y

\* One filesystem becomes another one that is sound.
LEMMA OneFsChanges ==
  ASSUME FilesystemsSound, NEW f \in FsId, NEW y, fs' = [fs EXCEPT ![f] = y],
         FsShape(y), Extends(fs[f], y),
         Rooted(fs[f]) => Rooted(y), Single(fs[f]) => Rooted(y) \/ Single(y)
  PROVE  FilesystemsSound' /\ FsGrows
<1>1. fs' = [g \in FsId |-> IF g = f THEN y ELSE fs[g]]
  BY DEF FilesystemsSound
<1>2. ASSUME NEW g \in FsId PROVE FsSound(g)' /\ Extends(fs[g], fs'[g])
  <2>1. FsSound(g)
    BY DEF FilesystemsSound
  <2>2. CASE g = f
    BY <1>1, <2>1, <2>2 DEF FsSound
  <2>3. CASE g # f
    <3>1. fs'[g] = fs[g]
      BY <1>1, <2>3
    <3>2. Extends(fs[g], fs[g])
      BY <2>1, ExtendsSelf DEF FsSound
    <3> QED BY <2>1, <3>1, <3>2 DEF FsSound
  <2> QED BY <2>2, <2>3
<1>3. fs' = [g \in FsId |-> fs'[g]]
  BY <1>1
<1> QED BY <1>2, <1>3 DEF FilesystemsSound, FsGrows

\* create of the filesystem f.
LEMMA MadeSound ==
  ASSUME FilesystemsSound, NEW f \in FsId, NEW parent, NEW name,
         NEW itype \in {"DIR", "REG"}, CanCreate(fs[f], parent, name)
  PROVE  LET y == Made(f, parent, name, itype)
         IN  /\ Grown(fs[f], y, parent, name, itype)
             /\ FsShape(y) /\ Extends(fs[f], y)
             /\ Rooted(fs[f]) => Rooted(y)
             /\ Single(fs[f]) => Rooted(y) \/ Single(y)
<1> DEFINE y == Made(f, parent, name, itype)
<1>1. FsShape(fs[f]) /\ (Rooted(fs[f]) \/ Single(fs[f]))
  BY DEF FilesystemsSound, FsSound
<1>2. Grown(fs[f], y, parent, name, itype)
  BY <1>1, CreatedGrows, Ext2CreatedGrows DEF Made
<1> HIDE DEF y
<1>3. /\ FsShape(y) /\ Extends(fs[f], y)
      /\ Rooted(fs[f]) => Rooted(y)
      /\ Single(fs[f]) => Rooted(y) \/ Single(y)
  BY <1>1, <1>2, GrownSound
<1> QED BY <1>2, <1>3 DEF y

----------------------------------------------------------------------------
(* The steps.                                                              *)

\* Nothing happens to the filesystems.
LEMMA SameFilesystems == FilesInv /\ fs' = fs => FilesystemsSound' /\ FsGrows
<1> SUFFICES ASSUME FilesInv, fs' = fs PROVE FilesystemsSound' /\ FsGrows
  OBVIOUS
<1>1. \A f \in FsId : FsSound(f) /\ FsSound(f)'
  BY DEF FilesInv, FilesystemsSound, FsSound
<1>2. \A f \in FsId : Extends(fs[f], fs'[f])
  BY <1>1, ExtendsSelf DEF FsSound
<1> QED BY <1>1, <1>2 DEF FilesInv, FilesystemsSound, FsGrows

\* Nothing but the filesystems changes, and they grow.
LEMMA OnlyFilesystemsChange ==
  ASSUME FilesInv, FilesystemsSound', FsGrows, UNCHANGED <<mounts, openFiles, nextFd, fdt>>
  PROVE  FilesInv'
<1>1. MountsSorted' /\ DescriptorsSound'
  BY DEF FilesInv, MountsSorted, DescriptorsSound, TablesTyped, FdsArePrivate
<1>2. PositionsInFile'
  <2> SUFFICES ASSUME NEW fd \in DOMAIN openFiles
               PROVE  LET of == openFiles[fd]
                          f  == FsOf(of.path)'
                      IN  /\ of.ino \in Inos(fs'[f])
                          /\ of.position <= Len(fs'[f].inodes[of.ino].data)
    BY DEF PositionsInFile
  <2> QED BY FsOfStays, PositionsStay
<1> QED BY <1>1, <1>2 DEF FilesInv

\* create_file and mkdir.
LEMMA CreateAtSound ==
  ASSUME FilesInv, NEW path \in Paths, NEW itype \in {"DIR", "REG"},
         NEW bytes \in Seq(Byte), CreateAt(path, itype, bytes)
  PROVE  FilesystemsSound' /\ FsGrows
<1> DEFINE f      == FsOf(ParentOf(path))
           parent == InoOf(ParentOf(path))
           made   == Made(f, parent, NameOf(path), itype)
           y      == Written(made, fs[f].nextIno, 0, bytes)
<1>1. f \in FsId
  BY BestMountFacts, FrontOfPath, FilesAssumption DEF FilesInv
<1>2. CanCreate(fs[f], parent, NameOf(path)) /\ fs' = [fs EXCEPT ![f] = y]
  BY DEF CreateAt
<1>3. /\ FsShape(made) /\ Extends(fs[f], made)
      /\ Rooted(fs[f]) => Rooted(made)
      /\ Single(fs[f]) => Rooted(made) \/ Single(made)
  BY <1>1, <1>2, MadeSound DEF FilesInv
<1>4. FsShape(fs[f])
  BY <1>1 DEF FilesInv, FilesystemsSound, FsSound
<1> HIDE DEF f, parent, made
<1>5. /\ FsShape(y) /\ Extends(made, y)
      /\ Rooted(made) => Rooted(y)
      /\ Single(made) => Single(y)
  BY <1>3, WrittenSound
<1> HIDE DEF y
<1>6. Extends(fs[f], y)
  BY <1>3, <1>4, <1>5, ExtendsTransitive
<1> QED BY <1>1, <1>2, <1>3, <1>5, <1>6, OneFsChanges DEF FilesInv

\* mkdir.
LEMMA MkdirKeepsInv ==
  ASSUME FilesInv, NEW path \in Paths, Mkdir(path)
  PROVE  FilesInv' /\ FsGrows
<1>1. <<>> \in Seq(Byte)
  BY EmptySeq
<1>2. FilesystemsSound' /\ FsGrows
  BY <1>1, CreateAtSound DEF Mkdir
<1> QED BY <1>2, OnlyFilesystemsChange DEF Mkdir

\* write_path.
LEMMA WritePathKeepsInv ==
  ASSUME FilesInv, NEW path \in Paths, NEW bytes \in Contents, WritePath(path, bytes)
  PROVE  FilesInv' /\ FsGrows
<1>1. bytes \in Seq(Byte)
  BY ByteSeqs
<1>2. CASE InoOf(path) = NoIno
  <2>1. FilesystemsSound' /\ FsGrows
    BY <1>1, <1>2, CreateAtSound DEF WritePath
  <2> QED BY <2>1, OnlyFilesystemsChange DEF WritePath
<1>3. CASE InoOf(path) # NoIno
  <2> DEFINE f == FsOf(path)
             y == Written(fs[f], InoOf(path), 0, bytes)
  <2>1. f \in FsId /\ FsShape(fs[f])
    BY BestMountFacts, FilesAssumption DEF FilesInv, FilesystemsSound, FsSound
  <2>2. fs' = [fs EXCEPT ![f] = y]
    BY <1>3 DEF WritePath
  <2>3. /\ FsShape(y) /\ Extends(fs[f], y)
        /\ Rooted(fs[f]) => Rooted(y)
        /\ Single(fs[f]) => Single(y)
    BY <1>1, <2>1, WrittenSound
  <2> HIDE DEF f, y
  <2>4. FilesystemsSound' /\ FsGrows
    BY <2>1, <2>2, <2>3, OneFsChanges DEF FilesInv
  <2> QED BY <2>4, OnlyFilesystemsChange DEF WritePath
<1> QED BY <1>2, <1>3

\* The file that an open finds or makes, and the filesystems after it.
LEMMA OpenFinds ==
  ASSUME FilesInv, NEW p \in Process, NEW path \in Paths, NEW flags \in Flags,
         Open(p, path, flags)
  PROVE  /\ FilesystemsSound' /\ FsGrows
         /\ \E file, data :
              /\ openFiles' = [fd \in DOMAIN openFiles \cup {nextFd} |->
                                 IF fd = nextFd THEN Opened(path, flags, file, data)
                                 ELSE openFiles[fd]]
              /\ file \in Inos(fs'[FsOf(path)])
              /\ data = fs'[FsOf(path)].inodes[file].data
<1> DEFINE f     == FsOf(path)
           x     == fs[f]
           ino   == InoOf(path)
           name  == NameOf(path)
           inDir == flags # "r" /\ IsDir(x, ino)
           makes == inDir /\ CanCreate(x, ino, name)
           file  == IF makes THEN x.nextIno
                    ELSE IF inDir THEN ChildOf(x, ino, name) ELSE ino
           data  == IF makes THEN <<>> ELSE x.inodes[file].data
<1>1. path \in Seq(STRING) /\ f \in FsId /\ FsShape(x) /\ (Rooted(x) \/ Single(x))
  BY BestMountFacts, FilesAssumption DEF FilesInv, FilesystemsSound, FsSound
<1>2. ino \in Inos(x)
  BY <1>1, InoOfPath DEF FilesInv, Open, CanOpen
<1>3. /\ fs' = IF makes THEN [fs EXCEPT ![f] = Made(f, ino, name, "REG")] ELSE fs
      /\ openFiles' = [fd \in DOMAIN openFiles \cup {nextFd} |->
                         IF fd = nextFd THEN Opened(path, flags, file, data) ELSE openFiles[fd]]
  BY DEF Open, NewFd
<1>4. inDir /\ ~makes => file \in Inos(x)
  <2> SUFFICES ASSUME inDir, ~makes PROVE file \in Inos(x)
    OBVIOUS
  <2>1. HasEntry(x, ino, name) /\ file = ChildOf(x, ino, name)
    BY <1>2 DEF CanCreate, HasEntry
  <2>2. Rooted(x)
    BY <1>1, <1>2, <2>1 DEF Single, HasEntry
  <2>3. ChildOf(x, ino, name) \in Inos(x)
    BY <2>1, <2>2, TreeChar DEF Rooted
  <2> QED BY <2>1, <2>3
<1> HIDE DEF inDir, f, ino, name
<1>5. CASE makes
  <2> DEFINE y == Made(f, ino, name, "REG")
  <2>1. /\ Grown(x, y, ino, name, "REG")
        /\ FsShape(y) /\ Extends(x, y)
        /\ Rooted(x) => Rooted(y)
        /\ Single(x) => Rooted(y) \/ Single(y)
    BY <1>1, <1>5, MadeSound DEF FilesInv
  <2>2. fs' = [fs EXCEPT ![f] = y]
    BY <1>3, <1>5
  <2> HIDE DEF y
  <2>3. FilesystemsSound' /\ FsGrows
    BY <1>1, <2>1, <2>2, OneFsChanges DEF FilesInv
  <2>4. fs'[f] = y
    BY <1>1, <2>2 DEF FilesInv, FilesystemsSound
  <2>5. x.nextIno \in Inos(y) /\ y.inodes[x.nextIno].data = <<>>
    BY <2>1 DEF Grown, NewInode
  <2> QED BY <1>3, <1>5, <2>3, <2>4, <2>5 DEF f
<1>6. CASE ~makes
  <2>1. fs' = fs
    BY <1>3, <1>6
  <2>2. FilesystemsSound' /\ FsGrows
    BY <2>1, SameFilesystems
  <2>3. file \in Inos(x) /\ data = x.inodes[file].data
    BY <1>2, <1>4, <1>6
  <2> HIDE DEF makes, file, data
  <2> QED BY <1>3, <2>1, <2>2, <2>3 DEF f
<1> QED BY <1>5, <1>6

\* openat: the new descriptor is in no table yet, and starts inside its file.
LEMMA OpenKeepsInv ==
  ASSUME FilesInv, NEW p \in Process, NEW path \in Paths, NEW flags \in Flags,
         Open(p, path, flags)
  PROVE  FilesInv' /\ FsGrows
<1>1. FilesystemsSound' /\ FsGrows
  BY OpenFinds
<1>2. PICK file, data :
        /\ openFiles' = [fd \in DOMAIN openFiles \cup {nextFd} |->
                           IF fd = nextFd THEN Opened(path, flags, file, data)
                           ELSE openFiles[fd]]
        /\ file \in Inos(fs'[FsOf(path)])
        /\ data = fs'[FsOf(path)].inodes[file].data
  BY OpenFinds
<1>3. mounts' = mounts /\ nextFd' = nextFd + 1 /\ fdt' = [fdt EXCEPT ![p] = @ \cup {nextFd}]
  BY DEF Open, NewFd
<1>4. FsOf(path) \in FsId /\ FsShape(fs'[FsOf(path)])
  BY <1>1, BestMountFacts, FilesAssumption DEF FilesInv, FilesystemsSound, FsSound
<1>5. file \in Nat /\ data \in Seq(Byte)
  BY <1>2, <1>4 DEF FsShape, IsInode
<1>6. Len(data) \in Nat
  BY <1>5, LenProperties
<1> DEFINE new == Opened(path, flags, file, data)
<1>7. new \in OpenFile /\ new.path = path /\ new.ino = file /\ new.position <= Len(data)
  BY <1>5, <1>6 DEF Opened, OpenFile
<1> HIDE DEF new
<1>8. TablesTyped /\ FdsArePrivate
  BY DEF FilesInv, DescriptorsSound
<1>9. nextFd \in Nat /\ nextFd \notin DOMAIN openFiles
  BY <1>8 DEF TablesTyped, FdsArePrivate
<1>10. /\ DOMAIN openFiles' = DOMAIN openFiles \cup {nextFd}
       /\ openFiles'[nextFd] = new
       /\ \A fd \in DOMAIN openFiles : openFiles'[fd] = openFiles[fd]
  BY <1>2, <1>9 DEF new
<1>11. TablesTyped'
  <2>1. openFiles' \in [DOMAIN openFiles' -> OpenFile]
    BY <1>2, <1>7, <1>8, <1>10 DEF TablesTyped
  <2> QED BY <1>3, <1>8, <1>9, <1>10, <2>1 DEF TablesTyped
<1>12. FdsArePrivate'
  <2>1. \A q \in Process : fdt'[q] = IF q = p THEN fdt[p] \cup {nextFd} ELSE fdt[q]
    BY <1>3, <1>8 DEF TablesTyped
  <2>2. \A q \in Process : nextFd \notin fdt[q]
    BY <1>8, <1>9 DEF FdsArePrivate
  <2>3. \A fd \in DOMAIN openFiles' : fd < nextFd'
    BY <1>3, <1>8, <1>9, <1>10 DEF TablesTyped, FdsArePrivate
  <2>4. \A q \in Process : fdt'[q] \subseteq DOMAIN openFiles'
    BY <1>8, <1>10, <2>1 DEF FdsArePrivate
  <2>5. \A q, r \in Process : q # r => fdt'[q] \cap fdt'[r] = {}
    BY <1>8, <2>1, <2>2 DEF FdsArePrivate
  <2> QED BY <2>3, <2>4, <2>5 DEF FdsArePrivate
<1>13. MountsSorted'
  BY <1>3 DEF FilesInv, MountsSorted
<1>14. PositionsInFile'
  <2> SUFFICES ASSUME NEW fd \in DOMAIN openFiles',
                      NEW of, of = openFiles'[fd],
                      NEW f, f = FsOf(of.path)'
               PROVE  of.ino \in Inos(fs'[f]) /\ of.position <= Len(fs'[f].inodes[of.ino].data)
    BY DEF PositionsInFile
  <2>1. f = FsOf(of.path)
    BY <1>3, FsOfStays
  <2>2. CASE fd = nextFd
    BY <1>2, <1>7, <1>10, <2>1, <2>2
  <2>3. CASE fd \in DOMAIN openFiles
    <3>1. of = openFiles[fd]
      BY <1>10, <2>3
    <3> QED BY <1>1, <1>3, <2>1, <2>3, <3>1, PositionsStay
  <2> QED BY <1>10, <2>2, <2>3
<1> QED BY <1>1, <1>11, <1>12, <1>13, <1>14 DEF FilesInv, DescriptorsSound

\* What read returns ends where the file does.
LEMMA BytesAtEnd ==
  ASSUME NEW x, FsShape(x), NEW ino \in Inos(x), NEW position \in Nat,
         position <= Len(x.inodes[ino].data), NEW size \in Nat
  PROVE  /\ Len(BytesAt(x, ino, position, size)) \in Nat
         /\ position + Len(BytesAt(x, ino, position, size)) <= Len(x.inodes[ino].data)
<1> DEFINE data == x.inodes[ino].data
           end  == IF position + size < Len(data) THEN position + size ELSE Len(data)
<1>1. data \in Seq(Byte) /\ (~IsFile(x, ino) => data = <<>>)
  BY DEF FsShape, IsInode, IsFile
<1>2. Len(data) \in Nat
  BY <1>1, LenProperties
<1>3. BytesAt(x, ino, position, size) = SubSeq(data, position + 1, end)
  BY <1>1 DEF BytesAt
<1>4. position <= Len(data)
  OBVIOUS
<1> HIDE DEF data
<1>5. end \in Nat /\ end <= Len(data) /\ position <= end
  BY <1>2, <1>4
<1> HIDE DEF end
<1>6. \A i \in position + 1 .. end : data[i] \in Byte
  <2>1. \A i \in position + 1 .. end : i \in 1 .. Len(data)
    BY <1>2, <1>5
  <2> QED BY <1>1, <2>1, ElementOfSeq
<1>7. Len(SubSeq(data, position + 1, end))
        = IF position + 1 <= end THEN end - (position + 1) + 1 ELSE 0
  BY <1>5, <1>6, SubSeqProperties
<1>8. Len(SubSeq(data, position + 1, end)) = end - position
  BY <1>5, <1>7
<1> QED BY <1>2, <1>3, <1>4, <1>5, <1>8 DEF data

\* The position of an open file moves, in files that grow.
LEMMA AdvanceKeepsInv ==
  ASSUME FilesInv, FilesystemsSound', FsGrows, UNCHANGED <<mounts, nextFd, fdt>>,
         NEW fd \in DOMAIN openFiles, NEW n \in Nat, Advance(fd, n),
         NEW of, of = openFiles[fd],
         of.position + n <= Len(fs'[FsOf(of.path)].inodes[of.ino].data)
  PROVE  FilesInv'
<1>1. TablesTyped /\ FdsArePrivate
  BY DEF FilesInv, DescriptorsSound
<1>2. of \in OpenFile
  BY <1>1 DEF TablesTyped
<1> DEFINE moved == [of EXCEPT !.position = @ + n]
<1>3. /\ moved \in OpenFile /\ moved.path = of.path /\ moved.ino = of.ino
      /\ moved.position = of.position + n
  BY <1>2 DEF OpenFile
<1>4. openFiles' = [openFiles EXCEPT ![fd] = moved]
  BY DEF Advance
<1> HIDE DEF moved
<1>5. /\ DOMAIN openFiles' = DOMAIN openFiles
      /\ openFiles'[fd] = moved
      /\ \A gd \in DOMAIN openFiles : gd # fd => openFiles'[gd] = openFiles[gd]
      /\ openFiles' \in [DOMAIN openFiles -> OpenFile]
  BY <1>1, <1>3, <1>4 DEF TablesTyped
<1>6. TablesTyped' /\ FdsArePrivate'
  BY <1>1, <1>5 DEF TablesTyped, FdsArePrivate
<1>7. MountsSorted'
  BY DEF FilesInv, MountsSorted
<1>8. PositionsInFile'
  <2> SUFFICES ASSUME NEW gd \in DOMAIN openFiles,
                      NEW og, og = openFiles'[gd],
                      NEW f, f = FsOf(og.path)'
               PROVE  og.ino \in Inos(fs'[f]) /\ og.position <= Len(fs'[f].inodes[og.ino].data)
    BY <1>5 DEF PositionsInFile
  <2>1. f = FsOf(og.path)
    BY FsOfStays
  <2>2. CASE gd = fd
    <3>1. of.ino \in Inos(fs'[FsOf(of.path)])
      BY PositionsStay
    <3> QED BY <1>3, <1>5, <2>1, <2>2, <3>1
  <2>3. CASE gd # fd
    <3>1. og = openFiles[gd]
      BY <1>5, <2>3
    <3> QED BY <2>1, <3>1, PositionsStay
  <2> QED BY <2>2, <2>3
<1> QED BY <1>6, <1>7, <1>8 DEF FilesInv, DescriptorsSound

\* read.
LEMMA ReadKeepsInv ==
  ASSUME FilesInv, NEW p \in Process, NEW fd \in DOMAIN openFiles, Read(p, fd, 1)
  PROVE  FilesInv' /\ FsGrows
<1> DEFINE of == openFiles[fd]
           x  == fs[FsOf(of.path)]
           n  == Len(BytesAt(x, of.ino, of.position, 1))
<1>1. FilesystemsSound' /\ FsGrows /\ fs' = fs
  BY SameFilesystems DEF Read
<1>2. Advance(fd, n) /\ UNCHANGED <<mounts, nextFd, fdt>>
  BY DEF Read
<1>3. FsOf(of.path) \in FsId /\ of.position \in Nat
  BY <1>1, <1>2, PositionsStay
<1>4. FsShape(x) /\ of.ino \in Inos(x) /\ of.position <= Len(x.inodes[of.ino].data)
  BY <1>3 DEF FilesInv, FilesystemsSound, FsSound, PositionsInFile
<1> HIDE DEF of, x
<1>5. n \in Nat /\ of.position + n <= Len(x.inodes[of.ino].data)
  BY <1>3, <1>4, BytesAtEnd
<1> HIDE DEF n
<1>6. of.position + n <= Len(fs'[FsOf(of.path)].inodes[of.ino].data)
  BY <1>1, <1>5 DEF x
<1> QED BY <1>1, <1>2, <1>5, <1>6, AdvanceKeepsInv DEF of

\* What a write through a descriptor does to the filesystems.
LEMMA WriteRewrites ==
  ASSUME FilesInv, NEW p \in Process, NEW fd \in DOMAIN openFiles, NEW bytes \in Contents,
         Write(p, fd, bytes), NEW of, of = openFiles[fd], NEW f, f = FsOf(of.path)
  PROVE  /\ f \in FsId /\ FsShape(fs[f])
         /\ of.position \in Nat /\ of.ino \in Inos(fs[f])
         /\ fs[f].inodes[of.ino].data \in Seq(Byte)
         /\ bytes \in Seq(Byte) /\ IsFile(fs[f], of.ino)
         /\ fs' = [fs EXCEPT ![f] = Written(fs[f], of.ino, of.position, bytes)]
         /\ Rewritten(fs[f], fs'[f], of.ino, of.position, bytes)
         /\ FilesystemsSound' /\ FsGrows
         /\ Advance(fd, Len(bytes)) /\ UNCHANGED <<mounts, nextFd, fdt>>
<1> DEFINE y == Written(fs[f], of.ino, of.position, bytes)
<1>1. of \in OpenFile /\ bytes \in Seq(Byte)
  BY ByteSeqs DEF FilesInv, DescriptorsSound, TablesTyped
<1>2. f \in FsId /\ FsShape(fs[f])
  BY <1>1, BestMountFacts, FilesAssumption
     DEF OpenFile, FilesInv, FilesystemsSound, FsSound
<1>3. of.position \in Nat /\ of.ino \in Inos(fs[f])
  BY <1>1 DEF OpenFile, FilesInv, PositionsInFile
<1>4. fs[f].inodes[of.ino].data \in Seq(Byte)
  BY <1>2, <1>3 DEF FsShape, IsInode
<1>5. IsFile(fs[f], of.ino) /\ fs' = [fs EXCEPT ![f] = y]
  BY DEF Write, WriteOffset
<1>6. /\ FsShape(y) /\ Extends(fs[f], y)
      /\ Rooted(fs[f]) => Rooted(y)
      /\ Single(fs[f]) => Single(y)
  BY <1>1, <1>2, <1>3, WrittenSound
<1>7. Rewritten(fs[f], y, of.ino, of.position, bytes)
  BY <1>1, <1>2, <1>3, WrittenFacts
<1>8. fs'[f] = y
  BY <1>2, <1>5 DEF FilesInv, FilesystemsSound
<1> HIDE DEF y
<1>9. FilesystemsSound' /\ FsGrows
  BY <1>2, <1>5, <1>6, OneFsChanges DEF FilesInv
<1>10. Advance(fd, Len(bytes)) /\ UNCHANGED <<mounts, nextFd, fdt>>
  BY DEF Write, AdvanceWrite
<1> QED BY <1>1, <1>2, <1>3, <1>4, <1>5, <1>7, <1>8, <1>9, <1>10 DEF y

\* write: the file reaches to the position the descriptor gets.
LEMMA WriteKeepsInv ==
  ASSUME FilesInv, NEW p \in Process, NEW fd \in DOMAIN openFiles, NEW bytes \in Contents,
         Write(p, fd, bytes)
  PROVE  FilesInv' /\ FsGrows
<1> DEFINE of == openFiles[fd]
           f  == FsOf(of.path)
           n  == Len(bytes)
<1> HIDE DEF of, f
<1>1. /\ of.position \in Nat /\ of.ino \in Inos(fs[f])
      /\ fs[f].inodes[of.ino].data \in Seq(Byte)
      /\ bytes \in Seq(Byte) /\ IsFile(fs[f], of.ino)
      /\ Rewritten(fs[f], fs'[f], of.ino, of.position, bytes)
      /\ FilesystemsSound' /\ FsGrows
      /\ Advance(fd, n) /\ UNCHANGED <<mounts, nextFd, fdt>>
  BY WriteRewrites DEF of, f
<1>2. fs'[f].inodes[of.ino].data = Overwritten(fs[f].inodes[of.ino].data, of.position, bytes)
  BY <1>1 DEF Rewritten
<1>3. n \in Nat
  BY <1>1, LenProperties
<1>4. of.position + n <= Len(Overwritten(fs[f].inodes[of.ino].data, of.position, bytes))
  BY <1>1, OverwrittenFacts
<1>5. of.position + n <= Len(fs'[FsOf(of.path)].inodes[of.ino].data)
  BY <1>2, <1>4 DEF f
<1> HIDE DEF n
<1> QED BY <1>1, <1>3, <1>5, AdvanceKeepsInv DEF of

\* close.
LEMMA CloseKeepsInv ==
  ASSUME FilesInv, NEW p \in Process, NEW fd \in DOMAIN openFiles, Close(p, fd)
  PROVE  FilesInv' /\ FsGrows
<1>1. FilesystemsSound' /\ FsGrows /\ UNCHANGED <<fs, mounts, nextFd>>
  BY SameFilesystems DEF Close
<1>2. /\ fd \in fdt[p] /\ fdt' = [fdt EXCEPT ![p] = @ \ {fd}]
      /\ openFiles' = [gd \in DOMAIN openFiles \ {fd} |-> openFiles[gd]]
  BY DEF Close, Restrict
<1>3. TablesTyped /\ FdsArePrivate
  BY DEF FilesInv, DescriptorsSound
<1>4. TablesTyped'
  BY <1>1, <1>2, <1>3 DEF TablesTyped
<1>5. FdsArePrivate'
  <2>1. \A q \in Process : fdt'[q] = IF q = p THEN fdt[p] \ {fd} ELSE fdt[q]
    BY <1>2, <1>3 DEF TablesTyped
  <2>2. \A q \in Process : q # p => fd \notin fdt[q]
    BY <1>2, <1>3 DEF FdsArePrivate
  <2> QED BY <1>1, <1>2, <1>3, <2>1, <2>2 DEF FdsArePrivate
<1>6. MountsSorted'
  BY <1>1 DEF FilesInv, MountsSorted
<1>7. PositionsInFile'
  <2> SUFFICES ASSUME NEW gd \in DOMAIN openFiles \ {fd},
                      NEW og, og = openFiles[gd],
                      NEW f, f = FsOf(og.path)'
               PROVE  og.ino \in Inos(fs[f]) /\ og.position <= Len(fs[f].inodes[og.ino].data)
    BY <1>1, <1>2 DEF PositionsInFile
  <2>1. f = FsOf(og.path)
    BY <1>1, FsOfStays
  <2> QED BY <2>1 DEF FilesInv, PositionsInFile
<1> QED BY <1>1, <1>4, <1>5, <1>6, <1>7 DEF FilesInv, DescriptorsSound

\* wait4 and the table of a reaped process.
LEMMA ReapKeepsInv ==
  ASSUME FilesInv, NEW p \in Process, Reap(p)
  PROVE  FilesInv' /\ FsGrows
<1>1. FilesystemsSound' /\ FsGrows /\ UNCHANGED <<fs, mounts, openFiles, nextFd>>
  BY SameFilesystems DEF Reap
<1>2. TablesTyped /\ FdsArePrivate
  BY DEF FilesInv, DescriptorsSound
<1>3. \A q \in Process : fdt'[q] = IF q = p THEN {} ELSE fdt[q]
  BY <1>2 DEF Reap, TablesTyped
<1>4. TablesTyped' /\ FdsArePrivate'
  BY <1>1, <1>2, <1>3 DEF TablesTyped, FdsArePrivate, Reap
<1>5. MountsSorted'
  BY <1>1 DEF FilesInv, MountsSorted
<1>6. PositionsInFile'
  BY <1>1 DEF FilesInv, PositionsInFile, FsOf, BestMount
<1> QED BY <1>1, <1>4, <1>5, <1>6 DEF FilesInv, DescriptorsSound

\* mount, while nothing is open.
LEMMA MountKeepsInv ==
  ASSUME FilesInv, NEW path \in Paths \cup {<<>>}, NEW f \in FsId, Mount(path, f)
  PROVE  FilesInv' /\ FsGrows
<1>1. FilesystemsSound' /\ FsGrows /\ UNCHANGED <<fs, openFiles, nextFd, fdt>>
  BY SameFilesystems DEF Mount
<1>2. DescriptorsSound'
  BY <1>1 DEF FilesInv, DescriptorsSound, TablesTyped, FdsArePrivate
<1>3. PositionsInFile'
  BY DEF Mount, PositionsInFile
<1>4. [path |-> path, fs |-> f] \in Mountpoint
  BY FilesAssumption, EmptySeq DEF Mountpoint
<1>5. mounts' = MountedSorted([path |-> path, fs |-> f])
  BY DEF Mount
<1>6. MountsSorted'
  BY <1>4, <1>5, MountedSortedFacts DEF FilesInv
<1> QED BY <1>1, <1>2, <1>3, <1>6 DEF FilesInv

\* Every step keeps the invariant, and what is in the filesystems.
LEMMA StepKeepsInv == FilesInv /\ [Next]_vars => FilesInv' /\ FsGrows
<1> SUFFICES ASSUME FilesInv, [Next]_vars PROVE FilesInv' /\ FsGrows
  OBVIOUS
<1>1. CASE \E path \in Paths : Mkdir(path)
  BY <1>1, MkdirKeepsInv
<1>2. CASE \E path \in Paths, bytes \in Contents : WritePath(path, bytes)
  BY <1>2, WritePathKeepsInv
<1>3. CASE \E p \in Process, path \in Paths, flags \in Flags : Open(p, path, flags)
  BY <1>3, OpenKeepsInv
<1>4. CASE \E p \in Process, fd \in DOMAIN openFiles : Read(p, fd, 1)
  BY <1>4, ReadKeepsInv
<1>5. CASE \E p \in Process, fd \in DOMAIN openFiles, bytes \in Contents : Write(p, fd, bytes)
  BY <1>5, WriteKeepsInv
<1>6. CASE \E p \in Process, fd \in DOMAIN openFiles : Close(p, fd)
  BY <1>6, CloseKeepsInv
<1>7. CASE \E p \in Process : Reap(p)
  BY <1>7, ReapKeepsInv
<1>8. CASE \E path \in Paths \cup {<<>>}, f \in FsId : Mount(path, f)
  BY <1>8, MountKeepsInv
<1>9. CASE UNCHANGED vars
  <2>1. FilesystemsSound' /\ FsGrows /\ UNCHANGED <<mounts, openFiles, nextFd, fdt>>
    BY <1>9, SameFilesystems DEF vars
  <2> QED BY <2>1, OnlyFilesystemsChange
<1> QED BY <1>1, <1>2, <1>3, <1>4, <1>5, <1>6, <1>7, <1>8, <1>9 DEF Next

----------------------------------------------------------------------------
(* The theorems.                                                           *)

\* The inductive invariant holds: filesystems are trees, mounts are sorted, and the
\* tables of descriptors and of open files fit the files that are there.
THEOREM FilesInvariant == Spec => []FilesInv
<1>1. Init => FilesInv
  BY InitFilesInv
<1>2. FilesInv /\ [Next]_vars => FilesInv'
  BY StepKeepsInv
<1> QED BY <1>1, <1>2, PTL DEF Spec

\* No descriptor is in two tables or comes back for another file, whatever
\* processes close or leave open when they die.
THEOREM DescriptorsPrivate == Spec => []FdsArePrivate
<1>1. FilesInv => FdsArePrivate
  BY DEF FilesInv, DescriptorsSound
<1> QED BY <1>1, FilesInvariant, PTL

\* A descriptor reads and writes inside a file that is there: no write leaves
\* a gap, whoever else writes the file.
THEOREM PositionsStayInFiles == Spec => []PositionsInFile
<1>1. FilesInv => PositionsInFile
  BY DEF FilesInv
<1> QED BY <1>1, FilesInvariant, PTL

\* Directories form a tree, whichever calls made them.
THEOREM TreesAreSound == Spec => []TreeIsSound
<1>1. FilesInv => TreeIsSound
  BY DEF FilesInv, FilesystemsSound, FsSound, Rooted, Single, TreeIsSound
<1> QED BY <1>1, FilesInvariant, PTL

\* A path leads to the longest mountpoint that it is under, whatever the order
\* of the mounts.
THEOREM LongestMountsWin == Spec => []LongestMountWins
<1>1. FilesInv => LongestMountWins
  BY SortedWins, FilesAssumption DEF FilesInv, LongestMountWins
<1> QED BY <1>1, FilesInvariant, PTL

\* No step loses an entry of a directory or leads it elsewhere.
THEOREM EntriesAreKept == Spec => EntriesStay
<1> DEFINE Kept == \A f \in FsId : \A e \in EntriesOf(fs[f]) :
                     /\ e \in EntriesOf(fs'[f])
                     /\ ChildOf(fs'[f], e[1], e[2]) = ChildOf(fs[f], e[1], e[2])
<1>1. FilesInv /\ [Next]_vars => [Kept]_vars
  <2> SUFFICES ASSUME FilesInv, [Next]_vars, NEW f \in FsId, NEW e \in EntriesOf(fs[f])
               PROVE  /\ e \in EntriesOf(fs'[f])
                      /\ ChildOf(fs'[f], e[1], e[2]) = ChildOf(fs[f], e[1], e[2])
    OBVIOUS
  <2>1. Extends(fs[f], fs'[f])
    BY StepKeepsInv DEF FsGrows
  <2>2. e = <<e[1], e[2]>> /\ HasEntry(fs[f], e[1], e[2])
    BY EntriesChar
  <2>3. /\ HasEntry(fs'[f], e[1], e[2])
        /\ ChildOf(fs'[f], e[1], e[2]) = ChildOf(fs[f], e[1], e[2])
    BY <2>1, <2>2 DEF Extends
  <2> QED BY <2>2, <2>3, EntriesChar
<1> QED BY <1>1, FilesInvariant, PTL DEF Spec, EntriesStay

\* The steps that move an open file are a read and a write, of their process.
LEMMA WhoMoves ==
  ASSUME FilesInv, [Next]_vars, NEW fd \in DOMAIN openFiles \cap DOMAIN openFiles',
         openFiles'[fd] # openFiles[fd]
  PROVE  \E p \in Process :
           /\ fd \in fdt[p]
           /\ \A gd \in DOMAIN openFiles \cap DOMAIN openFiles' :
                gd # fd => openFiles'[gd] = openFiles[gd]
           /\ Read(p, fd, 1) \/ \E bytes \in Contents : Write(p, fd, bytes)
<1>1. CASE openFiles' = openFiles
  BY <1>1
<1>2. CASE \E p \in Process, path \in Paths, flags \in Flags : Open(p, path, flags)
  <2>1. nextFd \notin DOMAIN openFiles
    BY DEF FilesInv, DescriptorsSound, TablesTyped, FdsArePrivate
  <2>2. openFiles'[fd] = openFiles[fd]
    BY <1>2, <2>1 DEF Open, NewFd
  <2> QED BY <2>2
<1>3. CASE \E p \in Process, gd \in DOMAIN openFiles : Close(p, gd)
  <2>1. openFiles'[fd] = openFiles[fd]
    BY <1>3 DEF Close, Restrict
  <2> QED BY <2>1
<1>4. ASSUME NEW p \in Process, NEW gd \in DOMAIN openFiles, NEW n, gd \in fdt[p],
             Advance(gd, n), Read(p, gd, 1) \/ \E bytes \in Contents : Write(p, gd, bytes)
      PROVE  \E q \in Process :
               /\ fd \in fdt[q]
               /\ \A hd \in DOMAIN openFiles \cap DOMAIN openFiles' :
                    hd # fd => openFiles'[hd] = openFiles[hd]
               /\ Read(q, fd, 1) \/ \E bytes \in Contents : Write(q, fd, bytes)
  <2>1. \A hd \in DOMAIN openFiles : hd # gd => openFiles'[hd] = openFiles[hd]
    BY <1>4 DEF Advance
  <2>2. fd = gd
    BY <2>1
  <2> QED BY <1>4, <2>1, <2>2
<1>5. CASE \E p \in Process, gd \in DOMAIN openFiles : Read(p, gd, 1)
  <2>1. PICK p \in Process, gd \in DOMAIN openFiles : Read(p, gd, 1)
    BY <1>5
  <2>2. gd \in fdt[p] /\ \E n : Advance(gd, n)
    BY <2>1 DEF Read
  <2> QED BY <1>4, <2>1, <2>2
<1>6. CASE \E p \in Process, gd \in DOMAIN openFiles, bytes \in Contents : Write(p, gd, bytes)
  <2>1. PICK p \in Process, gd \in DOMAIN openFiles, bytes \in Contents : Write(p, gd, bytes)
    BY <1>6
  <2>2. gd \in fdt[p] /\ \E n : Advance(gd, n)
    BY <2>1 DEF Write, AdvanceWrite
  <2> QED BY <1>4, <2>1, <2>2
<1> QED BY <1>1, <1>2, <1>3, <1>5, <1>6 DEF Next, vars, Mkdir, WritePath, Reap, Mount

\* A step moves the position of one open file at most, of the process that
\* reads or writes it.
THEOREM OthersNeverMove == Spec => OthersStayPut
<1> DEFINE Moved == {fd \in DOMAIN openFiles \cap DOMAIN openFiles' :
                       openFiles'[fd] # openFiles[fd]}
           Put   == /\ \A fd, gd \in Moved : fd = gd
                    /\ \A fd \in Moved : \E p \in Process : fd \in fdt[p]
<1>1. FilesInv /\ [Next]_vars => Put
  BY WhoMoves
<1> QED BY <1>1, FilesInvariant, PTL DEF Spec, OthersStayPut

\* A write through a descriptor changes what is between its old position and
\* its new one, and nothing else of any file.
THEOREM WritesLandAtPosition == Spec => WritesAtPosition
<1> DEFINE Lands(fd, f, ino) ==
             LET old == fs[f].inodes[ino].data
                 new == fs'[f].inodes[ino].data
             IN  /\ Len(old) <= Len(new)
                 /\ \A i \in DOMAIN new :
                      \/ i \in DOMAIN old /\ old[i] = new[i]
                      \/ /\ ino = openFiles[fd].ino /\ f = FsOf(openFiles[fd].path)
                         /\ i \in openFiles[fd].position + 1 .. openFiles'[fd].position
<1>1. ASSUME FilesInv, [Next]_vars, NEW fd \in DOMAIN openFiles \cap DOMAIN openFiles',
             fs' # fs, openFiles'[fd] # openFiles[fd],
             NEW f \in FsId, NEW ino \in Inos(fs[f])
      PROVE  Lands(fd, f, ino)
  <2> DEFINE of == openFiles[fd]
             g  == FsOf(of.path)
  <2>1. PICK p \in Process, bytes \in Contents : Write(p, fd, bytes)
    <3>1. \A p \in Process : ~Read(p, fd, 1)
      BY <1>1 DEF Read
    <3> QED BY <1>1, <3>1, WhoMoves
  <2> HIDE DEF g
  <2>2. /\ g \in FsId /\ FsShape(fs[g])
        /\ of.position \in Nat /\ of.ino \in Inos(fs[g])
        /\ fs[g].inodes[of.ino].data \in Seq(Byte)
        /\ bytes \in Seq(Byte) /\ IsFile(fs[g], of.ino)
        /\ fs' = [fs EXCEPT ![g] = Written(fs[g], of.ino, of.position, bytes)]
        /\ Rewritten(fs[g], fs'[g], of.ino, of.position, bytes)
        /\ Advance(fd, Len(bytes))
    BY <1>1, <2>1, WriteRewrites DEF g
  <2>3. fs[f].inodes[ino].data \in Seq(Byte) /\ Len(fs[f].inodes[ino].data) \in Nat
    <3>1. FsShape(fs[f])
      BY <1>1 DEF FilesInv, FilesystemsSound, FsSound
    <3> QED BY <1>1, <3>1, LenProperties DEF FsShape, IsInode
  <2>4. CASE fs'[f].inodes[ino].data = fs[f].inodes[ino].data
    BY <2>3, <2>4
  <2>5. CASE f = g /\ ino = of.ino
    <3> DEFINE old == fs[g].inodes[of.ino].data
               new == Overwritten(old, of.position, bytes)
    <3>1. fs'[g].inodes[of.ino].data = new
      BY <2>2 DEF Rewritten
    <3>2. of \in OpenFile /\ of.position <= Len(old)
      BY <1>1 DEF FilesInv, DescriptorsSound, TablesTyped, PositionsInFile, g
    <3>3. openFiles'[fd].position = of.position + Len(bytes)
      BY <1>1, <2>2, <3>2 DEF Advance, OpenFile
    <3>4. /\ new \in Seq(Byte) /\ Len(old) <= Len(new)
          /\ \A i \in 1 .. Len(new) :
               \/ i \in of.position + 1 .. of.position + Len(bytes)
               \/ i \in 1 .. Len(old) /\ new[i] = old[i]
               \/ i \in Len(old) + 1 .. of.position
      BY <2>2, OverwrittenFacts
    <3>5. old \in Seq(Byte) /\ Len(old) \in Nat
      BY <2>2, LenProperties
    <3> HIDE DEF old, new
    <3>6. \A i : i \notin Len(old) + 1 .. of.position
      BY <2>2, <3>2, <3>5
    <3>7. DOMAIN new = 1 .. Len(new) /\ DOMAIN old = 1 .. Len(old)
      BY <3>4, <3>5, LenProperties
    <3>8. \A i \in DOMAIN new :
            \/ i \in DOMAIN old /\ old[i] = new[i]
            \/ i \in of.position + 1 .. openFiles'[fd].position
      BY <3>3, <3>4, <3>6, <3>7
    <3> QED BY <2>5, <3>1, <3>4, <3>8 DEF old, g
  <2>6. CASE ~(f = g /\ ino = of.ino)
    <3>1. fs'[f].inodes[ino].data = fs[f].inodes[ino].data
      <4>1. CASE f # g
        BY <1>1, <2>2, <4>1 DEF FilesInv, FilesystemsSound
      <4>2. CASE f = g
        BY <1>1, <2>2, <2>6, <4>2 DEF Rewritten
      <4> QED BY <4>1, <4>2
    <3> QED BY <2>4, <3>1
  <2> QED BY <2>5, <2>6
<1> HIDE DEF Lands
<1> DEFINE Write1 == \A fd \in DOMAIN openFiles \cap DOMAIN openFiles' :
                       fs' # fs /\ openFiles'[fd] # openFiles[fd]
                         => \A f \in FsId : \A ino \in Inos(fs[f]) : Lands(fd, f, ino)
<1>2. FilesInv /\ [Next]_vars => [Write1]_vars
  BY <1>1
<1> QED BY <1>2, FilesInvariant, PTL DEF Spec, WritesAtPosition, Lands
=============================================================================
