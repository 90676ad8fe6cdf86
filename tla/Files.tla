------------------------------- MODULE Files -------------------------------
(***************************************************************************)
(* The virtual filesystem switch (vfs.py) over several filesystems, and    *)
(* the file system calls of syscall.py: openat, read, write and close of   *)
(* several processes, with the path operations the kernel and the shell    *)
(* use: mkdir, create_file and write_path.                                 *)
(*                                                                         *)
(* A path is the sequence of its names.  The boot mounts the root; more    *)
(* filesystems are mounted while no file is open.                          *)
(***************************************************************************)
EXTENDS FsOps, FiniteSets, SequencesExt

CONSTANTS
  Process,      \* the callers
  FsId,         \* the filesystem objects, each mounted once at most
  Volumes,      \* those of them that are ext2; the others are tmpfs
  Paths,        \* the paths asked for
  Contents,     \* what is written
  RootFs,       \* the one mounted at the root by the boot
  MaxFd, MaxIno, MaxLen     \* bounds on descriptors, inodes and file lengths

ASSUME FilesAssumption ==
  RootFs \in FsId /\ Paths \subseteq Seq(STRING) /\ Contents \subseteq Seq(0 .. 255)

VARIABLES
  fs,           \* the filesystems
  mounts,       \* VFS._mounts
  openFiles,    \* VFS._open_files
  nextFd,       \* VFS._next_fd
  fdt           \* the keys of Process.fdt

vars == <<fs, mounts, openFiles, nextFd, fdt>>

Flags == {"r", "w", "a"}
NoIno == -2             \* ENOENT

Init ==
  /\ fs = [f \in FsId |-> IF f \in Volumes THEN Ext2Fs ELSE TmpFs]
  /\ mounts = <<[path |-> <<>>, fs |-> RootFs]>>
  /\ openFiles = [fd \in {} |-> NoIno]
  /\ nextFd = 3
  /\ fdt = [p \in Process |-> {}]

----------------------------------------------------------------------------
(* Paths.                                                                  *)

\* The first mount of the list that a path is under.
BestMount(path) ==
  CHOOSE i \in DOMAIN mounts :
    /\ IsPrefix(mounts[i].path, path)
    /\ \A j \in 1 .. i - 1 : ~IsPrefix(mounts[j].path, path)

FsOf(path) == mounts[BestMount(path)].fs

\* Walking names from the root of a filesystem; NoIno once one is missing.
Walk(f, names) ==
  LET at[i \in 0 .. Len(names)] ==
        IF i = 0 THEN fs[f].root
        ELSE IF HasChild(fs[f], at[i - 1], names[i])
             THEN ChildOf(fs[f], at[i - 1], names[i]) ELSE NoIno
  IN  at[Len(names)]

\* _resolve_path.
InoOf(path) ==
  LET m == mounts[BestMount(path)]
  IN  Walk(m.fs, SubSeq(path, Len(m.path) + 1, Len(path)))

ParentOf(path) == IF path = <<>> THEN <<>> ELSE Front(path)
NameOf(path)   == IF path = <<>> THEN "" ELSE Last(path)

\* Mutant: the latest mount goes before the others.
MountedFirst(m) == <<m>> \o mounts

\* mount, sorted by the length of the path, the longest first; a mount goes
\* behind those of the same length.
MountedSorted(m) ==
  LET before == {i \in DOMAIN mounts : Len(mounts[i].path) >= Len(m.path)}
  IN  InsertAt(mounts, Cardinality(before) + 1, m)

Mount(path, f) ==
  /\ DOMAIN openFiles = {}
  /\ \A i \in DOMAIN mounts : mounts[i].fs # f
  /\ mounts' = MountedSorted([path |-> path, fs |-> f])
  /\ UNCHANGED <<fs, openFiles, nextFd, fdt>>

----------------------------------------------------------------------------
(* Operations on paths.                                                    *)

Made(f, parent, name, itype) ==
  IF f \in Volumes THEN Ext2Created(fs[f], parent, name, itype)
  ELSE Created(fs[f], parent, name, itype)

\* create_file and mkdir: a new inode under the parent, and its content.
CreateAt(path, itype, bytes) ==
  LET f      == FsOf(ParentOf(path))
      parent == InoOf(ParentOf(path))
      made   == Made(f, parent, NameOf(path), itype)
  IN  /\ CanCreate(fs[f], parent, NameOf(path)) /\ fs[f].nextIno <= MaxIno
      /\ fs' = [fs EXCEPT ![f] = Written(made, fs[f].nextIno, 0, bytes)]

Mkdir(path) ==
  /\ CreateAt(path, "DIR", <<>>)
  /\ UNCHANGED <<mounts, openFiles, nextFd, fdt>>

\* write_path: over the start of the file, or into a new one.
WritePath(path, bytes) ==
  /\ IF InoOf(path) = NoIno
     THEN CreateAt(path, "REG", bytes)
     ELSE fs' = [fs EXCEPT ![FsOf(path)] = Written(@, InoOf(path), 0, bytes)]
  /\ UNCHANGED <<mounts, openFiles, nextFd, fdt>>

----------------------------------------------------------------------------
(* The system calls.                                                       *)

\* Mutant: every process counts its own descriptors.
FdOfTable(p) == 3 + Cardinality(fdt[p])

NewFd(p) == nextFd

Opened(path, flags, ino, data) ==
  [path |-> path, ino |-> ino, flags |-> flags,
   position |-> IF flags = "a" THEN Len(data) ELSE 0]

\* A path that does not exist is refused whatever the flags.
CanOpen(path, flags) == InoOf(path) # NoIno

\* openat.  Opening a directory for writing makes a file in it that has the
\* name of the directory, or opens the inode that has that name there.
Open(p, path, flags) ==
  LET f     == FsOf(path)
      ino   == InoOf(path)
      inDir == flags # "r" /\ IsDir(fs[f], ino)
      makes == inDir /\ CanCreate(fs[f], ino, NameOf(path))
      file  == IF makes THEN fs[f].nextIno
               ELSE IF inDir THEN ChildOf(fs[f], ino, NameOf(path)) ELSE ino
      data  == IF makes THEN <<>> ELSE fs[f].inodes[file].data
  IN  /\ CanOpen(path, flags)
      /\ nextFd <= MaxFd /\ (makes => fs[f].nextIno <= MaxIno)
      /\ fs' = IF makes THEN [fs EXCEPT ![f] = Made(f, ino, NameOf(path), "REG")] ELSE fs
      /\ openFiles' = [fd \in DOMAIN openFiles \cup {NewFd(p)} |->
                         IF fd = NewFd(p) THEN Opened(path, flags, file, data) ELSE openFiles[fd]]
      /\ nextFd' = nextFd + 1
      /\ fdt' = [fdt EXCEPT ![p] = @ \cup {NewFd(p)}]
      /\ UNCHANGED mounts

\* Mutant: whoever has the inode open moves.
AdvanceAll(fd, n) ==
  openFiles' = [g \in DOMAIN openFiles |->
                  IF openFiles[g].ino = openFiles[fd].ino
                  THEN [openFiles[g] EXCEPT !.position = @ + n] ELSE openFiles[g]]

Advance(fd, n) == openFiles' = [openFiles EXCEPT ![fd].position = @ + n]

\* read and write find the filesystem by the path the file was opened with,
\* as it is mounted now, and the inode by its number; the flags do not matter.
Read(p, fd, size) ==
  LET of == openFiles[fd]
  IN  /\ fd \in fdt[p]
      /\ Advance(fd, Len(BytesAt(fs[FsOf(of.path)], of.ino, of.position, size)))
      /\ UNCHANGED <<fs, mounts, nextFd, fdt>>

\* Mutant: the position moves by one more.
AdvanceTooFar(fd, n) == Advance(fd, n + 1)

AdvanceWrite(fd, n) == Advance(fd, n)

\* Mutant: whatever the position is, a write appends.
EndOfFile(of, data) == Len(data)

WriteOffset(of, data) == of.position

Write(p, fd, bytes) ==
  LET of == openFiles[fd]
      f  == FsOf(of.path)
  IN  /\ fd \in fdt[p]
      /\ IsFile(fs[f], of.ino)
      /\ of.position + Len(bytes) <= MaxLen
      /\ fs' = [fs EXCEPT ![f] =
                  Written(@, of.ino, WriteOffset(of, @.inodes[of.ino].data), bytes)]
      /\ AdvanceWrite(fd, Len(bytes))
      /\ UNCHANGED <<mounts, nextFd, fdt>>

Close(p, fd) ==
  /\ fd \in fdt[p]
  /\ fdt' = [fdt EXCEPT ![p] = @ \ {fd}]
  /\ openFiles' = Restrict(openFiles, DOMAIN openFiles \ {fd})
  /\ UNCHANGED <<fs, mounts, nextFd>>

\* A process is reaped, and its pid may be used again: its table of
\* descriptors is gone, the files it had open stay open.
Reap(p) ==
  /\ fdt' = [fdt EXCEPT ![p] = {}]
  /\ UNCHANGED <<fs, mounts, openFiles, nextFd>>

Next ==
  \/ \E path \in Paths : Mkdir(path) \/ \E bytes \in Contents : WritePath(path, bytes)
  \/ \E p \in Process :
       \/ \E path \in Paths, flags \in Flags : Open(p, path, flags)
       \/ \E fd \in DOMAIN openFiles :
            \/ Read(p, fd, 1)      \* a longer read moves as several of these do
            \/ \E bytes \in Contents : Write(p, fd, bytes)
            \/ Close(p, fd)
       \/ Reap(p)
  \/ \E path \in Paths \cup {<<>>}, f \in FsId : Mount(path, f)

Spec == Init /\ [][Next]_vars

----------------------------------------------------------------------------
\* Descriptors are open files, and no descriptor is in two tables or comes
\* back for another file: not after a close, nor after a process died with
\* files open.
FdsArePrivate ==
  /\ \A p \in Process : fdt[p] \subseteq DOMAIN openFiles
  /\ \A p, q \in Process : p # q => fdt[p] \cap fdt[q] = {}
  /\ \A fd \in DOMAIN openFiles : fd < nextFd

\* An open file has an inode where its path leads, and its position is in the
\* file: reads and writes of several processes leave no gap.
PositionsInFile ==
  \A fd \in DOMAIN openFiles :
    LET of == openFiles[fd]
        f  == FsOf(of.path)
    IN  /\ of.ino \in Inos(fs[f])
        /\ of.position <= Len(fs[f].inodes[of.ino].data)

\* A step moves one open file at most, and one that a process still has: a
\* file that a dead process left open never moves again.
OthersStayPut ==
  [][LET Moved == {fd \in DOMAIN openFiles \cap DOMAIN openFiles' :
                     openFiles'[fd] # openFiles[fd]}
     IN  /\ \A fd, gd \in Moved : fd = gd
         /\ \A fd \in Moved : \E p \in Process : fd \in fdt[p]]_vars

\* A write through a descriptor changes the bytes between its old position and
\* its new one, and nothing else of any file.
WritesAtPosition ==
  [][\A fd \in DOMAIN openFiles \cap DOMAIN openFiles' :
       fs' # fs /\ openFiles'[fd] # openFiles[fd]
         => \A f \in FsId : \A ino \in Inos(fs[f]) :
              LET old == fs[f].inodes[ino].data
                  new == fs'[f].inodes[ino].data
              IN  /\ Len(old) <= Len(new)
                  /\ \A i \in DOMAIN new :
                       \/ i \in DOMAIN old /\ old[i] = new[i]
                       \/ /\ ino = openFiles[fd].ino /\ f = FsOf(openFiles[fd].path)
                          /\ i \in openFiles[fd].position + 1 .. openFiles'[fd].position]_vars

\* The directories of a filesystem form a tree with all its inodes in it,
\* whether they were made by mkdir, write_path or an open for writing, and no
\* number in the table will be handed out again.  An ext2 volume is allowed
\* the time until more than its root is in it: what is made first replaces the
\* root, and nothing can be made in it any more if that is a file.
TreeIsSound ==
  \A f \in FsId :
    \/ IsTree(fs[f]) /\ NumbersAreUsed(fs[f])
    \/ f \in Volumes /\ Inos(fs[f]) = {fs[f].root}

\* The entries of directories are never lost or redirected.
EntriesStay ==
  [][\A f \in FsId : \A e \in EntriesOf(fs[f]) :
       /\ e \in EntriesOf(fs'[f])
       /\ ChildOf(fs'[f], e[1], e[2]) = ChildOf(fs[f], e[1], e[2])]_vars

\* Whatever was mounted, and in whatever order, a path leads into a filesystem
\* whose mountpoint is the longest that the path is under: a mount over a
\* directory does not hide what was mounted below it before.
LongestMountWins ==
  \A path \in Paths : \A i \in DOMAIN mounts :
    IsPrefix(mounts[i].path, path)
      => Len(mounts[i].path) <= Len(mounts[BestMount(path)].path)
=============================================================================
