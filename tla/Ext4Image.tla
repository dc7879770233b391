------------------------------- MODULE Ext4Image -------------------------------
(***************************************************************************)
(* The root file system of the device as core/ext4_image.c changes it:     *)
(* directories that map names to inodes, inodes with a link count and      *)
(* blocks, and the two allocation bitmaps, which are kept apart from the   *)
(* inodes and can disagree with them.                                      *)
(*                                                                         *)
(* libext2fs is external: its allocators hand out the first free inode and *)
(* the first free blocks; a new entry goes wherever the directory has room *)
(* and a look-up returns the first entry of the name.                      *)
(***************************************************************************)
EXTENDS Naturals, Sequences, FiniteSets

CONSTANTS Dirs,       \* directories that exist
          Names,      \* file names
          Inodes,     \* inode numbers
          Blocks,     \* block numbers
          DirRoom     \* entries a block adds to a directory

ASSUME Ext4Assumption ==
    /\ IsFiniteSet(Dirs) /\ IsFiniteSet(Names)
    /\ IsFiniteSet(Inodes) /\ IsFiniteSet(Blocks)
    /\ Inodes \subseteq Nat /\ Blocks \subseteq Nat
    /\ DirRoom \in Nat \ {0}

\* The content of a file whose blocks were lost on the way to the disk.
Garbage == [kind |-> "garbage"]

\* entry: the inodes a directory lists under a name, in the order in which
\* they are found (a healthy directory lists one).
\* room: entries a directory takes before it needs another block.
\* dirBlocks: the blocks of the directories themselves.
\* An inode with links = 0 is a free slot.  imap, bmap: what is marked used.
IsFs(fs) ==
    /\ DOMAIN fs = {"entry", "room", "dirBlocks", "links", "blocks", "data", "imap", "bmap"}
    /\ fs.entry \in [Dirs -> [Names -> Seq(Inodes)]]
    /\ fs.room \in [Dirs -> Nat]
    /\ fs.dirBlocks \in [Dirs -> SUBSET Blocks]
    /\ fs.links \in [Inodes -> Nat]
    /\ fs.blocks \in [Inodes -> SUBSET Blocks]
    /\ DOMAIN fs.data = Inodes
    /\ fs.imap \subseteq Inodes /\ fs.bmap \subseteq Blocks

InUse(fs) == {i \in Inodes : fs.links[i] > 0}

Exists(fs, d, n) == fs.entry[d][n] # <<>>

\* ext2fs_namei
Lookup(fs, d, n) == Head(fs.entry[d][n])

\* nam_ext4_dump: what a reader of the path gets.
Dump(fs, d, n) == fs.data[Lookup(fs, d, n)]

WithoutEntry(fs, d, n) ==
    [fs EXCEPT !.entry[d][n] = Tail(@), !.room[d] = @ + 1]

\* Variant: a file gives its blocks back whatever its link count.
FreedWhenUnlinked(fs, d, n) ==
    LET i == Lookup(fs, d, n)
    IN  [WithoutEntry(fs, d, n) EXCEPT
            !.links[i] = @ - 1, !.bmap = @ \ fs.blocks[i],
            !.imap = IF fs.links[i] > 1 THEN @ ELSE @ \ {i}]

\* Variant: the blocks of a removed file stay marked.
BlocksKept(fs, d, n) ==
    LET i == Lookup(fs, d, n)
    IN  [WithoutEntry(fs, d, n) EXCEPT
            !.links[i] = @ - 1,
            !.imap = IF fs.links[i] > 1 THEN @ ELSE @ \ {i}]

\* remove_if_exists for a file that is found: the entry goes; blocks and
\* inode go with the last link.
Removed(fs, d, n) ==
    LET i == Lookup(fs, d, n)
    IN  IF fs.links[i] > 1
        THEN [WithoutEntry(fs, d, n) EXCEPT !.links[i] = @ - 1]
        ELSE [WithoutEntry(fs, d, n) EXCEPT
                 !.links[i] = 0, !.bmap = @ \ fs.blocks[i], !.imap = @ \ {i}]

FirstOf(S, free) == S \subseteq free /\ \A x \in S, y \in free \ S : x < y

\* What nam_ext4_inject allocates for a file of `size` blocks: an inode i, the
\* blocks B, and, if the directory is full, a block in X for it.
Allocates(fs, d, size, i, B, X) ==
    /\ i \in Inodes \ fs.imap
    /\ FirstOf({i}, Inodes \ fs.imap)
    /\ Cardinality(X) = (IF fs.room[d] = 0 THEN 1 ELSE 0)
    /\ FirstOf(X, Blocks \ fs.bmap)
    /\ Cardinality(B) = size
    /\ FirstOf(B, (Blocks \ fs.bmap) \ X)

WithEntry(fs, d, n, i, X, ahead) ==
    [fs EXCEPT !.entry[d][n] = IF ahead THEN <<i>> \o @ ELSE Append(@, i),
               !.room[d] = (IF X = {} THEN @ ELSE @ + DirRoom) - 1,
               !.dirBlocks[d] = @ \cup X]

\* What the files read as after the blocks B are written for inode i.
Written(fs, i, B, content) ==
    [j \in Inodes |-> IF j = i THEN content
                      ELSE IF fs.links[j] > 0 /\ fs.blocks[j] \cap B # {} THEN Garbage
                      ELSE fs.data[j]]

\* The file linked, before or behind a namesake, and written.
Created(fs, d, n, content, i, B, X, ahead) ==
    [WithEntry(fs, d, n, i, X, ahead) EXCEPT
        !.links[i] = 1, !.blocks[i] = B, !.data = Written(fs, i, B \cup X, content),
        !.imap = @ \cup {i}, !.bmap = @ \cup B \cup X]

\* nam_ext4_verify_basic: every block of a file or directory in use is marked.
VerifiesBasic(fs) ==
    /\ \A i \in InUse(fs) : fs.blocks[i] \subseteq fs.bmap
    /\ \A d \in Dirs : fs.dirBlocks[d] \subseteq fs.bmap

-----------------------------------------------------------------------------
(* What a file system has to be                                             *)

Claimed(fs) == (UNION {fs.blocks[i] : i \in InUse(fs)})
               \cup (UNION {fs.dirBlocks[d] : d \in Dirs})

\* Marked blocks nobody owns.
Leaked(fs) == fs.bmap \ Claimed(fs)

\* A healthy directory lists a name once.
NamesOnce(fs) == \A d \in Dirs, n \in Names : Len(fs.entry[d][n]) <= 1

Lists(seq, i) == \E k \in DOMAIN seq : seq[k] = i

Linked(fs, i) == {e \in Dirs \X Names : Lists(fs.entry[e[1]][e[2]], i)}

\* No block has two owners, every owned block is marked, the inode bitmap
\* knows the inodes in use, no entry is there twice, and an inode has at least
\* the links the directories show (other directories may hold further ones).
FsSound(fs) ==
    /\ \A i, j \in InUse(fs) : i # j => fs.blocks[i] \cap fs.blocks[j] = {}
    /\ \A i \in InUse(fs), d \in Dirs : fs.blocks[i] \cap fs.dirBlocks[d] = {}
    /\ \A c, d \in Dirs : c # d => fs.dirBlocks[c] \cap fs.dirBlocks[d] = {}
    /\ Claimed(fs) \subseteq fs.bmap
    /\ InUse(fs) = fs.imap
    /\ \A d \in Dirs, n \in Names : \A k, l \in DOMAIN fs.entry[d][n] :
          k # l => fs.entry[d][n][k] # fs.entry[d][n][l]
    /\ \A i \in Inodes : Cardinality(Linked(fs, i)) <= fs.links[i]
===============================================================================
