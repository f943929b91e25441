------------------------- MODULE MCFileDescriptors -------------------------
(* Two direct blocks and two pointers to an indirect block stand for 12 and    *)
(* 1024; sectors, blocks and words are scaled down with their ratios kept.     *)
(* The root directory has two blocks; the files cover every way a file's       *)
(* blocks can be reached: none, one, all direct, a full and a partly used      *)
(* indirect block, one and two groups of doubly indirect blocks.               *)
EXTENDS FileDescriptors, TLC

Entry(name, inode)  == [name |-> name, inode |-> inode]
Dir(blocks)         == [mode |-> "dir", blocks |-> blocks, nblocks |-> 1, slack |-> 0]
File(blocks, n, s)  == [mode |-> "file", blocks |-> blocks, nblocks |-> n, slack |-> s]
Other               == [mode |-> "other", blocks |-> <<0, 0, 0, 0>>, nblocks |-> 0, slack |-> 0]

(* Blocks 10 .. 13 are directories, 20 .. 26 indirect, 30 .. 55 data. *)
BlockNumbers == 10 .. 13 \cup 20 .. 26 \cup 30 .. 55
Rest(f) == [b \in BlockNumbers |-> IF b \in DOMAIN f THEN f[b] ELSE <<>>]

Pointers == Rest([b \in {20, 21, 22, 23, 24, 25, 26} |->
    CASE b = 20 -> <<33, 34>>  [] b = 21 -> <<37, 0>>   [] b = 22 -> <<40, 41>>
      [] b = 23 -> <<24, 0>>   [] b = 24 -> <<42, 43>>  [] b = 25 -> <<24, 26>>
      [] b = 26 -> <<44, 45>>])

(* 0 and 99 are no inodes of the disk: 99 is what an ELF header reads as. *)
Inodes(root, wild) == [n \in {0, 2, 99} \cup 11 .. 19 |->
    CASE n = 0  -> wild
      [] n = 99 -> File(<<30, 0, 0, 0>>, 1, 0)
      [] n = 2  -> Dir(root)
      [] n = 11 -> File(<<30, 0, 0, 0>>, 1, 3)
      [] n = 12 -> Dir(<<12, 13, 0, 0>>)
      [] n = 13 -> File(<<31, 32, 20, 0>>, 4, 1)
      [] n = 14 -> File(<<0, 0, 0, 0>>, 0, 0)
      [] n = 15 -> File(<<35, 36, 21, 0>>, 3, 0)
      [] n = 16 -> File(<<38, 39, 22, 23>>, 6, 5)
      [] n = 17 -> File(<<38, 39, 22, 25>>, 8, 0)
      [] n = 18 -> Dir(<<12, 0, 0, 0>>)
      [] n = 19 -> File(<<46, 0, 0, 0>>, 1, 0)]

Nested == [b \in {12, 13} |-> IF b = 12 THEN <<Entry(".", 12), Entry("c", 14), Entry("e", 11), Entry("l", 19)>>
                              ELSE <<Entry("f", 14)>>]

Image(root10, root11, wild) ==
    [inode    |-> Inodes(<<10, 11, 0, 0>>, wild),
     real     |-> {2} \cup 11 .. 19,
     entries  |-> Rest([b \in 10 .. 13 \cup {30, 46} |->
                    CASE b = 10 -> root10 [] b = 11 -> root11 [] b \in {12, 13} -> Nested[b]
                      [] b = 30 -> <<Entry("p", 14)>>  \* data with a name in it
                      [] b = 46 -> <<Entry("", 99)>>]),  \* an ELF header
     pointers |-> Pointers]

MCImages ==
    { Image(<<Entry("a", 11), Entry("d", 12)>>, <<Entry("b", 13), Entry("x", 16)>>, Other),
      \* an entry of the second block was deleted; inode 0 looks like an empty file
      Image(<<Entry("a", 17), Entry("d", 18), Entry("x", 15)>>, <<Entry("g", 0), Entry("b", 13)>>,
            File(<<0, 0, 0, 0>>, 0, 0)),
      [Image(<<Entry("a", 11)>>, <<>>, Other) EXCEPT !.inode = [@ EXCEPT ![2] = Other]] }

(* Found, missing, found in memory behind a block, an empty file, an ELF file, *)
(* and led astray by the disk in every way Passable names.                     *)
MCPaths == { <<>>, <<"a">>, <<"b">>, <<"x">>, <<"w">>, <<"y">>,
             <<"d", "c">>, <<"d", "l">>, <<"w", "c">>, <<"a", "p">>, <<"d", "c", "z">> }

(* Nothing, or what an earlier use of the section left there. *)
MCRests == { <<>>, <<Entry("y", 11)>> }

(* The numbers of a disk with two groups. *)
Layout(log2) ==
    [magic |-> TRUE, log2block_size |-> log2, inode_size |-> 2, inodes_per_group |-> 8,
     inode_table |-> <<5, 21>>, total_blocks |-> 32, blocks_per_group |-> 16, total_inodes |-> 16]

(* Only the largest block size can be mounted, with the right numbers. *)
MCLayouts == { Layout(log2) : log2 \in 0 .. 2 }
             \cup { [Layout(2) EXCEPT !.magic = FALSE], [Layout(2) EXCEPT !.total_inodes = 24] }

(* More than any file has; the sum of two of them wraps to less than that. *)
MCCounts == {0, 2060}

Symmetry == Permutations(Procs)
==============================================================================
