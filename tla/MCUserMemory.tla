---------------------------- MODULE MCUserMemory ----------------------------
(* Three processes and frames for all but the last; words of 4 bits with ints  *)
(* of 2 bits and tables of 4 entries, so that runs cross ints, words and       *)
(* tables.  Programs: one with a text and a data segment (the latter longer    *)
(* than a page), and a file that is not an ELF file.                           *)
EXTENDS UserMemory

Seg(va, size) == [va |-> va, size |-> size, load |-> TRUE]
Program == [elf |-> TRUE, entry |-> 4,
            segments |-> <<[va |-> 0, size |-> 1, load |-> FALSE], Seg(4, 1), Seg(6, 2), Seg(7, 0)>>]
(* A segment in a page the kernel has mapped, and an entry in no page at all, *)
(* which is_frame_mapped_thread takes for mapped.                             *)
Low     == [elf |-> TRUE, entry |-> 13, segments |-> <<Seg(1, 1), Seg(6, 1)>>]
Text    == [elf |-> FALSE, entry |-> 0, segments |-> <<>>]
MCImages == {Program, Low, Text}

(* The theorems about the tables and the bitmap assume this of the layout. *)
ASSUME LayoutAssumption == LayoutFits
=============================================================================
