-------------------------- MODULE MCPhysicalMemory --------------------------
(* Two CPUs and up to four free frames of two 4KB frames each; counts modulo  *)
(* 4 with every initial value.  The memory maps have one or two regions at     *)
(* every alignment to the frame size of 2 units; Wide has a second region that  *)
(* overlaps the first, passes the 7 frames of the bitmap, or lies behind it.   *)
EXTENDS PhysicalMemory

CONSTANTS c1, c2

Region(a, b, t) == [addr |-> a, len |-> b - a, type |-> t]
Fb       == [type |-> "FRAMEBUFFER", entries |-> <<>>]
Other    == [type |-> "OTHER", entries |-> <<>>]
Mmap(es) == [type |-> "MMAP", entries |-> es]

One  == {<<Fb, Other, Mmap(<<Region(a, b, "AVAILABLE")>>)>> : a \in {0, 1, 2, 3}, b \in {6, 13, 14}}
Two  == {<<Mmap(<<Region(0, b, s), Region(b, 14, t)>>), Fb, Mmap(<<>>)>> :
            b \in {6, 7, 8}, s \in {"AVAILABLE", "RESERVED"}, t \in {"AVAILABLE", "RESERVED"}}
Wide == {<<Fb, Mmap(<<Region(0, 10, "AVAILABLE"), Region(r[1], r[2], "AVAILABLE")>>)>> :
            r \in {<<3, 14>>, <<10, 17>>, <<10, 20>>, <<16, 24>>}}
Bad  == {<<Fb>>, <<Mmap(<<>>)>>}
MCBootInfos == One \cup Two \cup Wide \cup Bad
=============================================================================
