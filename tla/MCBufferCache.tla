--------------------------- MODULE MCBufferCache ---------------------------
(* Small instance of BufferCache: three threads on three blocks and two       *)
(* buffers, so that buffers are shared, recycled and run out, with one write  *)
(* and one failure of the drive.                                              *)
EXTENDS BufferCache

CONSTANTS t1, t2, t3
=============================================================================
