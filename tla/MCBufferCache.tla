---------------------------- MODULE MCBufferCache ----------------------------
(* Three processes, four sectors, three buffers: one maps a new block into  *)
(* an indirect block, for which it reads the superblock and the bitmap, two *)
(* update the same inode block.  Together they use three buffers at most.   *)
EXTENDS BufferCache
CONSTANTS p1, p2, p3, ind, map, ino, sup
MCPrograms == (p1 :> {bmap(ind, sup, map)}) @@ (p2 :> {iupdate(ino)})
                @@ (p3 :> {iupdate(ino)})
=============================================================================
