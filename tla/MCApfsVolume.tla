---------------------------- MODULE MCApfsVolume ----------------------------
(***************************************************************************)
(* A directory with a file in it that has two extents and a second name in  *)
(* the root: with two records in a node, a catalog and an object map of     *)
(* three levels.                                                            *)
(***************************************************************************)
EXTENDS ApfsVolume

MCFirstContent ==
    [inodes |-> RootDir :> Inode("directory", <<>>)
                @@ 16 :> Inode("directory", <<>>)
                @@ 17 :> Inode("file", Pieces(2, 1)),
     drecs |-> <<RootDir, 1>> :> 16 @@ <<16, 1>> :> 17 @@ <<RootDir, 2>> :> 17]
=============================================================================
