-------------------------- MODULE MCFilesystemCreate --------------------------
(* Instances of FilesystemCreate for TLC. *)
EXTENDS FilesystemCreate, TLC

\* One file in a subfolder of the ESPHome folder
MCOneFile == {<<"a", "f">>}

\* Fresh inodes and calls are interchangeable
MCSymmetry == Permutations(Inodes \ {Top, Outside}) \cup Permutations(Calls)
=============================================================================
