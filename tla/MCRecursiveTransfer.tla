------------------------ MODULE MCRecursiveTransfer -------------------------
(* Instances of RecursiveTransfer for TLC *)
EXTENDS RecursiveTransfer

\* A root with a file, a directory of one file and one more file.
TreeDepth == <<0, 1, 1, 2, 1>>
TreeDirs == {1, 3}
=============================================================================
