---------------------------- MODULE MCFileHelper ----------------------------
(* FileHelper on every tree with two top-level entries, the first of which *)
(* may be a folder of files and empty folders, one of them hidden, and the *)
(* second a folder with a file or an empty folder.                         *)
EXTENDS FileHelper

CONSTANTS a, b, h

Kinds == {"none", "file", "dir"}

Places == {<<a>>, <<b>>, <<a, a>>, <<a, b>>, <<a, h>>, <<b, a>>}

SmallTrees ==
  {t \in {[p \in {p \in Places : k[p] # "none"} \cup {<<>>} |->
             IF p # <<>> /\ k[p] = "file" THEN File(<<"old">>) ELSE Dir] :
             k \in [Places -> Kinds]} : IsTree(t)}

SmallPaths == {<<a>>, <<b>>, <<a, a>>, <<a, h>>, <<a, b, a>>, <<b, a>>, <<b, b>>}
=============================================================================
