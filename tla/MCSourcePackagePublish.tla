------------------------ MODULE MCSourcePackagePublish -----------------------
(***************************************************************************)
(* A folder with room for a source, a companion in a subfolder, one beside *)
(* the source, and a file of the user's.  Packages with either companion,  *)
(* and one whose source is what the other has as a companion.              *)
(***************************************************************************)
EXTENDS SourcePackagePublish, TLC

CONSTANTS p1, p2, s1, s2, a, b, top, sub

FolderOfPath == (1 :> top) @@ (2 :> sub) @@ (3 :> top) @@ (4 :> sub)
SmallPackages ==
  { [source |-> 1, files |-> (1 :> s1) @@ (2 :> a)],
    [source |-> 1, files |-> (1 :> s2) @@ (3 :> b)],
    [source |-> 3, files |-> (3 :> b)] }
Symmetry == Permutations(Publishers)
=============================================================================
