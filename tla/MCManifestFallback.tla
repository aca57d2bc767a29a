------------------------ MODULE MCManifestFallback ------------------------
(* The manifest coredns:v1 and the one of coredns/coredns:v1, which is     *)
(* also the fallback of the first.                                         *)
EXTENDS ManifestFallback, TLC

Short == <<"v2", "coredns", "manifests", "v1">>
Long == <<"v2", "coredns", "coredns", "manifests", "v1">>
MCBoth == {Short, Long}
Symmetry == Permutations(Reqs)
=============================================================================
