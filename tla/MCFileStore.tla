---------------------------- MODULE MCFileStore ----------------------------
(* One key, three goroutines and two bodies: v1 came from the requested    *)
(* path, v2 from a fallback path.                                          *)
EXTENDS FileStore, TLC

CONSTANTS v1, v2, fallback

MCVers == {v1, v2}
MCPaths == {fallback}
MCEffOf == [v \in MCVers |-> IF v = v1 THEN Nil ELSE fallback]
Symmetry == Permutations(Procs)
=============================================================================
