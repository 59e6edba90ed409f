-------------------------- MODULE MCPackageCompile --------------------------
(* Small instances of PackageCompile for TLC. *)
EXTENDS PackageCompile, TLC

CONSTANTS p1, p2, p3, h1, h2, j1, j2

MCPackages == {p1, p2, p3}
MCHandlers == {h1, h2}
MCJobs     == {j1, j2}

Symmetry ==
  Permutations(MCPackages) \union Permutations(MCHandlers) \union Permutations(MCJobs)
=============================================================================
