-------------------------- MODULE MCRegistryStore --------------------------
(* Instances of RegistryStore for TLC. *)
EXTENDS RegistryStore, TLC

\* Registries, repositories and names are interchangeable.
StoreSymmetry == Permutations(RegId) \union Permutations(RepoName)
=============================================================================
