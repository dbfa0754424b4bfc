----------------------------- MODULE MCInstaller -----------------------------
(* Installer with two callers and two versions: a call can meet what a     *)
(* call that died left, and another call that places the other version.    *)
EXTENDS Installer, TLC

InstallerSymmetry == Permutations(Callers) \union Permutations(Versions)
=============================================================================
