----------------------------- MODULE MCConfigFiles -----------------------------
(* Profiles and invocations of ConfigFiles differ in name only. *)
EXTENDS ConfigFiles, TLC

Symmetric == Permutations(Invocations) \cup Permutations(Profiles)
===============================================================================
