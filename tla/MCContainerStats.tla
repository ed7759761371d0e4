-------------------------- MODULE MCContainerStats --------------------------
(* Two containers, two label values one of which is unset, two rounds:     *)
(* enough for two containers to share a bucket, for a container to be     *)
(* observed live with flow stats and then as a tombstone, and for a label *)
(* key to lose all its live containers.                                    *)
EXTENDS ContainerStats, TLC

CONSTANTS s1, s2

MCContainers == {s1, s2}
MCZones == {"z1", ""}
MCMaxRounds == 2

(* Containers are interchangeable: none is named by the model. *)
MCSymmetry == Permutations(MCContainers)
=============================================================================
