------------------------- MODULE MCGenerationStore -------------------------
(* Small instances of the generation store for TLC. *)
EXTENDS GenerationStoreRefinement
=============================================================================
