------------------------ MODULE MCEmbeddingMigration ------------------------
(* Instances of EmbeddingMigration for TLC. *)
EXTENDS EmbeddingMigration
=============================================================================
