---------------------------- MODULE MCOwnership ----------------------------
(* main and its client, with more blocks than either holds at a time.      *)
EXTENDS OwnershipClient, Naturals

MCBlocks == 1 .. 24

=============================================================================
