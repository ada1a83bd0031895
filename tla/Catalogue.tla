------------------------------ MODULE Catalogue ------------------------------
(***************************************************************************)
(* The table certification: data the server only reads.                    *)
(***************************************************************************)
EXTENDS Naturals

CONSTANT Cert  \* jm_cd of the certificates, as numbers in the order of jm_cd

ASSUME CatalogueAssumption == Cert \subseteq Nat

=============================================================================
