------------------------- MODULE MCCrossValidation -------------------------
(***************************************************************************)
(* CrossValidation for TLC: three CVEs in batches of one, so that the      *)
(* rotation matters; an authoritative structured source and a feed that    *)
(* mentions CVEs without an item for them; EPSS knows two of the CVEs.     *)
(***************************************************************************)
EXTENDS CrossValidation

MCStructured == {"nvd"}
MCSources == {"nvd", "feed"}
MCAuthoritative == {"nvd"}
=============================================================================
