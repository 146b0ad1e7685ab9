---------------------------- MODULE MCReviewQueue ----------------------------
(***************************************************************************)
(* An instance of ReviewQueue for TLC, with the fixtures of MCArchiveSearch.*)
(***************************************************************************)

EXTENDS ReviewQueue, TLC

CONSTANTS named, license, secrets, greet, header, sum, noSecrets, playbook, nothing, blank

Families == greet :> named @@ header :> license @@ sum :> named @@ noSecrets :> secrets
=============================================================================
