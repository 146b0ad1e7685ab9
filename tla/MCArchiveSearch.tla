--------------------------- MODULE MCArchiveSearch ---------------------------
(***************************************************************************)
(* An instance of ArchiveSearch for TLC: a family that unlocks a fixture of *)
(* each split, one that unlocks a practice fixture and one that unlocks a   *)
(* held-out one.                                                            *)
(***************************************************************************)

EXTENDS ArchiveSearch, TLC

CONSTANTS named, license, secrets, greet, header, sum, noSecrets, playbook, nothing

Families == greet :> named @@ header :> license @@ sum :> named @@ noSecrets :> secrets
=============================================================================
