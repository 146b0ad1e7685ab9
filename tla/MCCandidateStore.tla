--------------------------- MODULE MCCandidateStore ---------------------------
(***************************************************************************)
(* An instance of CandidateStore for TLC: a candidate of one file, one of   *)
(* two that shares it, and one whose second file is refused.                *)
(***************************************************************************)

EXTENDS CandidateStore

CONSTANTS skill, playbook, outside, old, new, first, second, example

Candidates ==
  {<<[file |-> playbook, content |-> new]>>,
   <<[file |-> skill, content |-> new], [file |-> playbook, content |-> old]>>,
   <<[file |-> skill, content |-> old], [file |-> outside, content |-> new]>>}
Trees ==
  {[f \in File |-> IF f = playbook THEN b ELSE Absent] : b \in {old, Absent}}
ExampleManifest == [files |-> <<playbook>>, parts |-> <<Empty>>]
=============================================================================
