--------------------------- MODULE MCDurableApply ---------------------------
(***************************************************************************)
(* An instance of DurableApply for TLC: a version with a library, one       *)
(* without, one whose disposer does not undo its apply(), and one without   *)
(* an apply.js.                                                             *)
(***************************************************************************)

EXTENDS DurableApply, TLC

CONSTANTS apply, lib, manifest, full, slim, leaky, headless

SmallFiles ==
  full :> {apply, lib} @@ slim :> {apply} @@ leaky :> {apply, lib} @@ headless :> {lib}
=============================================================================
