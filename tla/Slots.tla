------------------------------- MODULE Slots -------------------------------
(***************************************************************************)
(* The slot table of the JIT runtime (plugins/dsh-improveness/src/slots.js) *)
(* as the module the runtime composes its steps from.                      *)
(*                                                                         *)
(* A table maps a slot to the ids that hold it.  `null` is the empty set,  *)
(* an occupant x of a singleton slot is {x}; `capability` is the list of   *)
(* its ids without the order, which no caller reads.  A slot the source    *)
(* does not know (define passes pkg.slot on unchecked) behaves as a        *)
(* singleton, so Slot is any set with Capability in it.                    *)
(***************************************************************************)

CONSTANTS
  Slot,        \* the slots a package can name
  Capability,  \* the slot that holds any number of ids
  Id           \* plugin ids

ASSUME SlotAssumption == Capability \in Slot

SlotTable == [Slot -> SUBSET Id]

\* emptySlots()
EmptySlots == [s \in Slot |-> {}]

\* claimSlot does not throw: a singleton slot is free or held by id itself.
\* The mutated form lets a newcomer replace the occupant.
CanClaimEvicting(table, s, id) == TRUE
CanClaim(table, s, id) == s = Capability \/ table[s] \subseteq {id}

\* The table claimSlot returns when it does not throw.
Claim(table, s, id) ==
  [table EXCEPT ![s] = IF s = Capability THEN @ \cup {id} ELSE {id}]

\* releaseSlot(table, s, id).  The mutated form clears the table's slot for
\* whoever holds it.
ReleaseWholeSlot(table, s, id) == [table EXCEPT ![s] = {}]
Release(table, s, id) == [table EXCEPT ![s] = @ \ {id}]
=============================================================================
