-------------------------- MODULE MaintenanceLedger --------------------------
(***************************************************************************)
(* What every model of SecApp's maintenance promises of one machine's      *)
(* installation: transactions are admitted one at a time under a counter   *)
(* of their own, a publication blocks the selection under a fresh          *)
(* generation before it can commit, and no floor ever falls.               *)
(*                                                                         *)
(* The protocol, persistence and recovery models implement this            *)
(* specification, sessions that end anywhere included; the order of the    *)
(* phases is that of the deployment model                                  *)
(* (src/tools/lib/deployment-model.mjs).                                   *)
(***************************************************************************)
EXTENDS Naturals

CONSTANT Null                     \* the selection of an uninstalled machine

VARIABLES
  counter,                        \* transactions admitted so far
  gen, genFloor,                  \* generation selected, highest possibly published
  secFloor,                       \* lowest security epoch still acceptable
  sel,                            \* what is selected: Null or a record with an epoch
  phase                           \* of the transaction that is under way

ledger == <<counter, gen, genFloor, secFloor, sel, phase>>

EpochOf(s)    == IF s = Null THEN 0 ELSE s.epoch
AtFloor(s, f) == s = Null \/ s.epoch >= f

LedgerInit ==
  /\ {counter, gen, secFloor} \subseteq Nat /\ genFloor = gen
  /\ AtFloor(sel, secFloor) /\ phase = "Stable"

\* A new transaction, or the recovery of the one under way.
Admit ==
  /\ counter' = counter + 1
  /\ phase' = IF phase = "Stable" THEN "Admitted" ELSE phase
  /\ UNCHANGED <<gen, genFloor, secFloor, sel>>

Block ==
  /\ phase \in {"Admitted", "Blocked"} /\ phase' = "Blocked"
  /\ genFloor' = genFloor + 1
  /\ secFloor' \in Nat /\ secFloor' >= secFloor /\ secFloor' >= EpochOf(sel)
  /\ UNCHANGED <<counter, gen, sel>>

\* The candidate, or a previous selection that still satisfies the floor.
Commit ==
  /\ phase = "Blocked" /\ phase' = "Committed"
  /\ gen' = genFloor /\ AtFloor(sel', secFloor)
  /\ UNCHANGED <<counter, genFloor, secFloor>>

Complete ==
  /\ phase = "Committed" /\ phase' = "Stable"
  /\ UNCHANGED <<counter, gen, genFloor, secFloor, sel>>

\* A transaction that never blocked is given up, or one that only wrote metadata ends.
Retire ==
  /\ phase = "Admitted" /\ phase' = "Stable"
  /\ UNCHANGED <<counter, gen, genFloor, secFloor, sel>>

LedgerNext == Admit \/ Block \/ Commit \/ Complete \/ Retire

Ledger == LedgerInit /\ [][LedgerNext]_ledger

-----------------------------------------------------------------------------
\* While no publication is under way the selection satisfies the floor, and its
\* generation is the highest that may have been published.
SettledAtFloor == phase # "Blocked" => AtFloor(sel, secFloor) /\ gen = genFloor

\* No counter or floor falls, and the selection only changes when a blocked
\* publication commits under a generation above every earlier one.
NeverBack ==
  [][/\ counter' >= counter /\ genFloor' >= genFloor /\ secFloor' >= secFloor
     /\ sel' # sel => phase = "Blocked" /\ gen' > gen]_ledger
=============================================================================
