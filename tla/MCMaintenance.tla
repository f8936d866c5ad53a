---------------------------- MODULE MCMaintenance ----------------------------
(* The two models of one maintenance operation: a session of the protocol,   *)
(* and a scenario of the deployment model.  They share tuples and the ledger *)
(* they implement, and nothing else: part says which of them moves.          *)
EXTENDS MaintenanceProtocol
CONSTANTS Nonces, ConfirmationSeconds, Foreign, MaxScenarioTime
VARIABLES part, snapshot, intent, receipt, used, stage, ended, minFloor, consumed

scenarioVars == <<snapshot, intent, receipt, used, stage, ended, minFloor, consumed>>

D == INSTANCE DeploymentModel WITH MaxTime <- MaxScenarioTime

\* No member, one that needs a full and a partial chunk, and two members.
MCMembers == {<<>>, <<3>>, <<2, 1>>}

MCInit == part \in {"protocol", "deployment"} /\ Init /\ D!Init

MCNext ==
  \/ part = "protocol"   /\ Next   /\ UNCHANGED <<part, scenarioVars>>
  \/ part = "deployment" /\ D!Next /\ UNCHANGED <<part, vars>>

MCSpec == MCInit /\ [][MCNext]_<<part, vars, scenarioVars>>

-----------------------------------------------------------------------------
\* What a session leaves, the next one accepts, believes and can finish.
StoresCanGoOn == TypeOK /\ StoreStaysValid /\ FloorsAreSafe /\ PublicationCanFinish

\* Neither model projects a selection that a publication may already have replaced.
OnlyCertainShown == ShownIsCertain /\ D!TypeOK /\ D!ShownIsCertain

\* One confirmation, one operation: what changes is what was confirmed, under a
\* confirmation that was never used before.
ConfirmedOnce == OnlyConfirmed /\ D!ConsumedOnce

\* Whatever comes too late, after a deadline or a lost reply, moves nothing.
LateIsRefused == DeadlinesHold /\ LostReplyFreezes

\* Sessions and scenarios, with their failures, recoveries and restarts, are behaviours
\* of the ledger all maintenance models share.
BothImplementLedger == ImplementsLedger /\ D!ImplementsLedger
=============================================================================
