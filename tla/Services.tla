------------------------------- MODULE Services -------------------------------
(***************************************************************************)
(* The components around the engine, side by side.  They share no state in *)
(* these models: one of them runs, the others stay as they start.          *)
(***************************************************************************)
EXTENDS HttpEffect, DataDir, Schedule, Proposals, CycleCheck, Delivery

CONSTANT Parts  \* the components that run, each in behaviours of its own

\* A component that does not run starts with a pure node, or without edges.
ASSUME ServicesAssumption == "pure" \in HttpContracts /\ "none" \in EdgeKinds

VARIABLE part

NoEdges == [e \in Vertices \X Vertices |-> "none"]

ServicesInit ==
  /\ part \in Parts
  /\ IF part = "http" THEN HttpInit ELSE HttpStart("pure")
  /\ IF part = "cycles"
     THEN \E g \in Graphs : (\A v \in Vertices : g[<<v, v>>] # "bounded") /\ CycleStart(g)
     ELSE CycleStart(NoEdges)
  /\ IF part = "datadir" THEN DataDirInit ELSE DataDirStart("original", NoArchive)
  /\ ScheduleInit /\ ProposalsInit /\ DeliveryInit

HttpOnly == part = "http" /\ HttpNext
            /\ UNCHANGED <<dirVars, schedVars, propVars, cycleVars, delVars>>
DataDirOnly == part = "datadir" /\ DataDirNext
            /\ UNCHANGED <<httpVars, schedVars, propVars, cycleVars, delVars>>
ScheduleOnly == part = "schedule" /\ ScheduleNext
            /\ UNCHANGED <<httpVars, dirVars, propVars, cycleVars, delVars>>
ProposalsOnly == part = "proposals" /\ ProposalsNext
            /\ UNCHANGED <<httpVars, dirVars, schedVars, cycleVars, delVars>>
CyclesOnly == part = "cycles" /\ CycleNext
            /\ UNCHANGED <<httpVars, dirVars, schedVars, propVars, delVars>>
DeliveryOnly == part = "delivery" /\ DeliveryNext
            /\ UNCHANGED <<httpVars, dirVars, schedVars, propVars, cycleVars>>

ServicesNext ==
  /\ UNCHANGED part
  /\ \/ HttpOnly \/ DataDirOnly \/ ScheduleOnly \/ ProposalsOnly \/ CyclesOnly \/ DeliveryOnly

servicesVars == <<part, httpVars, dirVars, schedVars, propVars, cycleVars, delVars>>
ServicesSpec == ServicesInit /\ [][ServicesNext]_servicesVars

\* Every variable of every component keeps its type.
ServicesTypeOK ==
  /\ part \in Parts
  /\ HttpTypeOK /\ DataDirTypeOK /\ ScheduleTypeOK /\ ProposalsTypeOK /\ CycleTypeOK
  /\ DeliveryTypeOK
===============================================================================
