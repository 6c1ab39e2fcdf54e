---------------------------- MODULE MCDeployment ----------------------------
(* A small instance of Deployment: both ways to run the workers, with one  *)
(* fault.                                                                  *)
EXTENDS Deployment, TLC

Processes == {"workflow", "activity", "both", "tenant"}

QueuesOf ==
  [x \in Processes |->
     CASE x = "workflow" -> {"workflow_tasks"}
       [] x = "activity" -> {"activity_tasks"}
       [] OTHER -> {"workflow_tasks", "activity_tasks"}]

NamespaceOf == [x \in Processes |-> IF x = "tenant" THEN "production" ELSE NoNamespace]
=============================================================================
