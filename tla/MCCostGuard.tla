---------------------------- MODULE MCCostGuard ----------------------------
(* An instance of CostGuard for TLC: the stack of one service, load balancer *)
(* and database, and three look-alikes that fail one ownership signal each.  *)
EXTENDS CostGuard, TLC

CONSTANTS svc, alb, db, otherName, otherTags, otherState

MCKind == (svc :> "ecs-service") @@ (alb :> "load-balancer") @@ (db :> "db-instance")
          @@ (otherName :> "load-balancer") @@ (otherTags :> "ecs-service")
          @@ (otherState :> "db-instance")
=============================================================================
