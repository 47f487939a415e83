--------------------------- MODULE MCOrderIntake ---------------------------
(***************************************************************************)
(* Shopify, searched by update time and delivering webhooks.  The unit of  *)
(* time is 5 minutes: the poll looks back 20 (api/internal_jobs.py) and    *)
(* runs every 15 (infra/terraform/scheduler.tf).                           *)
(***************************************************************************)
EXTENDS OrderIntake

CONSTANT shopify

ShopifyOrders == [o \in Order |-> shopify]
Scheduled     == [c \in Channel |-> 3]
LooksBack     == [c \in Channel |-> 4]
Twice         == [o \in Order |-> 2]
=============================================================================
