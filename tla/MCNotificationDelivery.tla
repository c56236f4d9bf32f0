------------------------- MODULE MCNotificationDelivery -------------------------
(***************************************************************************)
(* NotificationDelivery with one demo client and one that is added, a      *)
(* stored event and an unknown one.                                        *)
(***************************************************************************)
EXTENDS NotificationDelivery

CONSTANTS s1, demo, added, stored1, unknown, i1, e1
================================================================================
