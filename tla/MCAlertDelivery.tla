-------------------------- MODULE MCAlertDelivery --------------------------
(* An instance of AlertDelivery for TLC: notifiers, alerts and channels are  *)
(* model values given in the .cfg file.                                      *)
EXTENDS AlertDelivery
CONSTANTS n1, n2, a1, c1, c2
=============================================================================
