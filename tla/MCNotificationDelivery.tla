------------------------ MODULE MCNotificationDelivery ------------------------
(***************************************************************************)
(* Small instances of the delivery worker for TLC.                         *)
(***************************************************************************)
EXTENDS NotificationDelivery

\* A message sent, a temporary failure, a permanent one, and one nobody knows.
AllReports == {"sent", "transport_timeout", "telegram_forbidden", "gibberish"}
=============================================================================
