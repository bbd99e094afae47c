-------------------------- MODULE MCNotifications --------------------------
(* Notifications with two of them, so that one can arrive while the other  *)
(* is read or deleted, a list with room for both, one click in the         *)
(* dropdown and one loss, failure or operation in another tab.             *)
EXTENDS Notifications

MCMaxNotifications == 2
MCMaxCalls == 1
MCMaxMishaps == 1
MCLimit == 2
=============================================================================
