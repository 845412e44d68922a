--------------------------- MODULE MCNotification ---------------------------
(* An instance of Notification: a webhook that takes everything and one    *)
(* that may fail and wants match results, and the events of one match that *)
(* ends a group, with a report of result-ingestion between them.           *)
EXTENDS Notification, TLC

CONSTANTS reliable, flaky

MCMessage == { [type |-> t, tournament |-> "wc2026"] :
                 t \in {"GroupStageCompleted", "ResultIngested"} }
MCConfig == (reliable :> [tournament |-> "wc2026", kinds |-> {}])
         @@ (flaky    :> [tournament |-> "wc2026", kinds |-> {"match_result"}])
=============================================================================
