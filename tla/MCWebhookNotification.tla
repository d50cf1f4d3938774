------------------------ MODULE MCWebhookNotification ------------------------
(***************************************************************************)
(* Two policies with one target each, so that a failure of the first       *)
(* target is followed by the second; each job may fail twice.              *)
(***************************************************************************)
EXTENDS WebhookNotification, TLC

MCHookSeq == <<<<"policy1", "http">>, <<"policy2", "slack">>>>
=============================================================================
