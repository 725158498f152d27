--------------------------- MODULE MCWebhookIngress ---------------------------
(* Instances of WebhookIngress for TLC. *)
EXTENDS WebhookIngress

\* Two bundles of two views and one of one view
MCBundleOf == <<"metadata", "metadata", "autoapprove", "autoapprove", "dcr">>
=============================================================================
