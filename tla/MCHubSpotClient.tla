-------------------------- MODULE MCHubSpotClient ---------------------------
(* Instances of HubSpotClient for TLC. *)
EXTENDS HubSpotClient
=============================================================================
