--------------------------- MODULE MCHubConnection ---------------------------
(* Instances of HubConnection for TLC. *)
EXTENDS HubConnection

AnyOffer == {<<WebSockets, LongPolling>>, <<WebSockets>>, <<LongPolling>>}
=============================================================================
