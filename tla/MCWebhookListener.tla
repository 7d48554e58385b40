------------------------- MODULE MCWebhookListener -------------------------
(* Instances of WebhookListener for TLC.                                     *)
EXTENDS WebhookListener

CONSTANTS p1, p2, c1, c2, internal

TwoPayloads   == {p1, p2}
ThreeChannels == {c1, c2, internal}
OneInternal   == {internal}
=============================================================================
