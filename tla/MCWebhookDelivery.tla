------------------------- MODULE MCWebhookDelivery -------------------------
(* Instances of WebhookDelivery for TLC.                                     *)
EXTENDS WebhookDelivery, TLC

CONSTANTS h1, h2, b1, b2, w1, w2

OneHook       == {h1}
TwoHooks      == {h1, h2}
OneBroadcast  == {b1}
TwoBroadcasts == {b1, b2}
OneWorker     == {w1}
TwoWorkers    == {w1, w2}

(* Webhooks are alike.                                                       *)
HooksAlike == Permutations(Hooks)

(* Every webhook observes the channels of every broadcast.                   *)
AllObserve == [b \in Broadcasts |-> Hooks]
=============================================================================
