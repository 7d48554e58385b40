------------------------- MODULE MCWebhookRegistry -------------------------
EXTENDS WebhookRegistry
CONSTANTS a, b, moves, breaks, begins
\* One operation moves to more channels, one breaks, one begins to observe.
Operations == {moves, breaks, begins}
TwoChannels == {a, b}
MeantChannels ==
  [m \in Operations \X Codes |->
     IF m[1] = begins THEN (IF m[2] = "old" THEN {} ELSE {a, b})
     ELSE IF m = <<moves, "new">> THEN {b}
     ELSE IF m[1] = moves THEN {a} ELSE {a, b}]
BrokenOperations == {<<breaks, "new">>}
===========================================================================
