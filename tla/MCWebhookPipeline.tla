-------------------------- MODULE MCWebhookPipeline --------------------------
(* Values for the constants of WebhookPipeline. *)
EXTENDS WebhookPipeline, TLC

CONSTANTS n1, n2, slugA, slugB, u1, u2

OneSlug == [n \in Notification |-> slugA]
TwoSlugs == (n1 :> slugA) @@ (n2 :> slugB)

EveryTable == SUBSET (Slug \X Url)
FullTable == {Slug \X Url}

\* One slug with two subscribers, one with a single one.
ThreeRows == {{<<slugA, u1>>, <<slugA, u2>>, <<slugB, u1>>}}
=============================================================================
