--------------------------- MODULE WebhookDelivery ---------------------------
(***************************************************************************)
(* What the sender side of the webhook pipeline promises about the         *)
(* webhooks it accepted: they are posted one at a time and in the order    *)
(* they were accepted, none is accepted that is outstanding, was posted or *)
(* was refused, and one is settled only after it was answered with         *)
(* something else than a rate limit; until then it may be posted again,    *)
(* afterwards it never is.  A restart of the broker forgets what is not    *)
(* settled, but not the webhook in the sender's hands.  Queues,            *)
(* acknowledgements, retries and the sender's restarts are not visible     *)
(* here.                                                                   *)
(***************************************************************************)
EXTENDS Naturals, Sequences

CONSTANT Webhook

VARIABLES
    outstanding,  \* accepted and not settled, oldest first
    posts,        \* how often Discord accepted each webhook
    rejected,     \* the webhooks it refused, or that could not be sent
    settled       \* the webhooks the sender is done with

dvars == <<outstanding, posts, rejected, settled>>

Init ==
    /\ outstanding = <<>>
    /\ posts = [j \in Webhook |-> 0]
    /\ rejected = {}
    /\ settled = {}

Accept(j) ==
    /\ posts[j] = 0 /\ j \notin rejected
    /\ \A i \in DOMAIN outstanding : outstanding[i] # j
    /\ outstanding' = Append(outstanding, j)
    /\ UNCHANGED <<posts, rejected, settled>>

Post(j) ==
    /\ outstanding # <<>> /\ j = Head(outstanding)
    /\ \/ posts' = [posts EXCEPT ![j] = @ + 1] /\ UNCHANGED rejected
       \/ rejected' = rejected \cup {j} /\ UNCHANGED posts
    /\ UNCHANGED <<outstanding, settled>>

Settle ==
    /\ outstanding # <<>>
    /\ posts[Head(outstanding)] > 0 \/ Head(outstanding) \in rejected
    /\ settled' = settled \cup {Head(outstanding)}
    /\ outstanding' = Tail(outstanding)
    /\ UNCHANGED <<posts, rejected>>

Forget ==
    /\ outstanding # <<>>
    /\ outstanding' \in {<<>>, <<Head(outstanding)>>, Tail(outstanding)}
    /\ UNCHANGED <<posts, rejected, settled>>

Next ==
    \/ \E j \in Webhook : Accept(j) \/ Post(j)
    \/ Settle
    \/ Forget

Spec == Init /\ [][Next]_dvars
=============================================================================
