--------------------------- MODULE WebhookPipeline ---------------------------
(***************************************************************************)
(* The webhook pipeline: publishers put notifications on the RabbitMQ      *)
(* exchange discord_publish; the webhooks manager looks up who subscribed  *)
(* to a notification's slug and puts one job per subscriber back on the    *)
(* exchange; the sender posts the jobs to Discord.                         *)
(*                                                                         *)
(* A queue is the sequence of its messages that are not acknowledged,      *)
(* delivered or not: it has one consumer, which has no prefetch limit, and *)
(* RabbitMQ puts what a lost consumer had not acknowledged back where it   *)
(* was.  The manager and the sender run once each, as in docker-compose,   *)
(* which restarts neither of them.                                         *)
(***************************************************************************)
EXTENDS Naturals, Sequences, FiniteSets

CONSTANTS
    Notification,  \* what the monitors publish
    Poison,        \* the notifications whose body is not valid JSON
    Slug, Url,
    SlugOf,        \* the slug of every notification
    None,          \* a loop is between two messages
    InitialTables, \* the contents public.subscriptions may start with
    MaxManagerStops, MaxSenderStops,  \* bound: stops and crashes
    MaxRestarts,   \* bound: restarts of the broker
    MaxEdits,      \* bound: changes of the subscriptions table
    MaxFaults      \* bound: queries cut off, and rate limits

ASSUME PoisonAssumption == Poison \subseteq Notification
ASSUME SlugAssumption == SlugOf \in [Notification -> Slug]
ASSUME TablesAssumption == InitialTables \subseteq SUBSET (Slug \X Url)
ASSUME BoundsAssumption ==
    /\ MaxManagerStops \in Nat /\ MaxSenderStops \in Nat /\ MaxRestarts \in Nat
    /\ MaxEdits \in Nat /\ MaxFaults \in Nat

\* A PublishPayload: what to post, and to whom.
Job == Notification \X Url

ASSUME NoneAssumption == None \notin Notification /\ None \notin Job

VARIABLES
    brokerUp,       \* does RabbitMQ accept connections?
    exchange,       \* is discord_publish declared?  (durable)
    bound,          \* is the queue DefaultSender bound to it?  (durable)
    inbox,          \* the running manager's queue: what it has yet to read
    jobs,           \* the queue DefaultSender
    subscriptions,  \* the rows of public.subscriptions
    manager,        \* where the manager process is
    cache,          \* SettingsCache: the URLs of every slug
    fetched,        \* the rows RefreshSettings has read, while it runs
    refreshing,
    current,        \* the notification the manager's loop is at
    todo,           \* the URLs it has yet to publish a job for
    sender,         \* where the sender process is
    linked,         \* is its connection to the broker alive?
    hand,           \* the job it is posting
    published,      \* the notifications published so far
    skipped,        \* read by the running manager and never acknowledged
    stranded,       \* dropped, or in a queue no manager will ever read again
    handled,        \* acknowledged
    lookup,         \* the URLs found for the notifications looked up
    unrouted,       \* the jobs published when no queue was bound for them
    posts,          \* how often Discord accepted a job
    rejected,       \* the jobs it refused, or that could not be sent
    settled,        \* the jobs the sender acknowledged
    wiped,          \* the jobs a restart of the broker destroyed
    versions,       \* every content the subscriptions table has had
    managerStops, senderStops, restarts, edits, faults

brokerVars == <<brokerUp, exchange, bound, jobs>>
tableVars == <<subscriptions, versions>>
cacheVars == <<cache, fetched, refreshing>>
loopVars == <<current, todo, inbox, skipped>>
senderVars == <<sender, linked, hand>>
fateVars == <<stranded, handled>>
fanOutVars == <<lookup, unrouted>>
outcomeVars == <<posts, rejected, settled, wiped>>
boundVars == <<managerStops, senderStops, restarts, edits, faults>>
vars == <<brokerVars, tableVars, manager, cacheVars, loopVars, senderVars, published, fateVars,
          fanOutVars, outcomeVars, boundVars>>

Elements(s) == {s[k] : k \in 1 .. Len(s)}

\* The URLs of a slug among the rows of the table.
\* Mutant: the rows themselves.
RowsOf(rows, s) == {r \in rows : r[1] = s}
UrlsOf(rows, s) == {u \in Url : <<s, u>> \in rows}

ManagerState == {"down", "db", "dial", "spin", "ready", "deaf"}
SenderState == {"down", "idle", "posting", "limited", "answered"}

QueueTypeOK ==
    /\ brokerUp \in BOOLEAN /\ exchange \in BOOLEAN /\ bound \in BOOLEAN
    /\ inbox \in Seq(Notification) /\ jobs \in Seq(Job)

ManagerTypeOK ==
    /\ manager \in ManagerState
    /\ subscriptions \subseteq Slug \X Url
    /\ versions \subseteq SUBSET (Slug \X Url)
    /\ cache \in [Slug -> SUBSET Url]
    /\ fetched \subseteq Slug \X Url
    /\ refreshing \in BOOLEAN
    /\ current \in Notification \cup {None}
    /\ todo \subseteq Url
    /\ skipped \subseteq Notification

SenderTypeOK ==
    /\ sender \in SenderState
    /\ linked \in BOOLEAN
    /\ hand \in Job \cup {None}

HistoryTypeOK ==
    /\ published \subseteq Notification /\ stranded \subseteq Notification
    /\ handled \subseteq Notification
    /\ lookup \in [Notification -> SUBSET Url]
    /\ unrouted \subseteq Job
    /\ posts \in [Job -> Nat]
    /\ rejected \subseteq Job /\ settled \subseteq Job /\ wiped \subseteq Job
    /\ managerStops \in Nat /\ senderStops \in Nat /\ restarts \in Nat
    /\ edits \in Nat /\ faults \in Nat

\* Every variable has its type.  It is what catches a lookup that yields
\* something else than URLs, or a queue fed from the wrong side.
TypeOK == QueueTypeOK /\ ManagerTypeOK /\ SenderTypeOK /\ HistoryTypeOK

Init ==
    /\ brokerUp \in BOOLEAN /\ exchange = FALSE /\ bound = FALSE
    /\ inbox = <<>> /\ jobs = <<>>
    /\ subscriptions \in InitialTables /\ versions = {subscriptions}
    /\ manager = "db" /\ sender = "down" /\ linked = FALSE /\ hand = None
    /\ cache = [s \in Slug |-> {}] /\ fetched = {} /\ refreshing = FALSE
    /\ current = None /\ todo = {}
    /\ published = {} /\ skipped = {} /\ stranded = {} /\ handled = {}
    /\ lookup = [n \in Notification |-> {}]
    /\ unrouted = {}
    /\ posts = [j \in Job |-> 0]
    /\ rejected = {} /\ settled = {} /\ wiped = {}
    /\ managerStops = 0 /\ senderStops = 0 /\ restarts = 0 /\ edits = 0 /\ faults = 0

-----------------------------------------------------------------------------
(* The manager starts: NewContext *)

StartManager ==
    /\ manager = "down"
    /\ manager' = "db"
    /\ UNCHANGED <<brokerVars, tableVars, cacheVars, loopVars, senderVars, published, fateVars,
                   fanOutVars, outcomeVars, boundVars>>

\* EstablishDbConnection: it retries until the database answers.
ConnectDb ==
    /\ manager = "db"
    /\ manager' = "dial"
    /\ UNCHANGED <<brokerVars, tableVars, cacheVars, loopVars, senderVars, published, fateVars,
                   fanOutVars, outcomeVars, boundVars>>

\* EstablishAmqpConnection: a new queue with a name of the broker's choice,
\* the exchange, the binding; then both goroutines start.  When the broker
\* refuses the connection, the dial loop, whose post statement is empty,
\* spins on the first error and never dials again.
DialBroker ==
    /\ manager = "dial"
    /\ \/ brokerUp /\ manager' = "ready" /\ exchange' = TRUE
       \/ ~brokerUp /\ manager' = "spin" /\ UNCHANGED exchange
    /\ UNCHANGED <<brokerUp, bound, jobs, tableVars, cacheVars, loopVars, senderVars, published,
                   fateVars, fanOutVars, outcomeVars, boundVars>>

-----------------------------------------------------------------------------
(* scheduleSettingsRefresh: RefreshSettings *)

\* The rows are read one by one; the error of a cursor that is cut off is
\* never looked at, so that what was read so far counts as the whole table.
\* (A query that fails at once leaves everything as it is.)
RefreshQuery ==
    /\ manager \in {"ready", "deaf"} /\ ~refreshing
    /\ refreshing' = TRUE
    /\ \/ fetched' = subscriptions /\ UNCHANGED faults
       \/ /\ faults < MaxFaults
          /\ faults' = faults + 1
          /\ fetched' \in SUBSET subscriptions \ {subscriptions}
    /\ UNCHANGED <<brokerVars, tableVars, manager, cache, loopVars, senderVars, published, fateVars,
                   fanOutVars, outcomeVars, managerStops, senderStops, restarts, edits>>

\* The new map replaces the old one.
\* Mutant: the rows are added to the map in use.
InstallInPlace(rows) == cache' = [s \in Slug |-> cache[s] \cup UrlsOf(rows, s)]
Install(rows) == cache' = [s \in Slug |-> UrlsOf(rows, s)]

RefreshInstall ==
    /\ refreshing
    /\ Install(fetched)
    /\ refreshing' = FALSE /\ fetched' = {}
    /\ UNCHANGED <<brokerVars, tableVars, manager, loopVars, senderVars, published, fateVars,
                   fanOutVars, outcomeVars, boundVars>>

-----------------------------------------------------------------------------
(* startConsumer of the manager *)

\* What becomes of the messages of a manager that is gone: its queue was
\* its own, and nobody reads it again.
\* Mutant: the queue has a fixed name, and the next manager reads it again.
Unread == (IF current = None THEN <<>> ELSE <<current>>) \o inbox
Requeue == inbox' = Unread /\ UNCHANGED stranded
Abandon == inbox' = <<>> /\ stranded' = stranded \cup Elements(Unread) \cup skipped

\* The process ends: refresh, loop, connection and queue go with it.
ManagerGone ==
    /\ Abandon
    /\ current' = None /\ todo' = {} /\ skipped' = {}
    /\ cache' = [s \in Slug |-> {}] /\ fetched' = {} /\ refreshing' = FALSE

\* Without a URL the loop goes on and leaves the notification as it is.
\* Mutant: it sends it back to the queue.
Nack(n) == inbox' = Append(Tail(inbox), n) /\ UNCHANGED skipped
PassOver(n) == inbox' = Tail(inbox) /\ skipped' = skipped \cup {n}

\* A body that is not JSON is fatal; a slug with no URL is logged and left
\* unacknowledged; otherwise the loop has its list of URLs.
Take ==
    /\ manager = "ready" /\ current = None /\ inbox # <<>>
    /\ LET n == Head(inbox) IN
       \/ /\ n \in Poison
          /\ manager' = "down"
          /\ ManagerGone
          /\ UNCHANGED lookup
       \/ /\ n \notin Poison /\ cache[SlugOf[n]] = {}
          /\ PassOver(n)
          /\ UNCHANGED <<manager, current, todo, cacheVars, stranded, lookup>>
       \/ /\ n \notin Poison /\ cache[SlugOf[n]] # {}
          /\ inbox' = Tail(inbox) /\ current' = n
          /\ todo' = cache[SlugOf[n]]
          /\ lookup' = [lookup EXCEPT ![n] = cache[SlugOf[n]]]
          /\ UNCHANGED <<manager, skipped, cacheVars, stranded>>
    /\ UNCHANGED <<brokerVars, tableVars, senderVars, published, handled, unrouted,
                   outcomeVars, boundVars>>

\* The broker takes the job in any case; without a queue bound for it, the
\* job is gone.
PublishJob(u) ==
    /\ manager = "ready" /\ current # None /\ u \in todo
    /\ todo' = todo \ {u}
    /\ \/ bound /\ jobs' = Append(jobs, <<current, u>>) /\ UNCHANGED unrouted
       \/ ~bound /\ unrouted' = unrouted \cup {<<current, u>>} /\ UNCHANGED jobs
    /\ UNCHANGED <<brokerUp, exchange, bound, tableVars, manager, cacheVars, current, inbox, skipped,
                   senderVars, published, fateVars, lookup, outcomeVars, boundVars>>

\* Mutant: it acknowledges before the jobs are published.
AcksEarly == TRUE
FannedOut == todo = {}

AckNotification ==
    /\ manager = "ready" /\ current # None /\ FannedOut
    /\ handled' = handled \cup {current}
    /\ current' = None /\ todo' = {}
    /\ UNCHANGED <<brokerVars, tableVars, manager, cacheVars, inbox, skipped, senderVars, published,
                   stranded, fanOutVars, outcomeVars, boundVars>>

ConsumeNotification == Take \/ (\E u \in Url : PublishJob(u)) \/ AckNotification

-----------------------------------------------------------------------------
(* startConsumer and submitWebhook of the sender *)

\* It declares its queue and binds it.  A broker that is down or an exchange
\* the manager has not declared yet is fatal: nothing changes then.
StartSender ==
    /\ sender = "down" /\ brokerUp /\ exchange
    /\ sender' = "idle" /\ linked' = TRUE /\ bound' = TRUE
    /\ UNCHANGED <<brokerUp, exchange, jobs, tableVars, manager, cacheVars, loopVars, hand, published,
                   fateVars, fanOutVars, outcomeVars, boundVars>>

Receive ==
    /\ sender = "idle" /\ linked /\ jobs # <<>>
    /\ sender' = "posting" /\ hand' = Head(jobs)
    /\ UNCHANGED <<brokerVars, tableVars, manager, cacheVars, loopVars, linked, published, fateVars,
                   fanOutVars, outcomeVars, boundVars>>

\* Only a rate limit is tried again; every other error counts as an answer, and
\* so does a request that failed on the way.  (The client has no timeout: that
\* Discord answers or fails is assumed.)
\* Mutants: every answer ends the loop; no answer does.
GivesUp == sender' = "answered"
Repeats == sender' = "limited"
WaitsRetryAfter == sender' = "limited"
Answered == sender' = "answered"

SubmitWebhook ==
    /\ sender \in {"posting", "limited"}
    /\ \/ posts' = [posts EXCEPT ![hand] = @ + 1] /\ Answered /\ UNCHANGED <<rejected, faults>>
       \/ rejected' = rejected \cup {hand} /\ Answered /\ UNCHANGED <<posts, faults>>
       \/ faults < MaxFaults /\ faults' = faults + 1 /\ WaitsRetryAfter /\ UNCHANGED <<posts, rejected>>
    /\ UNCHANGED <<brokerVars, tableVars, manager, cacheVars, loopVars, linked, hand, published,
                   fateVars, fanOutVars, settled, wiped, managerStops, senderStops, restarts, edits>>

\* Whatever the answer, the job is done.
\* Mutant: a job that was refused goes back to the queue.
RequeueRefused ==
    IF posts[hand] > 0 THEN settled' = settled \cup {hand} /\ jobs' = Tail(jobs)
                       ELSE jobs' = Append(Tail(jobs), hand) /\ UNCHANGED settled
Acknowledge == settled' = settled \cup {hand} /\ jobs' = Tail(jobs)

\* On a connection that is gone the acknowledgement fails, unnoticed.
AckJob ==
    /\ sender = "answered"
    /\ sender' = "idle" /\ hand' = None
    /\ \/ linked /\ Acknowledge
       \/ ~linked /\ UNCHANGED <<settled, jobs>>
    /\ UNCHANGED <<brokerUp, exchange, bound, tableVars, manager, cacheVars, loopVars, linked,
                   published, fateVars, fanOutVars, posts, rejected, wiped, boundVars>>

DeliverJob == Receive \/ SubmitWebhook \/ AckJob

-----------------------------------------------------------------------------
(* Publishers, operators and the broker *)

\* test_publisher: it ignores the outcome.  The queues of managers that are
\* gone take the notification too, but only a running manager reads it.
Publish(n) ==
    /\ n \notin published
    /\ published' = published \cup {n}
    /\ \/ manager = "ready" /\ inbox' = Append(inbox, n) /\ UNCHANGED stranded
       \/ manager # "ready" /\ stranded' = stranded \cup {n} /\ UNCHANGED inbox
    /\ UNCHANGED <<brokerVars, tableVars, manager, cacheVars, current, todo, skipped, senderVars,
                   handled, fanOutVars, outcomeVars, boundVars>>

\* A row is inserted into the table, deleted from it or replaced.
EditTable ==
    /\ edits < MaxEdits
    /\ edits' = edits + 1
    /\ \/ \E r \in (Slug \X Url) \ subscriptions : subscriptions' = subscriptions \cup {r}
       \/ \E r \in subscriptions : subscriptions' = subscriptions \ {r}
       \/ \E r \in subscriptions, new \in (Slug \X Url) \ subscriptions :
            subscriptions' = (subscriptions \ {r}) \cup {new}
    /\ versions' = versions \cup {subscriptions'}
    /\ UNCHANGED <<brokerVars, manager, cacheVars, loopVars, senderVars, published, fateVars,
                   fanOutVars, outcomeVars, managerStops, senderStops, restarts, faults>>

\* WaitForShutdown exits the process at once, whatever the goroutines do.
StopManager ==
    /\ manager # "down" /\ managerStops < MaxManagerStops
    /\ managerStops' = managerStops + 1
    /\ manager' = "down"
    /\ ManagerGone
    /\ UNCHANGED <<brokerVars, tableVars, senderVars, published, handled, fanOutVars, outcomeVars,
                   senderStops, restarts, edits, faults>>

StopSender ==
    /\ sender # "down" /\ senderStops < MaxSenderStops
    /\ senderStops' = senderStops + 1
    /\ sender' = "down" /\ linked' = FALSE /\ hand' = None
    /\ UNCHANGED <<brokerVars, tableVars, manager, cacheVars, loopVars, published, fateVars,
                   fanOutVars, outcomeVars, managerStops, restarts, edits, faults>>

StartBroker ==
    /\ ~brokerUp
    /\ brokerUp' = TRUE
    /\ UNCHANGED <<exchange, bound, jobs, tableVars, manager, cacheVars, loopVars, senderVars,
                   published, fateVars, fanOutVars, outcomeVars, boundVars>>

\* Exchange, queues and bindings are durable, the messages are not.  The
\* range over a consumer's deliveries ends with its connection, and with it
\* the goroutine, while the process lives on.
StopBroker ==
    /\ brokerUp /\ restarts < MaxRestarts
    /\ restarts' = restarts + 1
    /\ brokerUp' = FALSE
    /\ wiped' = wiped \cup Elements(jobs) /\ jobs' = <<>>
    /\ linked' = FALSE
    /\ \/ /\ manager = "ready" /\ manager' = "deaf"
          /\ inbox' = <<>> /\ stranded' = stranded \cup Elements(Unread) \cup skipped
          /\ current' = None /\ todo' = {} /\ skipped' = {}
       \/ manager # "ready" /\ UNCHANGED <<manager, loopVars, stranded>>
    /\ UNCHANGED <<exchange, bound, tableVars, cacheVars, sender, hand, published, handled,
                   fanOutVars, posts, rejected, settled, managerStops, senderStops, edits, faults>>

External == (\E n \in Notification : Publish(n)) \/ EditTable \/ StopManager \/ StopSender
Broker == StartBroker \/ StopBroker
Manager == StartManager \/ ConnectDb \/ DialBroker \/ RefreshQuery \/ RefreshInstall
             \/ ConsumeNotification
Sender == StartSender \/ DeliverJob

Next == External \/ Broker \/ Manager \/ Sender

\* The goroutines run, the database answers in the end.  Nothing starts a
\* process that is down, and nothing makes anyone publish, edit or stop.
Fairness ==
    /\ WF_vars(ConnectDb) /\ WF_vars(DialBroker)
    /\ WF_vars(RefreshQuery) /\ WF_vars(RefreshInstall)
    /\ WF_vars(ConsumeNotification)
    /\ WF_vars(DeliverJob)

Spec == Init /\ [][Next]_vars /\ Fairness

-----------------------------------------------------------------------------
(* Safety *)

\* A published notification is in exactly one place, and in the manager's
\* queue at most once: yet to be read, being fanned out, passed over without
\* an acknowledgement, stranded or handled.
PublishedIsAccountedFor ==
    LET waiting == Elements(Unread) IN
    /\ published = waiting \cup skipped \cup stranded \cup handled
    /\ Cardinality(published) =
         Len(Unread) + Cardinality(skipped) + Cardinality(stranded) + Cardinality(handled)

\* The manager acknowledges a notification only when every subscriber it
\* found has its job: whenever it stops, the notification or the job is
\* somewhere (the broker's restart and the missing binding apart).
HandledIsFannedOut ==
    \A n \in handled : \A u \in lookup[n] :
      <<n, u>> \in Elements(jobs) \cup settled \cup wiped \cup unrouted

\* A job enters the sender's queue once: a manager that stops in the middle
\* of a fan-out never makes its successor repeat it.
JobsOnce ==
    /\ Cardinality(Elements(jobs)) = Len(jobs)
    /\ Elements(jobs) \cap (settled \cup wiped \cup unrouted) = {}

\* A webhook is posted again only after a stop of the sender, whatever the
\* broker, the rate limits and the acknowledgements do.
PostedOncePerSender == \A j \in Job : posts[j] <= 1 + senderStops

\* The subscribers of a notification were all subscribed to its slug at one
\* and the same time: a refresh never mixes two contents of the table.
NoMixedSettings ==
    \A n \in Notification : \E v \in versions : lookup[n] \subseteq UrlsOf(v, SlugOf[n])

-----------------------------------------------------------------------------
(* The sender side implements WebhookDelivery *)

\* The job in the hands of a sender that lost its connection.
Detached == IF hand # None /\ ~linked THEN <<hand>> ELSE <<>>

Delivery == INSTANCE WebhookDelivery WITH Webhook <- Job, outstanding <- Detached \o jobs

\* Jobs are posted one at a time in the order of the queue, settled only
\* after an answer that is no rate limit, and never posted after that.
ImplementsDelivery == Delivery!Spec

-----------------------------------------------------------------------------
(* Liveness *)

\* What a running manager has in its queue is handled, passed over or
\* stranded by its end: one of an unknown slug does not block those behind it,
\* though one that cannot be parsed ends the manager and strands them.
NotificationsAreConsumed ==
    \A n \in Notification :
      n \in Elements(Unread) ~> n \in handled \cup skipped \cup stranded

\* A connected sender works off its queue: a refused job or a rate limit
\* does not block the ones behind it.
JobsAreSettled ==
    \A j \in Job : linked /\ j \in Elements(jobs) ~> ~linked \/ j \in settled

\* Once the table stays as it is, a running manager uses its rows: those
\* that were inserted, and not those that were deleted.
EventuallyFollowsTable ==
    <>[](manager = "ready" => \A s \in Slug : cache[s] = UrlsOf(subscriptions, s))
=============================================================================
