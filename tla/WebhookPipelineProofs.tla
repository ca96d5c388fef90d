------------------------ MODULE WebhookPipelineProofs ------------------------
(***************************************************************************)
(* Proofs about WebhookPipeline, for any notifications, subscribers and    *)
(* bounds: types, where notifications and jobs are, how often a job is     *)
(* posted, and that the sender side implements WebhookDelivery.            *)
(***************************************************************************)
EXTENDS WebhookPipeline, FiniteSetTheorems, TLAPS

Distinct(s) == \A i, k \in 1 .. Len(s) : s[i] = s[k] => i = k

\* Jobs that were published, wherever they ended up.
Known == Elements(jobs) \cup settled \cup wiped \cup unrouted

\* The job in the sender's hands, and the connection it would be acknowledged on.
HandInv ==
    /\ sender \in {"down", "idle"} <=> hand = None
    /\ hand # None /\ linked => jobs # <<>> /\ Head(jobs) = hand
    /\ sender = "down" => ~linked

\* Notifications that no fan-out will ever go on with.
Over == handled \cup stranded

-----------------------------------------------------------------------------
(* Sequences without repetition *)

\* What Append does to the elements.
LEMMA AppendElements ==
    ASSUME NEW T, NEW s \in Seq(T), NEW x \in T
    PROVE  /\ Append(s, x) \in Seq(T)
           /\ Elements(Append(s, x)) = Elements(s) \cup {x}
           /\ Distinct(s) /\ x \notin Elements(s) => Distinct(Append(s, x))
<1> DEFINE a == Append(s, x)
<1>1. /\ a \in Seq(T) /\ Len(a) = Len(s) + 1 /\ Len(s) \in Nat
      /\ a[Len(s) + 1] = x /\ \A k \in 1 .. Len(s) : a[k] = s[k]
  OBVIOUS
<1>2. ASSUME NEW y PROVE y \in Elements(a) <=> y \in Elements(s) \cup {x}
  <2>1. ASSUME NEW k \in 1 .. Len(a), y = a[k] PROVE y \in Elements(s) \cup {x}
    BY <1>1, <2>1 DEF Elements
  <2>2. ASSUME NEW k \in 1 .. Len(s), y = s[k] PROVE y \in Elements(a)
    <3>1. k \in 1 .. Len(a) /\ y = a[k]
      BY <1>1, <2>2
    <3> QED
      BY <3>1 DEF Elements
  <2>3. x \in Elements(a)
    <3>1. Len(s) + 1 \in 1 .. Len(a)
      BY <1>1
    <3> QED
      BY <1>1, <3>1 DEF Elements
  <2> QED
    BY <2>1, <2>2, <2>3 DEF Elements
<1>3. ASSUME Distinct(s), x \notin Elements(s) PROVE Distinct(a)
  BY <1>1, <1>3 DEF Distinct, Elements
<1> QED
  BY <1>1, <1>2, <1>3

\* What Tail does to the elements.
LEMMA TailElements ==
    ASSUME NEW T, NEW s \in Seq(T), s # <<>>
    PROVE  /\ Head(s) \in T /\ Head(s) \in Elements(s)
           /\ Tail(s) \in Seq(T)
           /\ Elements(s) = Elements(Tail(s)) \cup {Head(s)}
           /\ Distinct(s) => Distinct(Tail(s)) /\ Head(s) \notin Elements(Tail(s))
<1> DEFINE t == Tail(s)
<1>1. /\ t \in Seq(T) /\ Len(s) = Len(t) + 1 /\ Len(t) \in Nat
      /\ Head(s) = s[1] /\ Head(s) \in T
      /\ \A k \in 1 .. Len(t) : t[k] = s[k + 1]
  OBVIOUS
<1>2. Head(s) \in Elements(s)
  <2>1. 1 \in 1 .. Len(s)
    BY <1>1
  <2> QED
    BY <1>1, <2>1 DEF Elements
<1>3. ASSUME NEW y PROVE y \in Elements(s) <=> y \in Elements(t) \cup {Head(s)}
  <2>1. ASSUME NEW k \in 1 .. Len(s), y = s[k] PROVE y \in Elements(t) \cup {Head(s)}
    <3>1. CASE k = 1
      BY <1>1, <2>1, <3>1
    <3>2. CASE k # 1
      <4>1. k - 1 \in 1 .. Len(t) /\ t[k - 1] = s[k]
        BY <1>1, <3>2
      <4> QED
        BY <2>1, <4>1 DEF Elements
    <3> QED
      BY <3>1, <3>2
  <2>2. ASSUME NEW k \in 1 .. Len(t), y = t[k] PROVE y \in Elements(s)
    <3>1. k + 1 \in 1 .. Len(s) /\ y = s[k + 1]
      BY <1>1, <2>2
    <3> QED
      BY <3>1 DEF Elements
  <2> QED
    BY <1>2, <2>1, <2>2 DEF Elements
<1>4. ASSUME Distinct(s) PROVE Distinct(t)
  <2> SUFFICES ASSUME NEW i \in 1 .. Len(t), NEW k \in 1 .. Len(t), t[i] = t[k] PROVE i = k
    BY DEF Distinct
  <2>1. i + 1 \in 1 .. Len(s) /\ k + 1 \in 1 .. Len(s) /\ s[i + 1] = s[k + 1]
    BY <1>1
  <2> QED
    BY <1>4, <2>1 DEF Distinct
<1>5. ASSUME Distinct(s), Head(s) \in Elements(t) PROVE FALSE
  <2>1. PICK k \in 1 .. Len(t) : Head(s) = t[k]
    BY <1>5 DEF Elements
  <2>2. k + 1 \in 1 .. Len(s) /\ 1 \in 1 .. Len(s) /\ s[k + 1] = s[1]
    BY <1>1, <2>1
  <2> QED
    BY <1>5, <2>2 DEF Distinct
<1> QED
  BY <1>1, <1>2, <1>3, <1>4, <1>5

\* The empty sequence has no elements.
LEMMA EmptyElements ==
    ASSUME NEW T
    PROVE  <<>> \in Seq(T) /\ Elements(<<>>) = {} /\ Distinct(<<>>)
BY DEF Elements, Distinct

\* One element in front.
LEMMA ConsElements ==
    ASSUME NEW T, NEW s \in Seq(T), NEW x \in T
    PROVE  /\ <<x>> \o s \in Seq(T)
           /\ <<x>> \o s # <<>>
           /\ Head(<<x>> \o s) = x /\ Tail(<<x>> \o s) = s
           /\ Len(<<x>> \o s) = Len(s) + 1
           /\ Elements(<<x>> \o s) = {x} \cup Elements(s)
<1> DEFINE c == <<x>> \o s
<1>1. /\ c \in Seq(T) /\ Len(c) = Len(s) + 1 /\ Len(s) \in Nat
      /\ c[1] = x /\ \A k \in 1 .. Len(s) : c[k + 1] = s[k]
  OBVIOUS
<1>2. c # <<>> /\ Head(c) = x
  BY <1>1
<1>3. Tail(c) \in Seq(T) /\ Len(Tail(c)) = Len(s) /\ \A k \in 1 .. Len(s) : Tail(c)[k] = s[k]
  BY <1>1, <1>2
<1>4. Tail(c) = s
  BY <1>3
<1>5. Elements(c) = {x} \cup Elements(s)
  <2>1. ASSUME NEW k \in 1 .. Len(c) PROVE c[k] \in {x} \cup Elements(s)
    <3>1. CASE k = 1
      BY <1>1, <3>1
    <3>2. CASE k # 1
      <4>1. k - 1 \in 1 .. Len(s) /\ c[(k - 1) + 1] = s[k - 1] /\ (k - 1) + 1 = k
        BY <1>1, <3>2
      <4> QED
        BY <4>1 DEF Elements
    <3> QED
      BY <3>1, <3>2
  <2>2. x \in Elements(c)
    BY <1>1 DEF Elements
  <2>3. ASSUME NEW k \in 1 .. Len(s) PROVE s[k] \in Elements(c)
    <3>1. k + 1 \in 1 .. Len(c) /\ c[k + 1] = s[k]
      BY <1>1
    <3> QED
      BY <3>1 DEF Elements
  <2> QED
    BY <2>1, <2>2, <2>3 DEF Elements
<1> HIDE DEF c
<1> QED
  BY <1>1, <1>2, <1>4, <1>5 DEF c

\* Sequences without repetition have as many elements as places.
LEMMA DistinctCardinality ==
    ASSUME NEW T, NEW s \in Seq(T), Distinct(s)
    PROVE  IsFiniteSet(Elements(s)) /\ Cardinality(Elements(s)) = Len(s)
<1> DEFINE D == 1 .. Len(s)
<1>1. Len(s) \in Nat /\ DOMAIN s = D /\ s \in [D -> T]
  OBVIOUS
<1>2. IsFiniteSet(D) /\ Cardinality(D) = Len(s)
  BY <1>1, FS_Interval
<1>3. s \in [D -> Elements(s)]
  BY <1>1 DEF Elements
<1>4. s \in Surjection(D, Elements(s))
  BY <1>3 DEF Surjection, Elements
<1>5. s \in Injection(D, Elements(s))
  BY <1>3 DEF Injection, IsInjective, Distinct
<1> HIDE DEF D
<1>6. /\ IsFiniteSet(Elements(s))
      /\ Cardinality(Elements(s)) = Cardinality(D) <=> s \in Injection(D, Elements(s))
  BY <1>2, <1>4, FS_Surjection
<1> QED
  BY <1>2, <1>5, <1>6

-----------------------------------------------------------------------------
(* Types *)

\* What a manager had yet to read, as a sequence and as a set.
Pending == Elements(inbox) \cup (IF current = None THEN {} ELSE {current})

\* Unread has the elements of Pending, each once.
LEMMA UnreadIsPending ==
    ASSUME inbox \in Seq(Notification), current \in Notification \cup {None}
    PROVE  /\ Unread \in Seq(Notification)
           /\ Elements(Unread) = Pending
           /\ Distinct(inbox) /\ current \notin Elements(inbox) => Distinct(Unread)
<1>1. CASE current = None
  <2>1. Unread = inbox
    BY <1>1 DEF Unread
  <2> QED
    BY <1>1, <2>1 DEF Pending
<1>2. CASE current # None
  <2> DEFINE c == <<current>> \o inbox
  <2>1. Unread = c /\ current \in Notification
    BY <1>2 DEF Unread
  <2>2. c \in Seq(Notification) /\ c # <<>> /\ Head(c) = current /\ Tail(c) = inbox
    BY <2>1, ConsElements
  <2>3. Elements(c) = Elements(inbox) \cup {current}
    BY <2>2, TailElements
  <2>4. /\ Len(c) = Len(inbox) + 1 /\ Len(inbox) \in Nat
        /\ c[1] = current /\ \A k \in 1 .. Len(inbox) : c[k + 1] = inbox[k]
    BY <2>1
  <2> HIDE DEF c
  <2>5. ASSUME Distinct(inbox), current \notin Elements(inbox) PROVE Distinct(c)
    <3> SUFFICES ASSUME NEW i \in 1 .. Len(c), NEW k \in 1 .. Len(c), c[i] = c[k] PROVE i = k
      BY DEF Distinct
    <3>1. ASSUME NEW j \in 1 .. Len(c), j # 1 PROVE j - 1 \in 1 .. Len(inbox) /\ c[j] = inbox[j - 1]
      BY <2>4, <3>1
    <3>2. \A j \in 1 .. Len(inbox) : inbox[j] # current
      BY <2>5 DEF Elements
    <3>3. CASE i = 1 \/ k = 1
      BY <2>4, <3>1, <3>2, <3>3
    <3>4. CASE i # 1 /\ k # 1
      <4>1. i - 1 = k - 1
        BY <2>5, <3>1, <3>4 DEF Distinct
      <4> QED
        BY <2>4, <4>1
    <3> QED
      BY <3>3, <3>4
  <2> QED
    BY <1>2, <2>1, <2>2, <2>3, <2>5 DEF Pending
<1> QED
  BY <1>1, <1>2

\* At first every variable has its type, and no hand holds a job.
LEMMA InitTypes == Init => TypeOK /\ HandInv
<1> SUFFICES ASSUME Init PROVE TypeOK /\ HandInv
    OBVIOUS
<1> USE DEF Init
<1>1. QueueTypeOK
  <2>1. inbox \in Seq(Notification)
    BY EmptyElements
  <2>2. jobs \in Seq(Job)
    BY EmptyElements
  <2> QED
    BY <2>1, <2>2 DEF QueueTypeOK
<1>2. ManagerTypeOK
  <2>1. subscriptions \subseteq Slug \X Url
    BY TablesAssumption
  <2>2. versions \subseteq SUBSET (Slug \X Url)
    BY <2>1
  <2> QED
    BY <2>1, <2>2 DEF ManagerTypeOK, ManagerState
<1>3. SenderTypeOK /\ HandInv
  BY DEF SenderTypeOK, SenderState, HandInv
<1>4. HistoryTypeOK
  BY DEF HistoryTypeOK
<1> QED
  BY <1>1, <1>2, <1>3, <1>4 DEF TypeOK

\* The messages of a manager that is gone are notifications.
LEMMA AbandonTypes ==
    ASSUME TypeOK, Abandon
    PROVE  inbox' \in Seq(Notification) /\ stranded' \subseteq Notification
<1>1. Elements(Unread) \subseteq Notification
  BY UnreadIsPending DEF TypeOK, QueueTypeOK, ManagerTypeOK, Pending, Elements
<1> QED
  BY <1>1 DEF Abandon, TypeOK, ManagerTypeOK, HistoryTypeOK

\* Every step keeps the types.
LEMMA TypesStep ==
    ASSUME TypeOK, HandInv, [Next]_vars
    PROVE  TypeOK' /\ HandInv'
<1> USE DEF TypeOK, QueueTypeOK, ManagerTypeOK, SenderTypeOK, HistoryTypeOK, ManagerState, SenderState,
        HandInv, brokerVars, tableVars, cacheVars, loopVars, senderVars, fateVars, fanOutVars,
        outcomeVars, boundVars
<1>1. CASE StartManager
  BY <1>1 DEF StartManager
<1>2. CASE ConnectDb
  BY <1>2 DEF ConnectDb
<1>3. CASE DialBroker
  BY <1>3 DEF DialBroker
<1>4. CASE RefreshQuery
  BY <1>4 DEF RefreshQuery
<1>5. CASE RefreshInstall
  BY <1>5 DEF RefreshInstall, Install, UrlsOf
<1>6. CASE Take
  <2> DEFINE n == Head(inbox)
  <2>1. n \in Notification /\ Tail(inbox) \in Seq(Notification) /\ inbox # <<>>
    BY <1>6, TailElements DEF Take
  <2>2. SlugOf[n] \in Slug
    BY <2>1, SlugAssumption
  <2>3. CASE n \in Poison
    <3>1. manager' = "down" /\ ManagerGone /\ UNCHANGED lookup
      BY <1>6, <2>3 DEF Take
    <3>2. inbox' \in Seq(Notification) /\ stranded' \subseteq Notification
      BY <3>1, AbandonTypes DEF ManagerGone
    <3> QED
      BY <1>6, <3>1, <3>2 DEF Take, ManagerGone
  <2>4. CASE n \notin Poison /\ cache[SlugOf[n]] = {}
    BY <1>6, <2>1, <2>4 DEF Take, PassOver
  <2>5. CASE n \notin Poison /\ cache[SlugOf[n]] # {}
    BY <1>6, <2>1, <2>2, <2>5 DEF Take
  <2> QED
    BY <2>3, <2>4, <2>5
<1>7. CASE \E u \in Url : PublishJob(u)
  <2>1. PICK u \in Url : PublishJob(u)
    BY <1>7
  <2>2. <<current, u>> \in Job
    BY <2>1 DEF PublishJob, Job
  <2>3. jobs' \in Seq(Job) /\ (jobs # <<>> => jobs' # <<>> /\ Head(jobs') = Head(jobs))
    <3>1. CASE jobs' = jobs
      BY <3>1
    <3>2. CASE jobs' = Append(jobs, <<current, u>>)
      BY <2>2, <3>2
    <3> QED
      BY <2>1, <3>1, <3>2 DEF PublishJob
  <2> QED
    BY <2>1, <2>2, <2>3 DEF PublishJob
<1>8. CASE AckNotification
  BY <1>8 DEF AckNotification
<1>9. CASE StartSender
  BY <1>9, NoneAssumption DEF StartSender
<1>10. CASE Receive
  <2>1. Head(jobs) \in Job /\ jobs # <<>>
    BY <1>10, TailElements DEF Receive
  <2> QED
    BY <1>10, <2>1, NoneAssumption DEF Receive
<1>11. CASE SubmitWebhook
  <2>1. hand \in Job
    BY <1>11 DEF SubmitWebhook
  <2>2. QueueTypeOK'
    BY <1>11, <2>1 DEF SubmitWebhook, Answered, WaitsRetryAfter
  <2>3. ManagerTypeOK'
    BY <1>11, <2>1 DEF SubmitWebhook, Answered, WaitsRetryAfter
  <2>4. SenderTypeOK'
    BY <1>11, <2>1 DEF SubmitWebhook, Answered, WaitsRetryAfter
  <2>5. HistoryTypeOK'
    <3>1. posts' \in [Job -> Nat]
      BY <1>11, <2>1 DEF SubmitWebhook
    <3>2. rejected' \subseteq Job
      BY <1>11, <2>1 DEF SubmitWebhook
    <3>3. faults' \in Nat
      BY <1>11 DEF SubmitWebhook
    <3> QED
      BY <1>11, <3>1, <3>2, <3>3 DEF SubmitWebhook
  <2>6. HandInv'
    BY <1>11, <2>1 DEF SubmitWebhook, Answered, WaitsRetryAfter
  <2> QED
    BY <2>2, <2>3, <2>4, <2>5, <2>6
<1>12. CASE AckJob
  <2>1. hand \in Job
    BY <1>12 DEF AckJob
  <2>2. jobs' \in Seq(Job)
    <3>1. CASE linked
      <4>1. jobs # <<>> /\ jobs' = Tail(jobs)
        BY <1>12, <2>1, <3>1, NoneAssumption DEF AckJob, Acknowledge
      <4> QED
        BY <4>1, TailElements
    <3> QED
      BY <1>12, <3>1 DEF AckJob
  <2> QED
    BY <1>12, <2>1, <2>2 DEF AckJob, Acknowledge
<1>13. CASE \E n \in Notification : Publish(n)
  <2>1. PICK n \in Notification : Publish(n)
    BY <1>13
  <2>2. Append(inbox, n) \in Seq(Notification)
    BY AppendElements
  <2>3. QueueTypeOK'
    BY <2>1, <2>2 DEF Publish
  <2>4. ManagerTypeOK'
    BY <2>1, <2>2 DEF Publish
  <2>5. SenderTypeOK'
    BY <2>1, <2>2 DEF Publish
  <2>6. HistoryTypeOK'
    BY <2>1, <2>2 DEF Publish
  <2>7. HandInv'
    BY <2>1, <2>2 DEF Publish
  <2> QED
    BY <2>3, <2>4, <2>5, <2>6, <2>7
<1>14. CASE EditTable
  BY <1>14 DEF EditTable
<1>15. CASE StopManager
  <2>1. inbox' \in Seq(Notification) /\ stranded' \subseteq Notification
    BY <1>15, AbandonTypes DEF StopManager, ManagerGone
  <2>2. QueueTypeOK'
    BY <1>15, <2>1 DEF StopManager, ManagerGone
  <2>3. ManagerTypeOK'
    BY <1>15, <2>1 DEF StopManager, ManagerGone
  <2>4. SenderTypeOK'
    BY <1>15, <2>1 DEF StopManager, ManagerGone
  <2>5. HistoryTypeOK'
    BY <1>15, <2>1 DEF StopManager, ManagerGone
  <2>6. HandInv'
    BY <1>15, <2>1 DEF StopManager, ManagerGone
  <2> QED
    BY <2>2, <2>3, <2>4, <2>5, <2>6
<1>16. CASE StopSender
  <2>1. QueueTypeOK'
    BY <1>16 DEF StopSender
  <2>2. ManagerTypeOK'
    BY <1>16 DEF StopSender
  <2>3. SenderTypeOK'
    BY <1>16 DEF StopSender
  <2>4. HistoryTypeOK'
    BY <1>16 DEF StopSender
  <2>5. HandInv'
    BY <1>16 DEF StopSender
  <2> QED
    BY <2>1, <2>2, <2>3, <2>4, <2>5
<1>17. CASE StartBroker
  BY <1>17 DEF StartBroker
<1>18. CASE StopBroker
  <2>1. Elements(Unread) \subseteq Notification
    BY UnreadIsPending DEF Pending, Elements
  <2>2. Elements(jobs) \subseteq Job
    BY DEF Elements
  <2>3. QueueTypeOK'
    <3>1. jobs' \in Seq(Job)
      BY <1>18, EmptyElements DEF StopBroker
    <3>2. inbox' \in Seq(Notification)
      BY <1>18, EmptyElements DEF StopBroker
    <3> QED
      BY <1>18, <3>1, <3>2 DEF StopBroker
  <2>4. ManagerTypeOK'
    BY <1>18, <2>1, <2>2 DEF StopBroker
  <2>5. SenderTypeOK'
    BY <1>18, <2>1, <2>2 DEF StopBroker
  <2>6. HistoryTypeOK'
    BY <1>18, <2>1, <2>2 DEF StopBroker
  <2>7. HandInv'
    BY <1>18, <2>1, <2>2 DEF StopBroker
  <2> QED
    BY <2>3, <2>4, <2>5, <2>6, <2>7
<1>19. CASE UNCHANGED vars
  BY <1>19 DEF vars
<1> QED
  BY <1>1, <1>2, <1>3, <1>4, <1>5, <1>6, <1>7, <1>8, <1>9, <1>10, <1>11, <1>12, <1>13, <1>14, <1>15,
     <1>16, <1>17, <1>18, <1>19 DEF Next, External, Broker, Manager, Sender, ConsumeNotification, DeliverJob

\* Every variable keeps its type, for any table, queue and number of stops.
THEOREM TypeCorrect == Spec => []TypeOK
<1>1. TypeOK /\ HandInv /\ [Next]_vars => (TypeOK /\ HandInv)'
  BY TypesStep
<1>2. Spec => [](TypeOK /\ HandInv)
  BY <1>1, InitTypes, PTL DEF Spec
<1> QED
  BY <1>2, PTL

-----------------------------------------------------------------------------
(* Where notifications are *)

\* The places are disjoint, and hold what was published.
PlacesInv ==
    /\ Distinct(inbox) /\ current \notin Elements(inbox)
    /\ published = Pending \cup skipped \cup stranded \cup handled
    /\ Pending \cap (skipped \cup stranded \cup handled) = {}
    /\ skipped \cap (stranded \cup handled) = {} /\ stranded \cap handled = {}
    /\ IsFiniteSet(skipped) /\ IsFiniteSet(stranded) /\ IsFiniteSet(handled)

placeVars == <<inbox, current, published, skipped, stranded, handled>>

\* At first there are no notifications.
LEMMA InitPlaces == Init => PlacesInv
<1> SUFFICES ASSUME Init PROVE PlacesInv
    OBVIOUS
<1>1. Elements(inbox) = {} /\ Distinct(inbox) /\ Pending = {}
  BY EmptyElements DEF Init, Pending
<1> QED
  BY <1>1, FS_EmptySet DEF Init, PlacesInv

\* Whatever a manager leaves behind is stranded.
LEMMA AbandonPlaces ==
    ASSUME TypeOK, PlacesInv, Abandon, current' = None, skipped' = {},
           UNCHANGED <<published, handled>>
    PROVE  PlacesInv' /\ Pending \cup stranded \subseteq stranded'
<1>1. inbox \in Seq(Notification) /\ current \in Notification \cup {None}
  BY DEF TypeOK, QueueTypeOK, ManagerTypeOK
<1>2. Elements(Unread) = Pending
  BY <1>1, UnreadIsPending
<1>3. IsFiniteSet(Pending)
  <2>1. IsFiniteSet(Elements(inbox))
    BY <1>1, DistinctCardinality DEF PlacesInv
  <2>2. IsFiniteSet(Elements(inbox) \cup {current})
    BY <2>1, FS_AddElement
  <2> QED
    BY <2>1, <2>2 DEF Pending
<1>4. stranded' = stranded \cup Pending \cup skipped /\ inbox' = <<>>
  BY <1>2 DEF Abandon
<1>5. IsFiniteSet(stranded')
  <2>1. IsFiniteSet(stranded \cup Pending)
    BY <1>3, FS_Union DEF PlacesInv
  <2> QED
    BY <1>4, <2>1, FS_Union DEF PlacesInv
<1>6. Elements(inbox') = {} /\ Distinct(inbox')
  BY <1>4, EmptyElements
<1>7. Pending' = {}
  BY <1>6 DEF Pending, Elements
<1>8. Elements(inbox)' = {} /\ Distinct(inbox)'
  BY <1>6 DEF Elements, Distinct
<1> QED
  BY <1>4, <1>5, <1>7, <1>8, FS_EmptySet DEF PlacesInv

\* Every step moves notifications from place to place.
LEMMA PlacesStep ==
    ASSUME TypeOK, PlacesInv, [Next]_vars
    PROVE  PlacesInv'
<1> USE DEF brokerVars, tableVars, cacheVars, loopVars, senderVars, fateVars, fanOutVars,
        outcomeVars, boundVars
<1>1. inbox \in Seq(Notification) /\ current \in Notification \cup {None}
  BY DEF TypeOK, QueueTypeOK, ManagerTypeOK
<1>2. CASE UNCHANGED placeVars
  BY <1>2 DEF placeVars, PlacesInv, Pending, Elements, Distinct
<1>3. CASE Take
  <2> DEFINE n == Head(inbox)
  <2>1. inbox # <<>> /\ current = None
    BY <1>3 DEF Take
  <2>2. /\ n \in Notification /\ n # None
        /\ Elements(inbox) = Elements(Tail(inbox)) \cup {n}
        /\ Distinct(Tail(inbox)) /\ n \notin Elements(Tail(inbox))
        /\ Tail(inbox) \in Seq(Notification)
    BY <1>1, <2>1, TailElements, NoneAssumption DEF PlacesInv
  <2>3. CASE n \in Poison
    BY <1>3, <2>3, AbandonPlaces DEF Take, ManagerGone
  <2>4. CASE n \notin Poison /\ cache[SlugOf[n]] = {}
    <3>1. /\ inbox' = Tail(inbox) /\ skipped' = skipped \cup {n}
          /\ UNCHANGED <<current, published, stranded, handled>>
      BY <1>3, <2>4 DEF Take, PassOver
    <3>2. Elements(inbox)' = Elements(Tail(inbox)) /\ Distinct(inbox)'
      BY <2>2, <3>1 DEF Elements, Distinct
    <3>3. Pending' = Pending \ {n} /\ n \in Pending
      BY <2>1, <2>2, <3>1, <3>2 DEF Pending
    <3>4. IsFiniteSet(skipped')
      BY <3>1, FS_AddElement DEF PlacesInv
    <3>5. current' \notin Elements(inbox)'
      BY <2>1, <2>2, <3>1, <3>2 DEF PlacesInv
    <3> QED
      BY <3>1, <3>2, <3>3, <3>4, <3>5 DEF PlacesInv
  <2>5. CASE n \notin Poison /\ cache[SlugOf[n]] # {}
    <3>1. /\ inbox' = Tail(inbox) /\ current' = n
          /\ UNCHANGED <<skipped, published, stranded, handled>>
      BY <1>3, <2>5 DEF Take
    <3>2. Elements(inbox)' = Elements(Tail(inbox)) /\ Distinct(inbox)'
      BY <2>2, <3>1 DEF Elements, Distinct
    <3>3. Pending' = Pending
      BY <2>1, <2>2, <3>1, <3>2 DEF Pending
    <3> QED
      BY <2>2, <3>1, <3>2, <3>3 DEF PlacesInv
  <2> QED
    BY <2>3, <2>4, <2>5
<1>4. CASE AckNotification
  <2>1. /\ current # None /\ handled' = handled \cup {current} /\ current' = None
        /\ UNCHANGED <<inbox, published, skipped, stranded>>
    BY <1>4 DEF AckNotification
  <2>2. Pending' = Pending \ {current} /\ current \in Pending
    BY <2>1 DEF Pending, PlacesInv, Elements
  <2>3. IsFiniteSet(handled')
    BY <2>1, FS_AddElement DEF PlacesInv
  <2>4. None \notin Elements(inbox)
    BY <1>1, NoneAssumption DEF Elements
  <2>5. Elements(inbox)' = Elements(inbox) /\ Distinct(inbox)'
    BY <2>1 DEF Elements, Distinct, PlacesInv
  <2> QED
    BY <2>1, <2>2, <2>3, <2>4, <2>5 DEF PlacesInv
<1>5. CASE \E n \in Notification : Publish(n)
  <2>1. PICK n \in Notification : Publish(n)
    BY <1>5
  <2>2. /\ n \notin published /\ published' = published \cup {n}
        /\ UNCHANGED <<current, skipped, handled>>
    BY <2>1 DEF Publish
  <2>3. CASE manager = "ready"
    <3>1. inbox' = Append(inbox, n) /\ UNCHANGED stranded
      BY <2>1, <2>3 DEF Publish
    <3>2. n \notin Elements(inbox) /\ n # current
      BY <2>2, NoneAssumption DEF PlacesInv, Pending
    <3>3. Elements(Append(inbox, n)) = Elements(inbox) \cup {n} /\ Distinct(Append(inbox, n))
      BY <1>1, <3>2, AppendElements DEF PlacesInv
    <3>4. Elements(inbox)' = Elements(inbox) \cup {n} /\ Distinct(inbox)'
      BY <3>1, <3>3 DEF Elements, Distinct
    <3>5. Pending' = Pending \cup {n}
      BY <2>2, <3>4 DEF Pending
    <3> QED
      BY <2>2, <3>1, <3>2, <3>4, <3>5 DEF PlacesInv
  <2>4. CASE manager # "ready"
    <3>1. stranded' = stranded \cup {n} /\ UNCHANGED inbox
      BY <2>1, <2>4 DEF Publish
    <3>2. Pending' = Pending /\ Elements(inbox)' = Elements(inbox) /\ Distinct(inbox)'
      BY <2>2, <3>1 DEF Pending, Elements, Distinct, PlacesInv
    <3>3. IsFiniteSet(stranded')
      BY <3>1, FS_AddElement DEF PlacesInv
    <3> QED
      BY <2>2, <3>1, <3>2, <3>3 DEF PlacesInv
  <2> QED
    BY <2>3, <2>4
<1>6. CASE StopManager
  BY <1>6, AbandonPlaces DEF StopManager, ManagerGone
<1>7. CASE StopBroker
  <2>1. CASE manager = "ready"
    BY <1>7, <2>1, AbandonPlaces DEF StopBroker, Abandon
  <2>2. CASE manager # "ready"
    BY <1>2, <1>7, <2>2 DEF StopBroker, placeVars
  <2> QED
    BY <2>1, <2>2
<1>8. CASE StartManager \/ ConnectDb \/ DialBroker \/ RefreshQuery \/ RefreshInstall
  BY <1>2, <1>8 DEF StartManager, ConnectDb, DialBroker, RefreshQuery, RefreshInstall, placeVars
<1>9. CASE \E u \in Url : PublishJob(u)
  BY <1>2, <1>9 DEF PublishJob, placeVars
<1>10. CASE StartSender \/ Receive \/ SubmitWebhook \/ AckJob \/ StopSender
  BY <1>2, <1>10 DEF StartSender, Receive, SubmitWebhook, AckJob, StopSender, placeVars
<1>11. CASE EditTable \/ StartBroker
  BY <1>2, <1>11 DEF EditTable, StartBroker, placeVars
<1>12. CASE UNCHANGED vars
  BY <1>2, <1>12 DEF vars, placeVars
<1> QED
  BY <1>3, <1>4, <1>5, <1>6, <1>7, <1>8, <1>9, <1>10, <1>11, <1>12
     DEF Next, External, Broker, Manager, Sender, ConsumeNotification, DeliverJob

\* Disjoint sets add up.
LEMMA DisjointUnion ==
    ASSUME NEW S, NEW T, IsFiniteSet(S), IsFiniteSet(T), S \cap T = {}
    PROVE  /\ IsFiniteSet(S \cup T)
           /\ Cardinality(S \cup T) = Cardinality(S) + Cardinality(T)
<1>1. /\ IsFiniteSet(S \cup T)
      /\ Cardinality(S \cup T) = Cardinality(S) + Cardinality(T) - Cardinality(S \cap T)
  BY FS_Union
<1>2. Cardinality(S \cap T) = 0
  BY FS_EmptySet
<1>3. Cardinality(S) \in Nat /\ Cardinality(T) \in Nat
  BY FS_CardinalityType
<1> QED
  BY <1>1, <1>2, <1>3

\* Disjoint places add up.
LEMMA PlacesAddUp == TypeOK /\ PlacesInv => PublishedIsAccountedFor
<1> SUFFICES ASSUME TypeOK, PlacesInv PROVE PublishedIsAccountedFor
    OBVIOUS
<1>1. Unread \in Seq(Notification) /\ Elements(Unread) = Pending /\ Distinct(Unread)
  BY UnreadIsPending DEF TypeOK, QueueTypeOK, ManagerTypeOK, PlacesInv
<1>2. IsFiniteSet(Pending) /\ Cardinality(Pending) = Len(Unread)
  BY <1>1, DistinctCardinality
<1>3. /\ IsFiniteSet(Pending \cup skipped)
      /\ Cardinality(Pending \cup skipped) = Len(Unread) + Cardinality(skipped)
  <2>1. Pending \cap skipped = {}
    BY DEF PlacesInv
  <2> QED
    BY <1>2, <2>1, DisjointUnion DEF PlacesInv
<1>4. /\ IsFiniteSet(Pending \cup skipped \cup stranded)
      /\ Cardinality(Pending \cup skipped \cup stranded)
           = Len(Unread) + Cardinality(skipped) + Cardinality(stranded)
  <2>1. (Pending \cup skipped) \cap stranded = {}
    BY DEF PlacesInv
  <2> QED
    BY <1>3, <2>1, DisjointUnion DEF PlacesInv
<1>5. Cardinality(Pending \cup skipped \cup stranded \cup handled)
        = Len(Unread) + Cardinality(skipped) + Cardinality(stranded) + Cardinality(handled)
  <2>1. (Pending \cup skipped \cup stranded) \cap handled = {}
    BY DEF PlacesInv
  <2> QED
    BY <1>4, <2>1, DisjointUnion DEF PlacesInv
<1> QED
  BY <1>1, <1>5 DEF PublishedIsAccountedFor, PlacesInv

\* No notification gets lost or is in two places, whatever stops and whenever.
THEOREM NothingIsLost == Spec => []PublishedIsAccountedFor
<1> DEFINE I == TypeOK /\ HandInv /\ PlacesInv
<1>1. I /\ [Next]_vars => I'
  BY TypesStep, PlacesStep
<1>2. Init => I
  BY InitTypes, InitPlaces
<1>3. I => PublishedIsAccountedFor
  BY PlacesAddUp
<1> QED
  BY <1>1, <1>2, <1>3, PTL DEF Spec

-----------------------------------------------------------------------------
(* Where jobs are *)

\* A job is in the queue once or has left it, and belongs to a notification that
\* is over, or at which its turn has come.
JobsInv ==
    /\ Distinct(jobs)
    /\ Elements(jobs) \cap (settled \cup wiped \cup unrouted) = {}
    /\ \A n \in Notification, u \in Url :
          <<n, u>> \in Known => n \in Over \/ (n = current /\ u \notin todo)

jobVars == <<jobs, settled, wiped, unrouted>>

\* At first there are no jobs.
LEMMA InitJobs == Init => JobsInv
<1> SUFFICES ASSUME Init PROVE JobsInv
    OBVIOUS
<1>1. Elements(jobs) = {} /\ Distinct(jobs)
  BY EmptyElements DEF Init
<1> QED
  BY <1>1 DEF Init, JobsInv, Known

\* What JobsInv says when the jobs stay where they are.
LEMMA JobsStay ==
    ASSUME JobsInv, UNCHANGED jobVars, Over \subseteq Over',
           \/ UNCHANGED <<current, todo>>
           \/ current = None
           \/ current \in Over'
    PROVE  JobsInv' /\ Known' = Known
<1>1. /\ Elements(jobs)' = Elements(jobs) /\ Known' = Known
      /\ Distinct(jobs)' <=> Distinct(jobs)
  BY DEF jobVars, Known, Elements, Distinct
<1>2. ASSUME NEW n \in Notification, NEW u \in Url, <<n, u>> \in Known
      PROVE  n \in Over' \/ (n = current' /\ u \notin todo')
  BY <1>2, NoneAssumption DEF JobsInv
<1> QED
  BY <1>1, <1>2 DEF JobsInv, jobVars

\* Every step moves jobs from place to place, and none is published twice.
LEMMA JobsStep ==
    ASSUME TypeOK, HandInv, PlacesInv, JobsInv, [Next]_vars
    PROVE  JobsInv' /\ Known \subseteq Known'
<1> USE DEF brokerVars, tableVars, cacheVars, loopVars, senderVars, fateVars, fanOutVars,
        outcomeVars, boundVars
<1>1. /\ jobs \in Seq(Job) /\ current \in Notification \cup {None} /\ hand \in Job \cup {None}
      /\ settled \subseteq Job /\ wiped \subseteq Job /\ unrouted \subseteq Job
  BY DEF TypeOK, QueueTypeOK, ManagerTypeOK, SenderTypeOK, HistoryTypeOK
<1>2. CASE UNCHANGED <<jobVars, current, todo, handled, stranded>>
  BY <1>2, JobsStay DEF Over
<1>3. CASE Take
  <2>1. UNCHANGED <<jobVars, handled>> /\ current = None
    BY <1>3 DEF Take, jobVars
  <2>2. stranded \subseteq stranded'
    <3>1. CASE Head(inbox) \in Poison
      BY <1>3, <3>1, AbandonPlaces DEF Take, ManagerGone
    <3>2. CASE Head(inbox) \notin Poison
      BY <1>3, <3>2 DEF Take
    <3> QED
      BY <3>1, <3>2
  <2> QED
    BY <2>1, <2>2, JobsStay DEF Over
<1>4. CASE \E u \in Url : PublishJob(u)
  <2>1. PICK u \in Url : PublishJob(u)
    BY <1>4
  <2> DEFINE j == <<current, u>>
  <2>2. /\ current # None /\ current \in Notification /\ u \in todo /\ todo' = todo \ {u}
        /\ UNCHANGED <<current, handled, stranded, settled, wiped>>
    BY <1>1, <2>1 DEF PublishJob
  <2>3. current \notin Over
    BY <2>2 DEF PlacesInv, Pending, Over
  <2>4. j \in Job /\ j \notin Known
    BY <2>2, <2>3 DEF JobsInv, Job
  <2>5. /\ Distinct(jobs)'
        /\ Elements(jobs)' \cup unrouted' = Elements(jobs) \cup unrouted \cup {j}
        /\ Elements(jobs)' \cap (settled \cup wiped \cup unrouted)' = {}
    <3>1. CASE bound
      <4>1. jobs' = Append(jobs, j) /\ UNCHANGED unrouted
        BY <2>1, <3>1 DEF PublishJob
      <4>2. /\ Elements(Append(jobs, j)) = Elements(jobs) \cup {j}
            /\ Distinct(Append(jobs, j))
        BY <1>1, <2>4, AppendElements DEF JobsInv, Known
      <4>3. Elements(jobs)' = Elements(jobs) \cup {j} /\ Distinct(jobs)'
        BY <4>1, <4>2 DEF Elements, Distinct
      <4> QED
        BY <2>2, <2>4, <4>1, <4>3 DEF JobsInv, Known
    <3>2. CASE ~bound
      <4>1. unrouted' = unrouted \cup {j} /\ UNCHANGED jobs
        BY <2>1, <3>2 DEF PublishJob
      <4>2. Elements(jobs)' = Elements(jobs) /\ Distinct(jobs)'
        BY <4>1 DEF Elements, Distinct, JobsInv
      <4> QED
        BY <2>2, <2>4, <4>1, <4>2 DEF JobsInv, Known
    <3> QED
      BY <3>1, <3>2
  <2>6. Known' = Known \cup {j} /\ Over' = Over
    BY <2>2, <2>5 DEF Known, Over
  <2>7. ASSUME NEW n \in Notification, NEW v \in Url, <<n, v>> \in Known'
        PROVE  n \in Over' \/ (n = current' /\ v \notin todo')
    <3>1. CASE <<n, v>> = j
      BY <2>2, <3>1
    <3>2. CASE <<n, v>> \in Known
      BY <2>2, <2>6, <3>2 DEF JobsInv
    <3> QED
      BY <2>6, <2>7, <3>1, <3>2
  <2> QED
    BY <2>5, <2>6, <2>7 DEF JobsInv
<1>5. CASE AckNotification
  <2>1. UNCHANGED <<jobVars, stranded>> /\ handled' = handled \cup {current}
    BY <1>5 DEF AckNotification, jobVars
  <2> QED
    BY <2>1, JobsStay DEF Over
<1>6. CASE AckJob
  <2>1. UNCHANGED <<wiped, unrouted, current, todo, handled, stranded>>
    BY <1>6 DEF AckJob
  <2>2. CASE linked
    <3>1. /\ jobs # <<>> /\ hand = Head(jobs)
          /\ jobs' = Tail(jobs) /\ settled' = settled \cup {hand}
      BY <1>6, <2>2, NoneAssumption DEF AckJob, Acknowledge, HandInv
    <3>2. /\ Elements(jobs) = Elements(Tail(jobs)) \cup {hand}
          /\ Distinct(Tail(jobs)) /\ hand \notin Elements(Tail(jobs))
      BY <1>1, <3>1, TailElements DEF JobsInv
    <3>3. Elements(jobs)' = Elements(Tail(jobs)) /\ Distinct(jobs)'
      BY <3>1, <3>2 DEF Elements, Distinct
    <3>4. Known' = Known /\ Over' = Over
      BY <2>1, <3>1, <3>2, <3>3 DEF Known, Over
    <3>5. Elements(jobs)' \cap (settled \cup wiped \cup unrouted)' = {}
      BY <2>1, <3>1, <3>2, <3>3 DEF JobsInv
    <3> QED
      BY <2>1, <3>3, <3>4, <3>5 DEF JobsInv
  <2>3. CASE ~linked
    BY <1>2, <1>6, <2>1, <2>3 DEF AckJob, jobVars
  <2> QED
    BY <2>2, <2>3
<1>7. CASE \E n \in Notification : Publish(n)
  <2>1. UNCHANGED <<jobVars, current, todo, handled>> /\ stranded \subseteq stranded'
    BY <1>7 DEF Publish, jobVars
  <2> QED
    BY <2>1, JobsStay DEF Over
<1>8. CASE StopManager
  <2>1. UNCHANGED <<jobVars, handled>>
    BY <1>8 DEF StopManager, jobVars
  <2>2. Pending \cup stranded \subseteq stranded'
    BY <1>8, AbandonPlaces DEF StopManager, ManagerGone
  <2>3. current = None \/ current \in Over'
    BY <2>2 DEF Pending, Over
  <2> QED
    BY <2>1, <2>2, <2>3, JobsStay DEF Over
<1>9. CASE StopBroker
  <2>1. /\ jobs' = <<>> /\ wiped' = wiped \cup Elements(jobs)
        /\ UNCHANGED <<settled, unrouted, handled>>
    BY <1>9 DEF StopBroker
  <2>2. Elements(jobs') = {} /\ Distinct(jobs')
    BY <2>1, EmptyElements
  <2>3. Elements(jobs)' = {} /\ Distinct(jobs)'
    BY <2>2 DEF Elements, Distinct
  <2>4. Known' = Known
    BY <2>1, <2>3 DEF Known
  <2>5. /\ Over \subseteq Over'
        /\ current = None \/ current \in Over' \/ UNCHANGED <<current, todo>>
    <3>1. CASE manager = "ready"
      <4>1. Pending \cup stranded \subseteq stranded'
        BY <1>9, <3>1, AbandonPlaces DEF StopBroker, Abandon
      <4> QED
        BY <2>1, <4>1 DEF Pending, Over
    <3>2. CASE manager # "ready"
      BY <1>9, <3>2 DEF StopBroker, Over
    <3> QED
      BY <3>1, <3>2
  <2>6. ASSUME NEW n \in Notification, NEW u \in Url, <<n, u>> \in Known
        PROVE  n \in Over' \/ (n = current' /\ u \notin todo')
    BY <2>5, <2>6, NoneAssumption DEF JobsInv
  <2> QED
    BY <2>3, <2>4, <2>6 DEF JobsInv
<1>10. CASE StartManager \/ ConnectDb \/ DialBroker \/ RefreshQuery \/ RefreshInstall
  BY <1>2, <1>10 DEF StartManager, ConnectDb, DialBroker, RefreshQuery, RefreshInstall, jobVars
<1>11. CASE StartSender \/ Receive \/ SubmitWebhook \/ StopSender
  BY <1>2, <1>11 DEF StartSender, Receive, SubmitWebhook, StopSender, jobVars
<1>12. CASE EditTable \/ StartBroker
  BY <1>2, <1>12 DEF EditTable, StartBroker, jobVars
<1>13. CASE UNCHANGED vars
  BY <1>2, <1>13 DEF vars, jobVars
<1> QED
  BY <1>3, <1>4, <1>5, <1>6, <1>7, <1>8, <1>9, <1>10, <1>11, <1>12, <1>13
     DEF Next, External, Broker, Manager, Sender, ConsumeNotification, DeliverJob

\* A job enters the queue once, whatever the manager and the broker do.
THEOREM NoJobTwice == Spec => []JobsOnce
<1> DEFINE I == TypeOK /\ HandInv /\ PlacesInv /\ JobsInv
<1>1. I /\ [Next]_vars => I'
  BY TypesStep, PlacesStep, JobsStep
<1>2. Init => I
  BY InitTypes, InitPlaces, InitJobs
<1>3. I => JobsOnce
  BY DistinctCardinality DEF JobsInv, JobsOnce, TypeOK, QueueTypeOK
<1> QED
  BY <1>1, <1>2, <1>3, PTL DEF Spec

-----------------------------------------------------------------------------
(* Fan-out *)

\* HandledIsFannedOut, and the same of the notification the loop is at.
FannedOutInv ==
    /\ HandledIsFannedOut
    /\ current # None => \A u \in lookup[current] : u \in todo \/ <<current, u>> \in Known

\* Every step keeps what was fanned out.
LEMMA FannedOutStep ==
    ASSUME TypeOK, HandInv, PlacesInv, JobsInv, FannedOutInv, [Next]_vars
    PROVE  FannedOutInv'
<1> USE DEF brokerVars, tableVars, cacheVars, loopVars, senderVars, fateVars, fanOutVars,
        outcomeVars, boundVars
<1>1. Known \subseteq Known'
  BY JobsStep
<1>2. HandledIsFannedOut <=> \A n \in handled : \A u \in lookup[n] : <<n, u>> \in Known
  BY DEF HandledIsFannedOut, Known
<1>3. HandledIsFannedOut' <=> \A n \in handled' : \A u \in lookup'[n] : <<n, u>> \in Known'
  BY DEF HandledIsFannedOut, Known
<1>4. CASE UNCHANGED <<handled, lookup>> /\ (UNCHANGED <<current, todo>> \/ current' = None)
  BY <1>1, <1>2, <1>3, <1>4 DEF FannedOutInv
<1>5. CASE Take
  <2> DEFINE n == Head(inbox)
  <2>1. inbox # <<>> /\ current = None /\ UNCHANGED handled
    BY <1>5 DEF Take
  <2>2. n \in Notification /\ n \notin handled
    BY <2>1, TailElements DEF TypeOK, QueueTypeOK, PlacesInv, Pending
  <2>3. CASE n \in Poison
    BY <1>4, <1>5, <2>3 DEF Take, ManagerGone
  <2>4. CASE n \notin Poison /\ cache[SlugOf[n]] = {}
    BY <1>4, <1>5, <2>4 DEF Take
  <2>5. CASE n \notin Poison /\ cache[SlugOf[n]] # {}
    <3>1. /\ current' = n /\ todo' = cache[SlugOf[n]]
          /\ lookup' = [lookup EXCEPT ![n] = cache[SlugOf[n]]]
      BY <1>5, <2>5 DEF Take
    <3>2. lookup'[n] = todo' /\ \A m \in handled : lookup'[m] = lookup[m]
      BY <2>2, <3>1 DEF TypeOK, HistoryTypeOK
    <3> QED
      BY <1>1, <1>2, <1>3, <2>1, <3>1, <3>2 DEF FannedOutInv
  <2> QED
    BY <2>3, <2>4, <2>5
<1>6. CASE \E u \in Url : PublishJob(u)
  <2>1. PICK u \in Url : PublishJob(u)
    BY <1>6
  <2>2. current # None /\ todo' = todo \ {u} /\ UNCHANGED <<current, handled, lookup>>
    BY <2>1 DEF PublishJob
  <2>3. <<current, u>> \in Known'
    <3>1. CASE bound
      <4>1. jobs' = Append(jobs, <<current, u>>) /\ <<current, u>> \in Job
        BY <2>1, <2>2, <3>1 DEF PublishJob, TypeOK, ManagerTypeOK, Job
      <4>2. <<current, u>> \in Elements(Append(jobs, <<current, u>>))
        BY <4>1, AppendElements DEF TypeOK, QueueTypeOK
      <4> QED
        BY <4>1, <4>2 DEF Known, Elements
    <3>2. CASE ~bound
      BY <2>1, <3>2 DEF PublishJob, Known
    <3> QED
      BY <3>1, <3>2
  <2> QED
    BY <1>1, <1>2, <1>3, <2>2, <2>3 DEF FannedOutInv
<1>7. CASE AckNotification
  <2>1. /\ todo = {} /\ current # None /\ current' = None
        /\ handled' = handled \cup {current} /\ UNCHANGED lookup
    BY <1>7 DEF AckNotification, FannedOut
  <2> QED
    BY <1>1, <1>2, <1>3, <2>1 DEF FannedOutInv
<1>8. CASE StopManager
  BY <1>4, <1>8 DEF StopManager, ManagerGone
<1>9. CASE StopBroker
  BY <1>4, <1>9 DEF StopBroker
<1>10. CASE StartManager \/ ConnectDb \/ DialBroker \/ RefreshQuery \/ RefreshInstall
  BY <1>4, <1>10 DEF StartManager, ConnectDb, DialBroker, RefreshQuery, RefreshInstall
<1>11. CASE StartSender \/ Receive \/ SubmitWebhook \/ AckJob \/ StopSender
  BY <1>4, <1>11 DEF StartSender, Receive, SubmitWebhook, AckJob, StopSender
<1>12. CASE EditTable \/ StartBroker \/ \E n \in Notification : Publish(n)
  BY <1>4, <1>12 DEF EditTable, StartBroker, Publish
<1>13. CASE UNCHANGED vars
  BY <1>4, <1>13 DEF vars
<1> QED
  BY <1>5, <1>6, <1>7, <1>8, <1>9, <1>10, <1>11, <1>12, <1>13
     DEF Next, External, Broker, Manager, Sender, ConsumeNotification, DeliverJob

\* An acknowledged notification has a job for every subscriber that was found.
THEOREM HandledHasItsJobs == Spec => []HandledIsFannedOut
<1> DEFINE I == TypeOK /\ HandInv /\ PlacesInv /\ JobsInv /\ FannedOutInv
<1>1. I /\ [Next]_vars => I'
  BY TypesStep, PlacesStep, JobsStep, FannedOutStep
<1>2. Init => I
  <2>1. Init => FannedOutInv
    BY DEF Init, FannedOutInv, HandledIsFannedOut
  <2> QED
    BY <2>1, InitTypes, InitPlaces, InitJobs
<1>3. I => HandledIsFannedOut
  BY DEF FannedOutInv
<1> QED
  BY <1>1, <1>2, <1>3, PTL DEF Spec

-----------------------------------------------------------------------------
(* Posts *)

\* Only jobs that were published are posted or refused; one whose post was not
\* answered yet was posted by senders that stopped, and by no other.
PostsInv ==
    /\ \A j \in Job : posts[j] > 0 \/ j \in rejected => j \in Known
    /\ hand # None => hand \in Known
    /\ sender = "answered" => posts[hand] > 0 \/ hand \in rejected
    /\ PostedOncePerSender
    /\ \A j \in Elements(jobs) : posts[j] <= senderStops \/ (j = hand /\ sender = "answered")
    /\ sender \in {"posting", "limited"} => posts[hand] <= senderStops

\* A sender that lost its connection holds a job that left the queue.
WipedHand == hand # None /\ ~linked => hand \in wiped

\* Every step keeps WipedHand.
LEMMA WipedHandStep ==
    ASSUME TypeOK, HandInv, WipedHand, [Next]_vars
    PROVE  WipedHand'
<1> USE DEF brokerVars, tableVars, cacheVars, loopVars, senderVars, fateVars, fanOutVars,
        outcomeVars, boundVars
<1>1. CASE UNCHANGED <<hand, linked, wiped>>
  BY <1>1 DEF WipedHand
<1>2. CASE StopBroker
  <2>1. wiped' = wiped \cup Elements(jobs) /\ UNCHANGED hand
    BY <1>2 DEF StopBroker
  <2>2. hand # None /\ linked => hand \in Elements(jobs)
    BY TailElements DEF HandInv, TypeOK, QueueTypeOK
  <2> QED
    BY <2>1, <2>2 DEF WipedHand
<1>3. CASE StartSender \/ Receive \/ SubmitWebhook \/ AckJob \/ StopSender
  BY <1>1, <1>3 DEF StartSender, Receive, SubmitWebhook, AckJob, StopSender, WipedHand, HandInv
<1>4. CASE StartManager \/ ConnectDb \/ DialBroker \/ RefreshQuery \/ RefreshInstall
  BY <1>1, <1>4 DEF StartManager, ConnectDb, DialBroker, RefreshQuery, RefreshInstall
<1>5. CASE Take \/ AckNotification \/ \E u \in Url : PublishJob(u)
  BY <1>1, <1>5 DEF Take, AckNotification, PublishJob
<1>6. CASE EditTable \/ StopManager \/ StartBroker \/ \E n \in Notification : Publish(n)
  BY <1>1, <1>6 DEF EditTable, StopManager, StartBroker, Publish
<1>7. CASE UNCHANGED vars
  BY <1>1, <1>7 DEF vars
<1> QED
  BY <1>2, <1>3, <1>4, <1>5, <1>6, <1>7
     DEF Next, External, Broker, Manager, Sender, ConsumeNotification, DeliverJob

\* At first nothing is posted.
LEMMA InitPosts == Init => PostsInv
<1> SUFFICES ASSUME Init PROVE PostsInv
    OBVIOUS
<1>1. Elements(jobs) = {}
  BY EmptyElements DEF Init
<1> QED
  BY <1>1 DEF Init, PostsInv, PostedOncePerSender

\* PostsInv when nothing is posted and no job enters the queue.
LEMMA PostsStay ==
    ASSUME TypeOK, PostsInv, UNCHANGED <<posts, rejected, senderStops>>, Known \subseteq Known',
           Elements(jobs)' \subseteq Elements(jobs),
           \/ UNCHANGED <<hand, sender>>
           \/ sender' = "idle" /\ hand' = None /\ hand \notin Elements(jobs)'
    PROVE  PostsInv'
<1>1. \A j \in Job : posts'[j] > 0 \/ j \in rejected' => j \in Known'
  BY DEF PostsInv
<1>2. hand' # None => hand' \in Known'
  BY DEF PostsInv
<1>3. /\ sender' = "answered" => posts'[hand'] > 0 \/ hand' \in rejected'
      /\ sender' \in {"posting", "limited"} => posts'[hand'] <= senderStops'
  BY DEF PostsInv
<1>4. PostedOncePerSender'
  BY DEF PostsInv, PostedOncePerSender
<1>5. \A j \in Elements(jobs)' : posts'[j] <= senderStops' \/ (j = hand' /\ sender' = "answered")
  BY DEF PostsInv
<1> QED
  BY <1>1, <1>2, <1>3, <1>4, <1>5 DEF PostsInv

\* Every step keeps the count.
LEMMA PostsStep ==
    ASSUME TypeOK, HandInv, PlacesInv, JobsInv, WipedHand, PostsInv, [Next]_vars
    PROVE  PostsInv'
<1> USE DEF brokerVars, tableVars, cacheVars, loopVars, senderVars, fateVars, fanOutVars,
        outcomeVars, boundVars
<1>1. Known \subseteq Known'
  BY JobsStep
<1>2. /\ jobs \in Seq(Job) /\ hand \in Job \cup {None}
      /\ posts \in [Job -> Nat] /\ rejected \subseteq Job /\ senderStops \in Nat
      /\ Elements(jobs) \subseteq Job
  BY DEF TypeOK, QueueTypeOK, SenderTypeOK, HistoryTypeOK, Elements
<1>3. CASE UNCHANGED <<jobs, posts, rejected, senderStops, hand, sender>>
  <2>1. Elements(jobs)' = Elements(jobs)
    BY <1>3 DEF Elements
  <2> QED
    BY <1>1, <1>3, <2>1, PostsStay
<1>4. CASE \E u \in Url : PublishJob(u)
  <2>1. PICK u \in Url : PublishJob(u)
    BY <1>4
  <2> DEFINE j == <<current, u>>
  <2>2. CASE ~bound
    BY <1>3, <2>1, <2>2 DEF PublishJob
  <2>3. CASE bound
    <3>1. /\ current \in Notification /\ u \in todo /\ jobs' = Append(jobs, j)
          /\ UNCHANGED <<posts, rejected, senderStops, hand, sender>>
      BY <2>1, <2>3 DEF PublishJob, TypeOK, ManagerTypeOK
    <3>2. j \in Job /\ j \notin Known
      <4>1. current \notin Over
        BY <3>1, NoneAssumption DEF PlacesInv, Pending, Over
      <4> QED
        BY <3>1, <4>1 DEF JobsInv, Job
    <3>3. Elements(jobs)' = Elements(jobs) \cup {j}
      <4>1. Elements(Append(jobs, j)) = Elements(jobs) \cup {j}
        BY <1>2, <3>2, AppendElements
      <4> QED
        BY <3>1, <4>1 DEF Elements
    <3>4. posts[j] = 0
      BY <1>2, <3>2 DEF PostsInv
    <3>5. PostedOncePerSender'
      BY <3>1 DEF PostsInv, PostedOncePerSender
    <3>6. \A k \in Elements(jobs)' : posts'[k] <= senderStops' \/ (k = hand' /\ sender' = "answered")
      <4>1. posts[j] <= senderStops
        BY <1>2, <3>4
      <4>2. ASSUME NEW k \in Elements(jobs)
            PROVE  posts[k] <= senderStops \/ (k = hand /\ sender = "answered")
        BY DEF PostsInv
      <4> QED
        BY <3>1, <3>3, <4>1, <4>2
    <3> QED
      BY <1>1, <3>1, <3>5, <3>6 DEF PostsInv
  <2> QED
    BY <2>2, <2>3
<1>5. CASE StartSender
  <2>1. hand = None /\ sender' = "idle" /\ UNCHANGED <<jobs, posts, rejected, senderStops, hand>>
    BY <1>5 DEF StartSender, HandInv
  <2>2. Elements(jobs)' = Elements(jobs) /\ None \notin Elements(jobs)
    BY <1>2, <2>1, NoneAssumption DEF Elements
  <2> QED
    BY <1>1, <2>1, <2>2, PostsStay
<1>6. CASE Receive
  <2>1. /\ sender = "idle" /\ sender' = "posting" /\ hand' = Head(jobs) /\ jobs # <<>>
        /\ UNCHANGED <<jobs, posts, rejected, senderStops>>
    BY <1>6 DEF Receive
  <2>2. Head(jobs) \in Elements(jobs) /\ Elements(jobs)' = Elements(jobs)
    BY <1>2, <2>1, TailElements DEF Elements
  <2>3. Head(jobs) \in Known /\ posts[Head(jobs)] <= senderStops
    BY <2>1, <2>2 DEF PostsInv, Known
  <2>4. PostedOncePerSender'
    BY <2>1 DEF PostsInv, PostedOncePerSender
  <2>5. \A k \in Elements(jobs)' : posts'[k] <= senderStops'
    BY <2>1, <2>2 DEF PostsInv
  <2> QED
    BY <1>1, <2>1, <2>3, <2>4, <2>5 DEF PostsInv
<1>7. CASE SubmitWebhook
  <2>1. /\ sender \in {"posting", "limited"} /\ hand \in Job /\ hand \in Known
        /\ posts[hand] <= senderStops /\ posts[hand] \in Nat
        /\ UNCHANGED <<jobs, hand, senderStops>>
    BY <1>2, <1>7 DEF SubmitWebhook, HandInv, PostsInv
  <2>2. Elements(jobs)' = Elements(jobs)
    BY <2>1 DEF Elements
  <2>3. CASE posts' = [posts EXCEPT ![hand] = @ + 1] /\ Answered /\ UNCHANGED rejected
    <3>1. /\ sender' = "answered" /\ posts'[hand] = posts[hand] + 1
          /\ \A j \in Job \ {hand} : posts'[j] = posts[j]
      BY <1>2, <2>1, <2>3 DEF Answered
    <3>2. \A j \in Job : posts'[j] > 0 \/ j \in rejected' => j \in Known'
      BY <1>1, <2>1, <2>3, <3>1 DEF PostsInv
    <3>3. PostedOncePerSender'
      <4> SUFFICES ASSUME NEW j \in Job PROVE posts'[j] <= 1 + senderStops'
        BY DEF PostedOncePerSender
      <4>1. CASE j = hand
        BY <1>2, <2>1, <3>1, <4>1
      <4>2. CASE j # hand
        BY <2>1, <3>1, <4>2 DEF PostsInv, PostedOncePerSender
      <4> QED
        BY <4>1, <4>2
    <3>4. \A j \in Elements(jobs)' : posts'[j] <= senderStops' \/ (j = hand' /\ sender' = "answered")
      BY <1>2, <2>1, <2>2, <3>1 DEF PostsInv
    <3>5. posts'[hand'] > 0 /\ hand' \in Known' /\ sender' \notin {"posting", "limited"}
      BY <1>1, <2>1, <3>1
    <3> QED
      BY <3>2, <3>3, <3>4, <3>5 DEF PostsInv
  <2>4. CASE rejected' = rejected \cup {hand} /\ Answered /\ UNCHANGED posts
    <3>1. sender' = "answered"
      BY <2>4 DEF Answered
    <3>2. \A j \in Job : posts'[j] > 0 \/ j \in rejected' => j \in Known'
      BY <1>1, <2>1, <2>4 DEF PostsInv
    <3>3. PostedOncePerSender'
      BY <2>1, <2>4 DEF PostsInv, PostedOncePerSender
    <3>4. \A j \in Elements(jobs)' : posts'[j] <= senderStops' \/ (j = hand' /\ sender' = "answered")
      BY <2>1, <2>2, <2>4, <3>1 DEF PostsInv
    <3> QED
      BY <1>1, <2>1, <2>4, <3>1, <3>2, <3>3, <3>4 DEF PostsInv
  <2>5. CASE WaitsRetryAfter /\ UNCHANGED <<posts, rejected>>
    <3>1. sender' = "limited"
      BY <2>5 DEF WaitsRetryAfter
    <3>2. PostedOncePerSender'
      BY <2>1, <2>5 DEF PostsInv, PostedOncePerSender
    <3>3. \A j \in Elements(jobs)' : posts'[j] <= senderStops'
      BY <2>1, <2>2, <2>5 DEF PostsInv
    <3> QED
      BY <1>1, <2>1, <2>5, <3>1, <3>2, <3>3 DEF PostsInv
  <2> QED
    BY <1>7, <2>3, <2>4, <2>5 DEF SubmitWebhook
<1>8. CASE AckJob
  <2>1. /\ hand # None /\ sender = "answered" /\ sender' = "idle" /\ hand' = None
        /\ UNCHANGED <<posts, rejected, senderStops>>
    BY <1>8 DEF AckJob, HandInv
  <2>2. CASE linked
    <3>1. jobs # <<>> /\ hand = Head(jobs) /\ jobs' = Tail(jobs)
      BY <1>8, <2>1, <2>2 DEF AckJob, Acknowledge, HandInv
    <3>2. /\ Elements(jobs) = Elements(Tail(jobs)) \cup {hand} /\ hand \notin Elements(Tail(jobs))
      BY <1>2, <3>1, TailElements DEF JobsInv
    <3>3. Elements(jobs)' = Elements(Tail(jobs))
      BY <3>1 DEF Elements
    <3> QED
      BY <1>1, <2>1, <3>2, <3>3, PostsStay
  <2>3. CASE ~linked
    <3>1. UNCHANGED jobs
      BY <1>8, <2>3 DEF AckJob
    <3>2. Elements(jobs)' = Elements(jobs)
      BY <3>1 DEF Elements
    <3>3. hand \notin Elements(jobs)
      BY <2>1, <2>3 DEF WipedHand, JobsInv
    <3> QED
      BY <1>1, <2>1, <3>2, <3>3, PostsStay
  <2> QED
    BY <2>2, <2>3
<1>9. CASE StopSender
  <2>1. /\ sender' = "down" /\ hand' = None /\ senderStops' = senderStops + 1
        /\ UNCHANGED <<jobs, posts, rejected>>
    BY <1>9 DEF StopSender
  <2>2. \A j \in Job : posts'[j] <= senderStops'
    BY <1>2, <2>1 DEF PostsInv, PostedOncePerSender
  <2>3. PostedOncePerSender'
    BY <1>2, <2>1, <2>2 DEF PostedOncePerSender
  <2>4. \A j \in Elements(jobs)' : posts'[j] <= senderStops'
    BY <1>2, <2>1, <2>2 DEF Elements
  <2> QED
    BY <1>1, <2>1, <2>3, <2>4 DEF PostsInv
<1>10. CASE StopBroker
  <2>1. jobs' = <<>> /\ UNCHANGED <<posts, rejected, senderStops, hand, sender>>
    BY <1>10 DEF StopBroker
  <2>2. Elements(jobs)' = {}
    BY <2>1, EmptyElements DEF Elements
  <2> QED
    BY <1>1, <2>1, <2>2, PostsStay
<1>11. CASE StartManager \/ ConnectDb \/ DialBroker \/ RefreshQuery \/ RefreshInstall
  BY <1>3, <1>11 DEF StartManager, ConnectDb, DialBroker, RefreshQuery, RefreshInstall
<1>12. CASE Take \/ AckNotification
  BY <1>3, <1>12 DEF Take, AckNotification
<1>13. CASE EditTable \/ StopManager \/ StartBroker \/ \E n \in Notification : Publish(n)
  BY <1>3, <1>13 DEF EditTable, StopManager, StartBroker, Publish
<1>14. CASE UNCHANGED vars
  BY <1>3, <1>14 DEF vars
<1> QED
  BY <1>4, <1>5, <1>6, <1>7, <1>8, <1>9, <1>10, <1>11, <1>12, <1>13, <1>14
     DEF Next, External, Broker, Manager, Sender, ConsumeNotification, DeliverJob

\* What the later theorems about the sender rest on.
DeliveryInv == TypeOK /\ HandInv /\ PlacesInv /\ JobsInv /\ WipedHand /\ PostsInv

\* DeliveryInv is inductive.
LEMMA DeliveryInvariant == Spec => []DeliveryInv
<1>1. Init => DeliveryInv
  <2>1. Init => WipedHand
    BY DEF Init, WipedHand
  <2> QED
    BY <2>1, InitTypes, InitPlaces, InitJobs, InitPosts DEF DeliveryInv
<1>2. DeliveryInv /\ [Next]_vars => DeliveryInv'
  BY TypesStep, PlacesStep, JobsStep, WipedHandStep, PostsStep DEF DeliveryInv
<1> QED
  BY <1>1, <1>2, PTL DEF Spec

\* A webhook is posted again only after a stop of the sender.
THEOREM PostedOnce == Spec => []PostedOncePerSender
<1>1. DeliveryInv => PostedOncePerSender
  BY DEF DeliveryInv, PostsInv
<1> QED
  BY <1>1, DeliveryInvariant, PTL

-----------------------------------------------------------------------------
(* The sender side implements WebhookDelivery *)

\* At first there is nothing to deliver.
LEMMA DeliveryInit == Init => Delivery!Init
<1> SUFFICES ASSUME Init PROVE Delivery!Init
    OBVIOUS
<1>1. Detached = <<>> /\ jobs = <<>>
  BY DEF Init, Detached
<1>2. Detached \o jobs = <<>>
  BY <1>1
<1> QED
  BY <1>2 DEF Init, Delivery!Init

\* What the refinement takes for outstanding webhooks.
Outstanding == Detached \o jobs

\* Outstanding is the queue, with the job of a lost connection in front.
LEMMA OutstandingIs ==
    ASSUME TypeOK
    PROVE  /\ jobs \in Seq(Job)
           /\ hand = None \/ linked => Outstanding = jobs
           /\ hand # None /\ ~linked =>
                 /\ Outstanding = <<hand>> \o jobs /\ Outstanding # <<>>
                 /\ Head(Outstanding) = hand /\ Tail(Outstanding) = jobs
<1>1. jobs \in Seq(Job) /\ hand \in Job \cup {None}
  BY DEF TypeOK, QueueTypeOK, SenderTypeOK
<1>2. CASE hand = None \/ linked
  <2>1. Outstanding = <<>> \o jobs
    BY <1>2 DEF Outstanding, Detached
  <2>2. <<>> \o jobs = jobs
    BY <1>1
  <2> QED
    BY <1>1, <1>2, <2>1, <2>2
<1>3. CASE hand # None /\ ~linked
  <2>1. Outstanding = <<hand>> \o jobs
    BY <1>3 DEF Outstanding, Detached
  <2> QED
    BY <1>1, <1>3, <2>1, ConsElements
<1> QED
  BY <1>2, <1>3

\* Every step is a step of WebhookDelivery, or one that it does not see.
LEMMA DeliveryStep ==
    ASSUME DeliveryInv, DeliveryInv', [Next]_vars
    PROVE  [Delivery!Next]_(Delivery!dvars)
<1> USE DEF brokerVars, tableVars, cacheVars, loopVars, senderVars, fateVars, fanOutVars,
        outcomeVars, boundVars
<1>1. TypeOK /\ HandInv /\ TypeOK' /\ HandInv'
  BY DEF DeliveryInv
<1>2. /\ jobs \in Seq(Job)
      /\ hand = None \/ linked => Outstanding = jobs
      /\ hand # None /\ ~linked =>
            /\ Outstanding = <<hand>> \o jobs /\ Outstanding # <<>>
            /\ Head(Outstanding) = hand /\ Tail(Outstanding) = jobs
  BY <1>1, OutstandingIs
<1>3. /\ hand' = None \/ linked' => Outstanding' = jobs'
      /\ hand' # None /\ ~linked' => Outstanding' = <<hand'>> \o jobs'
  <2>1. jobs' \in Seq(Job)
    BY <1>1 DEF TypeOK, QueueTypeOK
  <2>2. <<>> \o jobs' = jobs'
    BY <2>1
  <2> QED
    BY <2>2 DEF Outstanding, Detached
<1>4. /\ posts \in [Job -> Nat]
      /\ hand # None => hand \in Job
      /\ hand # None /\ linked => jobs # <<>> /\ Head(jobs) = hand
  BY <1>1 DEF TypeOK, SenderTypeOK, HistoryTypeOK, HandInv
<1>5. CASE UNCHANGED <<Outstanding, posts, rejected, settled>>
  BY <1>5 DEF Delivery!dvars, Outstanding
<1>6. CASE UNCHANGED <<jobs, hand, linked, posts, rejected, settled>>
  <2>1. UNCHANGED Outstanding
    BY <1>6 DEF Outstanding, Detached
  <2> QED
    BY <1>5, <1>6, <2>1
<1>7. CASE \E u \in Url : PublishJob(u)
  <2>1. PICK u \in Url : PublishJob(u)
    BY <1>7
  <2> DEFINE j == <<current, u>>
  <2>2. CASE ~bound
    BY <1>6, <2>1, <2>2 DEF PublishJob
  <2>3. CASE bound
    <3>1. /\ current \in Notification /\ u \in todo /\ jobs' = Append(jobs, j)
          /\ UNCHANGED <<hand, linked, posts, rejected, settled>>
      BY <1>1, <2>1, <2>3 DEF PublishJob, TypeOK, ManagerTypeOK
    <3>2. j \in Job /\ j \notin Known
      <4>1. current \notin Over
        BY <3>1, NoneAssumption DEF DeliveryInv, PlacesInv, Pending, Over
      <4> QED
        BY <3>1, <4>1 DEF DeliveryInv, JobsInv, Job
    <3>3. posts[j] = 0 /\ j \notin rejected
      BY <1>4, <3>2 DEF DeliveryInv, PostsInv
    <3>4. Outstanding' = Append(Outstanding, j)
      <4>1. CASE hand = None \/ linked
        BY <1>2, <1>3, <3>1, <4>1
      <4>2. CASE hand # None /\ ~linked
        <5>1. <<hand>> \o Append(jobs, j) = Append(<<hand>> \o jobs, j)
          BY <1>2, <1>4, <3>2, <4>2
        <5> QED
          BY <1>2, <1>3, <3>1, <4>2, <5>1
      <4> QED
        BY <4>1, <4>2
    <3>5. \A i \in DOMAIN Outstanding : Outstanding[i] # j
      <4>1. \A i \in DOMAIN jobs : jobs[i] # j
        BY <1>2, <3>2 DEF Known, Elements
      <4>2. CASE hand = None \/ linked
        BY <1>2, <4>1, <4>2
      <4>3. CASE hand # None /\ ~linked
        <5>1. hand # j
          BY <3>2, <4>3 DEF DeliveryInv, WipedHand, Known
        <5>2. Elements(Outstanding) = {hand} \cup Elements(jobs)
          BY <1>2, <1>4, <4>3, ConsElements
        <5>3. j \notin Elements(Outstanding)
          BY <3>2, <5>1, <5>2 DEF Known
        <5>4. Outstanding \in Seq(Job)
          <6>1. hand \in Job /\ jobs \in Seq(Job)
            BY <1>2, <1>4, <4>3
          <6>2. <<hand>> \o jobs \in Seq(Job)
            BY <6>1
          <6> QED
            BY <1>2, <4>3, <6>2
        <5> QED
          BY <5>3, <5>4 DEF Elements
      <4> QED
        BY <4>2, <4>3
    <3>6. Delivery!Accept(j)
      BY <3>1, <3>3, <3>4, <3>5 DEF Delivery!Accept, Outstanding
    <3> QED
      BY <3>2, <3>6 DEF Delivery!Next
  <2> QED
    BY <2>2, <2>3
<1>8. CASE StartSender
  <2>1. hand = None /\ UNCHANGED <<jobs, hand, posts, rejected, settled>>
    BY <1>1, <1>8 DEF StartSender, HandInv
  <2> QED
    BY <1>2, <1>3, <1>5, <2>1
<1>9. CASE Receive
  <2>1. linked /\ UNCHANGED <<jobs, linked, posts, rejected, settled>>
    BY <1>9 DEF Receive
  <2> QED
    BY <1>2, <1>3, <1>5, <2>1
<1>10. CASE SubmitWebhook
  <2>1. /\ hand # None /\ UNCHANGED <<jobs, hand, linked, settled>>
    BY <1>1, <1>10 DEF SubmitWebhook, HandInv
  <2>2. Outstanding # <<>> /\ Head(Outstanding) = hand /\ UNCHANGED Outstanding
    BY <1>2, <1>4, <2>1 DEF Outstanding, Detached
  <2>3. CASE posts' = [posts EXCEPT ![hand] = @ + 1] /\ UNCHANGED rejected
    <3>1. Delivery!Post(hand)
      BY <2>1, <2>2, <2>3 DEF Delivery!Post, Outstanding
    <3> QED
      BY <1>4, <2>1, <3>1 DEF Delivery!Next
  <2>4. CASE rejected' = rejected \cup {hand} /\ UNCHANGED posts
    <3>1. Delivery!Post(hand)
      BY <2>1, <2>2, <2>4 DEF Delivery!Post, Outstanding
    <3> QED
      BY <1>4, <2>1, <3>1 DEF Delivery!Next
  <2>5. CASE UNCHANGED <<posts, rejected>>
    BY <1>6, <2>1, <2>5
  <2> QED
    BY <1>10, <2>3, <2>4, <2>5 DEF SubmitWebhook
<1>11. CASE AckJob
  <2>1. hand # None /\ sender = "answered" /\ hand' = None /\ UNCHANGED <<posts, rejected>>
    BY <1>1, <1>11 DEF AckJob, HandInv
  <2>2. posts[hand] > 0 \/ hand \in rejected
    BY <2>1 DEF DeliveryInv, PostsInv
  <2>3. CASE linked
    <3>1. jobs' = Tail(jobs) /\ settled' = settled \cup {hand}
      BY <1>11, <2>3 DEF AckJob, Acknowledge
    <3>2. Outstanding = jobs /\ Outstanding' = jobs'
      BY <1>2, <1>3, <2>1, <2>3
    <3>3. Delivery!Settle
      BY <1>4, <2>1, <2>2, <2>3, <3>1, <3>2 DEF Delivery!Settle, Outstanding
    <3> QED
      BY <3>3 DEF Delivery!Next
  <2>4. CASE ~linked
    <3>1. UNCHANGED <<jobs, settled>>
      BY <1>11, <2>4 DEF AckJob
    <3>2. Outstanding # <<>> /\ Outstanding' = Tail(Outstanding)
      BY <1>2, <1>3, <2>1, <2>4, <3>1
    <3>3. Delivery!Forget
      BY <2>1, <3>1, <3>2 DEF Delivery!Forget, Outstanding
    <3> QED
      BY <3>3 DEF Delivery!Next
  <2> QED
    BY <2>3, <2>4
<1>12. CASE StopSender
  <2>1. hand' = None /\ UNCHANGED <<jobs, posts, rejected, settled>>
    BY <1>12 DEF StopSender
  <2>2. CASE hand = None \/ linked
    BY <1>2, <1>3, <1>5, <2>1, <2>2
  <2>3. CASE hand # None /\ ~linked
    <3>1. Outstanding # <<>> /\ Outstanding' = Tail(Outstanding)
      BY <1>2, <1>3, <2>1, <2>3
    <3>2. Delivery!Forget
      BY <2>1, <3>1 DEF Delivery!Forget, Outstanding
    <3> QED
      BY <3>2 DEF Delivery!Next
  <2> QED
    BY <2>2, <2>3
<1>13. CASE StopBroker
  <2>1. jobs' = <<>> /\ linked' = FALSE /\ UNCHANGED <<hand, posts, rejected, settled>>
    BY <1>13 DEF StopBroker
  <2>2. CASE hand = None
    <3>1. Outstanding = jobs /\ Outstanding' = <<>>
      BY <1>2, <1>3, <2>1, <2>2
    <3>2. CASE jobs = <<>>
      BY <1>5, <2>1, <3>1, <3>2
    <3>3. CASE jobs # <<>>
      <4>1. Delivery!Forget
        BY <2>1, <3>1, <3>3 DEF Delivery!Forget, Outstanding
      <4> QED
        BY <4>1 DEF Delivery!Next
    <3> QED
      BY <3>2, <3>3
  <2>3. CASE hand # None
    <3>1. Outstanding # <<>> /\ Head(Outstanding) = hand
      BY <1>2, <1>4, <2>3
    <3>2. Outstanding' = <<hand>>
      BY <1>3, <1>4, <2>1, <2>3
    <3>3. Delivery!Forget
      BY <2>1, <3>1, <3>2 DEF Delivery!Forget, Outstanding
    <3> QED
      BY <3>3 DEF Delivery!Next
  <2> QED
    BY <2>2, <2>3
<1>14. CASE StartManager \/ ConnectDb \/ DialBroker \/ RefreshQuery \/ RefreshInstall
  BY <1>6, <1>14 DEF StartManager, ConnectDb, DialBroker, RefreshQuery, RefreshInstall
<1>15. CASE Take \/ AckNotification
  BY <1>6, <1>15 DEF Take, AckNotification
<1>16. CASE EditTable \/ StopManager \/ StartBroker \/ \E n \in Notification : Publish(n)
  BY <1>6, <1>16 DEF EditTable, StopManager, StartBroker, Publish
<1>17. CASE UNCHANGED vars
  BY <1>6, <1>17 DEF vars
<1> QED
  BY <1>7, <1>8, <1>9, <1>10, <1>11, <1>12, <1>13, <1>14, <1>15, <1>16, <1>17
     DEF Next, External, Broker, Manager, Sender, ConsumeNotification, DeliverJob

\* The queue, the sender and its restarts promise what WebhookDelivery says.
THEOREM DeliveryIsImplemented == Spec => ImplementsDelivery
<1>1. DeliveryInv /\ DeliveryInv' /\ [Next]_vars => [Delivery!Next]_(Delivery!dvars)
  BY DeliveryStep
<1> QED
  BY <1>1, DeliveryInit, DeliveryInvariant, PTL DEF Spec, ImplementsDelivery, Delivery!Spec

-----------------------------------------------------------------------------
(* Settings *)

\* The cache and what a refresh has read come from one content of the table each.
SettingsInv ==
    /\ subscriptions \in versions
    /\ fetched = {} \/ \E v \in versions : fetched \subseteq v
    /\ \E v \in versions : \A s \in Slug : cache[s] \subseteq UrlsOf(v, s)
    /\ NoMixedSettings

\* Every step keeps SettingsInv.
LEMMA SettingsStep ==
    ASSUME TypeOK, SettingsInv, [Next]_vars
    PROVE  SettingsInv'
<1> USE DEF brokerVars, tableVars, cacheVars, loopVars, senderVars, fateVars, fanOutVars,
        outcomeVars, boundVars
<1>1. CASE UNCHANGED <<subscriptions, versions, fetched, cache, lookup>>
  BY <1>1 DEF SettingsInv, NoMixedSettings, UrlsOf
<1>2. CASE ManagerGone /\ UNCHANGED <<subscriptions, versions, lookup>>
  <2>1. cache' = [s \in Slug |-> {}] /\ fetched' = {}
    BY <1>2 DEF ManagerGone
  <2>2. \E v \in versions' : \A s \in Slug : cache'[s] \subseteq UrlsOf(v, s)
    BY <1>2, <2>1 DEF SettingsInv
  <2>3. NoMixedSettings'
    BY <1>2 DEF SettingsInv, NoMixedSettings, UrlsOf
  <2> QED
    BY <1>2, <2>1, <2>2, <2>3 DEF SettingsInv
<1>3. CASE RefreshQuery
  <2>1. fetched' \subseteq subscriptions /\ UNCHANGED <<subscriptions, versions, cache, lookup>>
    BY <1>3 DEF RefreshQuery
  <2>2. NoMixedSettings'
    BY <2>1 DEF SettingsInv, NoMixedSettings, UrlsOf
  <2> QED
    BY <2>1, <2>2 DEF SettingsInv
<1>4. CASE RefreshInstall
  <2>1. /\ cache' = [s \in Slug |-> UrlsOf(fetched, s)] /\ fetched' = {}
        /\ UNCHANGED <<subscriptions, versions, lookup>>
    BY <1>4 DEF RefreshInstall, Install
  <2>2. PICK v \in versions : fetched \subseteq v
    BY DEF SettingsInv
  <2>3. \A s \in Slug : cache'[s] \subseteq UrlsOf(v, s)
    BY <2>1, <2>2 DEF UrlsOf
  <2>4. NoMixedSettings'
    BY <2>1 DEF SettingsInv, NoMixedSettings, UrlsOf
  <2> QED
    BY <2>1, <2>2, <2>3, <2>4 DEF SettingsInv
<1>5. CASE Take
  <2> DEFINE n == Head(inbox)
  <2>1. n \in Notification
    BY <1>5, TailElements DEF Take, TypeOK, QueueTypeOK
  <2>2. CASE n \in Poison
    BY <1>2, <1>5, <2>2 DEF Take
  <2>3. CASE n \notin Poison /\ cache[SlugOf[n]] = {}
    BY <1>1, <1>5, <2>3 DEF Take
  <2>4. CASE n \notin Poison /\ cache[SlugOf[n]] # {}
    <3>1. /\ lookup' = [lookup EXCEPT ![n] = cache[SlugOf[n]]]
          /\ UNCHANGED <<subscriptions, versions, fetched, cache>>
      BY <1>5, <2>4 DEF Take
    <3>2. PICK v \in versions : cache[SlugOf[n]] \subseteq UrlsOf(v, SlugOf[n])
      BY <2>1, SlugAssumption DEF SettingsInv
    <3>3. NoMixedSettings'
      <4> SUFFICES ASSUME NEW m \in Notification
                   PROVE  \E w \in versions' : lookup'[m] \subseteq UrlsOf(w, SlugOf[m])
        BY DEF NoMixedSettings, UrlsOf
      <4>1. CASE m = n
        BY <2>1, <3>1, <3>2, <4>1 DEF TypeOK, HistoryTypeOK
      <4>2. CASE m # n
        BY <2>1, <3>1, <4>2 DEF TypeOK, HistoryTypeOK, SettingsInv, NoMixedSettings
      <4> QED
        BY <4>1, <4>2
    <3> QED
      BY <3>1, <3>3 DEF SettingsInv
  <2> QED
    BY <2>2, <2>3, <2>4
<1>6. CASE EditTable
  <2>1. versions' = versions \cup {subscriptions'} /\ UNCHANGED <<fetched, cache, lookup>>
    BY <1>6 DEF EditTable
  <2>2. NoMixedSettings'
    BY <2>1 DEF SettingsInv, NoMixedSettings, UrlsOf
  <2> QED
    BY <2>1, <2>2 DEF SettingsInv
<1>7. CASE StopManager
  BY <1>2, <1>7 DEF StopManager
<1>8. CASE StartManager \/ ConnectDb \/ DialBroker \/ AckNotification
  BY <1>1, <1>8 DEF StartManager, ConnectDb, DialBroker, AckNotification
<1>9. CASE \E u \in Url : PublishJob(u)
  BY <1>1, <1>9 DEF PublishJob
<1>10. CASE StartSender \/ Receive \/ SubmitWebhook \/ AckJob \/ StopSender
  BY <1>1, <1>10 DEF StartSender, Receive, SubmitWebhook, AckJob, StopSender
<1>11. CASE StartBroker \/ StopBroker \/ \E n \in Notification : Publish(n)
  BY <1>1, <1>11 DEF StartBroker, StopBroker, Publish
<1>12. CASE UNCHANGED vars
  BY <1>1, <1>12 DEF vars
<1> QED
  BY <1>3, <1>4, <1>5, <1>6, <1>7, <1>8, <1>9, <1>10, <1>11, <1>12
     DEF Next, External, Broker, Manager, Sender, ConsumeNotification, DeliverJob

\* No notification goes to a mixture of two contents of the table.
THEOREM SettingsAreNeverMixed == Spec => []NoMixedSettings
<1>1. Init => TypeOK /\ HandInv /\ SettingsInv
  <2>1. Init => SettingsInv
    BY DEF Init, SettingsInv, NoMixedSettings
  <2> QED
    BY <2>1, InitTypes
<1>2. TypeOK /\ HandInv /\ SettingsInv /\ [Next]_vars => (TypeOK /\ HandInv /\ SettingsInv)'
  BY TypesStep, SettingsStep
<1>3. SettingsInv => NoMixedSettings
  BY DEF SettingsInv
<1> QED
  BY <1>1, <1>2, <1>3, PTL DEF Spec
=============================================================================
