-------------------------- MODULE AdminConsoleProofs --------------------------
(***************************************************************************)
(* Proofs about AdminConsole, for any servers, images, slots and bounds:   *)
(* the types, that no indicator stays on, that requests start the action   *)
(* that was meant, that a blocked window waits for an operation, and that  *)
(* the list an image removal ends with is one made after it.               *)
(***************************************************************************)
EXTENDS AdminConsole, ApiClientProofs

ApiTypeOK ==
    /\ servers \in [Server -> ServerInstance]
    /\ images \subseteq ids /\ ids \subseteq Image

OpsTypeOK == ops \in [Slot -> Op \cup {Absent}]

ViewTypeOK ==
    /\ shownServers \in InstanceList /\ shownImages \subseteq Image
    /\ lists \subseteq InstanceList \cup {Absent}
    /\ dialog \in Dialog \cup {Absent}
    /\ loading \subseteq Tracker
    /\ page \in Page

CountTypeOK == events \in 0..MaxEvents /\ faults \in 0..MaxFaults

\* The groups are all of the types.
LEMMA Groups == TypeOK <=> ApiTypeOK /\ OpsTypeOK /\ ViewTypeOK /\ CountTypeOK
  BY DEF TypeOK, ApiTypeOK, OpsTypeOK, ViewTypeOK, CountTypeOK

\* And so after a step.
LEMMA GroupsNext == TypeOK' <=> ApiTypeOK' /\ OpsTypeOK' /\ ViewTypeOK' /\ CountTypeOK'
  BY DEF TypeOK, ApiTypeOK, OpsTypeOK, ViewTypeOK, CountTypeOK

\* Slots free and taken.
LEMMA SlotOps == OpsTypeOK => \A s \in Slot : InUse(s) => ops[s] \in Op
  BY DEF OpsTypeOK, InUse

-----------------------------------------------------------------------------
(* What clicks ask for *)

\* Intents name servers and images there are, or none.
LEMMA AskedType ==
    ASSUME NEW kind \in Kind, NEW server \in Server \cup {Absent}, NEW image \in Image \cup {Absent}
    PROVE  Asked(kind, server, image) \in Intent
  BY ProviderOfAssumption DEF Asked, Intent

\* An operation starts with its first call.
LEMMA ExecuteType ==
    ASSUME OpsTypeOK, loading \subseteq Tracker, NEW intent \in Intent,
           NEW tracker \in Tracker \cup {Absent}, NEW modal \in BOOLEAN,
           Execute(intent, tracker, modal)
    PROVE  OpsTypeOK' /\ loading' \subseteq Tracker
<1>1. [intent |-> intent, step |-> "operation", answer |-> "none",
       list |-> {}, tracker |-> tracker, modal |-> modal] \in Op
  BY DEF Op
<1>2. loading' \subseteq Tracker
  BY DEF Execute
<1> QED
  BY <1>1, <1>2 DEF Execute, OpsTypeOK

\* A window opens.
LEMMA OpenType ==
    ASSUME NEW intent \in Intent, NEW tracker \in Tracker, Open(intent, tracker)
    PROVE  dialog' \in Dialog
  BY DEF Open, Dialog

\* The last step of an operation.
LEMMA FinishType ==
    ASSUME OpsTypeOK, loading \subseteq Tracker, NEW s \in Slot, Finish(s)
    PROVE  OpsTypeOK' /\ loading' \subseteq Tracker
  BY DEF Finish, OpsTypeOK


\* A window with an operation is there and busy, and has one operation only.
Modal(s) == InUse(s) /\ ops[s].modal

ModalInv ==
    /\ \A s \in Slot : Modal(s) => dialog # Absent /\ dialog.busy
    /\ \A s, t \in Slot : Modal(s) /\ Modal(t) => s = t

\* The window's last step.
LEMMA CloseDialogType ==
    ASSUME dialog \in Dialog \cup {Absent}, ModalInv, NEW s \in Slot, InUse(s),
           NEW b \in BOOLEAN, CloseDialog(s, b)
    PROVE  dialog' \in Dialog \cup {Absent}
<1>1. CASE dialog # Absent
  BY <1>1 DEF CloseDialog, Dialog
<1>2. CASE dialog = Absent
  BY <1>2 DEF CloseDialog, ModalInv, Modal
<1> QED
  BY <1>1, <1>2

\* Trackers of what is gone.
LEMMA DisposedType ==
    ASSUME OpsTypeOK, NEW trackers
    PROVE  /\ Disposed(trackers) \in [Slot -> Op \cup {Absent}]
           /\ \A s \in Slot : /\ Disposed(trackers)[s] = Absent <=> ops[s] = Absent
                              /\ InUse(s) => /\ Disposed(trackers)[s].intent = ops[s].intent
                                             /\ Disposed(trackers)[s].step = ops[s].step
                                             /\ Disposed(trackers)[s].answer = ops[s].answer
                                             /\ Disposed(trackers)[s].list = ops[s].list
                                             /\ Disposed(trackers)[s].modal = ops[s].modal
                                             /\ Disposed(trackers)[s].tracker =
                                                  IF ops[s].tracker \in trackers THEN Absent
                                                  ELSE ops[s].tracker
<1> DEFINE after(s) == IF InUse(s) /\ ops[s].tracker \in trackers
                       THEN [ops[s] EXCEPT !.tracker = Absent] ELSE ops[s]
<1>1. ASSUME NEW s \in Slot, InUse(s)
      PROVE  /\ after(s) \in Op
             /\ after(s).intent = ops[s].intent /\ after(s).step = ops[s].step
             /\ after(s).answer = ops[s].answer /\ after(s).list = ops[s].list
             /\ after(s).modal = ops[s].modal
             /\ after(s).tracker = IF ops[s].tracker \in trackers THEN Absent ELSE ops[s].tracker
  <2>1. ops[s] \in Op
    BY <1>1, SlotOps
  <2> QED
    BY <1>1, <2>1 DEF Op
<1>2. ASSUME NEW s \in Slot, ~InUse(s)
      PROVE  after(s) = Absent
  BY <1>2 DEF InUse
<1>3. \A s \in Slot : Disposed(trackers)[s] = after(s)
  BY DEF Disposed
<1>4. \A s \in Slot : after(s) \in Op \cup {Absent}
  BY <1>1, <1>2
<1>5. Disposed(trackers) \in [Slot -> Op \cup {Absent}]
  BY <1>4 DEF Disposed
<1> HIDE DEF after
<1> QED
  BY <1>1, <1>2, <1>3, <1>5, NoRecordAssumption DEF InUse

-----------------------------------------------------------------------------
(* Types *)

\* The types hold at first.
LEMMA InitType == Init => TypeOK
<1> SUFFICES ASSUME Init
             PROVE  TypeOK
  OBVIOUS
<1>1. ApiTypeOK
  <2>1. \A status \in ServerInstanceStatus : [Gone EXCEPT !.status = status] \in ServerInstance
    BY DEF Gone, ServerInstance
  <2>2. Gone \in ServerInstance
    BY DEF Gone, ServerInstance, ServerInstanceStatus
  <2> QED
    BY <2>1, <2>2 DEF Init, ApiTypeOK, ServerInstanceStatus
<1>2. OpsTypeOK
  <2>1. Asked("load", Absent, Absent) \in Intent
    BY AskedType DEF Kind
  <2>2. Load \in Op
    BY <2>1 DEF Load, Op
  <2> QED
    BY <2>2 DEF Init, OpsTypeOK
<1>3. ViewTypeOK
  <2>1. Gone \in ServerInstance
    BY DEF Gone, ServerInstance, ServerInstanceStatus
  <2> QED
    BY <2>1 DEF Init, ViewTypeOK, InstanceList, Page
<1>4. CountTypeOK
  BY BoundsAssumption DEF Init, CountTypeOK
<1> QED
  BY <1>1, <1>2, <1>3, <1>4, Groups
\* Nodes as the handlers make them.
LEMMA NodeTypes ==
    /\ Gone \in ServerInstance
    /\ \A status \in ServerInstanceStatus : [Gone EXCEPT !.status = status] \in ServerInstance
    /\ \A node \in ServerInstance, i \in Image \cup {Absent} :
          [node EXCEPT !.image = i] \in ServerInstance
  BY DEF Gone, ServerInstance, ServerInstanceStatus

\* A server changes.
LEMMA SetServerType ==
    ASSUME ApiTypeOK, NEW s, NEW node \in ServerInstance, SetServer(s, node)
    PROVE  ApiTypeOK'
  BY DEF SetServer, ApiTypeOK

\* Whatever the API does.
LEMMA HandleType ==
    ASSUME ApiTypeOK, NEW call, Handle(call)
    PROVE  ApiTypeOK'
<1>1. CASE Stop(call)
  BY <1>1, NodeTypes, SetServerType DEF Stop, ServerInstanceStatus
<1>2. CASE Terminate(call)
  BY <1>2, NodeTypes, SetServerType DEF Terminate
<1>3. CASE ShutdownContainer(call)
  <2>1. CASE UNCHANGED api
    BY <2>1 DEF api, ApiTypeOK
  <2>2. CASE SetServer(Arg(call, "serverId"), [Gone EXCEPT !.status = "Running"])
    BY <2>2, NodeTypes, SetServerType DEF ServerInstanceStatus
  <2> QED
    BY <1>3, <2>1, <2>2 DEF ShutdownContainer
<1>4. CASE StartOrRun(call)
  BY <1>4, NodeTypes, SetServerType DEF StartOrRun, ServerInstanceStatus
<1>5. CASE Spawn(call)
  <2>1. PICK s \in Server : SetServer(s, [servers[s] EXCEPT !.image = call.cmd.imageId])
    BY <1>5 DEF Spawn
  <2>2. servers[s] \in ServerInstance /\ call.cmd.imageId \in Image
    BY <1>5 DEF Spawn, ApiTypeOK
  <2>3. [servers[s] EXCEPT !.image = call.cmd.imageId] \in ServerInstance
    BY <2>2, NodeTypes
  <2> QED
    BY <2>1, <2>3, SetServerType
<1>6. CASE Create(call)
  BY <1>6 DEF Create, ApiTypeOK
<1>7. CASE Remove(call)
  <2>1. \A s \in Server : [servers[s] EXCEPT !.image = Absent] \in ServerInstance
    BY NodeTypes DEF ApiTypeOK
  <2> QED
    BY <1>7, <2>1 DEF Remove, ApiTypeOK
<1> QED
  BY <1>1, <1>2, <1>3, <1>4, <1>5, <1>6, <1>7 DEF Handle

\* Clicks.
LEMMA ClickType == CountTypeOK /\ Click => CountTypeOK'
  BY BoundsAssumption DEF CountTypeOK, Click

\* The rows' operations.
LEMMA OfServerType ==
    ASSUME TypeOK, NEW s \in Server, OfServer(s)
    PROVE  TypeOK'
<1> USE Groups, GroupsNext
<1>1. CASE StartServer(s)
  <2>1. Asked("start", s, Absent) \in Intent
    BY AskedType DEF Kind
  <2>2. OpsTypeOK' /\ loading' \subseteq Tracker
    BY <1>1, <2>1, ExecuteType DEF StartServer, ViewTypeOK, Tracker
  <2>3. ApiTypeOK' /\ CountTypeOK' /\ ViewTypeOK'
    BY <1>1, <2>2, ClickType
    DEF StartServer, Click, ApiTypeOK, ViewTypeOK, api, shown
  <2> QED
    BY <2>2, <2>3
<1>2. CASE StopServer(s) \/ TerminateServer(s) \/ Shutdown(s)
  <2>1. PICK intent \in Intent : Open(intent, s)
    <3>1. CASE StopServer(s)
      BY <3>1, AskedType DEF StopServer, Kind
    <3>2. CASE TerminateServer(s)
      BY <3>2, AskedType DEF TerminateServer, Kind
    <3>3. CASE Shutdown(s)
      <4>1. shownServers[s].image \in Image \cup {Absent}
        BY DEF ViewTypeOK, InstanceList, ServerInstance
      <4> QED
        BY <3>3, <4>1, AskedType DEF Shutdown, Kind
    <3> QED
      BY <1>2, <3>1, <3>2, <3>3
  <2>2. dialog' \in Dialog
    BY <2>1, OpenType DEF Tracker
  <2> QED
    BY <2>1, <2>2, ClickType
    DEF Open, Click, ApiTypeOK, OpsTypeOK, ViewTypeOK, api, shown
<1> QED
  BY <1>1, <1>2 DEF OfServer

\* The page of the images.
LEMMA OfImageType ==
    ASSUME TypeOK, NEW i \in Image, OfImage(i)
    PROVE  TypeOK'
<1> USE Groups, GroupsNext
<1>1. CASE RemoveImage(i)
  <2>1. Asked("remove", Absent, i) \in Intent
    BY AskedType DEF Kind
  <2>2. OpsTypeOK' /\ loading' \subseteq Tracker
    BY <1>1, <2>1, ExecuteType DEF RemoveImage, ViewTypeOK, Tracker
  <2>3. ApiTypeOK' /\ CountTypeOK' /\ ViewTypeOK'
    BY <1>1, <2>2, ClickType
    DEF RemoveImage, Click, ApiTypeOK, ViewTypeOK, api, shown
  <2> QED
    BY <2>2, <2>3
<1>2. CASE ShowSpawnImageWindow(i)
  <2>1. Asked("spawn", Absent, i) \in Intent
    BY AskedType DEF Kind
  <2>2. dialog' \in Dialog
    BY <1>2, <2>1, OpenType DEF ShowSpawnImageWindow, Tracker
  <2> QED
    BY <1>2, <2>2, ClickType
    DEF ShowSpawnImageWindow, Open, Click, ApiTypeOK, OpsTypeOK, ViewTypeOK, api, shown
<1> QED
  BY <1>1, <1>2 DEF OfImage

\* The other buttons.
LEMMA ButtonType ==
    ASSUME TypeOK, (\E p \in Provider : RunInstance(p)) \/ AddNewMonitor
    PROVE  TypeOK'
<1> USE Groups, GroupsNext
<1>1. ASSUME NEW p \in Provider, RunInstance(p)
      PROVE  TypeOK'
  <2>1. [Asked("run", Absent, Absent) EXCEPT !.provider = p] \in Intent
    BY AskedType DEF Kind, Intent
  <2>2. OpsTypeOK' /\ loading' \subseteq Tracker
    BY <1>1, <2>1, ExecuteType DEF RunInstance, ViewTypeOK, Tracker
  <2>3. ApiTypeOK' /\ CountTypeOK' /\ ViewTypeOK'
    BY <1>1, <2>2, ClickType
    DEF RunInstance, Click, ApiTypeOK, ViewTypeOK, api, shown
  <2> QED
    BY <2>2, <2>3
<1>2. CASE AddNewMonitor
  <2>1. Asked("create", Absent, Absent) \in Intent
    BY AskedType DEF Kind
  <2>2. dialog' \in Dialog
    BY <1>2, <2>1, OpenType DEF AddNewMonitor, Tracker
  <2> QED
    BY <1>2, <2>2, ClickType
    DEF AddNewMonitor, Open, Click, ApiTypeOK, OpsTypeOK, ViewTypeOK, api, shown
<1> QED
  BY <1>1, <1>2

\* Windows, and links.
LEMMA WindowType ==
    ASSUME TypeOK, Confirm \/ Cancel \/ (\E url \in SecondLvlMenu : Navigate(url))
    PROVE  TypeOK'
<1> USE Groups, GroupsNext
<1>1. CASE Confirm
  <2>1. dialog \in Dialog
    BY <1>1 DEF Confirm, ViewTypeOK
  <2>2. PICK server \in IF dialog.intent.kind = "spawn" THEN ServerChoice
                        ELSE {dialog.intent.server} :
              Execute([dialog.intent EXCEPT !.server = server], dialog.tracker, TRUE)
    BY <1>1 DEF Confirm
  <2>3. server \in Server \cup {Absent}
    BY <2>1 DEF ServerChoice, Dialog, Intent
  <2>4. [dialog.intent EXCEPT !.server = server] \in Intent
    BY <2>1, <2>3 DEF Dialog, Intent
  <2>5. OpsTypeOK' /\ loading' \subseteq Tracker
    BY <2>1, <2>2, <2>4, ExecuteType DEF ViewTypeOK, Dialog
  <2>6. dialog' \in Dialog
    BY <1>1, <2>1 DEF Confirm, Dialog
  <2> QED
    BY <1>1, <2>5, <2>6 DEF Confirm, ApiTypeOK, ViewTypeOK, CountTypeOK, api, shown, bounds
<1>2. CASE Cancel
  BY <1>2 DEF Cancel, ApiTypeOK, OpsTypeOK, ViewTypeOK, CountTypeOK, api, shown, bounds
<1>3. ASSUME NEW url \in SecondLvlMenu, Navigate(url)
      PROVE  TypeOK'
  <2>1. page' \in Page
    BY <1>3 DEF Navigate, PageAt
  <2>2. OpsTypeOK'
    BY <1>3, DisposedType DEF Navigate, OpsTypeOK
  <2> QED
    BY <1>3, <2>1, <2>2
    DEF Navigate, ApiTypeOK, ViewTypeOK, CountTypeOK, api, shown, bounds
<1> QED
  BY <1>1, <1>2, <1>3

\* What becomes of an operation.
LEMMA ReceiveType ==
    ASSUME TypeOK, ModalInv, NEW s \in Slot, Receive(s)
    PROVE  TypeOK'
<1> USE Groups, GroupsNext
<1> USE DEF Answered
<1>1. CASE OperationSucceeds(s)
  <2>1. CASE Finish(s) /\ lists' = lists \cup {Absent}
    BY <1>1, <2>1, FinishType
    DEF OperationSucceeds, ApiTypeOK, ViewTypeOK, CountTypeOK, api, shown, bounds
  <2>2. CASE /\ ops' = [ops EXCEPT ![s].step = "list", ![s].answer = "none"]
             /\ UNCHANGED <<lists, loading>>
    <3>1. ops[s] \in Op
      BY <1>1, SlotOps DEF OperationSucceeds
    <3>2. OpsTypeOK'
      BY <2>2, <3>1 DEF OpsTypeOK, Op
    <3> QED
      BY <1>1, <2>2, <3>2
      DEF OperationSucceeds, ApiTypeOK, ViewTypeOK, CountTypeOK, api, shown, bounds
  <2> QED
    BY <1>1, <2>1, <2>2 DEF OperationSucceeds
<1>2. CASE OperationFails(s)
  <2>1. dialog' \in Dialog \cup {Absent}
    BY <1>2, CloseDialogType DEF OperationFails, ViewTypeOK
  <2>2. OpsTypeOK' /\ loading' \subseteq Tracker
    BY <1>2, FinishType DEF OperationFails, ViewTypeOK
  <2> QED
    BY <1>2, <2>1, <2>2
    DEF OperationFails, ApiTypeOK, ViewTypeOK, CountTypeOK, api, shown, bounds
<1>3. CASE ImagesListed(s)
  <2>1. dialog' \in Dialog \cup {Absent}
    BY <1>3, CloseDialogType DEF ImagesListed, ViewTypeOK
  <2>2. OpsTypeOK' /\ loading' \subseteq Tracker
    BY <1>3, FinishType DEF ImagesListed, ViewTypeOK
  <2>3. ops[s].list \subseteq Image
    BY <1>3, SlotOps DEF ImagesListed, Op
  <2> QED
    BY <1>3, <2>1, <2>2, <2>3
    DEF ImagesListed, ApiTypeOK, ViewTypeOK, CountTypeOK, api, shown, bounds
<1>4. CASE ImagesNotListed(s)
  <2>1. ops[s] \in Op
    BY <1>4, SlotOps DEF ImagesNotListed
  <2>2. OpsTypeOK'
    BY <1>4, <2>1 DEF ImagesNotListed, OpsTypeOK, Op
  <2> QED
    BY <1>4, <2>2
    DEF ImagesNotListed, ApiTypeOK, ViewTypeOK, CountTypeOK, api, shown, bounds
<1> QED
  BY <1>1, <1>2, <1>3, <1>4 DEF Receive

\* What the API does with a request.
LEMMA ServeType ==
    ASSUME TypeOK, NEW s \in Slot, ServeOperation(s) \/ ServeImages(s)
    PROVE  TypeOK'
<1> USE Groups, GroupsNext
<1>1. ops[s] \in Op
  BY SlotOps DEF ServeOperation, ServeImages, ServedBy
<1>2. CASE ServeOperation(s)
  <2>1. PICK answer \in {"ok", "refused"} : ops' = [ops EXCEPT ![s].answer = answer]
    BY <1>2 DEF ServeOperation
  <2>2. OpsTypeOK'
    BY <1>1, <2>1 DEF OpsTypeOK, Op
  <2>3. ApiTypeOK'
    <3>1. CASE UNCHANGED api
      BY <3>1 DEF api, ApiTypeOK
    <3> QED
      BY <1>2, <3>1, HandleType DEF ServeOperation
  <2> QED
    BY <1>2, <2>2, <2>3 DEF ServeOperation, ViewTypeOK, CountTypeOK, shown, bounds
<1>3. CASE ServeImages(s)
  <2>1. OpsTypeOK'
    BY <1>1, <1>3 DEF ServeImages, OpsTypeOK, Op, ApiTypeOK
  <2> QED
    BY <1>3, <2>1 DEF ServeImages, ApiTypeOK, ViewTypeOK, CountTypeOK, api, shown, bounds
<1> QED
  BY <1>2, <1>3

\* Lost calls.
LEMMA FaultType ==
    ASSUME TypeOK,
           (\E s \in Slot : LoseCall(s)) \/ (\E list \in lists : LoseServers(list))
    PROVE  TypeOK'
<1> USE Groups, GroupsNext
<1>1. CountTypeOK'
  <2>1. Fault
    BY DEF LoseCall, LoseServers
  <2> QED
    BY <2>1, BoundsAssumption DEF Fault, CountTypeOK
<1>2. ASSUME NEW s \in Slot, LoseCall(s)
      PROVE  TypeOK'
  <2>1. ops[s] \in Op
    BY <1>2, SlotOps DEF LoseCall
  <2>2. OpsTypeOK'
    BY <1>2, <2>1 DEF LoseCall, OpsTypeOK, Op
  <2> QED
    BY <1>1, <1>2, <2>2 DEF LoseCall, Fault, ApiTypeOK, ViewTypeOK, api, shown
<1>3. ASSUME NEW list \in lists, LoseServers(list)
      PROVE  TypeOK'
  BY <1>1, <1>3 DEF LoseServers, Fault, ApiTypeOK, OpsTypeOK, ViewTypeOK, api, shown
<1> QED
  BY <1>2, <1>3

\* The list of the servers, and what happens elsewhere.
LEMMA OtherType ==
    ASSUME TypeOK,
           (\E list \in lists : ServersListed(list)) \/ ServeServers \/ Poll \/ Elsewhere
    PROVE  TypeOK'
<1> USE Groups, GroupsNext
<1>1. ASSUME NEW list \in lists, ServersListed(list)
      PROVE  TypeOK'
  <2>1. dialog' \in Dialog \cup {Absent}
    BY <1>1 DEF ServersListed, ViewTypeOK, Dialog
  <2>2. OpsTypeOK'
    BY <1>1, DisposedType DEF ServersListed, OpsTypeOK
  <2> QED
    BY <1>1, <2>1, <2>2
    DEF ServersListed, ApiTypeOK, ViewTypeOK, CountTypeOK, api, shown, bounds
<1>2. CASE ServeServers
  BY <1>2 DEF ServeServers, ApiTypeOK, OpsTypeOK, ViewTypeOK, CountTypeOK, InstanceList,
              api, shown, bounds
<1>3. CASE Poll
  BY <1>3 DEF Poll, ApiTypeOK, OpsTypeOK, ViewTypeOK, CountTypeOK, api, shown, bounds
<1>4. CASE Elsewhere
  <2>1. CountTypeOK'
    BY <1>4, BoundsAssumption DEF Elsewhere, CountTypeOK
  <2>2. ApiTypeOK'
    <3>1. CASE \E s \in Server, status \in ServerInstanceStatus :
                  SetServer(s, [Gone EXCEPT !.status = status])
      BY <3>1, NodeTypes, SetServerType
    <3>2. CASE \E i \in images : images' = images \ {i} /\ UNCHANGED <<servers, ids>>
      BY <3>2 DEF ApiTypeOK
    <3> QED
      BY <1>4, <3>1, <3>2 DEF Elsewhere
  <2> QED
    BY <1>4, <2>1, <2>2 DEF Elsewhere, OpsTypeOK, ViewTypeOK, shown
<1> QED
  BY <1>1, <1>2, <1>3, <1>4
\* Every step keeps the types.
LEMMA NextType == TypeOK /\ ModalInv /\ [Next]_vars => TypeOK'
<1> SUFFICES ASSUME TypeOK, ModalInv, [Next]_vars
             PROVE  TypeOK'
  OBVIOUS
<1>1. CASE UNCHANGED vars
  BY <1>1 DEF TypeOK, vars, api, shown, bounds
<1>2. CASE Next
  BY <1>2, OfServerType, OfImageType, ButtonType, WindowType, ReceiveType, ServeType,
     FaultType, OtherType
  DEF Next
<1> QED
  BY <1>1, <1>2

-----------------------------------------------------------------------------
(* One operation at a time in a window *)

\* Where an operation starts.
LEMMA ExecuteOps ==
    ASSUME OpsTypeOK, NEW intent \in Intent, NEW tracker \in Tracker \cup {Absent},
           NEW modal \in BOOLEAN, Execute(intent, tracker, modal)
    PROVE  \E s \in Slot :
              /\ ~InUse(s)
              /\ ops' = [ops EXCEPT ![s] =
                           [intent |-> intent, step |-> "operation", answer |-> "none",
                            list |-> {}, tracker |-> tracker, modal |-> modal]]
              /\ InUse(s)'
<1> DEFINE op == [intent |-> intent, step |-> "operation", answer |-> "none",
                  list |-> {}, tracker |-> tracker, modal |-> modal]
<1>1. PICK s \in Slot : ~InUse(s) /\ ops' = [ops EXCEPT ![s] = op]
  BY DEF Execute
<1>3. op \in Op
  BY DEF Op
<1> HIDE DEF op
<1>4. ops'[s] = op
  BY <1>1 DEF OpsTypeOK
<1>5. InUse(s)'
  BY <1>3, <1>4, NoRecordAssumption DEF InUse
<1> QED
  BY <1>1, <1>5 DEF op

\* No window, no operation of one.
LEMMA NoModal ==
    ASSUME ModalInv, dialog = Absent \/ ~dialog.busy
    PROVE  \A s \in Slot : ~Modal(s)
  BY DEF ModalInv

\* An operation that no window waits for starts.
LEMMA ExecuteModal ==
    ASSUME OpsTypeOK, ModalInv, NEW intent \in Intent, NEW tracker \in Tracker \cup {Absent},
           Execute(intent, tracker, FALSE), dialog' = dialog
    PROVE  ModalInv'
<1>1. PICK s \in Slot :
              ops' = [ops EXCEPT ![s] =
                        [intent |-> intent, step |-> "operation", answer |-> "none",
                         list |-> {}, tracker |-> tracker, modal |-> FALSE]]
  BY ExecuteOps
<1>2. \A t \in Slot : Modal(t)' => Modal(t)
  BY <1>1 DEF OpsTypeOK, Modal, InUse
<1> QED
  BY <1>2 DEF ModalInv

\* Nothing starts, and the window stays.
LEMMA FewerModal ==
    ASSUME ModalInv, \A t \in Slot : Modal(t)' => Modal(t),
           dialog' = dialog \/ \A t \in Slot : ~Modal(t)'
    PROVE  ModalInv'
  BY DEF ModalInv

\* Operations end, and their windows with them.
LEMMA FinishModal ==
    ASSUME OpsTypeOK, ModalInv, NEW s \in Slot, InUse(s), Finish(s),
           NEW b \in BOOLEAN, CloseDialog(s, b) \/ dialog' = dialog
    PROVE  ModalInv'
<1>1. \A t \in Slot : Modal(t)' => Modal(t) /\ t # s
  BY DEF Finish, OpsTypeOK, Modal, InUse
<1>2. CASE ops[s].modal
  <2>1. \A t \in Slot : ~Modal(t)'
    BY <1>1, <1>2 DEF ModalInv, Modal
  <2> QED
    BY <1>1, <2>1, FewerModal
<1>3. CASE ~ops[s].modal
  BY <1>1, <1>3, FewerModal DEF CloseDialog
<1> QED
  BY <1>2, <1>3

\* An operation goes on, in its window or without.
LEMMA GoOnModal ==
    ASSUME OpsTypeOK, ModalInv, NEW s \in Slot, InUse(s), NEW op,
           op.modal = ops[s].modal, ops' = [ops EXCEPT ![s] = op], dialog' = dialog
    PROVE  ModalInv'
<1>1. \A t \in Slot : Modal(t)' => Modal(t)
  BY DEF OpsTypeOK, Modal, InUse
<1> QED
  BY <1>1, FewerModal

\* Trackers go.
LEMMA DisposedModal ==
    ASSUME OpsTypeOK, ModalInv, NEW trackers \in SUBSET Tracker, ops' = Disposed(trackers),
           \/ dialog' = dialog
           \/ dialog' = [dialog EXCEPT !.tracker = Absent] /\ dialog \in Dialog
    PROVE  ModalInv'
<1>1. \A t \in Slot : Modal(t)' => Modal(t)
  BY DisposedType DEF Modal, InUse
<1>2. CASE dialog' = dialog
  BY <1>1, <1>2, FewerModal
<1>3. CASE dialog' = [dialog EXCEPT !.tracker = Absent] /\ dialog \in Dialog
  <2>1. dialog' \in Dialog /\ dialog'.busy = dialog.busy
    BY <1>3 DEF Dialog
  <2> QED
    BY <1>1, <2>1, NoRecordAssumption DEF ModalInv
<1> QED
  BY <1>2, <1>3

\* Every step keeps it.
LEMMA NextModal == TypeOK /\ ModalInv /\ [Next]_vars => ModalInv'
<1> SUFFICES ASSUME TypeOK, ModalInv, [Next]_vars
             PROVE  ModalInv'
  OBVIOUS
<1> USE Groups
<1>1. CASE UNCHANGED <<ops, dialog>>
  BY <1>1 DEF ModalInv, Modal, InUse
<1>2. ASSUME NEW intent, NEW tracker, At(page), Open(intent, tracker)
      PROVE  ModalInv'
  <2>1. \A s \in Slot : ~Modal(s)'
    BY <1>2, NoModal DEF At, Open, Modal, InUse
  <2> QED
    BY <2>1 DEF ModalInv
<1>3. ASSUME NEW s \in Server, OfServer(s)
      PROVE  ModalInv'
  <2>1. CASE StartServer(s)
    <3>1. Asked("start", s, Absent) \in Intent
      BY AskedType DEF Kind
    <3> QED
      BY <2>1, <3>1, ExecuteModal DEF StartServer, Tracker
  <2> QED
    BY <1>2, <1>3, <2>1 DEF OfServer, StopServer, TerminateServer, Shutdown, At
<1>4. ASSUME NEW p \in Provider, RunInstance(p)
      PROVE  ModalInv'
  <2>1. [Asked("run", Absent, Absent) EXCEPT !.provider = p] \in Intent
    BY AskedType DEF Kind, Intent
  <2> QED
    BY <1>4, <2>1, ExecuteModal DEF RunInstance, Tracker
<1>5. ASSUME NEW i \in Image, OfImage(i)
      PROVE  ModalInv'
  <2>1. CASE RemoveImage(i)
    <3>1. Asked("remove", Absent, i) \in Intent
      BY AskedType DEF Kind
    <3> QED
      BY <2>1, <3>1, ExecuteModal DEF RemoveImage, Tracker
  <2> QED
    BY <1>2, <1>5, <2>1 DEF OfImage, ShowSpawnImageWindow, At
<1>6. CASE AddNewMonitor
  BY <1>2, <1>6 DEF AddNewMonitor, At
<1>7. CASE Confirm
  <2>1. dialog \in Dialog
    BY <1>7 DEF Confirm, ViewTypeOK
  <2>2. PICK server \in IF dialog.intent.kind = "spawn" THEN ServerChoice
                        ELSE {dialog.intent.server} :
              Execute([dialog.intent EXCEPT !.server = server], dialog.tracker, TRUE)
    BY <1>7 DEF Confirm
  <2>3. server \in Server \cup {Absent}
    BY <2>1 DEF ServerChoice, Dialog, Intent
  <2>4. [dialog.intent EXCEPT !.server = server] \in Intent
    BY <2>1, <2>3 DEF Dialog, Intent
  <2>5. dialog.tracker \in Tracker \cup {Absent}
    BY <2>1 DEF Dialog
  <2>8. PICK s \in Slot :
              ops' = [ops EXCEPT ![s] =
                        [intent |-> [dialog.intent EXCEPT !.server = server],
                         step |-> "operation", answer |-> "none", list |-> {},
                         tracker |-> dialog.tracker, modal |-> TRUE]]
    BY <2>2, <2>4, <2>5, ExecuteOps
  <2>6. \A t \in Slot : Modal(t)' => t = s
    BY <1>7, <2>8, NoModal DEF Confirm, Modal, InUse, OpsTypeOK
  <2>7. dialog' \in Dialog /\ dialog'.busy
    BY <1>7, <2>1 DEF Confirm, Dialog
  <2> QED
    BY <2>6, <2>7, NoRecordAssumption DEF ModalInv
<1>8. CASE Cancel
  <2>1. \A t \in Slot : ~Modal(t)'
    BY <1>8, NoModal DEF Cancel, Modal, InUse
  <2> QED
    BY <2>1 DEF ModalInv
<1>10. ASSUME NEW url \in SecondLvlMenu, Navigate(url)
       PROVE  ModalInv'
  <2>1. ops' = Disposed(Tracker) /\ dialog' = dialog
    BY <1>10 DEF Navigate
  <2> QED
    BY <2>1, DisposedModal
<1>11. ASSUME NEW list \in lists, ServersListed(list)
       PROVE  ModalInv'
  <2>1. /\ ops' = Disposed(Server)
        /\ \/ dialog' = dialog
           \/ dialog' = [dialog EXCEPT !.tracker = Absent] /\ dialog \in Dialog
    BY <1>11 DEF ServersListed, ViewTypeOK
  <2> QED
    BY <2>1, DisposedModal DEF Tracker
<1>12. ASSUME NEW s \in Slot, Receive(s)
       PROVE  ModalInv'
  <2> USE DEF Answered
  <2>1. CASE OperationFails(s)
    BY <2>1, FinishModal DEF OperationFails
  <2>2. CASE ImagesListed(s)
    BY <2>2, FinishModal DEF ImagesListed
  <2>3. CASE OperationSucceeds(s)
    <3>1. CASE Finish(s)
      BY <2>3, <3>1, FinishModal DEF OperationSucceeds
    <3>2. CASE ops' = [ops EXCEPT ![s].step = "list", ![s].answer = "none"]
      <4>1. ops[s] \in Op
        BY <2>3, SlotOps DEF OperationSucceeds
      <4>2. [ops[s] EXCEPT !.step = "list", !.answer = "none"].modal = ops[s].modal
        BY <4>1 DEF Op
      <4>3. ops' = [ops EXCEPT ![s] = [ops[s] EXCEPT !.step = "list", !.answer = "none"]]
        BY <3>2 DEF OpsTypeOK
      <4> QED
        BY <2>3, <4>2, <4>3, GoOnModal DEF OperationSucceeds
    <3> QED
      BY <2>3, <3>1, <3>2 DEF OperationSucceeds
  <2>4. CASE ImagesNotListed(s)
    <3>1. ops[s] \in Op
      BY <2>4, SlotOps DEF ImagesNotListed
    <3>2. [ops[s] EXCEPT !.step = "hung"].modal = ops[s].modal
      BY <3>1 DEF Op
    <3> QED
      BY <2>4, <3>2, GoOnModal DEF ImagesNotListed
  <2> QED
    BY <1>12, <2>1, <2>2, <2>3, <2>4 DEF Receive
<1>13. ASSUME NEW s \in Slot, ServeOperation(s) \/ ServeImages(s) \/ LoseCall(s)
       PROVE  ModalInv'
  <2>1. ops[s] \in Op /\ InUse(s) /\ dialog' = dialog
    BY <1>13, SlotOps DEF ServeOperation, ServeImages, ServedBy, LoseCall, Fault
  <2>2. PICK answer, list : \/ ops' = [ops EXCEPT ![s].answer = answer]
                            \/ ops' = [ops EXCEPT ![s].answer = answer, ![s].list = list]
    BY <1>13 DEF ServeOperation, ServeImages, LoseCall
  <2>3. \/ ops' = [ops EXCEPT ![s] = [ops[s] EXCEPT !.answer = answer]]
        \/ ops' = [ops EXCEPT ![s] = [ops[s] EXCEPT !.answer = answer, !.list = list]]
    BY <2>2 DEF OpsTypeOK
  <2>4. /\ [ops[s] EXCEPT !.answer = answer].modal = ops[s].modal
        /\ [ops[s] EXCEPT !.answer = answer, !.list = list].modal = ops[s].modal
    BY <2>1 DEF Op
  <2> QED
    BY <2>1, <2>3, <2>4, GoOnModal
<1>14. CASE (\E list \in lists : LoseServers(list)) \/ ServeServers \/ Poll \/ Elsewhere
  BY <1>1, <1>14 DEF LoseServers, Fault, ServeServers, Poll, Elsewhere
<1>15. CASE UNCHANGED vars
  BY <1>1, <1>15 DEF vars
<1> QED
  BY <1>3, <1>4, <1>5, <1>6, <1>7, <1>8, <1>10, <1>11, <1>12, <1>13, <1>14, <1>15 DEF Next
-----------------------------------------------------------------------------
(* Indicators *)

\* An operation starts with its indicator.
LEMMA ExecuteLoading ==
    ASSUME OpsTypeOK, TrackersHaveOperations, NEW intent \in Intent,
           NEW tracker \in Tracker \cup {Absent}, NEW modal \in BOOLEAN,
           Execute(intent, tracker, modal)
    PROVE  TrackersHaveOperations'
<1>1. PICK s \in Slot :
              /\ ~InUse(s)
              /\ ops' = [ops EXCEPT ![s] =
                           [intent |-> intent, step |-> "operation", answer |-> "none",
                            list |-> {}, tracker |-> tracker, modal |-> modal]]
              /\ InUse(s)'
  BY ExecuteOps
<1>2. /\ InUse(s)' /\ ops'[s].tracker = tracker
      /\ \A t \in Slot : InUse(t) => ops'[t] = ops[t] /\ InUse(t)'
  BY <1>1 DEF OpsTypeOK, InUse
<1>3. loading' \subseteq loading \cup {tracker}
  BY DEF Execute
<1> QED
  BY <1>2, <1>3 DEF TrackersHaveOperations

\* An operation ends with its indicator.
LEMMA FinishLoading ==
    ASSUME OpsTypeOK, TrackersHaveOperations, NEW s \in Slot, Finish(s)
    PROVE  TrackersHaveOperations'
<1>1. \A t \in Slot : t # s => ops'[t] = ops[t]
  BY DEF Finish, OpsTypeOK
<1>2. \A t \in Slot : t # s /\ InUse(t) => InUse(t)'
  BY <1>1 DEF InUse
<1>3. loading' = loading \ {ops[s].tracker}
  BY DEF Finish
<1> QED
  BY <1>1, <1>2, <1>3 DEF TrackersHaveOperations

\* An operation goes on under the same indicator.
LEMMA GoOnLoading ==
    ASSUME OpsTypeOK, TrackersHaveOperations, NEW s \in Slot, NEW op \in Op,
           op.tracker = ops[s].tracker, ops' = [ops EXCEPT ![s] = op], loading' = loading
    PROVE  TrackersHaveOperations'
<1>1. \A t \in Slot : InUse(t) => InUse(t)' /\ ops'[t].tracker = ops[t].tracker
  BY NoRecordAssumption DEF OpsTypeOK, InUse
<1> QED
  BY <1>1 DEF TrackersHaveOperations

\* Indicators go.
LEMMA DisposedLoading ==
    ASSUME OpsTypeOK, TrackersHaveOperations, NEW trackers \in SUBSET Tracker,
           ops' = Disposed(trackers), loading' \subseteq loading \ trackers
    PROVE  TrackersHaveOperations'
<1>1. \A t \in Slot : InUse(t) => /\ InUse(t)'
                                  /\ ops[t].tracker \notin trackers =>
                                        ops'[t].tracker = ops[t].tracker
  BY DisposedType DEF InUse
<1> QED
  BY <1>1 DEF TrackersHaveOperations

\* Every step keeps it.
LEMMA NextLoading == TypeOK /\ TrackersHaveOperations /\ [Next]_vars => TrackersHaveOperations'
<1> SUFFICES ASSUME TypeOK, TrackersHaveOperations, [Next]_vars
             PROVE  TrackersHaveOperations'
  OBVIOUS
<1> USE Groups
<1>1. CASE UNCHANGED <<ops, loading>>
  BY <1>1 DEF TrackersHaveOperations, InUse
<1>2. ASSUME NEW s \in Server, OfServer(s)
      PROVE  TrackersHaveOperations'
  <2>1. CASE StartServer(s)
    <3>1. Asked("start", s, Absent) \in Intent
      BY AskedType DEF Kind
    <3> QED
      BY <2>1, <3>1, ExecuteLoading DEF StartServer, Tracker
  <2> QED
    BY <1>1, <1>2, <2>1 DEF OfServer, StopServer, TerminateServer, Shutdown, Open
<1>3. ASSUME NEW p \in Provider, RunInstance(p)
      PROVE  TrackersHaveOperations'
  <2>1. [Asked("run", Absent, Absent) EXCEPT !.provider = p] \in Intent
    BY AskedType DEF Kind, Intent
  <2> QED
    BY <1>3, <2>1, ExecuteLoading DEF RunInstance, Tracker
<1>4. ASSUME NEW i \in Image, OfImage(i)
      PROVE  TrackersHaveOperations'
  <2>1. CASE RemoveImage(i)
    <3>1. Asked("remove", Absent, i) \in Intent
      BY AskedType DEF Kind
    <3> QED
      BY <2>1, <3>1, ExecuteLoading DEF RemoveImage, Tracker
  <2> QED
    BY <1>1, <1>4, <2>1 DEF OfImage, ShowSpawnImageWindow, Open
<1>5. CASE Confirm
  <2>1. dialog \in Dialog
    BY <1>5 DEF Confirm, ViewTypeOK
  <2>2. PICK server \in IF dialog.intent.kind = "spawn" THEN ServerChoice
                        ELSE {dialog.intent.server} :
              Execute([dialog.intent EXCEPT !.server = server], dialog.tracker, TRUE)
    BY <1>5 DEF Confirm
  <2>3. server \in Server \cup {Absent}
    BY <2>1 DEF ServerChoice, Dialog, Intent
  <2>4. /\ [dialog.intent EXCEPT !.server = server] \in Intent
        /\ dialog.tracker \in Tracker \cup {Absent}
    BY <2>1, <2>3 DEF Dialog, Intent
  <2> QED
    BY <2>2, <2>4, ExecuteLoading
<1>6. ASSUME NEW url \in SecondLvlMenu, Navigate(url)
      PROVE  TrackersHaveOperations'
  <2>1. loading' = {}
    BY <1>6 DEF Navigate
  <2> QED
    BY <2>1 DEF TrackersHaveOperations
<1>7. ASSUME NEW list \in lists, ServersListed(list)
      PROVE  TrackersHaveOperations'
  <2>1. ops' = Disposed(Server) /\ loading' = loading \ Server
    BY <1>7 DEF ServersListed
  <2> QED
    BY <2>1, DisposedLoading DEF Tracker
<1>8. ASSUME NEW s \in Slot, Receive(s)
      PROVE  TrackersHaveOperations'
  <2> USE DEF Answered
  <2>1. CASE Finish(s)
    BY <2>1, FinishLoading
  <2>2. CASE OperationSucceeds(s) /\ ~Finish(s)
    <3>1. ops[s] \in Op
      BY <2>2, SlotOps DEF OperationSucceeds
    <3>2. LET op == [ops[s] EXCEPT !.step = "list", !.answer = "none"]
          IN  op \in Op /\ op.tracker = ops[s].tracker
      BY <3>1 DEF Op
    <3>3. /\ ops' = [ops EXCEPT ![s] = [ops[s] EXCEPT !.step = "list", !.answer = "none"]]
          /\ loading' = loading
      BY <2>2 DEF OperationSucceeds, OpsTypeOK
    <3> QED
      BY <3>2, <3>3, GoOnLoading
  <2>3. CASE ImagesNotListed(s)
    <3>1. ops[s] \in Op
      BY <2>3, SlotOps DEF ImagesNotListed
    <3>2. LET op == [ops[s] EXCEPT !.step = "hung"]
          IN  op \in Op /\ op.tracker = ops[s].tracker
      BY <3>1 DEF Op
    <3> QED
      BY <2>3, <3>2, GoOnLoading DEF ImagesNotListed
  <2> QED
    BY <1>8, <2>1, <2>2, <2>3 DEF Receive, OperationFails, ImagesListed
<1>9. ASSUME NEW s \in Slot, ServeOperation(s) \/ ServeImages(s) \/ LoseCall(s)
      PROVE  TrackersHaveOperations'
  <2>1. ops[s] \in Op /\ loading' = loading
    BY <1>9, SlotOps DEF ServeOperation, ServeImages, ServedBy, LoseCall, Fault
  <2>2. PICK answer \in {"ok", "refused"}, list \in SUBSET Image :
              \/ ops' = [ops EXCEPT ![s].answer = answer]
              \/ ops' = [ops EXCEPT ![s].answer = answer, ![s].list = list]
    BY <1>9 DEF ServeOperation, ServeImages, LoseCall, ApiTypeOK
  <2>3. \/ ops' = [ops EXCEPT ![s] = [ops[s] EXCEPT !.answer = answer]]
        \/ ops' = [ops EXCEPT ![s] = [ops[s] EXCEPT !.answer = answer, !.list = list]]
    BY <2>2 DEF OpsTypeOK
  <2>4. \A op \in {[ops[s] EXCEPT !.answer = answer],
                   [ops[s] EXCEPT !.answer = answer, !.list = list]} :
           op \in Op /\ op.tracker = ops[s].tracker
    BY <2>1 DEF Op
  <2> QED
    BY <2>1, <2>3, <2>4, GoOnLoading
<1>10. CASE \/ (\E list \in lists : LoseServers(list)) \/ ServeServers \/ Poll \/ Elsewhere
            \/ Cancel \/ AddNewMonitor
  BY <1>1, <1>10 DEF LoseServers, Fault, ServeServers, Poll, Elsewhere, Cancel, AddNewMonitor, Open
<1>11. CASE UNCHANGED vars
  BY <1>1, <1>11 DEF vars
<1> QED
  BY <1>2, <1>3, <1>4, <1>5, <1>6, <1>7, <1>8, <1>9, <1>10, <1>11 DEF Next
-----------------------------------------------------------------------------
(* Removed images *)

\* The request to remove an image starts the action that removes it.
LEMMA RemoveCall ==
    ASSUME NEW i, i # Absent, NEW call \in Started(ImagesRemove(i))
    PROVE  call.action = "Remove" /\ Arg(call, "imageId") = i
<1>1. call.action = "Remove" /\ call.args = {<<"imageId", i>>}
  BY RemoveCalls
<1> QED
  BY <1>1 DEF Arg

\* What is removed stays removed.
GoneForGood(i) == i \in ids \ images

\* No id is given twice.
LEMMA HandleIds ==
    ASSUME ApiTypeOK, NEW call, Handle(call), NEW i, GoneForGood(i)
    PROVE  GoneForGood(i)'
<1>1. CASE Create(call)
  BY <1>1 DEF Create, GoneForGood
<1>2. CASE Remove(call)
  BY <1>2 DEF Remove, GoneForGood
<1>3. CASE UNCHANGED <<images, ids>>
  BY <1>3 DEF GoneForGood
<1> QED
  BY <1>1, <1>2, <1>3
  DEF Handle, Stop, Terminate, ShutdownContainer, StartOrRun, Spawn, SetServer, api

\* An image that was removed, at every step of the operation; no window removes one.
RemovedBy(op) ==
    op.intent.kind = "remove" =>
        /\ op.intent.image \in Image
        /\ op.step # "operation" \/ op.answer = "ok" => GoneForGood(op.intent.image)
        /\ op.step = "list" /\ op.answer = "ok" => op.intent.image \notin op.list

RemovedInv ==
    /\ \A s \in Slot : InUse(s) => RemovedBy(ops[s])
    /\ dialog # Absent => dialog.intent.kind # "remove"

\* It holds at first.
LEMMA InitRemoved == Init => RemovedInv
  BY NoRecordAssumption DEF Init, RemovedInv, RemovedBy, InUse, Load, Asked

\* No step brings an image back.
LEMMA NextGone ==
    ASSUME TypeOK, [Next]_vars, NEW i, GoneForGood(i)
    PROVE  GoneForGood(i)'
<1> USE Groups
<1>1. CASE UNCHANGED api
  BY <1>1 DEF api, GoneForGood
<1>2. ASSUME NEW s \in Slot, ServeOperation(s)
      PROVE  GoneForGood(i)'
  <2>1. CASE \E call \in Started(RequestOf(ops[s].intent)) : Handle(call)
    BY <2>1, HandleIds
  <2> QED
    BY <1>1, <1>2, <2>1 DEF ServeOperation
<1>3. CASE Elsewhere
  BY <1>3 DEF Elsewhere, SetServer, GoneForGood
<1>4. CASE Next
  <2>1. UNCHANGED api \/ (\E s \in Slot : ServeOperation(s)) \/ Elsewhere
    BY <1>4 DEF Next, OfServer, OfImage, StopServer, TerminateServer, Shutdown, StartServer,
                RunInstance, ShowSpawnImageWindow, RemoveImage, AddNewMonitor, Open, Click,
                Confirm, Cancel, Navigate, Receive, OperationSucceeds, OperationFails,
                ImagesListed, ImagesNotListed, ServeImages, LoseCall, LoseServers, Fault,
                ServersListed, ServeServers, Poll
  <2> QED
    BY <1>1, <1>2, <1>3, <2>1
<1> QED
  BY <1>1, <1>4 DEF vars, api

\* An operation goes on, and no answer of the API has come in between.
Continues(s) ==
    /\ InUse(s)
    /\ ops'[s].intent = ops[s].intent
    /\ ops'[s].step # "operation" \/ ops'[s].answer = "ok" =>
          ops[s].step # "operation" \/ ops[s].answer = "ok"
    /\ ops'[s].step = "list" /\ ops'[s].answer = "ok" =>
          ops[s].step = "list" /\ ops[s].answer = "ok" /\ ops'[s].list = ops[s].list

\* It still tells the truth about its image.
LEMMA ContinuesRemoved ==
    ASSUME TypeOK, RemovedInv, [Next]_vars, NEW s \in Slot, Continues(s)
    PROVE  RemovedBy(ops[s])'
<1>1. RemovedBy(ops[s])
  BY DEF RemovedInv, Continues
<1>2. ops'[s].intent = ops[s].intent
  BY DEF Continues
<1>3. CASE ops[s].intent.kind # "remove"
  BY <1>2, <1>3 DEF RemovedBy
<1>4. CASE ops[s].intent.kind = "remove"
  <2>1. GoneForGood(ops[s].intent.image) => GoneForGood(ops[s].intent.image)'
    <3> DEFINE i == ops[s].intent.image
    <3>1. ASSUME NEW j, j = i, GoneForGood(j)
          PROVE  GoneForGood(j)'
      BY <3>1, NextGone
    <3>2. i' = i
      BY <1>2
    <3> QED
      BY <3>1, <3>2 DEF GoneForGood
  <2>2. /\ ops[s].intent.image \in Image
        /\ ops[s].step # "operation" \/ ops[s].answer = "ok" => GoneForGood(ops[s].intent.image)
        /\ ops[s].step = "list" /\ ops[s].answer = "ok" =>
              ops[s].intent.image \notin ops[s].list
    BY <1>1, <1>4 DEF RemovedBy
  <2> QED
    BY <1>2, <2>1, <2>2 DEF Continues, RemovedBy
<1> QED
  BY <1>3, <1>4

\* Nothing new, and nothing asked that a window may not ask.
LEMMA QuietRemoved ==
    ASSUME TypeOK, RemovedInv, [Next]_vars,
           \A s \in Slot : InUse(s)' => Continues(s),
           dialog' = Absent \/ dialog'.intent.kind # "remove"
    PROVE  RemovedInv'
  BY ContinuesRemoved DEF RemovedInv

\* What starts has no answer yet.
LEMMA ExecuteRemoved ==
    ASSUME TypeOK, RemovedInv, [Next]_vars, NEW intent \in Intent,
           NEW tracker \in Tracker \cup {Absent}, NEW modal \in BOOLEAN,
           Execute(intent, tracker, modal),
           intent.kind = "remove" => intent.image \in Image,
           dialog' = Absent \/ dialog'.intent.kind # "remove"
    PROVE  RemovedInv'
<1>0. OpsTypeOK
  BY Groups
<1>1. PICK s \in Slot :
              ops' = [ops EXCEPT ![s] =
                        [intent |-> intent, step |-> "operation", answer |-> "none",
                         list |-> {}, tracker |-> tracker, modal |-> modal]]
  BY <1>0, ExecuteOps
<1>2. /\ ops'[s].intent = intent /\ ops'[s].step = "operation" /\ ops'[s].answer = "none"
      /\ \A t \in Slot : t # s => ops'[t] = ops[t]
  BY <1>0, <1>1 DEF OpsTypeOK
<1>3. RemovedBy(ops[s])'
  BY <1>2 DEF RemovedBy
<1>4. \A t \in Slot : t # s /\ InUse(t)' => Continues(t)
  BY <1>2 DEF Continues, InUse
<1> QED
  BY <1>3, <1>4, ContinuesRemoved DEF RemovedInv

\* An operation ends.
LEMMA FinishContinues ==
    ASSUME OpsTypeOK, NEW s \in Slot, Finish(s)
    PROVE  \A t \in Slot : InUse(t)' => Continues(t)
<1>1. ops'[s] = Absent /\ \A t \in Slot : t # s => ops'[t] = ops[t]
  BY DEF Finish, OpsTypeOK
<1> QED
  BY <1>1 DEF Continues, InUse

\* No window asks for a removal when it closes.
LEMMA CloseDialogRemoved ==
    ASSUME dialog \in Dialog \cup {Absent}, ModalInv, RemovedInv, NEW s \in Slot, InUse(s),
           NEW b \in BOOLEAN, CloseDialog(s, b)
    PROVE  dialog' = Absent \/ dialog'.intent.kind # "remove"
<1>1. CASE dialog # Absent
  BY <1>1 DEF CloseDialog, Dialog, RemovedInv
<1>2. CASE dialog = Absent
  BY <1>2 DEF CloseDialog, ModalInv, Modal
<1> QED
  BY <1>1, <1>2

\* Trackers do not matter.
LEMMA DisposedContinues ==
    ASSUME OpsTypeOK, NEW trackers \in SUBSET Tracker, ops' = Disposed(trackers)
    PROVE  \A t \in Slot : InUse(t)' => Continues(t)
  BY DisposedType DEF Continues, InUse

\* Clicks.
LEMMA ClickRemoved ==
    ASSUME TypeOK, RemovedInv, [Next]_vars,
           \/ \E s \in Server : OfServer(s)
           \/ \E p \in Provider : RunInstance(p)
           \/ \E i \in Image : OfImage(i)
           \/ AddNewMonitor \/ Confirm
    PROVE  RemovedInv'
<1> USE Groups
<1>1. ASSUME NEW kind \in Kind \ {"remove"}, NEW server, NEW image, NEW tracker,
             Open(Asked(kind, server, image), tracker)
      PROVE  RemovedInv'
  <2>1. dialog'.intent.kind = kind
    BY <1>1 DEF Open, Asked
  <2>2. \A t \in Slot : InUse(t)' => Continues(t)
    BY <1>1 DEF Open, Continues, InUse
  <2> QED
    BY <2>1, <2>2, QuietRemoved
<1>2. ASSUME NEW s \in Server, OfServer(s)
      PROVE  RemovedInv'
  <2>1. CASE StartServer(s)
    <3>1. Asked("start", s, Absent) \in Intent /\ Asked("start", s, Absent).kind # "remove"
      BY AskedType DEF Kind, Asked
    <3> QED
      BY <2>1, <3>1, ExecuteRemoved DEF StartServer, Tracker, RemovedInv
  <2> QED
    BY <1>1, <1>2, <2>1 DEF OfServer, StopServer, TerminateServer, Shutdown, Kind
<1>3. ASSUME NEW p \in Provider, RunInstance(p)
      PROVE  RemovedInv'
  <2> DEFINE intent == [Asked("run", Absent, Absent) EXCEPT !.provider = p]
  <2>1. intent \in Intent /\ intent.kind # "remove"
    BY AskedType DEF Kind, Intent, Asked
  <2> QED
    BY <1>3, <2>1, ExecuteRemoved DEF RunInstance, Tracker, RemovedInv
<1>4. ASSUME NEW i \in Image, OfImage(i)
      PROVE  RemovedInv'
  <2>1. CASE RemoveImage(i)
    <3>1. Asked("remove", Absent, i) \in Intent /\ Asked("remove", Absent, i).image = i
      BY AskedType DEF Kind, Asked
    <3> QED
      BY <2>1, <3>1, ExecuteRemoved DEF RemoveImage, Tracker, RemovedInv
  <2> QED
    BY <1>1, <1>4, <2>1 DEF OfImage, ShowSpawnImageWindow, Kind
<1>5. CASE AddNewMonitor
  BY <1>1, <1>5 DEF AddNewMonitor, Kind
<1>6. CASE Confirm
  <2>1. dialog \in Dialog /\ dialog.intent.kind # "remove"
    BY <1>6 DEF Confirm, ViewTypeOK, RemovedInv
  <2>2. PICK server \in IF dialog.intent.kind = "spawn" THEN ServerChoice
                        ELSE {dialog.intent.server} :
              Execute([dialog.intent EXCEPT !.server = server], dialog.tracker, TRUE)
    BY <1>6 DEF Confirm
  <2>3. server \in Server \cup {Absent}
    BY <2>1 DEF ServerChoice, Dialog, Intent
  <2>4. /\ [dialog.intent EXCEPT !.server = server] \in Intent
        /\ [dialog.intent EXCEPT !.server = server].kind # "remove"
        /\ dialog.tracker \in Tracker \cup {Absent}
    BY <2>1, <2>3 DEF Dialog, Intent
  <2>5. dialog'.intent = dialog.intent
    BY <1>6, <2>1 DEF Confirm, Dialog
  <2> QED
    BY <2>1, <2>2, <2>4, <2>5, ExecuteRemoved
<1> QED
  BY <1>2, <1>3, <1>4, <1>5, <1>6

\* Answers of the API.
LEMMA ServeRemoved ==
    ASSUME TypeOK, RemovedInv, [Next]_vars, NEW s \in Slot,
           ServeOperation(s) \/ ServeImages(s) \/ LoseCall(s)
    PROVE  RemovedInv'
<1> USE Groups
<1>1. ops[s] \in Op /\ InUse(s) /\ dialog' = dialog
  BY SlotOps DEF ServeOperation, ServeImages, ServedBy, LoseCall, Fault
<1>2. \A t \in Slot : t # s => ops'[t] = ops[t]
  BY DEF ServeOperation, ServeImages, LoseCall, OpsTypeOK
<1>3. \A t \in Slot : t # s /\ InUse(t)' => RemovedBy(ops[t])'
  BY <1>2, ContinuesRemoved DEF Continues, InUse
<1>4. RemovedBy(ops[s])
  BY <1>1 DEF RemovedInv
<1>5. RemovedBy(ops[s])'
  <2>1. CASE ServeOperation(s)
    <3>1. ops[s].step = "operation"
      BY <2>1 DEF ServeOperation
    <3>2. PICK answer \in {"ok", "refused"} : ops' = [ops EXCEPT ![s].answer = answer]
      BY <2>1 DEF ServeOperation
    <3>3. /\ ops'[s].intent = ops[s].intent /\ ops'[s].step = "operation"
          /\ ops'[s].answer = answer
      BY <1>1, <3>1, <3>2 DEF OpsTypeOK, Op
    <3>4. CASE ops[s].intent.kind # "remove" \/ answer = "refused"
      BY <1>4, <3>3, <3>4 DEF RemovedBy
    <3>5. CASE ops[s].intent.kind = "remove" /\ answer = "ok"
      <4>1. PICK call \in Started(RequestOf(ops[s].intent)) : Handle(call)
        <5>1. ops'[s].answer # "refused"
          BY <3>3, <3>5
        <5>2. ops' # [ops EXCEPT ![s].answer = "refused"]
          BY <1>1, <5>1 DEF OpsTypeOK, Op
        <5> QED
          BY <2>1, <5>2 DEF ServeOperation
      <4> DEFINE i == ops[s].intent.image
      <4>2. i \in Image /\ RequestOf(ops[s].intent) = ImagesRemove(i)
        BY <1>4, <3>5 DEF RemovedBy, RequestOf
      <4>3. call.action = "Remove" /\ Arg(call, "imageId") = i
        BY <4>1, <4>2, RemoveCall, AbsentAssumption
      <4>4. i \in images /\ images' = images \ {i} /\ ids' = ids
        BY <4>1, <4>3
        DEF Handle, Stop, Terminate, ShutdownContainer, StartOrRun, Spawn, Create, Remove
      <4>5. i \in ids' \ images'
        BY <4>4 DEF ApiTypeOK
      <4>6. GoneForGood(ops[s].intent.image)'
        BY <3>3, <4>5 DEF GoneForGood
      <4> QED
        BY <3>3, <4>2, <4>6 DEF RemovedBy
    <3> QED
      BY <3>4, <3>5
  <2>2. CASE ServeImages(s)
    <3>1. /\ ops'[s].intent = ops[s].intent /\ ops'[s].step = "list"
          /\ ops'[s].list = images /\ ops[s].step = "list" /\ UNCHANGED <<images, ids>>
      BY <1>1, <2>2 DEF ServeImages, OpsTypeOK, Op, api
    <3> QED
      BY <1>4, <3>1 DEF RemovedBy, GoneForGood
  <2>3. CASE LoseCall(s)
    <3>1. /\ ops'[s].intent = ops[s].intent /\ ops'[s].step = ops[s].step
          /\ ops'[s].answer = "refused"
      BY <1>1, <2>3 DEF LoseCall, OpsTypeOK, Op
    <3>2. Continues(s)
      BY <1>1, <3>1 DEF Continues
    <3> QED
      BY <3>2, ContinuesRemoved
  <2> QED
    BY <2>1, <2>2, <2>3
<1> QED
  BY <1>1, <1>3, <1>5 DEF RemovedInv

\* Answers at the console.
LEMMA ReceiveRemoved ==
    ASSUME TypeOK, ModalInv, RemovedInv, [Next]_vars, NEW s \in Slot, Receive(s)
    PROVE  RemovedInv'
<1> USE Groups
<1> USE DEF Answered
<1>1. InUse(s) /\ ops[s] \in Op
  BY SlotOps DEF Receive, OperationSucceeds, OperationFails, ImagesListed, ImagesNotListed
<1>2. CASE Finish(s)
  <2>1. dialog' = dialog \/ \E b \in BOOLEAN : CloseDialog(s, b)
    BY DEF Receive, OperationSucceeds, OperationFails, ImagesListed, ImagesNotListed
  <2>2. dialog' = Absent \/ dialog'.intent.kind # "remove"
    BY <1>1, <2>1, CloseDialogRemoved DEF RemovedInv, ViewTypeOK
  <2> QED
    BY <1>2, <2>2, FinishContinues, QuietRemoved
<1>3. CASE ~Finish(s)
  <2>1. dialog' = dialog
    BY <1>3 DEF Receive, OperationSucceeds, OperationFails, ImagesListed, ImagesNotListed
  <2>2. \/ /\ ops[s].answer = "ok" /\ ops[s].step = "operation"
           /\ ops' = [ops EXCEPT ![s].step = "list", ![s].answer = "none"]
        \/ ops[s].step = "list" /\ ops' = [ops EXCEPT ![s].step = "hung"]
    BY <1>3 DEF Receive, OperationSucceeds, OperationFails, ImagesListed, ImagesNotListed
  <2>3. Continues(s) /\ \A t \in Slot : t # s => ops'[t] = ops[t]
    <3>1. CASE /\ ops[s].answer = "ok" /\ ops[s].step = "operation"
               /\ ops' = [ops EXCEPT ![s].step = "list", ![s].answer = "none"]
      BY <1>1, <3>1 DEF Continues, OpsTypeOK, Op
    <3>2. CASE ops[s].step = "list" /\ ops' = [ops EXCEPT ![s].step = "hung"]
      BY <1>1, <3>2 DEF Continues, OpsTypeOK, Op
    <3> QED
      BY <2>2, <3>1, <3>2
  <2>4. \A t \in Slot : InUse(t)' => Continues(t)
    BY <2>3 DEF Continues, InUse
  <2> QED
    BY <2>1, <2>4, QuietRemoved DEF RemovedInv
<1> QED
  BY <1>2, <1>3

\* Every step keeps it.
LEMMA NextRemoved == TypeOK /\ ModalInv /\ RemovedInv /\ [Next]_vars => RemovedInv'
<1> SUFFICES ASSUME TypeOK, ModalInv, RemovedInv, [Next]_vars
             PROVE  RemovedInv'
  OBVIOUS
<1> USE Groups
<1>1. ASSUME UNCHANGED ops, dialog' = dialog \/ dialog' = Absent
      PROVE  RemovedInv'
  <2>1. \A t \in Slot : InUse(t)' => Continues(t)
    BY <1>1 DEF Continues, InUse
  <2> QED
    BY <1>1, <2>1, QuietRemoved DEF RemovedInv
<1>2. CASE \/ Cancel \/ (\E list \in lists : LoseServers(list)) \/ ServeServers \/ Poll
           \/ Elsewhere \/ UNCHANGED vars
  BY <1>1, <1>2 DEF Cancel, LoseServers, Fault, ServeServers, Poll, Elsewhere, vars
<1>3. ASSUME NEW url \in SecondLvlMenu, Navigate(url)
      PROVE  RemovedInv'
  <2>1. ops' = Disposed(Tracker) /\ dialog' = dialog
    BY <1>3 DEF Navigate
  <2>2. \A t \in Slot : InUse(t)' => Continues(t)
    BY <2>1, DisposedContinues
  <2> QED
    BY <2>1, <2>2, QuietRemoved DEF RemovedInv
<1>4. ASSUME NEW list \in lists, ServersListed(list)
      PROVE  RemovedInv'
  <2>1. ops' = Disposed(Server)
    BY <1>4 DEF ServersListed
  <2>2. \A t \in Slot : InUse(t)' => Continues(t)
    BY <2>1, DisposedContinues DEF Tracker
  <2>3. dialog' = dialog \/ (dialog'.intent = dialog.intent /\ dialog # Absent)
    BY <1>4 DEF ServersListed, ViewTypeOK, Dialog
  <2> QED
    BY <2>2, <2>3, QuietRemoved DEF RemovedInv
<1> QED
  BY <1>2, <1>3, <1>4, ClickRemoved, ServeRemoved, ReceiveRemoved DEF Next

\* An operation vanishes when its answer is received, and then only.
LEMMA OnlyReceive ==
    ASSUME TypeOK, [Next]_vars, NEW s \in Slot, InUse(s), ops'[s] = Absent
    PROVE  OperationSucceeds(s) \/ OperationFails(s) \/ ImagesListed(s)
<1>1. OpsTypeOK /\ ViewTypeOK
  BY Groups
<1>2. ops' # ops
  BY DEF InUse
<1>3. ASSUME NEW intent \in Intent, NEW tracker \in Tracker \cup {Absent},
             NEW modal \in BOOLEAN, Execute(intent, tracker, modal)
      PROVE  FALSE
  BY <1>1, <1>3, ExecuteOps DEF OpsTypeOK, InUse
<1>4. ASSUME NEW trackers \in SUBSET Tracker, ops' = Disposed(trackers)
      PROVE  FALSE
  BY <1>1, <1>4, DisposedType DEF InUse
<1>5. ASSUME NEW t \in Slot, NEW op \in Op, ops' = [ops EXCEPT ![t] = op]
      PROVE  FALSE
  BY <1>1, <1>5, NoRecordAssumption DEF OpsTypeOK, InUse
<1>6. ASSUME NEW p \in Server, OfServer(p)
      PROVE  FALSE
  <2>1. Asked("start", p, Absent) \in Intent /\ p \in Tracker \cup {Absent}
    BY AskedType DEF Kind, Tracker
  <2> QED
    BY <1>2, <1>3, <1>6, <2>1
    DEF OfServer, StartServer, StopServer, TerminateServer, Shutdown, Open
<1>7. ASSUME NEW p \in Provider, RunInstance(p)
      PROVE  FALSE
  <2>1. /\ [Asked("run", Absent, Absent) EXCEPT !.provider = p] \in Intent
        /\ "dashboard" \in Tracker \cup {Absent}
    BY AskedType DEF Kind, Intent, Tracker
  <2> QED
    BY <1>3, <1>7, <2>1 DEF RunInstance
<1>8. ASSUME NEW i \in Image, OfImage(i)
      PROVE  FALSE
  <2>1. Asked("remove", Absent, i) \in Intent /\ "images" \in Tracker \cup {Absent}
    BY AskedType DEF Kind, Tracker
  <2> QED
    BY <1>2, <1>3, <1>8, <2>1 DEF OfImage, RemoveImage, ShowSpawnImageWindow, Open
<1>9. CASE Confirm
  <2>1. dialog \in Dialog
    BY <1>1, <1>9 DEF Confirm, ViewTypeOK
  <2>2. PICK server \in IF dialog.intent.kind = "spawn" THEN ServerChoice
                        ELSE {dialog.intent.server} :
              Execute([dialog.intent EXCEPT !.server = server], dialog.tracker, TRUE)
    BY <1>9 DEF Confirm
  <2>3. server \in Server \cup {Absent}
    BY <2>1 DEF ServerChoice, Dialog, Intent
  <2>4. /\ [dialog.intent EXCEPT !.server = server] \in Intent
        /\ dialog.tracker \in Tracker \cup {Absent}
    BY <2>1, <2>3 DEF Dialog, Intent
  <2> QED
    BY <1>1, <2>2, <2>4, ExecuteOps DEF OpsTypeOK, InUse
<1>10. ASSUME NEW url \in SecondLvlMenu, Navigate(url)
       PROVE  FALSE
  BY <1>4, <1>10 DEF Navigate
<1>11. ASSUME NEW list \in lists, ServersListed(list)
       PROVE  FALSE
  BY <1>4, <1>11 DEF ServersListed, Tracker
<1>12. ASSUME NEW t \in Slot, ServeOperation(t) \/ ServeImages(t) \/ LoseCall(t)
       PROVE  FALSE
  <2>1. ops[t] \in Op
    BY <1>1, <1>12, SlotOps DEF ServeOperation, ServeImages, ServedBy, LoseCall
  <2>2. PICK answer \in {"ok", "refused"}, list \in SUBSET Image :
              \/ ops' = [ops EXCEPT ![t].answer = answer]
              \/ ops' = [ops EXCEPT ![t].answer = answer, ![t].list = list]
    BY <1>12, Groups DEF ServeOperation, ServeImages, LoseCall, ApiTypeOK
  <2>3. \/ ops' = [ops EXCEPT ![t] = [ops[t] EXCEPT !.answer = answer]]
        \/ ops' = [ops EXCEPT ![t] = [ops[t] EXCEPT !.answer = answer, !.list = list]]
    BY <1>1, <2>2 DEF OpsTypeOK
  <2>4. /\ [ops[t] EXCEPT !.answer = answer] \in Op
        /\ [ops[t] EXCEPT !.answer = answer, !.list = list] \in Op
    BY <2>1 DEF Op
  <2> QED
    BY <1>5, <2>3, <2>4
<1>13. ASSUME NEW t \in Slot, Receive(t)
       PROVE  OperationSucceeds(s) \/ OperationFails(s) \/ ImagesListed(s)
  <2>1. CASE t = s
    <3>1. ops[s] \in Op
      BY <1>1, SlotOps
    <3>2. [ops[s] EXCEPT !.step = "hung"] \in Op
      BY <3>1 DEF Op
    <3>3. ~ImagesNotListed(s)
      BY <1>5, <3>2 DEF ImagesNotListed
    <3> QED
      BY <1>13, <2>1, <3>3 DEF Receive
  <2>2. CASE t # s
    <3>1. ops'[s] = ops[s]
      BY <1>1, <1>13, <2>2
      DEF Receive, OperationSucceeds, OperationFails, ImagesListed, ImagesNotListed, Finish,
          OpsTypeOK
    <3> QED
      BY <3>1 DEF InUse
  <2> QED
    BY <2>1, <2>2
<1>14. CASE \/ Cancel \/ (\E list \in lists : LoseServers(list)) \/ ServeServers \/ Poll
            \/ Elsewhere \/ AddNewMonitor \/ UNCHANGED vars
  BY <1>2, <1>14
  DEF Cancel, LoseServers, ServeServers, Poll, Elsewhere, AddNewMonitor, Open, vars
<1> QED
  BY <1>6, <1>7, <1>8, <1>9, <1>10, <1>11, <1>12, <1>13, <1>14 DEF Next

\* A list that ends a removal is made after it.
LEMMA NextLists ==
    TypeOK /\ RemovedInv /\ [Next]_vars =>
        \A s \in Slot :
           InUse(s) /\ ops'[s] = Absent /\ ops[s].step = "list" /\ ops[s].intent.kind = "remove"
              => ops[s].intent.image \notin shownImages'
<1> SUFFICES ASSUME TypeOK, RemovedInv, [Next]_vars, NEW s \in Slot, InUse(s),
                    ops'[s] = Absent, ops[s].step = "list", ops[s].intent.kind = "remove"
             PROVE  ops[s].intent.image \notin shownImages'
  OBVIOUS
<1>1. RemovedBy(ops[s])
  BY DEF RemovedInv
<1>2. ImagesListed(s)
  BY OnlyReceive DEF OperationSucceeds, OperationFails, Answered
<1> QED
  BY <1>1, <1>2 DEF RemovedBy, ImagesListed, Answered

-----------------------------------------------------------------------------
(* What operations ask for *)

\* An intent that a request can be made of.
Complete(intent) ==
    /\ intent.kind # "load"
    /\ intent.kind \in {"stop", "terminate", "shutdown"} =>
          intent.provider \in Provider /\ intent.server \in Server
    /\ intent.kind \in {"shutdown", "remove"} => intent.image \in Image

\* Its request starts what was meant, and nothing else.
LEMMA CompleteRouted ==
    ASSUME NEW intent, intent.kind \in Kind, Complete(intent)
    PROVE  /\ Started(RequestOf(intent)) = {Meant(intent)}
           /\ RequestOf(intent).base = ApiHostName
           /\ RequestOf(intent).responseType = "json"
<1> DEFINE p == intent.provider
           s == intent.server
           i == intent.image
           request == RequestOf(intent)
<1>1. CASE intent.kind = "stop"
  <2>1. request = ServerInstancesStopServer(p, s) /\ Absent \notin {p, s}
    BY <1>1, AbsentAssumption DEF RequestOf, Complete
  <2>2. Meant(intent) = [action |-> "StopServer",
                         args |-> {<<"provider", p>>, <<"serverId", s>>}, cmd |-> Absent]
    BY <1>1 DEF Meant, Call
  <2>3. request = Request("DELETE", ServerPath(p, s), {}, Absent)
    BY <2>1 DEF ServerInstancesStopServer, Required
  <2> HIDE DEF p, s, i
  <2>4. Started(request) = {Meant(intent)}
    BY <2>1, <2>2, StopCalls
  <2>5. request.base = ApiHostName /\ request.responseType = "json"
    BY <2>3, RequestsOfHost
  <2> QED
    BY <2>4, <2>5
<1>2. CASE intent.kind = "terminate"
  <2>1. request = ServerInstancesTerminateServer(p, s) /\ Absent \notin {p, s}
    BY <1>2, AbsentAssumption DEF RequestOf, Complete
  <2>2. Meant(intent) = [action |-> "TerminateServer",
                         args |-> {<<"provider", p>>, <<"serverId", s>>}, cmd |-> Absent]
    BY <1>2 DEF Meant, Call
  <2>3. request = Request("DELETE", ServerPath(p, s) \o <<Literal("permanent")>>, {}, Absent)
    BY <2>1 DEF ServerInstancesTerminateServer, Required
  <2> HIDE DEF p, s, i
  <2>4. Started(request) = {Meant(intent)}
    BY <2>1, <2>2, TerminateCalls
  <2>5. request.base = ApiHostName /\ request.responseType = "json"
    BY <2>3, RequestsOfHost
  <2> QED
    BY <2>4, <2>5
<1>3. CASE intent.kind = "shutdown"
  <2>1. /\ request = ImagesShutdownContainer(s, p, i, <<s, i>>)
        /\ Absent \notin {s, p, i, <<s, i>>}
    BY <1>3, AbsentAssumption DEF RequestOf, Container, Complete
  <2>2. Meant(intent) = [action |-> "ShutdownContainer",
                         args |-> {<<"serverId", s>>, <<"providerId", p>>, <<"imageId", i>>,
                                   <<"containerId", <<s, i>>>>}, cmd |-> Absent]
    BY <1>3 DEF Meant, Call
  <2>3. \E query : request = Request("DELETE", SpawnPath, query, Absent)
    BY <2>1 DEF ImagesShutdownContainer
  <2> HIDE DEF p, s, i
  <2>4. Started(request) = {Meant(intent)}
    BY <2>1, <2>2, ShutdownCalls
  <2>5. request.base = ApiHostName /\ request.responseType = "json"
    BY <2>3, RequestsOfHost
  <2> QED
    BY <2>4, <2>5
<1>4. CASE intent.kind \in {"start", "run"}
  <2> DEFINE cmd == [providerName |-> p, stoppedInstanceId |-> s]
  <2>1. request = ServerInstancesStartOrRunServer(cmd)
    BY <1>4 DEF RequestOf, StartOrRunServerInstanceCommand
  <2>2. Meant(intent) = [action |-> "StartOrRunServer", args |-> {}, cmd |-> cmd]
    BY <1>4 DEF Meant, Call
  <2>3. request = Request("POST", ServersPath, {}, cmd)
    BY <2>1 DEF ServerInstancesStartOrRunServer
  <2> HIDE DEF cmd
  <2> QED
    BY <2>1, <2>2, <2>3, PostCalls, RequestsOfHost
<1>5. CASE intent.kind = "spawn"
  <2> DEFINE cmd == [imageId |-> i, parameters |-> "parameters", serverId |-> s]
  <2>1. request = ImagesSpawnImage(cmd)
    BY <1>5 DEF RequestOf, SpawnImageCommand
  <2>2. Meant(intent) = [action |-> "SpawnImage", args |-> {}, cmd |-> cmd]
    BY <1>5 DEF Meant, Call
  <2>3. request = Request("POST", SpawnPath, {}, cmd)
    BY <2>1 DEF ImagesSpawnImage
  <2> HIDE DEF cmd
  <2> QED
    BY <2>1, <2>2, <2>3, PostCalls, RequestsOfHost
<1>6. CASE intent.kind = "create"
  <2> DEFINE cmd == [imageName |-> "name", slug |-> "slug", imageType |-> "Monitor",
                     requiredSpawnParameters |-> "parameters"]
  <2>1. request = ImagesCreate(cmd)
    BY <1>6 DEF RequestOf, CreateImageCommand
  <2>2. Meant(intent) = [action |-> "Create", args |-> {}, cmd |-> cmd]
    BY <1>6 DEF Meant, Call
  <2>3. request = Request("POST", ImagesPath, {}, cmd)
    BY <2>1 DEF ImagesCreate
  <2> HIDE DEF cmd
  <2> QED
    BY <2>1, <2>2, <2>3, PostCalls, RequestsOfHost
<1>7. CASE intent.kind = "remove"
  <2>1. request = ImagesRemove(i) /\ i # Absent
    BY <1>7, AbsentAssumption DEF RequestOf, Complete
  <2>2. Meant(intent) = [action |-> "Remove", args |-> {<<"imageId", i>>}, cmd |-> Absent]
    BY <1>7 DEF Meant, Call
  <2>3. \E query : request = Request("DELETE", ImagesPath, query, Absent)
    BY <2>1 DEF ImagesRemove
  <2> HIDE DEF i
  <2> QED
    BY <2>1, <2>2, <2>3, RemoveCalls, RequestsOfHost
<1> QED
  BY <1>1, <1>2, <1>3, <1>4, <1>5, <1>6, <1>7 DEF Kind, Complete

AskedInv ==
    /\ \A s \in Slot : InUse(s) /\ ops[s].step = "operation" => Complete(ops[s].intent)
    /\ dialog # Absent => Complete(dialog.intent)

\* An operation that is still at its first call asks for what it did.
SameCall(s) ==
    ops'[s].step = "operation" =>
        InUse(s) /\ ops[s].step = "operation" /\ ops'[s].intent = ops[s].intent

\* Nothing is asked.
LEMMA QuietAsked ==
    ASSUME AskedInv, \A s \in Slot : InUse(s)' => SameCall(s),
           dialog' = Absent \/ (dialog # Absent /\ dialog'.intent = dialog.intent)
    PROVE  AskedInv'
  BY DEF AskedInv, SameCall, InUse, Complete

\* Something is.
LEMMA ExecuteAsked ==
    ASSUME OpsTypeOK, AskedInv, NEW intent \in Intent, NEW tracker \in Tracker \cup {Absent},
           NEW modal \in BOOLEAN, Execute(intent, tracker, modal), Complete(intent),
           dialog' = Absent \/ (dialog # Absent /\ dialog'.intent = dialog.intent)
    PROVE  AskedInv'
<1>1. PICK s \in Slot :
            /\ ~InUse(s)
            /\ ops' = [ops EXCEPT ![s] =
                         [intent |-> intent, step |-> "operation", answer |-> "none",
                          list |-> {}, tracker |-> tracker, modal |-> modal]]
            /\ InUse(s)'
  BY ExecuteOps
<1>2. /\ ops'[s].intent = intent
      /\ \A t \in Slot : t # s => ops'[t] = ops[t]
  BY <1>1 DEF OpsTypeOK
<1> QED
  BY <1>2 DEF AskedInv, InUse, Complete

\* A window opens.
LEMMA OpenAsked ==
    ASSUME AskedInv, NEW intent, NEW tracker, Open(intent, tracker), Complete(intent)
    PROVE  AskedInv'
  BY DEF AskedInv, Open, InUse, Complete

\* Clicks name servers with their providers, and images.
LEMMA AskedComplete ==
    ASSUME NEW kind \in Kind \ {"load"}, NEW server \in Server \cup {Absent},
           NEW image \in Image \cup {Absent},
           kind \in {"stop", "terminate", "shutdown"} => server \in Server,
           kind \in {"shutdown", "remove"} => image \in Image
    PROVE  Asked(kind, server, image) \in Intent /\ Complete(Asked(kind, server, image))
<1>1. server \in Server => server # Absent /\ ProviderOf[server] \in Provider
  BY AbsentAssumption, ProviderOfAssumption
<1> QED
  BY <1>1, AskedType DEF Asked, Complete

\* The first state.
LEMMA InitAsked == Init => AskedInv
  BY NoRecordAssumption DEF Init, AskedInv, InUse, Load

\* Clicks.
LEMMA ClickAsked ==
    ASSUME TypeOK, AskedInv,
           \/ \E s \in Server : OfServer(s)
           \/ \E p \in Provider : RunInstance(p)
           \/ \E i \in Image : OfImage(i)
           \/ AddNewMonitor \/ Confirm
    PROVE  AskedInv'
<1> USE Groups
<1>1. ASSUME NEW s \in Server, OfServer(s)
      PROVE  AskedInv'
  <2>1. CASE StartServer(s)
    <3>1. Asked("start", s, Absent) \in Intent /\ Complete(Asked("start", s, Absent))
      BY AskedComplete DEF Kind
    <3>2. Execute(Asked("start", s, Absent), s, FALSE) /\ dialog' = dialog /\ dialog = Absent
      BY <2>1 DEF StartServer, At
    <3> QED
      BY <3>1, <3>2, ExecuteAsked DEF Tracker
  <2>2. CASE StopServer(s)
    <3>1. Complete(Asked("stop", s, Absent))
      BY AskedComplete DEF Kind
    <3> QED
      BY <2>2, <3>1, OpenAsked DEF StopServer
  <2>3. CASE TerminateServer(s)
    <3>1. Complete(Asked("terminate", s, Absent))
      BY AskedComplete DEF Kind
    <3> QED
      BY <2>3, <3>1, OpenAsked DEF TerminateServer
  <2>4. CASE Shutdown(s)
    <3>1. shownServers[s].image \in Image
      BY <2>4 DEF Shutdown, ViewTypeOK, InstanceList, ServerInstance
    <3>2. Complete(Asked("shutdown", s, shownServers[s].image))
      BY <3>1, AskedComplete DEF Kind
    <3> QED
      BY <2>4, <3>2, OpenAsked DEF Shutdown
  <2> QED
    BY <1>1, <2>1, <2>2, <2>3, <2>4 DEF OfServer
<1>2. ASSUME NEW p \in Provider, RunInstance(p)
      PROVE  AskedInv'
  <2> DEFINE intent == [Asked("run", Absent, Absent) EXCEPT !.provider = p]
  <2>1. intent \in Intent /\ intent.kind = "run"
    BY AskedType DEF Kind, Intent, Asked
  <2>2. Complete(intent)
    BY <2>1 DEF Complete
  <2>3. Execute(intent, "dashboard", FALSE) /\ dialog' = dialog /\ dialog = Absent
    BY <1>2 DEF RunInstance, At
  <2> HIDE DEF intent
  <2> QED
    BY <2>1, <2>2, <2>3, ExecuteAsked DEF Tracker
<1>3. ASSUME NEW i \in Image, OfImage(i)
      PROVE  AskedInv'
  <2>1. CASE RemoveImage(i)
    <3>1. Asked("remove", Absent, i) \in Intent /\ Complete(Asked("remove", Absent, i))
      BY AskedComplete DEF Kind
    <3>2. Execute(Asked("remove", Absent, i), "images", FALSE) /\ dialog' = dialog
          /\ dialog = Absent
      BY <2>1 DEF RemoveImage, At
    <3> QED
      BY <3>1, <3>2, ExecuteAsked DEF Tracker
  <2>2. CASE ShowSpawnImageWindow(i)
    <3>1. Complete(Asked("spawn", Absent, i))
      BY AskedComplete DEF Kind
    <3> QED
      BY <2>2, <3>1, OpenAsked DEF ShowSpawnImageWindow
  <2> QED
    BY <1>3, <2>1, <2>2 DEF OfImage
<1>4. CASE AddNewMonitor
  <2>1. Complete(Asked("create", Absent, Absent))
    BY AskedComplete DEF Kind
  <2> QED
    BY <1>4, <2>1, OpenAsked DEF AddNewMonitor
<1>5. CASE Confirm
  <2>1. dialog \in Dialog /\ Complete(dialog.intent)
    BY <1>5 DEF Confirm, ViewTypeOK, AskedInv
  <2>2. PICK server \in IF dialog.intent.kind = "spawn" THEN ServerChoice
                        ELSE {dialog.intent.server} :
              Execute([dialog.intent EXCEPT !.server = server], dialog.tracker, TRUE)
    BY <1>5 DEF Confirm
  <2>3. server \in Server \cup {Absent}
    BY <2>1 DEF ServerChoice, Dialog, Intent
  <2> DEFINE intent == [dialog.intent EXCEPT !.server = server]
  <2>4. /\ intent \in Intent /\ dialog.tracker \in Tracker \cup {Absent}
        /\ intent.kind = dialog.intent.kind /\ intent.provider = dialog.intent.provider
        /\ intent.image = dialog.intent.image
        /\ intent.kind # "spawn" => intent.server = dialog.intent.server
    BY <2>1, <2>2, <2>3 DEF Dialog, Intent
  <2>5. Complete(intent)
    BY <2>1, <2>4 DEF Complete
  <2>6. dialog'.intent = dialog.intent /\ dialog # Absent
    BY <1>5, <2>1 DEF Confirm, Dialog
  <2>7. Execute(intent, dialog.tracker, TRUE)
    BY <2>2
  <2> HIDE DEF intent
  <2> QED
    BY <2>4, <2>5, <2>6, <2>7, ExecuteAsked
<1> QED
  BY <1>1, <1>2, <1>3, <1>4, <1>5

\* Every step keeps it.
LEMMA NextAsked == TypeOK /\ ModalInv /\ AskedInv /\ [Next]_vars => AskedInv'
<1> SUFFICES ASSUME TypeOK, ModalInv, AskedInv, [Next]_vars
             PROVE  AskedInv'
  OBVIOUS
<1> USE Groups
<1>1. ASSUME UNCHANGED ops, dialog' = dialog \/ dialog' = Absent
      PROVE  AskedInv'
  BY <1>1, QuietAsked DEF SameCall, InUse
<1>2. CASE \/ Cancel \/ (\E list \in lists : LoseServers(list)) \/ ServeServers \/ Poll
           \/ Elsewhere \/ UNCHANGED vars
  BY <1>1, <1>2 DEF Cancel, LoseServers, Fault, ServeServers, Poll, Elsewhere, vars
<1>3. ASSUME NEW trackers \in SUBSET Tracker, ops' = Disposed(trackers),
             dialog' = Absent \/ (dialog # Absent /\ dialog'.intent = dialog.intent)
      PROVE  AskedInv'
  <2>1. \A t \in Slot : InUse(t)' => SameCall(t)
    BY <1>3, DisposedType DEF SameCall, InUse
  <2> QED
    BY <1>3, <2>1, QuietAsked
<1>4. ASSUME NEW url \in SecondLvlMenu, Navigate(url)
      PROVE  AskedInv'
  BY <1>3, <1>4 DEF Navigate
<1>5. ASSUME NEW list \in lists, ServersListed(list)
      PROVE  AskedInv'
  <2>1. dialog' = dialog \/ (dialog'.intent = dialog.intent /\ dialog # Absent)
    BY <1>5 DEF ServersListed, ViewTypeOK, Dialog
  <2> QED
    BY <1>3, <1>5, <2>1 DEF ServersListed, Tracker
<1>6. ASSUME NEW s \in Slot, InUse(s), ops[s] \in Op,
             \A t \in Slot : t # s => ops'[t] = ops[t],
             ops'[s] = Absent \/ SameCall(s),
             dialog' = Absent \/ (dialog # Absent /\ dialog'.intent = dialog.intent)
      PROVE  AskedInv'
  <2>1. \A t \in Slot : InUse(t)' => SameCall(t)
    BY <1>6 DEF SameCall, InUse
  <2> QED
    BY <1>6, <2>1, QuietAsked
<1>7. ASSUME NEW s \in Slot, ServeOperation(s) \/ ServeImages(s) \/ LoseCall(s)
      PROVE  AskedInv'
  <2>1. ops[s] \in Op /\ InUse(s) /\ dialog' = dialog
    BY <1>7, SlotOps DEF ServeOperation, ServeImages, ServedBy, LoseCall, Fault
  <2>2. /\ \A t \in Slot : t # s => ops'[t] = ops[t]
        /\ ops'[s].step = ops[s].step /\ ops'[s].intent = ops[s].intent
    BY <1>7, <2>1 DEF ServeOperation, ServeImages, LoseCall, OpsTypeOK, Op
  <2> QED
    BY <1>6, <2>1, <2>2 DEF SameCall
<1>8. ASSUME NEW s \in Slot, Receive(s)
      PROVE  AskedInv'
  <2>1. InUse(s) /\ ops[s] \in Op
    BY <1>8, SlotOps
    DEF Receive, OperationSucceeds, OperationFails, ImagesListed, ImagesNotListed, Answered
  <2>2. dialog' = dialog \/ \E b \in BOOLEAN : CloseDialog(s, b)
    BY <1>8 DEF Receive, OperationSucceeds, OperationFails, ImagesListed, ImagesNotListed
  <2>3. dialog' = Absent \/ (dialog # Absent /\ dialog'.intent = dialog.intent)
    BY <2>1, <2>2 DEF CloseDialog, ViewTypeOK, Dialog, ModalInv, Modal
  <2>4. \/ Finish(s)
        \/ ops' = [ops EXCEPT ![s].step = "list", ![s].answer = "none"]
        \/ ops' = [ops EXCEPT ![s].step = "hung"]
    BY <1>8 DEF Receive, OperationSucceeds, OperationFails, ImagesListed, ImagesNotListed
  <2>5. /\ \A t \in Slot : t # s => ops'[t] = ops[t]
        /\ ops'[s] = Absent \/ ops'[s].step # "operation"
    BY <2>1, <2>4 DEF Finish, OpsTypeOK, Op
  <2> QED
    BY <1>6, <2>1, <2>3, <2>5 DEF SameCall
<1> QED
  BY <1>2, <1>4, <1>5, <1>7, <1>8, ClickAsked DEF Next

\* At its first call, an operation is routed.
LEMMA AskedRouted == TypeOK /\ AskedInv => RequestsAreRouted
<1> SUFFICES ASSUME TypeOK, AskedInv, NEW s \in Slot, InUse(s), ops[s].step = "operation"
             PROVE  /\ Started(RequestOf(ops[s].intent)) = {Meant(ops[s].intent)}
                    /\ RequestOf(ops[s].intent).base = ApiHostName
                    /\ RequestOf(ops[s].intent).responseType = "json"
                    /\ Started(ImagesGetAvailableImagesList) =
                          {Call("GetAvailableImagesList", {}, Absent)}
                    /\ Started(ServerInstancesGetServersList) =
                          {Call("GetServersList", {}, Absent)}
  BY DEF RequestsAreRouted
<1>1. ops[s].intent.kind \in Kind /\ Complete(ops[s].intent)
  BY Groups, SlotOps DEF AskedInv, Op, Intent
<1> QED
  BY <1>1, CompleteRouted, ListCalls DEF Call

-----------------------------------------------------------------------------
(* What blocked windows wait for *)

\* No window runs a new server: that operation would end without an answer for it.
WaitInv ==
    /\ BlockedWindowsWait
    /\ dialog # Absent => dialog.intent.kind # "run"

\* The operation of a window goes on.
GoesOn(s) == InUse(s)' /\ ops'[s].modal /\ ops'[s].intent = ops[s].intent

\* A window is as blocked as it was, and its operation is still there.
LEMMA KeepsWaiting ==
    ASSUME WaitInv, \A s \in Slot : Modal(s) => GoesOn(s),
           \/ dialog' = Absent
           \/ dialog # Absent /\ dialog.busy = dialog'.busy /\ dialog'.intent = dialog.intent
    PROVE  WaitInv'
  BY DEF WaitInv, BlockedWindowsWait, GoesOn, Modal, InUse

\* No window, or one that can be used.
LEMMA NothingBlocked ==
    ASSUME \/ dialog' = Absent
           \/ ~dialog'.busy /\ dialog'.intent.kind # "run"
    PROVE  WaitInv'
  BY DEF WaitInv, BlockedWindowsWait

\* Clicks open windows, or leave none open.
LEMMA ClickWaits ==
    ASSUME \/ \E s \in Server : OfServer(s)
           \/ \E p \in Provider : RunInstance(p)
           \/ \E i \in Image : OfImage(i)
           \/ AddNewMonitor \/ Cancel
           \/ \E url \in SecondLvlMenu : Navigate(url)
    PROVE  WaitInv'
<1>1. ASSUME NEW kind \in Kind \ {"run"}, NEW server, NEW image, NEW tracker,
             Open(Asked(kind, server, image), tracker)
      PROVE  WaitInv'
  <2>1. ~dialog'.busy /\ dialog'.intent = Asked(kind, server, image)
    BY <1>1 DEF Open
  <2>2. dialog'.intent.kind = kind
    BY <2>1 DEF Asked
  <2> QED
    BY <2>1, <2>2, NothingBlocked
<1>2. ASSUME NEW s \in Server, OfServer(s)
      PROVE  WaitInv'
  BY <1>1, <1>2, NothingBlocked
  DEF OfServer, StopServer, TerminateServer, Shutdown, StartServer, At, Kind
<1>3. ASSUME NEW i \in Image, OfImage(i)
      PROVE  WaitInv'
  BY <1>1, <1>3, NothingBlocked DEF OfImage, ShowSpawnImageWindow, RemoveImage, At, Kind
<1>4. CASE AddNewMonitor
  BY <1>1, <1>4 DEF AddNewMonitor, Kind
<1>5. CASE (\E p \in Provider : RunInstance(p)) \/ Cancel \/ \E url \in SecondLvlMenu : Navigate(url)
  BY <1>5, NothingBlocked DEF RunInstance, At, Cancel, Navigate
<1> QED
  BY <1>2, <1>3, <1>4, <1>5

\* Confirmed, a window waits for the operation that starts.
LEMMA ConfirmWaits ==
    ASSUME TypeOK, WaitInv, Confirm
    PROVE  WaitInv'
<1> USE Groups
<1>1. dialog \in Dialog /\ dialog # Absent
  BY DEF Confirm, ViewTypeOK
<1>2. PICK server \in IF dialog.intent.kind = "spawn" THEN ServerChoice
                      ELSE {dialog.intent.server} :
            Execute([dialog.intent EXCEPT !.server = server], dialog.tracker, TRUE)
  BY DEF Confirm
<1>3. server \in Server \cup {Absent}
  BY <1>1 DEF ServerChoice, Dialog, Intent
<1> DEFINE intent == [dialog.intent EXCEPT !.server = server]
<1>4. /\ intent \in Intent /\ dialog.tracker \in Tracker \cup {Absent}
      /\ intent.kind = dialog.intent.kind /\ intent.image = dialog.intent.image
  BY <1>1, <1>3 DEF Dialog, Intent
<1>5. dialog'.intent = dialog.intent
  BY <1>1 DEF Confirm, Dialog
<1>6. Execute(intent, dialog.tracker, TRUE)
  BY <1>2
<1> HIDE DEF intent
<1>7. PICK s \in Slot :
            /\ ops' = [ops EXCEPT ![s] =
                         [intent |-> intent, step |-> "operation", answer |-> "none",
                          list |-> {}, tracker |-> dialog.tracker, modal |-> TRUE]]
            /\ InUse(s)'
  BY <1>4, <1>6, ExecuteOps
<1>8. ops'[s].intent = intent /\ ops'[s].modal
  BY <1>7 DEF OpsTypeOK
<1> QED
  BY <1>1, <1>4, <1>5, <1>7, <1>8 DEF WaitInv, BlockedWindowsWait, InUse

\* The operation of slot s takes a step that is not its last.
LEMMA GoOnWaits ==
    ASSUME TypeOK, WaitInv, NEW s \in Slot, InUse(s), NEW op \in Op,
           op.modal = ops[s].modal, op.intent = ops[s].intent,
           ops' = [ops EXCEPT ![s] = op], dialog' = dialog
    PROVE  WaitInv'
<1>1. ops'[s] = op /\ \A t \in Slot : t # s => ops'[t] = ops[t]
  BY Groups DEF OpsTypeOK
<1>2. \A t \in Slot : Modal(t) => GoesOn(t)
  BY <1>1, NoRecordAssumption DEF GoesOn, Modal, InUse
<1> QED
  BY <1>2, KeepsWaiting, NothingBlocked

\* An answer: the last one ends the wait of the window.
LEMMA ReceiveWaits ==
    ASSUME TypeOK, ModalInv, WaitInv, NEW s \in Slot, Receive(s)
    PROVE  WaitInv'
<1> USE Groups
<1>1. InUse(s) /\ ops[s] \in Op
  BY SlotOps
  DEF Receive, OperationSucceeds, OperationFails, ImagesListed, ImagesNotListed, Answered
<1>2. ASSUME Finish(s), ~ops[s].modal, dialog' = dialog
      PROVE  WaitInv'
  <2>1. \A t \in Slot : Modal(t) => ops'[t] = ops[t]
    BY <1>2 DEF Finish, OpsTypeOK, Modal
  <2>2. \A t \in Slot : Modal(t) => GoesOn(t)
    BY <2>1 DEF GoesOn, Modal, InUse
  <2> QED
    BY <1>2, <2>2, KeepsWaiting, NothingBlocked
<1>3. ASSUME Finish(s), NEW b \in BOOLEAN, CloseDialog(s, b)
      PROVE  WaitInv'
  <2>1. CASE ops[s].modal
    <3>1. dialog \in Dialog /\ dialog # Absent
      BY <1>1, <2>1 DEF ModalInv, Modal, ViewTypeOK
    <3>2. dialog' = Absent \/ (~dialog'.busy /\ dialog'.intent = dialog.intent)
      BY <1>3, <2>1, <3>1 DEF CloseDialog, Dialog
    <3> QED
      BY <3>1, <3>2, NothingBlocked DEF WaitInv
  <2>2. CASE ~ops[s].modal
    BY <1>2, <1>3, <2>2 DEF CloseDialog
  <2> QED
    BY <2>1, <2>2
<1>4. CASE OperationFails(s) \/ ImagesListed(s)
  BY <1>3, <1>4 DEF OperationFails, ImagesListed
<1>5. CASE OperationSucceeds(s)
  <2>1. dialog' = dialog
    BY <1>5 DEF OperationSucceeds
  <2>2. CASE ops[s].intent.kind = "run" /\ Finish(s)
    <3>1. ASSUME ops[s].modal
          PROVE  FALSE
      <4>1. Modal(s)
        BY <1>1, <3>1 DEF Modal
      <4>2. PICK t \in Slot : Modal(t) /\ ops[t].intent.kind = dialog.intent.kind
        BY <4>1 DEF WaitInv, BlockedWindowsWait, ModalInv, Modal
      <4>3. t = s /\ dialog # Absent
        BY <4>1, <4>2 DEF ModalInv
      <4> QED
        BY <2>2, <4>2, <4>3 DEF WaitInv
    <3> QED
      BY <1>2, <2>1, <2>2, <3>1
  <2>3. CASE ops' = [ops EXCEPT ![s].step = "list", ![s].answer = "none"]
    <3> DEFINE op == [ops[s] EXCEPT !.step = "list", !.answer = "none"]
    <3>1. op \in Op /\ op.modal = ops[s].modal /\ op.intent = ops[s].intent
      BY <1>1 DEF Op
    <3>2. ops' = [ops EXCEPT ![s] = op]
      BY <2>3 DEF OpsTypeOK
    <3> QED
      BY <1>1, <2>1, <3>1, <3>2, GoOnWaits
  <2> QED
    BY <1>5, <2>2, <2>3 DEF OperationSucceeds
<1>6. CASE ImagesNotListed(s)
  <2> DEFINE op == [ops[s] EXCEPT !.step = "hung"]
  <2>1. op \in Op /\ op.modal = ops[s].modal /\ op.intent = ops[s].intent
    BY <1>1 DEF Op
  <2>2. ops' = [ops EXCEPT ![s] = op] /\ dialog' = dialog
    BY <1>6 DEF ImagesNotListed, OpsTypeOK
  <2> QED
    BY <1>1, <2>1, <2>2, GoOnWaits
<1> QED
  BY <1>4, <1>5, <1>6 DEF Receive

\* Every step keeps it.
LEMMA NextWaits == TypeOK /\ ModalInv /\ WaitInv /\ [Next]_vars => WaitInv'
<1> SUFFICES ASSUME TypeOK, ModalInv, WaitInv, [Next]_vars
             PROVE  WaitInv'
  OBVIOUS
<1> USE Groups
<1>1. CASE UNCHANGED <<ops, dialog>>
  BY <1>1 DEF WaitInv, BlockedWindowsWait, InUse
<1>2. ASSUME NEW list \in lists, ServersListed(list)
      PROVE  WaitInv'
  <2>1. ops' = Disposed(Server)
    BY <1>2 DEF ServersListed
  <2>2. \A t \in Slot : Modal(t) => GoesOn(t)
    BY <2>1, DisposedType DEF GoesOn, Modal, InUse
  <2>3. \/ dialog' = Absent
        \/ dialog # Absent /\ dialog.busy = dialog'.busy /\ dialog'.intent = dialog.intent
    BY <1>2 DEF ServersListed, ViewTypeOK, Dialog
  <2> QED
    BY <2>2, <2>3, KeepsWaiting
<1>3. ASSUME NEW s \in Slot, ServeOperation(s) \/ ServeImages(s) \/ LoseCall(s)
      PROVE  WaitInv'
  <2>1. ops[s] \in Op /\ InUse(s) /\ dialog' = dialog
    BY <1>3, SlotOps DEF ServeOperation, ServeImages, ServedBy, LoseCall, Fault
  <2>2. ops'[s] \in Op
    BY <1>3, <2>1, Groups, NextType DEF ServeOperation, ServeImages, LoseCall, OpsTypeOK, Op, ApiTypeOK
  <2>3. /\ ops' = [ops EXCEPT ![s] = ops'[s]]
        /\ ops'[s].modal = ops[s].modal /\ ops'[s].intent = ops[s].intent
    BY <1>3, <2>1 DEF ServeOperation, ServeImages, LoseCall, OpsTypeOK, Op
  <2> QED
    BY <2>1, <2>2, <2>3, GoOnWaits
<1>4. CASE \/ (\E list \in lists : LoseServers(list)) \/ ServeServers \/ Poll \/ Elsewhere
           \/ UNCHANGED vars
  BY <1>1, <1>4 DEF LoseServers, Fault, ServeServers, Poll, Elsewhere, vars
<1> QED
  BY <1>2, <1>3, <1>4, ClickWaits, ConfirmWaits, ReceiveWaits DEF Next

-----------------------------------------------------------------------------
(* Theorems *)

\* All that is inductive.
Invariant == TypeOK /\ ModalInv /\ TrackersHaveOperations /\ RemovedInv /\ AskedInv /\ WaitInv

\* The first state.
LEMMA InitInvariant == Init => Invariant
<1> SUFFICES ASSUME Init
             PROVE  Invariant
  OBVIOUS
<1>1. ModalInv
  BY NoRecordAssumption DEF Init, ModalInv, Modal, InUse, Load
<1>2. TrackersHaveOperations
  BY DEF Init, TrackersHaveOperations
<1>3. WaitInv
  BY DEF Init, WaitInv, BlockedWindowsWait
<1> QED
  BY <1>1, <1>2, <1>3, InitType, InitRemoved, InitAsked DEF Invariant

\* Every step.
LEMMA NextInvariant == Invariant /\ [Next]_vars => Invariant'
  BY NextType, NextModal, NextLoading, NextRemoved, NextAsked, NextWaits DEF Invariant

\* Always.
LEMMA Always == Spec => []Invariant
  BY InitInvariant, NextInvariant, PTL DEF Spec

\* Every variable of the console keeps its type: in particular no answer writes to a window
\* that is closed, and no list holds what the API does not know (all actions).
THEOREM TypeCorrect == Spec => []TypeOK
<1>1. Invariant => TypeOK
  BY DEF Invariant
<1> QED
  BY <1>1, Always, PTL

\* No indicator stays on without an operation, however many run at once, whatever becomes
\* of them, and when the rows or the page are replaced (AsyncProgressTracker); and no window
\* stays blocked after the answer it waited for, or is unblocked by another's
\* (executeBlocking, showModal, executeRangeAsAsync).
THEOREM NoStrayIndicator == Spec => []LoadingMeansRunning
<1>1. Invariant => LoadingMeansRunning
  BY DEF Invariant, WaitInv, LoadingMeansRunning
<1> QED
  BY <1>1, Always, PTL

\* The list a removal ends with was made after it (executeRangeAsAsync), which the request
\* of ImagesService.imagesRemove, the route it takes and the ids of the database are needed for.
THEOREM RemovedImagesLeaveTheList == Spec => ListsFollowOperations
<1>1. Invariant /\ [Next]_vars =>
        [\A s \in Slot :
           InUse(s) /\ ops'[s] = Absent /\ ops[s].step = "list" /\ ops[s].intent.kind = "remove"
              => ops[s].intent.image \notin shownImages']_vars
  BY NextLists DEF Invariant
<1> QED
  BY <1>1, Always, PTL DEF Spec, ListsFollowOperations

\* A request starts the action the user meant, and no other, for the server and the image
\* that were clicked, whatever became of the rows since (RequestOf, and the routes, queries
\* and bodies of ApiClient).
THEOREM RequestsReachTheirActions == Spec => []RequestsAreRouted
<1>1. Invariant => RequestsAreRouted
  BY AskedRouted DEF Invariant
<1> QED
  BY <1>1, Always, PTL
=============================================================================
