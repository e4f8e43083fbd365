------------------------------- MODULE MCApps -------------------------------
(***************************************************************************)
(* What an app has to do with Studio: the calls it makes (AppCalls) and    *)
(* what it is told (Webhooks).  The two share no state, so a behaviour is  *)
(* of one of them, part, and leaves the other as it starts.                *)
(***************************************************************************)
EXTENDS AppCalls, Webhooks

VARIABLE part

appsVars == <<part, callVars, hookVars>>

InCalls(A) == part = "calls" /\ A /\ UNCHANGED <<part, hookVars>>
InHooks(A) == part = "webhooks" /\ A /\ UNCHANGED <<part, callVars>>

AppsInit ==
  /\ part \in {"calls", "webhooks"}
  /\ CallsInit /\ (part = "webhooks" => guarded)
  /\ WebhooksInit

AppsNext ==
  \/ \E c \in Calls :
       \/ InCalls(Ring(c)) \/ InCalls(InsertKey(c)) \/ InCalls(ReadKey(c))
       \/ InCalls(TakeKey(c)) \/ InCalls(Check(c)) \/ InCalls(RefuseCall(c))
       \/ InCalls(Write(c)) \/ InCalls(Reply(c)) \/ InCalls(Fault(c))
       \/ InCalls(ReplyUnstored(c)) \/ InCalls(Drop(c))
  \/ \E id \in releases : InCalls(ReleaseClaim(id))
  \/ InCalls(Stop)
  \/ InCalls(Tick)
  \/ \E s \in PaymentStatuses : InHooks(Changes(s))
  \/ InHooks(Publish) \/ InHooks(HandleEvent) \/ InHooks(EnqueueNotice)
  \/ InHooks(WriterThrows)
  \/ \E d \in Dispatches :
       InHooks(BeginDispatch(d)) \/ InHooks(Post(d)) \/ InHooks(PostThrows(d))
  \/ \E i \in Ids : InHooks(RetryByHand(i))
  \/ InHooks(ClearUndelivered) \/ InHooks(SwitchDeveloper) \/ InHooks(HooksStop)

\* CallsFairness and WebhooksFairness, each in the behaviours that are its own.
AppsFairness ==
  /\ WF_appsVars(InCalls(Tick))
  /\ \A c \in Calls :
       WF_appsVars(InCalls(Ring(c))) /\ WF_appsVars(InCalls(CallStep(c)))
  /\ \A d \in Dispatches : WF_appsVars(InHooks(DispatchStep(d)))

AppsSpec == AppsInit /\ [][AppsNext]_appsVars /\ AppsFairness
=============================================================================
