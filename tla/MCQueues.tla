------------------------------- MODULE MCQueues -------------------------------
(***************************************************************************)
(* Model-checking instance of two queues of the database: web push and the *)
(* ActivityPub inbox (here with notes; module MCFollows has the follows).  *)
(* A behaviour is about one of the two, chosen at the start.               *)
(***************************************************************************)
EXTENDS WebPush, FederationInbox

VARIABLE subject

QueuesInit == subject \in {"push", "inbox"} /\ PushInit /\ InboxInit

QueuesNext ==
  \/ subject = "push" /\ PushNext /\ UNCHANGED <<subject, inboxVars>>
  \/ subject = "inbox" /\ InboxNext /\ UNCHANGED <<subject, pushVars>>

\* The fairness of the push workers, and that of the inbox workers and clocks;
\* nothing is ever enabled in the queue that a behaviour is not about.
QueuesFairness ==
  /\ PushFairness
  /\ \A w \in InboxWorkers : WF_inboxVars(InboxStep(w))
  /\ \A a \in Activities : WF_inboxVars(IntakeLeaseExpires(a)) /\ WF_inboxVars(BecomesDue(a))

QueuesSpec ==
  QueuesInit /\ [][QueuesNext]_<<subject, pushVars, inboxVars>> /\ QueuesFairness
=============================================================================
