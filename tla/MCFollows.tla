------------------------------ MODULE MCFollows ------------------------------
(***************************************************************************)
(* Model-checking instance of the two directions of a follow, remote       *)
(* actors that follow an account and accounts that follow remote actors.   *)
(* A behaviour is about one of the two, chosen at the start.               *)
(***************************************************************************)
EXTENDS FederationInbox, OutboundFollow, TLC

VARIABLE subject

FollowsInit ==
  /\ subject \in {"inbound", "outbound"} /\ InboxInit /\ Init
  /\ subject = "inbound" => fits

FollowsNext ==
  \/ subject = "inbound" /\ InboxNext /\ UNCHANGED <<subject, vars>>
  \/ subject = "outbound" /\ Next /\ UNCHANGED <<subject, inboxVars>>

FollowsSpec == FollowsInit /\ [][FollowsNext]_<<subject, vars, inboxVars>>

Symmetry == Permutations(InboxWorkers) \union Permutations(Sessions)
=============================================================================
