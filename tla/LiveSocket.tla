----------------------------- MODULE LiveSocket -----------------------------
(***************************************************************************)
(* The live channel of notifications (web/routes/notifications.py): a page *)
(* fetches a one-shot ticket, opens a WebSocket, spends the ticket, and    *)
(* the handler then polls the inbox past a cursor and sends what it finds. *)
(*                                                                         *)
(* An event's place in the inbox, (created_at, id), is drawn when its      *)
(* transaction starts; the row appears when it commits.  Two transactions  *)
(* may therefore commit out of order.  One account, one login session.     *)
(***************************************************************************)
EXTENDS Naturals, FiniteSets

CONSTANTS Tickets, Sockets,
          MaxPlaces, \* bound: events
          Page       \* LIMIT of the poll

ASSUME LiveAssumption == MaxPlaces \in Nat /\ Page \in Nat \ {0}

VARIABLES drawn,     \* places drawn so far
          writing,   \* places whose transaction has not committed
          events,    \* the committed events
          session,   \* the login session is valid
          live,      \* live_wss_enabled
          ticket,    \* notification_ws_tickets
          socket,    \* the connections
          afterEnd   \* events committed after the session ended

liveVars == <<drawn, writing, events, session, live, ticket, socket, afterEnd>>

Closed == [phase |-> "closed", cursor |-> 0, page |-> {}, sent |-> {}]

LiveInit ==
    /\ drawn = 0 /\ writing = {} /\ events = {}
    /\ session = TRUE /\ live = TRUE
    /\ ticket = [t \in Tickets |-> "none"]
    /\ socket = [k \in Sockets |-> Closed]
    /\ afterEnd = {}

\* create_notification, its INSERT and the COMMIT of the caller's transaction.
EventStarts ==
    /\ drawn < MaxPlaces
    /\ drawn' = drawn + 1
    /\ writing' = writing \cup {drawn + 1}
    /\ UNCHANGED <<events, session, live, ticket, socket, afterEnd>>

EventCommits(e) ==
    /\ e \in writing
    /\ writing' = writing \ {e}
    /\ events' = events \cup {e}
    /\ afterEnd' = IF session THEN afterEnd ELSE afterEnd \cup {e}
    /\ UNCHANGED <<drawn, session, live, ticket, socket>>

\* Logout, expiry or revocation of the session; the account's switch.
SessionEnds ==
    /\ session
    /\ session' = FALSE
    /\ UNCHANGED <<drawn, writing, events, live, ticket, socket, afterEnd>>

LiveSwitched ==
    /\ session
    /\ live' = ~live
    /\ UNCHANGED <<drawn, writing, events, session, ticket, socket, afterEnd>>

IssueTicket(t) ==
    /\ session /\ live
    /\ ticket[t] = "none"
    /\ ticket' = [ticket EXCEPT ![t] = "issued"]
    /\ UNCHANGED <<drawn, writing, events, session, live, socket, afterEnd>>

TicketLapses(t) ==
    /\ ticket[t] = "issued"
    /\ ticket' = [ticket EXCEPT ![t] = "lapsed"]
    /\ UNCHANGED <<drawn, writing, events, session, live, socket, afterEnd>>

-----------------------------------------------------------------------------
\* notifications_socket, up to the wait for the first frame.
SocketOpens(k) ==
    /\ socket[k].phase = "closed"
    /\ session /\ live
    /\ socket' = [socket EXCEPT ![k].phase = "hello"]
    /\ UNCHANGED <<drawn, writing, events, session, live, ticket, afterEnd>>

\* consume_ws_ticket: one conditional update.
ConsumeTicket(t) ==
    /\ ticket[t] = "issued"
    /\ ticket' = [ticket EXCEPT ![t] = "consumed"]

\* The client names the last event it saw; a connection that names none, or
\* one the account does not have, starts at the old ones.
StartAt(seen) == [Closed EXCEPT !.phase = "ready", !.cursor = seen]

SocketAuthenticates(k, t, seen) ==
    /\ socket[k].phase = "hello"
    /\ ConsumeTicket(t)
    /\ socket' = [socket EXCEPT ![k] = StartAt(seen)]
    /\ UNCHANGED <<drawn, writing, events, session, live, afterEnd>>

\* Mutation: the session was checked when the connection was made.
SessionHeld(k) == TRUE

\* Each round reads the session and the account, then the switch, then the
\* events: three statements of a transaction that sees what committed in between
\* (READ COMMITTED).
SessionHolds(k) == session

SocketChecks(k) ==
    /\ socket[k].phase = "ready"
    /\ SessionHolds(k)
    /\ socket' = [socket EXCEPT ![k].phase = "known"]
    /\ UNCHANGED <<drawn, writing, events, session, live, ticket, afterEnd>>

SocketAsks(k) ==
    /\ socket[k].phase = "known"
    /\ live
    /\ socket' = [socket EXCEPT ![k].phase = "allowed"]
    /\ UNCHANGED <<drawn, writing, events, session, live, ticket, afterEnd>>

Due(k) == {e \in events : e > socket[k].cursor}

\* The first rows past the cursor, in the inbox's order: as many as the LIMIT
\* lets through.
IsPage(P, k) ==
    /\ Cardinality(P) <= Page
    /\ P # Due(k) => Cardinality(P) = Page
    /\ \A e \in P, d \in Due(k) \ P : e < d

SocketSelects(k) ==
    /\ socket[k].phase = "allowed"
    /\ \E P \in SUBSET Due(k) :
         /\ IsPage(P, k)
         /\ socket' = [socket EXCEPT ![k] = [@ EXCEPT !.phase = "sending", !.page = P]]
    /\ UNCHANGED <<drawn, writing, events, session, live, ticket, afterEnd>>

\* An event of a type the account muted moves the cursor and is not sent.
SocketSends(k, muted) ==
    \E e \in socket[k].page :
      LET sent == IF muted THEN socket[k].sent ELSE socket[k].sent \cup {e}
          rest == socket[k].page \ {e}
      IN
      /\ socket[k].phase = "sending"
      /\ \A d \in socket[k].page : e <= d
      /\ socket' = [socket EXCEPT ![k] = [@ EXCEPT !.sent = sent, !.cursor = e, !.page = rest]]
      /\ UNCHANGED <<drawn, writing, events, session, live, ticket, afterEnd>>

\* The end of a round: the unread count, and the wait for a ping.
SocketWaits(k) ==
    /\ socket[k].phase = "sending"
    /\ socket[k].page = {}
    /\ socket' = [socket EXCEPT ![k].phase = "ready"]
    /\ UNCHANGED <<drawn, writing, events, session, live, ticket, afterEnd>>

\* A refused poll, a wrong frame, a failed send, or the client goes.
SocketCloses(k) ==
    /\ socket[k].phase # "closed"
    /\ socket' = [socket EXCEPT ![k] = Closed]
    /\ UNCHANGED <<drawn, writing, events, session, live, ticket, afterEnd>>

LiveNext ==
    \/ EventStarts \/ SessionEnds \/ LiveSwitched
    \/ \E e \in writing : EventCommits(e)
    \/ \E t \in Tickets : IssueTicket(t) \/ TicketLapses(t)
    \/ \E k \in Sockets :
         \/ SocketOpens(k) \/ SocketWaits(k)
         \/ SocketChecks(k) \/ SocketAsks(k) \/ SocketSelects(k)
         \/ \E muted \in BOOLEAN : SocketSends(k, muted)
         \/ SocketCloses(k)
         \/ \E t \in Tickets, seen \in {0} \cup events : SocketAuthenticates(k, t, seen)

LiveSpec == LiveInit /\ [][LiveNext]_liveVars

-----------------------------------------------------------------------------
(* Properties.                                                             *)

\* What a connection has read or sent that was committed after the session ended.
LateOn(k) == (socket[k].page \cup socket[k].sent) \cap afterEnd

\* Of the events that commit after the session ended, a connection of that
\* session gets no more than one SELECT returns, the one that follows a check
\* made before the end; however long it stays open and however often it polls.
LogoutStopsSocket ==
    \A k \in Sockets : Cardinality(LateOn(k)) <= Page
=============================================================================
