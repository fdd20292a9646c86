------------------------------- MODULE RootLink -------------------------------
(***************************************************************************)
(* The root helper that collects data for the diagnostic report            *)
(* (src/diag/roothelper.cpp), and the app's end of the socket to it        *)
(* (src/diag/rootclient.cpp).                                              *)
(*                                                                         *)
(* systemd starts and stops the helper for the app; it also leaves by      *)
(* itself when it has no clients.  A request blocks the app until the      *)
(* answer is complete or a timeout ends the connection.  The helper does   *)
(* one thing at a time: it can be late with an answer, with a connection   *)
(* and with the end of one.                                                *)
(*                                                                         *)
(* DiagLog and RootLink are proved about in one module, so what every      *)
(* specification has (a type invariant, Init, Next) is named Link... here. *)
(***************************************************************************)
EXTENDS Naturals, Sequences, FiniteSets

CONSTANTS
    Commands,  \* the letters of the requests
    MaxPeers,  \* bound: connections made to the helper
    MaxStarts  \* bound: starts of the helper

NoCommand == "none"

ASSUME LinkAssumption ==
    NoCommand \notin Commands /\ MaxPeers \in Nat /\ MaxStarts \in Nat

VARIABLES
    wanted,      \* m_wanted
    retry,       \* m_retry is active
    sock,        \* connection that m_sock is connected with, 0 for none
    asking,      \* command of the request in progress
    phase,       \* of that request: it waits for the header or for the rest
    answered,    \* the command last asked, and the one answered
    helper,      \* the helper runs
    old,         \* it has for more than 20 s
    clients,     \* its counter of clients
    peers,       \* its connections, by number: who and in which state
    toHelper,    \* commands written and not handled: peer and command
    toApp,       \* parts of answers sent and not read by the app
    starts       \* starts of the helper so far

appVars    == <<wanted, retry, sock, asking, phase, answered>>
helperVars == <<helper, old, clients, starts>>
linkVars == <<appVars, helperVars, peers, toHelper, toApp>>

Peer == [who : {"app", "tool", "stranger"},
         state : {"pending", "hung", "open", "left", "gone"}]

LinkTypeOK ==
    /\ wanted \in BOOLEAN /\ retry \in BOOLEAN
    /\ sock \in 0 .. Len(peers)
    /\ asking \in Commands \union {NoCommand}
    /\ phase \in {"idle", "header", "payload"}
    /\ answered \in (Commands \union {NoCommand}) \X (Commands \union {NoCommand})
    /\ helper \in BOOLEAN /\ old \in BOOLEAN /\ clients \in Nat
    /\ peers \in Seq(Peer) /\ Len(peers) <= MaxPeers
    /\ toHelper \in Seq([peer : Nat, cmd : Commands])
    /\ toApp \in Seq([part : {"header", "payload"}, cmd : Commands])
    /\ starts \in 0 .. MaxStarts

LinkInit ==
    /\ wanted = FALSE /\ retry = FALSE /\ sock = 0
    /\ asking = NoCommand /\ phase = "idle"
    /\ answered = <<NoCommand, NoCommand>>
    /\ helper = FALSE /\ old = FALSE /\ clients = 0 /\ starts = 0
    /\ peers = <<>> /\ toHelper = <<>> /\ toApp = <<>>

-----------------------------------------------------------------------------
(***************************************************************************)
(* The helper.                                                             *)
(***************************************************************************)

\* What is left of the connections when the helper ends.
NobodyLeft == [p \in DOMAIN peers |-> [peers[p] EXCEPT !.state = "gone"]]

HelperEnds ==
    /\ helper' = FALSE /\ old' = FALSE /\ clients' = 0
    /\ peers' = NobodyLeft
    /\ toHelper' = <<>>

\* A peer may have hung up before it is accepted.
Accepted(state) == IF state = "hung" THEN "left" ELSE "open"

\* newConnection: a stranger is refused, anyone else is counted and served.
\* Faulty variant first: the end of a refused connection counts too.
Accept_AllDisconnect(p) ==
    /\ peers[p].state \in {"pending", "hung"}
    /\ IF peers[p].who = "stranger"
       THEN /\ peers' = [peers EXCEPT ![p].state = "gone"]
            /\ clients' = IF clients > 0 THEN clients - 1 ELSE 0
       ELSE /\ peers' = [peers EXCEPT ![p].state = Accepted(peers[p].state)]
            /\ clients' = clients + 1

Accept(p) ==
    /\ peers[p].state \in {"pending", "hung"}
    /\ IF peers[p].who = "stranger"
       THEN /\ peers' = [peers EXCEPT ![p].state = "gone"]
            /\ UNCHANGED clients
       ELSE /\ peers' = [peers EXCEPT ![p].state = Accepted(peers[p].state)]
            /\ clients' = clients + 1

\* disconnected, of a connection that was counted.
\* Faulty variants first: it is not counted off; it is counted off twice.
Leave_Uncounted(p) ==
    /\ peers[p].state = "left"
    /\ peers' = [peers EXCEPT ![p].state = "gone"]
    /\ UNCHANGED clients

Leave_Twice(p) ==
    /\ peers[p].state = "left"
    /\ peers' = [peers EXCEPT ![p].state = "gone"]
    /\ clients' = clients - 2

Leave(p) ==
    /\ peers[p].state = "left"
    /\ peers' = [peers EXCEPT ![p].state = "gone"]
    /\ clients' = clients - 1

HelperServes ==
    /\ helper
    /\ \E p \in DOMAIN peers : Accept(p) \/ Leave(p)
    /\ UNCHANGED <<appVars, helper, old, starts, toHelper, toApp>>

\* serve: one line is read, its command runs, and the answer is written, for a
\* peer that may have hung up meanwhile.
Handle ==
    /\ helper /\ toHelper # <<>>
    /\ LET line == Head(toHelper)
       IN  /\ peers[line.peer].state \notin {"pending", "hung"}
           /\ toApp' = IF line.peer = sock
                       THEN toApp \o <<[part |-> "header", cmd |-> line.cmd],
                                       [part |-> "payload", cmd |-> line.cmd]>>
                       ELSE toApp
    /\ toHelper' = Tail(toHelper)
    /\ UNCHANGED <<appVars, helperVars, peers>>

Age ==
    /\ helper /\ ~old /\ old' = TRUE
    /\ UNCHANGED <<appVars, helper, clients, starts, peers, toHelper, toApp>>

\* The idle timer, every 5 s.
IdleTimer ==
    /\ helper /\ old /\ clients = 0
    /\ HelperEnds
    /\ UNCHANGED <<appVars, starts, toApp>>

-----------------------------------------------------------------------------
(***************************************************************************)
(* systemd, and other peers of the socket.                                 *)
(***************************************************************************)
Starts ==
    IF helper THEN UNCHANGED helperVars
    ELSE /\ starts < MaxStarts
         /\ helper' = TRUE /\ old' = FALSE /\ clients' = 0
         /\ starts' = starts + 1

Connect(who) ==
    /\ helper /\ Len(peers) < MaxPeers
    /\ peers' = Append(peers, [who |-> who, state |-> "pending"])

OtherConnects ==
    /\ \E who \in {"tool", "stranger"} : Connect(who)
    /\ UNCHANGED <<appVars, helperVars, toHelper, toApp>>

OtherLeaves ==
    /\ \E p \in DOMAIN peers :
          /\ peers[p].who = "tool" /\ peers[p].state = "open"
          /\ peers' = [peers EXCEPT ![p].state = "left"]
    /\ UNCHANGED <<appVars, helperVars, toHelper, toApp>>

-----------------------------------------------------------------------------
(***************************************************************************)
(* The app.  A request is one call that blocks: nothing else of the app    *)
(* runs until it ends.                                                     *)
(***************************************************************************)
AppIdle == asking = NoCommand

\* m_sock.abort(): the connection is over; the helper will notice, a pending
\* one after it was accepted.
HungUp ==
    IF sock # 0 /\ peers[sock].state \in {"pending", "open"}
    THEN [peers EXCEPT ![sock].state = IF @ = "open" THEN "left" ELSE "hung"]
    ELSE peers

Abort ==
    /\ sock' = 0 /\ toApp' = <<>>
    /\ peers' = HungUp

SetHelperOn ==
    /\ AppIdle
    /\ wanted' = TRUE
    /\ \/ Starts /\ retry' = TRUE
       \/ UNCHANGED <<helperVars, retry>>    \* StartUnit failed
    /\ UNCHANGED <<sock, asking, phase, answered, peers, toHelper, toApp>>

\* setHelper(false): the connection is dropped first, then the unit is stopped
\* if systemd can.
SetHelperOff ==
    /\ AppIdle
    /\ wanted' = FALSE /\ retry' = FALSE /\ sock' = 0 /\ toApp' = <<>>
    /\ \/ HelperEnds
       \/ peers' = HungUp /\ UNCHANGED <<helper, old, clients, toHelper>>
    /\ UNCHANGED <<asking, phase, answered, starts>>

\* m_retry: probe() while there is no connection.
Probe ==
    /\ AppIdle /\ retry /\ sock = 0
    /\ Connect("app")
    /\ sock' = Len(peers) + 1 /\ retry' = FALSE
    /\ UNCHANGED <<wanted, asking, phase, answered, helperVars, toHelper, toApp>>

\* The event loop sees that the helper is gone.
SeeDisconnect ==
    /\ AppIdle /\ sock # 0 /\ peers[sock].state = "gone"
    /\ sock' = 0 /\ toApp' = <<>>
    /\ UNCHANGED <<wanted, retry, asking, phase, answered, helperVars, peers,
                   toHelper>>

Request(cmd) ==
    /\ AppIdle /\ sock # 0 /\ peers[sock].state # "gone"
    /\ asking' = cmd /\ phase' = "header"
    /\ toHelper' = Append(toHelper, [peer |-> sock, cmd |-> cmd])
    /\ UNCHANGED <<wanted, retry, sock, answered, helperVars, peers, toApp>>

\* The two waits of request(): for the header, and for the rest of the answer.
ReadHeader ==
    /\ phase = "header" /\ toApp # <<>> /\ Head(toApp).part = "header"
    /\ phase' = "payload" /\ toApp' = Tail(toApp)
    /\ UNCHANGED <<wanted, retry, sock, asking, answered, helperVars, peers,
                   toHelper>>

ReadPayload ==
    /\ phase = "payload" /\ toApp # <<>> /\ Head(toApp).part = "payload"
    /\ answered' = <<asking, Head(toApp).cmd>>
    /\ phase' = "idle" /\ asking' = NoCommand /\ toApp' = Tail(toApp)
    /\ UNCHANGED <<wanted, retry, sock, helperVars, peers, toHelper>>

\* Either wait is over without data, or the helper is gone, which is also how
\* the write of two bytes fails.
\* Faulty variant first: the connection is kept for the next request.
RequestFails_Keeps ==
    /\ phase # "idle"
    /\ phase' = "idle" /\ asking' = NoCommand
    /\ UNCHANGED <<wanted, retry, answered, helperVars, toHelper, sock, toApp,
                   peers>>

RequestFails ==
    /\ phase # "idle"
    /\ Abort
    /\ phase' = "idle" /\ asking' = NoCommand
    /\ UNCHANGED <<wanted, retry, answered, helperVars, toHelper>>

\* The app crashes, or is closed, and is started again.
AppRestarts ==
    /\ wanted' = FALSE /\ retry' = FALSE
    /\ Abort
    /\ asking' = NoCommand /\ phase' = "idle"
    /\ answered' = <<NoCommand, NoCommand>>
    /\ UNCHANGED <<helperVars, toHelper>>

App == \/ SetHelperOn \/ SetHelperOff \/ Probe \/ SeeDisconnect
       \/ \E cmd \in Commands : Request(cmd)
       \/ ReadHeader \/ ReadPayload \/ RequestFails \/ AppRestarts

LinkNext ==
    \/ HelperServes \/ Handle \/ Age \/ IdleTimer
    \/ OtherConnects \/ OtherLeaves
    \/ App

LinkSpec == LinkInit /\ [][LinkNext]_linkVars

\* The helper's event loop runs, commands end (each has its own time limit),
\* time passes, and so do the timeouts of a request.
LinkFairness ==
    /\ WF_linkVars(HelperServes) /\ WF_linkVars(Handle) /\ WF_linkVars(Age)
    /\ WF_linkVars(IdleTimer) /\ WF_linkVars(RequestFails)

LinkFairSpec == LinkSpec /\ LinkFairness

-----------------------------------------------------------------------------
\* What the report prints under a heading is the answer to that request: an
\* answer that comes after its timeout is never taken for the next one.
AnswersItsRequest == answered[1] = answered[2]

\* The one number that keeps a process with root rights alive is exact: it is
\* the connections that the helper accepted and has not seen the end of, through
\* refusals, peers that hang up before they are accepted, and helpers that are
\* stopped and started again.
CounterExact ==
    clients = Cardinality({p \in DOMAIN peers : peers[p].state \in {"open", "left"}})

\* The helper does not leave by itself while someone it serves is connected,
\* whoever else came, was refused or left.
NoQuitUnderClient ==
    [][IdleTimer => \A p \in DOMAIN peers : peers[p].state # "open"]_linkVars

\* A process with root rights is not left behind: when nobody is connected any
\* more the helper ends, even if systemd could not stop it or the app crashed.
HelperGoesAway ==
    <>[](\A p \in DOMAIN peers : peers[p].state \in {"hung", "left", "gone"})
        => []<>(~helper)
=============================================================================
