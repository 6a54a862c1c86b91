--------------------------- MODULE SessionChecker ---------------------------
(***************************************************************************)
(* The session checker: clients ask the daemon to leave the rfkill keys    *)
(* alone while their session is the active one of a seat.  The daemon      *)
(* keeps one inhibitor per client, a copy of each seat's active session,   *)
(* and the decision itself, which a key press reads.                       *)
(*                                                                         *)
(* The files for logind and for ConsoleKit have the same text but for the  *)
(* calls they make.  All messages reach the daemon through one connection  *)
(* to the bus, which keeps their order; a handler that asks the login      *)
(* manager something gets an answer that is newer than the messages that   *)
(* still wait.                                                             *)
(***************************************************************************)
EXTENDS Naturals, Sequences, FiniteSets

CONSTANTS
    Client,        \* the clients' connections to the bus
    NameOwners,    \* clients that also own a well-known name there
    Session,
    NoSession,     \* what a client or a seat without a session has
    SessionOf,     \* the session a client's process belongs to
    Seat,
    Cookie,
    FollowsActive, \* does the seat's callback recognise a change?
    MaxStimuli     \* bound: steps of the clients' and seats' own accord

NoCookie == 0

ASSUME SessionAssumption ==
    /\ NoSession \notin Session
    /\ NameOwners \subseteq Client
    /\ SessionOf \in [Client -> Session \cup {NoSession}]
    /\ Cookie \subseteq Nat \ {NoCookie}
    /\ FollowsActive \in BOOLEAN
    /\ MaxStimuli \in Nat

VARIABLES
    alive,       \* clients that are on the bus
    present,     \* seats the login manager has
    foremost,    \* the active session of each of them
    bus,         \* messages that have reached the daemon's connection
    given,       \* the cookie each client was last given and still counts on
    seats,       \* priv->seats
    active,      \* UrfSeat active
    inhibitors,  \* priv->inhibitors
    inhibit,     \* priv->inhibit
    stale,       \* a seat has come or gone since the decision was made
    lost,        \* cookies whose inhibitor went with a name of its client
    stimuli      \* how much of MaxStimuli is used

outsideVars == <<alive, present, foremost>>
checkerVars == <<seats, active, inhibitors, inhibit, stale>>
svars == <<outsideVars, bus, given, checkerVars, lost, stimuli>>

Message ==
    [kind : {"Inhibit", "Gone", "Released"}, client : Client]
        \cup [kind : {"Uninhibit"}, client : Client, cookie : Cookie]
        \cup [kind : {"SeatNew", "SeatRemoved"}, seat : Seat]
        \cup [kind : {"Active"}, seat : Seat, session : Session \cup {NoSession}]
        \cup [kind : {"Unheard"}]

Inhibitor == [cookie : Cookie, session : Session, client : Client]

(***************************************************************************)
(* The clients, the bus and the login manager                              *)
(***************************************************************************)
Stimulus == stimuli < MaxStimuli /\ stimuli' = stimuli + 1
Send(m)  == bus' = Append(bus, m)

\* A client of the library waits for the answer to Inhibit.
Waiting(c) == \E i \in DOMAIN bus : bus[i].kind = "Inhibit" /\ bus[i].client = c

AskInhibit(c) ==
    /\ Stimulus
    /\ c \in alive /\ ~Waiting(c)
    /\ Send([kind |-> "Inhibit", client |-> c])
    /\ UNCHANGED <<outsideVars, given, checkerVars, lost>>

\* A client gives its cookie back once, and does not wait.
AskUninhibit(c) ==
    /\ Stimulus
    /\ c \in alive /\ ~Waiting(c)
    /\ given[c] # NoCookie
    /\ Send([kind |-> "Uninhibit", client |-> c, cookie |-> given[c]])
    /\ given' = [given EXCEPT ![c] = NoCookie]
    /\ UNCHANGED <<outsideVars, checkerVars, lost>>

\* A client leaves the bus.  Its connection's name is never used again.
Disconnect(c) ==
    /\ Stimulus
    /\ c \in alive
    /\ alive' = alive \ {c}
    /\ given' = [given EXCEPT ![c] = NoCookie]
    /\ Send([kind |-> "Gone", client |-> c])
    /\ UNCHANGED <<present, foremost, checkerVars, lost>>

\* NameOwnerChanged of a well-known name that its owner gives up: the old owner
\* is the client's connection and the new owner is empty.
ReleaseName(c) ==
    /\ Stimulus
    /\ c \in alive \cap NameOwners
    /\ Send([kind |-> "Released", client |-> c])
    /\ UNCHANGED <<outsideVars, given, checkerVars, lost>>

SeatAppears(s, sid) ==
    /\ Stimulus
    /\ s \notin present
    /\ present' = present \cup {s}
    /\ foremost' = [foremost EXCEPT ![s] = sid]
    /\ Send([kind |-> "SeatNew", seat |-> s])
    /\ UNCHANGED <<alive, given, checkerVars, lost>>

SeatVanishes(s) ==
    /\ Stimulus
    /\ s \in present
    /\ present' = present \ {s}
    /\ foremost' = [foremost EXCEPT ![s] = NoSession]
    /\ Send([kind |-> "SeatRemoved", seat |-> s])
    /\ UNCHANGED <<alive, given, checkerVars, lost>>

\* The change is told to whoever listens to the seat: a UrfSeat of the daemon.
SwitchSession(s, sid) ==
    /\ Stimulus
    /\ s \in present
    /\ sid # foremost[s]
    /\ foremost' = [foremost EXCEPT ![s] = sid]
    /\ IF s \in seats THEN Send([kind |-> "Active", seat |-> s, session |-> sid])
                      ELSE UNCHANGED bus
    /\ UNCHANGED <<alive, present, given, checkerVars, lost>>

(***************************************************************************)
(* The handlers                                                            *)
(***************************************************************************)
\* is_inhibited: some seat's active session has an inhibitor.
IsInhibited(inh, ss, act) == \E i \in inh, s \in ss : i.session = act[s]

\* find_inhibitor_by_bus_name
InhibitorsOf(c) == {i \in inhibitors : i.client = c}

\* The list of inhibitors becomes inh, and the decision follows from it.
Decide(inh, act) ==
    /\ inhibitors' = inh
    /\ inhibit' = IsInhibited(inh, seats, act)
    /\ stale' = FALSE

Receive(kind) ==
    /\ bus # <<>>
    /\ Head(bus).kind = kind
    /\ bus' = Tail(bus)

\* get_session_id: the bus knows the process of a client that is still there.
FindSession(c) == IF c \in alive THEN SessionOf[c] ELSE NoSession

\* A mistake that CookieCounts must find: any cookie will do.
FreeCookies_Any == Cookie

\* generate_unique_cookie
FreeCookies == Cookie \ {i.cookie : i \in inhibitors}

\* urf_session_checker_inhibit, and the reply with the cookie, which a client
\* that has left does not read.
HandleInhibit ==
    LET c == Head(bus).client
    IN  /\ Receive("Inhibit")
        /\ IF InhibitorsOf(c) # {} \/ FindSession(c) = NoSession
           THEN /\ given' = [given EXCEPT ![c] =
                                IF c \in alive /\ InhibitorsOf(c) # {}
                                THEN (CHOOSE i \in InhibitorsOf(c) : TRUE).cookie
                                ELSE NoCookie]
                /\ UNCHANGED <<inhibitors, inhibit, stale>>
           ELSE \E k \in FreeCookies :
                /\ Decide(inhibitors \cup
                             {[cookie |-> k, session |-> FindSession(c), client |-> c]},
                          active)
                /\ given' = [given EXCEPT ![c] = k]
        /\ UNCHANGED <<outsideVars, seats, active, lost, stimuli>>

\* A mistake that DecisionFresh must find: the decision is made before the
\* inhibitor is taken off the list.
Remove_DecideFirst(gone) ==
    /\ inhibitors' = inhibitors \ gone
    /\ inhibit' = IsInhibited(inhibitors, seats, active)
    /\ stale' = FALSE

\* remove_inhibitor; a cookie or a client that is not found changes nothing.
Remove(gone) ==
    IF gone = {}
    THEN UNCHANGED <<inhibitors, inhibit, stale>>
    ELSE Decide(inhibitors \ gone, active)

\* urf_session_checker_uninhibit
HandleUninhibit ==
    /\ Receive("Uninhibit")
    /\ Remove({i \in inhibitors : i.cookie = Head(bus).cookie})
    /\ UNCHANGED <<outsideVars, given, seats, active, lost, stimuli>>

\* A mistake that GoneClientsRelease must find: a message about a name is
\* not one about its owner.
OwnerLost_Name(kind) == kind = "Released"

\* urf_session_checker_bus_owner_changed looks only at the owners, so a name
\* that was given up looks like a client that has left.
OwnerLost(kind) == kind \in {"Gone", "Released"}

HandleOwnerChanged ==
    /\ Receive("Gone") \/ Receive("Released")
    /\ Remove(IF OwnerLost(Head(bus).kind) THEN InhibitorsOf(Head(bus).client) ELSE {})
    /\ lost' = IF Head(bus).kind = "Released"
               THEN lost \cup {i.cookie : i \in inhibitors \ inhibitors'} ELSE lost
    /\ UNCHANGED <<outsideVars, given, seats, active, stimuli>>

\* urf_seat_object_path_sync: the new UrfSeat asks for its active session and
\* fails when the seat has gone, or may when no session is active there.
SeatAnswers(s) ==
    {x \in BOOLEAN : IF x THEN s \in present ELSE foremost[s] = NoSession}

\* urf_session_checker_seat_added.  The decision is not made again.
HandleSeatNew ==
    LET s == Head(bus).seat
    IN  /\ Receive("SeatNew")
        /\ \E answers \in SeatAnswers(s) :
            IF s \notin seats /\ answers
            THEN /\ seats' = seats \cup {s}
                 /\ active' = [active EXCEPT ![s] = foremost[s]]
                 /\ stale' = TRUE
            ELSE UNCHANGED <<seats, active, stale>>
        /\ UNCHANGED <<outsideVars, given, inhibitors, inhibit, lost, stimuli>>

\* urf_seat_dispose gives up the seat's proxy, and with it the subscription by
\* which messages of the seat that wait already would have found an object; the
\* one of a new UrfSeat is told only what is sent later.
Unheard(s, messages) ==
    [n \in DOMAIN messages |->
        IF messages[n].kind = "Active" /\ messages[n].seat = s
        THEN [kind |-> "Unheard"] ELSE messages[n]]

\* urf_session_checker_seat_removed
HandleSeatRemoved ==
    LET s == Head(bus).seat
    IN  /\ bus # <<>> /\ Head(bus).kind = "SeatRemoved"
        /\ bus' = Unheard(s, Tail(bus))
        /\ seats' = seats \ {s}
        /\ active' = [active EXCEPT ![s] = NoSession]
        /\ stale' = (stale \/ s \in seats)
        /\ UNCHANGED <<outsideVars, given, inhibitors, inhibit, lost, stimuli>>

\* A mistake that DecisionCurrent must find: the signal goes out before the
\* new session is stored.
HandleActive_EmitFirst ==
    LET m == Head(bus)
    IN  /\ Receive("Active")
        /\ IF FollowsActive /\ m.seat \in seats
           THEN /\ active' = [active EXCEPT ![m.seat] = m.session]
                /\ inhibit' = IsInhibited(inhibitors, seats, active)
                /\ stale' = FALSE
                /\ UNCHANGED <<seats, inhibitors>>
           ELSE UNCHANGED checkerVars
        /\ UNCHANGED <<outsideVars, given, lost, stimuli>>

\* The seat's callback and urf_session_checker_seat_active_changed.  ConsoleKit
\* sends a signal of its own; the callback for logind takes the dictionary of
\* changed properties for the name of one, which never is "ActiveSession".
HandleActive ==
    LET m == Head(bus)
    IN  /\ Receive("Active")
        /\ IF FollowsActive /\ m.seat \in seats
           THEN /\ active' = [active EXCEPT ![m.seat] = m.session]
                /\ Decide(inhibitors, active')
                /\ UNCHANGED seats
           ELSE UNCHANGED checkerVars
        /\ UNCHANGED <<outsideVars, given, lost, stimuli>>

\* Nobody is subscribed to what this message tells.
HandleUnheard ==
    /\ Receive("Unheard")
    /\ UNCHANGED <<outsideVars, given, checkerVars, lost, stimuli>>

(***************************************************************************)
(* The specification                                                       *)
(***************************************************************************)
\* After urf_session_checker_startup, which asks for every seat; one that does
\* not tell an active session may be left out.
Init ==
    /\ alive = Client
    /\ present \in SUBSET Seat
    /\ foremost \in [Seat -> Session \cup {NoSession}]
    /\ \A s \in Seat \ present : foremost[s] = NoSession
    /\ bus = <<>>
    /\ given = [c \in Client |-> NoCookie]
    /\ seats \in SUBSET present
    /\ \A s \in present \ seats : foremost[s] = NoSession
    /\ active = foremost
    /\ inhibitors = {}
    /\ inhibit = FALSE
    /\ stale = FALSE
    /\ lost = {}
    /\ stimuli = 0

Outside ==
    \/ \E c \in Client :
        AskInhibit(c) \/ AskUninhibit(c) \/ Disconnect(c) \/ ReleaseName(c)
    \/ \E s \in Seat :
        \/ \E sid \in Session \cup {NoSession} :
            SeatAppears(s, sid) \/ SwitchSession(s, sid)
        \/ SeatVanishes(s)

Handle ==
    \/ HandleInhibit \/ HandleUninhibit \/ HandleOwnerChanged
    \/ HandleSeatNew \/ HandleSeatRemoved \/ HandleActive \/ HandleUnheard

Next == Outside \/ Handle

Spec == Init /\ [][Next]_svars

(***************************************************************************)
(* Properties                                                              *)
(***************************************************************************)
\* Every variable has its type; no two inhibitors share a cookie or a client.
TypeOK ==
    /\ alive \subseteq Client
    /\ present \subseteq Seat
    /\ foremost \in [Seat -> Session \cup {NoSession}]
    /\ bus \in Seq(Message)
    /\ given \in [Client -> Cookie \cup {NoCookie}]
    /\ seats \subseteq Seat
    /\ active \in [Seat -> Session \cup {NoSession}]
    /\ inhibitors \subseteq Inhibitor
    /\ \A i, j \in inhibitors :
          i.cookie = j.cookie \/ i.client = j.client => i = j
    /\ inhibit \in BOOLEAN /\ stale \in BOOLEAN
    /\ lost \subseteq Cookie
    /\ stimuli \in 0..MaxStimuli

\* The message in bus that c has left.
LeavingOf(c) == {n \in DOMAIN bus : bus[n].kind = "Gone" /\ bus[n].client = c}

\* No inhibitor outlives its client: one whose client has left the bus is found
\* by a message that still waits, also when the client left while its request
\* was waiting.
GoneClientsRelease ==
    \A i \in inhibitors : i.client \in alive \/ LeavingOf(i.client) # {}

\* The cookie a client counts on is that of its only inhibitor, for the session
\* it belongs to, unless that went with a name; and a client that neither counts
\* on one nor has given one back that is still on its way has none.
CookieCounts ==
    \A c \in alive :
        /\ given[c] \notin lost \cup {NoCookie} =>
              InhibitorsOf(c) = {[cookie |-> given[c], session |-> SessionOf[c],
                                  client |-> c]}
        /\ InhibitorsOf(c) # {} =>
              \/ given[c] # NoCookie
              \/ \E n \in DOMAIN bus : bus[n].kind = "Uninhibit" /\ bus[n].client = c

\* The decision that a key press reads is the one that follows from the
\* daemon's inhibitors and seats, unless a seat came or went since.
DecisionFresh == ~stale => inhibit = IsInhibited(inhibitors, seats, active)

\* data/org.freedesktop.URfkill.xml: Inhibit is "for the session".  When the
\* daemon has read its messages, keys are inhibited exactly while the session
\* of an inhibitor is the active one of a seat it knows.
DecisionCurrent ==
    bus = <<>> /\ ~stale =>
        (inhibit <=> IsInhibited(inhibitors, seats, foremost))
=============================================================================
