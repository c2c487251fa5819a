------------------------------ MODULE Realtime ------------------------------
(***************************************************************************)
(* The event stream of one user's generations: the in-process hub numbers  *)
(* and keeps the last events, and offers each to every open connection     *)
(* without waiting; a client that connects again names the last event it   *)
(* has and is replayed what follows it.  Nothing survives the process.     *)
(***************************************************************************)
EXTENDS Integers, Sequences

CONSTANTS
    Clients,        \* the user's devices
    BufferSize,     \* events a connection holds before it is full
    MaxEvents,      \* bound on the events published
    MaxRestarts     \* bound on the restarts of the process

\* A hub that is asked for less room gives every connection room for one event.
ASSUME RealtimeAssumption == BufferSize \in Nat \ {0} /\ MaxEvents \in Nat

VARIABLES
    nextID,         \* number of the last event of this process
    history,        \* the events kept for replay
    channels,       \* the channel of every connected client
    got,            \* history: the events each client has, in order
    excused,        \* history: clients that may have missed something
    life            \* history: events published and restarts so far

realtimeVars == <<nextID, history, channels, got, excused, life>>
-----------------------------------------------------------------------------
HistorySize == 4 * BufferSize

LastGot(s) == s[Len(s)]
Newest(s, n) == IF Len(s) > n THEN SubSeq(s, Len(s) - n + 1, Len(s)) ELSE s

\* A channel takes what it has room for; what finds it full is not waited for.
Offered(channel, events) ==
    channel \o SubSeq(events, 1, IF Len(events) > BufferSize - Len(channel) THEN BufferSize - Len(channel) ELSE Len(events))

\* An event is known to clients by its number in this process; n, its number
\* among all events ever published, is what the property compares.
RealtimeTypeOK ==
    /\ nextID \in 0..MaxEvents
    /\ Len(history) <= HistorySize
    /\ \A c \in DOMAIN channels : Len(channels[c]) <= BufferSize
    /\ DOMAIN channels \subseteq Clients
-----------------------------------------------------------------------------
RealtimeInit ==
    /\ nextID = 0 /\ history = << >> /\ channels = << >>
    /\ got = [c \in Clients |-> << >>]
    /\ excused = {}
    /\ life = [events |-> 0, restarts |-> 0]

Publish ==
    /\ life.events < MaxEvents
    /\ LET event == [id |-> nextID + 1, n |-> life.events + 1]
       IN  /\ nextID' = event.id
           /\ history' = Newest(Append(history, event), HistorySize)
           /\ channels' = [c \in DOMAIN channels |-> Offered(channels[c], <<event>>)]
           /\ excused' = excused \cup {c \in DOMAIN channels : Len(channels[c]) = BufferSize}
    /\ life' = [life EXCEPT !.events = @ + 1]
    /\ UNCHANGED got

\* Mistaken variant: the event a client names is replayed with those after it.
eventsFrom(lastID) ==
    LET from == {i \in DOMAIN history : history[i].id = lastID}
    IN  IF from = {} THEN << >> ELSE SubSeq(history, CHOOSE i \in from : TRUE, Len(history))

eventsAfter(lastID) ==
    LET from == {i \in DOMAIN history : history[i].id = lastID}
    IN  IF from = {} THEN << >> ELSE SubSeq(history, 1 + CHOOSE i \in from : TRUE, Len(history))

\* Registration and replay happen under the hub's lock, so no event falls
\* between them.  A client without a last event is replayed nothing.
Behind(c) == life.events - LastGot(got[c]).n
SubscribeSince(c) ==
    /\ c \notin DOMAIN channels
    /\ LET replay == IF got[c] = << >> THEN << >> ELSE eventsAfter(LastGot(got[c]).id)
       IN  channels' = [d \in DOMAIN channels \cup {c} |-> IF d = c THEN Offered(<< >>, replay) ELSE channels[d]]
    /\ excused' = IF got[c] # << >> => LastGot(got[c]).life = life.restarts /\ Behind(c) <= BufferSize
                  THEN excused ELSE excused \cup {c}
    /\ UNCHANGED <<nextID, history, got, life>>

\* The handler writes what its channel holds to the client.
Deliver(c) ==
    /\ c \in DOMAIN channels /\ channels[c] # << >>
    /\ got' = [got EXCEPT ![c] = Append(@, [id |-> channels[c][1].id, n |-> channels[c][1].n, life |-> life.restarts])]
    /\ channels' = [channels EXCEPT ![c] = Tail(@)]
    /\ UNCHANGED <<nextID, history, excused, life>>

\* The connection ends, with what its channel still held.  Before its first
\* event a client has nothing to name, and what it misses it cannot ask for.
Unsubscribed(gone) ==
    /\ channels' = [c \in DOMAIN channels \ gone |-> channels[c]]
    /\ excused' = excused \cup {c \in gone : got[c] = << >>}
Unsubscribe(c) ==
    /\ c \in DOMAIN channels
    /\ Unsubscribed({c})
    /\ UNCHANGED <<nextID, history, got, life>>

Restart ==
    /\ life.restarts < MaxRestarts
    /\ life' = [life EXCEPT !.restarts = @ + 1]
    /\ nextID' = 0 /\ history' = << >>
    /\ Unsubscribed(DOMAIN channels)
    /\ UNCHANGED got
-----------------------------------------------------------------------------
RealtimeNext ==
    \/ Publish
    \/ \E c \in Clients : SubscribeSince(c) \/ Deliver(c) \/ Unsubscribe(c)
    \/ Restart

RealtimeSpec == RealtimeInit /\ [][RealtimeNext]_realtimeVars
-----------------------------------------------------------------------------
(***************************************************************************)
(* A client is never told an event twice or after a later one, across any  *)
(* reconnections and restarts; and unless it fell more than a buffer       *)
(* behind, or the process was restarted under it, it is told every event   *)
(* from its first one on.  (SubscribeSince and Publish of the hub.)        *)
(***************************************************************************)
StreamTellsInOrder ==
    \A c \in Clients : \A i \in 1..(Len(got[c]) - 1) :
        /\ got[c][i].n < got[c][i + 1].n
        /\ c \notin excused => got[c][i + 1].n = got[c][i].n + 1
=============================================================================
