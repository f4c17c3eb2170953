------------------------------ MODULE Streams ------------------------------
(***************************************************************************)
(* What the event hub promises, without route tables, queues and locks:    *)
(* an event is published in one step.  It takes the next number, is        *)
(* appended to what every client that wants its key then has yet to take,  *)
(* and only a client whose window is full misses it: that loss is counted  *)
(* and the client is subscribed to nothing any more.                       *)
(***************************************************************************)
EXTENDS Naturals, Sequences, FiniteSets

CONSTANTS Clients, Keys, WindowSize, MaxClients, MaxSequence

VARIABLES
    last,       \* the number of the last event
    wants,      \* member -> the keys it is subscribed to
    listening,  \* the clients that take events
    window,     \* client -> the events it has not yet taken
    lost        \* client -> events it missed

vars == <<last, wants, listening, window, lost>>

Init ==
    /\ last = 0
    /\ wants = [c \in {} |-> {}]
    /\ listening = {}
    /\ window = [c \in Clients |-> <<>>]
    /\ lost = [c \in Clients |-> 0]

\* A client starts, and leaves, with an empty window.
Fresh(c) ==
    /\ window' = [window EXCEPT ![c] = <<>>]
    /\ lost' = [lost EXCEPT ![c] = 0]

Join(c) ==
    /\ Cardinality(DOMAIN wants \cup {c}) <= MaxClients
    /\ wants' = [d \in DOMAIN wants \cup {c} |-> IF d = c THEN {} ELSE wants[d]]
    /\ listening' = listening \cup {c}
    /\ Fresh(c)
    /\ UNCHANGED last

Resubscribe(c, S) ==
    /\ c \in DOMAIN wants
    /\ wants' = [wants EXCEPT ![c] = S]
    /\ UNCHANGED <<last, listening, window, lost>>

Leave(c) ==
    /\ wants' = [d \in DOMAIN wants \ {c} |-> wants[d]]
    /\ UNCHANGED <<last, listening, window, lost>>

Hangup(c) ==
    /\ c \in listening
    /\ listening' = listening \ {c}
    /\ Fresh(c)
    /\ UNCHANGED <<last, wants>>

Take(c) ==
    /\ window[c] # <<>>
    /\ window' = [window EXCEPT ![c] = Tail(@)]
    /\ UNCHANGED <<last, wants, listening, lost>>

Publish(k) ==
    LET event == [sequence |-> last + 1, key |-> k]
        interested == {c \in DOMAIN wants : k \in wants[c]}
        gone == interested \ listening
        full == {c \in interested \cap listening : Len(window[c]) = WindowSize}
    IN  /\ last < MaxSequence
        /\ last' = last + 1
        /\ window' = [c \in Clients |->
                         IF c \in interested \ (gone \cup full)
                         THEN Append(window[c], event) ELSE window[c]]
        /\ lost' = [c \in Clients |-> IF c \in full THEN lost[c] + 1 ELSE lost[c]]
        /\ wants' = [c \in DOMAIN wants \ gone |-> IF c \in full THEN {} ELSE wants[c]]
        /\ UNCHANGED listening

Next ==
    \/ \E k \in Keys : Publish(k)
    \/ \E c \in Clients :
          \/ Join(c) \/ Leave(c) \/ Hangup(c) \/ Take(c)
          \/ \E S \in SUBSET Keys : Resubscribe(c, S)

Spec == Init /\ [][Next]_vars
=============================================================================
