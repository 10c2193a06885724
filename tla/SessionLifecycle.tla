-------------------------- MODULE SessionLifecycle --------------------------
(***************************************************************************)
(* What the network layer promises a packet dispatch about its session:    *)
(* Connected() and Disconnected() are called once each at most and in that *)
(* order; no I/O starts after Disconnected() has returned; the session is  *)
(* deleted only after Disconnected() has returned and with no I/O          *)
(* outstanding.                                                            *)
(***************************************************************************)
EXTENDS Sequences

CONSTANT Sessions

VARIABLES
    life,   \* life[s]: whether the object exists
    calls,  \* calls[s]: the callbacks that have returned
    io      \* io[s]: the directions in which an overlapped call is outstanding

avars == <<life, calls, io>>

Direction == {"recv", "send"}

Init ==
    /\ life = [s \in Sessions |-> "absent"]
    /\ calls = [s \in Sessions |-> <<>>]
    /\ io = [s \in Sessions |-> {}]

\* The first receive is posted as the session opens, if the socket allows it.
Open(s) ==
    /\ life[s] = "absent"
    /\ life' = [life EXCEPT ![s] = "alive"]
    /\ \E d \in {{}, {"recv"}} : io' = [io EXCEPT ![s] = d]
    /\ calls' = calls

Callback(s, c) ==
    /\ life[s] = "alive"
    /\ calls' = [calls EXCEPT ![s] = Append(@, c)]
    /\ UNCHANGED <<life, io>>

Connected(s) ==
    /\ calls[s] = <<>>
    /\ Callback(s, "Connected")

\* A session that is closed before it was ever processed gets no Connected().
Disconnected(s) ==
    /\ calls[s] \in {<<>>, <<"Connected">>}
    /\ Callback(s, "Disconnected")

Over(s) == calls[s] # <<>> /\ calls[s][Len(calls[s])] = "Disconnected"

StartIo(s, d) ==
    /\ life[s] = "alive"
    /\ ~Over(s)
    /\ d \notin io[s]
    /\ io' = [io EXCEPT ![s] = @ \union {d}]
    /\ UNCHANGED <<life, calls>>

FinishIo(s, d) ==
    /\ d \in io[s]
    /\ io' = [io EXCEPT ![s] = @ \ {d}]
    /\ UNCHANGED <<life, calls>>

Delete(s) ==
    /\ life[s] = "alive"
    /\ Over(s)
    /\ io[s] = {}
    /\ life' = [life EXCEPT ![s] = "deleted"]
    /\ UNCHANGED <<calls, io>>

Next == \E s \in Sessions :
    \/ Open(s) \/ Connected(s) \/ Disconnected(s) \/ Delete(s)
    \/ \E d \in Direction : StartIo(s, d) \/ FinishIo(s, d)

Spec == Init /\ [][Next]_avars
=============================================================================
