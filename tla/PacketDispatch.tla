--------------------------- MODULE PacketDispatch ---------------------------
(***************************************************************************)
(* The packet queue of one server connection (CRylServerDispatch, and its  *)
(* multi-threaded variant CRylServerMultiThreadDispatch).                  *)
(*                                                                         *)
(* An I/O worker parses received bytes into packets and puts them into the *)
(* queue; the process thread takes the queue over once per pass, handles a *)
(* bounded number of packets without the lock and puts the rest back. In   *)
(* the multi-threaded variant the worker then dispatches as well. When the *)
(* queue grows too long the session's receives are suspended.              *)
(*                                                                         *)
(* The session is seen through what Session promises: one receive buffer   *)
(* with one owner, and a receive posted when none is and none is suspended.*)
(***************************************************************************)
EXTENDS Integers, Sequences

CONSTANTS
    PerPulse,     \* m_dwMaxProcessPacketPerPulse
    MultiThread,  \* whether the worker dispatches too
    Burst,        \* bound: packets in one receive
    MaxPackets    \* bound: packets that ever arrive

ASSUME PacketAssumption ==
    /\ PerPulse \in Nat \ {0}
    /\ MultiThread \in BOOLEAN
    /\ Burst \in Nat \ {0}
    /\ MaxPackets \in Nat

VARIABLES
    queue,    \* m_ProcessQueue: packets are numbered as they arrive
    flags,    \* m_dwFlags; SUSPEND_RECV is also the session's, set with it
    thread,   \* thread[t]: where t is in Dispatch, its ProcessQueue and dwCount
    status,   \* the session's status
    recv,     \* the session's receive: none, posted, or being parsed
    arrived,  \* packets that were received
    handled,  \* packets given to DispatchPacket, in order
    refused   \* whether DispatchPacket has returned false

vars == <<queue, flags, thread, status, recv, arrived, handled, refused>>

Threads == {"process", "worker"}

Out == [at |-> "out", packets |-> <<>>, count |-> 0]

Limit == PerPulse * 5

\* InternalCheckSuspendRecv on a queue of n packets.
Checked(f, n) ==
    IF "SUSPEND_RECV" \notin f /\ Limit < n THEN f \union {"SUSPEND_RECV"}
    ELSE IF "SUSPEND_RECV" \in f /\ n < Limit THEN f \ {"SUSPEND_RECV"}
    ELSE f

-----------------------------------------------------------------------------
(* The session and its worker.                                               *)

\* CSession::InternalRecv, by the process thread or after a completion.
Post ==
    /\ recv = "none"
    /\ status = "CONNECTED"
    /\ "SUSPEND_RECV" \notin flags
    /\ recv' = "posted"
    /\ UNCHANGED <<queue, flags, thread, status, arrived, handled, refused>>

\* ParsePacket of n whole packets. The bytes may have been received before the
\* session was closed.
ParsePacket(n) ==
    /\ recv = "posted"
    /\ arrived + n <= MaxPackets
    /\ LET spliced == queue \o [i \in 1 .. n |-> arrived + i]
       IN  /\ queue' = spliced
           /\ flags' = Checked(flags, Len(spliced))
    /\ arrived' = arrived + n
    /\ IF MultiThread
       THEN recv' = "parsing" /\ thread' = [thread EXCEPT !["worker"].at = "enter"]
       ELSE recv' = "none" /\ thread' = thread
    /\ UNCHANGED <<status, handled, refused>>

\* The receive fails, or ParsePacket finds an invalid packet: the session is
\* closed and the bytes are lost.
ReceiveFails ==
    /\ recv = "posted"
    /\ recv' = "none"
    /\ status' = "DISCONNECTED"
    /\ UNCHANGED <<queue, flags, thread, arrived, handled, refused>>

\* Any thread may close the session.
CloseSession ==
    /\ status = "CONNECTED"
    /\ status' = "DISCONNECTED"
    /\ UNCHANGED <<queue, flags, thread, recv, arrived, handled, refused>>

-----------------------------------------------------------------------------
(* Dispatch, on the process thread or on the worker.                         *)

\* CSession::Process finds the session connected and calls Dispatch.
Visit ==
    /\ thread["process"].at = "out"
    /\ status = "CONNECTED"
    /\ thread' = [thread EXCEPT !["process"].at = "enter"]
    /\ UNCHANGED <<queue, flags, status, recv, arrived, handled, refused>>

\* Dispatch returns to its caller; on the worker the receive is over.
Returns(t, l) ==
    /\ thread' = [thread EXCEPT ![t] = l]
    /\ recv' = IF t = "worker" THEN "none" ELSE recv

\* Mutant: the flag is not looked at.
EnterUnchecked(t) ==
    /\ thread[t].at = "enter"
    /\ flags' = Checked(flags \union {"PROCESS_PACKET_NOW"}, Len(queue))
    /\ thread' = [thread EXCEPT ![t] = [at |-> "handle", packets |-> queue, count |-> 0]]
    /\ queue' = <<>>
    /\ recv' = recv
    /\ UNCHANGED <<status, arrived, handled, refused>>

\* Mutant: only ParsePacket looks at the length of the queue.
EnterUntested(t) ==
    /\ thread[t].at = "enter"
    /\ "PROCESS_PACKET_NOW" \notin flags
    /\ flags' = flags \union {"PROCESS_PACKET_NOW"}
    /\ thread' = [thread EXCEPT ![t] = [at |-> "handle", packets |-> queue, count |-> 0]]
    /\ queue' = <<>>
    /\ UNCHANGED <<status, recv, arrived, handled, refused>>

\* The first locked section: another thread is processing, or the queue is taken.
Enter(t) ==
    /\ thread[t].at = "enter"
    /\ \/ /\ "PROCESS_PACKET_NOW" \in flags
          /\ Returns(t, Out)
          /\ UNCHANGED <<queue, flags>>
       \/ /\ "PROCESS_PACKET_NOW" \notin flags
          /\ flags' = Checked(flags \union {"PROCESS_PACKET_NOW"}, Len(queue))
          /\ thread' = [thread EXCEPT ![t] = [at |-> "handle", packets |-> queue, count |-> 0]]
          /\ queue' = <<>>
          /\ recv' = recv
    /\ UNCHANGED <<status, arrived, handled, refused>>

\* One turn of the loop, without the lock. A refused packet ends Dispatch: the
\* packets taken are released and PROCESS_PACKET_NOW stays.
Handle(t) ==
    LET l == thread[t]
    IN  /\ l.at = "handle"
        /\ l.count < PerPulse
        /\ l.packets # <<>>
        /\ handled' = Append(handled, Head(l.packets))
        /\ \/ /\ thread' = [thread EXCEPT ![t].packets = Tail(@), ![t].count = @ + 1]
              /\ refused' = refused
           \/ /\ thread' = [thread EXCEPT ![t] = [Out EXCEPT !.at = "close"]]
              /\ refused' = TRUE
        /\ UNCHANGED <<queue, flags, status, recv, arrived>>

LoopIsOver(l) == l.at = "handle" /\ (l.count = PerPulse \/ l.packets = <<>>)

\* Mutant: what was not handled goes behind the packets that arrived since.
LeaveBehind(t) ==
    /\ LoopIsOver(thread[t])
    /\ queue' = queue \o thread[t].packets
    /\ flags' = flags \ {"PROCESS_PACKET_NOW"}
    /\ Returns(t, Out)
    /\ UNCHANGED <<status, arrived, handled, refused>>

\* Mutant: the flag is cleared only if packets are put back.
LeaveFlagged(t) ==
    /\ LoopIsOver(thread[t])
    /\ queue' = thread[t].packets \o queue
    /\ flags' = IF thread[t].packets = <<>> THEN flags ELSE flags \ {"PROCESS_PACKET_NOW"}
    /\ Returns(t, Out)
    /\ UNCHANGED <<status, arrived, handled, refused>>

\* The second locked section.
Leave(t) ==
    /\ LoopIsOver(thread[t])
    /\ queue' = thread[t].packets \o queue
    /\ flags' = flags \ {"PROCESS_PACKET_NOW"}
    /\ Returns(t, Out)
    /\ UNCHANGED <<status, arrived, handled, refused>>

\* Mutant: the flag is cleared on this path too.
RefusedUnflagged(t) ==
    /\ thread[t].at = "close"
    /\ status' = "DISCONNECTED"
    /\ Returns(t, Out)
    /\ flags' = flags \ {"PROCESS_PACKET_NOW"}
    /\ UNCHANGED <<queue, arrived, handled, refused>>

\* The caller of Dispatch closes the session.
Refused(t) ==
    /\ thread[t].at = "close"
    /\ status' = "DISCONNECTED"
    /\ Returns(t, Out)
    /\ UNCHANGED <<queue, flags, arrived, handled, refused>>

-----------------------------------------------------------------------------
Init ==
    /\ queue = <<>>
    /\ flags = {}
    /\ thread = [t \in Threads |-> Out]
    /\ status = "CONNECTED"
    /\ recv = "posted"
    /\ arrived = 0
    /\ handled = <<>>
    /\ refused = FALSE

ThreadStep(t) == Enter(t) \/ Handle(t) \/ Leave(t) \/ Refused(t)

Next ==
    \/ Post \/ ReceiveFails \/ CloseSession \/ Visit
    \/ \E n \in 0 .. Burst : ParsePacket(n)
    \/ \E t \in Threads : ThreadStep(t)

Spec == Init /\ [][Next]_vars

\* The process thread visits a connected session in every pass, and each thread
\* goes on with what it is doing; handlers return. Nothing is assumed of arrivals.
LiveSpec == Spec /\ WF_vars(Visit) /\ \A t \in Threads : WF_vars(ThreadStep(t))

-----------------------------------------------------------------------------
TypeOK ==
    /\ queue \in Seq(Nat) /\ handled \in Seq(Nat)
    /\ flags \in SUBSET {"PROCESS_PACKET_NOW", "SUSPEND_RECV"}
    /\ thread \in [Threads -> [at : {"out", "enter", "handle", "close"},
                               packets : Seq(Nat), count : 0 .. PerPulse]]
    /\ status \in {"CONNECTED", "DISCONNECTED"}
    /\ recv \in {"none", "posted", "parsing"}
    /\ arrived \in 0 .. MaxPackets
    /\ refused \in BOOLEAN

Handling(t) == thread[t].at = "handle"

\* MultiThreadDispatch.h:11: one session is processed by one thread at a time.
OneThreadHandles == \A t, u \in Threads : Handling(t) /\ Handling(u) => t = u

Backlog == thread["process"].packets \o thread["worker"].packets \o queue

\* Packets are handled in the order they arrived and none is lost or repeated,
\* although the rest of a batch is put back while others arrive; once a packet
\* is refused what follows is dropped.
InOrder ==
    IF refused THEN handled = [i \in 1 .. Len(handled) |-> i]
               ELSE handled \o Backlog = [i \in 1 .. arrived |-> i]

\* After a packet was refused no other is handled, on any thread.
NothingAfterRefusal == [][refused => handled' = handled]_vars

\* A session that was suspended is resumed when its backlog is handled.
SuspensionEnds ==
    "SUSPEND_RECV" \in flags ~> ("SUSPEND_RECV" \notin flags \/ status = "DISCONNECTED")

\* Every packet that arrives is handled, unless the session is closed.
ArrivedIsHandled ==
    \A p \in 1 .. MaxPackets :
        arrived >= p ~> (Len(handled) >= p \/ status = "DISCONNECTED")
=============================================================================
