------------------------ MODULE PacketDispatchProofs ------------------------
(***************************************************************************)
(* Proofs about PacketDispatch for any number of packets, with and without *)
(* a second thread: one thread handles at a time, in the order of arrival, *)
(* and none handles after a refusal.                                       *)
(***************************************************************************)
EXTENDS PacketDispatch, SequenceTheorems, TLAPS

\* n packets, from the one after a.
Packets(a, n) == [i \in 1 .. n |-> a + i]

\* PROCESS_PACKET_NOW is set while a thread handles, and for ever after a refusal.
Flagged ==
    /\ \A t \in Threads : thread[t].at \in {"handle", "close"} => "PROCESS_PACKET_NOW" \in flags
    /\ refused => "PROCESS_PACKET_NOW" \in flags /\ \A t \in Threads : ~Handling(t)
    /\ \A t \in Threads : thread[t].at = "close" => refused

\* A thread that does not handle holds no packet, and the worker is in Dispatch only
\* while its receive is not over.
Idle ==
    /\ \A t \in Threads : ~Handling(t) => thread[t].packets = <<>>
    /\ recv # "parsing" => thread["worker"].at = "out"

\* What TypeOK says of a thread.
Thread == [at : {"out", "enter", "handle", "close"}, packets : Seq(Nat), count : 0 .. PerPulse]

Held == arrived - Len(handled) - Len(queue)

\* What arrived and was not handled is with the thread that handles, in order, and
\* what came later is in the queue behind it.
InPlace ==
    /\ handled = Packets(0, Len(handled))
    /\ ~refused =>
          /\ Held \in Nat
          /\ queue = Packets(Len(handled) + Held, Len(queue))
          /\ \A t \in Threads : Handling(t) => thread[t].packets = Packets(Len(handled), Held)
          /\ (\A t \in Threads : ~Handling(t)) => Held = 0

IInv == TypeOK /\ OneThreadHandles /\ Flagged /\ Idle /\ InPlace

-----------------------------------------------------------------------------
(* Sequences of packets.                                                     *)

LEMMA PacketsType ==
    ASSUME NEW a \in Nat, NEW n \in Nat
    PROVE  Packets(a, n) \in Seq(Nat) /\ Len(Packets(a, n)) = n
BY DEF Packets

LEMMA PacketsJoin ==
    ASSUME NEW a \in Nat, NEW n \in Nat, NEW m \in Nat
    PROVE  Packets(a, n) \o Packets(a + n, m) = Packets(a, n + m)
BY DEF Packets

LEMMA PacketsJoinFirst ==
    ASSUME NEW n \in Nat, NEW m \in Nat
    PROVE  Packets(0, n) \o Packets(n, m) = Packets(0, n + m)
BY DEF Packets

LEMMA PacketsSplit ==
    ASSUME NEW a \in Nat, NEW n \in Nat \ {0}
    PROVE  /\ Packets(a, n) # <<>>
           /\ Head(Packets(a, n)) = a + 1
           /\ Tail(Packets(a, n)) = Packets(a + 1, n - 1)
<1> DEFINE s == Packets(a, n)
           t == Packets(a + 1, n - 1)
<1>1. /\ s \in Seq(Nat) /\ Len(s) = n /\ s # <<>>
      /\ t \in Seq(Nat) /\ Len(t) = n - 1
  BY DEF Packets
<1>2. \A i \in 1 .. n : s[i] = a + i
  BY DEF Packets
<1>3. \A i \in 1 .. n - 1 : t[i] = a + 1 + i
  BY DEF Packets
<1> HIDE DEF s, t
<1>4. /\ Tail(s) \in Seq(Nat) /\ Len(Tail(s)) = n - 1
      /\ \A i \in 1 .. n - 1 : Tail(s)[i] = s[i + 1]
  BY <1>1, HeadTailProperties
<1>5. \A i \in 1 .. n - 1 : Tail(s)[i] = t[i]
  BY <1>2, <1>3, <1>4
<1>6. Tail(s) = t
  BY <1>1, <1>4, <1>5, SeqEqual
<1>7. Head(s) = a + 1
  BY <1>1, <1>2
<1> QED
  BY <1>1, <1>6, <1>7 DEF s, t

LEMMA PacketsAppend ==
    ASSUME NEW a \in Nat, NEW n \in Nat
    PROVE  Append(Packets(a, n), a + n + 1) = Packets(a, n + 1)
BY DEF Packets

LEMMA PacketsNone ==
    ASSUME NEW a \in Nat
    PROVE  Packets(a, 0) = <<>>
BY DEF Packets

-----------------------------------------------------------------------------
(* The steps.                                                                *)

LEMMA InitOK == Init => IInv
<1> SUFFICES ASSUME Init
             PROVE  IInv
  OBVIOUS
<1>1. handled = Packets(0, 0) /\ queue = Packets(0, 0) /\ Held = 0
  <2>1. Packets(0, 0) = <<>> /\ Len(<<>>) = 0
    BY PacketsNone, EmptySeq
  <2>2. arrived = 0 /\ Len(handled) = 0 /\ Len(queue) = 0
    BY <2>1 DEF Init
  <2>3. Held = 0
    BY <2>2 DEF Held
  <2> QED
    BY <2>1, <2>3 DEF Init
<1>2. /\ thread = [t \in Threads |-> Out] /\ Threads = {"process", "worker"}
      /\ Out \in [at : {"out", "enter", "handle", "close"}, packets : Seq(Nat), count : 0 .. PerPulse]
      /\ Out.at = "out" /\ Out.packets = <<>>
  <2>1. <<>> \in Seq(Nat) /\ 0 \in 0 .. PerPulse
    BY PacketAssumption
  <2> QED
    BY <2>1 DEF Init, Out, Threads
<1>3. TypeOK
  <2>1. queue \in Seq(Nat) /\ handled \in Seq(Nat)
    BY EmptySeq DEF Init
  <2>2. refused \in BOOLEAN
    BY DEF Init
  <2>3. arrived \in 0 .. MaxPackets /\ flags \in SUBSET {"PROCESS_PACKET_NOW", "SUSPEND_RECV"}
    BY PacketAssumption DEF Init
  <2> QED
    BY <1>2, <2>1, <2>2, <2>3 DEF Init, TypeOK
<1>4. OneThreadHandles /\ Flagged /\ Idle
  BY <1>2 DEF Init, OneThreadHandles, Flagged, Idle, Handling
<1>5. InPlace
  BY <1>1, <1>2 DEF Init, InPlace, Handling
<1> QED
  BY <1>3, <1>4, <1>5 DEF IInv

LEMMA PostOK == IInv /\ Post => IInv'
BY DEF IInv, Post, TypeOK, OneThreadHandles, Flagged, Idle, InPlace, Held, Handling, Packets

LEMMA ReceiveFailsOK == IInv /\ ReceiveFails => IInv'
BY DEF IInv, ReceiveFails, TypeOK, OneThreadHandles, Flagged, Idle, InPlace, Held, Handling, Packets

LEMMA CloseSessionOK == IInv /\ CloseSession => IInv'
BY DEF IInv, CloseSession, TypeOK, OneThreadHandles, Flagged, Idle, InPlace, Held, Handling, Packets

\* A thread that comes to Dispatch.
LEMMA VisitOK == IInv /\ Visit => IInv'
<1> SUFFICES ASSUME IInv, Visit
             PROVE  IInv'
  OBVIOUS
<1> USE DEF IInv, Visit
<1>1. TypeOK'
  BY DEF TypeOK, Threads
<1>2. /\ thread'["process"].at = "enter" /\ thread'["process"].packets = thread["process"].packets
      /\ thread'["worker"] = thread["worker"]
  BY DEF TypeOK, Threads
<1>3. OneThreadHandles' /\ Flagged' /\ Idle'
  BY <1>2 DEF OneThreadHandles, Flagged, Idle, Handling, Threads
<1>4. InPlace'
  BY <1>2 DEF InPlace, Held, Handling, Threads, Packets
<1> QED
  BY <1>1, <1>3, <1>4

\* The packets that are spliced to the queue follow those in it.
LEMMA ParsePacketOK == ASSUME NEW n \in 0 .. Burst PROVE IInv /\ ParsePacket(n) => IInv'
<1> SUFFICES ASSUME IInv, ParsePacket(n)
             PROVE  IInv'
  OBVIOUS
<1> USE DEF IInv
<1>1. n \in Nat /\ arrived \in Nat /\ arrived' = arrived + n /\ arrived' \in 0 .. MaxPackets
  BY PacketAssumption DEF ParsePacket, TypeOK
<1>2. queue' = queue \o Packets(arrived, n) /\ queue \in Seq(Nat) /\ handled \in Seq(Nat)
  <2>1. Packets(arrived, n) = [i \in 1 .. n |-> arrived + i]
    BY DEF Packets
  <2>2. queue' = queue \o [i \in 1 .. n |-> arrived + i]
    BY DEF ParsePacket
  <2> QED
    BY <2>1, <2>2 DEF TypeOK
<1>3. queue' \in Seq(Nat) /\ Len(queue') = Len(queue) + n
  <2>1. Packets(arrived, n) \in Seq(Nat) /\ Len(Packets(arrived, n)) = n
    BY <1>1, PacketsType
  <2> QED
    BY <1>2, <2>1, ConcatProperties
<1>4. /\ handled' = handled /\ refused' = refused /\ status' = status
      /\ recv' \in {"none", "parsing"}
      /\ thread' \in [Threads -> Thread]
      /\ thread'["process"] = thread["process"]
      /\ thread["worker"].at = "out" /\ thread'["worker"].at \in {"out", "enter"}
      /\ thread'["worker"].packets = thread["worker"].packets
      /\ recv' # "parsing" => thread'["worker"].at = "out"
  <2>1. /\ thread \in [Threads -> Thread] /\ Threads = {"process", "worker"}
        /\ thread["worker"].at = "out"
    BY DEF ParsePacket, TypeOK, Thread, Idle, Threads
  <2>2. CASE MultiThread
    <3>1. recv' = "parsing" /\ thread' = [thread EXCEPT !["worker"].at = "enter"]
      BY <2>2 DEF ParsePacket
    <3>2. thread'["worker"] = [thread["worker"] EXCEPT !.at = "enter"] /\ thread["worker"] \in Thread
      BY <2>1, <3>1
    <3>3. thread'["worker"] \in Thread /\ thread'["worker"].at = "enter"
          /\ thread'["worker"].packets = thread["worker"].packets
      BY <3>2 DEF Thread
    <3> QED
      BY <2>1, <3>1, <3>3 DEF ParsePacket
  <2>3. CASE ~MultiThread
    BY <2>1, <2>3 DEF ParsePacket
  <2> QED
    BY <2>2, <2>3
<1>5. /\ flags' \in SUBSET {"PROCESS_PACKET_NOW", "SUSPEND_RECV"}
      /\ "PROCESS_PACKET_NOW" \in flags' <=> "PROCESS_PACKET_NOW" \in flags
  BY DEF ParsePacket, TypeOK, Checked
<1>6. TypeOK'
  BY <1>1, <1>3, <1>4, <1>5 DEF TypeOK, Thread
<1>7. \A t \in Threads : Handling(t)' <=> Handling(t)
  BY <1>4 DEF Handling, Threads
<1>8. OneThreadHandles' /\ Flagged' /\ Idle'
  BY <1>4, <1>5, <1>7 DEF OneThreadHandles, Flagged, Idle, Handling, Threads
<1>9. InPlace'
  <2>1. Held' = Held
    BY <1>1, <1>2, <1>3, <1>4 DEF Held
  <2>2. ASSUME ~refused
        PROVE  queue' = Packets(Len(handled) + Held, Len(queue'))
    <3>1. /\ Len(handled) \in Nat /\ Len(queue) \in Nat /\ Held \in Nat
          /\ arrived = Len(handled) + Held + Len(queue)
      BY <1>1, <1>2, <2>2 DEF InPlace, Held
    <3> HIDE DEF Held
    <3>2. queue = Packets(Len(handled) + Held, Len(queue))
      BY <2>2 DEF InPlace
    <3>3. Packets(Len(handled) + Held, Len(queue)) \o Packets(arrived, n)
             = Packets(Len(handled) + Held, Len(queue) + n)
      <4>1. Len(handled) + Held \in Nat
        BY <3>1
      <4> QED
        BY <1>1, <3>1, <4>1, PacketsJoin
    <3> QED
      BY <1>2, <1>3, <3>2, <3>3
  <2>3. \A t \in Threads : thread'[t].packets = thread[t].packets
    BY <1>4 DEF Threads
  <2> QED
    BY <1>4, <1>7, <2>1, <2>2, <2>3 DEF InPlace
<1> QED
  BY <1>6, <1>8, <1>9

\* What a step of the thread t does to the threads.
LEMMA OneThread ==
    ASSUME TypeOK, NEW t \in Threads, NEW l \in Thread, thread' = [thread EXCEPT ![t] = l]
    PROVE  /\ thread' \in [Threads -> Thread]
           /\ thread'[t] = l
           /\ \A u \in Threads \ {t} : thread'[u] = thread[u]
<1>1. thread \in [Threads -> Thread]
  BY DEF TypeOK, Thread
<1> QED
  BY <1>1

LEMMA OutIsThread == Out \in Thread /\ Out.at = "out" /\ Out.packets = <<>>
<1>1. <<>> \in Seq(Nat) /\ 0 \in 0 .. PerPulse
  BY PacketAssumption
<1> QED
  BY <1>1 DEF Out, Thread

\* A thread that goes away, from Dispatch or from closing the session, with no packet.
LEMMA ReturnsKeeps ==
    ASSUME IInv, NEW t \in Threads, Returns(t, Out)
    PROVE  /\ thread' \in [Threads -> Thread] /\ recv' \in {"none", "posted", "parsing"}
           /\ thread'[t].at = "out" /\ thread'[t].packets = <<>>
           /\ \A u \in Threads \ {t} : thread'[u] = thread[u]
           /\ recv' # "parsing" => thread'["worker"].at = "out"
<1> USE DEF IInv
<1>1. /\ thread' \in [Threads -> Thread] /\ thread'[t] = Out
      /\ \A u \in Threads \ {t} : thread'[u] = thread[u]
  BY OneThread, OutIsThread DEF Returns
<1>2. recv' \in {"none", "posted", "parsing"}
  BY DEF Returns, TypeOK
<1>3. recv' # "parsing" => thread'["worker"].at = "out"
  <2>1. CASE t = "worker"
    BY <2>1, <1>1, OutIsThread
  <2>2. CASE t # "worker"
    BY <2>2, <1>1 DEF Returns, Idle, Threads
  <2> QED
    BY <2>1, <2>2
<1> QED
  BY <1>1, <1>2, <1>3, OutIsThread

\* The first locked section, when another thread is processing.
LEMMA EnterBusyOK ==
    ASSUME NEW t \in Threads, IInv, Enter(t), "PROCESS_PACKET_NOW" \in flags
    PROVE  IInv'
<1> USE DEF IInv
<1>1. /\ Returns(t, Out) /\ thread[t].at = "enter"
      /\ UNCHANGED <<queue, flags, status, arrived, handled, refused>>
  BY DEF Enter
<1>2. /\ thread' \in [Threads -> Thread] /\ recv' \in {"none", "posted", "parsing"}
      /\ thread'[t].at = "out" /\ thread'[t].packets = <<>>
      /\ \A u \in Threads \ {t} : thread'[u] = thread[u]
      /\ recv' # "parsing" => thread'["worker"].at = "out"
  BY <1>1, ReturnsKeeps
<1>3. TypeOK'
  BY <1>1, <1>2 DEF TypeOK, Thread
<1>4. \A u \in Threads : Handling(u)' <=> Handling(u)
  BY <1>1, <1>2 DEF Handling
<1>5. OneThreadHandles' /\ Flagged' /\ Idle'
  BY <1>1, <1>2, <1>4 DEF OneThreadHandles, Flagged, Idle, Handling
<1>6. Held' = Held
  BY <1>1 DEF Held
<1>7. \A u \in Threads : Handling(u)' => thread'[u] = thread[u]
  BY <1>1, <1>2 DEF Handling
<1>8. InPlace'
  BY <1>1, <1>4, <1>6, <1>7 DEF InPlace
<1> QED
  BY <1>3, <1>5, <1>8

\* The first locked section, when the queue is taken: the thread has it and nobody
\* else has a packet.
LEMMA EnterFreeOK ==
    ASSUME NEW t \in Threads, IInv, Enter(t), "PROCESS_PACKET_NOW" \notin flags
    PROVE  IInv'
<1> USE DEF IInv
<1> DEFINE l == [at |-> "handle", packets |-> queue, count |-> 0]
<1>1. /\ thread' = [thread EXCEPT ![t] = l] /\ thread[t].at = "enter"
      /\ queue' = <<>> /\ recv' = recv
      /\ flags' = Checked(flags \union {"PROCESS_PACKET_NOW"}, Len(queue))
      /\ UNCHANGED <<status, arrived, handled, refused>>
  BY DEF Enter
<1>2. l \in Thread /\ l.at = "handle" /\ l.packets = queue
  BY PacketAssumption DEF TypeOK, Thread
<1>3. /\ thread' \in [Threads -> Thread] /\ thread'[t] = l
      /\ \A u \in Threads \ {t} : thread'[u] = thread[u]
  BY <1>1, <1>2, OneThread
<1> HIDE DEF l
<1>4. /\ flags' \in SUBSET {"PROCESS_PACKET_NOW", "SUSPEND_RECV"} /\ "PROCESS_PACKET_NOW" \in flags'
  BY <1>1 DEF TypeOK, Checked
<1>5. <<>> \in Seq(Nat) /\ Len(<<>>) = 0
  BY EmptySeq
<1>6. TypeOK'
  BY <1>1, <1>3, <1>4, <1>5 DEF TypeOK, Thread
<1>7. ~refused /\ \A u \in Threads : ~Handling(u) /\ thread[u].at # "close"
  BY DEF Flagged, Handling
<1>8. \A u \in Threads : Handling(u)' <=> u = t
  BY <1>2, <1>3, <1>7 DEF Handling
<1>9. OneThreadHandles' /\ Flagged' /\ Idle'
  <2>1. recv # "parsing" => t # "worker"
    BY <1>1 DEF Idle
  <2> QED
    BY <1>1, <1>2, <1>3, <1>4, <1>7, <1>8, <2>1 DEF OneThreadHandles, Flagged, Idle, Handling, Threads
<1>10. InPlace'
  <2>1. /\ Len(queue) \in Nat /\ Len(handled) \in Nat /\ arrived \in Nat
        /\ Held = 0 /\ queue = Packets(Len(handled) + Held, Len(queue))
    BY <1>7 DEF InPlace, TypeOK
  <2>2. Held' = Len(queue) /\ Len(queue') = 0
    BY <1>1, <1>5, <2>1 DEF Held
  <2>3. thread'[t].packets = Packets(Len(handled), Held')
    BY <1>2, <1>3, <2>1, <2>2
  <2>4. queue' = Packets(Len(handled) + Held', 0)
    BY <1>1, <2>1, <2>2, PacketsNone
  <2> QED
    BY <1>1, <1>7, <1>8, <2>1, <2>2, <2>3, <2>4 DEF InPlace
<1> QED
  BY <1>6, <1>9, <1>10

\* One turn of the loop: the first of the packets goes from the thread to the end of
\* what was handled.
LEMMA HandleOK ==
    ASSUME NEW t \in Threads, IInv, Handle(t)
    PROVE  IInv'
<1> USE DEF IInv
<1> DEFINE h == Len(handled)
           rest == [thread[t] EXCEPT !.packets = Tail(@), !.count = @ + 1]
<1>1. /\ Handling(t) /\ thread[t].count < PerPulse /\ thread[t].packets # <<>>
      /\ handled' = Append(handled, Head(thread[t].packets))
      /\ UNCHANGED <<queue, flags, status, recv, arrived>>
      /\ \/ thread' = [thread EXCEPT ![t].packets = Tail(@), ![t].count = @ + 1] /\ refused' = refused
         \/ thread' = [thread EXCEPT ![t] = [Out EXCEPT !.at = "close"]] /\ refused' = TRUE
  BY DEF Handle, Handling
<1>2. ~refused /\ "PROCESS_PACKET_NOW" \in flags /\ \A u \in Threads : Handling(u) => u = t
  BY <1>1 DEF Flagged, OneThreadHandles, Handling
<1>3. /\ h \in Nat /\ Len(queue) \in Nat /\ arrived \in Nat /\ Held \in Nat
      /\ arrived = h + Held + Len(queue)
  BY <1>2 DEF TypeOK, InPlace, Held
<1>4. thread[t].packets = Packets(h, Held) /\ handled = Packets(0, h)
  BY <1>1, <1>2 DEF InPlace
<1>5. Held \in Nat \ {0}
  BY <1>1, <1>3, <1>4, PacketsNone
<1>6. Head(thread[t].packets) = h + 1 /\ Tail(thread[t].packets) = Packets(h + 1, Held - 1)
  <2> HIDE DEF h
  <2>1. Head(Packets(h, Held)) = h + 1 /\ Tail(Packets(h, Held)) = Packets(h + 1, Held - 1)
    BY <1>3, <1>5, PacketsSplit
  <2> QED
    BY <1>4, <2>1
<1>7. handled' = Packets(0, h + 1)
  <2>1. Append(Packets(0, h), 0 + h + 1) = Packets(0, h + 1)
    BY <1>3, PacketsAppend
  <2> QED
    BY <1>1, <1>3, <1>4, <1>6, <2>1
<1>8. handled' \in Seq(Nat) /\ Len(handled') = h + 1
  BY <1>3, <1>7, PacketsType
<1>9. handled' = Packets(0, Len(handled')) /\ Held' = Held - 1 /\ Held' \in Nat
  <2> HIDE DEF h
  <2>1. Held' = arrived - (h + 1) - Len(queue)
    BY <1>1, <1>8 DEF Held
  <2> QED
    BY <1>3, <1>5, <1>7, <1>8, <2>1
<1>10. Packets(h + 1, Held - 1) \in Seq(Nat)
  BY <1>3, <1>5, PacketsType
<1>11. queue = Packets(h + Held, Len(queue))
  BY <1>2 DEF InPlace
<1> HIDE DEF h
<1>12. CASE thread' = [thread EXCEPT ![t].packets = Tail(@), ![t].count = @ + 1] /\ refused' = refused
  <2>1. thread' = [thread EXCEPT ![t] = rest]
    BY <1>12
  <2>2. thread[t] \in Thread
    BY DEF TypeOK, Thread
  <2>3. /\ rest \in Thread /\ rest.at = "handle" /\ rest.packets = Packets(h + 1, Held - 1)
    <3>1. thread[t].count + 1 \in 0 .. PerPulse
      <4>1. thread[t].count \in 0 .. PerPulse /\ PerPulse \in Nat
        BY <2>2, PacketAssumption DEF Thread
      <4> QED
        BY <1>1, <4>1
    <3> QED
      <4> DEFINE n == thread[t].count + 1
                 ps == Packets(h + 1, Held - 1)
                 r == thread[t]
      <4>1. rest = [r EXCEPT !.packets = ps, !.count = n]
        BY <1>6
      <4>2. r \in Thread /\ ps \in Seq(Nat) /\ n \in 0 .. PerPulse /\ r.at = "handle"
        BY <1>1, <1>10, <2>2, <3>1 DEF Handling
      <4> HIDE DEF n, ps, r, rest
      <4>3. rest \in Thread /\ rest.at = r.at /\ rest.packets = ps
        BY <4>1, <4>2 DEF Thread
      <4> QED
        BY <4>2, <4>3 DEF ps
  <2>4. /\ thread' \in [Threads -> Thread] /\ thread'[t] = rest
        /\ \A u \in Threads \ {t} : thread'[u] = thread[u]
    <3> HIDE DEF rest
    <3> QED
      BY <2>1, <2>3, OneThread
  <2> HIDE DEF rest
  <2>5. TypeOK'
    BY <1>1, <1>8, <1>12, <2>4 DEF TypeOK, Thread
  <2>6. \A u \in Threads : Handling(u)' <=> u = t
    BY <1>1, <1>2, <2>3, <2>4 DEF Handling
  <2>7. OneThreadHandles' /\ Flagged' /\ Idle'
    BY <1>1, <1>2, <1>12, <2>3, <2>4, <2>6 DEF OneThreadHandles, Flagged, Idle, Handling, Threads
  <2>8. InPlace'
    <3>1. h + 1 + (Held - 1) = h + Held
      BY <1>3
    <3> QED
      BY <1>1, <1>8, <1>9, <1>11, <2>3, <2>4, <2>6, <3>1 DEF InPlace
  <2> QED
    BY <2>5, <2>7, <2>8
<1>13. CASE thread' = [thread EXCEPT ![t] = [Out EXCEPT !.at = "close"]] /\ refused' = TRUE
  <2> DEFINE l == [Out EXCEPT !.at = "close"]
  <2>1. l \in Thread /\ l.at = "close" /\ l.packets = <<>>
    BY OutIsThread DEF Thread
  <2>2. /\ thread' \in [Threads -> Thread] /\ thread'[t] = l
        /\ \A u \in Threads \ {t} : thread'[u] = thread[u]
    <3> HIDE DEF l
    <3> QED
      BY <1>13, <2>1, OneThread DEF l
  <2> HIDE DEF l
  <2>3. refused' \in BOOLEAN
    BY <1>13
  <2>4. TypeOK'
    BY <1>1, <1>8, <2>2, <2>3 DEF TypeOK, Thread
  <2>5. \A u \in Threads : ~Handling(u)'
    BY <1>2, <2>1, <2>2 DEF Handling
  <2>6. OneThreadHandles' /\ Flagged' /\ Idle'
    BY <1>1, <1>2, <1>13, <2>1, <2>2, <2>5 DEF OneThreadHandles, Flagged, Idle, Handling, Threads
  <2>7. InPlace'
    BY <1>9, <1>13 DEF InPlace
  <2> QED
    BY <2>4, <2>6, <2>7
<1> QED
  BY <1>1, <1>12, <1>13

\* The second locked section: what was not handled goes before what came since.
LEMMA LeaveOK ==
    ASSUME NEW t \in Threads, IInv, Leave(t)
    PROVE  IInv'
<1> USE DEF IInv
<1>1. /\ Handling(t) /\ queue' = thread[t].packets \o queue /\ Returns(t, Out)
      /\ flags' = flags \ {"PROCESS_PACKET_NOW"}
      /\ UNCHANGED <<status, arrived, handled, refused>>
  BY DEF Leave, LoopIsOver, Handling
<1>2. ~refused /\ \A u \in Threads : Handling(u) => u = t
  BY <1>1 DEF Flagged, OneThreadHandles, Handling
<1>3. /\ thread' \in [Threads -> Thread] /\ recv' \in {"none", "posted", "parsing"}
      /\ thread'[t].at = "out" /\ thread'[t].packets = <<>>
      /\ \A u \in Threads \ {t} : thread'[u] = thread[u]
      /\ recv' # "parsing" => thread'["worker"].at = "out"
  BY <1>1, ReturnsKeeps
<1>4. /\ Len(handled) \in Nat /\ Len(queue) \in Nat /\ arrived \in Nat /\ Held \in Nat
      /\ arrived = Len(handled) + Held + Len(queue)
  BY <1>2 DEF TypeOK, InPlace, Held
<1>5. queue' = Packets(Len(handled), Held + Len(queue))
  <2>1. Packets(Len(handled), Held) \o Packets(Len(handled) + Held, Len(queue))
           = Packets(Len(handled), Held + Len(queue))
    BY <1>4, PacketsJoin
  <2> QED
    BY <1>1, <1>2, <2>1 DEF InPlace
<1>6. queue' \in Seq(Nat) /\ Len(queue') = Held + Len(queue)
  BY <1>4, <1>5, PacketsType
<1>7. Held' = 0
  <2>1. Held' = arrived - Len(handled) - (Held + Len(queue))
    BY <1>1, <1>6 DEF Held
  <2> HIDE DEF Held
  <2> QED
    BY <1>4, <2>1
<1>8. flags' \in SUBSET {"PROCESS_PACKET_NOW", "SUSPEND_RECV"}
  BY <1>1 DEF TypeOK
<1>9. TypeOK'
  BY <1>1, <1>3, <1>6, <1>8 DEF TypeOK, Thread
<1>10. \A u \in Threads : ~Handling(u)'
  BY <1>2, <1>3 DEF Handling
<1>11. \A u \in Threads : thread'[u].at # "close"
  BY <1>2, <1>3 DEF Flagged
<1>12. OneThreadHandles' /\ Flagged' /\ Idle'
  BY <1>1, <1>2, <1>3, <1>10, <1>11 DEF OneThreadHandles, Flagged, Idle, Handling
<1>13. InPlace'
  <2>1. queue' = Packets(Len(handled) + 0, Len(queue'))
    BY <1>4, <1>5, <1>6
  <2> QED
    BY <1>1, <1>7, <1>10, <2>1 DEF InPlace
<1> QED
  BY <1>9, <1>12, <1>13

LEMMA RefusedOK ==
    ASSUME NEW t \in Threads, IInv, Refused(t)
    PROVE  IInv'
<1> USE DEF IInv
<1>1. /\ thread[t].at = "close" /\ Returns(t, Out) /\ status' = "DISCONNECTED"
      /\ UNCHANGED <<queue, flags, arrived, handled, refused>>
  BY DEF Refused
<1>2. refused
  BY <1>1 DEF Flagged
<1>3. /\ thread' \in [Threads -> Thread] /\ recv' \in {"none", "posted", "parsing"}
      /\ thread'[t].at = "out" /\ thread'[t].packets = <<>>
      /\ \A u \in Threads \ {t} : thread'[u] = thread[u]
      /\ recv' # "parsing" => thread'["worker"].at = "out"
  BY <1>1, ReturnsKeeps
<1>4. TypeOK'
  BY <1>1, <1>3 DEF TypeOK, Thread
<1>5. \A u \in Threads : ~Handling(u)'
  BY <1>2, <1>3 DEF Flagged, Handling
<1>6. OneThreadHandles' /\ Flagged' /\ Idle'
  BY <1>1, <1>2, <1>3, <1>5 DEF OneThreadHandles, Flagged, Idle, Handling
<1>7. InPlace'
  BY <1>1, <1>2 DEF InPlace
<1> QED
  BY <1>4, <1>6, <1>7

LEMMA NextOK == IInv /\ [Next]_vars => IInv'
<1> SUFFICES ASSUME IInv, [Next]_vars
             PROVE  IInv'
  OBVIOUS
<1>1. CASE Post \/ ReceiveFails \/ CloseSession \/ Visit
  BY <1>1, PostOK, ReceiveFailsOK, CloseSessionOK, VisitOK
<1>2. CASE \E n \in 0 .. Burst : ParsePacket(n)
  BY <1>2, ParsePacketOK
<1>3. CASE \E t \in Threads : ThreadStep(t)
  BY <1>3, EnterBusyOK, EnterFreeOK, HandleOK, LeaveOK, RefusedOK DEF ThreadStep
<1>4. CASE UNCHANGED vars
  BY <1>4 DEF vars, IInv, TypeOK, OneThreadHandles, Flagged, Idle, InPlace, Held, Handling
<1> QED
  BY <1>1, <1>2, <1>3, <1>4 DEF Next

-----------------------------------------------------------------------------
\* The inductive invariant: the flag keeps the second thread out, and what arrived is
\* handled, taken or queued, in this order.
THEOREM QueueIsKept == Spec => []IInv
BY InitOK, NextOK, PTL DEF Spec

\* Type correctness: a thread has handled no more than a pulse's packets.
THEOREM TypeCorrect == Spec => []TypeOK
BY QueueIsKept, PTL DEF IInv

\* Never do two threads handle the packets of one session, although the flag is set
\* and cleared in two locked sections with the handlers between them.
THEOREM OneAtATime == Spec => []OneThreadHandles
BY QueueIsKept, PTL DEF IInv

\* What was handled, then what is taken, then what is queued is what arrived.
LEMMA InPlaceIsInOrder == IInv => InOrder
<1> SUFFICES ASSUME IInv
             PROVE  InOrder
  OBVIOUS
<1> USE DEF IInv
<1> DEFINE h == Len(handled)
           p == thread["process"].packets
           w == thread["worker"].packets
<1>1. handled = Packets(0, h) /\ h \in Nat
  BY DEF InPlace, TypeOK
<1>2. CASE refused
  BY <1>1, <1>2 DEF InOrder, Packets
<1>3. CASE ~refused
  <2>1. /\ Held \in Nat /\ Len(queue) \in Nat /\ arrived = h + Held + Len(queue)
        /\ queue = Packets(h + Held, Len(queue))
    BY <1>3 DEF InPlace, TypeOK, Held
  <2>2. /\ p \in Seq(Nat) /\ w \in Seq(Nat) /\ queue \in Seq(Nat)
    BY DEF TypeOK, Threads
  <2>3. p \o w = Packets(h, Held)
    <3>1. Packets(h, Held) \in Seq(Nat) /\ Packets(h, 0) = <<>>
      BY <1>1, <2>1, PacketsType, PacketsNone
    <3>2. CASE Handling("process")
      <4>1. p = Packets(h, Held) /\ ~Handling("worker")
        BY <1>3, <3>2 DEF InPlace, OneThreadHandles, Threads
      <4>2. w = <<>>
        BY <4>1 DEF Idle, Threads
      <4> QED
        BY <3>1, <4>1, <4>2, ConcatEmptySeq
    <3>3. CASE Handling("worker")
      <4>1. w = Packets(h, Held) /\ ~Handling("process")
        BY <1>3, <3>3 DEF InPlace, OneThreadHandles, Threads
      <4>2. p = <<>>
        BY <4>1 DEF Idle, Threads
      <4> QED
        BY <3>1, <4>1, <4>2, ConcatEmptySeq
    <3>4. CASE ~Handling("process") /\ ~Handling("worker")
      <4>1. Held = 0 /\ p = <<>> /\ w = <<>>
        BY <1>3, <3>4 DEF InPlace, Idle, Threads
      <4> QED
        BY <3>1, <4>1, ConcatEmptySeq
    <3> QED
      BY <3>2, <3>3, <3>4
  <2> HIDE DEF p, w, h
  <2>4. Backlog = Packets(h, Held + Len(queue))
    <3>1. Backlog = Packets(h, Held) \o queue
      BY <2>3 DEF Backlog, p, w
    <3> QED
      BY <1>1, <2>1, <3>1, PacketsJoin
  <2>5. handled \o Backlog = Packets(0, arrived)
    <3>1. Packets(0, h) \o Packets(h, Held + Len(queue)) = Packets(0, h + (Held + Len(queue)))
      <4>1. Held + Len(queue) \in Nat
        BY <2>1
      <4> QED
        BY <1>1, <4>1, PacketsJoinFirst
    <3>2. h + (Held + Len(queue)) = arrived
      BY <1>1, <2>1
    <3> QED
      BY <1>1, <2>4, <3>1, <3>2
  <2>6. Packets(0, arrived) = [i \in 1 .. arrived |-> i]
    BY <1>1, <2>1 DEF Packets
  <2> QED
    BY <1>3, <2>5, <2>6 DEF InOrder
<1> QED
  BY <1>2, <1>3

\* Packets are handled in the order in which they arrived and none is lost, whatever
\* arrives while the rest of a batch is put back.
THEOREM Ordered == Spec => []InOrder
BY QueueIsKept, InPlaceIsInOrder, PTL

\* Nothing is handled after a refusal: the flag that the refusal leaves set keeps
\* every thread out.
THEOREM RefusalIsFinal == Spec => NothingAfterRefusal
<1>1. ASSUME IInv, [Next]_vars, refused
      PROVE  handled' = handled
  <2>1. ASSUME NEW t \in Threads, Handle(t)
        PROVE  FALSE
    BY <1>1, <2>1 DEF IInv, Flagged, Handling, Handle
  <2> QED
    BY <1>1, <2>1 DEF Next, ThreadStep, vars, Post, ReceiveFails, CloseSession, Visit, ParsePacket,
                      Enter, Leave, Refused
<1>2. IInv /\ [Next]_vars => [refused => handled' = handled]_vars
  BY <1>1
<1> QED
  BY QueueIsKept, <1>2, PTL DEF Spec, NothingAfterRefusal
=============================================================================
