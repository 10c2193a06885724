------------------------------ MODULE IocpNet ------------------------------
(***************************************************************************)
(* The network of a server (CIOCPNet) with one listener and the sessions   *)
(* of one policy: how connections are accepted by the I/O workers, and how *)
(* all of it is taken down (CIOCPNet::Destroy) while the workers run. The  *)
(* main thread closes the listening socket and waits for the accepts that  *)
(* are pending, frees the listener, closes the sessions and waits for them *)
(* to be eliminated, frees their manager, ends the workers and gives the   *)
(* references to the policy back.                                          *)
(*                                                                         *)
(* A session is what Session leaves of it: open or closed, in a list of    *)
(* the manager or not, with at most one overlapped call, its receive. The  *)
(* process threads are stopped before Destroy is called.                   *)
(***************************************************************************)
EXTENDS Naturals, FiniteSets

CONSTANTS
    Accepts,      \* the calls of AcceptEx that are kept pending: m_dwMaxPending
    Workers,      \* the I/O worker threads
    Sessions,     \* the memory of sessions in the manager's pool
    None,         \* no accept, no session
    MaxConnects,  \* bound: calls of Connect
    MaxFailures   \* bound: calls of AcceptEx that fail

ASSUME NetAssumption ==
    /\ IsFiniteSet(Accepts) /\ IsFiniteSet(Workers) /\ IsFiniteSet(Sessions)
    /\ None \notin Accepts \union Sessions
    /\ MaxConnects \in Nat /\ MaxFailures \in Nat

VARIABLES
    main,      \* how far the main thread has come
    fresh,     \* accepts that Initialize has still to make pending
    listener,  \* whether the listener exists
    listen,    \* m_hListen is a socket
    pending,   \* m_dwCurrentPending
    accept,    \* accept[a]: where the call is
    session,   \* session[s]: the session at s, if there is one
    worker,    \* worker[w]: how far the thread is with a completion
    toEnd,     \* workers whose End has still to be called
    ends,      \* the empty completions that End has posted
    owner,     \* whether the server holds its reference to the policy
    uses,      \* m_SessionPolicyMap[policy]
    refs,      \* m_nRefCount of the policy, which is freed at 0
    late,      \* the waits that were given up after 5 seconds
    failures   \* calls of AcceptEx that have failed

acceptVars == <<fresh, listen, pending, accept, failures>>
mainVars == <<main, listener, toEnd, owner, uses, late>>
vars == <<acceptVars, mainVars, session, worker, ends, refs>>

-----------------------------------------------------------------------------
Idle == [at |-> "idle", a |-> None, s |-> None]
NoSession == [at |-> "none", open |-> FALSE, recv |-> "none"]

\* A session whose first receive is posted; it is closed at once if that fails.
NewSessions(at) ==
    {[at |-> at, open |-> TRUE, recv |-> "kernel"], [at |-> at, open |-> FALSE, recv |-> "none"]}

Free(s) == session[s].at = "none"

Init ==
    /\ main = "listening" /\ fresh = Accepts
    /\ listener = TRUE /\ listen = TRUE /\ pending = 0
    /\ accept = [a \in Accepts |-> "none"]
    /\ session = [s \in Sessions |-> NoSession]
    /\ worker = [w \in Workers |-> Idle]
    /\ toEnd = {} /\ ends = 0
    /\ owner = TRUE /\ uses = 0 /\ refs = 2
    /\ late = {} /\ failures = 0

-----------------------------------------------------------------------------
(* CListener.                                                                *)

\* Mutant: a call that has failed is counted.
PendingAcceptCounted(a) ==
    IF listen
    THEN \/ /\ accept' = [accept EXCEPT ![a] = "kernel"]
            /\ pending' = pending + 1
            /\ UNCHANGED failures
         \/ /\ failures < MaxFailures
            /\ failures' = failures + 1
            /\ pending' = pending + 1
            /\ UNCHANGED accept
    ELSE UNCHANGED <<accept, pending, failures>>

\* CListener::PendingAccept, which holds the listener's lock.
PendingAccept(a) ==
    IF listen
    THEN \/ /\ accept' = [accept EXCEPT ![a] = "kernel"]
            /\ pending' = pending + 1
            /\ UNCHANGED failures
         \/ /\ failures < MaxFailures
            /\ failures' = failures + 1
            /\ UNCHANGED <<accept, pending>>
    ELSE UNCHANGED <<accept, pending, failures>>

\* The loop of CListener::Initialize.
Initialize(a) ==
    /\ main = "listening" /\ a \in fresh
    /\ PendingAccept(a)
    /\ fresh' = fresh \ {a}
    /\ UNCHANGED <<listen, mainVars, session, worker, ends, refs>>

\* The rest of CIOCPNet::AddListener.
AddListener ==
    /\ main = "listening" /\ fresh = {}
    /\ main' = "running"
    /\ uses' = uses + 1 /\ refs' = refs + 1
    /\ UNCHANGED <<acceptVars, listener, toEnd, owner, late, session, worker, ends>>

\* The kernel has a connection for a call, or gives it up: all of them once the
\* listening socket is closed.
KernelAccepts(a) ==
    /\ accept[a] = "kernel"
    /\ \E result \in {"failed"} \union {r \in {"accepted"} : listen} :
          accept' = [accept EXCEPT ![a] = result]
    /\ UNCHANGED <<fresh, listen, pending, failures, mainVars, session, worker, ends, refs>>

\* Mutant: the accept is counted down when it is taken, too.
TakeAcceptCounted(w, a) ==
    /\ worker[w] = Idle /\ accept[a] \in {"accepted", "failed"}
    /\ accept' = [accept EXCEPT ![a] = "none"]
    /\ pending' = pending - 1
    /\ worker' = [worker EXCEPT ![w] =
                     [at |-> IF accept[a] = "accepted" THEN "create" ELSE "again", a |-> a, s |-> None]]
    /\ UNCHANGED <<fresh, listen, failures, mainVars, session, ends, refs>>

\* CIOWorker::Run takes the completion of an accept and calls ProcessAccept.
TakeAccept(w, a) ==
    /\ worker[w] = Idle /\ accept[a] \in {"accepted", "failed"}
    /\ accept' = [accept EXCEPT ![a] = "worker"]
    /\ worker' = [worker EXCEPT ![w] =
                     [at |-> IF accept[a] = "accepted" THEN "create" ELSE "count", a |-> a, s |-> None]]
    /\ UNCHANGED <<fresh, listen, pending, failures, mainVars, session, ends, refs>>

\* ProcessAccept makes a session, attaches it to the port and posts its receive. The
\* socket's options, the address, the session or the port may refuse; a closed
\* listening socket always does.
CreateSession(w) ==
    /\ worker[w].at = "create"
    /\ \/ /\ listen
          /\ \E s \in Sessions : \E new \in NewSessions("made") :
                /\ Free(s)
                /\ session' = [session EXCEPT ![s] = new]
                /\ worker' = [worker EXCEPT ![w] = [@ EXCEPT !.at = "add", !.s = s]]
          /\ refs' = refs + 1
       \/ /\ worker' = [worker EXCEPT ![w].at = "count"]
          /\ UNCHANGED <<session, refs>>
    /\ UNCHANGED <<acceptVars, mainVars, ends>>

\* CSessionMgr::Add.
Add(w) ==
    /\ worker[w].at = "add"
    /\ session' = [session EXCEPT ![worker[w].s].at = "added"]
    /\ worker' = [worker EXCEPT ![w] = [@ EXCEPT !.at = "count", !.s = None]]
    /\ UNCHANGED <<acceptVars, mainVars, ends, refs>>

\* The locked end of ProcessAccept.
CountDown(w) ==
    /\ worker[w].at = "count"
    /\ accept' = [accept EXCEPT ![worker[w].a] = "none"]
    /\ pending' = pending - 1
    /\ worker' = [worker EXCEPT ![w].at = "again"]
    /\ UNCHANGED <<fresh, listen, failures, mainVars, session, ends, refs>>

\* Mutant: the next accept is made pending by an idle listener only.
PendAgainWhenIdle(w) ==
    /\ worker[w].at = "again"
    /\ IF pending = 0 THEN PendingAccept(worker[w].a) ELSE UNCHANGED <<accept, pending, failures>>
    /\ worker' = [worker EXCEPT ![w] = [@ EXCEPT !.at = "release", !.a = None]]
    /\ UNCHANGED <<fresh, listen, mainVars, session, ends, refs>>

\* The call of PendingAccept that follows it.
PendAgain(w) ==
    /\ worker[w].at = "again"
    /\ PendingAccept(worker[w].a)
    /\ worker' = [worker EXCEPT ![w] = [@ EXCEPT !.at = "release", !.a = None]]
    /\ UNCHANGED <<fresh, listen, mainVars, session, ends, refs>>

-----------------------------------------------------------------------------
(* Sessions and workers.                                                     *)

\* Something has come for a session, or its socket is closed.
KernelReceives(s) ==
    /\ session[s].recv = "kernel"
    /\ session' = [session EXCEPT ![s].recv = "port"]
    /\ UNCHANGED <<acceptVars, mainVars, worker, ends, refs>>

TakeRecv(w, s) ==
    /\ worker[w] = Idle /\ session[s].recv = "port"
    /\ session' = [session EXCEPT ![s].recv = "worker"]
    /\ worker' = [worker EXCEPT ![w] = [at |-> "dispatch", a |-> None, s |-> s]]
    /\ UNCHANGED <<acceptVars, mainVars, ends, refs>>

\* What InternalRecv leaves of a session without a pending receive: one is posted, or
\* fails and closes it, or the session is suspended.
InternalRecv(r) ==
    IF r.open /\ r.recv = "none"
    THEN {[r EXCEPT !.recv = "kernel"], [r EXCEPT !.open = FALSE], r}
    ELSE {r}

\* CSession::Dispatch: the receive is counted down under the lock. The session is closed
\* if its peer has gone or a packet is refused.
Dispatch(w) ==
    LET s == worker[w].s
    IN  /\ worker[w].at = "dispatch"
        /\ \/ /\ session' = [session EXCEPT ![s].recv = "none"]
              /\ worker' = [worker EXCEPT ![w].at = "recv"]
           \/ /\ session' = [session EXCEPT ![s] = [@ EXCEPT !.recv = "none", !.open = FALSE]]
              /\ worker' = [worker EXCEPT ![w] = [@ EXCEPT !.at = "release", !.s = None]]
        /\ UNCHANGED <<acceptVars, mainVars, ends, refs>>

\* The call of CSession::Recv that follows, which takes the lock anew. The session may
\* have been deleted in between, and its memory be free or another session's.
RecvAgain(w) ==
    LET s == worker[w].s
    IN  /\ worker[w].at = "recv"
        /\ \E r \in InternalRecv(session[s]) : session' = [session EXCEPT ![s] = r]
        /\ worker' = [worker EXCEPT ![w] = [@ EXCEPT !.at = "release", !.s = None]]
        /\ UNCHANGED <<acceptVars, mainVars, ends, refs>>

\* COverlappedFactory::DeleteOverlapped, of the policy's factory.
Release(w) ==
    /\ worker[w].at = "release"
    /\ worker' = [worker EXCEPT ![w] = Idle]
    /\ UNCHANGED <<acceptVars, mainVars, session, ends, refs>>

\* Run takes an empty completion.
End(w) ==
    /\ worker[w] = Idle /\ ends > 0
    /\ ends' = ends - 1
    /\ worker' = [worker EXCEPT ![w].at = "ended"]
    /\ UNCHANGED <<acceptVars, mainVars, session, refs>>

\* CIOCPNet::Connect. The session has the first reference, the map the second.
Connect(s) ==
    /\ main = "running" /\ owner /\ Free(s)
    /\ uses <= MaxConnects
    /\ \E new \in NewSessions("added") : session' = [session EXCEPT ![s] = new]
    /\ uses' = uses + 1 /\ refs' = refs + 2
    /\ UNCHANGED <<acceptVars, main, listener, toEnd, owner, late, worker, ends>>

CloseSession(s) ==
    /\ main = "running" /\ session[s].at \in {"added", "listed"}
    /\ session' = [session EXCEPT ![s].open = FALSE]
    /\ UNCHANGED <<acceptVars, mainVars, worker, ends, refs>>

\* The sessions, with those of m_to_be_added in m_current.
Spliced ==
    [s \in Sessions |-> IF session[s].at = "added" THEN [session[s] EXCEPT !.at = "listed"] ELSE session[s]]

\* The first part of CSessionMgr::InternalProcess.
Splice ==
    /\ main \in {"running", "draining"}
    /\ session' = Spliced
    /\ UNCHANGED <<acceptVars, mainVars, worker, ends, refs>>

\* CSession::Process posts a receive for a session that has none.
ProcessRecv(s) ==
    /\ main \in {"running", "draining"} /\ session[s].at = "listed"
    /\ \E r \in InternalRecv(session[s]) : session' = [session EXCEPT ![s] = r]
    /\ UNCHANGED <<acceptVars, mainVars, worker, ends, refs>>

\* Mutant: what is pending is not looked at.
QuietAlways(s) == session[s].at = "listed" /\ ~session[s].open

Quiet(s) == session[s].at = "listed" /\ ~session[s].open /\ session[s].recv = "none"

\* CSessionMgr::InternalProcess deletes a session, for Process and for Destroy.
DeleteSession(s) ==
    /\ main \in {"running", "draining"} /\ Quiet(s)
    /\ session' = [session EXCEPT ![s] = NoSession]
    /\ refs' = refs - 1
    /\ UNCHANGED <<acceptVars, mainVars, worker, ends>>

-----------------------------------------------------------------------------
(* CIOCPNet::Destroy.                                                        *)

\* The beginning of CListener's destructor: InternalCloseListen.
CloseListen ==
    /\ main = "running"
    /\ main' = "waiting"
    /\ listen' = FALSE
    /\ UNCHANGED <<fresh, pending, accept, failures, listener, toEnd, owner, uses, late, session,
                   worker, ends, refs>>

FreeListener ==
    /\ main' = "closing"
    /\ listener' = FALSE
    /\ refs' = refs - 1
    /\ UNCHANGED <<acceptVars, toEnd, owner, uses, session, worker, ends>>

\* WaitForPendingComplete ends, and the destructor with it.
WaitForPendingComplete == main = "waiting" /\ pending = 0 /\ FreeListener /\ UNCHANGED late
AcceptsAreLate == main = "waiting" /\ pending # 0 /\ FreeListener /\ late' = late \union {"accepts"}

\* The first part of CSessionMgr::Destroy.
CloseAll ==
    /\ main = "closing"
    /\ main' = "draining"
    /\ session' = [s \in Sessions |->
            IF Spliced[s].at = "listed" THEN [Spliced[s] EXCEPT !.open = FALSE] ELSE session[s]]
    /\ UNCHANGED <<acceptVars, listener, toEnd, owner, uses, late, worker, ends, refs>>

NoneListed == \A s \in Sessions : session[s].at # "listed"

\* The end of CSessionMgr's destructor: the pool is freed with what is in it.
FreePool ==
    /\ main = "draining"
    /\ main' = "joining"
    /\ session' = [s \in Sessions |-> IF Free(s) THEN session[s] ELSE [session[s] EXCEPT !.at = "freed"]]
    /\ UNCHANGED <<acceptVars, listener, owner, uses, worker, ends, refs>>

\* Mutant: the threads that are idle are ended.
IdleThreads == {w \in Workers : worker[w] = Idle}

\* CThreadMgr::JoinThread ends every thread there is.
Threads == Workers

SessionsAreGone == NoneListed /\ FreePool /\ toEnd' = Threads /\ UNCHANGED late
SessionsAreLate ==
    ~NoneListed /\ FreePool /\ toEnd' = Threads /\ late' = late \union {"sessions"}

\* CIOWorker::End.
PostEnd(w) ==
    /\ main = "joining" /\ w \in toEnd
    /\ toEnd' = toEnd \ {w}
    /\ ends' = ends + 1
    /\ UNCHANGED <<acceptVars, main, listener, owner, uses, late, session, worker, refs>>

\* Mutant: one reference is given back for a policy.
ReleasePolicyOnce ==
    /\ main = "joining" /\ toEnd = {}
    /\ \A w \in Workers : worker[w].at = "ended"
    /\ main' = "destroyed"
    /\ refs' = refs - 1
    /\ UNCHANGED <<acceptVars, listener, toEnd, owner, uses, late, session, worker, ends>>

\* Mutant: the references are given back before the threads are joined.
ReleasePolicyEarly ==
    /\ main = "joining" /\ toEnd = {}
    /\ main' = "destroyed"
    /\ refs' = refs - uses
    /\ UNCHANGED <<acceptVars, listener, toEnd, owner, uses, late, session, worker, ends>>

\* All threads have ended; the port is closed and the map's references are given back.
ReleasePolicy ==
    /\ main = "joining" /\ toEnd = {}
    /\ \A w \in Workers : worker[w].at = "ended"
    /\ main' = "destroyed"
    /\ refs' = refs - uses
    /\ UNCHANGED <<acceptVars, listener, toEnd, owner, uses, late, session, worker, ends>>

\* The server gives its reference back: in its destructor, or when it listens anew.
OwnerReleases ==
    /\ main \in {"running", "destroyed"} /\ owner
    /\ owner' = FALSE
    /\ refs' = refs - 1
    /\ UNCHANGED <<acceptVars, main, listener, toEnd, uses, late, session, worker, ends>>

-----------------------------------------------------------------------------
Handles(w) ==
    \/ CreateSession(w) \/ Add(w) \/ CountDown(w) \/ PendAgain(w)
    \/ Dispatch(w) \/ RecvAgain(w) \/ Release(w)

Next ==
    \/ \E a \in Accepts : Initialize(a) \/ KernelAccepts(a) \/ \E w \in Workers : TakeAccept(w, a)
    \/ \E s \in Sessions :
          \/ KernelReceives(s) \/ Connect(s) \/ CloseSession(s) \/ ProcessRecv(s) \/ DeleteSession(s)
          \/ \E w \in Workers : TakeRecv(w, s)
    \/ \E w \in Workers : Handles(w) \/ End(w) \/ PostEnd(w)
    \/ Splice \/ AddListener \/ CloseListen \/ WaitForPendingComplete \/ AcceptsAreLate
    \/ CloseAll \/ SessionsAreGone \/ SessionsAreLate \/ ReleasePolicy \/ OwnerReleases

Spec == Init /\ [][Next]_vars

\* Threads go on, a closed socket completes its calls, and the port hands completions
\* out in their order, so that none waits for ever. No wait of Destroy needs to be
\* given up.
LiveSpec ==
    /\ Spec
    /\ \A a \in Accepts :
          /\ WF_vars(~listen /\ KernelAccepts(a))
          /\ SF_vars(\E w \in Workers : TakeAccept(w, a))
    /\ \A s \in Sessions :
          /\ WF_vars(~session[s].open /\ KernelReceives(s))
          /\ SF_vars(\E w \in Workers : TakeRecv(w, s))
          /\ WF_vars(main = "draining" /\ DeleteSession(s))
    /\ \A w \in Workers : WF_vars(Handles(w)) /\ WF_vars(End(w)) /\ WF_vars(PostEnd(w))
    /\ WF_vars(WaitForPendingComplete) /\ WF_vars(CloseAll)
    /\ WF_vars(SessionsAreGone) /\ WF_vars(ReleasePolicy)

-----------------------------------------------------------------------------
TypeOK ==
    /\ main \in {"listening", "running", "waiting", "closing", "draining", "joining", "destroyed"}
    /\ fresh \subseteq Accepts /\ listener \in BOOLEAN /\ listen \in BOOLEAN
    /\ pending \in Nat
    /\ accept \in [Accepts -> {"none", "kernel", "accepted", "failed", "worker"}]
    /\ session \in [Sessions -> [at : {"none", "made", "added", "listed", "freed"}, open : BOOLEAN,
                                 recv : {"none", "kernel", "port", "worker"}]]
    /\ worker \in [Workers ->
           [at : {"idle", "create", "add", "count", "again", "dispatch", "recv", "release", "ended"},
            a : Accepts \union {None}, s : Sessions \union {None}]]
    /\ toEnd \subseteq Workers /\ ends \in Nat
    /\ owner \in BOOLEAN /\ uses \in Nat /\ refs \in Nat
    /\ late \subseteq {"accepts", "sessions"}
    /\ failures \in 0 .. MaxFailures

Pending == {a \in Accepts : accept[a] # "none"}

\* m_dwCurrentPending is the number of accepts that the kernel, the port or a worker
\* has: Destroy may wait for it to be 0.
CountIsTrue == pending = Cardinality(Pending)

\* A listener that listens loses a pending accept for each call of AcceptEx that has
\* failed, and in no other way: not with connections that are refused, broken or more
\* than the pool holds.
AcceptsArePending ==
    LET lost == {a \in Accepts \ (Pending \union fresh) :
                    \A w \in Workers : worker[w].at = "again" => worker[w].a # a}
    IN  listen => Cardinality(lost) = failures

\* The listener is freed when no accept is pending on it and no worker is inside
\* ProcessAccept, but for the call of PendingAccept at its end, unless the wait was
\* given up.
ListenerOutlivesAccepts ==
    ~listener /\ "accepts" \notin late =>
        Pending = {} /\ \A w \in Workers : worker[w].at \notin {"create", "add", "count"}

\* The manager and its pool are freed when no session is left, and no completion of
\* one with the kernel, in the port or with a worker that parses it, unless a wait was
\* given up. A worker between CSession::Dispatch and Recv is not waited for: the session
\* it still has is gone, and its call of Recv is one on freed memory.
ManagerOutlivesSessions ==
    main \in {"joining", "destroyed"} /\ late = {} =>
        /\ \A s \in Sessions : session[s] = NoSession
        /\ \A w \in Workers : worker[w].at \in {"again", "recv", "release", "idle", "ended"}

\* The policy, whose factories make sessions and overlapped structures, is freed when
\* every worker has ended, and no structure of it is with the kernel or in the port.
PolicyOutlivesUse ==
    refs = 0 =>
        /\ \A w \in Workers : worker[w].at = "ended"
        /\ late = {} => Pending = {} /\ \A s \in Sessions : session[s].recv = "none"

\* It is freed in the end: Destroy gives back what AddListener and Connect have taken,
\* the listener and each session what is theirs.
PolicyIsFreed == main = "destroyed" /\ ~owner /\ late = {} => refs = 0

\* Destroy ends without the second wait being given up: the accepts and the sessions
\* that are pending come back, and every worker gets its empty completion. The first
\* must not be given up either: a session added after the others were closed is in the
\* way of the second.
DestroyEnds == main = "waiting" ~> (main = "destroyed" \/ "accepts" \in late)
=============================================================================
