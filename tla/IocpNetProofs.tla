---------------------------- MODULE IocpNetProofs ----------------------------
(***************************************************************************)
(* Proofs about IocpNet for any number of pending accepts, workers and     *)
(* sessions: the count of pending accepts and the references to the policy *)
(* are true in every step, so that what Destroy frees is not used any more *)
(* unless one of its waits was given up.                                   *)
(***************************************************************************)
EXTENDS IocpNet, FiniteSetTheorems, TLAPS

(***************************************************************************)
(* Accepts. A worker inside ProcessAccept has one of its own, which is     *)
(* with nobody once it has been counted down.                              *)
(***************************************************************************)
InAccept == {"create", "add", "count"}

AcceptOK ==
    /\ \A w \in Workers :
          /\ worker[w].at \in InAccept =>
                worker[w].a \in Accepts /\ accept[worker[w].a] = "worker"
          /\ worker[w].at = "again" =>
                worker[w].a \in Accepts \ fresh /\ accept[worker[w].a] = "none"
    /\ \A v, w \in Workers :
          /\ {worker[v].at, worker[w].at} \subseteq InAccept \union {"again"}
          /\ worker[v].a = worker[w].a
          => v = w
    /\ \A a \in fresh : accept[a] = "none"

Again == {a \in Accepts : \E w \in Workers : worker[w].at = "again" /\ worker[w].a = a}

\* Accepts that are not pending, nor will be.
Lost == Accepts \ (Pending \union fresh \union Again)

LostOK == listen => Cardinality(Lost) = failures

(***************************************************************************)
(* How far Destroy is, and what is then over.                              *)
(***************************************************************************)
PhaseOK ==
    /\ listener <=> main \in {"listening", "running", "waiting"}
    /\ listen <=> main \in {"listening", "running"}
    /\ main \notin {"listening", "destroyed"} => uses > 0
    /\ main = "destroyed" => \A w \in Workers : worker[w].at = "ended"
    /\ ~listener /\ "accepts" \notin late => pending = 0

(***************************************************************************)
(* Sessions, and the workers that have one.                                *)
(***************************************************************************)
SessionOK ==
    /\ \A s \in Sessions :
          /\ Free(s) => session[s] = NoSession
          /\ session[s].at = "made" => \E w \in Workers : worker[w].at = "add" /\ worker[w].s = s
          /\ session[s].at = "freed" => main \in {"joining", "destroyed"}
    /\ \A w \in Workers :
          /\ worker[w].at = "add" =>
                worker[w].s \in Sessions /\ session[worker[w].s].at \in {"made", "freed"}
          /\ worker[w].at = "dispatch" =>
                worker[w].s \in Sessions /\ session[worker[w].s].recv = "worker"
          /\ worker[w].at = "recv" => worker[w].s \in Sessions
    /\ \A v, w \in Workers :
          /\ worker[v].at \in {"add", "dispatch"} /\ worker[w].at = worker[v].at
          /\ worker[v].s = worker[w].s
          => v = w

\* Sessions that are in no list, or in the first, while Destroy empties the second.
DrainOK ==
    /\ main = "draining" /\ "accepts" \notin late => \A s \in Sessions : session[s].at # "added"
    /\ main \in {"joining", "destroyed"} /\ late = {} => \A s \in Sessions : Free(s)

(***************************************************************************)
(* The references to the policy.                                           *)
(***************************************************************************)
Live == {s \in Sessions : ~Free(s)}

One(b) == IF b THEN 1 ELSE 0

RefsOK ==
    refs = One(owner) + (IF main = "destroyed" THEN 0 ELSE uses) + One(listener) + Cardinality(Live)

IInv ==
    /\ TypeOK /\ CountIsTrue /\ LostOK /\ AcceptOK
    /\ PhaseOK /\ SessionOK /\ DrainOK /\ RefsOK
-----------------------------------------------------------------------------
(* Cardinalities.                                                            *)

LEMMA FiniteParts ==
    /\ \A S \in SUBSET Accepts : IsFiniteSet(S) /\ Cardinality(S) \in Nat
    /\ \A S \in SUBSET Sessions : IsFiniteSet(S) /\ Cardinality(S) \in Nat
BY NetAssumption, FS_Subset, FS_CardinalityType DEF NetAssumption

LEMMA LiveIsCounted == IsFiniteSet(Live) /\ Cardinality(Live) \in Nat
BY FiniteParts DEF Live

LEMMA OneMore ==
    ASSUME NEW S, NEW T, NEW x, IsFiniteSet(S), x \notin S, T = S \union {x}
    PROVE  Cardinality(T) = Cardinality(S) + 1
BY FS_AddElement

LEMMA OneLess ==
    ASSUME NEW S, NEW T, NEW x, IsFiniteSet(S), x \in S, T = S \ {x}
    PROVE  Cardinality(T) = Cardinality(S) - 1
BY FS_RemoveElement

LEMMA EmptyIsZero ==
    ASSUME NEW S, IsFiniteSet(S)
    PROVE  Cardinality(S) = 0 <=> S = {}
BY FS_EmptySet

(***************************************************************************)
(* Types of records that change in one or two fields.                      *)
(***************************************************************************)
Stages == {"idle", "create", "add", "count", "again", "dispatch", "recv", "release", "ended"}

Step == [at : Stages, a : Accepts \union {None}, s : Sessions \union {None}]

Places == {"none", "made", "added", "listed", "freed"}

Calls == {"none", "kernel", "port", "worker"}

Record == [at : Places, open : BOOLEAN, recv : Calls]

LEMMA StepType ==
    ASSUME NEW r \in Step, NEW at \in Stages
    PROVE  /\ [r EXCEPT !.at = at] \in Step
           /\ [r EXCEPT !.at = at, !.a = None] \in Step
           /\ \A s \in Sessions \union {None} : [r EXCEPT !.at = at, !.s = s] \in Step
BY DEF Step

LEMMA RecordType ==
    ASSUME NEW r \in Record
    PROVE  /\ \A at \in Places : [r EXCEPT !.at = at] \in Record
           /\ \A recv \in Calls : [r EXCEPT !.recv = recv] \in Record
           /\ [r EXCEPT !.open = FALSE] \in Record
           /\ [r EXCEPT !.recv = "none", !.open = FALSE] \in Record
BY DEF Record, Calls

LEMMA Typed ==
    TypeOK => worker \in [Workers -> Step] /\ session \in [Sessions -> Record]
BY DEF TypeOK, Step, Stages, Record, Places, Calls

\* The parts of TypeOK that most steps keep.
LEMMA TypesKept ==
    ASSUME TypeOK, UNCHANGED <<acceptVars, mainVars, ends>>,
           worker' \in [Workers -> Step], session' \in [Sessions -> Record], refs' \in Nat
    PROVE  TypeOK'
BY DEF TypeOK, acceptVars, mainVars, Step, Stages, Record, Places, Calls

(***************************************************************************)
(* What a step keeps that does not touch the accepts, or the sessions.     *)
(***************************************************************************)
LEMMA AcceptsApart ==
    ASSUME IInv, UNCHANGED <<fresh, accept, pending, failures>>, listen' => listen,
           \A w \in Workers :
              \/ worker'[w] = worker[w]
              \/ /\ worker[w].at \notin InAccept \union {"again"}
                 /\ worker'[w].at \notin InAccept \union {"again"}
    PROVE  AcceptOK' /\ CountIsTrue' /\ LostOK'
<1>1. AcceptOK'
  BY DEF IInv, AcceptOK, InAccept
<1>2. CountIsTrue'
  BY DEF IInv, CountIsTrue, Pending
<1>3. Again' = Again
  BY DEF Again, InAccept
<1>4. LostOK'
  BY <1>3 DEF IInv, LostOK, Lost, Pending
<1> QED
  BY <1>1, <1>2, <1>4

LEMMA RefsApart ==
    ASSUME IInv, UNCHANGED <<refs, owner, uses, listener>>,
           main' = "destroyed" <=> main = "destroyed",
           \A s \in Sessions : Free(s)' <=> Free(s)
    PROVE  RefsOK'
<1>1. Live' = Live
  BY DEF Live
<1> QED
  BY <1>1 DEF IInv, RefsOK, One

\* A session that comes has a reference of its own, and one that goes gives it back.
LEMMA RefsMove ==
    ASSUME IInv, NEW i \in Int, refs' = refs + i, Cardinality(Live') = Cardinality(Live) + i,
           UNCHANGED <<main, owner, uses, listener>>
    PROVE  RefsOK'
<1>1. /\ refs \in Nat /\ uses \in Nat /\ Cardinality(Live) \in Nat
      /\ One(owner) \in Nat /\ One(listener) \in Nat
  BY LiveIsCounted DEF IInv, TypeOK, One
<1>2. One(owner)' = One(owner) /\ One(listener)' = One(listener)
  BY DEF One
<1>3. refs = One(owner) + (IF main = "destroyed" THEN 0 ELSE uses) + One(listener) + Cardinality(Live)
  BY DEF IInv, RefsOK
<1> QED
  BY <1>1, <1>2, <1>3 DEF RefsOK

(***************************************************************************)
(* The initial state.                                                      *)
(***************************************************************************)
LEMMA InitKept == Init => IInv
<1> SUFFICES ASSUME Init PROVE IInv
  OBVIOUS
<1>1. TypeOK
  BY NetAssumption DEF Init, TypeOK, NetAssumption, NoSession, Idle
<1>2. Pending = {} /\ Again = {} /\ Lost = {} /\ Live = {}
  BY DEF Init, Pending, Again, Lost, Live, Idle, Free, NoSession
<1>3. CountIsTrue /\ LostOK /\ RefsOK
  BY <1>2, FS_EmptySet DEF Init, CountIsTrue, LostOK, RefsOK, One
<1>4. AcceptOK /\ PhaseOK
  BY DEF Init, AcceptOK, PhaseOK, InAccept, Idle
<1>5. SessionOK /\ DrainOK
  BY DEF Init, SessionOK, DrainOK, Idle, Free, NoSession
<1> QED
  BY <1>1, <1>3, <1>4, <1>5 DEF IInv

-----------------------------------------------------------------------------
(* The accepts.                                                              *)

\* What PendingAccept does for an accept that was with nobody: it is with the kernel
\* and counted, or lost and counted as that.
LEMMA PendingAcceptCounts ==
    ASSUME IInv, NEW a \in Accepts, PendingAccept(a), listen, a \notin Pending
    PROVE  \/ /\ pending' = pending + 1 /\ UNCHANGED failures
              /\ accept' = [accept EXCEPT ![a] = "kernel"]
              /\ Pending' = Pending \union {a}
           \/ /\ UNCHANGED <<accept, pending>>
              /\ failures' = failures + 1 /\ failures' \in 0 .. MaxFailures
              /\ Pending' = Pending
BY NetAssumption DEF IInv, TypeOK, PendingAccept, Pending, NetAssumption

LEMMA InitializeKeeps ==
    ASSUME IInv, NEW a \in Accepts, Initialize(a)
    PROVE  IInv'
<1>1. a \in fresh /\ a \notin Pending /\ listen /\ accept[a] = "none" /\ PendingAccept(a)
  BY DEF IInv, PhaseOK, AcceptOK, Initialize, Pending
<1>2. fresh' = fresh \ {a} /\ UNCHANGED <<listen, mainVars, session, worker, ends, refs>>
  BY DEF Initialize
<1>3. IsFiniteSet(Pending) /\ IsFiniteSet(Lost) /\ a \notin Again /\ a \notin Lost
  BY <1>1, FiniteParts DEF Pending, Lost, Again, IInv, AcceptOK
<1>4. TypeOK'
  BY <1>1, <1>2, PendingAcceptCounts DEF IInv, TypeOK, mainVars
<1>5. AcceptOK'
  BY <1>1, <1>2, PendingAcceptCounts DEF IInv, TypeOK, AcceptOK, InAccept
<1>6. CountIsTrue'
  BY <1>1, <1>3, PendingAcceptCounts, OneMore DEF IInv, CountIsTrue
<1>7. LostOK'
  <2>1. Again' = Again
    BY <1>2 DEF Again
  <2>2. CASE Pending' = Pending \union {a} /\ UNCHANGED failures
    <3>1. Lost' = Lost
      BY <1>1, <1>2, <2>1, <2>2 DEF Lost
    <3> QED
      BY <1>2, <2>2, <3>1 DEF IInv, LostOK
  <2>3. CASE Pending' = Pending /\ failures' = failures + 1
    <3>1. Lost' = Lost \union {a}
      BY <1>1, <1>2, <1>3, <2>1, <2>3 DEF Lost
    <3> QED
      BY <1>1, <1>3, <2>3, <3>1, OneMore DEF IInv, LostOK
  <2> QED
    BY <1>1, <2>2, <2>3, PendingAcceptCounts
<1>8. PhaseOK' /\ SessionOK' /\ DrainOK'
  BY <1>1, <1>2 DEF IInv, PhaseOK, SessionOK, DrainOK, Free, mainVars
<1>9. RefsOK'
  BY <1>2, RefsApart DEF Free, mainVars
<1> QED
  BY <1>4, <1>5, <1>6, <1>7, <1>8, <1>9 DEF IInv

LEMMA KernelAcceptsKeeps ==
    ASSUME IInv, NEW a \in Accepts, KernelAccepts(a)
    PROVE  IInv'
<1>1. /\ accept[a] = "kernel"
      /\ \E r \in {"failed", "accepted"} : accept' = [accept EXCEPT ![a] = r]
      /\ UNCHANGED <<fresh, listen, pending, failures, mainVars, session, worker, ends, refs>>
  BY DEF KernelAccepts
<1>2. TypeOK'
  BY <1>1 DEF IInv, TypeOK, mainVars
<1>3. AcceptOK'
  BY <1>1 DEF IInv, TypeOK, AcceptOK, InAccept
<1>4. Pending' = Pending /\ Again' = Again
  BY <1>1 DEF IInv, TypeOK, Pending, Again
<1>5. CountIsTrue' /\ LostOK'
  BY <1>1, <1>4 DEF IInv, CountIsTrue, LostOK, Lost
<1>6. PhaseOK' /\ SessionOK' /\ DrainOK'
  BY <1>1 DEF IInv, PhaseOK, SessionOK, DrainOK, Free, mainVars
<1>7. RefsOK'
  BY <1>1, RefsApart DEF Free, mainVars
<1> QED
  BY <1>2, <1>3, <1>5, <1>6, <1>7 DEF IInv

LEMMA TakeAcceptKeeps ==
    ASSUME IInv, NEW w \in Workers, NEW a \in Accepts, TakeAccept(w, a)
    PROVE  IInv'
<1>1. /\ worker[w] = Idle /\ accept[a] \in {"accepted", "failed"}
      /\ accept' = [accept EXCEPT ![a] = "worker"]
      /\ \E at \in {"create", "count"} :
            worker' = [worker EXCEPT ![w] = [at |-> at, a |-> a, s |-> None]]
      /\ UNCHANGED <<fresh, listen, pending, failures, mainVars, session, ends, refs>>
  BY DEF TakeAccept
<1>2. TypeOK'
  BY <1>1 DEF IInv, TypeOK, mainVars
<1>3. AcceptOK'
  BY <1>1 DEF IInv, TypeOK, AcceptOK, InAccept, Idle
<1>4. Pending' = Pending /\ Again' = Again
  BY <1>1 DEF IInv, TypeOK, Pending, Again, Idle
<1>5. CountIsTrue' /\ LostOK'
  BY <1>1, <1>4 DEF IInv, CountIsTrue, LostOK, Lost
<1>6. PhaseOK' /\ DrainOK'
  BY <1>1 DEF IInv, TypeOK, PhaseOK, DrainOK, Free, Idle, mainVars
<1>7. SessionOK'
  BY <1>1 DEF IInv, TypeOK, SessionOK, Free, Idle, mainVars
<1>8. RefsOK'
  BY <1>1, RefsApart DEF Free, mainVars
<1> QED
  BY <1>2, <1>3, <1>5, <1>6, <1>7, <1>8 DEF IInv
LEMMA NewSessionType ==
    ASSUME NEW at, NEW new \in NewSessions(at)
    PROVE  new.at = at /\ new \in [at : {at}, open : BOOLEAN, recv : {"none", "kernel"}]
<1>1. CASE new = [at |-> at, open |-> TRUE, recv |-> "kernel"]
  BY <1>1
<1>2. CASE new = [at |-> at, open |-> FALSE, recv |-> "none"]
  BY <1>2
<1> QED
  BY <1>1, <1>2 DEF NewSessions

LEMMA CreateSessionKeeps ==
    ASSUME IInv, NEW w \in Workers, CreateSession(w)
    PROVE  IInv'
<1>1. /\ worker[w].at = "create"
      /\ UNCHANGED <<acceptVars, mainVars, ends>>
  BY DEF CreateSession
<1>2. CASE /\ worker' = [worker EXCEPT ![w].at = "count"]
           /\ UNCHANGED <<session, refs>>
  <2>1. TypeOK'
    BY <1>1, <1>2 DEF IInv, TypeOK, acceptVars, mainVars
  <2>2. AcceptOK'
    BY <1>1, <1>2 DEF IInv, TypeOK, AcceptOK, InAccept, acceptVars
  <2>3. Pending' = Pending /\ Again' = Again
    BY <1>1, <1>2 DEF IInv, TypeOK, Pending, Again, acceptVars
  <2>4. CountIsTrue' /\ LostOK'
    BY <1>1, <2>3 DEF IInv, CountIsTrue, LostOK, Lost, acceptVars
  <2>5. PhaseOK' /\ DrainOK'
    BY <1>1, <1>2 DEF IInv, TypeOK, PhaseOK, DrainOK, Free, acceptVars, mainVars
  <2>6. SessionOK'
    BY <1>1, <1>2 DEF IInv, TypeOK, SessionOK, Free, mainVars
  <2>7. RefsOK'
    BY <1>1, <1>2, RefsApart DEF Free, mainVars
  <2> QED
    BY <2>1, <2>2, <2>4, <2>5, <2>6, <2>7 DEF IInv
<1>3. ASSUME listen, NEW s \in Sessions, Free(s), NEW new \in NewSessions("made"),
             session' = [session EXCEPT ![s] = new],
             worker' = [worker EXCEPT ![w] = [@ EXCEPT !.at = "add", !.s = s]],
             refs' = refs + 1
      PROVE  IInv'
  <2>1. new.at = "made" /\ new \in [at : {"made"}, open : BOOLEAN, recv : {"none", "kernel"}]
    BY <1>3, NewSessionType
  <2>2. TypeOK'
    <3>1. worker' \in [Workers -> Step]
      BY <1>3, StepType, Typed DEF IInv, Stages
    <3>2. session' \in [Sessions -> Record]
      BY <1>3, <2>1, Typed DEF IInv, Record, Places, Calls
    <3>3. refs' \in Nat
      BY <1>3 DEF IInv, TypeOK
    <3> QED
      BY <1>1, <3>1, <3>2, <3>3, TypesKept DEF IInv
  <2>3. AcceptOK'
    BY <1>1, <1>3 DEF IInv, TypeOK, AcceptOK, InAccept, acceptVars
  <2>4. Pending' = Pending /\ Again' = Again
    BY <1>1, <1>3 DEF IInv, TypeOK, Pending, Again, acceptVars
  <2>5. CountIsTrue' /\ LostOK'
    BY <1>1, <2>4 DEF IInv, CountIsTrue, LostOK, Lost, acceptVars
  <2>6. PhaseOK' /\ DrainOK'
    BY <1>1, <1>3 DEF IInv, TypeOK, PhaseOK, DrainOK, Free, acceptVars, mainVars
  <2>7. session[s] = NoSession
    BY <1>3 DEF IInv, SessionOK
  \* The worker has the session alone: nobody had one that is free.
  <2>8. SessionOK'
    <3>1. /\ worker'[w].at = "add" /\ worker'[w].s = s
          /\ \A v \in Workers : v # w => worker'[v] = worker[v]
          /\ session'[s] = new
          /\ \A t \in Sessions : t # s => session'[t] = session[t]
      BY <1>3, Typed DEF IInv, Step
    <3>2. \A v \in Workers : worker[v].at \in {"add", "dispatch"} => worker[v].s # s
      BY <2>7 DEF IInv, SessionOK, NoSession
    <3> QED
      BY <1>1, <2>1, <3>1, <3>2 DEF IInv, SessionOK, Free, mainVars
  <2>9. RefsOK'
    <3>1. Live' = Live \union {s} /\ s \notin Live
      BY <1>3, <2>1 DEF IInv, TypeOK, Live, Free
    <3>2. Cardinality(Live') = Cardinality(Live) + 1
      BY <3>1, FiniteParts, OneMore DEF Live
    <3> QED
      BY <1>1, <1>3, <3>2, RefsMove DEF mainVars
  <2> QED
    BY <2>2, <2>3, <2>5, <2>6, <2>8, <2>9 DEF IInv
<1> QED
  BY <1>2, <1>3 DEF CreateSession

LEMMA AddKeeps ==
    ASSUME IInv, NEW w \in Workers, Add(w)
    PROVE  IInv'
<1> DEFINE s == worker[w].s
<1>1. /\ worker[w].at = "add"
      /\ session' = [session EXCEPT ![s].at = "added"]
      /\ worker' = [worker EXCEPT ![w] = [@ EXCEPT !.at = "count", !.s = None]]
      /\ UNCHANGED <<acceptVars, mainVars, ends, refs>>
  BY DEF Add
<1>2. s \in Sessions /\ ~Free(s)
  BY <1>1 DEF IInv, SessionOK, Free
<1>3. TypeOK'
  <2>1. worker' \in [Workers -> Step]
    BY <1>1, StepType, Typed DEF IInv, Stages
  <2>2. session' \in [Sessions -> Record]
    BY <1>1, <1>2, RecordType, Typed DEF IInv, Places
  <2> QED
    BY <1>1, <2>1, <2>2, TypesKept DEF IInv, TypeOK
<1>4. AcceptOK'
  BY <1>1 DEF IInv, TypeOK, AcceptOK, InAccept, acceptVars
<1>5. Pending' = Pending /\ Again' = Again
  BY <1>1 DEF IInv, TypeOK, Pending, Again, acceptVars
<1>6. CountIsTrue' /\ LostOK'
  BY <1>1, <1>5 DEF IInv, CountIsTrue, LostOK, Lost, acceptVars
<1>7. PhaseOK'
  BY <1>1 DEF IInv, TypeOK, PhaseOK, acceptVars, mainVars
<1>8. SessionOK'
  BY <1>1, <1>2 DEF IInv, TypeOK, SessionOK, Free, mainVars
\* The accept that the worker has is counted: unless the wait for it was given up,
\* the listener is there.
<1>9. DrainOK'
  <2>1. pending # 0
    <3>1. worker[w].a \in Pending
      BY <1>1 DEF IInv, AcceptOK, InAccept, Pending
    <3> QED
      BY <3>1, FiniteParts, EmptyIsZero DEF IInv, CountIsTrue, Pending
  <2>2. main \in {"draining", "joining", "destroyed"} => "accepts" \in late
    BY <2>1 DEF IInv, PhaseOK
  <2> QED
    BY <1>1, <2>2 DEF IInv, DrainOK, mainVars
<1>10. \A t \in Sessions : Free(t)' <=> Free(t)
  BY <1>1, <1>2 DEF IInv, TypeOK, Free
<1>11. RefsOK'
  BY <1>1, <1>10, RefsApart DEF mainVars
<1> QED
  BY <1>3, <1>4, <1>6, <1>7, <1>8, <1>9, <1>11 DEF IInv

LEMMA CountDownKeeps ==
    ASSUME IInv, NEW w \in Workers, CountDown(w)
    PROVE  IInv'
<1> DEFINE a == worker[w].a
<1>1. /\ worker[w].at = "count"
      /\ accept' = [accept EXCEPT ![a] = "none"]
      /\ pending' = pending - 1
      /\ worker' = [worker EXCEPT ![w].at = "again"]
      /\ UNCHANGED <<fresh, listen, failures, mainVars, session, ends, refs>>
  BY DEF CountDown
<1>2. a \in Accepts /\ accept[a] = "worker" /\ a \in Pending /\ a \notin fresh
  BY <1>1 DEF IInv, AcceptOK, InAccept, Pending
<1>3. Pending' = Pending \ {a}
  BY <1>1, <1>2 DEF IInv, TypeOK, Pending
<1>4. CountIsTrue' /\ pending' \in Nat
  <2>1. Cardinality(Pending') = Cardinality(Pending) - 1 /\ Cardinality(Pending') \in Nat
    BY <1>2, <1>3, FiniteParts, OneLess DEF Pending
  <2> QED
    BY <1>1, <2>1 DEF IInv, CountIsTrue
<1>5. TypeOK'
  <2>1. worker' \in [Workers -> Step]
    BY <1>1, StepType, Typed DEF IInv, Stages
  <2> QED
    BY <1>1, <1>2, <1>4, <2>1 DEF IInv, TypeOK, mainVars, Step, Stages
<1>6. AcceptOK'
  <2>1. /\ worker'[w].at = "again" /\ worker'[w].a = a
        /\ \A v \in Workers : v # w => worker'[v] = worker[v]
        /\ accept'[a] = "none"
        /\ \A b \in Accepts : b # a => accept'[b] = accept[b]
    BY <1>1, <1>2, Typed DEF IInv, TypeOK, Step
  \* Another that is with a would have counted it down.
  <2>2. \A v \in Workers : v # w /\ worker[v].at \in InAccept \union {"again"} => worker[v].a # a
    BY <1>1, <1>2 DEF IInv, AcceptOK, InAccept
  <2> QED
    BY <1>1, <1>2, <2>1, <2>2 DEF IInv, AcceptOK, InAccept
<1>7. LostOK'
  <2>1. Again' = Again \union {a}
    BY <1>1, <1>2 DEF IInv, TypeOK, Again
  <2>2. Lost' = Lost
    BY <1>1, <1>2, <1>3, <2>1 DEF Lost
  <2> QED
    BY <1>1, <2>2 DEF IInv, LostOK
<1>8. PhaseOK'
  <2>1. pending # 0
    BY <1>2, FiniteParts, EmptyIsZero DEF IInv, CountIsTrue, Pending
  <2> QED
    BY <1>1, <2>1 DEF IInv, TypeOK, PhaseOK, mainVars
<1>9. SessionOK' /\ DrainOK'
  BY <1>1 DEF IInv, TypeOK, SessionOK, DrainOK, Free, mainVars
<1>10. RefsOK'
  BY <1>1, RefsApart DEF Free, mainVars
<1> QED
  BY <1>4, <1>5, <1>6, <1>7, <1>8, <1>9, <1>10 DEF IInv

LEMMA PendAgainKeeps ==
    ASSUME IInv, NEW w \in Workers, PendAgain(w)
    PROVE  IInv'
<1> DEFINE a == worker[w].a
<1>1. /\ worker[w].at = "again" /\ PendingAccept(a)
      /\ worker' = [worker EXCEPT ![w] = [@ EXCEPT !.at = "release", !.a = None]]
      /\ UNCHANGED <<fresh, listen, mainVars, session, ends, refs>>
  BY DEF PendAgain
<1>2. a \in Accepts /\ accept[a] = "none" /\ a \notin Pending /\ a \notin fresh
  BY <1>1 DEF IInv, AcceptOK, Pending
<1>3. CASE listen
  <2>1. TypeOK'
    <3>1. worker' \in [Workers -> Step]
      BY <1>1, StepType, Typed DEF IInv, Stages
    <3> QED
      BY <1>1, <1>2, <1>3, <3>1, PendingAcceptCounts DEF IInv, TypeOK, mainVars, Step, Stages
  <2>2. AcceptOK'
    BY <1>1, <1>2, <1>3, PendingAcceptCounts DEF IInv, TypeOK, AcceptOK, InAccept
  <2>3. IsFiniteSet(Pending) /\ IsFiniteSet(Lost) /\ a \in Again
    BY <1>1, <1>2, FiniteParts DEF Pending, Lost, Again
  <2>4. CountIsTrue'
    BY <1>1, <1>2, <1>3, <2>3, PendingAcceptCounts, OneMore DEF IInv, CountIsTrue
  <2>5. Again' = Again \ {a}
    BY <1>1, <1>2 DEF IInv, TypeOK, AcceptOK, Again
  <2>6. LostOK'
    <3>1. CASE Pending' = Pending \union {a} /\ UNCHANGED failures
      <4>1. Lost' = Lost
        BY <1>1, <1>2, <2>3, <2>5, <3>1 DEF Lost
      <4> QED
        BY <1>1, <3>1, <4>1 DEF IInv, LostOK
    <3>2. CASE Pending' = Pending /\ failures' = failures + 1
      <4>1. Lost' = Lost \union {a} /\ a \notin Lost
        BY <1>1, <1>2, <2>3, <2>5, <3>2 DEF Lost
      <4> QED
        BY <1>1, <1>3, <2>3, <3>2, <4>1, OneMore DEF IInv, LostOK
    <3> QED
      BY <1>1, <1>2, <1>3, <3>1, <3>2, PendingAcceptCounts
  <2>7. PhaseOK'
    BY <1>1, <1>3 DEF IInv, TypeOK, PhaseOK, mainVars
  <2>8. SessionOK' /\ DrainOK'
    BY <1>1 DEF IInv, TypeOK, SessionOK, DrainOK, Free, mainVars
  <2>9. RefsOK'
    BY <1>1, RefsApart DEF Free, mainVars
  <2> QED
    BY <2>1, <2>2, <2>4, <2>6, <2>7, <2>8, <2>9 DEF IInv
<1>4. CASE ~listen
  <2>1. UNCHANGED <<accept, pending, failures>>
    BY <1>1, <1>4 DEF PendingAccept
  <2>2. TypeOK'
    <3>1. worker' \in [Workers -> Step]
      BY <1>1, StepType, Typed DEF IInv, Stages
    <3> QED
      BY <1>1, <2>1, <3>1 DEF IInv, TypeOK, mainVars, Step, Stages
  <2>3. AcceptOK' /\ CountIsTrue' /\ LostOK'
    <3>1. AcceptOK'
      BY <1>1, <2>1 DEF IInv, TypeOK, AcceptOK, InAccept
    <3> QED
      BY <1>1, <1>4, <2>1, <3>1 DEF IInv, CountIsTrue, Pending, LostOK
  <2>4. PhaseOK'
    BY <1>1, <2>1 DEF IInv, TypeOK, PhaseOK, mainVars
  <2>5. SessionOK' /\ DrainOK'
    BY <1>1 DEF IInv, TypeOK, SessionOK, DrainOK, Free, mainVars
  <2>6. RefsOK'
    BY <1>1, RefsApart DEF Free, mainVars
  <2> QED
    BY <2>2, <2>3, <2>4, <2>5, <2>6 DEF IInv
<1> QED
  BY <1>3, <1>4
-----------------------------------------------------------------------------
(* Sessions and workers. None of them touches the accepts.                   *)

LEMMA KernelReceivesKeeps ==
    ASSUME IInv, NEW s \in Sessions, KernelReceives(s)
    PROVE  IInv'
<1>1. /\ session[s].recv = "kernel"
      /\ session' = [session EXCEPT ![s].recv = "port"]
      /\ UNCHANGED <<acceptVars, mainVars, worker, ends, refs>>
  BY DEF KernelReceives
<1>2. /\ session'[s].at = session[s].at /\ session'[s].recv = "port"
      /\ \A t \in Sessions : t # s => session'[t] = session[t]
  BY <1>1, Typed DEF IInv, Record
<1>3. TypeOK'
  <2>1. session' \in [Sessions -> Record]
    BY <1>1, RecordType, Typed DEF IInv, Calls
  <2> QED
    BY <1>1, <2>1, TypesKept, Typed DEF IInv, TypeOK
<1>4. AcceptOK' /\ CountIsTrue' /\ LostOK'
  BY <1>1, AcceptsApart DEF acceptVars
<1>5. PhaseOK' /\ DrainOK'
  BY <1>1, <1>2 DEF IInv, PhaseOK, DrainOK, Free, acceptVars, mainVars
<1>6. SessionOK'
  BY <1>1, <1>2 DEF IInv, SessionOK, Free, NoSession, mainVars
<1>7. RefsOK'
  BY <1>1, <1>2, RefsApart DEF Free, mainVars
<1> QED
  BY <1>3, <1>4, <1>5, <1>6, <1>7 DEF IInv

LEMMA TakeRecvKeeps ==
    ASSUME IInv, NEW w \in Workers, NEW s \in Sessions, TakeRecv(w, s)
    PROVE  IInv'
<1>1. /\ worker[w] = Idle /\ session[s].recv = "port"
      /\ session' = [session EXCEPT ![s].recv = "worker"]
      /\ worker' = [worker EXCEPT ![w] = [at |-> "dispatch", a |-> None, s |-> s]]
      /\ UNCHANGED <<acceptVars, mainVars, ends, refs>>
  BY DEF TakeRecv
<1>2. /\ session'[s].at = session[s].at /\ session'[s].recv = "worker"
      /\ \A t \in Sessions : t # s => session'[t] = session[t]
      /\ worker'[w].at = "dispatch" /\ worker'[w].s = s
      /\ \A v \in Workers : v # w => worker'[v] = worker[v]
  BY <1>1, Typed DEF IInv, Record
<1>3. TypeOK'
  <2>1. session' \in [Sessions -> Record]
    BY <1>1, RecordType, Typed DEF IInv, Calls
  <2>2. worker' \in [Workers -> Step]
    BY <1>1, Typed DEF IInv, Step, Stages
  <2> QED
    BY <1>1, <2>1, <2>2, TypesKept DEF IInv, TypeOK
<1>4. AcceptOK' /\ CountIsTrue' /\ LostOK'
  BY <1>1, <1>2, AcceptsApart DEF acceptVars, Idle, InAccept
<1>5. PhaseOK' /\ DrainOK'
  BY <1>1, <1>2 DEF IInv, PhaseOK, DrainOK, Free, Idle, acceptVars, mainVars
<1>6. SessionOK'
  BY <1>1, <1>2 DEF IInv, SessionOK, Free, NoSession, Idle, mainVars
<1>7. RefsOK'
  BY <1>1, <1>2, RefsApart DEF Free, mainVars
<1> QED
  BY <1>3, <1>4, <1>5, <1>6, <1>7 DEF IInv

LEMMA DispatchKeeps ==
    ASSUME IInv, NEW w \in Workers, Dispatch(w)
    PROVE  IInv'
<1> DEFINE s == worker[w].s
<1>1. /\ worker[w].at = "dispatch"
      /\ \E r \in {[session[s] EXCEPT !.recv = "none"],
                  [session[s] EXCEPT !.recv = "none", !.open = FALSE]} :
            session' = [session EXCEPT ![s] = r]
      /\ \/ worker' = [worker EXCEPT ![w].at = "recv"]
         \/ worker' = [worker EXCEPT ![w] = [@ EXCEPT !.at = "release", !.s = None]]
      /\ UNCHANGED <<acceptVars, mainVars, ends, refs>>
  BY DEF Dispatch
<1>2. s \in Sessions /\ ~Free(s) /\ session[s] \in Record
  BY <1>1, Typed DEF IInv, SessionOK, NoSession
<1>3. TypeOK'
  <2>1. \A r \in {[session[s] EXCEPT !.recv = "none"],
                 [session[s] EXCEPT !.recv = "none", !.open = FALSE]} : r \in Record
    BY <1>2, RecordType DEF Calls
  <2>2. session' \in [Sessions -> Record]
    BY <1>1, <2>1, Typed DEF IInv
  <2>3. worker \in [Workers -> Step] /\ worker[w] \in Step
    BY Typed DEF IInv
  <2>4. /\ [worker[w] EXCEPT !.at = "recv"] \in Step
        /\ [worker[w] EXCEPT !.at = "release", !.s = None] \in Step
    BY <2>3, StepType DEF Stages
  <2>5. worker' \in [Workers -> Step]
    BY <1>1, <2>3, <2>4
  <2> QED
    BY <1>1, <2>2, <2>5, TypesKept DEF IInv, TypeOK
<1>4. /\ session'[s].at = session[s].at
      /\ \A t \in Sessions : t # s => session'[t] = session[t]
      /\ worker'[w].at \in {"recv", "release"}
      /\ worker'[w].at = "recv" => worker'[w].s = s
      /\ \A v \in Workers : v # w => worker'[v] = worker[v]
  <2>1. \A r \in {[session[s] EXCEPT !.recv = "none"],
                 [session[s] EXCEPT !.recv = "none", !.open = FALSE]} : r.at = session[s].at
    BY <1>2 DEF Record
  <2>2. session'[s].at = session[s].at /\ \A t \in Sessions : t # s => session'[t] = session[t]
    BY <1>1, <1>2, <2>1, Typed DEF IInv
  <2>3. CASE worker' = [worker EXCEPT ![w].at = "recv"]
    <3>1. worker'[w].at = "recv" /\ worker'[w].s = s /\ \A v \in Workers : v # w => worker'[v] = worker[v]
      BY <2>3, Typed DEF IInv, Step
    <3> QED
      BY <2>2, <3>1
  <2>4. CASE worker' = [worker EXCEPT ![w] = [@ EXCEPT !.at = "release", !.s = None]]
    <3>1. worker'[w].at = "release" /\ \A v \in Workers : v # w => worker'[v] = worker[v]
      BY <2>4, Typed DEF IInv, Step
    <3> QED
      BY <2>2, <3>1
  <2> QED
    BY <1>1, <2>3, <2>4
<1>5. AcceptOK' /\ CountIsTrue' /\ LostOK'
  BY <1>1, <1>4, AcceptsApart DEF acceptVars, InAccept
<1>6. PhaseOK' /\ DrainOK'
  BY <1>1, <1>4 DEF IInv, PhaseOK, DrainOK, Free, acceptVars, mainVars
<1>7. SessionOK'
  BY <1>1, <1>2, <1>4 DEF IInv, SessionOK, Free, mainVars
<1>8. RefsOK'
  BY <1>1, <1>4, RefsApart DEF Free, mainVars
<1> QED
  BY <1>3, <1>5, <1>6, <1>7, <1>8 DEF IInv

\* InternalRecv changes only an open session without a pending receive.
LEMMA InternalRecvType ==
    ASSUME NEW r \in Record, NEW q \in InternalRecv(r)
    PROVE  /\ q \in Record /\ q.at = r.at
           /\ r.recv # "none" \/ ~r.open => q = r
BY DEF InternalRecv, Record, Calls

\* What it does to a session disturbs no worker: one at Dispatch has the receive.
LEMMA InternalRecvKeeps ==
    ASSUME IInv, NEW s \in Sessions, NEW q \in InternalRecv(session[s]),
           session' = [session EXCEPT ![s] = q],
           worker' \in [Workers -> Step],
           UNCHANGED <<acceptVars, mainVars, ends, refs>>,
           \A w \in Workers :
              \/ worker'[w] = worker[w]
              \/ worker[w].at = "recv" /\ worker'[w].at = "release"
    PROVE  IInv'
<1>1. /\ q \in Record /\ q.at = session[s].at
      /\ session[s].recv # "none" \/ ~session[s].open => q = session[s]
  BY InternalRecvType, Typed DEF IInv
<1>2. session'[s] = q /\ \A t \in Sessions : t # s => session'[t] = session[t]
  BY Typed DEF IInv
<1>3. TypeOK'
  <2>1. session' \in [Sessions -> Record]
    BY <1>1, Typed DEF IInv
  <2> QED
    BY <2>1, TypesKept DEF IInv, TypeOK
<1>4. AcceptOK' /\ CountIsTrue' /\ LostOK'
  BY AcceptsApart DEF acceptVars, InAccept
<1>5. \A t \in Sessions : session'[t].at = session[t].at
  BY <1>1, <1>2
<1>6. PhaseOK' /\ DrainOK'
  BY <1>5 DEF IInv, PhaseOK, DrainOK, Free, acceptVars, mainVars
<1>7. SessionOK'
  BY <1>1, <1>2, <1>5 DEF IInv, SessionOK, Free, NoSession, mainVars
<1>8. RefsOK'
  BY <1>5, RefsApart DEF Free, mainVars
<1> QED
  BY <1>3, <1>4, <1>6, <1>7, <1>8 DEF IInv

LEMMA RecvAgainKeeps ==
    ASSUME IInv, NEW w \in Workers, RecvAgain(w)
    PROVE  IInv'
<1> DEFINE s == worker[w].s
<1>1. worker[w].at = "recv" /\ s \in Sessions
  BY DEF RecvAgain, IInv, SessionOK
<1>2. PICK q \in InternalRecv(session[s]) : session' = [session EXCEPT ![s] = q]
  BY DEF RecvAgain
<1>3. /\ worker' = [worker EXCEPT ![w] = [@ EXCEPT !.at = "release", !.s = None]]
      /\ UNCHANGED <<acceptVars, mainVars, ends, refs>>
  BY DEF RecvAgain
<1>4. worker' \in [Workers -> Step]
  BY <1>3, StepType, Typed DEF IInv, Stages
<1>5. worker'[w].at = "release" /\ \A v \in Workers : v # w => worker'[v] = worker[v]
  BY <1>3, Typed DEF IInv, Step
<1> QED
  BY <1>1, <1>2, <1>3, <1>4, <1>5, InternalRecvKeeps

LEMMA ProcessRecvKeeps ==
    ASSUME IInv, NEW s \in Sessions, ProcessRecv(s)
    PROVE  IInv'
<1>1. PICK q \in InternalRecv(session[s]) : session' = [session EXCEPT ![s] = q]
  BY DEF ProcessRecv
<1>2. UNCHANGED <<acceptVars, mainVars, worker, ends, refs>>
  BY DEF ProcessRecv
<1> QED
  BY <1>1, <1>2, InternalRecvKeeps, Typed DEF IInv

\* Release and End.
LEMMA WorkerGoesOn ==
    ASSUME IInv, NEW w \in Workers, NEW r \in Step, r.at \in {"idle", "ended"},
           worker[w].at \in {"idle", "release"},
           worker' = [worker EXCEPT ![w] = r],
           ends' \in Nat, UNCHANGED <<acceptVars, mainVars, session, refs>>
    PROVE  IInv'
<1>1. /\ worker'[w].at \in {"idle", "ended"}
      /\ \A v \in Workers : v # w => worker'[v] = worker[v]
      /\ worker' \in [Workers -> Step]
  BY Typed DEF IInv
<1>2. TypeOK'
  BY <1>1 DEF IInv, TypeOK, acceptVars, mainVars, Step, Stages
<1>3. AcceptOK' /\ CountIsTrue' /\ LostOK'
  BY <1>1, AcceptsApart DEF acceptVars, InAccept
<1>4. PhaseOK' /\ DrainOK'
  <2>1. main # "destroyed" \/ worker'[w].at = "ended"
    BY DEF IInv, PhaseOK
  <2> QED
    BY <1>1, <2>1 DEF IInv, PhaseOK, DrainOK, Free, acceptVars, mainVars
<1>5. SessionOK'
  BY <1>1 DEF IInv, SessionOK, Free, mainVars
<1>6. RefsOK'
  BY RefsApart DEF Free, mainVars
<1> QED
  BY <1>2, <1>3, <1>4, <1>5, <1>6 DEF IInv

LEMMA ReleaseKeeps ==
    ASSUME IInv, NEW w \in Workers, Release(w)
    PROVE  IInv'
<1>1. Idle \in Step /\ Idle.at = "idle"
  BY DEF Idle, Step, Stages
<1> QED
  BY <1>1, WorkerGoesOn DEF Release, IInv, TypeOK

LEMMA EndKeeps ==
    ASSUME IInv, NEW w \in Workers, End(w)
    PROVE  IInv'
<1> DEFINE r == [worker[w] EXCEPT !.at = "ended"]
<1>1. worker[w].at = "idle" /\ worker' = [worker EXCEPT ![w] = r] /\ ends' \in Nat
      /\ UNCHANGED <<acceptVars, mainVars, session, refs>>
  BY DEF End, IInv, TypeOK, Idle
<1>2. r \in Step
  BY StepType, Typed DEF IInv, Stages
<1>3. r.at = "ended"
  BY Typed DEF IInv, Step
<1> QED
  BY <1>1, <1>2, <1>3, WorkerGoesOn

LEMMA ConnectKeeps ==
    ASSUME IInv, NEW s \in Sessions, Connect(s)
    PROVE  IInv'
<1>1. /\ main = "running" /\ Free(s)
      /\ uses' = uses + 1 /\ refs' = refs + 2
      /\ UNCHANGED <<acceptVars, main, listener, toEnd, owner, late, worker, ends>>
  BY DEF Connect
<1>2. PICK new \in NewSessions("added") : session' = [session EXCEPT ![s] = new]
  BY DEF Connect
<1>3. new.at = "added" /\ new \in [at : {"added"}, open : BOOLEAN, recv : {"none", "kernel"}]
  BY NewSessionType
<1>4. session[s] = NoSession
  BY <1>1 DEF IInv, SessionOK
<1>5. session' \in [Sessions -> Record]
  BY <1>2, <1>3, Typed DEF IInv, Record, Places, Calls
<1>6. session'[s] = new /\ \A t \in Sessions : t # s => session'[t] = session[t]
  BY <1>2, Typed DEF IInv
<1>7. TypeOK'
  BY <1>1, <1>5 DEF IInv, TypeOK, acceptVars, Record, Places, Calls
<1>8. AcceptOK' /\ CountIsTrue' /\ LostOK'
  BY <1>1, AcceptsApart DEF acceptVars
<1>9. PhaseOK' /\ DrainOK'
  BY <1>1 DEF IInv, TypeOK, PhaseOK, DrainOK, acceptVars
<1>10. SessionOK'
  <2>1. \A v \in Workers : worker[v].at \in {"add", "dispatch"} => worker[v].s # s
    BY <1>4 DEF IInv, SessionOK, NoSession
  <2> QED
    BY <1>1, <1>3, <1>6, <2>1 DEF IInv, SessionOK, Free
<1>11. RefsOK'
  <2>1. Live' = Live \union {s} /\ s \notin Live
    BY <1>1, <1>3, <1>6 DEF Live, Free
  <2>2. Cardinality(Live') = Cardinality(Live) + 1
    BY <2>1, LiveIsCounted, OneMore
  <2>3. One(owner)' = One(owner) /\ One(listener)' = One(listener)
    BY <1>1 DEF One
  <2>4. /\ uses \in Nat /\ Cardinality(Live) \in Nat /\ One(owner) \in Nat /\ One(listener) \in Nat
        /\ refs = One(owner) + uses + One(listener) + Cardinality(Live)
    BY <1>1, LiveIsCounted DEF IInv, TypeOK, RefsOK, One
  <2> QED
    BY <1>1, <2>2, <2>3, <2>4 DEF RefsOK
<1> QED
  BY <1>7, <1>8, <1>9, <1>10, <1>11 DEF IInv

LEMMA CloseSessionKeeps ==
    ASSUME IInv, NEW s \in Sessions, CloseSession(s)
    PROVE  IInv'
<1>1. /\ session[s].at \in {"added", "listed"}
      /\ session' = [session EXCEPT ![s].open = FALSE]
      /\ UNCHANGED <<acceptVars, mainVars, worker, ends, refs>>
  BY DEF CloseSession
<1>2. /\ session'[s].at = session[s].at /\ session'[s].recv = session[s].recv
      /\ \A t \in Sessions : t # s => session'[t] = session[t]
  BY <1>1, Typed DEF IInv, Record
<1>3. TypeOK'
  <2>1. session' \in [Sessions -> Record]
    BY <1>1, RecordType, Typed DEF IInv
  <2> QED
    BY <1>1, <2>1, TypesKept, Typed DEF IInv, TypeOK
<1>4. AcceptOK' /\ CountIsTrue' /\ LostOK'
  BY <1>1, AcceptsApart DEF acceptVars
<1>5. PhaseOK' /\ DrainOK'
  BY <1>1, <1>2 DEF IInv, PhaseOK, DrainOK, Free, acceptVars, mainVars
<1>6. SessionOK'
  BY <1>1, <1>2 DEF IInv, SessionOK, Free, mainVars
<1>7. RefsOK'
  BY <1>1, <1>2, RefsApart DEF Free, mainVars
<1> QED
  BY <1>3, <1>4, <1>5, <1>6, <1>7 DEF IInv

LEMMA SplicedKeeps ==
    ASSUME TypeOK, NEW s \in Sessions
    PROVE  /\ Spliced[s] \in Record /\ Spliced[s].recv = session[s].recv
           /\ Spliced[s].at # "added"
           /\ \/ Spliced[s] = session[s]
              \/ session[s].at = "added" /\ Spliced[s].at = "listed"
<1>1. session[s] \in Record
  BY Typed
<1>2. CASE session[s].at = "added"
  <2>1. Spliced[s] = [session[s] EXCEPT !.at = "listed"]
    BY <1>2 DEF Spliced
  <2> QED
    BY <1>1, <1>2, <2>1 DEF Record, Places
<1>3. CASE session[s].at # "added"
  BY <1>1, <1>3 DEF Spliced
<1> QED
  BY <1>2, <1>3

LEMMA SpliceKeeps ==
    ASSUME IInv, Splice
    PROVE  IInv'
<1>1. session' = Spliced /\ UNCHANGED <<acceptVars, mainVars, worker, ends, refs>>
  BY DEF Splice
<1>2. \A s \in Sessions :
         /\ session'[s] \in Record /\ session'[s].recv = session[s].recv
         /\ session'[s].at # "added"
         /\ session'[s].at = session[s].at
            \/ (session[s].at = "added" /\ session'[s].at = "listed")
         /\ (Free(s)' <=> Free(s)) /\ (Free(s) => session'[s] = session[s])
  <2>1. TAKE s \in Sessions
  <2>2. /\ session'[s] \in Record /\ session'[s].recv = session[s].recv
        /\ session'[s].at # "added"
        /\ session'[s] = session[s] \/ (session[s].at = "added" /\ session'[s].at = "listed")
    BY <1>1, SplicedKeeps DEF IInv
  <2>3. CASE session'[s] = session[s]
    BY <2>2, <2>3 DEF Free
  <2>4. CASE session[s].at = "added" /\ session'[s].at = "listed"
    BY <2>2, <2>4 DEF Free
  <2> QED
    BY <2>2, <2>3, <2>4
<1>3. TypeOK'
  <2>1. session' \in [Sessions -> Record]
    BY <1>1, <1>2 DEF Spliced
  <2> QED
    BY <1>1, <2>1, TypesKept, Typed DEF IInv, TypeOK
<1>4. AcceptOK' /\ CountIsTrue' /\ LostOK'
  BY <1>1, AcceptsApart DEF acceptVars
<1>5. PhaseOK' /\ DrainOK'
  BY <1>1, <1>2 DEF IInv, PhaseOK, DrainOK, acceptVars, mainVars
<1>6. SessionOK'
  BY <1>1, <1>2 DEF IInv, SessionOK, mainVars
<1>7. RefsOK'
  BY <1>1, <1>2, RefsApart DEF mainVars
<1> QED
  BY <1>3, <1>4, <1>5, <1>6, <1>7 DEF IInv

LEMMA DeleteSessionKeeps ==
    ASSUME IInv, NEW s \in Sessions, DeleteSession(s)
    PROVE  IInv'
<1>1. /\ session[s].at = "listed" /\ session[s].recv = "none"
      /\ session' = [session EXCEPT ![s] = NoSession]
      /\ refs' = refs - 1
      /\ UNCHANGED <<acceptVars, mainVars, worker, ends>>
  BY DEF DeleteSession, Quiet
<1>2. session'[s] = NoSession /\ \A t \in Sessions : t # s => session'[t] = session[t]
  BY <1>1, Typed DEF IInv
<1>3. RefsOK' /\ refs' \in Nat
  <2>1. Live' = Live \ {s} /\ s \in Live
    BY <1>1, <1>2 DEF Live, Free, NoSession
  <2>2. Cardinality(Live') = Cardinality(Live) + (-1) /\ Cardinality(Live) # 0
    BY <2>1, LiveIsCounted, OneLess, EmptyIsZero
  <2>3. RefsOK'
    BY <1>1, <2>2, RefsMove DEF IInv, TypeOK, mainVars
  <2>4. refs # 0
    BY <2>2, LiveIsCounted DEF IInv, TypeOK, RefsOK, One
  <2> QED
    BY <1>1, <2>3, <2>4 DEF IInv, TypeOK
<1>4. TypeOK'
  <2>1. session' \in [Sessions -> Record]
    BY <1>1, Typed DEF IInv, NoSession, Record, Places, Calls
  <2> QED
    BY <1>1, <1>3, <2>1, TypesKept, Typed DEF IInv
<1>5. AcceptOK' /\ CountIsTrue' /\ LostOK'
  BY <1>1, AcceptsApart DEF acceptVars
<1>6. PhaseOK' /\ DrainOK'
  BY <1>1, <1>2 DEF IInv, PhaseOK, DrainOK, Free, NoSession, acceptVars, mainVars
<1>7. SessionOK'
  <2>1. \A v \in Workers : worker[v].at \in {"add", "dispatch"} => worker[v].s # s
    BY <1>1 DEF IInv, SessionOK
  <2> QED
    BY <1>1, <1>2, <2>1 DEF IInv, SessionOK, Free, NoSession, mainVars
<1> QED
  BY <1>3, <1>4, <1>5, <1>6, <1>7 DEF IInv
-----------------------------------------------------------------------------
(* CIOCPNet::Destroy.                                                        *)

LEMMA AddListenerKeeps ==
    ASSUME IInv, AddListener
    PROVE  IInv'
<1>1. /\ main = "listening" /\ main' = "running"
      /\ uses' = uses + 1 /\ refs' = refs + 1
      /\ UNCHANGED <<acceptVars, listener, toEnd, owner, late, session, worker, ends>>
  BY DEF AddListener
<1>2. TypeOK'
  BY <1>1 DEF IInv, TypeOK, acceptVars
<1>3. AcceptOK' /\ CountIsTrue' /\ LostOK'
  BY <1>1, AcceptsApart DEF acceptVars
<1>4. PhaseOK' /\ SessionOK' /\ DrainOK'
  BY <1>1 DEF IInv, TypeOK, PhaseOK, SessionOK, DrainOK, Free, acceptVars
<1>5. RefsOK'
  <2>1. Live' = Live
    BY <1>1 DEF Live, Free
  <2>2. One(owner)' = One(owner) /\ One(listener)' = One(listener)
    BY <1>1 DEF One
  <2>3. /\ uses \in Nat /\ Cardinality(Live) \in Nat /\ One(owner) \in Nat /\ One(listener) \in Nat
        /\ refs = One(owner) + uses + One(listener) + Cardinality(Live)
    BY <1>1, LiveIsCounted DEF IInv, TypeOK, RefsOK, One
  <2> QED
    BY <1>1, <2>1, <2>2, <2>3 DEF RefsOK
<1> QED
  BY <1>2, <1>3, <1>4, <1>5 DEF IInv

LEMMA CloseListenKeeps ==
    ASSUME IInv, CloseListen
    PROVE  IInv'
<1>1. /\ main = "running" /\ main' = "waiting" /\ listen' = FALSE
      /\ UNCHANGED <<fresh, pending, accept, failures, listener, toEnd, owner, uses, late, session,
                     worker, ends, refs>>
  BY DEF CloseListen
<1>2. TypeOK'
  BY <1>1 DEF IInv, TypeOK
<1>3. AcceptOK' /\ CountIsTrue' /\ LostOK'
  BY <1>1, AcceptsApart
<1>4. PhaseOK' /\ SessionOK' /\ DrainOK'
  BY <1>1 DEF IInv, PhaseOK, SessionOK, DrainOK, Free
<1>5. RefsOK'
  BY <1>1, RefsApart DEF Free
<1> QED
  BY <1>2, <1>3, <1>4, <1>5 DEF IInv

\* The wait for the accepts ends, in time or not.
LEMMA FreeListenerKeeps ==
    ASSUME IInv, main = "waiting", FreeListener, late' \subseteq {"accepts", "sessions"},
           late \subseteq late', pending = 0 \/ "accepts" \in late'
    PROVE  IInv'
<1>1. /\ main' = "closing" /\ listener' = FALSE /\ refs' = refs - 1
      /\ UNCHANGED <<acceptVars, toEnd, owner, uses, session, worker, ends>>
  BY DEF FreeListener
<1>2. AcceptOK' /\ CountIsTrue' /\ LostOK'
  BY <1>1, AcceptsApart DEF acceptVars
<1>3. PhaseOK' /\ SessionOK' /\ DrainOK'
  BY <1>1 DEF IInv, PhaseOK, SessionOK, DrainOK, Free, acceptVars
<1>4. RefsOK' /\ refs' \in Nat
  <2>1. Live' = Live
    BY <1>1 DEF Live, Free
  <2>2. One(owner)' = One(owner) /\ One(listener)' = 0
    BY <1>1 DEF One
  <2>3. One(listener) = 1
    BY DEF IInv, PhaseOK, One
  <2>4. /\ uses \in Nat /\ Cardinality(Live) \in Nat /\ One(owner) \in Nat
        /\ refs = One(owner) + uses + One(listener) + Cardinality(Live)
    BY LiveIsCounted DEF IInv, TypeOK, RefsOK, One
  <2> QED
    BY <1>1, <2>1, <2>2, <2>3, <2>4 DEF RefsOK
<1>5. TypeOK'
  BY <1>1, <1>4 DEF IInv, TypeOK, acceptVars
<1> QED
  BY <1>2, <1>3, <1>4, <1>5 DEF IInv

LEMMA CloseAllKeeps ==
    ASSUME IInv, CloseAll
    PROVE  IInv'
<1>1. /\ main = "closing" /\ main' = "draining"
      /\ session' = [s \in Sessions |->
              IF Spliced[s].at = "listed" THEN [Spliced[s] EXCEPT !.open = FALSE] ELSE session[s]]
      /\ UNCHANGED <<acceptVars, listener, toEnd, owner, uses, late, worker, ends, refs>>
  BY DEF CloseAll
<1>2. \A s \in Sessions :
         /\ session'[s] \in Record /\ session'[s].recv = session[s].recv
         /\ session'[s].at # "added"
         /\ session'[s].at = session[s].at
            \/ (session[s].at = "added" /\ session'[s].at = "listed")
         /\ (Free(s)' <=> Free(s)) /\ (Free(s) => session'[s] = session[s])
  <2>1. TAKE s \in Sessions
  <2>2. /\ Spliced[s] \in Record /\ Spliced[s].recv = session[s].recv
        /\ Spliced[s].at # "added"
        /\ Spliced[s] = session[s] \/ (session[s].at = "added" /\ Spliced[s].at = "listed")
    BY SplicedKeeps DEF IInv
  <2>3. CASE Spliced[s].at = "listed"
    <3>1. session'[s] = [Spliced[s] EXCEPT !.open = FALSE]
      BY <1>1, <2>3
    <3>2. /\ session'[s] \in Record /\ session'[s].recv = session[s].recv
          /\ session'[s].at = "listed"
      BY <2>2, <2>3, <3>1 DEF Record
    <3> QED
      BY <2>2, <2>3, <3>2 DEF Free
  <2>4. CASE Spliced[s].at # "listed"
    BY <1>1, <2>2, <2>4 DEF Free
  <2> QED
    BY <2>3, <2>4
<1>3. TypeOK'
  <2>1. session' \in [Sessions -> Record]
    BY <1>1, <1>2
  <2> QED
    BY <1>1, <2>1 DEF IInv, TypeOK, acceptVars, Record, Places, Calls
<1>4. AcceptOK' /\ CountIsTrue' /\ LostOK'
  BY <1>1, AcceptsApart DEF acceptVars
<1>5. PhaseOK' /\ DrainOK'
  BY <1>1, <1>2 DEF IInv, PhaseOK, DrainOK, acceptVars
<1>6. SessionOK'
  <2>1. main = "closing" /\ worker' = worker
    BY <1>1
  <2> QED
    BY <1>2, <2>1 DEF IInv, SessionOK
<1>7. RefsOK'
  BY <1>1, <1>2, RefsApart
<1> QED
  BY <1>3, <1>4, <1>5, <1>6, <1>7 DEF IInv

\* The wait for the sessions ends, in time or not. If neither wait was given up no
\* session is left: none is in a list, and a worker that has one still to be added
\* would have an accept.
LEMMA FreePoolKeeps ==
    ASSUME IInv, FreePool, toEnd' = Threads, late' \subseteq {"accepts", "sessions"},
           late \subseteq late', NoneListed \/ "sessions" \in late'
    PROVE  IInv'
<1>1. /\ main = "draining" /\ main' = "joining"
      /\ session' = [s \in Sessions |->
              IF Free(s) THEN session[s] ELSE [session[s] EXCEPT !.at = "freed"]]
      /\ UNCHANGED <<acceptVars, listener, owner, uses, worker, ends, refs>>
  BY DEF FreePool
<1>2. \A s \in Sessions :
         /\ session'[s] \in Record /\ session'[s].recv = session[s].recv
         /\ Free(s) => session'[s] = session[s]
         /\ ~Free(s) => session'[s].at = "freed"
         /\ Free(s)' <=> Free(s)
  <2>1. TAKE s \in Sessions
  <2>2. session[s] \in Record
    BY Typed DEF IInv
  <2>3. CASE Free(s)
    BY <1>1, <2>2, <2>3 DEF Free
  <2>4. CASE ~Free(s)
    <3>1. session'[s] = [session[s] EXCEPT !.at = "freed"]
      BY <1>1, <2>4
    <3>2. /\ session'[s] \in Record /\ session'[s].recv = session[s].recv
          /\ session'[s].at = "freed"
      BY <2>2, <3>1 DEF Record, Places
    <3> QED
      BY <2>4, <3>2 DEF Free
  <2> QED
    BY <2>3, <2>4
<1>3. TypeOK'
  <2>1. session' \in [Sessions -> Record]
    BY <1>1, <1>2
  <2> QED
    BY <1>1, <2>1 DEF IInv, TypeOK, Threads, acceptVars, Record, Places, Calls
<1>4. AcceptOK' /\ CountIsTrue' /\ LostOK'
  BY <1>1, AcceptsApart DEF acceptVars
<1>5. PhaseOK'
  BY <1>1 DEF IInv, PhaseOK, acceptVars
<1>6. SessionOK'
  BY <1>1, <1>2 DEF IInv, SessionOK, Free
<1>7. DrainOK'
  <2>1. SUFFICES ASSUME late' = {} PROVE \A s \in Sessions : Free(s)
    BY <1>1, <1>2 DEF DrainOK
  <2>2. Pending = {}
    BY <1>1, <2>1, FiniteParts, EmptyIsZero DEF IInv, PhaseOK, CountIsTrue, Pending
  <2>3. \A s \in Sessions : session[s].at \notin {"made", "added", "listed", "freed"}
    BY <1>1, <2>1, <2>2 DEF IInv, SessionOK, AcceptOK, InAccept, DrainOK, NoneListed, Pending
  <2> QED
    BY <2>3, Typed DEF IInv, Free, Record, Places
<1>8. RefsOK'
  BY <1>1, <1>2, RefsApart
<1> QED
  BY <1>3, <1>4, <1>5, <1>6, <1>7, <1>8 DEF IInv

LEMMA PostEndKeeps ==
    ASSUME IInv, NEW w \in Workers, PostEnd(w)
    PROVE  IInv'
<1>1. /\ toEnd' = toEnd \ {w} /\ ends' = ends + 1
      /\ UNCHANGED <<acceptVars, main, listener, owner, uses, late, session, worker, refs>>
  BY DEF PostEnd
<1>2. TypeOK'
  BY <1>1 DEF IInv, TypeOK, acceptVars
<1>3. AcceptOK' /\ CountIsTrue' /\ LostOK'
  BY <1>1, AcceptsApart DEF acceptVars
<1>4. PhaseOK' /\ SessionOK' /\ DrainOK'
  BY <1>1 DEF IInv, PhaseOK, SessionOK, DrainOK, Free, acceptVars
<1>5. RefsOK'
  BY <1>1, RefsApart DEF Free
<1> QED
  BY <1>2, <1>3, <1>4, <1>5 DEF IInv

LEMMA ReleasePolicyKeeps ==
    ASSUME IInv, ReleasePolicy
    PROVE  IInv'
<1>1. /\ main = "joining" /\ main' = "destroyed"
      /\ \A w \in Workers : worker[w].at = "ended"
      /\ refs' = refs - uses
      /\ UNCHANGED <<acceptVars, listener, toEnd, owner, uses, late, session, worker, ends>>
  BY DEF ReleasePolicy
<1>2. AcceptOK' /\ CountIsTrue' /\ LostOK'
  BY <1>1, AcceptsApart DEF acceptVars
<1>3. PhaseOK' /\ SessionOK' /\ DrainOK'
  BY <1>1 DEF IInv, PhaseOK, SessionOK, DrainOK, Free, acceptVars
<1>4. RefsOK' /\ refs' \in Nat
  <2>1. Live' = Live
    BY <1>1 DEF Live, Free
  <2>2. One(owner)' = One(owner) /\ One(listener)' = One(listener)
    BY <1>1 DEF One
  <2>3. /\ uses \in Nat /\ Cardinality(Live) \in Nat /\ One(owner) \in Nat /\ One(listener) \in Nat
        /\ refs = One(owner) + uses + One(listener) + Cardinality(Live)
    BY <1>1, LiveIsCounted DEF IInv, TypeOK, RefsOK, One
  <2> QED
    BY <1>1, <2>1, <2>2, <2>3 DEF RefsOK
<1>5. TypeOK'
  BY <1>1, <1>4 DEF IInv, TypeOK, acceptVars
<1> QED
  BY <1>2, <1>3, <1>4, <1>5 DEF IInv

LEMMA OwnerReleasesKeeps ==
    ASSUME IInv, OwnerReleases
    PROVE  IInv'
<1>1. /\ owner /\ owner' = FALSE /\ refs' = refs - 1
      /\ UNCHANGED <<acceptVars, main, listener, toEnd, uses, late, session, worker, ends>>
  BY DEF OwnerReleases
<1>2. AcceptOK' /\ CountIsTrue' /\ LostOK'
  BY <1>1, AcceptsApart DEF acceptVars
<1>3. PhaseOK' /\ SessionOK' /\ DrainOK'
  BY <1>1 DEF IInv, PhaseOK, SessionOK, DrainOK, Free, acceptVars
<1>4. RefsOK' /\ refs' \in Nat
  <2> DEFINE used == IF main = "destroyed" THEN 0 ELSE uses
  <2>1. Live' = Live /\ used' = used
    BY <1>1 DEF Live, Free
  <2>2. One(owner)' = 0 /\ One(owner) = 1 /\ One(listener)' = One(listener)
    BY <1>1 DEF One
  <2>3. used \in Nat /\ Cardinality(Live) \in Nat /\ One(listener) \in Nat
    BY LiveIsCounted DEF IInv, TypeOK, One
  <2>4. refs = One(owner) + used + One(listener) + Cardinality(Live)
    BY DEF IInv, RefsOK
  <2>5. RefsOK' <=> refs' = One(owner)' + used' + One(listener)' + Cardinality(Live')
    BY DEF RefsOK
  <2> HIDE DEF used
  <2> QED
    BY <1>1, <2>1, <2>2, <2>3, <2>4, <2>5
<1>5. TypeOK'
  BY <1>1, <1>4 DEF IInv, TypeOK, acceptVars
<1> QED
  BY <1>2, <1>3, <1>4, <1>5 DEF IInv

-----------------------------------------------------------------------------
(* The theorems.                                                             *)

LEMMA StutterKeeps ==
    ASSUME IInv, UNCHANGED vars
    PROVE  IInv'
<1>1. AcceptOK' /\ CountIsTrue' /\ LostOK'
  BY AcceptsApart DEF vars, acceptVars
<1>2. RefsOK'
  BY RefsApart DEF vars, mainVars, Free
<1>3. TypeOK' /\ PhaseOK' /\ SessionOK' /\ DrainOK'
  BY DEF IInv, TypeOK, PhaseOK, SessionOK, DrainOK, Free, vars, acceptVars, mainVars
<1> QED
  BY <1>1, <1>2, <1>3 DEF IInv

LEMMA NextKeeps == IInv /\ [Next]_vars => IInv'
<1> SUFFICES ASSUME IInv, [Next]_vars PROVE IInv'
  OBVIOUS
<1>1. ASSUME NEW a \in Accepts, Initialize(a) \/ KernelAccepts(a) PROVE IInv'
  BY <1>1, InitializeKeeps, KernelAcceptsKeeps
<1>2. ASSUME NEW w \in Workers, NEW a \in Accepts, TakeAccept(w, a) PROVE IInv'
  BY <1>2, TakeAcceptKeeps
<1>3. ASSUME NEW s \in Sessions,
             KernelReceives(s) \/ Connect(s) \/ CloseSession(s) \/ ProcessRecv(s) \/ DeleteSession(s)
      PROVE  IInv'
  BY <1>3, KernelReceivesKeeps, ConnectKeeps, CloseSessionKeeps, ProcessRecvKeeps, DeleteSessionKeeps
<1>4. ASSUME NEW w \in Workers, NEW s \in Sessions, TakeRecv(w, s) PROVE IInv'
  BY <1>4, TakeRecvKeeps
<1>5. ASSUME NEW w \in Workers, Handles(w) PROVE IInv'
  BY <1>5, CreateSessionKeeps, AddKeeps, CountDownKeeps, PendAgainKeeps, DispatchKeeps, RecvAgainKeeps,
     ReleaseKeeps DEF Handles
<1>6. ASSUME NEW w \in Workers, End(w) \/ PostEnd(w) PROVE IInv'
  BY <1>6, EndKeeps, PostEndKeeps
<1>7. CASE Splice \/ AddListener \/ CloseListen \/ CloseAll \/ ReleasePolicy \/ OwnerReleases
  BY <1>7, SpliceKeeps, AddListenerKeeps, CloseListenKeeps, CloseAllKeeps, ReleasePolicyKeeps,
     OwnerReleasesKeeps
<1>8. CASE WaitForPendingComplete \/ AcceptsAreLate
  <2>1. late \subseteq {"accepts", "sessions"}
    BY DEF IInv, TypeOK
  <2> QED
    BY <1>8, <2>1, FreeListenerKeeps DEF WaitForPendingComplete, AcceptsAreLate
<1>9. CASE SessionsAreGone \/ SessionsAreLate
  <2>1. late \subseteq {"accepts", "sessions"}
    BY DEF IInv, TypeOK
  <2> QED
    BY <1>9, <2>1, FreePoolKeeps DEF SessionsAreGone, SessionsAreLate
<1>10. CASE UNCHANGED vars
  BY <1>10, StutterKeeps
<1> QED
  BY <1>1, <1>2, <1>3, <1>4, <1>5, <1>6, <1>7, <1>8, <1>9, <1>10 DEF Next

\* The counts of CListener, CIOCPNet and CSessionPolicy are true in every step.
THEOREM NetIsKept == Spec => []IInv
BY InitKept, NextKeeps, PTL DEF Spec

\* Type correctness.
THEOREM TypeCorrect == Spec => []TypeOK
<1>1. IInv => TypeOK
  BY DEF IInv
<1> QED
  BY <1>1, NetIsKept, PTL

\* m_dwCurrentPending is the number of accepts that the kernel, the port or a worker
\* has.
THEOREM PendingIsCounted == Spec => []CountIsTrue
<1>1. IInv => CountIsTrue
  BY DEF IInv
<1> QED
  BY <1>1, NetIsKept, PTL

\* While the listener listens, an accept is lost with each call of AcceptEx that fails
\* and in no other way.
THEOREM AcceptsStay == Spec => []AcceptsArePending
<1>1. IInv => AcceptsArePending
  <2> DEFINE lost == {a \in Accepts \ (Pending \union fresh) :
                        \A w \in Workers : worker[w].at = "again" => worker[w].a # a}
  <2>1. lost = Lost
    BY DEF Lost, Again
  <2> QED
    BY <2>1 DEF IInv, LostOK, AcceptsArePending
<1> QED
  BY <1>1, NetIsKept, PTL

\* CListener's destructor frees the listener after the accepts, but for the call of
\* PendingAccept at the end of the last.
THEOREM ListenerIsLast == Spec => []ListenerOutlivesAccepts
<1>1. IInv => ListenerOutlivesAccepts
  <2> SUFFICES ASSUME IInv, ~listener, "accepts" \notin late
               PROVE  /\ Pending = {}
                      /\ \A w \in Workers : worker[w].at \notin {"create", "add", "count"}
    BY DEF ListenerOutlivesAccepts
  <2>1. Pending = {}
    BY FiniteParts, EmptyIsZero DEF IInv, PhaseOK, CountIsTrue, Pending
  <2> QED
    BY <2>1 DEF IInv, AcceptOK, InAccept, Pending
<1> QED
  BY <1>1, NetIsKept, PTL

\* CSessionMgr's destructor frees the pool after the sessions and their completions, but
\* for the call of Recv that follows Dispatch.
THEOREM ManagerIsLast == Spec => []ManagerOutlivesSessions
<1>1. IInv => ManagerOutlivesSessions
  <2> SUFFICES ASSUME IInv, main \in {"joining", "destroyed"}, late = {}
               PROVE  /\ \A s \in Sessions : session[s] = NoSession
                      /\ \A w \in Workers : worker[w].at \in {"again", "recv", "release", "idle", "ended"}
    BY DEF ManagerOutlivesSessions
  <2>1. \A s \in Sessions : session[s] = NoSession
    BY DEF IInv, DrainOK, SessionOK
  <2>2. Pending = {}
    BY FiniteParts, EmptyIsZero DEF IInv, PhaseOK, CountIsTrue, Pending
  <2>3. \A w \in Workers : worker[w].at \notin {"create", "add", "count", "dispatch"}
    BY <2>1, <2>2 DEF IInv, AcceptOK, SessionOK, InAccept, Pending, NoSession
  <2> QED
    BY <2>1, <2>3, Typed DEF IInv, Step, Stages
<1> QED
  BY <1>1, NetIsKept, PTL

\* CSessionPolicy deletes itself after the last worker has ended, with nothing of its
\* factories under way.
THEOREM PolicyIsLast == Spec => []PolicyOutlivesUse
<1>1. IInv => PolicyOutlivesUse
  <2> SUFFICES ASSUME IInv, refs = 0 PROVE PolicyOutlivesUse
    BY DEF PolicyOutlivesUse
  <2>1. /\ uses \in Nat /\ Cardinality(Live) \in Nat /\ One(owner) \in Nat /\ One(listener) \in Nat
        /\ refs = One(owner) + (IF main = "destroyed" THEN 0 ELSE uses) + One(listener)
                   + Cardinality(Live)
    BY LiveIsCounted DEF IInv, TypeOK, RefsOK, One
  <2>2. One(listener) = 0 /\ Cardinality(Live) = 0 /\ (main = "destroyed" \/ uses = 0)
    BY <2>1
  <2>3. ~listener
    BY <2>2 DEF One
  <2>4. main = "destroyed"
    BY <2>2, <2>3 DEF IInv, PhaseOK
  <2>5. \A s \in Sessions : session[s] = NoSession
    BY <2>2, LiveIsCounted, EmptyIsZero DEF Live, IInv, SessionOK
  <2>6. "accepts" \notin late => Pending = {}
    BY <2>3, FiniteParts, EmptyIsZero DEF IInv, PhaseOK, CountIsTrue, Pending
  <2> QED
    BY <2>4, <2>5, <2>6 DEF IInv, PhaseOK, PolicyOutlivesUse, NoSession
<1> QED
  BY <1>1, NetIsKept, PTL

\* Destroy gives every reference to the policy back.
THEOREM PolicyIsGivenBack == Spec => []PolicyIsFreed
<1>1. IInv => PolicyIsFreed
  <2> SUFFICES ASSUME IInv, main = "destroyed", ~owner, late = {} PROVE refs = 0
    BY DEF PolicyIsFreed
  <2>1. Live = {}
    BY DEF IInv, DrainOK, Live
  <2>2. One(owner) = 0 /\ One(listener) = 0
    BY DEF IInv, PhaseOK, One
  <2>3. refs = One(owner) + 0 + One(listener) + Cardinality(Live)
    BY DEF IInv, RefsOK
  <2> QED
    BY <2>1, <2>2, <2>3, FS_EmptySet
<1> QED
  BY <1>1, NetIsKept, PTL
=============================================================================
