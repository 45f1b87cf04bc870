----------------------- MODULE AgentRunOperatorProofs -----------------------
(***************************************************************************)
(* Theorems about AgentRunOperator, for any number of AgentRuns, runs,     *)
(* tenants and idempotency keys, shared or not.                            *)
(***************************************************************************)
EXTENDS AgentRunOperator, TLAPS

-----------------------------------------------------------------------------
(***************************************************************************)
(* The inductive invariant IInv.                                           *)
(*                                                                         *)
(* Copies of an AgentRun are in the API server, in the cache and in the    *)
(* worker, and all but the first may be old.  The first three definitions  *)
(* say what a copy o of the AgentRun c may claim when the control plane    *)
(* has the statuses st and the owners ow; they are stable, because runs    *)
(* only move forward.                                                      *)
(***************************************************************************)
Ended == ControlPlane!Terminal

\* The recorded run is the one of the key of c, the phase is not ahead of it,
\* and a terminal phase is how it ended.
Faithful(st, ow, c, o) ==
    o.backend # None =>
        /\ ow[o.backend] = <<Home, Key[c]>>
        /\ st[o.backend] # "absent"
        /\ Rank(o.phase) <= Rank(projectPhase(st[o.backend]))
        /\ isTerminal(o.phase) => o.finished /\ o.phase = projectPhase(st[o.backend])

\* A copy without the finalizer, although a run is recorded, is of an object
\* that is being deleted, and the run has ended or is out of reach.
Released(st, o) ==
    o.backend # None /\ ~o.finalizer =>
        o.deleting /\ (o.label \in {Home, NoTenant} => st[o.backend] \in Ended)

\* A copy as it is stored.
Stored(st, ow, c, o) ==
    o # Gone => Faithful(st, ow, c, o) /\ (o.backend # None => o.finalizer)

\* The copy n of the worker does not take back what the object o reports.
Advances(o, n) ==
    /\ n.label = o.label
    /\ o.backend # None =>
           /\ n.backend = o.backend
           /\ Rank(o.phase) <= Rank(n.phase)
           /\ isTerminal(o.phase) => n.phase = o.phase

\* A cached copy is the object itself or older, and a recorded run is never
\* replaced by another one.
CacheInv(c) ==
    /\ c \in current => cache[c] = obj[c]
    /\ cache[c] # Gone /\ obj[c] # Gone /\ cache[c].backend # None =>
           obj[c].backend = cache[c].backend

\* What the reconcile under way holds, for each place where it may be.
Holds(w) ==
    /\ w.at = "submit" => w.copy.backend = None
    /\ w.at \in {"poll", "cancel", "delete"} => w.copy.backend # None
    /\ w.at \in {"submit", "poll", "cancel", "delete"} => w.copy.finalizer
    /\ w.at = "delete" => w.copy.deleting
    /\ w.at = "ttl" \/ (w.at = "write" /\ w.then \in {"ttl", "finalizer"}) =>
           w.copy.backend # None /\ isTerminal(w.copy.phase)
    /\ w.at = "write" /\ w.then \in {"ttl", "finalizer"} => w.copy.finalizer
    /\ w.at = "write" /\ w.then = "finalizer" => w.copy.deleting

\* The worker w: if its copy has the newest version, it follows on from the
\* object; if it is about to delete by name, the object has the same run.
WorkerOK(st, ow, ob, w) ==
    w.at # "idle" =>
        /\ w.run \in AgentRuns
        /\ Faithful(st, ow, w.run, w.copy)
        /\ Released(st, w.copy)
        /\ Holds(w)
        /\ w.current => ob[w.run] # Gone /\ Advances(ob[w.run], w.copy)
        /\ w.at = "ttl" /\ ob[w.run] # Gone => ob[w.run].backend = w.copy.backend

\* A run that has an owner exists.
Runs == \A r \in RunIds : owner[r] # None => status[r] # "absent"

IInv ==
    /\ TypeOK
    /\ Runs
    /\ \A c \in AgentRuns : Stored(status, owner, c, obj[c]) /\ Stored(status, owner, c, cache[c])
    /\ \A c \in AgentRuns : CacheInv(c)
    /\ WorkerOK(status, owner, obj, worker)

-----------------------------------------------------------------------------
(***************************************************************************)
(* The operators of the model.                                             *)
(***************************************************************************)
\* Every word of the control plane becomes a phase, and a terminal phase comes
\* only from the word of a run that has ended.
LEMMA Projection ==
    ASSUME NEW word
    PROVE  /\ projectPhase(word) \in Phases
           /\ isTerminal(projectPhase(word)) <=> word \in Ended
           /\ Rank(projectPhase(word)) \in 0 .. 3
           /\ word \in Ended => Rank(projectPhase(word)) = 3
BY DEF projectPhase, Phases, isTerminal, Ended, ControlPlane!Terminal, Rank

LEMMA RankType ==
    ASSUME NEW phase
    PROVE  Rank(phase) \in 0 .. 3
BY DEF Rank

\* The answer of the control plane is copied into the status and nowhere else.
LEMMA ApplyShape ==
    ASSUME NEW o \in Objects, NEW r \in RunIds \cup {None}, NEW word,
           NEW n, n = applyControlPlaneStatus(o, r, word)
    PROVE  /\ n \in Objects
           /\ n.backend = r
           /\ n.phase = projectPhase(word)
           /\ n.finalizer = o.finalizer
           /\ n.deleting = o.deleting
           /\ n.label = o.label
           /\ isTerminal(n.phase) => n.finished
<1> DEFINE done == o.finished \/ isTerminal(projectPhase(word))
<1>1. projectPhase(word) \in Phases
  BY Projection
<1>2. done \in BOOLEAN
  OBVIOUS
<1>3. n = [o EXCEPT !.backend = r, !.phase = projectPhase(word), !.finished = done]
  BY DEF applyControlPlaneStatus, Objects
<1>4. isTerminal(projectPhase(word)) => done = TRUE
  OBVIOUS
<1> HIDE DEF done
<1>5. /\ n \in Objects /\ n.backend = r /\ n.phase = projectPhase(word)
      /\ n.finalizer = o.finalizer /\ n.deleting = o.deleting /\ n.label = o.label
      /\ n.finished = done
  BY <1>1, <1>2, <1>3 DEF Objects
<1> QED
  BY <1>4, <1>5

\* The marks set conditions only.
LEMMA MarkShape ==
    ASSUME NEW o \in Objects,
           NEW n \in {reject(o), markReferencesReady(o), markControlPlaneReady(o),
                      markControlPlaneReady(markReferencesReady(o)),
                      [o EXCEPT !.reachable = FALSE]}
    PROVE  /\ n \in Objects
           /\ n.backend = o.backend
           /\ n.phase = o.phase
           /\ n.finished = o.finished
           /\ n.finalizer = o.finalizer
           /\ n.deleting = o.deleting
           /\ n.label = o.label
BY DEF Objects, reject, markReferencesReady, markControlPlaneReady

LEMMA FinalizerShape ==
    ASSUME NEW o \in Objects, NEW b \in BOOLEAN
    PROVE  LET n == [o EXCEPT !.finalizer = b]
           IN  /\ n \in Objects
               /\ n.backend = o.backend
               /\ n.phase = o.phase
               /\ n.finished = o.finished
               /\ n.finalizer = b
               /\ n.deleting = o.deleting
               /\ n.label = o.label
BY DEF Objects

LEMMA EarlyShape ==
    ASSUME NEW o \in Objects
    PROVE  LET n == CancelledBeforeSubmit(o)
           IN  /\ n \in Objects
               /\ n.backend = o.backend
               /\ n.finalizer = o.finalizer
               /\ n.label = o.label
BY DEF Objects, CancelledBeforeSubmit, markReferencesReady, Phases

LEMMA CallShape ==
    ASSUME NEW at \in {"idle", "submit", "poll", "cancel", "delete"},
           NEW c \in AgentRuns, NEW o \in Objects
    PROVE  LET w == Call(at, c, o)
           IN  /\ w \in Workers
               /\ w.at = at /\ w.run = c /\ w.copy = o /\ w.then = "end"
               /\ w.current <=> c \in current
<1> DEFINE fresh == c \in current
<1>1. fresh \in BOOLEAN
  OBVIOUS
<1>2. Call(at, c, o) = [at |-> at, run |-> c, copy |-> o, current |-> fresh, then |-> "end"]
  BY DEF Call
<1> HIDE DEF fresh
<1>3. LET w == Call(at, c, o)
      IN  /\ w \in Workers
          /\ w.at = at /\ w.run = c /\ w.copy = o /\ w.then = "end"
          /\ w.current = fresh
  BY <1>1, <1>2 DEF Workers
<1> QED
  BY <1>3 DEF fresh

LEMMA IdleShape == Idle \in Workers /\ Idle.at = "idle"
<1>1. Applied(FALSE) \in Objects
  BY KeyAssumption DEF Applied, Objects, Labels, Phases
<1> QED
  BY <1>1 DEF Idle, Workers

-----------------------------------------------------------------------------
(***************************************************************************)
(* Runs only move forward, and what a copy claims stays true.              *)
(***************************************************************************)
Onward(st, ow, st2, ow2) ==
    \A r \in RunIds : st[r] # "absent" =>
        /\ ow2[r] = ow[r]
        /\ st2[r] # "absent"
        /\ Rank(projectPhase(st[r])) <= Rank(projectPhase(st2[r]))
        /\ st[r] \in Ended => st2[r] = st[r]

\* A step of the control plane, its own or one that a request asks for.
Progress ==
    \/ \E r \in RunIds :
           \/ \E key \in Tenants \X Keys : ControlPlane!Create(r, key)
           \/ ControlPlane!Begin(r)
           \/ \E outcome \in {"succeeded", "failed"} : ControlPlane!Finish(r, outcome)
           \/ ControlPlane!Cancel(r)
    \/ UNCHANGED cp

CpType ==
    /\ status \in [RunIds -> {"absent", "queued", "running"} \cup Ended]
    /\ owner \in [RunIds -> (Tenants \X Keys) \cup {None}]

LEMMA ProgressOnward ==
    ASSUME CpType, Runs, Progress
    PROVE  CpType' /\ Runs' /\ Onward(status, owner, status', owner')
<1> USE DEF CpType, Runs, Onward, Ended, ControlPlane!Terminal
<1>1. ASSUME NEW r \in RunIds, NEW key \in Tenants \X Keys, ControlPlane!Create(r, key)
      PROVE  CpType' /\ Runs' /\ Onward(status, owner, status', owner')
  <2>1. CpType'
    BY <1>1 DEF ControlPlane!Create
  <2>2. \A q \in RunIds : q # r => status'[q] = status[q] /\ owner'[q] = owner[q]
    BY <1>1 DEF ControlPlane!Create
  <2>3. status[r] = "absent" /\ status'[r] = "queued"
    BY <1>1 DEF ControlPlane!Create
  <2> QED
    BY <2>1, <2>2, <2>3, RankType
<1>2. ASSUME NEW r \in RunIds, NEW s \in {"running", "succeeded", "failed", "cancelled"},
             status[r] \in {"queued", "running"}, s = "running" => status[r] = "queued",
             status' = [status EXCEPT ![r] = s], UNCHANGED owner
      PROVE  CpType' /\ Runs' /\ Onward(status, owner, status', owner')
  <2>1. CpType'
    BY <1>2
  <2>2. \A q \in RunIds : owner'[q] = owner[q] /\ (q # r => status'[q] = status[q])
    BY <1>2
  <2>3. status'[r] = s
    BY <1>2
  <2>4. Rank(projectPhase(status[r])) <= Rank(projectPhase(s))
    BY <1>2 DEF Rank, projectPhase
  <2> QED
    BY <1>2, <2>1, <2>2, <2>3, <2>4, RankType
<1>3. CASE UNCHANGED cp
  BY <1>3, RankType DEF cp
<1>4. ASSUME NEW r \in RunIds, ControlPlane!Begin(r)
      PROVE  CpType' /\ Runs' /\ Onward(status, owner, status', owner')
  BY <1>2, <1>4 DEF ControlPlane!Begin
<1>5. ASSUME NEW r \in RunIds, NEW outcome \in {"succeeded", "failed"},
             ControlPlane!Finish(r, outcome)
      PROVE  CpType' /\ Runs' /\ Onward(status, owner, status', owner')
  BY <1>2, <1>5 DEF ControlPlane!Finish
<1>6. ASSUME NEW r \in RunIds, ControlPlane!Cancel(r)
      PROVE  CpType' /\ Runs' /\ Onward(status, owner, status', owner')
  BY <1>2, <1>6 DEF ControlPlane!Cancel
<1> QED
  BY <1>1, <1>3, <1>4, <1>5, <1>6 DEF Progress

LEMMA ClaimsStay ==
    ASSUME NEW st, NEW ow, NEW st2, NEW ow2, Onward(st, ow, st2, ow2),
           NEW c, NEW o, o.backend \in RunIds \cup {None}
    PROVE  /\ Faithful(st, ow, c, o) => Faithful(st2, ow2, c, o)
           /\ Faithful(st, ow, c, o) /\ Released(st, o) => Released(st2, o)
<1>1. SUFFICES ASSUME o.backend \in RunIds, Faithful(st, ow, c, o), o.backend # None
               PROVE  Faithful(st2, ow2, c, o) /\ (Released(st, o) => Released(st2, o))
  BY DEF Faithful, Released
<1> DEFINE r == o.backend
<1>2. /\ st[r] # "absent" /\ ow[r] = <<Home, Key[c]>>
      /\ Rank(o.phase) <= Rank(projectPhase(st[r]))
      /\ isTerminal(o.phase) => o.finished /\ o.phase = projectPhase(st[r])
  BY <1>1 DEF Faithful
<1>3. /\ ow2[r] = ow[r] /\ st2[r] # "absent"
      /\ Rank(projectPhase(st[r])) <= Rank(projectPhase(st2[r]))
      /\ st[r] \in Ended => st2[r] = st[r]
  BY <1>1, <1>2 DEF Onward
<1>4. Rank(o.phase) <= Rank(projectPhase(st2[r]))
  BY <1>2, <1>3, RankType
<1>5. isTerminal(o.phase) => st[r] \in Ended
  BY <1>2, Projection
<1> QED
  BY <1>2, <1>3, <1>4, <1>5 DEF Faithful, Released

-----------------------------------------------------------------------------
(***************************************************************************)
(* The invariant holds initially, and a step keeps it.                     *)
(***************************************************************************)
LEMMA InvInit == Init => IInv
<1> SUFFICES ASSUME Init PROVE IInv
  OBVIOUS
<1>1. \A ttl \in BOOLEAN : Applied(ttl) \in Objects /\ Applied(ttl).backend = None
  BY KeyAssumption DEF Applied, Objects, Labels, Phases
<1>2. \A c \in AgentRuns : obj[c] \in Objects /\ obj[c].backend = None
  BY <1>1 DEF Init
<1>3. TypeOK
  BY <1>2, IdleShape DEF Init, ControlPlane!Init, TypeOK
<1>4. Runs
  BY DEF Runs, Init, ControlPlane!Init
<1>5. \A c \in AgentRuns : Stored(status, owner, c, obj[c]) /\ Stored(status, owner, c, cache[c])
  BY <1>2 DEF Init, Stored, Faithful
<1>6. \A c \in AgentRuns : CacheInv(c)
  BY DEF Init, CacheInv
<1>7. WorkerOK(status, owner, obj, worker)
  BY IdleShape DEF Init, WorkerOK
<1> QED
  BY <1>3, <1>4, <1>5, <1>6, <1>7 DEF IInv

LEMMA TypeFacts ==
    ASSUME TypeOK
    PROVE  /\ CpType
           /\ \A c \in AgentRuns : obj[c] \in Objects \cup {Gone}
           /\ \A c \in AgentRuns : cache[c] \in Objects \cup {Gone}
           /\ worker \in Workers
           /\ worker.copy \in Objects
           /\ worker.copy.backend \in RunIds \cup {None}
BY DEF TypeOK, CpType, Ended, Workers, Objects

\* What is stored stays as it is and the control plane moves on.
LEMMA StoredStay ==
    ASSUME IInv, Progress, UNCHANGED <<obj, cache, current>>
    PROVE  /\ CpType' /\ Runs'
           /\ Onward(status, owner, status', owner')
           /\ \A c \in AgentRuns : /\ Stored(status', owner', c, obj[c])
                                    /\ Stored(status', owner', c, cache[c])
           /\ \A c \in AgentRuns : CacheInv(c)'
<1>1. CpType' /\ Runs' /\ Onward(status, owner, status', owner')
  BY TypeFacts, ProgressOnward DEF IInv
<1>2. ASSUME NEW c \in AgentRuns, NEW o \in Objects \cup {Gone}, Stored(status, owner, c, o)
      PROVE  Stored(status', owner', c, o)
  <2>1. CASE o \in Objects
    <3>1. o.backend \in RunIds \cup {None}
      BY <2>1 DEF Objects
    <3> QED
      BY <1>1, <1>2, <3>1, ClaimsStay DEF Stored
  <2> QED
    BY <1>2, <2>1 DEF Stored
<1>3. \A c \in AgentRuns : CacheInv(c)'
  BY DEF IInv, CacheInv
<1> QED
  BY <1>1, <1>2, <1>3, TypeFacts DEF IInv

\* A step that only the worker and the control plane take.
LEMMA WorkerStep ==
    ASSUME IInv, Progress, UNCHANGED <<obj, cache, current>>,
           queue' \subseteq AgentRuns, agentReady' \in BOOLEAN, worker' \in Workers,
           WorkerOK(status', owner', obj, worker')
    PROVE  IInv'
<1>1. TypeOK'
  BY StoredStay DEF IInv, TypeOK, CpType, Ended
<1> QED
  BY <1>1, StoredStay DEF IInv

\* A reconcile goes on to write the copy o.
LEMMA WriteOK ==
    ASSUME NEW st, NEW ow, NEW ob, NEW w \in Workers, w.run \in AgentRuns,
           NEW o \in Objects, NEW then \in {"requeue", "end", "ttl", "finalizer"},
           Faithful(st, ow, w.run, o), Released(st, o),
           w.current => ob[w.run] # Gone /\ Advances(ob[w.run], o),
           then \in {"ttl", "finalizer"} =>
               o.backend # None /\ isTerminal(o.phase) /\ o.finalizer,
           then = "finalizer" => o.deleting
    PROVE  /\ Write(w, o, then) \in Workers
           /\ WorkerOK(st, ow, ob, Write(w, o, then))
<1> DEFINE x == Write(w, o, then)
<1>0. /\ w \in Workers /\ o \in Objects
      /\ then \in {"requeue", "end", "ttl", "finalizer"}
      /\ x = Write(w, o, then)
  OBVIOUS
<1> HIDE DEF x
<1>1. /\ x \in Workers
      /\ x.at = "write" /\ x.run = w.run /\ x.copy = o /\ x.then = then
      /\ x.current = w.current
  <2>1. x \in Workers
    BY ONLY <1>0 DEF Write, Workers
  <2>2. x.at = "write" /\ x.run = w.run /\ x.copy = o /\ x.then = then /\ x.current = w.current
    BY ONLY <1>0 DEF Write, Workers
  <2> QED
    BY <2>1, <2>2
<1>2. Holds(x)
  <2>1. then \in {"ttl", "finalizer"} =>
            x.copy.backend # None /\ isTerminal(x.copy.phase) /\ x.copy.finalizer
    BY <1>1
  <2>2. then = "finalizer" => x.copy.deleting
    BY <1>1
  <2> QED
    BY <1>1, <2>1, <2>2 DEF Holds
<1>3. WorkerOK(st, ow, ob, x)
  BY <1>1, <1>2 DEF WorkerOK
<1> QED
  BY <1>1, <1>3 DEF x

\* A copy n that has taken over the answer about the run of its key.
LEMMA AnswerOK ==
    ASSUME NEW st, NEW ow, NEW c \in AgentRuns, NEW n,
           n.backend \in RunIds, ow[n.backend] = <<Home, Key[c]>>, st[n.backend] # "absent",
           n.phase = projectPhase(st[n.backend]), isTerminal(n.phase) => n.finished,
           n.finalizer
    PROVE  Faithful(st, ow, c, n) /\ Released(st, n)
BY RankType DEF Faithful, Released

\* Such a copy follows on from the object if the copy w it was made from does.
LEMMA AnswerAdvances ==
    ASSUME NEW st, NEW ow, NEW c \in AgentRuns, NEW n, n.phase = projectPhase(st[n.backend]),
           NEW o, Stored(st, ow, c, o), o # Gone,
           NEW w, Advances(o, w), n.label = w.label, w.backend \in {None, n.backend}
    PROVE  Advances(o, n)
<1>1. o.backend # None => n.backend = o.backend
  BY DEF Advances
<1>2. o.backend # None =>
          /\ Rank(o.phase) <= Rank(projectPhase(st[o.backend]))
          /\ isTerminal(o.phase) => o.phase = projectPhase(st[o.backend])
  BY DEF Stored, Faithful
<1> QED
  BY <1>1, <1>2 DEF Advances

\* A copy with the same report is as good as the one it replaces.
LEMMA SameReport ==
    ASSUME NEW st, NEW ow, NEW c, NEW o, NEW n,
           n.backend = o.backend, n.phase = o.phase, n.finished = o.finished, n.label = o.label
    PROVE  /\ Faithful(st, ow, c, o) => Faithful(st, ow, c, n)
           /\ n.finalizer = o.finalizer /\ n.deleting = o.deleting /\ Released(st, o) =>
                  Released(st, n)
           /\ \A x : Advances(x, o) => Advances(x, n)
BY DEF Faithful, Released, Advances

\* Every branch of Reconcile leaves the worker in order, whether or not the
\* cached copy it starts from is the newest.
LEMMA BranchOK ==
    ASSUME IInv, NEW c \in AgentRuns, cache[c] # Gone
    PROVE  /\ Branch(c, cache[c]) \in Workers
           /\ WorkerOK(status, owner, obj, Branch(c, cache[c]))
           /\ LET rejected == Write(Call("idle", c, cache[c]), reject(cache[c]), "requeue")
              IN  rejected \in Workers /\ WorkerOK(status, owner, obj, rejected)
<1> DEFINE o == cache[c]
           w == Call("idle", c, o)
           OK(x) == x \in Workers /\ WorkerOK(status, owner, obj, x)
           unfinished == o.backend # None /\ ~isTerminal(o.phase)
<1>1. /\ o \in Objects /\ o # Gone
      /\ o.finalizer \in BOOLEAN /\ o.deleting \in BOOLEAN
      /\ o.backend \in RunIds \cup {None}
  BY TypeFacts DEF IInv, Objects
<1>2. /\ Faithful(status, owner, c, o)
      /\ o.backend # None => o.finalizer
      /\ Released(status, o)
  BY <1>1 DEF IInv, Stored, Released
<1>3. /\ c \in current => obj[c] # Gone /\ Advances(obj[c], o)
      /\ obj[c] # Gone /\ o.backend # None => obj[c].backend = o.backend
  <2>1. Advances(o, o)
    BY RankType DEF Advances
  <2> QED
    BY <1>1, <2>1 DEF IInv, CacheInv
<1>4. /\ w \in Workers
      /\ w.at = "idle" /\ w.run = c /\ w.copy = o
      /\ w.current <=> c \in current
  BY <1>1, CallShape
<1>5. ASSUME NEW at \in {"submit", "poll", "cancel", "delete"}, Holds(Call(at, c, o))
      PROVE  OK(Call(at, c, o))
  BY <1>1, <1>2, <1>3, <1>5, CallShape DEF WorkerOK
<1>6. ASSUME NEW n \in Objects, NEW then \in {"requeue", "end", "ttl"},
             n.label = o.label, n.backend = o.backend,
             o.backend # None => n.phase = o.phase /\ n.finished = o.finished,
             Released(status, n),
             then = "ttl" => o.backend # None /\ isTerminal(o.phase) /\ n.finalizer
      PROVE  OK(Write(w, n, then))
  <2>1. Faithful(status, owner, c, n)
    BY <1>2, <1>6 DEF Faithful
  <2>2. c \in current => Advances(obj[c], n)
    BY <1>3, <1>6 DEF Advances
  <2> QED
    BY <1>3, <1>4, <1>6, <2>1, <2>2, WriteOK
<1>7. OK(Idle)
  BY IdleShape DEF WorkerOK
<1>a. OK(Write(w, reject(o), "requeue"))
  BY <1>1, <1>2, <1>6, MarkShape, SameReport
<1> SUFFICES OK(Branch(c, o))
  BY <1>a
<1>8. CASE o.deleting
  <2>1. CASE ~o.finalizer
    BY <1>7, <1>8, <2>1 DEF Branch
  <2>2. CASE o.finalizer /\ unfinished
    <3>1. Holds(Call("delete", c, o))
      BY <1>1, <1>8, <2>2, CallShape DEF Holds
    <3> QED
      BY <1>5, <1>8, <2>2, <3>1 DEF Branch
  <2>3. CASE o.finalizer /\ ~unfinished
    <3> DEFINE n == [o EXCEPT !.finalizer = FALSE]
    <3>1. /\ n \in Objects /\ n.label = o.label /\ n.backend = o.backend
          /\ n.phase = o.phase /\ n.finished = o.finished /\ n.deleting = o.deleting
      BY <1>1, FinalizerShape
    <3>2. Released(status, n)
      BY <1>2, <1>8, <2>3, <3>1, Projection DEF Released, Faithful
    <3>3. OK(Write(w, n, "end"))
      BY <1>6, <3>1, <3>2
    <3> QED
      BY <1>8, <2>3, <3>3 DEF Branch
  <2> QED
    BY <2>1, <2>2, <2>3
<1>9. CASE ~o.deleting /\ ~o.finalizer
  <2> DEFINE n == [o EXCEPT !.finalizer = TRUE]
  <2>1. /\ n \in Objects /\ n.label = o.label /\ n.backend = o.backend
        /\ n.phase = o.phase /\ n.finished = o.finished /\ n.finalizer
    BY <1>1, FinalizerShape
  <2>2. OK(Write(w, n, "requeue"))
    BY <1>6, <2>1 DEF Released
  <2> QED
    BY <1>9, <2>2 DEF Branch
<1>10. CASE ~o.deleting /\ o.finalizer /\ ~validateReferences(o)
  BY <1>10, <1>a DEF Branch
<1>11. CASE ~o.deleting /\ o.finalizer /\ validateReferences(o) /\ o.cancel
  <2>1. CASE o.backend = None
    <3>1. OK(Write(w, CancelledBeforeSubmit(o), "end"))
      BY <1>1, <1>6, <2>1, EarlyShape DEF Released
    <3> QED
      BY <1>11, <2>1, <3>1 DEF Branch
  <2>2. CASE o.backend # None
    <3>1. Holds(Call("cancel", c, o))
      BY <1>1, <1>11, <2>2, CallShape DEF Holds
    <3> QED
      BY <1>5, <1>11, <2>2, <3>1 DEF Branch
  <2> QED
    BY <2>1, <2>2
<1>12. CASE ~o.deleting /\ o.finalizer /\ validateReferences(o) /\ ~o.cancel /\ o.backend = None
  <2>1. Holds(Call("submit", c, o))
    BY <1>1, <1>12, CallShape DEF Holds
  <2> QED
    BY <1>5, <1>12, <2>1 DEF Branch
<1>13. CASE /\ ~o.deleting /\ o.finalizer /\ validateReferences(o) /\ ~o.cancel
            /\ o.backend # None /\ isTerminal(o.phase)
  <2> DEFINE n == markControlPlaneReady(w.copy)
  <2>1. CASE n # w.copy
    <3>0. n = markControlPlaneReady(o)
      BY <1>4
    <3>1. OK(Write(w, n, "ttl"))
      <4> HIDE DEF n, w, OK
      <4>1. /\ n \in Objects /\ n.label = o.label /\ n.backend = o.backend
            /\ n.phase = o.phase /\ n.finished = o.finished
            /\ n.finalizer = o.finalizer /\ n.deleting = o.deleting
        BY <1>1, <3>0, MarkShape
      <4>2. Released(status, n)
        BY <1>2, <4>1, SameReport
      <4> QED
        BY <1>6, <1>13, <4>1, <4>2
    <3>2. Branch(c, o) = Write(w, n, "ttl")
      BY <1>13, <2>1 DEF Branch, sanitizeTerminalStatus
    <3> QED
      BY <3>1, <3>2
  <2>2. CASE n = w.copy
    <3> DEFINE x == [w EXCEPT !.at = "ttl"]
    <3>1. Branch(c, o) = x
      BY <1>13, <2>2 DEF Branch, sanitizeTerminalStatus
    <3>2. /\ x \in Workers
          /\ x.at = "ttl" /\ x.run = c /\ x.copy = o /\ (x.current <=> c \in current)
      <4> HIDE DEF w
      <4> QED
        BY <1>4 DEF Workers
    <3> HIDE DEF x
    <3>3. Holds(x)
      BY <1>13, <3>2 DEF Holds
    <3>4. OK(x)
      BY <1>2, <1>3, <1>13, <3>2, <3>3 DEF WorkerOK
    <3> QED
      BY <3>1, <3>4
  <2> QED
    BY <2>1, <2>2
<1>14. CASE /\ ~o.deleting /\ o.finalizer /\ validateReferences(o) /\ ~o.cancel
            /\ o.backend # None /\ ~isTerminal(o.phase)
  <2>1. Holds(Call("poll", c, o))
    BY <1>1, <1>14, CallShape DEF Holds
  <2> QED
    BY <1>5, <1>14, <2>1 DEF Branch
<1> QED
  BY <1>8, <1>9, <1>10, <1>11, <1>12, <1>13, <1>14

\* A reconcile under way.
LEMMA WorkerFacts ==
    ASSUME IInv, worker.at # "idle"
    PROVE  /\ worker \in Workers /\ worker.copy \in Objects
           /\ worker.run \in AgentRuns
           /\ worker.copy.backend \in RunIds \cup {None}
           /\ Faithful(status, owner, worker.run, worker.copy)
           /\ Released(status, worker.copy)
           /\ Holds(worker)
           /\ worker.current => /\ obj[worker.run] # Gone
                                /\ Advances(obj[worker.run], worker.copy)
           /\ worker.at = "ttl" /\ obj[worker.run] # Gone =>
                  obj[worker.run].backend = worker.copy.backend
           /\ queue \subseteq AgentRuns
           /\ queue \cup {worker.run} \subseteq AgentRuns
           /\ agentReady \in BOOLEAN
BY TypeFacts DEF IInv, WorkerOK, TypeOK

\* The worker has the answer about the run r of its key and writes it.
LEMMA AnswerWrite ==
    ASSUME IInv, Progress, UNCHANGED <<obj, cache, current>>, worker.at # "idle",
           NEW r \in RunIds, owner'[r] = <<Home, Key[worker.run]>>,
           worker.copy.finalizer, worker.copy.backend \in {None, r},
           NEW n \in Objects, n.backend = r, n.phase = projectPhase(status'[r]),
           isTerminal(n.phase) => n.finished,
           n.finalizer = worker.copy.finalizer, n.deleting = worker.copy.deleting,
           n.label = worker.copy.label,
           NEW then \in {"requeue", "ttl", "finalizer"},
           then \in {"ttl", "finalizer"} => isTerminal(n.phase),
           then = "finalizer" => worker.copy.deleting
    PROVE  /\ Write(worker, n, then) \in Workers
           /\ WorkerOK(status', owner', obj, Write(worker, n, then))
<1> DEFINE c == worker.run
<1>1. c \in AgentRuns /\ worker \in Workers /\ r # None
  BY WorkerFacts, KeyAssumption
<1>2. status'[r] # "absent"
  <2>1. <<Home, Key[c]>> \in Tenants \X Keys
    BY <1>1, KeyAssumption
  <2> QED
    BY <2>1, KeyAssumption, StoredStay DEF Runs
<1>3. Faithful(status', owner', c, n) /\ Released(status', n)
  BY <1>1, <1>2, AnswerOK
<1>4. worker.current => obj[c] # Gone /\ Advances(obj[c], n)
  <2> SUFFICES ASSUME worker.current PROVE obj[c] # Gone /\ Advances(obj[c], n)
    OBVIOUS
  <2>1. obj[c] # Gone /\ Advances(obj[c], worker.copy)
    BY WorkerFacts
  <2>2. Stored(status', owner', c, obj[c])
    BY <1>1, StoredStay
  <2> QED
    BY <1>1, <2>1, <2>2, AnswerAdvances
<1> QED
  BY <1>1, <1>3, <1>4, WriteOK

\* The worker writes a copy with the same report.
LEMMA SameWrite ==
    ASSUME IInv, Progress, UNCHANGED <<obj, cache, current>>, worker.at # "idle",
           NEW n \in Objects, n.backend = worker.copy.backend, n.phase = worker.copy.phase,
           n.finished = worker.copy.finished, n.label = worker.copy.label,
           Released(status', n), NEW then \in {"requeue", "end"}
    PROVE  /\ Write(worker, n, then) \in Workers
           /\ WorkerOK(status', owner', obj, Write(worker, n, then))
<1>1. Faithful(status', owner', worker.run, worker.copy)
  BY WorkerFacts, StoredStay, ClaimsStay
<1>2. Faithful(status', owner', worker.run, n)
  BY <1>1, SameReport
<1>3. worker.current => obj[worker.run] # Gone /\ Advances(obj[worker.run], n)
  BY WorkerFacts, SameReport
<1> QED
  BY <1>2, <1>3, WorkerFacts, WriteOK

\* The reconcile ends.
LEMMA EndStep ==
    ASSUME IInv, Progress, UNCHANGED <<obj, cache, current, agentReady>>,
           worker' = Idle, queue' \subseteq AgentRuns
    PROVE  IInv'
<1>1. worker' \in Workers /\ WorkerOK(status', owner', obj, worker')
  BY IdleShape DEF WorkerOK
<1>2. agentReady' \in BOOLEAN
  BY DEF IInv, TypeOK
<1> QED
  BY <1>1, <1>2, WorkerStep

LEMMA ReconcileInv ==
    ASSUME IInv, NEW c \in AgentRuns, Reconcile(c) \/ ReferencesUnread(c)
    PROVE  IInv'
<1>1. Progress /\ UNCHANGED <<obj, cache, current, agentReady, status, owner>>
  BY DEF Reconcile, ReferencesUnread, Progress, cp
<1>2. queue' \subseteq AgentRuns /\ agentReady' \in BOOLEAN
  BY DEF Reconcile, ReferencesUnread, IInv, TypeOK
<1>3. CASE Reconcile(c) /\ cache[c] = Gone
  BY <1>1, <1>2, <1>3, EndStep DEF Reconcile
<1>4. CASE Reconcile(c) /\ cache[c] # Gone
  <2>1. worker' = Branch(c, cache[c])
    BY <1>4 DEF Reconcile
  <2>2. worker' \in Workers /\ WorkerOK(status', owner', obj, worker')
    BY <1>1, <1>4, <2>1, BranchOK
  <2> QED
    BY <1>1, <1>2, <2>2, WorkerStep
<1>5. CASE ReferencesUnread(c)
  <2>1. /\ cache[c] # Gone
        /\ worker' = Write(Call("idle", c, cache[c]), reject(cache[c]), "requeue")
    BY <1>5 DEF ReferencesUnread
  <2>2. worker' \in Workers /\ WorkerOK(status', owner', obj, worker')
    BY <1>1, <2>1, BranchOK
  <2> QED
    BY <1>1, <1>2, <2>2, WorkerStep
<1> QED
  BY <1>3, <1>4, <1>5

\* A submission reaches the control plane: the run of the key exists, whether it
\* is new, was submitted before an answer was lost, or belongs to another
\* AgentRun with the same key.
LEMMA SubmitFacts ==
    ASSUME IInv, NEW r \in RunIds, worker.at = "submit", SubmitTo(r)
    PROVE  Progress /\ owner'[r] = <<Home, Key[worker.run]>>
<1> DEFINE key == <<Home, Key[worker.run]>>
<1>1. key \in Tenants \X Keys
  BY WorkerFacts, KeyAssumption
<1>2. CASE ControlPlane!Create(r, key)
  <2>1. Progress
    BY <1>1, <1>2 DEF Progress
  <2>2. owner'[r] = key
    BY <1>2, TypeFacts DEF ControlPlane!Create, IInv, CpType
  <2> QED
    BY <2>1, <2>2
<1>3. CASE owner[r] = key /\ UNCHANGED cp
  BY <1>3 DEF Progress, cp
<1> QED
  BY <1>2, <1>3 DEF SubmitTo

LEMMA SubmitInv ==
    ASSUME IInv, reconcileSubmit
    PROVE  IInv'
<1> PICK r \in RunIds :
        /\ SubmitTo(r)
        /\ worker' = Write(worker, markControlPlaneReady(markReferencesReady(
                         applyControlPlaneStatus(worker.copy, r, status'[r]))), "requeue")
  BY DEF reconcileSubmit
<1> DEFINE a == applyControlPlaneStatus(worker.copy, r, status'[r])
           n == markControlPlaneReady(markReferencesReady(a))
<1>1. UNCHANGED <<obj, cache, current, agentReady, queue>> /\ worker.at = "submit"
  BY DEF reconcileSubmit, Environment
<1>2. Progress /\ owner'[r] = <<Home, Key[worker.run]>>
  BY <1>1, SubmitFacts
<1>3. worker.copy \in Objects /\ worker.copy.finalizer /\ worker.copy.backend = None
  BY <1>1, WorkerFacts DEF Holds
<1>4. /\ a \in Objects /\ a.backend = r /\ a.phase = projectPhase(status'[r])
      /\ a.finalizer = worker.copy.finalizer /\ a.deleting = worker.copy.deleting
      /\ a.label = worker.copy.label
      /\ isTerminal(a.phase) => a.finished
  <2>1. a = applyControlPlaneStatus(worker.copy, r, status'[r])
    OBVIOUS
  <2> HIDE DEF a
  <2>2. worker.copy \in Objects /\ r \in RunIds
    BY <1>3
  <2> QED
    BY ONLY <2>1, <2>2, ApplyShape
<1> HIDE DEF a
<1>5. /\ n \in Objects /\ n.backend = a.backend /\ n.phase = a.phase /\ n.finished = a.finished
      /\ n.finalizer = a.finalizer /\ n.deleting = a.deleting /\ n.label = a.label
  BY <1>4, MarkShape
<1> HIDE DEF n
<1>6. worker' = Write(worker, n, "requeue")
  BY DEF n, a
<1>7. worker' \in Workers /\ WorkerOK(status', owner', obj, worker')
  BY <1>1, <1>2, <1>3, <1>4, <1>5, <1>6, AnswerWrite
<1> QED
  BY <1>1, <1>2, <1>7, WorkerStep DEF IInv, TypeOK

LEMMA PollInv ==
    ASSUME IInv, reconcilePoll
    PROVE  IInv'
<1> DEFINE r == worker.copy.backend
           a == applyControlPlaneStatus(worker.copy, r, status[r])
           n == markControlPlaneReady(a)
           then == IF isTerminal(n.phase) THEN "ttl" ELSE "requeue"
<1>1. /\ UNCHANGED <<obj, cache, current, agentReady, status, owner>>
      /\ worker.at = "poll" /\ Progress
  BY DEF reconcilePoll, Environment, Progress, cp
<1>2. /\ worker.copy \in Objects /\ worker.copy.finalizer
      /\ r \in RunIds /\ r # None
      /\ owner[r] = <<Home, Key[worker.run]>>
  BY <1>1, WorkerFacts DEF Holds, Faithful
<1>3. /\ a \in Objects /\ a.backend = r /\ a.phase = projectPhase(status[r])
      /\ a.finalizer = worker.copy.finalizer /\ a.deleting = worker.copy.deleting
      /\ a.label = worker.copy.label
      /\ isTerminal(a.phase) => a.finished
  <2>1. a = applyControlPlaneStatus(worker.copy, r, status[r])
    OBVIOUS
  <2> HIDE DEF a
  <2>2. worker.copy \in Objects /\ r \in RunIds
    BY <1>2
  <2> QED
    BY ONLY <2>1, <2>2, ApplyShape
<1>4. /\ n \in Objects /\ n.backend = a.backend /\ n.phase = a.phase /\ n.finished = a.finished
      /\ n.finalizer = a.finalizer /\ n.deleting = a.deleting /\ n.label = a.label
  <2> HIDE DEF a
  <2> QED
    BY <1>3, MarkShape
<1>5. CASE worker' = Write(worker, n, then) /\ UNCHANGED queue
  <2> HIDE DEF n, a, r
  <2>1. then \in {"requeue", "ttl"} /\ (then = "ttl" => isTerminal(n.phase))
    OBVIOUS
  <2> HIDE DEF then
  <2>2. worker' \in Workers /\ WorkerOK(status', owner', obj, worker')
    BY <1>1, <1>2, <1>3, <1>4, <1>5, <2>1, AnswerWrite DEF r
  <2> QED
    BY <1>1, <1>5, <2>2, WorkerStep DEF IInv, TypeOK
<1>6. CASE worker' = Idle /\ queue' = queue \cup {worker.run}
  BY <1>1, <1>6, EndStep, WorkerFacts
<1> QED
  BY <1>5, <1>6 DEF reconcilePoll

\* A cancellation of an existing run, or of one that has already ended.
LEMMA CancelFacts ==
    ASSUME NEW r \in RunIds, CancelAt(r)
    PROVE  Progress /\ UNCHANGED owner
BY DEF CancelAt, Progress, ControlPlane!Cancel, cp

LEMMA CancelInv ==
    ASSUME IInv, reconcileCancel
    PROVE  IInv'
<1> DEFINE r == worker.copy.backend
           a == applyControlPlaneStatus(worker.copy, r, status'[r])
           n == markControlPlaneReady(markReferencesReady(a))
           then == IF isTerminal(n.phase) THEN "ttl" ELSE "requeue"
<1>1. /\ UNCHANGED <<obj, cache, current, agentReady, queue>>
      /\ worker.at = "cancel" /\ CancelAt(r)
      /\ worker' = Write(worker, n, then)
  BY DEF reconcileCancel, Environment
<1>2. /\ worker.copy \in Objects /\ worker.copy.finalizer
      /\ r \in RunIds /\ r # None
      /\ owner[r] = <<Home, Key[worker.run]>>
  BY <1>1, WorkerFacts DEF Holds, Faithful
<1>3. /\ a \in Objects /\ a.backend = r /\ a.phase = projectPhase(status'[r])
      /\ a.finalizer = worker.copy.finalizer /\ a.deleting = worker.copy.deleting
      /\ a.label = worker.copy.label
      /\ isTerminal(a.phase) => a.finished
  <2>1. a = applyControlPlaneStatus(worker.copy, r, status'[r])
    OBVIOUS
  <2> HIDE DEF a
  <2>2. worker.copy \in Objects /\ r \in RunIds
    BY <1>2
  <2> QED
    BY ONLY <2>1, <2>2, ApplyShape
<1>4. /\ n \in Objects /\ n.backend = a.backend /\ n.phase = a.phase /\ n.finished = a.finished
      /\ n.finalizer = a.finalizer /\ n.deleting = a.deleting /\ n.label = a.label
  <2> HIDE DEF a
  <2> QED
    BY <1>3, MarkShape
<1>5. Progress /\ owner'[r] = <<Home, Key[worker.run]>>
  BY <1>1, <1>2, CancelFacts
<1>6. then \in {"requeue", "ttl"} /\ (then = "ttl" => isTerminal(n.phase))
  OBVIOUS
<1> HIDE DEF n, a, r, then
<1>7. worker' \in Workers /\ WorkerOK(status', owner', obj, worker')
  BY <1>1, <1>2, <1>3, <1>4, <1>5, <1>6, AnswerWrite DEF r
<1> QED
  BY <1>1, <1>5, <1>7, WorkerStep DEF IInv, TypeOK

LEMMA DeleteInv ==
    ASSUME IInv, reconcileDelete
    PROVE  IInv'
<1> DEFINE r == worker.copy.backend
<1>1. /\ UNCHANGED <<obj, cache, current, agentReady>>
      /\ worker.at = "delete"
  BY DEF reconcileDelete, Environment
<1>2. /\ worker.copy \in Objects /\ worker.copy.finalizer /\ worker.copy.deleting
      /\ r \in RunIds /\ r # None
      /\ owner[r] = <<Home, Key[worker.run]>>
  BY <1>1, WorkerFacts DEF Holds, Faithful
<1>3. CASE worker.copy.label = Home
  <2> DEFINE n == applyControlPlaneStatus(worker.copy, r, status'[r])
             then == IF isTerminal(n.phase) THEN "finalizer" ELSE "requeue"
  <2>1. CancelAt(r) /\ worker' = Write(worker, n, then) /\ UNCHANGED queue
    BY <1>3, KeyAssumption DEF reconcileDelete
  <2>2. /\ n \in Objects /\ n.backend = r /\ n.phase = projectPhase(status'[r])
        /\ n.finalizer = worker.copy.finalizer /\ n.deleting = worker.copy.deleting
        /\ n.label = worker.copy.label
        /\ isTerminal(n.phase) => n.finished
    <3>1. n = applyControlPlaneStatus(worker.copy, r, status'[r])
      OBVIOUS
    <3> HIDE DEF n
    <3>2. worker.copy \in Objects /\ r \in RunIds
      BY <1>2
    <3> QED
      BY ONLY <3>1, <3>2, ApplyShape
  <2>3. Progress /\ owner'[r] = <<Home, Key[worker.run]>>
    BY <1>2, <2>1, CancelFacts
  <2>4. then \in {"requeue", "finalizer"} /\ (then = "finalizer" => isTerminal(n.phase))
    OBVIOUS
  <2> HIDE DEF n, r, then
  <2>5. worker' \in Workers /\ WorkerOK(status', owner', obj, worker')
    BY <1>1, <1>2, <2>1, <2>2, <2>3, <2>4, AnswerWrite DEF r
  <2> QED
    BY <1>1, <2>1, <2>3, <2>5, WorkerStep DEF IInv, TypeOK
<1>4. CASE worker.copy.label \in Tenants \ {Home}
  <2> DEFINE n == [worker.copy EXCEPT !.finalizer = FALSE]
  <2>1. UNCHANGED <<status, owner, queue>> /\ worker' = Write(worker, n, "end")
    BY <1>4, KeyAssumption DEF reconcileDelete, cp
  <2>2. /\ n \in Objects /\ n.backend = r /\ n.phase = worker.copy.phase
        /\ n.finished = worker.copy.finished /\ n.deleting = worker.copy.deleting
        /\ n.label = worker.copy.label
    BY <1>2, FinalizerShape
  <2> HIDE DEF n
  <2>3. Released(status', n)
    BY <1>2, <1>4, <2>2, KeyAssumption DEF Released
  <2>4. Progress
    BY <2>1 DEF Progress, cp
  <2>5. worker' \in Workers /\ WorkerOK(status', owner', obj, worker')
    BY <1>1, <2>1, <2>2, <2>3, <2>4, SameWrite
  <2> QED
    BY <1>1, <2>1, <2>4, <2>5, WorkerStep DEF IInv, TypeOK
<1>5. CASE worker.copy.label = NoTenant
  <2>1. UNCHANGED cp /\ ReturnError
    BY <1>5, KeyAssumption DEF reconcileDelete
  <2>2. Progress
    BY <2>1 DEF Progress
  <2> QED
    BY <1>1, <2>1, <2>2, EndStep, WorkerFacts DEF ReturnError
<1> QED
  BY <1>2, <1>3, <1>4, <1>5 DEF Objects, Labels

\* The answer of the control plane is lost or an error.
LEMMA GatewayFailureInv ==
    ASSUME IInv, Progress, UNCHANGED <<obj, cache, current, agentReady, queue>>,
           worker.at # "idle", gatewayFailure
    PROVE  IInv'
<1> DEFINE n == [worker.copy EXCEPT !.reachable = FALSE]
<1>1. /\ n \in Objects /\ n.backend = worker.copy.backend /\ n.phase = worker.copy.phase
      /\ n.finished = worker.copy.finished /\ n.label = worker.copy.label
      /\ n.finalizer = worker.copy.finalizer /\ n.deleting = worker.copy.deleting
  BY WorkerFacts, MarkShape
<1>2. worker' = Write(worker, n, "requeue")
  BY DEF gatewayFailure
<1> HIDE DEF n
<1>3. Released(status', n)
  <2>1. Released(status', worker.copy)
    BY WorkerFacts, StoredStay, ClaimsStay
  <2> QED
    BY <1>1, <2>1, SameReport
<1>4. worker' \in Workers /\ WorkerOK(status', owner', obj, worker')
  BY <1>1, <1>2, <1>3, SameWrite
<1> QED
  BY <1>4, WorkerStep DEF IInv, TypeOK

LEMMA FailuresInv ==
    ASSUME IInv, Failures
    PROVE  IInv'
<1>1. CASE SubmitUnanswered
  <2>1. PICK r \in RunIds : SubmitTo(r)
    BY <1>1 DEF SubmitUnanswered
  <2>2. Progress
    BY <1>1, <2>1, SubmitFacts DEF SubmitUnanswered
  <2> QED
    BY <1>1, <2>2, GatewayFailureInv DEF SubmitUnanswered, Environment
<1>2. CASE CallFails
  <2>1. Progress
    BY <1>2 DEF CallFails, Progress, cp
  <2> QED
    BY <1>2, <2>1, GatewayFailureInv DEF CallFails, Environment, cp
<1>3. CASE DeleteCallFails \/ WriteFails \/ TTLFails
  <2>1. /\ Progress /\ ReturnError /\ worker.at # "idle"
        /\ UNCHANGED <<obj, cache, current, agentReady>>
    BY <1>3 DEF DeleteCallFails, WriteFails, TTLFails, Progress, cp, Environment
  <2> QED
    BY <2>1, EndStep, WorkerFacts DEF ReturnError
<1> QED
  BY <1>1, <1>2, <1>3 DEF Failures

\* The object c is replaced by new, which has the same run if it has one.
LEMMA StoreFacts ==
    ASSUME IInv, UNCHANGED <<status, owner, cache>>,
           NEW c \in AgentRuns, NEW new \in Objects \cup {Gone}, Store(c, new),
           Stored(status, owner, c, new),
           obj[c] = Gone => new = Gone,
           obj[c] # Gone /\ new # Gone /\ obj[c].backend # None => new.backend = obj[c].backend
    PROVE  /\ obj' \in [AgentRuns -> Objects \cup {Gone}]
           /\ current' \subseteq AgentRuns
           /\ obj'[c] = new
           /\ \A d \in AgentRuns : d # c => obj'[d] = obj[d]
           /\ \A d \in AgentRuns : /\ Stored(status', owner', d, obj'[d])
                                    /\ Stored(status', owner', d, cache'[d])
           /\ \A d \in AgentRuns : CacheInv(d)'
<1>1. /\ obj' \in [AgentRuns -> Objects \cup {Gone}]
      /\ current' \subseteq AgentRuns
      /\ obj'[c] = new
      /\ \A d \in AgentRuns : d # c => obj'[d] = obj[d]
  BY DEF Store, IInv, TypeOK
<1>2. \A d \in AgentRuns : Stored(status', owner', d, obj'[d]) /\ Stored(status', owner', d, cache'[d])
  BY <1>1 DEF IInv
<1>3. ASSUME NEW d \in AgentRuns PROVE CacheInv(d)'
  <2>1. CacheInv(d) /\ cache'[d] = cache[d]
    BY DEF IInv
  <2>2. CASE d # c
    BY <1>1, <2>1, <2>2 DEF CacheInv, Store
  <2>3. CASE d = c
    <3>1. d \in current' => new = obj[c] /\ c \in current
      BY <2>3 DEF Store
    <3> QED
      BY <1>1, <2>1, <2>3, <3>1 DEF CacheInv
  <2> QED
    BY <2>2, <2>3
<1> QED
  BY <1>1, <1>2, <1>3

LEMMA EditInv ==
    ASSUME IInv, NEW c \in AgentRuns, NEW new \in Objects \cup {Gone}, Edit(c, new),
           Stored(status, owner, c, new), new # Gone => new.backend = obj[c].backend
    PROVE  IInv'
<1>1. /\ UNCHANGED <<status, owner, cache, queue, agentReady>>
      /\ obj[c] # Gone /\ Store(c, new)
  BY DEF Edit, cp
<1>2. /\ obj' \in [AgentRuns -> Objects \cup {Gone}]
      /\ current' \subseteq AgentRuns
      /\ obj'[c] = new
      /\ \A d \in AgentRuns : d # c => obj'[d] = obj[d]
      /\ \A d \in AgentRuns : Stored(status', owner', d, obj'[d]) /\ Stored(status', owner', d, cache'[d])
      /\ \A d \in AgentRuns : CacheInv(d)'
  BY <1>1, StoreFacts
<1>3. /\ worker' \in Workers
      /\ worker'.at = worker.at /\ worker'.run = worker.run /\ worker'.copy = worker.copy
      /\ worker'.then = worker.then
      /\ worker'.current => worker.current /\ worker.run # c
  BY TypeFacts DEF Edit, IInv, Workers
<1>4. WorkerOK(status', owner', obj', worker')
  <2> SUFFICES ASSUME worker'.at # "idle" PROVE WorkerOK(status', owner', obj', worker')
    BY DEF WorkerOK
  <2>1. worker.at # "idle"
    BY <1>3
  <2>2. Holds(worker')
    BY <1>3, <2>1, WorkerFacts DEF Holds
  <2>3. worker'.current => obj'[worker'.run] # Gone /\ Advances(obj'[worker'.run], worker'.copy)
    BY <1>2, <1>3, <2>1, WorkerFacts
  <2>4. worker'.at = "ttl" /\ obj'[worker'.run] # Gone => obj'[worker'.run].backend = worker'.copy.backend
    BY <1>1, <1>2, <1>3, <2>1, WorkerFacts
  <2> QED
    BY <1>1, <1>3, <2>1, <2>2, <2>3, <2>4, WorkerFacts DEF WorkerOK
<1>5. TypeOK'
  BY <1>1, <1>2, <1>3 DEF IInv, TypeOK
<1>6. Runs'
  BY <1>1 DEF IInv, Runs
<1> QED
  BY <1>2, <1>4, <1>5, <1>6 DEF IInv

\* An object marked as being deleted, or gone.
LEMMA DeletedFacts ==
    ASSUME IInv, NEW c \in AgentRuns, obj[c] # Gone
    PROVE  /\ Deleted(obj[c]) \in Objects \cup {Gone}
           /\ Stored(status, owner, c, Deleted(obj[c]))
           /\ Deleted(obj[c]) # Gone => /\ Deleted(obj[c]).backend = obj[c].backend
                                        /\ Deleted(obj[c]).phase = obj[c].phase
           /\ Recorded(c) => Deleted(obj[c]) # Gone
<1>1. obj[c] \in Objects /\ Stored(status, owner, c, obj[c])
  BY TypeFacts DEF IInv
<1>2. CASE obj[c].finalizer
  <2> DEFINE n == [obj[c] EXCEPT !.deleting = TRUE]
  <2>1. /\ n \in Objects /\ n.backend = obj[c].backend /\ n.phase = obj[c].phase
        /\ n.finished = obj[c].finished /\ n.label = obj[c].label
        /\ n.finalizer = obj[c].finalizer
    BY <1>1 DEF Objects
  <2>2. Deleted(obj[c]) = n
    BY <1>2 DEF Deleted
  <2> HIDE DEF n
  <2>3. n # Gone
    BY <2>1, GoneAssumption
  <2>4. Stored(status, owner, c, n)
    BY <1>1, <1>2, <2>1, SameReport DEF Stored
  <2> QED
    BY <2>1, <2>2, <2>3, <2>4
<1>3. CASE ~obj[c].finalizer
  BY <1>1, <1>3 DEF Deleted, Stored, Recorded
<1> QED
  BY <1>2, <1>3

LEMMA UsersInv ==
    ASSUME IInv, NEW c \in AgentRuns, Users(c)
    PROVE  IInv'
<1>1. ASSUME obj[c] # Gone, NEW n \in Objects, Edit(c, n), n.backend = obj[c].backend,
             n.phase = obj[c].phase, n.finished = obj[c].finished,
             n.finalizer = obj[c].finalizer
      PROVE  IInv'
  <2>1. Stored(status, owner, c, obj[c])
    BY DEF IInv
  <2>2. Stored(status, owner, c, n)
    BY <1>1, <2>1 DEF Stored, Faithful
  <2> QED
    BY <1>1, <2>2, EditInv
<1>2. ASSUME NEW b \in BOOLEAN, SetCancel(c, b) PROVE IInv'
  <2> DEFINE n == [obj[c] EXCEPT !.cancel = b]
  <2>1. obj[c] # Gone /\ Edit(c, n) /\ obj[c] \in Objects
    BY <1>2, TypeFacts DEF SetCancel, IInv
  <2>2. /\ n \in Objects /\ n.backend = obj[c].backend /\ n.phase = obj[c].phase
        /\ n.finished = obj[c].finished /\ n.finalizer = obj[c].finalizer
    BY <2>1 DEF Objects
  <2> HIDE DEF n
  <2> QED
    BY <1>1, <2>1, <2>2
<1>3. ASSUME NEW t \in Labels, Relabel(c, t) PROVE IInv'
  <2> DEFINE n == [obj[c] EXCEPT !.label = t]
  <2>1. obj[c] # Gone /\ Edit(c, n) /\ obj[c] \in Objects
    BY <1>3, TypeFacts DEF Relabel, IInv
  <2>2. /\ n \in Objects /\ n.backend = obj[c].backend /\ n.phase = obj[c].phase
        /\ n.finished = obj[c].finished /\ n.finalizer = obj[c].finalizer
    BY <2>1 DEF Objects
  <2> HIDE DEF n
  <2> QED
    BY <1>1, <2>1, <2>2
<1>4. CASE Delete(c)
  BY <1>4, DeletedFacts, EditInv DEF Delete
<1> QED
  BY <1>2, <1>3, <1>4 DEF Users

\* Steps that leave the worker and the objects alone.
LEMMA AroundInv ==
    ASSUME IInv, (\E c \in AgentRuns : Observe(c)) \/ AgentChanges \/ ControlPlaneStep
    PROVE  IInv'
<1>1. ASSUME NEW c \in AgentRuns, Observe(c) PROVE IInv'
  <2>1. UNCHANGED <<status, owner, obj, worker, agentReady>>
    BY <1>1 DEF Observe, cp
  <2>2. /\ cache'[c] = obj[c]
        /\ \A d \in AgentRuns : d # c => cache'[d] = cache[d]
        /\ current' = current \cup {c}
    BY <1>1 DEF Observe, IInv, TypeOK
  <2>3. TypeOK'
    BY <1>1, <2>1 DEF Observe, IInv, TypeOK
  <2>4. \A d \in AgentRuns : Stored(status', owner', d, obj'[d]) /\ Stored(status', owner', d, cache'[d])
    BY <2>1, <2>2 DEF IInv
  <2>5. \A d \in AgentRuns : CacheInv(d)'
    BY <2>1, <2>2 DEF IInv, CacheInv
  <2> QED
    BY <2>1, <2>3, <2>4, <2>5 DEF IInv, Runs
<1>2. CASE AgentChanges
  <2>1. UNCHANGED <<status, owner, obj, cache, current, worker>>
    BY <1>2 DEF AgentChanges, cp
  <2>2. Progress
    BY <1>2 DEF AgentChanges, Progress
  <2>3. queue' \subseteq AgentRuns /\ agentReady' \in BOOLEAN
    BY <1>2 DEF AgentChanges, runsForAgent, IInv, TypeOK
  <2> QED
    BY <2>1, <2>2, <2>3, WorkerStep DEF IInv, TypeOK
<1>3. CASE ControlPlaneStep
  <2>1. Progress /\ UNCHANGED <<obj, cache, current, queue, worker, agentReady>>
    BY <1>3 DEF ControlPlaneStep, Progress
  <2>2. WorkerOK(status', owner', obj, worker')
    <3>1. CASE worker.at = "idle"
      BY <2>1, <3>1 DEF WorkerOK
    <3>2. CASE worker.at # "idle"
      <4>1. /\ Faithful(status', owner', worker.run, worker.copy)
            /\ Released(status', worker.copy)
        BY <2>1, <3>2, StoredStay, WorkerFacts, ClaimsStay
      <4> QED
        BY <2>1, <3>2, <4>1, WorkerFacts DEF WorkerOK
    <3> QED
      BY <3>1, <3>2
  <2> QED
    BY <2>1, <2>2, WorkerStep DEF IInv, TypeOK
<1> QED
  BY <1>1, <1>2, <1>3

\* What WriteSucceeds stores: the copy, or nothing if it gives up the finalizer
\* of an object that is being deleted.
Outcome(o) == IF o.deleting /\ ~o.finalizer THEN Gone ELSE o

LEMMA OutcomeFacts ==
    ASSUME IInv, WriteSucceeds
    PROVE  LET c == worker.run
               o == worker.copy
           IN  /\ c \in AgentRuns /\ obj[c] # Gone /\ o \in Objects /\ o # Gone
               /\ Store(c, Outcome(o))
               /\ Outcome(o) \in {o, Gone}
               /\ Outcome(o) = Gone => o.deleting /\ ~o.finalizer
               /\ Stored(status, owner, c, Outcome(o))
               /\ Advances(obj[c], o)
<1> DEFINE c == worker.run
           o == worker.copy
<1>1. worker.at = "write" /\ worker.current /\ Store(c, Outcome(o))
  BY DEF WriteSucceeds, Outcome
<1>2. /\ c \in AgentRuns /\ obj[c] # Gone /\ o \in Objects
      /\ Advances(obj[c], o)
      /\ Faithful(status, owner, c, o) /\ Released(status, o)
  BY <1>1, WorkerFacts
<1>3. o # Gone
  BY <1>2, GoneAssumption
<1>4. Stored(status, owner, c, Outcome(o))
  BY <1>2 DEF Stored, Outcome, Released
<1> QED
  BY <1>1, <1>2, <1>3, <1>4 DEF Outcome

LEMMA WriteSucceedsInv ==
    ASSUME IInv, WriteSucceeds
    PROVE  IInv'
<1> DEFINE c == worker.run
           o == worker.copy
<1>1. /\ worker.at = "write" /\ worker.current
      /\ UNCHANGED <<status, owner, cache, agentReady>>
  BY DEF WriteSucceeds, cp
<1>2. /\ c \in AgentRuns /\ obj[c] # Gone /\ o \in Objects /\ o # Gone
      /\ Store(c, Outcome(o))
      /\ Outcome(o) \in {o, Gone}
      /\ Outcome(o) = Gone => o.deleting /\ ~o.finalizer
      /\ Stored(status, owner, c, Outcome(o))
      /\ Advances(obj[c], o)
  BY OutcomeFacts
<1>3. /\ obj' \in [AgentRuns -> Objects \cup {Gone}]
      /\ current' \subseteq AgentRuns
      /\ obj'[c] = Outcome(o)
      /\ \A d \in AgentRuns : Stored(status', owner', d, obj'[d]) /\ Stored(status', owner', d, cache'[d])
      /\ \A d \in AgentRuns : CacheInv(d)'
  <2>1. obj[c] # Gone /\ Outcome(o) # Gone /\ obj[c].backend # None => Outcome(o).backend = obj[c].backend
    BY <1>2 DEF Advances
  <2> HIDE DEF c, o
  <2> QED
    BY <1>1, <1>2, <2>1, StoreFacts
<1>4. /\ Faithful(status, owner, c, o) /\ Holds(worker) /\ worker \in Workers
  BY <1>1, WorkerFacts
<1>5. CASE worker.then = "ttl"
  <2> DEFINE x == [worker EXCEPT !.at = "ttl"]
  <2>1. worker' = x
    BY <1>5 DEF WriteSucceeds
  <2>2. /\ x \in Workers
        /\ x.at = "ttl" /\ x.run = c /\ x.copy = o /\ x.then = worker.then
        /\ x.current = worker.current
    BY <1>4 DEF Workers
  <2> HIDE DEF x
  <2>3. o.backend # None /\ isTerminal(o.phase) /\ o.finalizer
    BY <1>1, <1>4, <1>5 DEF Holds
  <2>4. obj'[c] = o
    BY <1>2, <1>3, <2>3
  <2>5. Holds(x)
    BY <2>2, <2>3 DEF Holds
  <2>6. Advances(o, o)
    BY RankType DEF Advances
  <2>7. Released(status, o)
    BY <2>3 DEF Released
  <2>8. WorkerOK(status', owner', obj', worker')
    BY <1>1, <1>2, <1>4, <2>1, <2>2, <2>4, <2>5, <2>6, <2>7 DEF WorkerOK
  <2>9. queue' = queue
    BY <1>5 DEF WriteSucceeds
  <2>10. TypeOK'
    BY <1>1, <1>3, <2>1, <2>2, <2>9 DEF IInv, TypeOK
  <2> QED
    BY <1>1, <1>3, <2>8, <2>10 DEF IInv, Runs
<1>6. CASE worker.then = "finalizer"
  <2> DEFINE n == [o EXCEPT !.finalizer = FALSE]
  <2>1. worker' = Write(worker, n, "end") /\ queue' = queue
    BY <1>6 DEF WriteSucceeds
  <2>2. /\ n \in Objects /\ n.backend = o.backend /\ n.phase = o.phase
        /\ n.finished = o.finished /\ n.deleting = o.deleting /\ n.label = o.label
    BY <1>2, FinalizerShape
  <2> HIDE DEF n
  <2>3. o.backend # None /\ isTerminal(o.phase) /\ o.finalizer /\ o.deleting
    BY <1>1, <1>4, <1>6 DEF Holds
  <2>4. obj'[c] = o
    BY <1>2, <1>3, <2>3
  <2>5. status[o.backend] \in Ended
    BY <1>4, <2>3, Projection DEF Faithful
  <2>6. Faithful(status, owner, c, n) /\ Released(status, n)
    BY <1>4, <2>2, <2>3, <2>5 DEF Faithful, Released
  <2>7. Advances(o, n)
    BY <2>2, RankType DEF Advances
  <2>8. worker' \in Workers /\ WorkerOK(status, owner, obj', worker')
    BY <1>2, <1>4, <2>1, <2>2, <2>4, <2>6, <2>7, WriteOK
  <2>9. TypeOK'
    BY <1>1, <1>3, <2>1, <2>8 DEF IInv, TypeOK
  <2> QED
    BY <1>1, <1>3, <2>8, <2>9 DEF IInv, Runs
<1>7. CASE worker.then \notin {"ttl", "finalizer"}
  <2>1. worker' = Idle /\ queue' \subseteq queue \cup {c}
    BY <1>7 DEF WriteSucceeds
  <2>2. worker' \in Workers /\ WorkerOK(status', owner', obj', worker')
    BY <2>1, IdleShape DEF WorkerOK
  <2>3. TypeOK'
    BY <1>1, <1>2, <1>3, <2>1, <2>2 DEF IInv, TypeOK
  <2> QED
    BY <1>1, <1>3, <2>2, <2>3 DEF IInv, Runs
<1> QED
  BY <1>5, <1>6, <1>7

LEMMA TTLInv ==
    ASSUME IInv, TTLKeeps \/ TTLDeletes
    PROVE  IInv'
<1> DEFINE c == worker.run
<1>1. c \in AgentRuns /\ worker.at = "ttl"
  BY WorkerFacts DEF TTLKeeps, TTLDeletes
<1>2. CASE TTLKeeps
  <2>1. Progress /\ UNCHANGED <<obj, cache, current, agentReady>> /\ worker' = Idle
    BY <1>2 DEF TTLKeeps, Progress, Environment
  <2>2. queue' \subseteq AgentRuns
    BY <1>1, <1>2 DEF TTLKeeps, IInv, TypeOK
  <2> QED
    BY <2>1, <2>2, EndStep
<1>3. CASE TTLDeletes
  <2>1. UNCHANGED <<status, owner, cache, queue, agentReady>> /\ worker' = Idle
    BY <1>3 DEF TTLDeletes, cp
  <2>2. CASE obj[c] = Gone
    <3>1. Progress /\ UNCHANGED <<obj, current>>
      BY <1>3, <2>2 DEF TTLDeletes, Progress
    <3> QED
      BY <2>1, <3>1, EndStep DEF IInv, TypeOK
  <2>3. CASE obj[c] # Gone
    <3>1. Store(c, Deleted(obj[c]))
      BY <1>3, <2>3 DEF TTLDeletes
    <3>2. /\ obj' \in [AgentRuns -> Objects \cup {Gone}]
          /\ current' \subseteq AgentRuns
          /\ \A d \in AgentRuns : /\ Stored(status', owner', d, obj'[d])
                                   /\ Stored(status', owner', d, cache'[d])
          /\ \A d \in AgentRuns : CacheInv(d)'
      BY <1>1, <2>1, <2>3, <3>1, DeletedFacts, StoreFacts
    <3>3. worker' \in Workers /\ WorkerOK(status', owner', obj', worker')
      BY <2>1, IdleShape DEF WorkerOK
    <3>4. TypeOK'
      BY <2>1, <3>2, <3>3 DEF IInv, TypeOK
    <3> QED
      BY <2>1, <3>2, <3>3, <3>4 DEF IInv, Runs
  <2> QED
    BY <2>2, <2>3
<1> QED
  BY <1>2, <1>3

LEMMA RestartInv ==
    ASSUME IInv, Restart
    PROVE  IInv'
<1>1. /\ UNCHANGED <<status, owner, obj, agentReady>>
      /\ worker' = Idle /\ cache' = obj /\ current' = AgentRuns
      /\ queue' \subseteq AgentRuns
  BY DEF Restart, cp
<1>2. worker' \in Workers /\ WorkerOK(status', owner', obj', worker')
  BY <1>1, IdleShape DEF WorkerOK
<1>3. TypeOK'
  BY <1>1, <1>2 DEF IInv, TypeOK
<1>4. \A c \in AgentRuns : CacheInv(c)'
  BY <1>1 DEF CacheInv
<1> QED
  BY <1>1, <1>2, <1>3, <1>4 DEF IInv, Runs

LEMMA InvStep == IInv /\ [Next]_vars => IInv'
<1> SUFFICES ASSUME IInv, [Next]_vars PROVE IInv'
  OBVIOUS
<1>1. ASSUME NEW c \in AgentRuns,
             Users(c) \/ Observe(c) \/ Reconcile(c) \/ ReferencesUnread(c)
      PROVE  IInv'
  BY <1>1, UsersInv, AroundInv, ReconcileInv
<1>2. CASE Calls
  BY <1>2, SubmitInv, PollInv, CancelInv, DeleteInv DEF Calls
<1>3. CASE WriteSucceeds
  BY <1>3, WriteSucceedsInv
<1>4. CASE TTLKeeps \/ TTLDeletes
  BY <1>4, TTLInv
<1>5. CASE Failures
  BY <1>5, FailuresInv
<1>6. CASE AgentChanges \/ ControlPlaneStep
  BY <1>6, AroundInv
<1>7. CASE Restart
  BY <1>7, RestartInv
<1>8. CASE UNCHANGED vars
  <2>1. UNCHANGED <<status, owner, obj, cache, current, queue, worker, agentReady>>
    BY <1>8 DEF vars, cp
  <2>2. Progress
    BY <2>1 DEF Progress, cp
  <2> QED
    BY <2>1, <2>2, WorkerStep DEF IInv, TypeOK
<1> QED
  BY <1>1, <1>2, <1>3, <1>4, <1>5, <1>6, <1>7, <1>8 DEF Next, System

\* Every copy of an AgentRun, however old, tells the truth about its run.
THEOREM InvariantHolds == Spec => []IInv
  BY InvInit, InvStep, PTL DEF Spec

-----------------------------------------------------------------------------
(***************************************************************************)
(* What follows from the invariant in every state.                         *)
(***************************************************************************)
\* The objects, their copies and the worker keep to their types; in particular
\* every word of the control plane is projected to a phase of the CRD.
THEOREM TypeCorrect == Spec => []TypeOK
<1>1. IInv => TypeOK
  BY DEF IInv
<1> QED
  BY <1>1, InvariantHolds, PTL

\* A recorded run is the one of the AgentRun's key, and a terminal phase is how
\* that run ended, for any number of AgentRuns that share keys and any
\* interleaving of edits, stale reads, lost answers, conflicts and restarts.
THEOREM TerminalStatusReal == Spec => []TerminalStatusIsReal
<1>1. IInv => TerminalStatusIsReal
  BY DEF IInv, Stored, Faithful, TerminalStatusIsReal, Recorded
<1> QED
  BY <1>1, InvariantHolds, PTL

-----------------------------------------------------------------------------
(***************************************************************************)
(* What a step may do to an object.                                        *)
(***************************************************************************)
\* The object keeps its report, and does not disappear if a run is recorded.
ReportKept(c) ==
    /\ obj'[c] # Gone => obj'[c].backend = obj[c].backend /\ obj'[c].phase = obj[c].phase
    /\ Recorded(c) => obj'[c] # Gone

LEMMA EditKeepsReport ==
    ASSUME IInv, NEW c \in AgentRuns, NEW d \in AgentRuns, Users(d), obj'[c] # obj[c]
    PROVE  ReportKept(c) /\ worker'.at = worker.at
<1>1. ASSUME NEW n, Edit(d, n)
      PROVE  /\ obj[d] # Gone /\ d = c /\ obj'[c] = n
             /\ worker'.at = worker.at
  <2>1. obj[d] # Gone /\ obj' = [obj EXCEPT ![d] = n]
    BY <1>1 DEF Edit, Store
  <2>2. d = c /\ obj'[c] = n
    BY <2>1 DEF IInv, TypeOK
  <2>3. worker'.at = worker.at
    BY <1>1, TypeFacts DEF Edit, IInv, Workers
  <2> QED
    BY <2>1, <2>2, <2>3
<1>2. ASSUME NEW b \in BOOLEAN, SetCancel(d, b)
      PROVE  ReportKept(c) /\ worker'.at = worker.at
  <2> DEFINE n == [obj[d] EXCEPT !.cancel = b]
  <2>1. obj[d] # Gone /\ Edit(d, n) /\ obj[d] \in Objects
    BY <1>2, TypeFacts DEF SetCancel, IInv
  <2>2. n \in Objects /\ n.backend = obj[d].backend /\ n.phase = obj[d].phase
    BY <2>1 DEF Objects
  <2> HIDE DEF n
  <2> QED
    BY <1>1, <2>1, <2>2, GoneAssumption DEF ReportKept
<1>3. ASSUME NEW t \in Labels, Relabel(d, t)
      PROVE  ReportKept(c) /\ worker'.at = worker.at
  <2> DEFINE n == [obj[d] EXCEPT !.label = t]
  <2>1. obj[d] # Gone /\ Edit(d, n) /\ obj[d] \in Objects
    BY <1>3, TypeFacts DEF Relabel, IInv
  <2>2. n \in Objects /\ n.backend = obj[d].backend /\ n.phase = obj[d].phase
    BY <2>1 DEF Objects
  <2> HIDE DEF n
  <2> QED
    BY <1>1, <2>1, <2>2, GoneAssumption DEF ReportKept
<1>4. CASE Delete(d)
  <2>1. Edit(d, Deleted(obj[d]))
    BY <1>4 DEF Delete
  <2>2. obj[c] # Gone /\ obj'[c] = Deleted(obj[c]) /\ worker'.at = worker.at
    BY <1>1, <2>1
  <2> QED
    BY <2>2, DeletedFacts DEF ReportKept
<1> QED
  BY <1>2, <1>3, <1>4 DEF Users

\* Only the users, a write of the worker and the end of a TTL change an object.
LEMMA ObjectChange ==
    ASSUME IInv, Next, NEW c \in AgentRuns, obj'[c] # obj[c]
    PROVE  \/ ReportKept(c) /\ worker'.at = worker.at
           \/ WriteSucceeds /\ c = worker.run
           \/ ReportKept(c) /\ TTLDeletes /\ c = worker.run
<1>1. ASSUME NEW d \in AgentRuns, Users(d)
      PROVE  ReportKept(c) /\ worker'.at = worker.at
  BY <1>1, EditKeepsReport
<1>2. CASE WriteSucceeds
  <2>1. obj' = [obj EXCEPT ![worker.run] = Outcome(worker.copy)]
    BY <1>2 DEF WriteSucceeds, Store, Outcome
  <2> QED
    BY <1>2, <2>1 DEF IInv, TypeOK
<1>3. CASE TTLDeletes
  <2>1. /\ obj[worker.run] # Gone
        /\ obj' = [obj EXCEPT ![worker.run] = Deleted(obj[worker.run])]
    BY <1>3 DEF TTLDeletes, Store
  <2>2. c = worker.run /\ obj'[c] = Deleted(obj[c]) /\ obj[c] # Gone
    BY <2>1 DEF IInv, TypeOK
  <2>3. ReportKept(c)
    BY <2>2, DeletedFacts DEF ReportKept
  <2> QED
    BY <1>3, <2>2, <2>3
<1>4. CASE ~(\E d \in AgentRuns : Users(d)) /\ ~WriteSucceeds /\ ~TTLDeletes
  <2>1. UNCHANGED obj
    BY <1>4 DEF Next, System, Observe, Reconcile, ReferencesUnread, Calls, reconcileSubmit, reconcilePoll, reconcileCancel,
                reconcileDelete, TTLKeeps, Failures, SubmitUnanswered, CallFails, DeleteCallFails,
                WriteFails, TTLFails, AgentChanges, ControlPlaneStep, Restart, Environment
  <2> QED
    BY <2>1
<1> QED
  BY <1>1, <1>2, <1>3, <1>4

\* The run of an AgentRun stays recorded, its phase only advances and a terminal
\* phase stays: the check of the resourceVersion makes up for every stale copy.
THEOREM ReportsAdvance == Spec => ReportsNeverGoBack
<1>1. IInv /\ [Next]_vars =>
          [\A c \in AgentRuns : Recorded(c) /\ obj'[c] # Gone =>
               /\ obj'[c].backend = obj[c].backend
               /\ Rank(obj'[c].phase) >= Rank(obj[c].phase)
               /\ isTerminal(obj[c].phase) => obj'[c].phase = obj[c].phase]_vars
  <2> SUFFICES ASSUME IInv, Next, NEW c \in AgentRuns, Recorded(c), obj'[c] # Gone
               PROVE  /\ obj'[c].backend = obj[c].backend
                      /\ Rank(obj'[c].phase) >= Rank(obj[c].phase)
                      /\ isTerminal(obj[c].phase) => obj'[c].phase = obj[c].phase
    OBVIOUS
  <2>1. CASE obj'[c] = obj[c]
    BY <2>1, RankType
  <2>2. CASE ReportKept(c)
    BY <2>2, RankType DEF ReportKept
  <2>3. CASE WriteSucceeds /\ c = worker.run
    <3>1. obj'[c] = Outcome(worker.copy)
      BY <2>3 DEF WriteSucceeds, Store, Outcome, IInv, TypeOK
    <3>2. Advances(obj[c], worker.copy) /\ obj'[c] = worker.copy
      BY <2>3, <3>1, OutcomeFacts
    <3> QED
      BY <3>2, RankType DEF Advances, Recorded
  <2> QED
    BY <2>1, <2>2, <2>3, ObjectChange
<1> QED
  BY <1>1, InvariantHolds, PTL DEF Spec, ReportsNeverGoBack

\* An AgentRun with a recorded run disappears only when that run has ended, or
\* its label names another tenant, although calls and writes may fail in between.
THEOREM FinalizerWorks == Spec => FinalizerStopsRun
<1>1. IInv /\ [Next]_vars =>
          [\A c \in AgentRuns : Recorded(c) /\ obj'[c] = Gone /\ obj[c].label \in {Home, NoTenant} =>
               status[obj[c].backend] \in ControlPlane!Terminal]_vars
  <2> SUFFICES ASSUME IInv, Next, NEW c \in AgentRuns, Recorded(c), obj'[c] = Gone,
                      obj[c].label \in {Home, NoTenant}
               PROVE  status[obj[c].backend] \in Ended
    BY DEF Ended
  <2>1. obj'[c] # obj[c] /\ ~ReportKept(c)
    BY DEF Recorded, ReportKept
  <2>2. WriteSucceeds /\ c = worker.run
    BY <2>1, ObjectChange
  <2>3. obj'[c] = Outcome(worker.copy)
    BY <2>2 DEF WriteSucceeds, Store, Outcome, IInv, TypeOK
  <2>4. /\ Advances(obj[c], worker.copy)
        /\ worker.copy.deleting /\ ~worker.copy.finalizer
    BY <2>2, <2>3, OutcomeFacts
  <2>5. worker.copy.backend = obj[c].backend /\ worker.copy.label = obj[c].label
    BY <2>4 DEF Advances, Recorded
  <2>6. Released(status, worker.copy)
    BY <2>2, WorkerFacts DEF WriteSucceeds
  <2> QED
    BY <2>4, <2>5, <2>6 DEF Released, Recorded
<1> QED
  BY <1>1, InvariantHolds, PTL DEF Spec, FinalizerStopsRun

\* reconcileTTL deletes only an AgentRun whose recorded run has ended, although
\* its copy may be old and Delete carries no version.
THEOREM TTLIsSafe == Spec => TTLDeletesOnlyFinished
<1>1. IInv /\ [Next]_vars =>
          [\A c \in AgentRuns :
               worker.at = "ttl" /\ worker'.at # "ttl" /\ obj'[c] # obj[c] =>
                   Recorded(c) /\ status[obj[c].backend] \in ControlPlane!Terminal]_vars
  <2> SUFFICES ASSUME IInv, Next, NEW c \in AgentRuns,
                      worker.at = "ttl", worker'.at # "ttl", obj'[c] # obj[c]
               PROVE  Recorded(c) /\ status[obj[c].backend] \in Ended
    BY DEF Ended
  <2>1. TTLDeletes /\ c = worker.run
    BY ObjectChange DEF WriteSucceeds
  <2>2. obj[c] # Gone
    BY <2>1 DEF TTLDeletes
  <2>3. /\ worker.copy.backend # None /\ isTerminal(worker.copy.phase)
        /\ obj[c].backend = worker.copy.backend
    BY <2>1, <2>2, WorkerFacts DEF Holds
  <2>4. worker.copy.phase = projectPhase(status[worker.copy.backend])
    BY <2>3, WorkerFacts DEF Faithful
  <2> QED
    BY <2>2, <2>3, <2>4, Projection DEF Recorded
<1> QED
  BY <1>1, InvariantHolds, PTL DEF Spec, TTLDeletesOnlyFinished

=============================================================================
