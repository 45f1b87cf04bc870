------------------------- MODULE DagValidationProofs -------------------------
(***************************************************************************)
(* What the search of validateDAG finds, for any workflow and any order in *)
(* which Go's map yields its nodes.                                        *)
(***************************************************************************)
EXTENDS DagValidation, WorkflowSubmissionProofs

-----------------------------------------------------------------------------
(***************************************************************************)
(* Workflows by the names of their nodes.                                  *)
(***************************************************************************)
\* x depends on a node in S.
DependsOn(dag, x, S) ==
    \E i \in DOMAIN dependencies(dag, x) : dependencies(dag, x)[i] \in S

\* No nodes of S wait for each other.
Acyclic(dag, S) == \A T \in SUBSET S : T # {} => \E x \in T : ~DependsOn(dag, x, T)

\* What a node of S depends on is in S.
Closed(dag, S) ==
    \A x \in S : \A i \in DOMAIN dependencies(dag, x) : dependencies(dag, x)[i] \in S

LEMMA DependenciesAre ==
    ASSUME NEW dag, WellFormed(dag), NEW p \in DOMAIN dag
    PROVE  dependencies(dag, dag[p].node) = dag[p].deps
<1>1. PICK q : q = CHOOSE r \in DOMAIN dag : dag[r].node = dag[p].node
  OBVIOUS
<1>2. q \in DOMAIN dag /\ dag[q].node = dag[p].node
  BY <1>1
<1>3. q = p
  BY <1>2 DEF WellFormed
<1> QED
  BY <1>1, <1>3 DEF dependencies

LEMMA DependenciesList ==
    ASSUME NEW dag, IsRequest(dag), WellFormed(dag), NEW x \in Known(dag)
    PROVE  /\ Len(dependencies(dag, x)) \in Nat
           /\ DOMAIN dependencies(dag, x) = 1 .. Len(dependencies(dag, x))
           /\ \A i \in DOMAIN dependencies(dag, x) : dependencies(dag, x)[i] \in Known(dag)
<1>1. PICK p \in DOMAIN dag : dag[p].node = x
  BY DEF Known
<1>2. dependencies(dag, x) = dag[p].deps
  BY <1>1, DependenciesAre
<1> QED
  BY <1>2 DEF IsRequest, WellFormed

LEMMA AcyclicIsWorkflow ==
    ASSUME NEW dag, WellFormed(dag), Acyclic(dag, Known(dag))
    PROVE  IsWorkflow(dag)
<1>1. \A p, q \in DOMAIN dag : p # q => dag[p].node # dag[q].node
  BY DEF WellFormed
<1>2. \A p \in DOMAIN dag : \A i \in DOMAIN dag[p].deps :
          \E q \in DOMAIN dag : dag[q].node = dag[p].deps[i]
  BY DEF WellFormed, Known
<1>3. ASSUME NEW S \in SUBSET DOMAIN dag, S # {}, \A p \in S : WaitsFor(dag, p) \cap S # {}
      PROVE  FALSE
  <2> PICK T : T = {dag[p].node : p \in S}
    OBVIOUS
  <2>1. T \in SUBSET Known(dag) /\ T # {}
    BY <1>3 DEF Known
  <2>2. PICK x \in T : ~DependsOn(dag, x, T)
    BY <2>1 DEF Acyclic
  <2>3. PICK p \in S : dag[p].node = x
    BY <2>2
  <2>4. PICK q \in S : q \in WaitsFor(dag, p)
    BY <1>3
  <2>5. PICK i \in DOMAIN dag[p].deps : dag[p].deps[i] = dag[q].node
    BY <2>4 DEF WaitsFor
  <2>6. dependencies(dag, x) = dag[p].deps
    BY <2>3, DependenciesAre
  <2>7. dag[q].node \in T
    OBVIOUS
  <2> QED
    BY <2>2, <2>5, <2>6, <2>7 DEF DependsOn
<1> QED
  BY <1>1, <1>2, <1>3 DEF IsWorkflow

LEMMA CycleIsNoWorkflow ==
    ASSUME NEW dag, WellFormed(dag), NEW T \in SUBSET Known(dag), T # {},
           \A x \in T : DependsOn(dag, x, T)
    PROVE  ~IsWorkflow(dag)
<1> PICK S : S = {p \in DOMAIN dag : dag[p].node \in T}
  OBVIOUS
<1>1. S \in SUBSET DOMAIN dag
  OBVIOUS
<1>2. S # {}
  BY DEF Known
<1>3. ASSUME NEW p \in S PROVE WaitsFor(dag, p) \cap S # {}
  <2>1. p \in DOMAIN dag /\ dag[p].node \in T
    OBVIOUS
  <2>2. dependencies(dag, dag[p].node) = dag[p].deps
    BY <2>1, DependenciesAre
  <2>3. PICK i \in DOMAIN dag[p].deps : dag[p].deps[i] \in T
    BY <2>1, <2>2 DEF DependsOn
  <2>4. PICK q \in DOMAIN dag : dag[q].node = dag[p].deps[i]
    BY <2>3 DEF Known
  <2> QED
    BY <2>3, <2>4 DEF WaitsFor
<1> QED
  BY <1>1, <1>2, <1>3 DEF IsWorkflow

\* A node is added behind everything that it depends on.
LEMMA AcyclicGrows ==
    ASSUME NEW dag, NEW S, Closed(dag, S), Acyclic(dag, S), NEW x, x \notin S,
           \A i \in DOMAIN dependencies(dag, x) : dependencies(dag, x)[i] \in S
    PROVE  Closed(dag, S \cup {x}) /\ Acyclic(dag, S \cup {x})
<1>1. Closed(dag, S \cup {x})
  BY DEF Closed
<1>2. ASSUME NEW T \in SUBSET (S \cup {x}), T # {}
      PROVE  \E y \in T : ~DependsOn(dag, y, T)
  <2>1. CASE T = {x}
    BY <2>1 DEF DependsOn
  <2>2. CASE T # {x}
    <3>1. T \ {x} \in SUBSET S /\ T \ {x} # {}
      BY <1>2, <2>2
    <3>2. PICK y \in T \ {x} : ~DependsOn(dag, y, T \ {x})
      BY <3>1 DEF Acyclic
    <3>3. ~DependsOn(dag, y, T)
      BY <3>1, <3>2 DEF DependsOn, Closed
    <3> QED
      BY <3>2, <3>3
  <2> QED
    BY <2>1, <2>2
<1> QED
  BY <1>1, <1>2 DEF Acyclic

-----------------------------------------------------------------------------
(***************************************************************************)
(* The search.                                                             *)
(***************************************************************************)
OnStack(st) == {st[k].node : k \in 1 .. Len(st)}

Frame(dag) == [node : Known(dag), next : Nat \ {0}]

\* No node is visited twice at a time, and each call was made by the one below.
Calls(dag, st) ==
    /\ st \in Seq(Frame(dag))
    /\ \A k, l \in 1 .. Len(st) : st[k].node = st[l].node => k = l
    /\ \A k \in 1 .. Len(st) - 1 : \E i \in DOMAIN dependencies(dag, st[k].node) :
           dependencies(dag, st[k].node)[i] = st[k + 1].node

\* What a call has passed is visited, or is what it is waiting for.
Passed(dag, st, vd) ==
    \A k \in 1 .. Len(st) : \A i \in DOMAIN dependencies(dag, st[k].node) :
        i < st[k].next => \/ dependencies(dag, st[k].node)[i] \in vd
                          \/ k < Len(st) /\ dependencies(dag, st[k].node)[i] = st[k + 1].node

\* The search under way: a visited node is behind all that it depends on, and
\* the others are on the stack or still to come.
Found(dag, td, st, vg, vd) ==
    /\ WellFormed(dag)
    /\ vd \subseteq Known(dag)
    /\ Known(dag) \subseteq td \cup vd \cup vg
    /\ td \subseteq Known(dag)
    /\ Closed(dag, vd) /\ Acyclic(dag, vd)
    /\ Calls(dag, st) /\ Passed(dag, st, vd)
    /\ vg = OnStack(st) /\ vg \cap vd = {}

LEMMA FrameFacts ==
    ASSUME NEW dag, NEW st, Calls(dag, st)
    PROVE  /\ Len(st) \in Nat /\ DOMAIN st = 1 .. Len(st)
           /\ \A k \in 1 .. Len(st) : /\ st[k] = [node |-> st[k].node, next |-> st[k].next]
                                      /\ st[k].node \in Known(dag) /\ st[k].next \in Nat \ {0}
<1> PICK F : F = Frame(dag)
  OBVIOUS
<1>1. st \in Seq(F)
  BY DEF Calls
<1>2. /\ Len(st) \in Nat /\ DOMAIN st = 1 .. Len(st)
      /\ \A k \in 1 .. Len(st) : st[k] \in F
  BY ONLY <1>1
<1>3. \A f \in F : f = [node |-> f.node, next |-> f.next] /\ f.node \in Known(dag) /\ f.next \in Nat \ {0}
  BY DEF Frame
<1> QED
  BY <1>2, <1>3

\* u is the stack st with the innermost loop one entry further.
Advanced(dag, st, u) ==
    /\ u \in Seq(Frame(dag)) /\ Len(u) = Len(st)
    /\ \A k \in 1 .. Len(st) : u[k].node = st[k].node
    /\ \A k \in 1 .. Len(st) : k # Len(st) => u[k].next = st[k].next
    /\ u[Len(st)].next = st[Len(st)].next + 1

LEMMA AdvanceFacts ==
    ASSUME NEW dag, NEW st, Calls(dag, st), st # << >>
    PROVE  Advanced(dag, st, [st EXCEPT ![Len(st)].next = @ + 1])
<1> PICK n : n = Len(st)
  OBVIOUS
<1> PICK u : u = [st EXCEPT ![n].next = @ + 1]
  OBVIOUS
<1> PICK F : F = Frame(dag)
  OBVIOUS
<1>0. st \in Seq(F)
  BY DEF Calls
<1>1. /\ n \in Nat \ {0} /\ DOMAIN st = 1 .. n
      /\ \A k \in 1 .. n : /\ st[k] = [node |-> st[k].node, next |-> st[k].next]
                           /\ st[k].node \in Known(dag) /\ st[k].next \in Nat \ {0}
  BY <1>0, FrameFacts
<1>2. PICK f : f = [st[n] EXCEPT !.next = @ + 1]
  OBVIOUS
<1>3. f.node = st[n].node /\ f.next = st[n].next + 1 /\ f \in F
  <2>1. n \in 1 .. n
    BY <1>1
  <2>2. PICK g : g = st[n]
    OBVIOUS
  <2>3. g = [node |-> g.node, next |-> g.next] /\ g.node \in Known(dag) /\ g.next \in Nat \ {0}
    BY <1>1, <2>1, <2>2
  <2>4. f = [node |-> g.node, next |-> g.next + 1]
    BY <1>2, <2>2, <2>3
  <2>5. f \in F
    BY <2>3, <2>4 DEF Frame
  <2> QED
    BY <2>2, <2>4, <2>5
<1>4. u = [st EXCEPT ![n] = f]
  BY <1>2
<1>5. u \in Seq(F) /\ Len(u) = n /\ u[n] = f /\ \A k \in 1 .. n : k # n => u[k] = st[k]
  <2>1. st \in [1 .. n -> F] /\ n \in 1 .. n /\ f \in F
    BY <1>0, <1>1, <1>3
  <2>2. u \in [1 .. n -> F] /\ u[n] = f /\ \A k \in 1 .. n : k # n => u[k] = st[k]
    BY ONLY <1>4, <2>1
  <2> QED
    BY ONLY <1>1, <2>2
<1>6. Advanced(dag, st, u)
  BY <1>3, <1>5 DEF Advanced
<1> QED
  BY <1>6

\* t is the stack u with one more call, on name.
Pushed(dag, u, name, t) ==
    /\ t \in Seq(Frame(dag)) /\ Len(u) \in Nat /\ Len(t) = Len(u) + 1
    /\ \A k \in 1 .. Len(u) : t[k] = u[k]
    /\ t[Len(u) + 1].node = name /\ t[Len(u) + 1].next = 1

LEMMA PushFacts ==
    ASSUME NEW dag, NEW u \in Seq(Frame(dag)), NEW name \in Known(dag)
    PROVE  Pushed(dag, u, name, Append(u, [node |-> name, next |-> 1]))
<1> PICK t : t = Append(u, [node |-> name, next |-> 1])
  OBVIOUS
<1> PICK F : F = Frame(dag)
  OBVIOUS
<1> PICK f : f = [node |-> name, next |-> 1]
  OBVIOUS
<1>1. f \in F
  BY DEF Frame
<1>2. u \in Seq(F) /\ t = Append(u, f)
  OBVIOUS
<1>3. /\ t \in Seq(F) /\ Len(u) \in Nat /\ Len(t) = Len(u) + 1
      /\ \A k \in 1 .. Len(u) : t[k] = u[k]
      /\ t[Len(u) + 1] = f
  BY ONLY <1>1, <1>2
<1>4. Pushed(dag, u, name, t)
  BY <1>3 DEF Pushed
<1> QED
  BY <1>4

\* t is the stack st without its last call.
Popped(dag, st, t) ==
    /\ t \in Seq(Frame(dag)) /\ Len(t) = Len(st) - 1
    /\ \A k \in 1 .. Len(st) - 1 : t[k] = st[k]

LEMMA PopFacts ==
    ASSUME NEW dag, NEW st, Calls(dag, st), st # << >>
    PROVE  Popped(dag, st, SubSeq(st, 1, Len(st) - 1))
<1> PICK n : n = Len(st)
  OBVIOUS
<1> PICK t : t = SubSeq(st, 1, n - 1)
  OBVIOUS
<1> PICK F : F = Frame(dag)
  OBVIOUS
<1>1. st \in Seq(F)
  BY DEF Calls
<1>2. n \in Nat \ {0}
  BY <1>1
<1>3. t \in Seq(F) /\ Len(t) = n - 1 /\ \A k \in 1 .. n - 1 : t[k] = st[k]
  BY ONLY <1>1, <1>2, n = Len(st), t = SubSeq(st, 1, n - 1)
<1>4. Popped(dag, st, t)
  BY <1>3 DEF Popped
<1> QED
  BY <1>4

\* A call on a node that is being visited closes a cycle: the calls from that
\* node on wait each for the next one.
LEMMA CycleOnStack ==
    ASSUME NEW dag, WellFormed(dag), NEW st, Calls(dag, st), NEW n, n = Len(st),
           NEW m \in 1 .. n,
           NEW i \in DOMAIN dependencies(dag, st[n].node),
           dependencies(dag, st[n].node)[i] = st[m].node
    PROVE  ~IsWorkflow(dag)
<1>1. n \in Nat /\ \A k \in 1 .. n : st[k].node \in Known(dag)
  BY FrameFacts
<1>2. PICK T : T = {st[k].node : k \in m .. n}
  OBVIOUS
<1>3. T \in SUBSET Known(dag)
  BY <1>1, <1>2
<1>4. st[m].node \in T
  BY <1>1, <1>2
<1>5. ASSUME NEW x \in T PROVE DependsOn(dag, x, T)
  <2>1. PICK k \in m .. n : st[k].node = x
    BY <1>2
  <2>2. CASE k = n
    BY <1>4, <2>1, <2>2 DEF DependsOn
  <2>3. CASE k # n
    <3>1. k \in 1 .. n - 1 /\ k + 1 \in m .. n
      BY <1>1, <2>3
    <3>2. PICK j \in DOMAIN dependencies(dag, x) : dependencies(dag, x)[j] = st[k + 1].node
      BY <2>1, <3>1 DEF Calls
    <3>3. st[k + 1].node \in T
      BY <1>2, <3>1
    <3> QED
      BY <3>2, <3>3 DEF DependsOn
  <2> QED
    BY <2>2, <2>3
<1> QED
  BY <1>3, <1>4, <1>5, CycleIsNoWorkflow

-----------------------------------------------------------------------------
(***************************************************************************)
(* One lemma per step of the search.                                       *)
(***************************************************************************)
LEMMA FoundStart ==
    ASSUME NEW dag, WellFormed(dag)
    PROVE  Found(dag, Known(dag), << >>, {}, {})
<1>1. Calls(dag, << >>) /\ Passed(dag, << >>, {}) /\ OnStack(<< >>) = {}
  BY DEF Calls, Passed, OnStack
<1>2. Closed(dag, {}) /\ Acyclic(dag, {})
  BY DEF Closed, Acyclic
<1> QED
  BY <1>1, <1>2 DEF Found

LEMMA FoundNodeSkipped ==
    ASSUME NEW dag, NEW td, NEW st, NEW vg, NEW vd, Found(dag, td, st, vg, vd), NEW name \in vd
    PROVE  Found(dag, td \ {name}, st, vg, vd)
BY DEF Found

LEMMA FoundNode ==
    ASSUME NEW dag, IsRequest(dag), NEW td, NEW st, NEW vg, NEW vd, Found(dag, td, st, vg, vd),
           st = << >>,
           NEW name \in td, name \notin vd, NEW t, Pushed(dag, st, name, t)
    PROVE  Found(dag, td \ {name}, t, vg \cup {name}, vd)
<1>1. name \in Known(dag) /\ st \in Seq(Frame(dag)) /\ Len(st) = 0
  BY DEF Found
<1>2. t \in Seq(Frame(dag)) /\ Len(t) = 1 /\ t[1].node = name /\ t[1].next = 1
  BY <1>1 DEF Pushed
<1>3. Calls(dag, t)
  BY <1>2 DEF Calls
<1>4. Passed(dag, t, vd)
  <2> SUFFICES ASSUME NEW i \in DOMAIN dependencies(dag, name) PROVE ~(i < 1)
    BY <1>2 DEF Passed
  <2> QED
    BY <1>1, DependenciesList DEF Found
<1>5. OnStack(t) = {name} /\ vg = {}
  BY <1>1, <1>2 DEF OnStack, Found
<1> QED
  BY <1>3, <1>4, <1>5 DEF Found

\* The innermost call passes a dependency that is visited.
LEMMA FoundDependencySkipped ==
    ASSUME NEW dag, IsRequest(dag), NEW td, NEW st, NEW vg, NEW vd, Found(dag, td, st, vg, vd),
           st # << >>, NEW n, n = Len(st),
           st[n].next <= Len(dependencies(dag, st[n].node)),
           dependencies(dag, st[n].node)[st[n].next] \in vd,
           NEW u, Advanced(dag, st, u)
    PROVE  Found(dag, td, u, vg, vd)
<1>0. Calls(dag, st) /\ Passed(dag, st, vd) /\ vg = OnStack(st) /\ WellFormed(dag)
  BY DEF Found
<1>1. /\ u \in Seq(Frame(dag)) /\ Len(u) = n
      /\ \A k \in 1 .. n : u[k].node = st[k].node
      /\ \A k \in 1 .. n : k # n => u[k].next = st[k].next
      /\ u[n].next = st[n].next + 1
  BY DEF Advanced
<1>2. n \in Nat \ {0} /\ \A k \in 1 .. n : st[k].node \in Known(dag) /\ st[k].next \in Nat
  <2>1. n \in Nat /\ \A k \in 1 .. n : st[k].node \in Known(dag) /\ st[k].next \in Nat
    BY <1>0, FrameFacts
  <2>2. n # 0
    BY <1>0 DEF Calls
  <2> QED
    BY <2>1, <2>2
<1>3. Calls(dag, u)
  <2>1. \A k, l \in 1 .. Len(u) : u[k].node = u[l].node => k = l
    BY <1>0, <1>1 DEF Calls
  <2>2. ASSUME NEW k \in 1 .. Len(u) - 1
        PROVE  \E i \in DOMAIN dependencies(dag, u[k].node) :
                   dependencies(dag, u[k].node)[i] = u[k + 1].node
    <3>1. k \in 1 .. n - 1 /\ k \in 1 .. n /\ k + 1 \in 1 .. n
      BY <1>1, <1>2
    <3>2. u[k].node = st[k].node /\ u[k + 1].node = st[k + 1].node
      BY <1>1, <3>1
    <3> QED
      BY <1>0, <3>1, <3>2 DEF Calls
  <2> QED
    BY <1>1, <2>1, <2>2 DEF Calls
<1>4. Passed(dag, u, vd)
  <2> SUFFICES ASSUME NEW k \in 1 .. Len(u), NEW i \in DOMAIN dependencies(dag, u[k].node),
                      i < u[k].next
               PROVE  \/ dependencies(dag, u[k].node)[i] \in vd
                      \/ k < Len(u) /\ dependencies(dag, u[k].node)[i] = u[k + 1].node
    BY DEF Passed
  <2>0. k \in 1 .. n /\ u[k].node = st[k].node
    BY <1>1
  <2>1. CASE k # n
    <3>1. k + 1 \in 1 .. n /\ u[k].next = st[k].next
      BY <1>1, <1>2, <2>0, <2>1
    <3>2. u[k + 1].node = st[k + 1].node
      BY <1>1, <3>1
    <3> QED
      BY <1>0, <1>1, <2>0, <3>1, <3>2 DEF Passed
  <2>2. CASE k = n /\ i = st[n].next
    BY <2>0, <2>2
  <2>3. CASE k = n /\ i # st[n].next
    <3>1. i \in Nat /\ st[n].next \in Nat
      BY <1>0, <1>2, <2>0, DependenciesList, SMTT(30)
    <3>2. i < st[n].next
      BY <1>1, <2>3, <3>1
    <3> QED
      BY <1>0, <1>2, <2>0, <2>3, <3>2 DEF Passed
  <2> QED
    BY <2>1, <2>2, <2>3
<1>5. OnStack(u) = OnStack(st)
  BY <1>1 DEF OnStack
<1> QED
  BY <1>0, <1>3, <1>4, <1>5 DEF Found

\* The innermost call makes another one, on a dependency not met before.
LEMMA FoundDependency ==
    ASSUME NEW dag, IsRequest(dag), NEW td, NEW st, NEW vg, NEW vd, Found(dag, td, st, vg, vd),
           st # << >>, NEW n, n = Len(st), NEW name,
           st[n].next <= Len(dependencies(dag, st[n].node)),
           name = dependencies(dag, st[n].node)[st[n].next], name \notin vg, name \notin vd,
           NEW u, Advanced(dag, st, u), NEW t, Pushed(dag, u, name, t)
    PROVE  Found(dag, td, t, vg \cup {name}, vd)
<1>0. Calls(dag, st) /\ Passed(dag, st, vd) /\ vg = OnStack(st) /\ WellFormed(dag)
  BY DEF Found
<1>1. n \in Nat \ {0} /\ \A k \in 1 .. n : st[k].node \in Known(dag) /\ st[k].next \in Nat \ {0}
  <2>1. n \in Nat /\ \A k \in 1 .. n : st[k].node \in Known(dag) /\ st[k].next \in Nat \ {0}
    BY <1>0, FrameFacts
  <2>2. n # 0
    BY <1>0 DEF Calls
  <2> QED
    BY <2>1, <2>2
<1>2. /\ t \in Seq(Frame(dag)) /\ Len(t) = n + 1
      /\ \A k \in 1 .. n : t[k].node = st[k].node
      /\ \A k \in 1 .. n : k # n => t[k].next = st[k].next
      /\ t[n].next = st[n].next + 1
      /\ t[n + 1].node = name /\ t[n + 1].next = 1
  <2>1. /\ t \in Seq(Frame(dag)) /\ Len(t) = n + 1 /\ \A k \in 1 .. n : t[k] = u[k]
        /\ t[n + 1].node = name /\ t[n + 1].next = 1
    BY DEF Pushed, Advanced
  <2>2. /\ \A k \in 1 .. n : u[k].node = st[k].node
        /\ \A k \in 1 .. n : k # n => u[k].next = st[k].next
        /\ u[n].next = st[n].next + 1
    BY DEF Advanced
  <2>3. n \in 1 .. n
    BY <1>1
  <2> QED
    BY <2>1, <2>2, <2>3
<1>3. st[n].next \in DOMAIN dependencies(dag, st[n].node)
  <2>1. n \in 1 .. n
    BY <1>1
  <2>2. /\ Len(dependencies(dag, st[n].node)) \in Nat
        /\ DOMAIN dependencies(dag, st[n].node) = 1 .. Len(dependencies(dag, st[n].node))
    BY <1>0, <1>1, <2>1, DependenciesList
  <2> QED
    BY <1>1, <2>1, <2>2
<1>4. name \in Known(dag)
  <2>1. n \in 1 .. n
    BY <1>1
  <2> QED
    BY <1>0, <1>1, <1>3, <2>1, DependenciesList
<1>5. Calls(dag, t)
  <2>1. ASSUME NEW k \in 1 .. n + 1, NEW l \in 1 .. n + 1, t[k].node = t[l].node
        PROVE  k = l
    <3>1. \A j \in 1 .. n : t[j].node # name
      BY <1>0, <1>2 DEF OnStack
    <3>2. CASE k \in 1 .. n /\ l \in 1 .. n
      BY <1>0, <1>2, <2>1, <3>2 DEF Calls
    <3>3. CASE k = n + 1 \/ l = n + 1
      <4>1. \A j \in 1 .. n + 1 : t[j].node = name => j = n + 1
        BY <1>1, <3>1
      <4> QED
        BY <1>2, <2>1, <3>3, <4>1
    <3> QED
      BY <1>1, <3>2, <3>3
  <2>2. ASSUME NEW k \in 1 .. n
        PROVE  \E i \in DOMAIN dependencies(dag, t[k].node) :
                   dependencies(dag, t[k].node)[i] = t[k + 1].node
    <3>1. CASE k = n
      BY <1>2, <1>3, <3>1
    <3>2. CASE k # n
      <4>1. k \in 1 .. n - 1 /\ k + 1 \in 1 .. n
        BY <1>1, <3>2
      <4>2. t[k].node = st[k].node /\ t[k + 1].node = st[k + 1].node
        BY <1>2, <4>1
      <4> QED
        BY <1>0, <4>1, <4>2 DEF Calls
    <3> QED
      BY <3>1, <3>2
  <2>3. Len(t) - 1 = n
    BY <1>1, <1>2
  <2> QED
    BY <1>2, <2>1, <2>2, <2>3 DEF Calls
<1>6. Passed(dag, t, vd)
  <2> SUFFICES ASSUME NEW k \in 1 .. Len(t), NEW i \in DOMAIN dependencies(dag, t[k].node),
                      i < t[k].next
               PROVE  \/ dependencies(dag, t[k].node)[i] \in vd
                      \/ k < Len(t) /\ dependencies(dag, t[k].node)[i] = t[k + 1].node
    BY DEF Passed
  <2>0. t[k].node \in Known(dag) /\ i \in Nat \ {0}
    <3>1. t[k].node \in Known(dag)
      BY <1>5, FrameFacts
    <3> QED
      BY <1>0, <3>1, DependenciesList
  <2>1. CASE k = n + 1
    BY <1>2, <2>0, <2>1
  <2>2. CASE k \in 1 .. n - 1
    <3>1. k \in 1 .. n /\ k # n /\ k + 1 \in 1 .. n /\ k < Len(t)
      BY <1>1, <1>2, <2>2, SMTT(30)
    <3>2. t[k].node = st[k].node /\ t[k].next = st[k].next /\ t[k + 1].node = st[k + 1].node
      BY <1>2, <3>1
    <3> QED
      BY <1>0, <3>1, <3>2 DEF Passed
  <2>3. CASE k = n /\ i = st[n].next
    <3>1. n < Len(t) /\ n \in 1 .. n
      BY <1>1, <1>2
    <3> QED
      BY <1>2, <2>3, <3>1
  <2>4. CASE k = n /\ i # st[n].next
    <3>1. n \in 1 .. n
      BY <1>1
    <3>2. i < st[n].next
      BY <1>1, <1>2, <2>0, <2>4, <3>1
    <3>3. t[n].node = st[n].node
      BY <1>2, <3>1
    <3> QED
      BY <1>0, <1>1, <2>4, <3>1, <3>2, <3>3 DEF Passed
  <2>5. k \in 1 .. n - 1 \/ k = n \/ k = n + 1
    BY <1>1, <1>2
  <2> QED
    BY <2>1, <2>2, <2>3, <2>4, <2>5
<1>7. OnStack(t) = OnStack(st) \cup {name}
  <2>1. \A k \in 1 .. n + 1 : k \in 1 .. n \/ k = n + 1
    BY <1>1
  <2>2. \A k \in 1 .. n : k \in 1 .. n + 1
    BY <1>1
  <2>3. n + 1 \in 1 .. n + 1
    BY <1>1
  <2> QED
    BY <1>2, <2>1, <2>2, <2>3 DEF OnStack
<1> QED
  BY <1>0, <1>5, <1>6, <1>7 DEF Found

\* The innermost call has passed all dependencies and returns.
LEMMA FoundReturn ==
    ASSUME NEW dag, IsRequest(dag), NEW td, NEW st, NEW vg, NEW vd, Found(dag, td, st, vg, vd),
           st # << >>, NEW n, n = Len(st), NEW name, name = st[n].node,
           st[n].next > Len(dependencies(dag, name)),
           NEW t, Popped(dag, st, t)
    PROVE  Found(dag, td, t, vg \ {name}, vd \cup {name})
<1>0. Calls(dag, st) /\ Passed(dag, st, vd) /\ vg = OnStack(st) /\ WellFormed(dag)
  BY DEF Found
<1>1. n \in Nat \ {0} /\ \A k \in 1 .. n : st[k].node \in Known(dag) /\ st[k].next \in Nat \ {0}
  <2>1. n \in Nat /\ \A k \in 1 .. n : st[k].node \in Known(dag) /\ st[k].next \in Nat \ {0}
    BY <1>0, FrameFacts
  <2>2. n # 0
    BY <1>0 DEF Calls
  <2> QED
    BY <2>1, <2>2
<1>2. t \in Seq(Frame(dag)) /\ Len(t) = n - 1 /\ \A k \in 1 .. n - 1 : t[k] = st[k]
  BY DEF Popped
<1>3. n \in 1 .. n /\ name \in Known(dag) /\ name \in vg /\ name \notin vd
  <2>1. n \in 1 .. n /\ name \in Known(dag)
    BY <1>1
  <2>2. name \in vg
    BY <1>0, <2>1 DEF OnStack
  <2> QED
    BY <2>1, <2>2 DEF Found
<1>4. \A i \in DOMAIN dependencies(dag, name) : dependencies(dag, name)[i] \in vd
  <2> TAKE i \in DOMAIN dependencies(dag, name)
  <2>1. i \in 1 .. Len(dependencies(dag, name)) /\ Len(dependencies(dag, name)) \in Nat
    BY <1>0, <1>3, DependenciesList
  <2>2. i < st[n].next /\ ~(n < n)
    BY <1>1, <1>3, <2>1
  <2> QED
    BY <1>0, <1>3, <2>2 DEF Passed
<1>5. Closed(dag, vd \cup {name}) /\ Acyclic(dag, vd \cup {name})
  BY <1>3, <1>4, AcyclicGrows DEF Found
<1>6. Calls(dag, t)
  <2>1. \A k \in 1 .. n - 1 : k \in 1 .. n
    BY <1>1
  <2>2. \A k, l \in 1 .. Len(t) : t[k].node = t[l].node => k = l
    BY <1>0, <1>2, <2>1 DEF Calls
  <2>3. ASSUME NEW k \in 1 .. Len(t) - 1
        PROVE  \E i \in DOMAIN dependencies(dag, t[k].node) :
                   dependencies(dag, t[k].node)[i] = t[k + 1].node
    <3>1. k \in 1 .. n - 1 /\ k + 1 \in 1 .. n - 1
      BY <1>1, <1>2
    <3>2. t[k] = st[k] /\ t[k + 1] = st[k + 1]
      BY <1>2, <3>1
    <3> QED
      BY <1>0, <3>1, <3>2 DEF Calls
  <2> QED
    BY <1>2, <2>2, <2>3 DEF Calls
<1>7. Passed(dag, t, vd \cup {name})
  <2> SUFFICES ASSUME NEW k \in 1 .. Len(t), NEW i \in DOMAIN dependencies(dag, t[k].node),
                      i < t[k].next
               PROVE  \/ dependencies(dag, t[k].node)[i] \in vd \cup {name}
                      \/ k < Len(t) /\ dependencies(dag, t[k].node)[i] = t[k + 1].node
    BY DEF Passed
  <2>1. k \in 1 .. n - 1 /\ k \in 1 .. n /\ t[k] = st[k]
    BY <1>1, <1>2
  <2>2. \/ dependencies(dag, t[k].node)[i] \in vd
        \/ dependencies(dag, t[k].node)[i] = st[k + 1].node
    BY <1>0, <2>1 DEF Passed
  <2>3. CASE k + 1 = n
    BY <2>2, <2>3
  <2>4. CASE k + 1 # n
    <3>1. k + 1 \in 1 .. n - 1 /\ k < Len(t)
      BY <1>1, <1>2, <2>1, <2>4
    <3> QED
      BY <1>2, <2>2, <3>1
  <2> QED
    BY <2>3, <2>4
<1>8. OnStack(t) = vg \ {name}
  <2>1. ASSUME NEW x \in OnStack(t) PROVE x \in vg \ {name}
    <3>1. PICK k \in 1 .. n - 1 : st[k].node = x
      BY <1>2 DEF OnStack
    <3>2. k \in 1 .. n /\ k # n
      BY <1>1
    <3>3. x # name
      BY <1>0, <1>3, <3>1, <3>2 DEF Calls
    <3> QED
      BY <1>0, <3>1, <3>2, <3>3 DEF OnStack
  <2>2. ASSUME NEW x \in vg \ {name} PROVE x \in OnStack(t)
    <3>1. PICK k \in 1 .. n : st[k].node = x
      BY <1>0 DEF OnStack
    <3>2. k \in 1 .. n - 1
      BY <1>1, <3>1
    <3> QED
      BY <1>2, <3>1, <3>2 DEF OnStack
  <2> QED
    BY <2>1, <2>2
<1> QED
  BY <1>0, <1>3, <1>5, <1>6, <1>7, <1>8 DEF Found

\* The calls under way are on different nodes.
LEMMA StackFits ==
    ASSUME NEW dag, IsRequest(dag), NEW st, Calls(dag, st)
    PROVE  Len(st) <= Len(dag)
<1> PICK m : m = Len(dag)
  OBVIOUS
<1> PICK n : n = Len(st)
  OBVIOUS
<1>1. n \in Nat /\ m \in Nat /\ DOMAIN dag = 1 .. m /\ \A k \in 1 .. n : st[k].node \in Known(dag)
  BY FrameFacts DEF IsRequest
<1> PICK g : g = [k \in 1 .. n |-> CHOOSE p \in 1 .. m : dag[p].node = st[k].node]
  OBVIOUS
<1>2. \A k \in 1 .. n : g[k] \in 1 .. m /\ dag[g[k]].node = st[k].node
  BY <1>1 DEF Known
<1>3. g \in Injection(1 .. n, 1 .. m)
  <2>1. g \in [1 .. n -> 1 .. m]
    BY <1>2
  <2>2. \A k, l \in 1 .. n : g[k] = g[l] => k = l
    BY <1>2 DEF Calls
  <2> QED
    BY <2>1, <2>2 DEF Injection, IsInjective
<1>4. IsFiniteSet(1 .. m) /\ Cardinality(1 .. m) = m /\ Cardinality(1 .. n) = n
  BY <1>1, IntervalCounts
<1> QED
  BY <1>3, <1>4, FS_Injection

LEMMA IllFormedIsNoWorkflow ==
    ASSUME NEW dag, ~WellFormed(dag)
    PROVE  ~IsWorkflow(dag)
BY DEF WellFormed, IsWorkflow, Known

LEMMA EmptyIsWorkflow == IsWorkflow(<< >>)
BY DEF IsWorkflow

-----------------------------------------------------------------------------
(***************************************************************************)
(* The invariant.                                                          *)
(***************************************************************************)
ValidationInv ==
    /\ Typed
    /\ verdict \in {"none", "searching", "valid", "invalid"}
    /\ verdict = "none" => stack = << >> /\ visiting = {} /\ visited = {}
    /\ verdict = "searching" => Found(nodes, todo, stack, visiting, visited)
    /\ verdict = "valid" => stack = << >> /\ IsWorkflow(nodes)
    /\ verdict = "invalid" => stack = << >> /\ ~IsWorkflow(nodes)

LEMMA ValidationStarts == ValidationInit => ValidationInv
BY TypedInit DEF ValidationInit, ValidationInv

LEMMA ValidateStep ==
    ASSUME ValidationInv, validateDAG
    PROVE  ValidationInv'
<1>1. /\ nodes' = nodes /\ stack' = stack /\ visiting' = visiting /\ visited' = visited
      /\ stack = << >> /\ visiting = {} /\ visited = {}
  BY DEF validateDAG, ValidationInv
<1>2. Typed'
  BY <1>1 DEF ValidationInv, Typed
<1>3. CASE nodes = << >> /\ verdict' = "valid"
  BY <1>1, <1>2, <1>3, EmptyIsWorkflow DEF ValidationInv
<1>4. CASE ~WellFormed(nodes) /\ verdict' = "invalid"
  <2>1. ~IsWorkflow(nodes)
    BY <1>4, IllFormedIsNoWorkflow
  <2> QED
    BY <1>1, <1>2, <1>4, <2>1 DEF ValidationInv
<1>5. CASE WellFormed(nodes) /\ verdict' = "searching" /\ todo' = Known(nodes)
  <2>1. Found(nodes, Known(nodes), << >>, {}, {})
    BY <1>5, FoundStart
  <2> QED
    BY <1>1, <1>2, <1>5, <2>1 DEF ValidationInv
<1> QED
  BY <1>3, <1>4, <1>5 DEF validateDAG

LEMMA VisitNodeStep ==
    ASSUME ValidationInv, VisitNode
    PROVE  ValidationInv'
<1>0. Typed /\ verdict = "searching" /\ Found(nodes, todo, stack, visiting, visited) /\ stack = << >>
  BY DEF VisitNode, ValidationInv
<1>1. IsRequest(nodes) /\ nodes' = nodes /\ Typed'
  BY <1>0, TypedIsRequest DEF VisitNode, Typed
<1>2. PICK name \in todo : todo' = todo \ {name} /\ visit(name, stack)
  BY DEF VisitNode
<1>3. visiting = {} /\ name \in Known(nodes) /\ stack \in Seq(Frame(nodes))
  BY <1>0 DEF Found, OnStack
<1>4. CASE name \in visited /\ stack' = stack /\ verdict' = verdict /\ visiting' = visiting /\ visited' = visited
  <2>1. Found(nodes, todo \ {name}, stack, visiting, visited)
    BY <1>0, <1>4, FoundNodeSkipped
  <2> QED
    BY <1>0, <1>1, <1>2, <1>4, <2>1 DEF ValidationInv
<1>5. CASE /\ name \notin visited /\ stack' = Append(stack, [node |-> name, next |-> 1])
           /\ visiting' = visiting \cup {name} /\ verdict' = verdict /\ visited' = visited
  <2>1. PICK t : t = Append(stack, [node |-> name, next |-> 1])
    OBVIOUS
  <2>2. Pushed(nodes, stack, name, t)
    BY <1>3, <2>1, PushFacts
  <2>3. Found(nodes, todo \ {name}, t, visiting \cup {name}, visited)
    BY <1>0, <1>1, <1>5, <2>2, FoundNode
  <2> QED
    BY <1>0, <1>1, <1>2, <1>5, <2>1, <2>3 DEF ValidationInv
<1> QED
  BY <1>2, <1>3, <1>4, <1>5 DEF visit

LEMMA VisitDependencyStep ==
    ASSUME ValidationInv, VisitDependency
    PROVE  ValidationInv'
<1>0. Typed /\ verdict = "searching" /\ Found(nodes, todo, stack, visiting, visited) /\ stack # << >>
  BY DEF VisitDependency, ValidationInv
<1>1. IsRequest(nodes) /\ nodes' = nodes /\ Typed' /\ todo' = todo
  BY <1>0, TypedIsRequest DEF VisitDependency, Typed
<1>2. PICK n : n = Len(stack)
  OBVIOUS
<1>3. PICK u : u = [stack EXCEPT ![Len(stack)].next = @ + 1]
  OBVIOUS
<1>4. PICK name : name = dependencies(nodes, stack[n].node)[stack[n].next]
  OBVIOUS
<1>5. stack[n].next <= Len(dependencies(nodes, stack[n].node)) /\ visit(name, u)
  BY <1>2, <1>3, <1>4 DEF VisitDependency
<1>6. Calls(nodes, stack) /\ visiting = OnStack(stack) /\ WellFormed(nodes)
  BY <1>0 DEF Found
<1>7. Advanced(nodes, stack, u)
  BY <1>0, <1>3, <1>6, AdvanceFacts
<1>8. n \in 1 .. n /\ stack[n].node \in Known(nodes) /\ stack[n].next \in Nat \ {0}
  <2>1. n \in Nat /\ \A k \in 1 .. n : stack[k].node \in Known(nodes) /\ stack[k].next \in Nat \ {0}
    BY <1>2, <1>6, FrameFacts
  <2>2. n # 0
    BY <1>0, <1>2, <1>6 DEF Calls
  <2> QED
    BY <2>1, <2>2
<1>9. stack[n].next \in DOMAIN dependencies(nodes, stack[n].node) /\ name \in Known(nodes)
  <2>1. stack[n].next \in DOMAIN dependencies(nodes, stack[n].node)
    BY <1>1, <1>5, <1>6, <1>8, DependenciesList
  <2> QED
    BY <1>1, <1>4, <1>6, <1>8, <2>1, DependenciesList
<1>10. CASE name \in visiting /\ verdict' = "invalid" /\ stack' = << >>
  <2>1. PICK m \in 1 .. n : stack[m].node = name
    BY <1>2, <1>6, <1>10 DEF OnStack
  <2>2. ~IsWorkflow(nodes)
    <3> PICK i : i = stack[n].next
      OBVIOUS
    <3>1. i \in DOMAIN dependencies(nodes, stack[n].node)
      BY <1>9
    <3>2. dependencies(nodes, stack[n].node)[i] = stack[m].node
      BY <1>4, <2>1
    <3> QED
      BY <1>2, <1>6, <3>1, <3>2, CycleOnStack
  <2> QED
    BY <1>1, <1>10, <2>2 DEF ValidationInv
<1>11. CASE /\ name \notin visiting /\ name \in visited /\ stack' = u
            /\ verdict' = verdict /\ visiting' = visiting /\ visited' = visited
  <2>1. Found(nodes, todo, u, visiting, visited)
    BY <1>0, <1>1, <1>2, <1>4, <1>5, <1>7, <1>11, FoundDependencySkipped
  <2> QED
    BY <1>0, <1>1, <1>11, <2>1 DEF ValidationInv
<1>12. CASE /\ name \notin visiting /\ name \notin visited
            /\ stack' = Append(u, [node |-> name, next |-> 1])
            /\ visiting' = visiting \cup {name} /\ verdict' = verdict /\ visited' = visited
  <2>1. PICK t : t = Append(u, [node |-> name, next |-> 1])
    OBVIOUS
  <2>2. Pushed(nodes, u, name, t)
    BY <1>7, <1>9, <2>1, PushFacts DEF Advanced
  <2>3. Found(nodes, todo, t, visiting \cup {name}, visited)
    BY <1>0, <1>1, <1>2, <1>4, <1>5, <1>7, <1>12, <2>2, FoundDependency
  <2> QED
    BY <1>0, <1>1, <1>12, <2>1, <2>3 DEF ValidationInv
<1> QED
  BY <1>5, <1>10, <1>11, <1>12 DEF visit

LEMMA ReturnStep ==
    ASSUME ValidationInv, Return
    PROVE  ValidationInv'
<1>0. Typed /\ verdict = "searching" /\ Found(nodes, todo, stack, visiting, visited) /\ stack # << >>
  BY DEF Return, ValidationInv
<1>1. IsRequest(nodes) /\ nodes' = nodes /\ Typed' /\ todo' = todo /\ verdict' = verdict
  BY <1>0, TypedIsRequest DEF Return, Typed
<1>2. PICK n : n = Len(stack)
  OBVIOUS
<1>3. PICK name : name = stack[n].node
  OBVIOUS
<1>4. PICK t : t = SubSeq(stack, 1, Len(stack) - 1)
  OBVIOUS
<1>5. /\ stack[n].next > Len(dependencies(nodes, name)) /\ stack' = t
      /\ visiting' = visiting \ {name} /\ visited' = visited \cup {name}
  BY <1>2, <1>3, <1>4 DEF Return
<1>6. Popped(nodes, stack, t)
  BY <1>0, <1>4, PopFacts DEF Found
<1>7. Found(nodes, todo, t, visiting \ {name}, visited \cup {name})
  BY <1>0, <1>1, <1>2, <1>3, <1>5, <1>6, FoundReturn
<1> QED
  BY <1>0, <1>1, <1>5, <1>7 DEF ValidationInv

LEMMA AcceptStep ==
    ASSUME ValidationInv, Accept
    PROVE  ValidationInv'
<1>0. Typed /\ Found(nodes, {}, << >>, visiting, visited) /\ stack = << >>
  BY DEF Accept, ValidationInv
<1>1. nodes' = nodes /\ Typed' /\ stack' = << >> /\ verdict' = "valid"
  BY <1>0 DEF Accept, Typed
<1>2. OnStack(<< >>) = {}
  BY DEF OnStack
<1>3. visited = Known(nodes)
  BY <1>0, <1>2 DEF Found
<1>4. IsWorkflow(nodes)
  BY <1>0, <1>3, AcyclicIsWorkflow DEF Found
<1> QED
  BY <1>1, <1>4 DEF ValidationInv

LEMMA WriteStep ==
    ASSUME ValidationInv, verdict = "none", Next, UNCHANGED search
    PROVE  ValidationInv'
<1>1. verdict' = verdict /\ stack' = stack /\ visiting' = visiting /\ visited' = visited
  BY DEF search
<1>2. Typed'
  BY TypedNext DEF ValidationInv
<1> QED
  BY <1>1, <1>2 DEF ValidationInv

LEMMA ValidationSteps == ValidationInv /\ [ValidationNext]_vars => ValidationInv'
<1> SUFFICES ASSUME ValidationInv, [ValidationNext]_vars PROVE ValidationInv'
  OBVIOUS
<1>1. CASE verdict = "none" /\ Next /\ UNCHANGED search
  BY <1>1, WriteStep
<1>2. CASE validateDAG
  BY <1>2, ValidateStep
<1>3. CASE VisitNode
  BY <1>3, VisitNodeStep
<1>4. CASE VisitDependency
  BY <1>4, VisitDependencyStep
<1>5. CASE Return
  BY <1>5, ReturnStep
<1>6. CASE Accept
  BY <1>6, AcceptStep
<1>7. CASE UNCHANGED vars
  <2>1. /\ nodes' = nodes /\ verdict' = verdict /\ todo' = todo
        /\ stack' = stack /\ visiting' = visiting /\ visited' = visited
    BY <1>7 DEF vars, search
  <2> QED
    BY <2>1 DEF ValidationInv, Typed
<1> QED
  BY <1>1, <1>2, <1>3, <1>4, <1>5, <1>6, <1>7 DEF ValidationNext, Search

LEMMA ValidationHolds == ValidationSpec => []ValidationInv
BY ValidationStarts, ValidationSteps, PTL DEF ValidationSpec

-----------------------------------------------------------------------------
(***************************************************************************)
(* What it gives.                                                          *)
(***************************************************************************)
\* validateDAG of the operator and _topological_order of the API give the same
\* verdict on every workflow of any size, whatever order Go's map iteration
\* takes.
THEOREM OperatorAndApiAgree == ValidationSpec => []OperatorAgreesWithApi
<1>1. ValidationInv => OperatorAgreesWithApi
  <2> SUFFICES ASSUME ValidationInv, verdict \in {"valid", "invalid"}
               PROVE  verdict = "valid" <=> _topological_order(nodes) # NoOrder
    BY DEF OperatorAgreesWithApi
  <2>1. verdict = "valid" <=> IsWorkflow(nodes)
    BY DEF ValidationInv
  <2>2. IsRequest(nodes)
    BY TypedIsRequest DEF ValidationInv
  <2>3. IsWorkflow(nodes) <=> _topological_order(nodes) # NoOrder
    BY <2>2, AcceptedIsWorkflow, WorkflowIsAccepted
  <2> QED
    BY <2>1, <2>3
<1> QED
  BY <1>1, ValidationHolds, PTL

\* visit never recurses deeper than the workflow has nodes, on cyclic workflows
\* too.
THEOREM RecursionBounded == ValidationSpec => []RecursionIsBounded
<1>1. ValidationInv => RecursionIsBounded
  <2> SUFFICES ASSUME ValidationInv PROVE Len(stack) <= Len(nodes)
    BY DEF RecursionIsBounded
  <2>1. IsRequest(nodes)
    BY TypedIsRequest DEF ValidationInv
  <2>2. CASE verdict = "searching"
    BY <2>1, <2>2, StackFits DEF ValidationInv, Found
  <2>3. CASE verdict # "searching"
    <3>1. stack = << >>
      BY <2>3 DEF ValidationInv
    <3>2. Len(nodes) \in Nat
      BY <2>1 DEF IsRequest
    <3> QED
      BY <3>1, <3>2
  <2> QED
    BY <2>2, <2>3
<1> QED
  BY <1>1, ValidationHolds, PTL

\* The search leaves the workflow alone: the operator's check is a behaviour of
\* WorkflowSubmission, so that what is proved there holds here as well.
THEOREM ValidationKeepsWorkflow == ValidationSpec => Spec
<1>1. ValidationInit => Init
  BY DEF ValidationInit
<1>2. [ValidationNext]_vars => [Next]_nodes
  BY DEF ValidationNext, Search, validateDAG, VisitNode, VisitDependency, Return, Accept, vars
<1> QED
  BY <1>1, <1>2, PTL DEF ValidationSpec, Spec

=============================================================================
