----------------------- MODULE DispatchService_proofs -----------------------
(***************************************************************************)
(* Theorems about DispatchService for every shape of task, every choice of *)
(* faults and any number of crashes: its invariants (Invariance), and that *)
(* a completed task left no command out, that the order of the plan        *)
(* reaches the device and that retries stay in their budget.               *)
(***************************************************************************)
EXTENDS DispatchService, FiniteSetTheorems, TLAPS

-----------------------------------------------------------------------------
(* Rows and queues in slice order.                                         *)

\* InOrder lists elements of its set: for every i below its cardinality some
\* element has exactly i elements before it.
LEMMA InOrderElements ==
  ASSUME NEW S \in SUBSET Nat, IsFiniteSet(S)
  PROVE  /\ Cardinality(S) \in Nat
         /\ \A i \in 1..Cardinality(S) : InOrder(S)[i] \in S
         /\ InOrder(S) \in Seq(S) /\ Len(InOrder(S)) = Cardinality(S)
<1> DEFINE Below(x) == {y \in S : y < x}
           n == Cardinality(S)
           T == 0..(n - 1)
           f == [x \in S |-> Cardinality(Below(x))]
<1>1. n \in Nat
  BY FS_CardinalityType
<1>2. ASSUME NEW x \in S
      PROVE  IsFiniteSet(Below(x)) /\ Cardinality(Below(x)) \in Nat
             /\ Cardinality(Below(x)) < n
  <2>1. Below(x) \in SUBSET S /\ x \notin Below(x)
    OBVIOUS
  <2>2. IsFiniteSet(Below(x)) /\ Cardinality(Below(x)) <= n /\ Cardinality(Below(x)) # n
    BY <2>1, FS_Subset
  <2>3. Cardinality(Below(x)) \in Nat
    BY <2>2, FS_CardinalityType
  <2> QED
    BY <1>1, <2>2, <2>3
<1>3. ASSUME NEW x \in S, NEW y \in S, x < y
      PROVE  Cardinality(Below(x)) < Cardinality(Below(y))
  <2>1. Below(x) \in SUBSET Below(y) /\ x \in Below(y) /\ x \notin Below(x)
    <3>1. x \in Nat /\ y \in Nat /\ \A z \in S : z \in Nat
      OBVIOUS
    <3>2. \A z \in S : z < x => z < y
      BY <1>3, <3>1
    <3>3. Below(x) \in SUBSET Below(y)
      BY <3>2
    <3>4. ~(x < x)
      BY <3>1
    <3> QED
      BY <1>3, <3>3, <3>4
  <2>2. /\ Cardinality(Below(x)) <= Cardinality(Below(y))
        /\ Cardinality(Below(x)) # Cardinality(Below(y))
    BY <1>2, <2>1, FS_Subset
  <2> QED
    BY <1>2, <2>2
<1>4. f \in [S -> T]
  BY <1>1, <1>2
<1>5. ASSUME NEW x \in S, NEW y \in S, f[x] = f[y] PROVE x = y
  <2>1. ~(x < y) /\ ~(y < x)
    BY <1>2, <1>3, <1>5
  <2> QED
    BY <2>1
<1>6. f \in Injection(S, T)
  BY <1>4, <1>5 DEF Injection, IsInjective
<1>7. IsFiniteSet(T) /\ Cardinality(T) = n
  <2>1. 0 \in Int /\ n - 1 \in Int
    BY <1>1
  <2>2. /\ IsFiniteSet(0..(n - 1))
        /\ Cardinality(0..(n - 1)) = IF 0 > n - 1 THEN 0 ELSE (n - 1) - 0 + 1
    BY <2>1, FS_Interval
  <2> HIDE DEF n
  <2>3. (IF 0 > n - 1 THEN 0 ELSE (n - 1) - 0 + 1) = n
    BY <1>1
  <2> QED
    BY <2>2, <2>3
<1>8. f \in Surjection(S, T)
  BY <1>6, <1>7, FS_Injection
<1>9. ASSUME NEW i \in 1..n PROVE InOrder(S)[i] \in S
  <2>1. i - 1 \in T
    BY <1>1
  <2>2. \E x \in S : f[x] = i - 1
    BY <1>8, <2>1 DEF Surjection
  <2>3. \E x \in S : Cardinality({y \in S : y < x}) = i - 1
    BY <2>2
  <2>4. InOrder(S)[i] = CHOOSE x \in S : Cardinality({y \in S : y < x}) = i - 1
    BY DEF InOrder
  <2> QED
    BY <2>3, <2>4
<1>10. InOrder(S) \in Seq(S) /\ Len(InOrder(S)) = n
  <2> DEFINE nth(i) == CHOOSE x \in S : Cardinality(Below(x)) = i - 1
  <2>1. InOrder(S) = [i \in 1..n |-> nth(i)]
    BY DEF InOrder
  <2> HIDE DEF nth
  <2>2. \A i \in 1..n : nth(i) \in S
    BY <1>9, <2>1
  <2> HIDE DEF n
  <2> QED
    BY <1>1, <2>1, <2>2
<1> QED
  BY <1>1, <1>9, <1>10

\* The rows of a set of commands or actions: rows of that kind, for its members.
LEMMA RowSeqRows ==
  ASSUME NEW S \in SUBSET Nat, IsFiniteSet(S),
         NEW kind \in {"cmd", "act", "task", "event"}
  PROVE  /\ RowSeq(kind, S) \in Seq(Rows)
         /\ Len(RowSeq(kind, S)) = Cardinality(S)
         /\ \A i \in 1..Cardinality(S) : \E x \in S : RowSeq(kind, S)[i] = Row(kind, x)
<1>1. Cardinality(S) \in Nat /\ \A i \in 1..Cardinality(S) : InOrder(S)[i] \in S
  BY InOrderElements
<1>2. \A x \in S : Row(kind, x) \in Rows
  BY DEF Row, Rows
<1>3. RowSeq(kind, S) = [i \in 1..Cardinality(S) |-> Row(kind, InOrder(S)[i])]
  BY DEF RowSeq
<1>4. \A i \in 1..Cardinality(S) : Row(kind, InOrder(S)[i]) \in Rows
  BY <1>1, <1>2
<1> HIDE DEF Row, Rows
<1>5. RowSeq(kind, S) \in Seq(Rows) /\ Len(RowSeq(kind, S)) = Cardinality(S)
  BY <1>1, <1>3, <1>4
<1> QED
  BY <1>1, <1>3, <1>5

\* The commands and the actions are finite sets of natural numbers.
LEMMA Shape ==
  /\ Actions \in SUBSET Nat /\ IsFiniteSet(Actions) /\ Actions # {}
  /\ Commands \in SUBSET Nat /\ IsFiniteSet(Commands)
  /\ \A c \in Commands : ActionOf[c] \in Actions /\ MaxRetries[c] \in Nat
  /\ \A a \in Actions : Policy[a] \in {"sequential", "parallel"}
<1>1. Actions \in SUBSET Nat /\ Actions # {} /\ NumActions \in Int /\ 1 \in Int
  BY ShapeAssumption DEF Actions
<1>2. IsFiniteSet(Actions)
  BY <1>1, FS_Interval DEF Actions
<1> QED
  BY <1>1, <1>2, ShapeAssumption

\* Subsets of either can be listed.
LEMMA RowsOfSubset ==
  ASSUME NEW kind \in {"cmd", "act", "task", "event"}, NEW S,
         S \in SUBSET Commands \/ S \in SUBSET Actions
  PROVE  /\ RowSeq(kind, S) \in Seq(Rows)
         /\ Len(RowSeq(kind, S)) = Cardinality(S) /\ Cardinality(S) \in Nat
         /\ \A i \in 1..Len(RowSeq(kind, S)) :
              \E x \in S : RowSeq(kind, S)[i] = Row(kind, x)
<1>1. S \in SUBSET Nat /\ IsFiniteSet(S)
  BY Shape, FS_Subset
<1>2. Cardinality(S) \in Nat
  BY <1>1, FS_CardinalityType
<1>3. /\ RowSeq(kind, S) \in Seq(Rows) /\ Len(RowSeq(kind, S)) = Cardinality(S)
      /\ \A i \in 1..Cardinality(S) : \E x \in S : RowSeq(kind, S)[i] = Row(kind, x)
  BY <1>1, RowSeqRows
<1> QED
  BY <1>2, <1>3

LEMMA QueueOfSubset ==
  ASSUME NEW S \in SUBSET Commands
  PROVE  /\ InOrder(S) \in Seq(Commands)
         /\ \A i \in 1..Len(InOrder(S)) : InOrder(S)[i] \in S
<1>1. S \in SUBSET Nat /\ IsFiniteSet(S)
  BY Shape, FS_Subset
<1>2. /\ Cardinality(S) \in Nat
      /\ \A i \in 1..Cardinality(S) : InOrder(S)[i] \in S
      /\ InOrder(S) \in Seq(S) /\ Len(InOrder(S)) = Cardinality(S)
  BY <1>1, InOrderElements
<1> QED
  BY <1>2

LEMMA RowFields ==
  ASSUME NEW k, NEW x, NEW l, NEW y
  PROVE  /\ Row(k, x).kind = k
         /\ Row(k, x) = Row(l, y) => k = l /\ x = y
<1>1. Row(k, x).kind = k /\ Row(k, x).id = x /\ Row(l, y).kind = l /\ Row(l, y).id = y
  BY DEF Row
<1> QED
  BY <1>1

\* A row of a concatenation is a row of its first or of its second part.
LEMMA Placed ==
  ASSUME NEW S, NEW s \in Seq(S), NEW t \in Seq(S)
  PROVE  /\ s \o t \in Seq(S) /\ Len(s \o t) = Len(s) + Len(t)
         /\ Len(s) \in Nat /\ Len(t) \in Nat
         /\ \A i \in 1..Len(s) : i \in 1..Len(s \o t) /\ (s \o t)[i] = s[i]
         /\ \A i \in 1..Len(s \o t) :
              \/ i \in 1..Len(s) /\ (s \o t)[i] = s[i]
              \/ /\ i > Len(s) /\ i - Len(s) \in 1..Len(t)
                 /\ (s \o t)[i] = t[i - Len(s)]
OBVIOUS

\* What persistOutcome writes: action rows only of actions that changed, the
\* action of the command before the others, an event only if the task changed.
LEMMA PersistRows ==
  ASSUME NEW c \in Commands, NEW t, NEW u
  PROVE  /\ Persist(c, t, u) \in Seq(Rows)
         /\ \A i \in 1..Len(Persist(c, t, u)) :
              /\ \A a \in Actions : Persist(c, t, u)[i] = Row("act", a) =>
                   /\ t.act[a] # u.act[a]
                   /\ a # ActionOf[c] /\ t.act[ActionOf[c]] # u.act[ActionOf[c]] =>
                        \E j \in 1..(i - 1) :
                          Persist(c, t, u)[j] = Row("act", ActionOf[c])
              /\ Persist(c, t, u)[i].kind = "event" => t.task # u.task
<1> DEFINE cmds == {d \in Commands : t.cmd[d] # u.cmd[d]}
           acts == {a \in Actions : t.act[a] # u.act[a]}
           b == ActionOf[c]
           C1 == RowSeq("cmd", cmds \cap {c})
           C2 == RowSeq("cmd", cmds \ {c})
           A1 == RowSeq("act", acts \cap {b})
           A2 == RowSeq("act", acts \ {b})
           E == IF t.task # u.task THEN <<Row("task", 0), Row("event", 0)>> ELSE <<>>
           X == C1 \o C2
           Y == X \o A1
           Z == Y \o A2
           P == Z \o E
<1>1. Persist(c, t, u) = P
  BY DEF Persist
<1>2. /\ C1 \in Seq(Rows) /\ C2 \in Seq(Rows) /\ A1 \in Seq(Rows) /\ A2 \in Seq(Rows)
      /\ \A i \in 1..Len(C1) : \E x \in Commands : C1[i] = Row("cmd", x)
      /\ \A i \in 1..Len(C2) : \E x \in Commands : C2[i] = Row("cmd", x)
      /\ \A i \in 1..Len(A1) : \E x \in acts \cap {b} : A1[i] = Row("act", x)
      /\ \A i \in 1..Len(A2) : \E x \in acts \ {b} : A2[i] = Row("act", x)
  <2>1. /\ cmds \cap {c} \in SUBSET Commands /\ cmds \ {c} \in SUBSET Commands
        /\ acts \cap {b} \in SUBSET Actions /\ acts \ {b} \in SUBSET Actions
    OBVIOUS
  <2> HIDE DEF cmds, acts, b
  <2>2. C1 \in Seq(Rows) /\ \A i \in 1..Len(C1) : \E x \in Commands : C1[i] = Row("cmd", x)
    BY <2>1, RowsOfSubset
  <2>3. C2 \in Seq(Rows) /\ \A i \in 1..Len(C2) : \E x \in Commands : C2[i] = Row("cmd", x)
    BY <2>1, RowsOfSubset
  <2>4. A1 \in Seq(Rows) /\ \A i \in 1..Len(A1) : \E x \in acts \cap {b} : A1[i] = Row("act", x)
    BY <2>1, RowsOfSubset
  <2>5. A2 \in Seq(Rows) /\ \A i \in 1..Len(A2) : \E x \in acts \ {b} : A2[i] = Row("act", x)
    BY <2>1, RowsOfSubset
  <2> QED
    BY <2>2, <2>3, <2>4, <2>5
<1>3. E \in Seq(Rows) /\ \A i \in 1..Len(E) :
        /\ E[i] = Row("task", 0) \/ E[i] = Row("event", 0)
        /\ t.task # u.task
  <2>1. Row("task", 0) \in Rows /\ Row("event", 0) \in Rows
    BY DEF Row, Rows
  <2> HIDE DEF Row, Rows
  <2> QED
    BY <2>1
<1>4. b \in acts => Len(A1) = 1 /\ A1[1] = Row("act", b)
  <2> SUFFICES ASSUME b \in acts PROVE Len(A1) = 1 /\ A1[1] = Row("act", b)
    OBVIOUS
  <2>1. acts \cap {b} = {b} /\ {b} \in SUBSET Actions
    OBVIOUS
  <2>2. Cardinality({b}) = 1
    BY FS_Singleton
  <2>3. A1 = RowSeq("act", {b})
    BY <2>1
  <2> HIDE DEF acts, b, A1
  <2>4. /\ Len(RowSeq("act", {b})) = Cardinality({b})
        /\ \A i \in 1..Len(RowSeq("act", {b})) :
             \E x \in {b} : RowSeq("act", {b})[i] = Row("act", x)
    BY <2>1, RowsOfSubset
  <2>5. Len(A1) = 1 /\ 1 \in 1..Len(A1)
    <3>1. Len(A1) = 1
      BY <2>2, <2>3, <2>4, Zenon
    <3> QED
      BY <3>1
  <2>6. \E x \in {b} : A1[1] = Row("act", x)
    BY <2>3, <2>4, <2>5, Zenon
  <2> QED
    BY <2>5, <2>6
<1> HIDE DEF C1, C2, A1, A2, E
<1>5. /\ X \in Seq(Rows) /\ \A i \in 1..Len(X) : \E x \in Commands : X[i] = Row("cmd", x)
  <2>1. /\ X \in Seq(Rows)
        /\ \A i \in 1..Len(X) :
              \/ i \in 1..Len(C1) /\ X[i] = C1[i]
              \/ i - Len(C1) \in 1..Len(C2) /\ X[i] = C2[i - Len(C1)]
    BY <1>2, Placed
  <2> HIDE DEF X, acts, b
  <2>2. ASSUME NEW i \in 1..Len(X) PROVE \E x \in Commands : X[i] = Row("cmd", x)
    <3>1. CASE i \in 1..Len(C1) /\ X[i] = C1[i]
      BY <1>2, <3>1
    <3>2. CASE i - Len(C1) \in 1..Len(C2) /\ X[i] = C2[i - Len(C1)]
      BY <1>2, <3>2
    <3> QED
      BY <2>1, <3>1, <3>2
  <2> QED
    BY <2>1, <2>2
<1> HIDE DEF X
<1>6. /\ Y \in Seq(Rows)
      /\ \A i \in 1..Len(Y) : \/ \E x \in Commands : Y[i] = Row("cmd", x)
                              \/ Y[i] = Row("act", b) /\ b \in acts
      /\ b \in acts => \E j \in 1..Len(Y) : Y[j] = Row("act", b)
  <2>1. /\ Y \in Seq(Rows) /\ Len(Y) = Len(X) + Len(A1)
        /\ Len(X) \in Nat /\ Len(A1) \in Nat
        /\ \A i \in 1..Len(Y) :
              \/ i \in 1..Len(X) /\ Y[i] = X[i]
              \/ /\ i > Len(X) /\ i - Len(X) \in 1..Len(A1)
                 /\ Y[i] = A1[i - Len(X)]
    BY <1>2, <1>5, Placed
  <2>2. b \in acts => Len(X) + 1 \in 1..Len(Y) /\ (Len(X) + 1) - Len(X) = 1
    BY <1>4, <2>1
  <2>3. b \in acts => Y[Len(X) + 1] = Row("act", b)
    <3>1. ~(Len(X) + 1 \in 1..Len(X))
      BY <2>1
    <3> QED
      BY <1>4, <2>1, <2>2, <3>1
  <2> HIDE DEF Y, acts, b
  <2>4. ASSUME NEW i \in 1..Len(Y)
        PROVE  \/ \E x \in Commands : Y[i] = Row("cmd", x)
               \/ Y[i] = Row("act", b) /\ b \in acts
    <3>1. CASE i \in 1..Len(X) /\ Y[i] = X[i]
      BY <1>5, <3>1
    <3>2. CASE i - Len(X) \in 1..Len(A1) /\ Y[i] = A1[i - Len(X)]
      <4>1. PICK x \in acts \cap {b} : A1[i - Len(X)] = Row("act", x)
        BY <1>2, <3>2
      <4> QED
        BY <3>2, <4>1
    <3> QED
      BY <2>1, <3>1, <3>2
  <2> QED
    BY <2>1, <2>2, <2>3, <2>4
<1> HIDE DEF Y
<1>7. /\ Z \in Seq(Rows) /\ Len(Z) \in Nat
      /\ \A i \in 1..Len(Z) :
           \/ \E x \in Commands : Z[i] = Row("cmd", x)
           \/ Z[i] = Row("act", b) /\ b \in acts
           \/ \E x \in acts \ {b} :
                /\ Z[i] = Row("act", x)
                /\ b \in acts => \E j \in 1..(i - 1) : Z[j] = Row("act", b)
  <2>1. /\ Z \in Seq(Rows) /\ Len(Z) = Len(Y) + Len(A2)
        /\ Len(Y) \in Nat /\ Len(A2) \in Nat
        /\ \A i \in 1..Len(Y) : Z[i] = Y[i]
        /\ \A i \in 1..Len(Z) :
              \/ i \in 1..Len(Y) /\ Z[i] = Y[i]
              \/ /\ i > Len(Y) /\ i - Len(Y) \in 1..Len(A2)
                 /\ Z[i] = A2[i - Len(Y)]
    BY <1>2, <1>6, Placed
  <2> HIDE DEF Z, acts, b
  <2>2. ASSUME NEW i \in 1..Len(Z), i > Len(Y), b \in acts
        PROVE  \E j \in 1..(i - 1) : Z[j] = Row("act", b)
    <3>1. PICK j \in 1..Len(Y) : Y[j] = Row("act", b)
      BY <1>6, <2>2
    <3>2. j \in 1..(i - 1) /\ Z[j] = Row("act", b)
      BY <2>1, <2>2, <3>1
    <3> QED
      BY <3>2
  <2>3. ASSUME NEW i \in 1..Len(Z)
        PROVE  \/ \E x \in Commands : Z[i] = Row("cmd", x)
               \/ Z[i] = Row("act", b) /\ b \in acts
               \/ \E x \in acts \ {b} :
                    /\ Z[i] = Row("act", x)
                    /\ b \in acts => \E j \in 1..(i - 1) : Z[j] = Row("act", b)
    <3>1. CASE i \in 1..Len(Y) /\ Z[i] = Y[i]
      BY <1>6, <3>1
    <3>2. CASE i > Len(Y) /\ i - Len(Y) \in 1..Len(A2) /\ Z[i] = A2[i - Len(Y)]
      <4>1. PICK x \in acts \ {b} : A2[i - Len(Y)] = Row("act", x)
        BY <1>2, <3>2
      <4> QED
        BY <2>2, <3>2, <4>1
    <3> QED
      BY <2>1, <3>1, <3>2
  <2> QED
    BY <2>1, <2>3
<1> HIDE DEF Z
<1>8. /\ P \in Seq(Rows)
      /\ \A i \in 1..Len(P) :
           \/ i \in 1..Len(Z) /\ P[i] = Z[i] /\ \A j \in 1..(i - 1) : P[j] = Z[j]
           \/ t.task # u.task /\ (P[i] = Row("task", 0) \/ P[i] = Row("event", 0))
  <2>1. /\ P \in Seq(Rows) /\ Len(P) = Len(Z) + Len(E)
        /\ Len(Z) \in Nat /\ Len(E) \in Nat
        /\ \A i \in 1..Len(Z) : P[i] = Z[i]
        /\ \A i \in 1..Len(P) :
              \/ i \in 1..Len(Z) /\ P[i] = Z[i]
              \/ /\ i > Len(Z) /\ i - Len(Z) \in 1..Len(E)
                 /\ P[i] = E[i - Len(Z)]
    BY <1>3, <1>7, Placed
  <2> HIDE DEF P
  <2>2. \A i \in 1..Len(Z) : \A j \in 1..(i - 1) : j \in 1..Len(Z)
    BY <2>1
  <2> QED
    BY <1>3, <2>1, <2>2
<1> HIDE DEF P, acts, b
<1>9. ASSUME NEW i \in 1..Len(P), NEW a \in Actions, P[i] = Row("act", a)
      PROVE  /\ a \in acts
             /\ a # b /\ b \in acts => \E j \in 1..(i - 1) : P[j] = Row("act", b)
  <2>1. /\ i \in 1..Len(Z) /\ Z[i] = Row("act", a)
        /\ \A j \in 1..(i - 1) : P[j] = Z[j]
    BY <1>8, <1>9, RowFields
  <2> QED
    BY <1>7, <2>1, RowFields
<1>10. ASSUME NEW i \in 1..Len(P), P[i].kind = "event" PROVE t.task # u.task
  <2>1. ~(t.task # u.task) => i \in 1..Len(Z) /\ P[i] = Z[i]
    BY <1>8
  <2>2. i \in 1..Len(Z) /\ P[i] = Z[i] => FALSE
    BY <1>7, <1>10, RowFields
  <2> QED
    BY <2>1, <2>2
<1>11. b \in Actions
  BY Shape DEF b
<1>12. \A a \in Actions : a \in acts <=> t.act[a] # u.act[a]
  BY DEF acts
<1> QED
  BY <1>1, <1>8, <1>9, <1>10, <1>11, <1>12 DEF b

-----------------------------------------------------------------------------
(* What the Dispatcher makes of a tree, told with the sets G and L of       *)
(* TreeTells.                                                               *)

\* The tree u that the Dispatcher makes of t for command c still tells the
\* truth, finishes the task if it changes its status, and starts an action only
\* by ending the running action of c.
Sound(t, u, c, G, L) ==
    /\ u \in Trees
    /\ TreeTells(u, G, L \cup GivenUpIn(u))
    /\ u.task # t.task => IsFinished(u)
    /\ \A a \in Actions : u.act[a] = "running" /\ t.act[a] # "running" =>
         t.act[ActionOf[c]] = "running" /\ u.act[ActionOf[c]] # "running"

\* No action is started.
Quiet(t, u) == \A a \in Actions : u.act[a] = "running" => t.act[a] = "running"

\* Everything that precedes a command to dispatch is in D.
NextInOrder(next, D) ==
    /\ next \subseteq Commands
    /\ \A e \in next, d \in Commands : Precedes(d, e) => d \in D

\* What was executed or given up stays so.
LEMMA TellsLater ==
  ASSUME NEW t, NEW G, NEW L, NEW G2, NEW L2, G \subseteq G2, L \subseteq L2,
         TreeTells(t, G, L)
  PROVE  TreeTells(t, G2, L2)
BY DEF TreeTells

LEMMA SetCmdFields ==
  ASSUME NEW t \in Trees, NEW c \in Commands, NEW s \in CommandStatus
  PROVE  /\ SetCmd(t, c, s) \in Trees
         /\ SetCmd(t, c, s).task = t.task
         /\ SetCmd(t, c, s).act = t.act
         /\ SetCmd(t, c, s).retries = t.retries
         /\ \A d \in Commands :
              SetCmd(t, c, s).cmd[d] = IF d = c THEN s ELSE t.cmd[d]
BY DEF SetCmd, Trees

LEMMA ResetFields ==
  ASSUME NEW t \in Trees, NEW c \in Commands
  PROVE  /\ Reset(t, c) \in Trees
         /\ Reset(t, c).task = t.task
         /\ Reset(t, c).act = t.act
         /\ \A d \in Commands :
              /\ Reset(t, c).cmd[d] = IF d = c THEN "pending" ELSE t.cmd[d]
              /\ Reset(t, c).retries[d] =
                   IF d = c THEN t.retries[d] + 1 ELSE t.retries[d]
<1>1. /\ t.cmd \in [Commands -> CommandStatus] /\ "pending" \in CommandStatus
      /\ t.retries \in [Commands -> Nat] /\ t.retries[c] + 1 \in Nat
  BY DEF Trees, CommandStatus
<1>2. Reset(t, c) = [t EXCEPT !.cmd = [t.cmd EXCEPT ![c] = "pending"],
                              !.retries = [t.retries EXCEPT ![c] = @ + 1]]
  BY DEF Reset, Trees
<1>3. /\ [t.cmd EXCEPT ![c] = "pending"] \in [Commands -> CommandStatus]
      /\ [t.retries EXCEPT ![c] = @ + 1] \in [Commands -> Nat]
  BY <1>1
<1>4. Reset(t, c) \in Trees
  BY <1>2, <1>3 DEF Trees
<1>5. /\ Reset(t, c).task = t.task /\ Reset(t, c).act = t.act
      /\ Reset(t, c).cmd = [t.cmd EXCEPT ![c] = "pending"]
      /\ Reset(t, c).retries = [t.retries EXCEPT ![c] = @ + 1]
  BY <1>2 DEF Trees
<1> QED
  BY <1>1, <1>4, <1>5

LEMMA BrokenFields ==
  ASSUME NEW t \in Trees, NEW a \in Actions
  PROVE  /\ Broken(t, a) \in Trees
         /\ Broken(t, a).task = "failed"
         /\ Broken(t, a).retries = t.retries
         /\ \A b \in Actions :
              Broken(t, a).act[b] = IF b = a THEN "failed"
                                    ELSE IF t.act[b] = "pending" THEN "cancelled"
                                    ELSE t.act[b]
         /\ \A c \in Commands :
              Broken(t, a).cmd[c] =
                IF t.cmd[c] = "pending"
                   /\ (ActionOf[c] = a \/ t.act[ActionOf[c]] = "pending")
                THEN "cancelled" ELSE t.cmd[c]
BY DEF Broken, Trees, TaskStatus, ActionStatus, CommandStatus

LEMMA CancelledFields ==
  ASSUME NEW t \in Trees
  PROVE  /\ Cancelled(t) \in Trees
         /\ Cancelled(t).task = "cancelled"
         /\ Cancelled(t).retries = t.retries
         /\ \A b \in Actions :
              Cancelled(t).act[b] = IF t.act[b] \in {"pending", "running"}
                                    THEN "cancelled" ELSE t.act[b]
         /\ \A c \in Commands :
              Cancelled(t).cmd[c] =
                IF t.cmd[c] = "pending"
                   /\ t.act[ActionOf[c]] \in {"pending", "running"}
                THEN "cancelled" ELSE t.cmd[c]
BY DEF Cancelled, Trees, TaskStatus, ActionStatus, CommandStatus

LEMMA AdvancedFields ==
  ASSUME NEW t \in Trees, NEW a \in Actions
  PROVE  /\ Advanced(t, a) \in Trees
         /\ Advanced(t, a).cmd = t.cmd
         /\ Advanced(t, a).retries = t.retries
         /\ Advanced(t, a).task =
              IF PendingActions(t) = {} THEN "completed" ELSE t.task
         /\ \A b \in Actions :
              Advanced(t, a).act[b] = IF b = a THEN "completed"
                                      ELSE IF b \in NextPendingAction(t)
                                      THEN "running" ELSE t.act[b]
BY DEF Advanced, Trees, TaskStatus, ActionStatus

\* applyCircuitBreaker.
LEMMA BrokenTells ==
  ASSUME NEW t \in Trees, NEW a \in Actions, NEW G, NEW L, TreeTells(t, G, L)
  PROVE  /\ Broken(t, a) \in Trees /\ IsFinished(Broken(t, a))
         /\ TreeTells(Broken(t, a), G, L \cup GivenUpIn(Broken(t, a)))
         /\ Quiet(t, Broken(t, a))
<1> DEFINE u == Broken(t, a)
<1>1. /\ u \in Trees /\ u.task = "failed" /\ u.retries = t.retries
      /\ \A b \in Actions :
           u.act[b] = IF b = a THEN "failed"
                      ELSE IF t.act[b] = "pending" THEN "cancelled" ELSE t.act[b]
      /\ \A d \in Commands :
           u.cmd[d] = IF t.cmd[d] = "pending"
                         /\ (ActionOf[d] = a \/ t.act[ActionOf[d]] = "pending")
                      THEN "cancelled" ELSE t.cmd[d]
  BY BrokenFields
<1> HIDE DEF u
<1>2. ASSUME NEW d \in Commands
      PROVE  /\ u.cmd[d] \in {"sending", "succeeded"} => d \in G
             /\ u.cmd[d] \in {"failed", "cancelled"} => d \in L \cup GivenUpIn(u)
             /\ u.cmd[d] # "timeout"
             /\ u.act[ActionOf[d]] \in {"completed", "failed", "cancelled"} =>
                  d \in G \cup (L \cup GivenUpIn(u))
             /\ u.retries[d] <= MaxRetries[d]
  <2>1. ActionOf[d] \in Actions /\ t.cmd[d] \in CommandStatus
    BY Shape DEF Trees
  <2>2. u.cmd[d] \in {"failed", "cancelled"} => d \in GivenUpIn(u)
    BY DEF GivenUpIn
  <2>3. /\ u.cmd[d] \in {"sending", "succeeded"} => d \in G
        /\ u.cmd[d] # "timeout"
        /\ u.retries[d] <= MaxRetries[d]
    BY <1>1 DEF TreeTells
  <2>4. ASSUME u.act[ActionOf[d]] \in {"completed", "failed", "cancelled"}
        PROVE  d \in G \cup (L \cup GivenUpIn(u))
    <3>1. CASE u.cmd[d] # "pending"
      <4>1. u.cmd[d] \in CommandStatus
        BY <1>1 DEF Trees
      <4> QED
        BY <2>2, <2>3, <3>1, <4>1 DEF CommandStatus
    <3>2. CASE u.cmd[d] = "pending"
      <4>1. ActionOf[d] # a /\ t.act[ActionOf[d]] # "pending"
        BY <1>1, <3>2
      <4>2. t.act[ActionOf[d]] \in {"completed", "failed", "cancelled"}
        BY <1>1, <2>1, <2>4, <4>1
      <4> QED
        BY <4>2 DEF TreeTells
    <3> QED
      BY <3>1, <3>2
  <2> QED
    BY <2>2, <2>3, <2>4
<1>3. \A b, e \in Actions : u.act[b] = "running" /\ u.act[e] = "running" => b = e
  BY <1>1 DEF TreeTells
<1>4. TreeTells(u, G, L \cup GivenUpIn(u))
  BY <1>1, <1>2, <1>3 DEF TreeTells
<1>5. Quiet(t, u)
  BY <1>1 DEF Quiet
<1> QED
  BY <1>1, <1>4, <1>5 DEF IsFinished, u

\* The circuit breaker after command c failed.
LEMMA BreakSound ==
  ASSUME NEW t \in Trees, NEW c \in Commands, NEW G, NEW L, TreeTells(t, G, L),
         OnFailure(t, c).ok
  PROVE  /\ Sound(t, OnFailure(t, c).tree, c, G, L)
         /\ Quiet(t, OnFailure(t, c).tree)
         /\ OnFailure(t, c).next = {}
<1> DEFINE a == ActionOf[c]
           v == SetCmd(t, c, "failed")
           u == Broken(v, a)
<1>1. a \in Actions /\ "failed" \in CommandStatus
  BY Shape DEF CommandStatus
<1>2. /\ v \in Trees /\ v.task = t.task /\ v.act = t.act /\ v.retries = t.retries
      /\ \A d \in Commands : v.cmd[d] = IF d = c THEN "failed" ELSE t.cmd[d]
  BY <1>1, SetCmdFields
<1>3. OnFailure(t, c).tree = u /\ OnFailure(t, c).next = {}
  BY DEF OnFailure, CircuitBreak, Outcome, Error
<1>4. u.cmd[c] = "failed"
  BY <1>1, <1>2, BrokenFields
<1> HIDE DEF v
<1>5. TreeTells(v, G, L \cup {c})
  BY <1>2 DEF TreeTells
<1>6. /\ u \in Trees /\ IsFinished(u) /\ Quiet(v, u)
      /\ TreeTells(u, G, (L \cup {c}) \cup GivenUpIn(u))
  BY <1>1, <1>2, <1>5, BrokenTells
<1> HIDE DEF u
<1>7. c \in GivenUpIn(u)
  BY <1>4 DEF GivenUpIn
<1>8. (L \cup {c}) \cup GivenUpIn(u) = L \cup GivenUpIn(u)
  BY <1>7
<1>9. TreeTells(u, G, L \cup GivenUpIn(u))
  BY <1>6, <1>8
<1> QED
  BY <1>2, <1>3, <1>6, <1>9 DEF Sound, Quiet

\* A command in flight that timed out: a retry, or the circuit breaker.
LEMMA TimeoutSound ==
  ASSUME NEW t \in Trees, NEW c \in Commands, NEW G, NEW L, TreeTells(t, G, L),
         t.cmd[c] = "sending", OnTimeout(t, c).ok,
         \A d \in Commands : Precedes(d, c) => d \in G \cup L
  PROVE  /\ Sound(t, OnTimeout(t, c).tree, c, G, L)
         /\ Quiet(t, OnTimeout(t, c).tree)
         /\ NextInOrder(OnTimeout(t, c).next, G \cup L)
<1>1. CASE CanRetry(t, c)
  <2> DEFINE u == Reset(t, c)
  <2>1. OnTimeout(t, c).tree = u /\ OnTimeout(t, c).next = {c}
    BY <1>1 DEF OnTimeout, Outcome
  <2>2. /\ u \in Trees /\ u.task = t.task /\ u.act = t.act
        /\ \A d \in Commands :
             /\ u.cmd[d] = IF d = c THEN "pending" ELSE t.cmd[d]
             /\ u.retries[d] = IF d = c THEN t.retries[d] + 1 ELSE t.retries[d]
    BY ResetFields
  <2> HIDE DEF u
  <2>3. t.retries[c] + 1 <= MaxRetries[c]
    BY <1>1, Shape DEF CanRetry, Trees
  <2>4. TreeTells(u, G, L)
    BY <2>2, <2>3 DEF TreeTells
  <2>5. TreeTells(u, G, L \cup GivenUpIn(u))
    BY <2>4, TellsLater
  <2> QED
    BY <2>1, <2>2, <2>5 DEF Sound, Quiet, NextInOrder
<1>2. CASE ~CanRetry(t, c)
  <2>1. OnTimeout(t, c) = OnFailure(t, c)
    BY <1>2 DEF OnTimeout
  <2>2. /\ Sound(t, OnFailure(t, c).tree, c, G, L)
        /\ Quiet(t, OnFailure(t, c).tree) /\ OnFailure(t, c).next = {}
    BY <2>1, BreakSound
  <2> QED
    BY <2>1, <2>2 DEF NextInOrder
<1> QED
  BY <1>1, <1>2

\* Dispatcher.Cancel.
LEMMA CancelSound ==
  ASSUME NEW t \in Trees, NEW G, NEW L, TreeTells(t, G, L)
  PROVE  /\ Cancelled(t) \in Trees /\ IsFinished(Cancelled(t))
         /\ TreeTells(Cancelled(t), G, L \cup GivenUpIn(Cancelled(t)))
         /\ \A a \in Actions : Cancelled(t).act[a] # "running"
<1> DEFINE u == Cancelled(t)
<1>1. /\ u \in Trees /\ u.task = "cancelled" /\ u.retries = t.retries
      /\ \A b \in Actions : u.act[b] = IF t.act[b] \in {"pending", "running"}
                                       THEN "cancelled" ELSE t.act[b]
      /\ \A d \in Commands :
           u.cmd[d] = IF t.cmd[d] = "pending"
                         /\ t.act[ActionOf[d]] \in {"pending", "running"}
                      THEN "cancelled" ELSE t.cmd[d]
  BY CancelledFields
<1> HIDE DEF u
<1>2. \A a \in Actions : u.act[a] # "running"
  BY <1>1
<1>3. ASSUME NEW d \in Commands
      PROVE  /\ u.cmd[d] \in {"sending", "succeeded"} => d \in G
             /\ u.cmd[d] \in {"failed", "cancelled"} => d \in L \cup GivenUpIn(u)
             /\ u.cmd[d] # "timeout"
             /\ u.act[ActionOf[d]] \in {"completed", "failed", "cancelled"} =>
                  d \in G \cup (L \cup GivenUpIn(u))
             /\ u.retries[d] <= MaxRetries[d]
  <2>1. ActionOf[d] \in Actions /\ t.cmd[d] \in CommandStatus
        /\ t.act[ActionOf[d]] \in ActionStatus
    BY Shape DEF Trees
  <2>2. u.cmd[d] \in {"failed", "cancelled"} => d \in GivenUpIn(u)
    BY DEF GivenUpIn
  <2>3. /\ u.cmd[d] \in {"sending", "succeeded"} => d \in G
        /\ u.cmd[d] # "timeout"
        /\ u.retries[d] <= MaxRetries[d]
    BY <1>1 DEF TreeTells
  <2>4. ASSUME u.act[ActionOf[d]] \in {"completed", "failed", "cancelled"}
        PROVE  d \in G \cup (L \cup GivenUpIn(u))
    <3>1. CASE t.act[ActionOf[d]] \in {"pending", "running"}
      <4>1. u.cmd[d] \in CommandStatus /\ u.cmd[d] # "pending"
        BY <1>1, <2>1, <3>1 DEF CommandStatus
      <4> QED
        BY <2>2, <2>3, <4>1 DEF CommandStatus
    <3>2. CASE t.act[ActionOf[d]] \in {"completed", "failed", "cancelled"}
      BY <3>2 DEF TreeTells
    <3> QED
      BY <2>1, <3>1, <3>2 DEF ActionStatus
  <2> QED
    BY <2>2, <2>3, <2>4
<1>4. TreeTells(u, G, L \cup GivenUpIn(u))
  BY <1>1, <1>2, <1>3 DEF TreeTells
<1> QED
  BY <1>1, <1>2, <1>4 DEF IsFinished, u

\* CommandsToDispatch of an action before which everything is settled.
LEMMA DispatchInOrder ==
  ASSUME NEW t \in Trees, NEW a \in Actions, NEW G, NEW L, TreeTells(t, G, L),
         \A d \in Commands : ActionOf[d] < a => d \in G \cup L
  PROVE  NextInOrder(CommandsToDispatch(t, a), G \cup L)
<1>1. CommandsToDispatch(t, a) \subseteq PendingOf(t, a)
  BY DEF CommandsToDispatch
<1>2. PendingOf(t, a) \subseteq Commands
  BY DEF PendingOf, CommandsOf
<1>3. ASSUME NEW e \in CommandsToDispatch(t, a), NEW d \in Commands, Precedes(d, e)
      PROVE  d \in G \cup L
  <2>1. ActionOf[e] = a /\ e \in Commands
    BY <1>1 DEF PendingOf, CommandsOf
  <2>2. CASE ActionOf[d] < a
    BY <2>2
  <2>3. CASE ActionOf[d] = a /\ Policy[a] = "sequential" /\ d < e
    <3>1. \A x \in PendingOf(t, a) : e <= x
      BY <2>3 DEF CommandsToDispatch
    <3>2. e \in Nat /\ d \in Nat
      BY <2>1, Shape
    <3>3. d \notin PendingOf(t, a)
      BY <2>3, <3>1, <3>2
    <3>4. t.cmd[d] # "pending" /\ t.cmd[d] \in CommandStatus
      BY <2>3, <3>3 DEF PendingOf, CommandsOf, Trees
    <3> QED
      BY <3>4 DEF TreeTells, CommandStatus
  <2> QED
    BY <1>3, <2>1, <2>2, <2>3 DEF Precedes
<1> QED
  BY <1>1, <1>2, <1>3 DEF NextInOrder

\* The next pending action: nothing before it is pending, and it is unique.
LEMMA NextPending ==
  ASSUME NEW t \in Trees, NEW b \in NextPendingAction(t)
  PROVE  /\ b \in Actions /\ t.act[b] = "pending"
         /\ \A a \in Actions : a < b => t.act[a] # "pending"
         /\ \A e \in NextPendingAction(t) : e = b
<1>1. /\ b \in Actions /\ t.act[b] = "pending"
      /\ \A a \in Actions : t.act[a] = "pending" => b <= a
  BY DEF NextPendingAction, PendingActions
<1>2. \A e \in NextPendingAction(t) : e \in Actions /\ e <= b /\ b <= e
  BY <1>1 DEF NextPendingAction, PendingActions
<1>3. \A a \in Actions : a \in Nat
  BY Shape
<1> QED
  BY <1>1, <1>2, <1>3

\* Action.Complete of a running action whose commands are all settled, then
\* the start of the next action or the end of the task.
LEMMA AdvancedTells ==
  ASSUME NEW t \in Trees, NEW a \in Actions, NEW G, NEW L, TreeTells(t, G, L),
         t.act[a] = "running", AllCommandsFinished(t, a)
  PROVE  /\ Advanced(t, a) \in Trees /\ TreeTells(Advanced(t, a), G, L)
         /\ Advanced(t, a).task # t.task => IsFinished(Advanced(t, a))
         /\ Advanced(t, a).act[a] = "completed"
         /\ NextInOrder(UNION {CommandsToDispatch(Advanced(t, a), b) :
                                 b \in NextPendingAction(t)}, G \cup L)
<1> DEFINE u == Advanced(t, a)
<1>1. /\ u \in Trees /\ u.cmd = t.cmd /\ u.retries = t.retries
      /\ u.task = IF PendingActions(t) = {} THEN "completed" ELSE t.task
      /\ \A b \in Actions :
           u.act[b] = IF b = a THEN "completed"
                      ELSE IF b \in NextPendingAction(t) THEN "running" ELSE t.act[b]
  BY AdvancedFields
<1> HIDE DEF u
<1>2. \A d \in Commands : ActionOf[d] = a => d \in G \cup L
  BY DEF AllCommandsFinished, IsTerminal, CommandsOf, TreeTells
<1>3. \A b \in Actions : t.act[b] = "running" => b = a
  BY DEF TreeTells
<1>4. ASSUME NEW d \in Commands, t.act[ActionOf[d]] # "pending" PROVE d \in G \cup L
  <2>1. ActionOf[d] \in Actions /\ t.act[ActionOf[d]] \in ActionStatus
    BY Shape DEF Trees
  <2>2. CASE ActionOf[d] = a
    BY <1>2, <2>2
  <2>3. CASE ActionOf[d] # a
    <3>1. t.act[ActionOf[d]] \in {"completed", "failed", "cancelled"}
      BY <1>3, <1>4, <2>1, <2>3 DEF ActionStatus
    <3> QED
      BY <3>1 DEF TreeTells
  <2> QED
    BY <2>2, <2>3
<1>5. ASSUME NEW d \in Commands
      PROVE  /\ u.act[ActionOf[d]] \in {"completed", "failed", "cancelled"} => d \in G \cup L
             /\ u.task = "completed" => d \in G \cup L
  <2>1. ActionOf[d] \in Actions
    BY Shape
  <2>2. u.act[ActionOf[d]] \in {"completed", "failed", "cancelled"}
          => t.act[ActionOf[d]] # "pending"
    BY <1>1, <2>1
  <2>3. PendingActions(t) = {} => t.act[ActionOf[d]] # "pending"
    BY <2>1 DEF PendingActions
  <2>4. t.task = "completed" => d \in G \cup L
    BY DEF TreeTells
  <2> QED
    BY <1>1, <1>4, <2>2, <2>3, <2>4
<1>6. ASSUME NEW b \in Actions, NEW e \in Actions,
             u.act[b] = "running", u.act[e] = "running"
      PROVE  b = e
  <2>1. b \in NextPendingAction(t) /\ e \in NextPendingAction(t)
    BY <1>1, <1>3, <1>6
  <2> QED
    BY <2>1, NextPending
<1>7. TreeTells(u, G, L)
  BY <1>1, <1>5, <1>6 DEF TreeTells
<1>8. ASSUME NEW b \in NextPendingAction(t)
      PROVE  NextInOrder(CommandsToDispatch(u, b), G \cup L)
  <2>1. b \in Actions /\ \A d \in Commands : ActionOf[d] < b => d \in G \cup L
    BY <1>4, NextPending, Shape
  <2> QED
    BY <1>1, <1>7, <2>1, DispatchInOrder
<1>9. NextInOrder(UNION {CommandsToDispatch(u, b) : b \in NextPendingAction(t)}, G \cup L)
  BY <1>8 DEF NextInOrder
<1> QED
  BY <1>1, <1>7, <1>9 DEF IsFinished, u

\* The success of a command in flight.
LEMMA SuccessSound ==
  ASSUME NEW t \in Trees, NEW c \in Commands, NEW G, NEW L, TreeTells(t, G, L),
         OnSuccess(t, c).ok,
         \A d \in Commands : Precedes(d, c) => d \in G \cup L
  PROVE  /\ Sound(t, OnSuccess(t, c).tree, c, G, L)
         /\ NextInOrder(OnSuccess(t, c).next, G \cup L)
<1> DEFINE a == ActionOf[c]
           v == SetCmd(t, c, "succeeded")
           o == AdvanceAfterSuccess(v, a)
<1>1. t.cmd[c] = "sending" /\ OnSuccess(t, c) = o /\ o.ok
  BY DEF OnSuccess, Error
<1>2. a \in Actions /\ "succeeded" \in CommandStatus
  BY Shape DEF CommandStatus
<1>3. /\ v \in Trees /\ v.task = t.task /\ v.act = t.act /\ v.retries = t.retries
      /\ \A d \in Commands : v.cmd[d] = IF d = c THEN "succeeded" ELSE t.cmd[d]
  BY <1>2, SetCmdFields
<1> HIDE DEF v
<1>4. TreeTells(v, G, L)
  BY <1>1, <1>3 DEF TreeTells
<1>5. TreeTells(v, G, L \cup GivenUpIn(v))
  BY <1>4, TellsLater
<1>6. Sound(t, v, c, G, L)
  BY <1>3, <1>5 DEF Sound
<1>7. NextInOrder({}, G \cup L)
  BY DEF NextInOrder
<1>8. CASE CommandsToDispatch(v, a) # {}
  <2>1. o.tree = v /\ o.next = CommandsToDispatch(v, a)
    BY <1>8 DEF AdvanceAfterSuccess, Outcome
  <2>2. \A d \in Commands : ActionOf[d] < a => d \in G \cup L
    BY DEF Precedes
  <2>3. NextInOrder(CommandsToDispatch(v, a), G \cup L)
    BY <1>2, <1>3, <1>4, <2>2, DispatchInOrder
  <2> QED
    BY <1>1, <1>6, <2>1, <2>3
<1>9. CASE CommandsToDispatch(v, a) = {} /\ ~AllCommandsFinished(v, a)
  <2>1. o.tree = v /\ o.next = {}
    BY <1>9 DEF AdvanceAfterSuccess, Outcome
  <2> QED
    BY <1>1, <1>6, <1>7, <2>1
<1>10. CASE /\ CommandsToDispatch(v, a) = {} /\ AllCommandsFinished(v, a)
            /\ AnyCommandFailed(v, a)
  <2>1. o.tree = Broken(v, a) /\ o.next = {}
    BY <1>1, <1>10 DEF AdvanceAfterSuccess, CircuitBreak, Outcome, Error
  <2>2. /\ Broken(v, a) \in Trees /\ IsFinished(Broken(v, a)) /\ Quiet(v, Broken(v, a))
        /\ TreeTells(Broken(v, a), G, L \cup GivenUpIn(Broken(v, a)))
    BY <1>2, <1>3, <1>4, BrokenTells
  <2>3. Sound(t, Broken(v, a), c, G, L)
    BY <1>3, <2>2 DEF Sound, Quiet
  <2> QED
    BY <1>1, <1>7, <2>1, <2>3
<1>11. CASE /\ CommandsToDispatch(v, a) = {} /\ AllCommandsFinished(v, a)
            /\ ~AnyCommandFailed(v, a)
  <2> DEFINE u == Advanced(v, a)
             next == UNION {CommandsToDispatch(u, b) : b \in NextPendingAction(v)}
  <2>1. CanAdvance(v, a) /\ o = Outcome(u, next)
    BY <1>1, <1>11 DEF AdvanceAfterSuccess, Error
  <2>2. o.tree = u /\ o.next = next
    BY <2>1 DEF Outcome
  <2>3. /\ u \in Trees /\ TreeTells(u, G, L)
        /\ u.task # v.task => IsFinished(u)
        /\ u.act[a] = "completed" /\ NextInOrder(next, G \cup L)
    BY <1>2, <1>3, <1>4, <1>11, <2>1, AdvancedTells DEF CanAdvance
  <2> HIDE DEF u, next
  <2>4. TreeTells(u, G, L \cup GivenUpIn(u))
    BY <2>3, TellsLater
  <2>5. Sound(t, u, c, G, L)
    BY <1>3, <2>1, <2>3, <2>4 DEF Sound, CanAdvance
  <2> QED
    BY <1>1, <2>2, <2>3, <2>5
<1> QED
  BY <1>8, <1>9, <1>10, <1>11

\* SubmitTask: a new tree, its first action started.
LEMMA StartedTells ==
  /\ NewTree \in Trees
  /\ \A G, L : TreeTells(NewTree, G, L)
  /\ Started(NewTree) \in Trees /\ GivenUpIn(Started(NewTree)) = {}
  /\ \A G, L : /\ TreeTells(Started(NewTree), G, L)
               /\ NextInOrder(UNION {CommandsToDispatch(Started(NewTree), a) :
                                       a \in NextPendingAction(NewTree)}, G \cup L)
<1> DEFINE t == NewTree
           u == Started(t)
<1>1. /\ t \in Trees /\ t.task = "pending"
      /\ \A a \in Actions : t.act[a] = "pending"
      /\ \A c \in Commands : t.cmd[c] = "pending" /\ t.retries[c] = 0
  BY DEF NewTree, Trees, TaskStatus, ActionStatus, CommandStatus
<1>2. \A c \in Commands : ActionOf[c] \in Actions /\ 0 <= MaxRetries[c]
  BY Shape
<1> HIDE DEF t
<1>3. /\ u \in Trees /\ u.task = "running" /\ u.cmd = t.cmd /\ u.retries = t.retries
      /\ \A b \in Actions :
           u.act[b] = IF b \in NextPendingAction(t) THEN "running" ELSE t.act[b]
  BY <1>1 DEF Started, Trees, TaskStatus, ActionStatus
<1> HIDE DEF u
<1>4. ASSUME NEW b \in Actions, u.act[b] = "running" PROVE b \in NextPendingAction(t)
  BY <1>1, <1>3, <1>4
<1>5. \A b, e \in Actions : u.act[b] = "running" /\ u.act[e] = "running" => b = e
  BY <1>1, <1>4, NextPending
<1>6. ASSUME NEW G, NEW L
      PROVE  /\ TreeTells(t, G, L) /\ TreeTells(u, G, L)
             /\ NextInOrder(UNION {CommandsToDispatch(u, a) :
                                     a \in NextPendingAction(t)}, G \cup L)
  <2>1. TreeTells(t, G, L)
    <3>1. \A a \in Actions : t.act[a] # "running"
      BY <1>1
    <3>2. \A c \in Commands : t.act[ActionOf[c]] = "pending"
      BY <1>1, <1>2
    <3> QED
      BY <1>1, <1>2, <3>1, <3>2 DEF TreeTells
  <2>2. TreeTells(u, G, L)
    <3>1. \A c \in Commands : u.act[ActionOf[c]] \in {"pending", "running"}
      BY <1>1, <1>2, <1>3
    <3> QED
      BY <1>1, <1>2, <1>3, <1>5, <3>1 DEF TreeTells
  <2>3. ASSUME NEW a \in NextPendingAction(t)
        PROVE  NextInOrder(CommandsToDispatch(u, a), G \cup L)
    <3>1. a \in Actions /\ \A d \in Commands : ~(ActionOf[d] < a)
      BY <1>1, <1>2, NextPending
    <3> QED
      BY <1>3, <2>2, <3>1, DispatchInOrder
  <2> QED
    BY <2>1, <2>2, <2>3 DEF NextInOrder
<1>7. GivenUpIn(u) = {}
  BY <1>1, <1>3 DEF GivenUpIn
<1> QED
  BY <1>1, <1>3, <1>6, <1>7 DEF u, t

-----------------------------------------------------------------------------
(* The invariant is preserved.                                             *)

\* Settled as a set.
LEMMA SettledIs ==
  /\ \A c \in Commands : Settled(c) <=> c \in Received \cup givenUp
  /\ (\A c \in Commands : Settled(c) <=> c \in Received \cup givenUp)'
BY DEF Settled, Received

\* Handler h gets a new tree u, rows w and queue q: what the invariant says of
\* trees, rows, queues and completion holds when it holds of u, w and q.
LEMMA WorkStep ==
  ASSUME IInv, NEW h \in Handlers, NEW u \in Trees, NEW w \in Seq(Rows),
         NEW q \in Seq(Commands), Work(h, u, w, q),
         db' = db, published' = published, Received \subseteq Received',
         TreeTells(u, Received', givenUp'),
         \A i \in 1..Len(w) :
           /\ \A a \in Actions : w[i] = Row("act", a) /\ u.act[a] = "running" =>
                /\ h \in {"submit", "consumer"}
                /\ \A b \in Actions : db.act[b] = "running" /\ b # a =>
                     \E j \in 1..(i - 1) : w[j] = Row("act", b)
           /\ w[i].kind = "event" => IsFinished(u),
         \A i \in 1..Len(q), d \in Commands :
           Precedes(d, q[i]) => d \in Received' \cup givenUp',
         h = "cancel" => q = <<>>
  PROVE  /\ mem' \in [Handlers -> Trees] /\ writes' \in [Handlers -> Seq(Rows)]
         /\ todo' \in [Handlers -> Seq(Commands)] /\ givenUp' \subseteq Commands
         /\ TreesTell' /\ RowsInOrder' /\ QueuedInOrder' /\ CompletedMeansSettled'
<1>1. /\ mem \in [Handlers -> Trees] /\ writes \in [Handlers -> Seq(Rows)]
      /\ todo \in [Handlers -> Seq(Commands)] /\ givenUp \subseteq Commands
  BY DEF IInv, TypeOK
<1>2. /\ mem' = [mem EXCEPT ![h] = u] /\ writes' = [writes EXCEPT ![h] = w]
      /\ todo' = [todo EXCEPT ![h] = q] /\ givenUp' = givenUp \cup GivenUpIn(u)
  BY DEF Work
<1>3. /\ mem'[h] = u /\ writes'[h] = w /\ todo'[h] = q
      /\ \A k \in Handlers : k # h =>
           mem'[k] = mem[k] /\ writes'[k] = writes[k] /\ todo'[k] = todo[k]
  BY <1>1, <1>2
<1>4. /\ mem' \in [Handlers -> Trees] /\ writes' \in [Handlers -> Seq(Rows)]
      /\ todo' \in [Handlers -> Seq(Commands)]
  BY <1>1, <1>2
<1>5. givenUp' \subseteq Commands /\ givenUp \subseteq givenUp'
  BY <1>1, <1>2 DEF GivenUpIn
<1>6. TreesTell'
  <2>1. TreeTells(db, Received', givenUp')
    BY <1>5, TellsLater DEF IInv, TreesTell
  <2>2. ASSUME NEW k \in Handlers PROVE TreeTells(mem'[k], Received', givenUp')
    <3>1. CASE k = h
      BY <1>3, <3>1
    <3>2. CASE k # h
      <4>1. TreeTells(mem[k], Received, givenUp)
        BY DEF IInv, TreesTell
      <4>2. TreeTells(mem[k], Received', givenUp')
        BY <1>5, <4>1, TellsLater
      <4> QED
        BY <1>3, <3>2, <4>2
    <3> QED
      BY <3>1, <3>2
  <2> QED
    BY <2>1, <2>2 DEF TreesTell
<1>7. RowsInOrder'
  <2> SUFFICES
        ASSUME NEW k \in Handlers, NEW i \in 1..Len(writes'[k])
        PROVE  /\ \A a \in Actions : writes'[k][i] = Row("act", a) /\ mem'[k].act[a] = "running" =>
                    /\ k \in {"submit", "consumer"}
                    /\ \A b \in Actions : db'.act[b] = "running" /\ b # a =>
                         \E j \in 1..(i - 1) : writes'[k][j] = Row("act", b)
               /\ writes'[k][i].kind = "event" => IsFinished(mem'[k])
    BY DEF RowsInOrder, StartsRow, Row, IsFinished
  <2>1. CASE k = h
    BY <1>3, <2>1
  <2>2. CASE k # h
    BY <1>3, <2>2 DEF IInv, RowsInOrder, StartsRow
  <2> QED
    BY <2>1, <2>2
<1>8. QueuedInOrder'
  <2>1. todo'["cancel"] = <<>>
    BY <1>3 DEF IInv, QueuedInOrder, Handlers
  <2>2. ASSUME NEW k \in Handlers, NEW i \in 1..Len(todo'[k]), NEW d \in Commands,
               Precedes(d, todo'[k][i])
        PROVE  d \in Received' \cup givenUp'
    <3>1. CASE k = h
      BY <1>3, <2>2, <3>1
    <3>2. CASE k # h
      <4>1. Settled(d)
        BY <1>3, <2>2, <3>2 DEF IInv, QueuedInOrder
      <4> QED
        BY <1>5, <4>1, SettledIs
    <3> QED
      BY <3>1, <3>2
  <2>3. ASSUME NEW k \in Handlers, NEW i \in 1..Len(todo'[k]), NEW d \in Commands,
               Precedes(d, todo'[k][i])
        PROVE  Settled(d)'
    BY <2>2, <2>3, SettledIs
  <2> QED
    BY <2>1, <2>3 DEF QueuedInOrder, Precedes
<1>9. CompletedMeansSettled'
  <2> SUFFICES ASSUME "completed" \in published \cup {db.task}, NEW c \in Commands
               PROVE  Settled(c)'
    BY DEF CompletedMeansSettled, Completed
  <2>1. Settled(c)
    BY DEF IInv, CompletedMeansSettled, Completed
  <2> QED
    BY <1>5, <2>1, SettledIs
<1> QED
  BY <1>4, <1>5, <1>6, <1>7, <1>8, <1>9

\* A handler whose Dispatcher call starts no action.
LEMMA QuietRows ==
  ASSUME NEW c \in Commands, NEW t, NEW u, Quiet(t, u),
         u.task # t.task => IsFinished(u)
  PROVE  /\ Persist(c, t, u) \in Seq(Rows)
         /\ \A i \in 1..Len(Persist(c, t, u)) :
              /\ \A a \in Actions :
                   ~(Persist(c, t, u)[i] = Row("act", a) /\ u.act[a] = "running")
              /\ Persist(c, t, u)[i].kind = "event" => IsFinished(u)
<1>1. ASSUME NEW i \in 1..Len(Persist(c, t, u)), NEW a \in Actions,
             Persist(c, t, u)[i] = Row("act", a), u.act[a] = "running"
      PROVE  FALSE
  <2>1. t.act[a] # u.act[a]
    BY <1>1, PersistRows
  <2> QED
    BY <1>1, <2>1 DEF Quiet
<1>2. \A i \in 1..Len(Persist(c, t, u)) :
        Persist(c, t, u)[i].kind = "event" => IsFinished(u)
  BY PersistRows
<1> QED
  BY <1>1, <1>2, PersistRows

\* Settled never becomes false, and what precedes a new execution is settled.
LEMMA OrderStep ==
  ASSUME IInv, givenUp \subseteq givenUp', Received \subseteq Received',
         \A c \in Received' : c \in Received \/
           \A d \in Commands : Precedes(d, c) => d \in Received' \cup givenUp'
  PROVE  DeviceOrder'
<1> SUFFICES ASSUME NEW c \in Commands, NEW d \in Commands,
                    executed'[c] > 0, Precedes(d, c)
             PROVE  Settled(d)'
  BY DEF DeviceOrder, Precedes
<1>1. c \in Received'
  BY DEF Received
<1>2. CASE c \in Received
  <2>1. Settled(d)
    BY <1>2 DEF IInv, DeviceOrder, Received
  <2> QED
    BY <2>1, SettledIs
<1>3. CASE c \notin Received
  BY <1>1, <1>3, SettledIs
<1> QED
  BY <1>2, <1>3

\* While SubmitTask has still to store its first action nothing was executed,
\* so no tree tells of a command in flight.
LEMMA NotStarting ==
  ASSUME IInv
  PROVE  /\ \A c \in Commands : executed[c] > 0 => ~Starting
         /\ \A c \in Commands : db.cmd[c] = "sending" => ~Starting
<1>1. ASSUME NEW c \in Commands, executed[c] > 0 PROVE ~Starting
  BY <1>1 DEF IInv, SubmitFirst
<1>2. \A c \in Commands : db.cmd[c] = "sending" => executed[c] > 0
  BY DEF IInv, TreesTell, TreeTells, Received
<1> QED
  BY <1>1, <1>2

\* A queue built from a set of commands.
LEMMA QueueInOrder ==
  ASSUME NEW S, NEW D, NextInOrder(S, D)
  PROVE  /\ InOrder(S) \in Seq(Commands)
         /\ \A i \in 1..Len(InOrder(S)), d \in Commands :
              Precedes(d, InOrder(S)[i]) => d \in D
<1>1. S \in SUBSET Commands
  BY DEF NextInOrder
<1>2. InOrder(S) \in Seq(Commands) /\ \A i \in 1..Len(InOrder(S)) : InOrder(S)[i] \in S
  BY <1>1, QueueOfSubset
<1> QED
  BY <1>2 DEF NextInOrder

\* A command in flight: everything before it is settled.
LEMMA InFlight ==
  ASSUME IInv, NEW c \in Commands, db.cmd[c] = "sending"
  PROVE  \A d \in Commands : Precedes(d, c) => d \in Received \cup givenUp
<1>1. executed[c] > 0
  BY DEF IInv, TreesTell, TreeTells, Received
<1> QED
  BY <1>1, SettledIs DEF IInv, DeviceOrder

LEMMA InitStep ==
  ASSUME Init
  PROVE  IInv
<1>1. /\ NewTree \in Trees /\ \A G, L : TreeTells(NewTree, G, L)
  BY StartedTells
<1>2. /\ db = NewTree /\ published = {} /\ givenUp = {}
      /\ \A h \in Handlers : mem[h] = NewTree /\ writes[h] = <<>> /\ todo[h] = <<>>
      /\ \A c \in Commands : executed[c] = 0
  BY DEF Init
<1>3. NewTree.task = "pending" /\ \A a \in Actions : NewTree.act[a] = "pending"
  BY DEF NewTree
<1>4. TypeOK
  <2>1. /\ db \in Trees /\ at \in [Handlers -> {"new", "idle", "work", "done"}]
        /\ mem \in [Handlers -> Trees]
    BY <1>1 DEF Init
  <2>2. writes \in [Handlers -> Seq(Rows)] /\ todo \in [Handlers -> Seq(Commands)]
    BY DEF Init
  <2>3. topic \in Seq(Commands) /\ fetched \in 0..Len(topic)
    BY DEF Init
  <2>4. /\ executed \in [Commands -> 0..2] /\ givenUp \subseteq Commands
        /\ published \subseteq {"completed", "failed", "cancelled"}
    BY DEF Init
  <2>5. interrupted \in BOOLEAN
    BY DEF Init
  <2>6. crashes \in 0..MaxCrashes
    BY ServiceAssumption DEF Init
  <2> QED
    BY <2>1, <2>2, <2>3, <2>4, <2>5, <2>6 DEF TypeOK
<1>5. TreesTell
  BY <1>1, <1>2 DEF TreesTell
<1>6. RowsInOrder /\ QueuedInOrder
  BY <1>2 DEF RowsInOrder, QueuedInOrder, Handlers
<1>7. SubmitFirst
  BY <1>2, <1>3 DEF SubmitFirst, Init, Handlers
<1>8. DeviceOrder /\ CompletedMeansSettled
  BY <1>2, <1>3 DEF DeviceOrder, CompletedMeansSettled, Completed
<1> QED
  BY <1>4, <1>5, <1>6, <1>7, <1>8 DEF IInv

LEMMA SubmitStep ==
  ASSUME IInv, Submit
  PROVE  IInv'
<1> DEFINE u == Started(NewTree)
           first == NextPendingAction(NewTree)
           w == <<Row("task", 0)>> \o RowSeq("act", first)
           S == UNION {CommandsToDispatch(u, a) : a \in first}
           q == InOrder(S)
<1>1. /\ at["submit"] = "new" /\ at' = [at EXCEPT !["submit"] = "work"]
      /\ Work("submit", u, w, q)
      /\ db' = db /\ topic' = topic /\ fetched' = fetched /\ executed' = executed
      /\ published' = published /\ interrupted' = interrupted /\ crashes' = crashes
  BY DEF Submit, kafka, ends
<1>2. /\ u \in Trees /\ GivenUpIn(u) = {} /\ TreeTells(u, Received, givenUp)
      /\ NextInOrder(S, Received \cup givenUp)
  BY StartedTells
<1>3. q \in Seq(Commands)
      /\ \A i \in 1..Len(q), d \in Commands :
           Precedes(d, q[i]) => d \in Received \cup givenUp
  BY <1>2, QueueInOrder
<1>4. w \in Seq(Rows) /\ \A i \in 1..Len(w) : w[i].kind # "event"
  <2>1. first \in SUBSET Actions
    BY DEF NextPendingAction, PendingActions
  <2>2. /\ RowSeq("act", first) \in Seq(Rows)
        /\ \A i \in 1..Len(RowSeq("act", first)) :
             \E x \in first : RowSeq("act", first)[i] = Row("act", x)
    BY <2>1, RowsOfSubset
  <2>3. Row("task", 0) \in Rows /\ Row("task", 0).kind = "task"
    BY DEF Row, Rows
  <2>4. \A i \in 1..Len(RowSeq("act", first)) : RowSeq("act", first)[i].kind = "act"
    BY <2>2, RowFields
  <2> HIDE DEF first
  <2>5. <<Row("task", 0)>> \in Seq(Rows) /\ Len(<<Row("task", 0)>>) = 1
        /\ <<Row("task", 0)>>[1] = Row("task", 0)
    BY <2>3
  <2>6. /\ w \in Seq(Rows)
        /\ \A i \in 1..Len(w) :
              \/ i \in 1..1 /\ w[i] = Row("task", 0)
              \/ /\ i - 1 \in 1..Len(RowSeq("act", first))
                 /\ w[i] = RowSeq("act", first)[i - 1]
    BY <2>2, <2>5, Placed
  <2> HIDE DEF w
  <2> QED
    BY <2>3, <2>4, <2>6
<1> HIDE DEF u, w, q, S, first
<1>5. givenUp' = givenUp /\ Received' = Received
  BY <1>1, <1>2 DEF Work, Received
<1>6. Starting /\ \A a \in Actions : db.act[a] # "running"
  BY <1>1 DEF IInv, SubmitFirst, Starting
<1>7. /\ mem' \in [Handlers -> Trees] /\ writes' \in [Handlers -> Seq(Rows)]
      /\ todo' \in [Handlers -> Seq(Commands)] /\ givenUp' \subseteq Commands
      /\ TreesTell' /\ RowsInOrder' /\ QueuedInOrder' /\ CompletedMeansSettled'
  <2>1. "submit" \in Handlers
    BY DEF Handlers
  <2>2. \A i \in 1..Len(w) :
           /\ \A a \in Actions : w[i] = Row("act", a) /\ u.act[a] = "running" =>
                /\ "submit" \in {"submit", "consumer"}
                /\ \A b \in Actions : db.act[b] = "running" /\ b # a =>
                     \E j \in 1..(i - 1) : w[j] = Row("act", b)
           /\ w[i].kind = "event" => IsFinished(u)
    BY <1>4, <1>6
  <2> QED
    BY <1>1, <1>2, <1>3, <1>4, <1>5, <2>1, <2>2, WorkStep
<1>8. /\ at' \in [Handlers -> {"new", "idle", "work", "done"}]
      /\ at'["submit"] = "work"
      /\ \A h \in Handlers : h # "submit" => at'[h] = at[h] /\ writes'[h] = writes[h]
  BY <1>1 DEF IInv, TypeOK, Work, Handlers
<1>9. TypeOK'
  BY <1>1, <1>7, <1>8 DEF IInv, TypeOK
<1>10. SubmitFirst'
  <2>1. \A h \in Handlers : at'[h] # "work" => writes'[h] = <<>>
    BY <1>8 DEF IInv, SubmitFirst
  <2>2. at'["consumer"] = "idle" /\ at'["scanner"] = "idle"
        /\ \A c \in Commands : executed'[c] = 0
    BY <1>1, <1>6, <1>8 DEF IInv, SubmitFirst, Handlers
  <2> QED
    BY <1>8, <2>1, <2>2 DEF SubmitFirst
<1>11. DeviceOrder'
  BY <1>5, OrderStep
<1> QED
  BY <1>7, <1>9, <1>10, <1>11 DEF IInv

\* Handler h goes on working or returns, without rows that start an action if
\* it is SubmitTask, and executes commands only while nothing is starting.
LEMMA FirstKept ==
  ASSUME IInv, NEW h \in Handlers, NEW u, NEW w, NEW q, Work(h, u, w, q),
         NEW s \in {"idle", "work", "done"}, at' = [at EXCEPT ![h] = s],
         db' = db, ~Starting \/ executed' = executed,
         s = "work" \/ w = <<>>,
         ~Starting \/ s = "idle" \/ h \notin {"consumer", "scanner"},
         h = "submit" => \A i \in 1..Len(w), a \in Actions :
                           ~(w[i] = Row("act", a) /\ u.act[a] = "running")
  PROVE  /\ at' \in [Handlers -> {"new", "idle", "work", "done"}]
         /\ SubmitFirst'
<1>1. /\ at \in [Handlers -> {"new", "idle", "work", "done"}]
      /\ mem \in [Handlers -> Trees] /\ writes \in [Handlers -> Seq(Rows)]
  BY DEF IInv, TypeOK
<1>2. at' \in [Handlers -> {"new", "idle", "work", "done"}]
  BY <1>1
<1>3. /\ at'[h] = s /\ mem'[h] = u /\ writes'[h] = w
      /\ \A k \in Handlers : k # h =>
           at'[k] = at[k] /\ writes'[k] = writes[k] /\ mem'[k] = mem[k]
  BY <1>1 DEF Work
<1>4. Starting' => Starting /\ h # "submit"
  <2>1. CASE h = "submit"
    <3>1. \A i \in 1..Len(writes'["submit"]), a \in Actions : ~StartsRow("submit", i, a)'
      BY <1>3, <2>1 DEF StartsRow, Row
    <3> QED
      BY <1>3, <2>1, <3>1 DEF Starting
  <2>2. CASE h # "submit"
    <3>1. /\ at'["submit"] = at["submit"] /\ mem'["submit"] = mem["submit"]
          /\ writes'["submit"] = writes["submit"]
      BY <1>3, <2>2 DEF Handlers
    <3>2. \A i, a : StartsRow("submit", i, a)' <=> StartsRow("submit", i, a)
      BY <3>1 DEF StartsRow, Row
    <3> QED
      BY <2>2, <3>1, <3>2 DEF Starting
  <2> QED
    BY <2>1, <2>2
<1>5. \A k \in Handlers : at'[k] # "work" => writes'[k] = <<>>
  BY <1>3 DEF IInv, SubmitFirst
<1>6. Starting' => /\ at'["consumer"] = "idle" /\ at'["scanner"] = "idle"
                   /\ \A c \in Commands : executed'[c] = 0
  <2> SUFFICES ASSUME Starting'
               PROVE  /\ at'["consumer"] = "idle" /\ at'["scanner"] = "idle"
                      /\ \A c \in Commands : executed'[c] = 0
    OBVIOUS
  <2>1. /\ at["consumer"] = "idle" /\ at["scanner"] = "idle"
        /\ \A c \in Commands : executed[c] = 0
    BY <1>4 DEF IInv, SubmitFirst
  <2>2. executed' = executed /\ (s = "idle" \/ h \notin {"consumer", "scanner"})
    BY <1>4
  <2> QED
    BY <1>3, <2>1, <2>2 DEF Handlers
<1>7. at'["submit"] = "new" => \A a \in Actions : db'.act[a] # "running"
  BY <1>3 DEF IInv, SubmitFirst, Handlers
<1> QED
  BY <1>2, <1>5, <1>6, <1>7 DEF SubmitFirst

\* A handler works on while nothing is starting, or is CancelTask.
LEMMA WorksOn ==
  ASSUME IInv, NEW h \in Handlers, ~Starting \/ (h = "cancel" /\ executed' = executed),
         NEW u, NEW w, NEW q, Work(h, u, w, q),
         at' = [at EXCEPT ![h] = "work"], db' = db,
         h = "submit" => \A i \in 1..Len(w), a \in Actions :
                           ~(w[i] = Row("act", a) /\ u.act[a] = "running")
  PROVE  /\ at' \in [Handlers -> {"new", "idle", "work", "done"}]
         /\ SubmitFirst'
<1> DEFINE s == "work"
<1>1. s \in {"idle", "work", "done"} /\ s = "work" /\ at' = [at EXCEPT ![h] = s]
  OBVIOUS
<1> HIDE DEF s
<1>2. ~Starting \/ executed' = executed
  OBVIOUS
<1>3. ~Starting \/ s = "idle" \/ h \notin {"consumer", "scanner"}
  OBVIOUS
<1>4. s = "work" \/ w = <<>>
  BY <1>1
<1> QED
  BY <1>1, <1>2, <1>3, <1>4, FirstKept

\* A handler works on the outcome of a Dispatcher call on the stored tree.
LEMMA OutcomeStep ==
  ASSUME IInv, NEW h \in Handlers, NEW c \in Commands, NEW u, NEW next,
         Sound(db, u, c, Received, givenUp),
         NextInOrder(next, Received \cup givenUp),
         Quiet(db, u) \/ h = "consumer", h # "cancel",
         Work(h, u, Persist(c, db, u), InOrder(next)),
         db' = db, published' = published, executed' = executed
  PROVE  /\ mem' \in [Handlers -> Trees] /\ writes' \in [Handlers -> Seq(Rows)]
         /\ todo' \in [Handlers -> Seq(Commands)] /\ givenUp' \subseteq Commands
         /\ TreesTell' /\ RowsInOrder' /\ QueuedInOrder' /\ CompletedMeansSettled'
         /\ DeviceOrder'
<1> DEFINE w == Persist(c, db, u)
           q == InOrder(next)
           a == ActionOf[c]
<1>1. /\ givenUp' = givenUp \cup GivenUpIn(u) /\ Received' = Received
  BY DEF Work, Received
<1>2. u \in Trees /\ TreeTells(u, Received', givenUp')
  BY <1>1 DEF Sound
<1>3. q \in Seq(Commands)
      /\ \A i \in 1..Len(q), d \in Commands :
           Precedes(d, q[i]) => d \in Received \cup givenUp
  BY QueueInOrder
<1>4. w \in Seq(Rows)
  BY PersistRows
<1>5. \A i \in 1..Len(w) : w[i].kind = "event" => IsFinished(u)
  BY PersistRows DEF Sound
<1>6. ASSUME NEW i \in 1..Len(w), NEW b \in Actions,
             w[i] = Row("act", b), u.act[b] = "running"
      PROVE  /\ h \in {"submit", "consumer"}
             /\ \A e \in Actions : db.act[e] = "running" /\ e # b =>
                  \E j \in 1..(i - 1) : w[j] = Row("act", e)
  <2>1. /\ db.act[b] # u.act[b]
        /\ b # a /\ db.act[a] # u.act[a] => \E j \in 1..(i - 1) : w[j] = Row("act", a)
    BY <1>6, PersistRows
  <2>2. h = "consumer"
    BY <1>6, <2>1 DEF Quiet
  <2>3. db.act[a] = "running" /\ u.act[a] # "running"
    BY <1>6, <2>1 DEF Sound
  <2>4. \A e \in Actions : db.act[e] = "running" => e = a
    <3>1. a \in Actions
      BY Shape
    <3> QED
      BY <2>3, <3>1 DEF IInv, TreesTell, TreeTells
  <2> QED
    BY <1>6, <2>1, <2>2, <2>3, <2>4
<1> HIDE DEF w, q
<1>7. \A i \in 1..Len(w) :
           /\ \A b \in Actions : w[i] = Row("act", b) /\ u.act[b] = "running" =>
                /\ h \in {"submit", "consumer"}
                /\ \A e \in Actions : db.act[e] = "running" /\ e # b =>
                     \E j \in 1..(i - 1) : w[j] = Row("act", e)
           /\ w[i].kind = "event" => IsFinished(u)
  BY <1>5, <1>6
<1>8. \A i \in 1..Len(q), d \in Commands :
        Precedes(d, q[i]) => d \in Received' \cup givenUp'
  BY <1>1, <1>3
<1>9. Work(h, u, w, q)
  BY DEF w, q
<1>10. /\ mem' \in [Handlers -> Trees] /\ writes' \in [Handlers -> Seq(Rows)]
       /\ todo' \in [Handlers -> Seq(Commands)] /\ givenUp' \subseteq Commands
       /\ TreesTell' /\ RowsInOrder' /\ QueuedInOrder' /\ CompletedMeansSettled'
  BY <1>1, <1>2, <1>3, <1>4, <1>7, <1>8, <1>9, WorkStep
<1>11. DeviceOrder'
  BY <1>1, OrderStep
<1> QED
  BY <1>10, <1>11

\* CommitMessages drops a prefix of the topic.
LEMMA CommitType ==
  ASSUME topic \in Seq(Commands), NEW n \in 0..Len(topic), Commit(n)
  PROVE  topic' \in Seq(Commands) /\ fetched' \in 0..Len(topic')
<1>1. topic' = SubSeq(topic, n + 1, Len(topic)) /\ fetched' = 0
  BY DEF Commit
<1>2. Len(topic) \in Nat /\ n \in Nat /\ n <= Len(topic)
  OBVIOUS
<1>3. topic' \in Seq(Commands)
  BY <1>1, <1>2
<1> QED
  BY <1>1, <1>3

LEMMA ScanStep ==
  ASSUME IInv, NEW c \in Commands, Scan(c)
  PROVE  IInv'
<1> DEFINE o == OnTimeout(db, c)
<1>1. /\ db.cmd[c] = "sending" /\ o.ok /\ at' = [at EXCEPT !["scanner"] = "work"]
      /\ Work("scanner", o.tree, Persist(c, db, o.tree), InOrder(o.next))
      /\ db' = db /\ topic' = topic /\ fetched' = fetched /\ executed' = executed
      /\ published' = published /\ interrupted' = interrupted /\ crashes' = crashes
  BY DEF Scan, kafka, ends
<1>2. db \in Trees /\ TreeTells(db, Received, givenUp)
  BY DEF IInv, TypeOK, TreesTell
<1>3. /\ Sound(db, o.tree, c, Received, givenUp) /\ Quiet(db, o.tree)
      /\ NextInOrder(o.next, Received \cup givenUp)
  BY <1>1, <1>2, InFlight, TimeoutSound
<1> HIDE DEF o
<1>4. "scanner" \in Handlers /\ ~Starting
  BY <1>1, NotStarting DEF Handlers
<1>5. /\ mem' \in [Handlers -> Trees] /\ writes' \in [Handlers -> Seq(Rows)]
      /\ todo' \in [Handlers -> Seq(Commands)] /\ givenUp' \subseteq Commands
      /\ TreesTell' /\ RowsInOrder' /\ QueuedInOrder' /\ CompletedMeansSettled'
      /\ DeviceOrder'
  BY <1>1, <1>3, <1>4, OutcomeStep
<1>6. at' \in [Handlers -> {"new", "idle", "work", "done"}] /\ SubmitFirst'
  BY <1>1, <1>4, WorksOn
<1>7. TypeOK'
  BY <1>1, <1>5, <1>6 DEF IInv, TypeOK
<1> QED
  BY <1>5, <1>6, <1>7 DEF IInv

\* Nothing but the Kafka offsets changes.
LEMMA OffsetsStep ==
  ASSUME IInv, UNCHANGED <<db, handlers, executed, published, ends>>,
         topic' \in Seq(Commands), fetched' \in 0..Len(topic')
  PROVE  IInv'
<1>1. /\ db' = db /\ at' = at /\ mem' = mem /\ writes' = writes /\ todo' = todo
      /\ givenUp' = givenUp /\ executed' = executed /\ published' = published
      /\ interrupted' = interrupted /\ crashes' = crashes
  BY DEF handlers, ends
<1>2. TypeOK'
  BY <1>1 DEF IInv, TypeOK
<1>3. TreesTell'
  BY <1>1 DEF IInv, TreesTell, TreeTells, Received
<1>4. RowsInOrder'
  BY <1>1 DEF IInv, RowsInOrder, StartsRow, Row, IsFinished
<1>5. SubmitFirst'
  BY <1>1 DEF IInv, SubmitFirst, Starting, StartsRow, Row
<1>6. QueuedInOrder' /\ DeviceOrder' /\ CompletedMeansSettled'
  BY <1>1 DEF IInv, QueuedInOrder, DeviceOrder, CompletedMeansSettled, Completed,
              Settled, Precedes
<1> QED
  BY <1>2, <1>3, <1>4, <1>5, <1>6 DEF IInv

LEMMA ConsumeStep ==
  ASSUME IInv, Consume
  PROVE  IInv'
<1> DEFINE c == topic[fetched + 1]
           o == OnSuccess(db, c)
<1>1. /\ topic \in Seq(Commands) /\ fetched \in 0..Len(topic) /\ fetched < Len(topic)
      /\ db' = db /\ executed' = executed
      /\ published' = published /\ interrupted' = interrupted /\ crashes' = crashes
  BY DEF IInv, TypeOK, Consume, ends
<1>2. c \in Commands /\ fetched + 1 \in 0..Len(topic)
  BY <1>1
<1>3. \/ Commit(fetched + 1) /\ UNCHANGED handlers
      \/ /\ o.ok /\ fetched' = fetched + 1 /\ at' = [at EXCEPT !["consumer"] = "work"]
         /\ Work("consumer", o.tree, Persist(c, db, o.tree), InOrder(o.next))
         /\ UNCHANGED topic
      \/ fetched' = fetched + 1 /\ UNCHANGED <<topic, handlers>>
  BY DEF Consume
<1>4. CASE Commit(fetched + 1) /\ UNCHANGED handlers
  <2>1. topic' \in Seq(Commands) /\ fetched' \in 0..Len(topic')
    BY <1>1, <1>2, <1>4, CommitType
  <2> QED
    BY <1>1, <1>4, <2>1, OffsetsStep DEF ends
<1>5. CASE fetched' = fetched + 1 /\ UNCHANGED <<topic, handlers>>
  <2>1. topic' \in Seq(Commands) /\ fetched' \in 0..Len(topic')
    BY <1>1, <1>2, <1>5
  <2> QED
    BY <1>1, <1>5, <2>1, OffsetsStep DEF ends
<1>6. CASE /\ o.ok /\ fetched' = fetched + 1 /\ at' = [at EXCEPT !["consumer"] = "work"]
           /\ Work("consumer", o.tree, Persist(c, db, o.tree), InOrder(o.next))
           /\ UNCHANGED topic
  <2> HIDE DEF c
  <2>1. db \in Trees /\ TreeTells(db, Received, givenUp)
    BY DEF IInv, TypeOK, TreesTell
  <2>2. db.cmd[c] = "sending"
    BY <1>6 DEF OnSuccess, Error
  <2>3. /\ Sound(db, o.tree, c, Received, givenUp)
        /\ NextInOrder(o.next, Received \cup givenUp)
    BY <1>2, <1>6, <2>1, <2>2, InFlight, SuccessSound
  <2> HIDE DEF o
  <2>4. "consumer" \in Handlers /\ ~Starting
    BY <1>2, <2>2, NotStarting DEF Handlers
  <2>5. /\ mem' \in [Handlers -> Trees] /\ writes' \in [Handlers -> Seq(Rows)]
        /\ todo' \in [Handlers -> Seq(Commands)] /\ givenUp' \subseteq Commands
        /\ TreesTell' /\ RowsInOrder' /\ QueuedInOrder' /\ CompletedMeansSettled'
        /\ DeviceOrder'
    BY <1>1, <1>2, <1>6, <2>3, <2>4, OutcomeStep
  <2>6. at' \in [Handlers -> {"new", "idle", "work", "done"}] /\ SubmitFirst'
    BY <1>1, <1>6, <2>4, WorksOn
  <2>7. topic' \in Seq(Commands) /\ fetched' \in 0..Len(topic')
    BY <1>1, <1>2, <1>6
  <2>8. TypeOK'
    BY <1>1, <2>5, <2>6, <2>7 DEF IInv, TypeOK
  <2> QED
    BY <2>5, <2>6, <2>8 DEF IInv
<1> QED
  BY <1>3, <1>4, <1>5, <1>6

LEMMA CancelStep ==
  ASSUME IInv, CancelTask
  PROVE  IInv'
<1> DEFINE u == Cancelled(db)
           w == PersistCancel(db)
<1>1. /\ at' = [at EXCEPT !["cancel"] = "work"] /\ Work("cancel", u, w, <<>>)
      /\ db' = db /\ topic' = topic /\ fetched' = fetched /\ executed' = executed
      /\ published' = published /\ interrupted' = interrupted /\ crashes' = crashes
  BY DEF CancelTask, kafka, ends
<1>2. db \in Trees /\ TreeTells(db, Received, givenUp) /\ "cancel" \in Handlers
  BY DEF IInv, TypeOK, TreesTell, Handlers
<1>3. /\ u \in Trees /\ IsFinished(u)
      /\ TreeTells(u, Received, givenUp \cup GivenUpIn(u))
      /\ \A a \in Actions : u.act[a] # "running"
  BY <1>2, CancelSound
<1>4. w \in Seq(Rows)
  <2> DEFINE acts == {a \in Actions : db.act[a] \in {"pending", "running"}}
             cmds == {c \in Commands : /\ ActionOf[c] \in acts
                                       /\ Cancelled(db).cmd[c] = "cancelled"}
             tail == <<Row("task", 0), Row("event", 0)>>
  <2>1. RowSeq("cmd", cmds) \in Seq(Rows) /\ RowSeq("act", acts) \in Seq(Rows)
    BY RowsOfSubset
  <2>2. tail \in Seq(Rows)
    BY DEF Row, Rows
  <2>3. w = RowSeq("cmd", cmds) \o RowSeq("act", acts) \o tail
    BY DEF PersistCancel
  <2> HIDE DEF acts, cmds, tail, w
  <2>4. RowSeq("cmd", cmds) \o RowSeq("act", acts) \in Seq(Rows)
    BY <2>1, Placed
  <2> QED
    BY <2>2, <2>3, <2>4, Placed
<1> HIDE DEF u, w
<1>5. givenUp' = givenUp \cup GivenUpIn(u) /\ Received' = Received
  BY <1>1 DEF Work, Received
<1>6. <<>> \in Seq(Commands) /\ Len(<<>>) = 0
  OBVIOUS
<1>7. /\ mem' \in [Handlers -> Trees] /\ writes' \in [Handlers -> Seq(Rows)]
      /\ todo' \in [Handlers -> Seq(Commands)] /\ givenUp' \subseteq Commands
      /\ TreesTell' /\ RowsInOrder' /\ QueuedInOrder' /\ CompletedMeansSettled'
  <2> DEFINE q == <<>>
  <2>1. q \in Seq(Commands) /\ Work("cancel", u, w, q) /\ q = <<>>
        /\ \A i \in 1..Len(q), d \in Commands :
             Precedes(d, q[i]) => d \in Received' \cup givenUp'
    BY <1>1, <1>6
  <2> HIDE DEF q
  <2>2. /\ TreeTells(u, Received', givenUp') /\ Received \subseteq Received'
        /\ \A i \in 1..Len(w) :
             /\ \A a \in Actions : w[i] = Row("act", a) /\ u.act[a] = "running" =>
                  /\ "cancel" \in {"submit", "consumer"}
                  /\ \A b \in Actions : db.act[b] = "running" /\ b # a =>
                       \E j \in 1..(i - 1) : w[j] = Row("act", b)
             /\ w[i].kind = "event" => IsFinished(u)
    BY <1>3, <1>5
  <2> QED
    BY <1>1, <1>2, <1>3, <1>4, <2>1, <2>2, WorkStep
<1>8. at' \in [Handlers -> {"new", "idle", "work", "done"}] /\ SubmitFirst'
  BY <1>1, <1>2, WorksOn
<1>9. DeviceOrder'
  BY <1>5, OrderStep
<1>10. TypeOK'
  BY <1>1, <1>7, <1>8 DEF IInv, TypeOK
<1> QED
  BY <1>7, <1>8, <1>9, <1>10 DEF IInv

\* A handler returns and drops its memory.
LEMMA ReturnStep ==
  ASSUME IInv, NEW h \in Handlers, Return(h), db' = db, published' = published,
         Received \subseteq Received', ~Starting \/ executed' = executed
  PROVE  /\ mem' \in [Handlers -> Trees] /\ writes' \in [Handlers -> Seq(Rows)]
         /\ todo' \in [Handlers -> Seq(Commands)] /\ givenUp' = givenUp
         /\ at' \in [Handlers -> {"new", "idle", "work", "done"}]
         /\ TreesTell' /\ RowsInOrder' /\ QueuedInOrder' /\ CompletedMeansSettled'
         /\ SubmitFirst'
<1> DEFINE w == <<>>
           q == <<>>
<1>1. at' = [at EXCEPT ![h] = Rest(h)] /\ Work(h, NewTree, w, q)
  BY DEF Return
<1>2. NewTree \in Trees /\ TreeTells(NewTree, Received', givenUp')
  BY StartedTells
<1>3. GivenUpIn(NewTree) = {}
  BY DEF GivenUpIn, NewTree
<1>4. givenUp' = givenUp
  BY <1>1, <1>3 DEF Work
<1>5. /\ Rest(h) \in {"idle", "work", "done"}
      /\ Rest(h) = "idle" \/ h \notin {"consumer", "scanner"}
  BY DEF Rest, Handlers
<1>6. /\ w \in Seq(Rows) /\ q \in Seq(Commands) /\ w = <<>> /\ q = <<>>
      /\ Len(w) = 0 /\ Len(q) = 0
  OBVIOUS
<1> HIDE DEF w, q
<1>7. /\ \A i \in 1..Len(w) :
           /\ \A a \in Actions : w[i] = Row("act", a) /\ NewTree.act[a] = "running" =>
                /\ h \in {"submit", "consumer"}
                /\ \A b \in Actions : db.act[b] = "running" /\ b # a =>
                     \E j \in 1..(i - 1) : w[j] = Row("act", b)
           /\ w[i].kind = "event" => IsFinished(NewTree)
      /\ \A i \in 1..Len(q), d \in Commands :
           Precedes(d, q[i]) => d \in Received' \cup givenUp'
      /\ \A i \in 1..Len(w), a \in Actions :
           ~(w[i] = Row("act", a) /\ NewTree.act[a] = "running")
  BY <1>6
<1>8. /\ mem' \in [Handlers -> Trees] /\ writes' \in [Handlers -> Seq(Rows)]
      /\ todo' \in [Handlers -> Seq(Commands)]
      /\ TreesTell' /\ RowsInOrder' /\ QueuedInOrder' /\ CompletedMeansSettled'
  BY <1>1, <1>2, <1>6, <1>7, WorkStep
<1>9. at' \in [Handlers -> {"new", "idle", "work", "done"}] /\ SubmitFirst'
  BY <1>1, <1>5, <1>6, <1>7, FirstKept
<1> QED
  BY <1>4, <1>8, <1>9

LEMMA FinishStep ==
  ASSUME IInv, NEW h \in Handlers, Finish(h)
  PROVE  IInv'
<1>1. /\ Return(h) /\ db' = db /\ executed' = executed /\ published' = published
      /\ interrupted' = interrupted /\ crashes' = crashes
      /\ Commit(fetched) \/ (topic' = topic /\ fetched' = fetched)
  BY DEF Finish, ends, kafka
<1>2. Received' = Received
  BY <1>1 DEF Received
<1>3. /\ mem' \in [Handlers -> Trees] /\ writes' \in [Handlers -> Seq(Rows)]
      /\ todo' \in [Handlers -> Seq(Commands)] /\ givenUp' = givenUp
      /\ at' \in [Handlers -> {"new", "idle", "work", "done"}]
      /\ TreesTell' /\ RowsInOrder' /\ QueuedInOrder' /\ CompletedMeansSettled'
      /\ SubmitFirst'
  BY <1>1, <1>2, ReturnStep
<1>4. topic' \in Seq(Commands) /\ fetched' \in 0..Len(topic')
  <2>1. topic \in Seq(Commands) /\ fetched \in 0..Len(topic)
    BY DEF IInv, TypeOK
  <2> QED
    BY <1>1, <2>1, CommitType
<1>5. TypeOK'
  BY <1>1, <1>3, <1>4 DEF IInv, TypeOK
<1>6. DeviceOrder'
  BY <1>2, <1>3, OrderStep
<1> QED
  BY <1>3, <1>5, <1>6 DEF IInv

LEMMA AbandonStep ==
  ASSUME IInv, NEW h \in Handlers, Abandon(h)
  PROVE  IInv'
<1>1. /\ Return(h) /\ db' = db /\ executed' = executed /\ published' = published
      /\ topic' = topic /\ fetched' = fetched /\ interrupted' = TRUE /\ crashes' = crashes
  BY DEF Abandon, kafka
<1>2. Received' = Received
  BY <1>1 DEF Received
<1>3. /\ mem' \in [Handlers -> Trees] /\ writes' \in [Handlers -> Seq(Rows)]
      /\ todo' \in [Handlers -> Seq(Commands)] /\ givenUp' = givenUp
      /\ at' \in [Handlers -> {"new", "idle", "work", "done"}]
      /\ TreesTell' /\ RowsInOrder' /\ QueuedInOrder' /\ CompletedMeansSettled'
      /\ SubmitFirst'
  BY <1>1, <1>2, ReturnStep
<1>4. TypeOK'
  BY <1>1, <1>3 DEF IInv, TypeOK
<1>5. DeviceOrder'
  BY <1>2, <1>3, OrderStep
<1> QED
  BY <1>3, <1>4, <1>5 DEF IInv

LEMMA CrashStep ==
  ASSUME IInv, Crash
  PROVE  IInv'
<1>1. /\ at' = [h \in Handlers |-> IF at[h] = "idle" THEN "idle" ELSE Rest(h)]
      /\ mem' = [h \in Handlers |-> NewTree]
      /\ writes' = [h \in Handlers |-> <<>>] /\ todo' = [h \in Handlers |-> <<>>]
      /\ fetched' = 0 /\ db' = db /\ topic' = topic /\ executed' = executed
      /\ givenUp' = givenUp /\ published' = published
      /\ interrupted' = TRUE /\ crashes' = crashes + 1 /\ crashes < MaxCrashes
  BY DEF Crash
<1>2. NewTree \in Trees /\ TreeTells(NewTree, Received', givenUp')
  BY StartedTells
<1>3. Received' = Received
  BY <1>1 DEF Received
<1>4. TypeOK'
  <2>1. /\ at' \in [Handlers -> {"new", "idle", "work", "done"}]
        /\ mem' \in [Handlers -> Trees]
    BY <1>1, <1>2 DEF Rest
  <2>2. writes' \in [Handlers -> Seq(Rows)] /\ todo' \in [Handlers -> Seq(Commands)]
    BY <1>1
  <2>3. fetched' \in 0..Len(topic') /\ crashes' \in 0..MaxCrashes
    BY <1>1, ServiceAssumption DEF IInv, TypeOK
  <2> QED
    BY <1>1, <2>1, <2>2, <2>3 DEF IInv, TypeOK
<1>5. TreesTell'
  BY <1>1, <1>2, <1>3 DEF IInv, TreesTell
<1>6. RowsInOrder' /\ QueuedInOrder'
  BY <1>1 DEF RowsInOrder, QueuedInOrder, Handlers
<1>7. SubmitFirst'
  <2>1. at'["submit"] # "new" /\ writes'["submit"] = <<>>
    BY <1>1 DEF Rest, Handlers
  <2>2. ~Starting'
    BY <2>1 DEF Starting
  <2> QED
    BY <1>1, <2>1, <2>2 DEF SubmitFirst
<1>8. DeviceOrder' /\ CompletedMeansSettled'
  BY <1>1 DEF IInv, DeviceOrder, CompletedMeansSettled, Completed, Settled, Precedes
<1> QED
  BY <1>4, <1>5, <1>6, <1>7, <1>8 DEF IInv

\* What holds when a handler calls the gateway for the i-th of its queue.
LEMMA Calling ==
  ASSUME IInv, NEW h \in Handlers, at[h] = "work", writes[h] = <<>>,
         NEW i \in 1..Len(todo[h])
  PROVE  /\ todo[h][i] \in Commands /\ ~Starting /\ h # "cancel"
         /\ SubSeq(todo[h], i + 1, Len(todo[h])) \in Seq(Commands)
         /\ \A d \in Commands : Precedes(d, todo[h][i]) => d \in Received \cup givenUp
         /\ \A j \in 1..Len(SubSeq(todo[h], i + 1, Len(todo[h]))), d \in Commands :
              Precedes(d, SubSeq(todo[h], i + 1, Len(todo[h]))[j]) =>
                d \in Received \cup givenUp
<1> DEFINE q == SubSeq(todo[h], i + 1, Len(todo[h]))
<1>1. todo[h] \in Seq(Commands) /\ Len(todo[h]) \in Nat /\ i \in Nat
  BY DEF IInv, TypeOK
<1>2. todo[h][i] \in Commands
  BY <1>1
<1>3. /\ q \in Seq(Commands)
      /\ \A j \in 1..Len(q) : i + j \in 1..Len(todo[h]) /\ q[j] = todo[h][i + j]
  BY <1>1
<1>4. h # "cancel"
  BY <1>1 DEF IInv, QueuedInOrder
<1>5. ~Starting
  <2> SUFFICES ASSUME Starting PROVE FALSE
    OBVIOUS
  <2>1. h = "submit"
    BY <1>4 DEF IInv, SubmitFirst, Handlers
  <2> QED
    BY <2>1 DEF Starting
<1>6. \A j \in 1..Len(todo[h]), d \in Commands :
        Precedes(d, todo[h][j]) => d \in Received \cup givenUp
  BY SettledIs DEF IInv, QueuedInOrder
<1> HIDE DEF q
<1>7. \A j \in 1..Len(q), d \in Commands : Precedes(d, q[j]) => d \in Received \cup givenUp
  BY <1>3, <1>6
<1> QED
  BY <1>2, <1>3, <1>4, <1>5, <1>6, <1>7 DEF q

\* The device gets command c.
LEMMA ExecuteFields ==
  ASSUME IInv, NEW c \in Commands, Execute(c), fetched' = fetched
  PROVE  /\ executed' \in [Commands -> 0..2]
         /\ Received' = Received \cup {c}
         /\ topic' \in Seq(Commands) /\ fetched' \in 0..Len(topic')
<1>1. /\ executed \in [Commands -> 0..2] /\ topic \in Seq(Commands)
      /\ fetched \in 0..Len(topic)
  BY DEF IInv, TypeOK
<1>2. executed' = [executed EXCEPT ![c] = IF @ < 2 THEN @ + 1 ELSE 2]
  BY DEF Execute
<1>3. (IF executed[c] < 2 THEN executed[c] + 1 ELSE 2) \in 1..2
  BY <1>1
<1>4. /\ executed' \in [Commands -> 0..2] /\ executed'[c] > 0
      /\ \A d \in Commands : d # c => executed'[d] = executed[d]
  BY <1>1, <1>2, <1>3
<1>5. topic' = Append(topic, c) \/ topic' = topic
  BY DEF Execute
<1>6. topic' \in Seq(Commands) /\ fetched' \in 0..Len(topic')
  <2>1. CASE topic' = Append(topic, c)
    <3>1. Append(topic, c) \in Seq(Commands) /\ Len(Append(topic, c)) = Len(topic) + 1
      BY <1>1
    <3> QED
      BY <1>1, <2>1, <3>1
  <2>2. CASE topic' = topic
    BY <1>1, <2>2
  <2> QED
    BY <1>5, <2>1, <2>2
<1>7. Received' = Received \cup {c}
  BY <1>4 DEF Received
<1> QED
  BY <1>4, <1>6, <1>7

\* The gateway accepted command c: its Sending row is to be stored.
LEMMA AcceptedStep ==
  ASSUME IInv, NEW h \in Handlers, NEW c \in Commands, NEW q \in Seq(Commands),
         at[h] = "work", ~Starting, h # "cancel", Accepted(h, c, q), at' = at,
         db' = db, published' = published, Received' = Received \cup {c},
         \A j \in 1..Len(q), d \in Commands : Precedes(d, q[j]) => d \in Received \cup givenUp
  PROVE  /\ mem' \in [Handlers -> Trees] /\ writes' \in [Handlers -> Seq(Rows)]
         /\ todo' \in [Handlers -> Seq(Commands)] /\ givenUp' \subseteq Commands
         /\ givenUp \subseteq givenUp'
         /\ at' \in [Handlers -> {"new", "idle", "work", "done"}]
         /\ TreesTell' /\ RowsInOrder' /\ QueuedInOrder' /\ CompletedMeansSettled'
         /\ SubmitFirst'
<1> DEFINE u == SetCmd(mem[h], c, "sending")
           w == <<Row("cmd", c)>>
<1>1. /\ mem[h] \in Trees /\ TreeTells(mem[h], Received, givenUp)
      /\ "sending" \in CommandStatus
  BY DEF IInv, TypeOK, TreesTell, CommandStatus
<1>2. /\ u \in Trees /\ u.task = mem[h].task /\ u.act = mem[h].act
      /\ u.retries = mem[h].retries
      /\ \A d \in Commands : u.cmd[d] = IF d = c THEN "sending" ELSE mem[h].cmd[d]
  BY <1>1, SetCmdFields
<1>3. Work(h, u, w, q)
  BY DEF Accepted
<1>4. w \in Seq(Rows) /\ Len(w) = 1 /\ w[1] = Row("cmd", c)
  <2>1. Row("cmd", c) \in Rows
    BY Shape DEF Row, Rows
  <2> QED
    BY <2>1
<1> HIDE DEF u, w
<1>5. givenUp \subseteq givenUp'
  BY <1>3 DEF Work
<1>6. TreeTells(u, Received', givenUp')
  BY <1>1, <1>2, <1>5 DEF TreeTells
<1>7. \A i \in 1..Len(w) : /\ \A a : w[i] # Row("act", a)
                           /\ w[i].kind # "event"
  BY <1>4, RowFields
<1>8. \A i \in 1..Len(w) :
        /\ \A a \in Actions : w[i] = Row("act", a) /\ u.act[a] = "running" =>
             /\ h \in {"submit", "consumer"}
             /\ \A b \in Actions : db.act[b] = "running" /\ b # a =>
                  \E j \in 1..(i - 1) : w[j] = Row("act", b)
        /\ w[i].kind = "event" => IsFinished(u)
  BY <1>7
<1>9. \A j \in 1..Len(q), d \in Commands : Precedes(d, q[j]) => d \in Received' \cup givenUp'
  BY <1>5
<1>10. /\ mem' \in [Handlers -> Trees] /\ writes' \in [Handlers -> Seq(Rows)]
       /\ todo' \in [Handlers -> Seq(Commands)] /\ givenUp' \subseteq Commands
       /\ TreesTell' /\ RowsInOrder' /\ QueuedInOrder' /\ CompletedMeansSettled'
  BY <1>2, <1>3, <1>4, <1>6, <1>8, <1>9, WorkStep
<1>11. at' = [at EXCEPT ![h] = "work"]
  BY DEF IInv, TypeOK
<1>12. at' \in [Handlers -> {"new", "idle", "work", "done"}] /\ SubmitFirst'
  <2>1. h = "submit" => \A i \in 1..Len(w), a \in Actions :
                          ~(w[i] = Row("act", a) /\ u.act[a] = "running")
    BY <1>7
  <2> QED
    BY <1>3, <1>11, <2>1, WorksOn
<1> QED
  BY <1>5, <1>10, <1>12

\* The gateway rejected command c, or the call failed: applyFailure.
LEMMA RejectedStep ==
  ASSUME IInv, NEW h \in Handlers, NEW c \in Commands, NEW q \in Seq(Commands),
         at[h] = "work", ~Starting, h # "cancel", Rejected(h, c, q),
         db' = db, published' = published, Received \subseteq Received',
         \A j \in 1..Len(q), d \in Commands : Precedes(d, q[j]) => d \in Received \cup givenUp
  PROVE  /\ mem' \in [Handlers -> Trees] /\ writes' \in [Handlers -> Seq(Rows)]
         /\ todo' \in [Handlers -> Seq(Commands)] /\ givenUp' \subseteq Commands
         /\ givenUp \subseteq givenUp'
         /\ at' \in [Handlers -> {"new", "idle", "work", "done"}]
         /\ TreesTell' /\ RowsInOrder' /\ QueuedInOrder' /\ CompletedMeansSettled'
         /\ SubmitFirst'
<1> DEFINE o == OnFailure(mem[h], c)
           t == mem[h]
           u == o.tree
           w == Persist(c, t, u)
           q2 == q \o InOrder(o.next)
<1>1. t \in Trees /\ TreeTells(t, Received, givenUp)
  BY DEF IInv, TypeOK, TreesTell
<1>2. CASE ~o.ok
  <2>1. Return(h)
    BY <1>2 DEF Rejected
  <2>2. givenUp \subseteq Commands
    BY DEF IInv, TypeOK
  <2> HIDE DEF o
  <2>3. /\ mem' \in [Handlers -> Trees] /\ writes' \in [Handlers -> Seq(Rows)]
        /\ todo' \in [Handlers -> Seq(Commands)] /\ givenUp' = givenUp
        /\ at' \in [Handlers -> {"new", "idle", "work", "done"}]
        /\ TreesTell' /\ RowsInOrder' /\ QueuedInOrder' /\ CompletedMeansSettled'
        /\ SubmitFirst'
    BY <2>1, ReturnStep
  <2> QED
    BY <2>2, <2>3
<1>3. CASE o.ok
  <2>1. Work(h, u, w, q2) /\ at' = at
    BY <1>3 DEF Rejected
  <2>2. TreeTells(t, Received', givenUp)
    BY <1>1, TellsLater
  <2>3. Sound(t, u, c, Received', givenUp) /\ Quiet(t, u) /\ o.next = {}
    BY <1>1, <1>3, <2>2, BreakSound
  <2> HIDE DEF o, t
  <2>4. u \in Trees /\ TreeTells(u, Received', givenUp \cup GivenUpIn(u))
        /\ (u.task # t.task => IsFinished(u))
    BY <2>3 DEF Sound
  <2>5. givenUp' = givenUp \cup GivenUpIn(u)
    BY <2>1 DEF Work
  <2>6. /\ w \in Seq(Rows)
        /\ \A i \in 1..Len(w) :
             /\ \A a \in Actions : ~(w[i] = Row("act", a) /\ u.act[a] = "running")
             /\ w[i].kind = "event" => IsFinished(u)
    BY <2>3, <2>4, QuietRows
  <2>7. /\ q2 \in Seq(Commands)
        /\ \A j \in 1..Len(q2), d \in Commands :
             Precedes(d, q2[j]) => d \in Received \cup givenUp
    <3> DEFINE e == InOrder(o.next)
    <3>1. e \in Seq(Commands) /\ \A j \in 1..Len(e) : e[j] \in {}
      BY <2>3, QueueOfSubset
    <3> HIDE DEF e
    <3>2. /\ q \o e \in Seq(Commands)
          /\ \A j \in 1..Len(q \o e) :
               \/ j \in 1..Len(q) /\ (q \o e)[j] = q[j]
               \/ j - Len(q) \in 1..Len(e)
      BY <3>1, Placed
    <3>3. q2 = q \o e
      BY DEF e
    <3> HIDE DEF q2
    <3> QED
      BY <3>1, <3>2, <3>3
  <2> HIDE DEF u, w, q2
  <2>8. /\ \A i \in 1..Len(w) :
             /\ \A a \in Actions : w[i] = Row("act", a) /\ u.act[a] = "running" =>
                  /\ h \in {"submit", "consumer"}
                  /\ \A b \in Actions : db.act[b] = "running" /\ b # a =>
                       \E j \in 1..(i - 1) : w[j] = Row("act", b)
             /\ w[i].kind = "event" => IsFinished(u)
        /\ \A j \in 1..Len(q2), d \in Commands :
             Precedes(d, q2[j]) => d \in Received' \cup givenUp'
        /\ TreeTells(u, Received', givenUp')
    BY <2>4, <2>5, <2>6, <2>7
  <2>9. /\ mem' \in [Handlers -> Trees] /\ writes' \in [Handlers -> Seq(Rows)]
        /\ todo' \in [Handlers -> Seq(Commands)] /\ givenUp' \subseteq Commands
        /\ TreesTell' /\ RowsInOrder' /\ QueuedInOrder' /\ CompletedMeansSettled'
    BY <2>1, <2>4, <2>6, <2>7, <2>8, WorkStep
  <2>10. at' = [at EXCEPT ![h] = "work"]
    BY <2>1 DEF IInv, TypeOK
  <2>11. at' \in [Handlers -> {"new", "idle", "work", "done"}] /\ SubmitFirst'
    <3>1. h = "submit" => \A i \in 1..Len(w), a \in Actions :
                            ~(w[i] = Row("act", a) /\ u.act[a] = "running")
      BY <2>6
    <3> QED
      BY <2>1, <2>10, <3>1, WorksOn
  <2> QED
    BY <2>5, <2>9, <2>11
<1> QED
  BY <1>2, <1>3

LEMMA CallStep ==
  ASSUME IInv, NEW h \in Handlers, Call(h)
  PROVE  IInv'
<1>1. /\ at[h] = "work" /\ writes[h] = <<>> /\ db' = db /\ fetched' = fetched
      /\ published' = published /\ interrupted' = interrupted /\ crashes' = crashes
  BY DEF Call, ends
<1>2. PICK i \in NextTodo(h) :
        LET c == todo[h][i]
            q == SubSeq(todo[h], i + 1, Len(todo[h]))
        IN  \/ /\ Execute(c)
               /\ (Accepted(h, c, q) /\ UNCHANGED at) \/ Rejected(h, c, q)
            \/ Rejected(h, c, q) /\ UNCHANGED <<executed, topic>>
  BY DEF Call
<1> DEFINE c == todo[h][i]
           q == SubSeq(todo[h], i + 1, Len(todo[h]))
<1>3. i \in 1..Len(todo[h])
  BY DEF NextTodo
<1>4. /\ c \in Commands /\ ~Starting /\ h # "cancel" /\ q \in Seq(Commands)
      /\ \A d \in Commands : Precedes(d, c) => d \in Received \cup givenUp
      /\ \A j \in 1..Len(q), d \in Commands : Precedes(d, q[j]) => d \in Received \cup givenUp
  BY <1>1, <1>3, Calling
<1>5. \/ /\ Execute(c)
         /\ (Accepted(h, c, q) /\ UNCHANGED at) \/ Rejected(h, c, q)
      \/ Rejected(h, c, q) /\ UNCHANGED <<executed, topic>>
  BY <1>2
<1> HIDE DEF c, q
<1>6. /\ executed' \in [Commands -> 0..2]
      /\ Received' = Received \cup {c} \/ Received' = Received
      /\ Execute(c) => Received' = Received \cup {c}
      /\ topic' \in Seq(Commands) /\ fetched' \in 0..Len(topic')
  <2>1. CASE Execute(c)
    BY <1>1, <1>4, <2>1, ExecuteFields
  <2>2. CASE UNCHANGED <<executed, topic>> /\ ~Execute(c)
    BY <1>1, <2>2 DEF IInv, TypeOK, Received
  <2> QED
    BY <1>5, <2>1, <2>2
<1>7. Received \subseteq Received'
  BY <1>6
<1>8. /\ mem' \in [Handlers -> Trees] /\ writes' \in [Handlers -> Seq(Rows)]
      /\ todo' \in [Handlers -> Seq(Commands)] /\ givenUp' \subseteq Commands
      /\ givenUp \subseteq givenUp'
      /\ at' \in [Handlers -> {"new", "idle", "work", "done"}]
      /\ TreesTell' /\ RowsInOrder' /\ QueuedInOrder' /\ CompletedMeansSettled'
      /\ SubmitFirst'
  <2>1. CASE Execute(c) /\ Accepted(h, c, q) /\ UNCHANGED at
    BY <1>1, <1>4, <1>6, <2>1, AcceptedStep
  <2>2. CASE Rejected(h, c, q)
    BY <1>1, <1>4, <1>7, <2>2, RejectedStep
  <2> QED
    BY <1>5, <2>1, <2>2
<1>9. TypeOK'
  BY <1>1, <1>6, <1>8 DEF IInv, TypeOK
<1>10. DeviceOrder'
  <2>1. \A d \in Received' : d \in Received \/
          \A e \in Commands : Precedes(e, d) => e \in Received' \cup givenUp'
    BY <1>4, <1>6, <1>7, <1>8
  <2> QED
    BY <1>7, <1>8, <2>1, OrderStep
<1> QED
  BY <1>8, <1>9, <1>10 DEF IInv

\* The rows s after row r was stored from a copy t.
Stored(s, t, r) ==
    CASE r.kind = "cmd" -> [s EXCEPT !.cmd[r.id] = t.cmd[r.id],
                                     !.retries[r.id] = t.retries[r.id]]
      [] r.kind = "act" -> [s EXCEPT !.act[r.id] = t.act[r.id]]
      [] r.kind = "task" -> [s EXCEPT !.task = t.task]
      [] r.kind = "event" -> s

\* The rows after one of them was stored from a copy t: every field comes from
\* the database or from the copy, an action's status from the copy only if the
\* row is that action's.
LEMMA Written ==
  ASSUME NEW s \in Trees, NEW t \in Trees, NEW r \in Rows
  PROVE  /\ Stored(s, t, r) \in Trees
         /\ \A c \in Commands :
              /\ Stored(s, t, r).cmd[c] \in {s.cmd[c], t.cmd[c]}
              /\ Stored(s, t, r).retries[c] \in {s.retries[c], t.retries[c]}
         /\ \A a \in Actions :
              /\ \/ Stored(s, t, r).act[a] = s.act[a]
                 \/ r = Row("act", a) /\ Stored(s, t, r).act[a] = t.act[a]
              /\ r = Row("act", a) => Stored(s, t, r).act[a] = t.act[a]
         /\ Stored(s, t, r).task \in {s.task, t.task}
<1> DEFINE v == Stored(s, t, r)
<1>1. /\ r.kind \in {"cmd", "act", "task", "event"} /\ r.id \in Nat
      /\ \A a : r = Row("act", a) <=> r.kind = "act" /\ r.id = a
  BY DEF Rows, Row
<1>2. CASE r.kind = "cmd"
  <2>1. v = [s EXCEPT !.cmd[r.id] = t.cmd[r.id], !.retries[r.id] = t.retries[r.id]]
    BY <1>2 DEF Stored
  <2> HIDE DEF v
  <2>2. /\ v.task = s.task /\ v.act = s.act
        /\ v.cmd = [s.cmd EXCEPT ![r.id] = t.cmd[r.id]]
        /\ v.retries = [s.retries EXCEPT ![r.id] = t.retries[r.id]]
    BY <2>1 DEF Trees
  <2>3. v \in Trees
    <3>1. r.id \in Commands => t.cmd[r.id] \in CommandStatus /\ t.retries[r.id] \in Nat
      BY DEF Trees
    <3> QED
      BY <2>1, <3>1 DEF Trees
  <2> QED
    BY <1>1, <1>2, <2>2, <2>3 DEF Trees, v
<1>3. CASE r.kind = "act"
  <2>1. v = [s EXCEPT !.act[r.id] = t.act[r.id]]
    BY <1>3 DEF Stored
  <2> HIDE DEF v
  <2>2. /\ v.task = s.task /\ v.cmd = s.cmd /\ v.retries = s.retries
        /\ v.act = [s.act EXCEPT ![r.id] = t.act[r.id]]
    BY <2>1 DEF Trees
  <2>3. v \in Trees
    <3>1. r.id \in Actions => t.act[r.id] \in ActionStatus
      BY DEF Trees
    <3>2. s.act \in [Actions -> ActionStatus]
      BY DEF Trees
    <3>3. v.act \in [Actions -> ActionStatus]
      BY <2>2, <3>1, <3>2
    <3>4. v = [s EXCEPT !.act = v.act]
      BY <2>1, <2>2 DEF Trees
    <3> QED
      BY <3>3, <3>4 DEF Trees
  <2> QED
    BY <1>1, <1>3, <2>2, <2>3 DEF Trees, v
<1>4. CASE r.kind = "task"
  <2>1. v = [s EXCEPT !.task = t.task]
    BY <1>4 DEF Stored
  <2> HIDE DEF v
  <2>2. /\ v.task = t.task /\ v.cmd = s.cmd /\ v.retries = s.retries /\ v.act = s.act
    BY <2>1 DEF Trees
  <2>3. v \in Trees
    BY <2>1 DEF Trees
  <2> QED
    BY <1>1, <1>4, <2>2, <2>3 DEF v
<1>5. CASE r.kind = "event"
  <2>1. v = s
    BY <1>5 DEF Stored
  <2> HIDE DEF v
  <2> QED
    BY <1>1, <1>5, <2>1 DEF v
<1> QED
  BY <1>1, <1>2, <1>3, <1>4, <1>5

\* One row of handler h is stored, however stale its copy is.
LEMMA WriteRowStep ==
  ASSUME IInv, NEW h \in Handlers, WriteRow(h)
  PROVE  IInv'
<1> DEFINE w == writes[h]
           t == mem[h]
           r == writes[h][1]
<1>1. /\ at[h] = "work" /\ w # <<>> /\ r = Head(w)
      /\ writes' = [writes EXCEPT ![h] = Tail(w)]
      /\ at' = at /\ mem' = mem /\ todo' = todo /\ topic' = topic /\ fetched' = fetched
      /\ executed' = executed /\ givenUp' = givenUp
      /\ interrupted' = interrupted /\ crashes' = crashes
      /\ published' = IF r.kind = "event" THEN published \cup {t.task} ELSE published
  BY DEF WriteRow, kafka, ends, IInv, TypeOK
<1>2. /\ db \in Trees /\ t \in Trees /\ w \in Seq(Rows)
      /\ TreeTells(db, Received, givenUp) /\ TreeTells(t, Received, givenUp)
      /\ writes \in [Handlers -> Seq(Rows)]
  BY DEF IInv, TypeOK, TreesTell
<1>3. /\ Len(w) \in Nat /\ 1 \in 1..Len(w) /\ r \in Rows
      /\ Tail(w) \in Seq(Rows) /\ Len(Tail(w)) = Len(w) - 1
      /\ \A i \in 1..Len(Tail(w)) : i + 1 \in 1..Len(w) /\ Tail(w)[i] = w[i + 1]
      /\ \A j \in 1..Len(w) : j = 1 \/ (j - 1 \in 1..Len(Tail(w)) /\ Tail(w)[j - 1] = w[j])
  BY <1>1, <1>2
<1>4. /\ db' \in Trees
      /\ \A c \in Commands : /\ db'.cmd[c] \in {db.cmd[c], t.cmd[c]}
                             /\ db'.retries[c] \in {db.retries[c], t.retries[c]}
      /\ \A a \in Actions : \/ db'.act[a] = db.act[a]
                            \/ r = Row("act", a) /\ db'.act[a] = t.act[a]
      /\ \A a \in Actions : r = Row("act", a) => db'.act[a] = t.act[a]
      /\ db'.task \in {db.task, t.task}
  <2>1. db' = Stored(db, t, r)
    BY <1>1 DEF WriteRow, Stored
  <2> HIDE DEF t, r
  <2> QED
    BY <1>2, <1>3, <2>1, Written
<1>5. /\ writes'[h] = Tail(w)
      /\ \A k \in Handlers : k # h => writes'[k] = writes[k]
  BY <1>1, <1>2
<1>6. Received' = Received
  BY <1>1 DEF Received
\* What the next row of h may start.
<1>7. ASSUME NEW a \in Actions, r = Row("act", a), t.act[a] = "running"
      PROVE  /\ h \in {"submit", "consumer"}
             /\ \A b \in Actions : db.act[b] = "running" => b = a
             /\ \E i \in 1..Len(writes[h]) : StartsRow(h, i, a)
  <2>1. StartsRow(h, 1, a)
    BY <1>7 DEF StartsRow
  <2>2. /\ h \in {"submit", "consumer"}
        /\ \A b \in Actions : db.act[b] = "running" /\ b # a =>
             \E j \in 1..(1 - 1) : writes[h][j] = Row("act", b)
    BY <1>3, <2>1 DEF IInv, RowsInOrder
  <2> QED
    BY <1>3, <2>1, <2>2
<1>8. ASSUME NEW a \in Actions, db'.act[a] = "running"
      PROVE  \/ db.act[a] = "running" /\ r # Row("act", a)
             \/ r = Row("act", a) /\ t.act[a] = "running"
  BY <1>4, <1>8
<1> HIDE DEF w, t, r
<1>9. TreesTell'
  <2>1. ASSUME NEW a \in Actions, NEW b \in Actions,
               db'.act[a] = "running", db'.act[b] = "running"
        PROVE  a = b
    <3>1. CASE r = Row("act", a) /\ t.act[a] = "running"
      BY <1>2, <1>7, <1>8, <2>1, <3>1 DEF TreeTells
    <3>2. CASE r = Row("act", b) /\ t.act[b] = "running"
      BY <1>2, <1>7, <1>8, <2>1, <3>2 DEF TreeTells
    <3>3. CASE db.act[a] = "running" /\ db.act[b] = "running"
      BY <1>2, <3>3 DEF TreeTells
    <3> QED
      BY <1>8, <2>1, <3>1, <3>2, <3>3
  <2>2. ASSUME NEW c \in Commands
        PROVE  /\ db'.cmd[c] \in {"sending", "succeeded"} => c \in Received
               /\ db'.cmd[c] \in {"failed", "cancelled"} => c \in givenUp
               /\ db'.cmd[c] # "timeout"
               /\ db'.act[ActionOf[c]] \in {"completed", "failed", "cancelled"}
                    => c \in Received \cup givenUp
               /\ db'.task = "completed" => c \in Received \cup givenUp
               /\ db'.retries[c] <= MaxRetries[c]
    <3>1. ActionOf[c] \in Actions
      BY Shape
    <3>2. db'.act[ActionOf[c]] = db.act[ActionOf[c]] \/ db'.act[ActionOf[c]] = t.act[ActionOf[c]]
      BY <1>4, <3>1
    <3>3. /\ db'.cmd[c] = db.cmd[c] \/ db'.cmd[c] = t.cmd[c]
          /\ db'.retries[c] = db.retries[c] \/ db'.retries[c] = t.retries[c]
          /\ db'.task = db.task \/ db'.task = t.task
      BY <1>4
    <3> QED
      BY <1>2, <3>2, <3>3 DEF TreeTells
  <2>3. TreeTells(db', Received, givenUp)
    BY <2>1, <2>2 DEF TreeTells
  <2> QED
    BY <1>1, <1>6, <2>3 DEF IInv, TreesTell
<1>10. RowsInOrder'
  <2> SUFFICES
        ASSUME NEW k \in Handlers, NEW i \in 1..Len(writes'[k])
        PROVE  /\ \A a \in Actions : writes'[k][i] = Row("act", a) /\ mem'[k].act[a] = "running" =>
                    /\ k \in {"submit", "consumer"}
                    /\ \A b \in Actions : db'.act[b] = "running" /\ b # a =>
                         \E j \in 1..(i - 1) : writes'[k][j] = Row("act", b)
               /\ writes'[k][i].kind = "event" => IsFinished(mem'[k])
    BY DEF RowsInOrder, StartsRow, Row, IsFinished
  <2>1. CASE k = h
    <3>1. i \in 1..Len(Tail(w)) /\ i + 1 \in 1..Len(w) /\ writes'[k][i] = w[i + 1]
      BY <1>3, <1>5, <2>1
    <3>2. w[i + 1].kind = "event" => IsFinished(mem[k])
      BY <2>1, <3>1 DEF IInv, RowsInOrder, w
    <3>3. ASSUME NEW a \in Actions, w[i + 1] = Row("act", a), mem[k].act[a] = "running"
          PROVE  /\ k \in {"submit", "consumer"}
                 /\ \A b \in Actions : db'.act[b] = "running" /\ b # a =>
                      \E j \in 1..(i - 1) : Tail(w)[j] = Row("act", b)
      <4>1. /\ k \in {"submit", "consumer"}
            /\ \A b \in Actions : db.act[b] = "running" /\ b # a =>
                 \E j \in 1..((i + 1) - 1) : w[j] = Row("act", b)
        BY <2>1, <3>1, <3>3 DEF IInv, RowsInOrder, StartsRow, w
      <4>2. ASSUME NEW b \in Actions, db'.act[b] = "running", b # a
            PROVE  \E j \in 1..(i - 1) : Tail(w)[j] = Row("act", b)
        <5>1. t.act[a] = "running" /\ t.act[b] # "running"
          BY <1>2, <2>1, <3>3, <4>2 DEF TreeTells, t
        <5>2. db.act[b] = "running" /\ r # Row("act", b)
          BY <1>8, <4>2, <5>1
        <5>3. PICK j \in 1..((i + 1) - 1) : w[j] = Row("act", b)
          BY <4>1, <4>2, <5>2
        <5>4. j # 1
          BY <5>2, <5>3 DEF r, w
        <5>5. j \in 1..Len(w) /\ j - 1 \in 1..(i - 1)
          BY <3>1, <5>3, <5>4, <1>3
        <5>6. Tail(w)[j - 1] = w[j]
          BY <1>3, <5>4, <5>5
        <5> QED
          BY <5>3, <5>5, <5>6
      <4> QED
        BY <4>1, <4>2
    <3>4. writes'[k] = Tail(w) /\ mem'[k] = mem[k]
      BY <1>1, <1>5, <2>1
    <3>5. ASSUME NEW a \in Actions, writes'[k][i] = Row("act", a), mem'[k].act[a] = "running"
          PROVE  /\ k \in {"submit", "consumer"}
                 /\ \A b \in Actions : db'.act[b] = "running" /\ b # a =>
                      \E j \in 1..(i - 1) : writes'[k][j] = Row("act", b)
      <4>1. w[i + 1] = Row("act", a) /\ mem[k].act[a] = "running"
        BY <3>1, <3>4, <3>5
      <4> QED
        BY <3>3, <3>4, <4>1
    <3> QED
      BY <3>1, <3>2, <3>4, <3>5
  <2>2. CASE k # h
    <3>1. writes'[k] = writes[k] /\ i \in 1..Len(writes[k])
      BY <1>5, <2>2
    <3>2. writes[k][i].kind = "event" => IsFinished(mem[k])
      BY <3>1 DEF IInv, RowsInOrder
    <3>3. ASSUME NEW a \in Actions, writes[k][i] = Row("act", a), mem[k].act[a] = "running"
          PROVE  /\ k \in {"submit", "consumer"}
                 /\ \A b \in Actions : db'.act[b] = "running" /\ b # a =>
                      \E j \in 1..(i - 1) : writes[k][j] = Row("act", b)
      <4>1. StartsRow(k, i, a)
        BY <3>3 DEF StartsRow
      <4>2. /\ k \in {"submit", "consumer"}
            /\ \A b \in Actions : db.act[b] = "running" /\ b # a =>
                 \E j \in 1..(i - 1) : writes[k][j] = Row("act", b)
        BY <3>1, <4>1 DEF IInv, RowsInOrder
      <4>3. ASSUME NEW b \in Actions, db'.act[b] = "running", db.act[b] # "running"
            PROVE  FALSE
        <5>1. /\ h \in {"submit", "consumer"}
              /\ \E m \in 1..Len(writes[h]) : StartsRow(h, m, b)
          BY <1>7, <1>8, <4>3
        <5>2. Starting
          BY <2>2, <3>1, <4>1, <4>2, <5>1 DEF Starting
        <5>3. at["consumer"] = "idle" /\ writes["consumer"] = <<>>
          BY <5>2 DEF IInv, SubmitFirst, Handlers
        <5>4. h # "consumer"
          BY <1>1, <5>3
        <5>5. k # "consumer"
          BY <3>1, <5>3
        <5> QED
          BY <2>2, <4>2, <5>1, <5>4, <5>5
      <4> QED
        BY <4>2, <4>3
    <3> QED
      BY <1>1, <3>1, <3>2, <3>3
  <2> QED
    BY <2>1, <2>2
<1>11. SubmitFirst'
  <2>1. Starting' => Starting
    <3> SUFFICES ASSUME NEW i \in 1..Len(writes'["submit"]), NEW a \in Actions,
                        writes'["submit"][i] = Row("act", a),
                        mem["submit"].act[a] = "running"
                 PROVE  Starting
      BY <1>1 DEF Starting, StartsRow, Row
    <3>1. CASE h = "submit"
      <4>1. i + 1 \in 1..Len(writes["submit"]) /\ writes["submit"][i + 1] = Row("act", a)
        BY <1>3, <1>5, <3>1 DEF w
      <4> QED
        BY <4>1 DEF Starting, StartsRow
    <3>2. CASE h # "submit"
      BY <1>5, <3>2 DEF Starting, StartsRow, Handlers
    <3> QED
      BY <3>1, <3>2
  <2>2. Starting' => /\ at'["consumer"] = "idle" /\ at'["scanner"] = "idle"
                     /\ \A c \in Commands : executed'[c] = 0
    BY <1>1, <2>1 DEF IInv, SubmitFirst
  <2>3. ASSUME at["submit"] = "new", NEW a \in Actions PROVE db'.act[a] # "running"
    <3>1. Starting /\ h # "submit"
      BY <1>1, <2>3 DEF Starting
    <3>2. h # "consumer" /\ db.act[a] # "running"
      BY <1>1, <2>3, <3>1 DEF IInv, SubmitFirst
    <3> QED
      BY <1>7, <1>8, <3>1, <3>2
  <2>4. \A k \in Handlers : at'[k] # "work" => writes'[k] = <<>>
    BY <1>1, <1>5 DEF IInv, SubmitFirst
  <2> QED
    BY <1>1, <2>2, <2>3, <2>4 DEF SubmitFirst
<1>12. QueuedInOrder' /\ DeviceOrder'
  BY <1>1 DEF IInv, QueuedInOrder, DeviceOrder, Settled, Precedes
<1>13. r.kind = "event" => IsFinished(t)
  BY <1>3 DEF IInv, RowsInOrder, r, t, w
<1>14. CompletedMeansSettled'
  <2> SUFFICES ASSUME "completed" \in published' \cup {db'.task}, NEW c \in Commands
               PROVE  Settled(c)'
    BY DEF CompletedMeansSettled, Completed
  <2>1. CASE t.task = "completed"
    BY <1>1, <1>2, <1>6, <2>1, SettledIs DEF TreeTells
  <2>2. CASE "completed" \in published \cup {db.task}
    <3>1. Settled(c)
      BY <2>2 DEF IInv, CompletedMeansSettled, Completed
    <3> QED
      BY <1>1, <3>1 DEF Settled
  <2> QED
    BY <1>1, <1>4, <2>1, <2>2
<1>15. TypeOK'
  <2>1. writes' \in [Handlers -> Seq(Rows)]
    BY <1>1, <1>2, <1>3
  <2>2. published' \subseteq {"completed", "failed", "cancelled"}
    BY <1>1, <1>13 DEF IInv, TypeOK, IsFinished
  <2> QED
    BY <1>1, <1>4, <2>1, <2>2 DEF IInv, TypeOK
<1> QED
  BY <1>9, <1>10, <1>11, <1>12, <1>14, <1>15 DEF IInv

LEMMA NextStep ==
  ASSUME IInv, [Next]_vars
  PROVE  IInv'
<1>1. CASE Submit
  BY <1>1, SubmitStep
<1>2. CASE Consume
  BY <1>2, ConsumeStep
<1>3. CASE CancelTask
  BY <1>3, CancelStep
<1>4. CASE Crash
  BY <1>4, CrashStep
<1>5. ASSUME NEW c \in Commands, Scan(c) PROVE IInv'
  BY <1>5, ScanStep
<1>6. ASSUME NEW h \in Handlers, Step(h) \/ Abandon(h) PROVE IInv'
  <2>1. CASE WriteRow(h)
    BY <2>1, WriteRowStep
  <2>2. CASE Call(h)
    BY <2>2, CallStep
  <2>3. CASE Finish(h)
    BY <2>3, FinishStep
  <2>4. CASE Abandon(h)
    BY <2>4, AbandonStep
  <2> QED
    BY <1>6, <2>1, <2>2, <2>3, <2>4 DEF Step
<1>7. CASE UNCHANGED vars
  <2>1. /\ UNCHANGED <<db, handlers, executed, published, ends>>
        /\ topic' = topic /\ fetched' = fetched
    BY <1>7 DEF vars, handlers, ends
  <2>2. topic' \in Seq(Commands) /\ fetched' \in 0..Len(topic')
    BY <2>1 DEF IInv, TypeOK
  <2> QED
    BY <2>1, <2>2, OffsetsStep
<1> QED
  BY <1>1, <1>2, <1>3, <1>4, <1>5, <1>6, <1>7 DEF Next

-----------------------------------------------------------------------------
(* The theorems: every shape of task, every choice of faults, any number   *)
(* of crashes.                                                             *)

\* The inductive invariant holds: every copy of the tree, in the database or in
\* the memory of a handler, stays true of what was executed and given up,
\* however old it is, and the handlers start one action after the other.
THEOREM Invariance == Spec => []IInv
<1>1. Init => IInv
  BY InitStep
<1>2. IInv /\ [Next]_vars => IInv'
  BY NextStep
<1> QED
  BY <1>1, <1>2, PTL DEF Spec

\* Rows, copies, queues and offsets stay well formed: a stale copy can be
\* written back in any order and the rows are still a tree.
THEOREM TypeCorrect == Spec => []TypeOK
<1>1. IInv => TypeOK
  BY DEF IInv
<1> QED
  BY <1>1, Invariance, PTL

\* The task a handler reports as completed (persistOutcome's task row and
\* task.completed event) left no command out: each was executed by the device
\* or given up by some handler, whichever handlers raced with stale copies,
\* were cut short between two rows or crashed.
THEOREM CompletedIsSettled == Spec => []CompletedMeansSettled
<1>1. IInv => CompletedMeansSettled
  BY DEF IInv
<1> QED
  BY <1>1, Invariance, PTL

\* dispatchCommands keeps the order of the plan across handlers: a command
\* reaches the device only after every command of the earlier actions, and the
\* earlier ones of its sequential action, were executed or given up.
THEOREM PlanOrder == Spec => []DeviceOrder
<1>1. IInv => DeviceOrder
  BY DEF IInv
<1> QED
  BY <1>1, Invariance, PTL

\* One action of a task runs at a time, as the plan asks: the rows never say
\* that two are running, although a handler writes the end of one and the start
\* of the next in two UPDATEs.
THEOREM OneActionRuns ==
  Spec => [](\A a, b \in Actions :
               db.act[a] = "running" /\ db.act[b] = "running" => a = b)
<1>1. IInv => \A a, b \in Actions :
                 db.act[a] = "running" /\ db.act[b] = "running" => a = b
  BY DEF IInv, TreesTell, TreeTells
<1> QED
  BY <1>1, Invariance, PTL
=============================================================================
