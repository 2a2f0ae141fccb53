-------------------------- MODULE PlanOutbox_proofs --------------------------
(***************************************************************************)
(* For any set of workers and plans and any number of faults: the outbox    *)
(* keeps its invariants and implements PlanContract.                        *)
(***************************************************************************)
EXTENDS PlanOutbox, SequenceTheorems, TLAPS

USE OutboxAssumption

\* A new attempt is appended; the attempts before it keep their place.
LEMMA NewAttemptFacts ==
    ASSUME NEW a \in Seq(ExecutionStatus)
    PROVE  /\ NewAttempt(a) \in Seq(ExecutionStatus)
           /\ Len(NewAttempt(a)) = Len(a) + 1
           /\ NewAttempt(a)[Len(a) + 1] = "claimed"
           /\ \A i \in 1..Len(a) :
                NewAttempt(a)[i] = IF a[i] = "claimed" THEN "uncertain" ELSE a[i]
<1> DEFINE b == [i \in 1..Len(a) |-> IF a[i] = "claimed" THEN "uncertain" ELSE a[i]]
<1>1. Len(a) \in Nat /\ DOMAIN a = 1..Len(a) /\ \A i \in 1..Len(a) : a[i] \in ExecutionStatus
  BY LenProperties, ElementOfSeq
<1>2. \A i \in 1..Len(a) : b[i] \in ExecutionStatus
  BY <1>1 DEF ExecutionStatus
<1>3. b \in [1..Len(a) -> ExecutionStatus]
  BY <1>2
<1>4. b \in Seq(ExecutionStatus) /\ Len(b) = Len(a)
  BY <1>1, <1>3
<1>5. \A i \in 1..Len(a) : b[i] = IF a[i] = "claimed" THEN "uncertain" ELSE a[i]
  OBVIOUS
<1>6. NewAttempt(a) = Append(b, "claimed")
  BY <1>1 DEF NewAttempt
<1>7. "claimed" \in ExecutionStatus
  BY DEF ExecutionStatus
<1> HIDE DEF b
<1> QED
  BY <1>1, <1>4, <1>5, <1>6, <1>7

\* Recording an outcome changes one attempt.
LEMMA RecordFacts ==
    ASSUME NEW a \in Seq(ExecutionStatus), NEW t \in 1..Len(a),
           NEW m \in ExecutionStatus
    PROVE  /\ [a EXCEPT ![t] = m] \in Seq(ExecutionStatus)
           /\ Len([a EXCEPT ![t] = m]) = Len(a)
           /\ [a EXCEPT ![t] = m][t] = m
           /\ \A i \in 1..Len(a) : i # t => [a EXCEPT ![t] = m][i] = a[i]
BY ExceptSeq

Holding == {"claimed", "calling", "marking"}

\* What a busy worker carries.
LEMMA BusyFacts ==
    ASSUME TypeOK, NEW w \in Workers
    PROVE  /\ worker[w].pc \in {"idle", "picked", "claimed", "calling", "marking"}
           /\ worker[w].pc # "idle" =>
                worker[w] \in Busy /\ worker[w].plan \in Plans /\ worker[w].token \in Nat
           /\ worker[w].pc = "idle" => worker[w] = Idle
           /\ worker[w].pc = "marking" => worker[w].mark \in Settled \cup {"uncertain"}
BY DEF TypeOK, Busy, Idle

\* A worker that only goes on with the claim it holds, or drops it, and reads
\* an answer at most, disturbs nothing.
LEMMA MoveOn ==
    ASSUME IInv, NEW w \in Workers, NEW u,
           worker' = [worker EXCEPT ![w] = u],
           \/ u = Idle
           \/ /\ u \in Busy
              /\ worker[w].pc \in Holding /\ u.pc \in Holding
              /\ u.plan = worker[w].plan /\ u.token = worker[w].token
              /\ u.pc = "marking" /\ u.mark = "submitted" => tasks[u.plan] = 1,
           UNCHANGED <<row, attempts, status, tasks, deleted>>,
           replies' \subseteq replies, requests' \subseteq Plans \X Nat,
           faults' \in 0..MaxFaults
    PROVE  IInv'
<1> USE DEF IInv
<1>1. \A v \in Workers : worker'[v] = IF v = w THEN u ELSE worker[v]
  BY DEF TypeOK
<1>2. TypeOK'
  BY <1>1 DEF TypeOK
<1>3. RecordsAgree'
  BY DEF RecordsAgree
<1>4. OneOwner'
  <2>1. \A v \in Workers : worker'[v].pc \in Holding =>
           /\ worker[v].pc \in Holding
           /\ worker'[v].plan = worker[v].plan /\ worker'[v].token = worker[v].token
    BY <1>1 DEF Holding, Idle
  <2> QED
    BY <2>1 DEF OneOwner, Holding
<1>5. TokensHandedOut'
  <2> SUFFICES ASSUME NEW v \in Workers, worker'[v].pc # "idle"
               PROVE  /\ worker'[v].token <= row[worker'[v].plan].token
                      /\ worker'[v].pc # "picked" => worker'[v].token > 0
    BY DEF TokensHandedOut
  <2>1. CASE v # w
    BY <1>1, <2>1 DEF TokensHandedOut
  <2>2. CASE v = w
    BY <1>1, <2>2 DEF TokensHandedOut, Idle, Holding
  <2> QED
    BY <2>1, <2>2
<1>6. AnswersAreTasks'
  BY <1>1 DEF AnswersAreTasks, Idle
<1> QED
  BY <1>2, <1>3, <1>4, <1>5, <1>6

\* Picking a row reads its token, which is not a claim yet.
LEMMA PickStep ==
    ASSUME IInv, NEW w \in Workers, NEW p \in Plans, Pick(w, p)
    PROVE  IInv'
<1> USE DEF IInv
<1> DEFINE u == [pc |-> "picked", plan |-> p, token |-> row[p].token]
<1>1. \A v \in Workers : worker'[v] = IF v = w THEN u ELSE worker[v]
  BY DEF TypeOK, Pick
<1>2. UNCHANGED <<row, attempts, status, network, deleted, faults>>
  BY DEF Pick
<1>3. TypeOK'
  <2>1. u \in Busy
    BY DEF TypeOK, Busy
  <2>2. worker' = [worker EXCEPT ![w] = u]
    BY DEF Pick
  <2> QED
    BY <1>2, <2>1, <2>2 DEF TypeOK, network
<1>4. RecordsAgree'
  BY <1>2 DEF RecordsAgree
<1>5. OneOwner'
  BY <1>1 DEF OneOwner
<1>6. TokensHandedOut'
  <2>1. row[p].token \in Nat /\ row[p].token <= row[p].token
    BY DEF TypeOK
  <2> SUFFICES ASSUME NEW v \in Workers, worker'[v].pc # "idle"
               PROVE  /\ worker'[v].token <= row[worker'[v].plan].token
                      /\ worker'[v].pc # "picked" => worker'[v].token > 0
    BY <1>2 DEF TokensHandedOut
  <2>2. CASE v = w
    BY <1>1, <2>1, <2>2
  <2>3. CASE v # w
    BY <1>1, <2>3 DEF TokensHandedOut
  <2> QED
    BY <2>2, <2>3
<1>7. AnswersAreTasks'
  BY <1>1, <1>2 DEF AnswersAreTasks, network
<1> QED
  BY <1>3, <1>4, <1>5, <1>6, <1>7

\* Claiming takes a token nobody has and closes the attempts before it.
LEMMA ClaimStep ==
    ASSUME IInv, NEW w \in Workers, Claim(w)
    PROVE  IInv'
<1> USE DEF IInv
<1> DEFINE p == worker[w].plan
           t == worker[w].token
<1>1. worker[w].pc = "picked" /\ UNCHANGED <<status, network, deleted, faults>>
  BY DEF Claim
<1>2. p \in Plans /\ t \in Nat
  BY <1>1, BusyFacts
<1>3. CASE ~Unclaimed(p, t)
  <2>1. worker' = [worker EXCEPT ![w] = Idle] /\ UNCHANGED <<row, attempts>>
    BY <1>3 DEF Claim, Leave
  <2>2. requests' \subseteq Plans \X Nat /\ faults' \in 0..MaxFaults
        /\ replies' \subseteq replies
    BY <1>1 DEF TypeOK, network
  <2> QED
    BY <1>1, <2>1, <2>2, MoveOn DEF network
<1>4. CASE Unclaimed(p, t)
  <2> DEFINE u == [pc |-> "claimed", plan |-> p, token |-> t + 1]
             r == [status |-> "claimed", token |-> t + 1, live |-> TRUE,
                   due |-> row[p].due]
             a == attempts[p]
  <2>1. /\ row[p].token = t /\ row[p].status \in Open
        /\ row' = [row EXCEPT ![p] = r]
        /\ attempts' = [attempts EXCEPT ![p] = NewAttempt(a)]
        /\ worker' = [worker EXCEPT ![w] = u]
    BY <1>4 DEF Claim, Unclaimed
  <2>2. \A v \in Workers : worker'[v] = IF v = w THEN u ELSE worker[v]
    BY <2>1 DEF TypeOK
  <2>3. \A q \in Plans : /\ row'[q] = IF q = p THEN r ELSE row[q]
                         /\ attempts'[q] = IF q = p THEN NewAttempt(a) ELSE attempts[q]
    BY <2>1 DEF TypeOK
  <2>4. a \in Seq(ExecutionStatus) /\ Len(a) \in Nat
    BY <1>2, LenProperties DEF TypeOK
  <2>5. /\ NewAttempt(a) \in Seq(ExecutionStatus)
        /\ Len(NewAttempt(a)) = Len(a) + 1
        /\ NewAttempt(a)[Len(a) + 1] = "claimed"
        /\ \A i \in 1..Len(a) :
             NewAttempt(a)[i] = IF a[i] = "claimed" THEN "uncertain" ELSE a[i]
    BY <2>4, NewAttemptFacts
  <2>6. TypeOK'
    <3>1. r \in [status : RowStatus, token : Nat, live : BOOLEAN, due : BOOLEAN]
      BY <1>2 DEF TypeOK, RowStatus, Open
    <3>2. u \in Busy
      BY <1>2 DEF Busy
    <3> HIDE DEF r, u
    <3> QED
      BY <1>1, <2>1, <2>5, <3>1, <3>2 DEF TypeOK, network
  <2>7. RecordsAgree'
    <3> SUFFICES ASSUME NEW q \in Plans
                 PROVE  LET n == Len(attempts'[q])
                        IN  /\ row'[q].token = n
                            /\ \A i \in 1..(n - 1) : attempts'[q][i] = "uncertain"
                            /\ row'[q].status = "pending" =>
                                 n = 0 \/ attempts'[q][n] = "uncertain"
                            /\ row'[q].status # "pending" =>
                                 n > 0 /\ attempts'[q][n] = row'[q].status
                            /\ status'[q] = IF row'[q].status \in {"submitted", "stale"}
                                            THEN row'[q].status ELSE "ready"
      BY DEF RecordsAgree
    <3>1. CASE q # p
      BY <1>1, <2>3, <3>1 DEF RecordsAgree
    <3>2. CASE q = p
      <4>1. t = Len(a) /\ status[p] = "ready"
        BY <1>2, <2>1 DEF RecordsAgree, Open
      <4>2. \A i \in 1..Len(a) : a[i] \in {"claimed", "uncertain"}
        <5> SUFFICES ASSUME NEW i \in 1..Len(a) PROVE a[i] \in {"claimed", "uncertain"}
          OBVIOUS
        <5>1. CASE i = Len(a)
          BY <1>2, <2>1, <2>4, <5>1 DEF RecordsAgree, Open
        <5>2. CASE i # Len(a)
          BY <1>2, <2>4, <5>2 DEF RecordsAgree
        <5> QED
          BY <5>1, <5>2
      <4>3. \A i \in 1..Len(a) : NewAttempt(a)[i] = "uncertain"
        BY <2>5, <4>2
      <4> HIDE DEF a
      <4> QED
        BY <1>1, <1>2, <2>3, <2>4, <2>5, <3>2, <4>1, <4>3
    <3> QED
      BY <3>1, <3>2
  <2>8. OneOwner'
    <3>1. \A v \in Workers :
            v # w /\ worker[v].pc # "idle" /\ worker[v].plan = p => worker[v].token < t + 1
      BY <1>2, <2>1, BusyFacts DEF TokensHandedOut
    <3> QED
      BY <2>2, <3>1, BusyFacts DEF OneOwner
  <2>9. TokensHandedOut'
    <3> SUFFICES ASSUME NEW v \in Workers, worker'[v].pc # "idle"
                 PROVE  /\ worker'[v].token <= row'[worker'[v].plan].token
                        /\ worker'[v].pc # "picked" => worker'[v].token > 0
      BY DEF TokensHandedOut
    <3>1. CASE v = w
      BY <1>2, <2>2, <2>3, <3>1
    <3>2. CASE v # w
      BY <1>2, <2>1, <2>2, <2>3, <3>2, BusyFacts DEF TokensHandedOut
    <3> QED
      BY <3>1, <3>2
  <2>10. AnswersAreTasks'
    BY <1>1, <2>2 DEF AnswersAreTasks, network
  <2> QED
    BY <2>6, <2>7, <2>8, <2>9, <2>10
<1> QED
  BY <1>3, <1>4

\* Dispatch handling a call creates a task at most once.
LEMMA DeliverStep ==
    ASSUME IInv, NEW p \in Plans, NEW t \in Nat, Deliver(p, t)
    PROVE  IInv'
<1> USE DEF IInv
<1>1. /\ UNCHANGED <<row, attempts, status, worker, deleted, faults>>
      /\ requests' \subseteq requests
      /\ replies' = replies \cup {<<p, t>>}
  BY DEF Deliver
<1>2. /\ tasks' \in [Plans -> Nat]
      /\ tasks'[p] = 1
      /\ \A q \in Plans : q # p => tasks'[q] = tasks[q]
  BY DEF Deliver, KnownKey, TypeOK, AnswersAreTasks
<1>3. TypeOK'
  BY <1>1, <1>2 DEF TypeOK
<1>4. RecordsAgree' /\ OneOwner' /\ TokensHandedOut'
  BY <1>1 DEF RecordsAgree, OneOwner, TokensHandedOut
<1>5. AnswersAreTasks'
  <2>1. \A q \in Plans : tasks[q] = 1 => tasks'[q] = 1
    BY <1>2
  <2>2. \A q \in Plans : tasks'[q] <= 1
    BY <1>2 DEF AnswersAreTasks
  <2>3. \A r \in replies' : tasks'[r[1]] = 1
    <3>1. \A r \in replies : r[1] \in Plans
      BY DEF TypeOK
    <3> QED
      BY <1>1, <1>2, <2>1, <3>1 DEF AnswersAreTasks
  <2>4. \A w \in Workers : worker'[w].pc = "marking" /\ worker'[w].mark = "submitted"
                             => tasks'[worker'[w].plan] = 1
    BY <1>1, <2>1, BusyFacts DEF AnswersAreTasks
  <2> QED
    BY <2>2, <2>3, <2>4 DEF AnswersAreTasks
<1> QED
  BY <1>3, <1>4, <1>5

\* An outcome is written only under the last token, over a claimed attempt.
LEMMA MarkStep ==
    ASSUME IInv, NEW w \in Workers, Mark(w)
    PROVE  IInv'
<1> USE DEF IInv
<1> DEFINE p == worker[w].plan
           t == worker[w].token
           m == worker[w].mark
<1>1. /\ worker[w].pc = "marking" /\ worker' = [worker EXCEPT ![w] = Idle]
      /\ UNCHANGED <<network, deleted, faults>>
  BY DEF Mark, Leave
<1>2. p \in Plans /\ t \in Nat /\ m \in Settled \cup {"uncertain"}
  BY <1>1, BusyFacts
<1>3. /\ requests' \subseteq Plans \X Nat /\ faults' \in 0..MaxFaults
      /\ replies' \subseteq replies
  BY <1>1 DEF TypeOK, network
<1>4. CASE ~MayMark(p, t, m)
  <2>1. UNCHANGED <<row, attempts, status>>
    BY <1>4 DEF Mark
  <2> QED
    BY <1>1, <1>3, <2>1, MoveOn DEF network
<1>5. CASE MayMark(p, t, m)
  <2> DEFINE r == [status |-> IF m = "uncertain" THEN "pending" ELSE m,
                   token |-> row[p].token, live |-> FALSE,
                   due |-> m # "uncertain" /\ row[p].due]
             a == attempts[p]
  <2>1. /\ row[p].status = "claimed" /\ row[p].token = t /\ a[t] = "claimed"
        /\ m \in {"submitted", "stale"} => status[p] = "ready"
        /\ attempts' = [attempts EXCEPT ![p][t] = m]
        /\ status' = [status EXCEPT ![p] = StatusAfter(p, m)]
        /\ row' = [row EXCEPT ![p] = r]
    BY <1>5 DEF Mark, MayMark
  <2>2. a \in Seq(ExecutionStatus) /\ Len(a) \in Nat /\ t = Len(a) /\ t \in 1..Len(a)
    <3>1. a \in Seq(ExecutionStatus) /\ Len(a) \in Nat
      BY <1>2, LenProperties DEF TypeOK
    <3>2. t = Len(a) /\ Len(a) > 0
      BY <1>2, <2>1 DEF RecordsAgree
    <3> QED
      BY <3>1, <3>2
  <2>3. m \in ExecutionStatus
    BY <1>2 DEF ExecutionStatus, Settled
  <2>4. /\ [a EXCEPT ![t] = m] \in Seq(ExecutionStatus)
        /\ Len([a EXCEPT ![t] = m]) = Len(a)
        /\ [a EXCEPT ![t] = m][t] = m
        /\ \A i \in 1..Len(a) : i # t => [a EXCEPT ![t] = m][i] = a[i]
    BY <2>2, <2>3, RecordFacts
  <2>5. \A q \in Plans :
          /\ row'[q] = IF q = p THEN r ELSE row[q]
          /\ attempts'[q] = IF q = p THEN [a EXCEPT ![t] = m] ELSE attempts[q]
          /\ status'[q] = IF q = p THEN StatusAfter(p, m) ELSE status[q]
    BY <2>1 DEF TypeOK
  <2>6. \A v \in Workers : worker'[v] = IF v = w THEN Idle ELSE worker[v]
    BY <1>1 DEF TypeOK
  <2>7. TypeOK'
    <3>1. r \in [status : RowStatus, token : Nat, live : BOOLEAN, due : BOOLEAN]
      BY <1>2 DEF TypeOK, RowStatus, Open, Settled
    <3>2. StatusAfter(p, m) \in PlanStatus
      BY <1>2 DEF TypeOK, StatusAfter, PlanStatus, Settled
    <3> HIDE DEF r
    <3> QED
      BY <1>1, <1>3, <2>1, <2>4, <3>1, <3>2 DEF TypeOK, network
  <2>8. RecordsAgree'
    <3> SUFFICES ASSUME NEW q \in Plans
                 PROVE  LET n == Len(attempts'[q])
                        IN  /\ row'[q].token = n
                            /\ \A i \in 1..(n - 1) : attempts'[q][i] = "uncertain"
                            /\ row'[q].status = "pending" =>
                                 n = 0 \/ attempts'[q][n] = "uncertain"
                            /\ row'[q].status # "pending" =>
                                 n > 0 /\ attempts'[q][n] = row'[q].status
                            /\ status'[q] = IF row'[q].status \in {"submitted", "stale"}
                                            THEN row'[q].status ELSE "ready"
      BY DEF RecordsAgree
    <3>1. CASE q # p
      BY <2>5, <3>1 DEF RecordsAgree
    <3>2. CASE q = p
      <4> DEFINE b == [a EXCEPT ![t] = m]
      <4>1. status[p] = "ready"
        BY <1>2, <2>1 DEF RecordsAgree
      <4>2. \A i \in 1..(Len(a) - 1) : a[i] = "uncertain"
        BY <1>2 DEF RecordsAgree
      <4>3. \A i \in 1..(Len(a) - 1) : b[i] = "uncertain"
        BY <2>2, <2>4, <4>2
      <4>4. r.token = Len(b) /\ b[Len(b)] = m /\ Len(b) > 0 /\ Len(b) = Len(a)
        BY <2>1, <2>2, <2>4
      <4>5. StatusAfter(p, m) = IF r.status \in {"submitted", "stale"}
                                THEN r.status ELSE "ready"
        BY <1>2, <4>1 DEF StatusAfter, Settled
      <4>6. /\ r.status = "pending" => m = "uncertain"
            /\ r.status # "pending" => m = r.status
        BY <1>2 DEF Settled
      <4>7. row'[q] = r /\ attempts'[q] = b /\ status'[q] = StatusAfter(p, m)
        BY <2>5, <3>2
      <4> HIDE DEF a, b, r
      <4> QED
        BY <4>3, <4>4, <4>5, <4>6, <4>7
    <3> QED
      BY <3>1, <3>2
  <2>9. OneOwner'
    BY <2>6 DEF OneOwner, Idle
  <2>10. TokensHandedOut'
    <3>1. \A q \in Plans : row'[q].token = row[q].token
      BY <2>5
    <3> QED
      BY <2>6, <3>1, BusyFacts DEF TokensHandedOut, Idle
  <2>11. AnswersAreTasks'
    BY <1>1, <2>6 DEF AnswersAreTasks, Idle, network
  <2> QED
    BY <2>7, <2>8, <2>9, <2>10, <2>11
<1> QED
  BY <1>4, <1>5

\* The clock only changes the two flags of a row.
LEMMA ClockStep ==
    ASSUME IInv, NEW p \in Plans, Expire(p) \/ BecomeDue(p)
    PROVE  IInv'
<1> USE DEF IInv
<1>1. /\ UNCHANGED <<attempts, status, worker, network, deleted>>
      /\ faults' \in 0..MaxFaults
  BY DEF Expire, BecomeDue, Fault, TypeOK
<1>2. /\ row' \in [Plans -> [status : RowStatus, token : Nat,
                            live : BOOLEAN, due : BOOLEAN]]
      /\ \A q \in Plans : row'[q].status = row[q].status /\ row'[q].token = row[q].token
  <2>1. CASE Expire(p)
    BY <2>1 DEF Expire, TypeOK
  <2>2. CASE BecomeDue(p)
    BY <2>2 DEF BecomeDue, TypeOK
  <2> QED
    BY <2>1, <2>2
<1>3. TypeOK'
  BY <1>1, <1>2 DEF TypeOK, network
<1>4. RecordsAgree'
  BY <1>1, <1>2 DEF RecordsAgree
<1>5. OneOwner'
  BY <1>1 DEF OneOwner
<1>6. TokensHandedOut'
  BY <1>1, <1>2, BusyFacts DEF TokensHandedOut
<1>7. AnswersAreTasks'
  BY <1>1 DEF AnswersAreTasks, network
<1> QED
  BY <1>3, <1>4, <1>5, <1>6, <1>7

-----------------------------------------------------------------------------
\* Every behaviour keeps the inductive invariant.
THEOREM Invariance == Spec => []IInv
<1>1. Init => IInv
  <2> SUFFICES ASSUME Init PROVE IInv
    OBVIOUS
  <2>1. TypeOK
    BY EmptySeq DEF Init, TypeOK, RowStatus, Open, PlanStatus
  <2>2. RecordsAgree
    BY EmptySeq DEF Init, RecordsAgree
  <2>3. OneOwner /\ TokensHandedOut /\ AnswersAreTasks
    BY DEF Init, OneOwner, TokensHandedOut, AnswersAreTasks, Idle
  <2> QED
    BY <2>1, <2>2, <2>3 DEF IInv
<1>2. IInv /\ [Next]_vars => IInv'
  <2> SUFFICES ASSUME IInv, [Next]_vars PROVE IInv'
    OBVIOUS
  <2>1. ASSUME NEW w \in Workers, Step(w) PROVE IInv'
    <3> DEFINE p == worker[w].plan
               t == worker[w].token
               Marking(m) == [pc |-> "marking", plan |-> p, token |-> t, mark |-> m]
               Calling == [worker[w] EXCEPT !.pc = "calling"]
    <3>1. CASE \E q \in Plans : Pick(w, q)
      BY <3>1, PickStep
    <3>2. CASE Claim(w)
      BY <3>2, ClaimStep
    <3>3. CASE Mark(w)
      BY <3>3, MarkStep
    <3>4. TypeOK /\ requests \subseteq Plans \X Nat /\ faults \in 0..MaxFaults
      BY DEF IInv, TypeOK
    <3>5. CASE CatalogMatches(w)
      <4>1. worker[w] \in Busy /\ worker[w].pc = "claimed" /\ p \in Plans /\ t \in Nat
        BY <3>4, <3>5, BusyFacts DEF CatalogMatches
      <4>2. /\ Calling \in Busy /\ Calling.pc = "calling"
            /\ Calling.plan = p /\ Calling.token = t
        BY <4>1 DEF Busy
      <4>3. worker' = [worker EXCEPT ![w] = Calling]
        BY <3>4, <3>5 DEF CatalogMatches, TypeOK
      <4>4. /\ UNCHANGED <<row, attempts, status, tasks, deleted>> /\ replies' \subseteq replies
            /\ requests' \subseteq Plans \X Nat /\ faults' \in 0..MaxFaults
        BY <3>4, <3>5, <4>1 DEF CatalogMatches
      <4> HIDE DEF Calling
      <4> QED
        BY <4>1, <4>2, <4>3, <4>4, MoveOn DEF Holding
    <3>6. ASSUME worker[w].pc \in {"claimed", "calling"},
                 NEW m \in Settled \cup {"uncertain"}, ToMark(w, m),
                 m = "submitted" => tasks[p] = 1,
                 UNCHANGED <<row, attempts, status, tasks, deleted>>,
                 replies' \subseteq replies, requests' \subseteq Plans \X Nat,
                 faults' \in 0..MaxFaults
          PROVE  IInv'
      <4>1. p \in Plans /\ t \in Nat
        BY <3>4, <3>6, BusyFacts
      <4>2. /\ Marking(m) \in Busy /\ Marking(m).pc = "marking"
            /\ Marking(m).plan = p /\ Marking(m).token = t /\ Marking(m).mark = m
        BY <4>1 DEF Busy
      <4>3. worker' = [worker EXCEPT ![w] = Marking(m)]
        BY <3>6, <3>4 DEF ToMark, TypeOK
      <4> HIDE DEF Marking
      <4> QED
        BY <3>6, <4>2, <4>3, MoveOn DEF Holding
    <3>7. CASE CatalogChanged(w)
      BY <3>4, <3>6, <3>7 DEF CatalogChanged, network, Settled
    <3>8. CASE CatalogError(w)
      BY <3>4, <3>6, <3>8 DEF CatalogError, Fault, network
    <3>9. CASE Answer(w)
      <4>1. <<p, t>> \in replies /\ worker[w].pc = "calling"
        BY <3>9 DEF Answer
      <4>2. tasks[p] = 1
        BY <4>1 DEF IInv, AnswersAreTasks
      <4> QED
        BY <3>4, <3>6, <3>9, <4>2 DEF Answer, Settled
    <3>10. CASE Refuse(w)
      BY <3>4, <3>6, <3>10 DEF Refuse, Settled
    <3>11. CASE Timeout(w)
      BY <3>4, <3>6, <3>11 DEF Timeout, Fault, network
    <3>12. CASE ScopeGone(w)
      BY <3>4, <3>6, <3>12 DEF ScopeGone, network
    <3> QED
      BY <2>1, <3>1, <3>2, <3>3, <3>5, <3>7, <3>8, <3>9, <3>10, <3>11, <3>12 DEF Step
  <2>2. ASSUME NEW w \in Workers, Crash(w) PROVE IInv'
    <3>1. /\ worker' = [worker EXCEPT ![w] = Idle]
          /\ UNCHANGED <<row, attempts, status, tasks, deleted>> /\ replies' \subseteq replies
          /\ requests' \subseteq Plans \X Nat /\ faults' \in 0..MaxFaults
      BY <2>2 DEF Crash, Leave, Fault, network, IInv, TypeOK
    <3> QED
      BY <3>1, MoveOn
  <2>3. ASSUME NEW p \in Plans, Expire(p) \/ BecomeDue(p) PROVE IInv'
    BY <2>3, ClockStep
  <2>4. ASSUME NEW p \in Plans, NEW t \in 1..(MaxFaults + 1), Deliver(p, t) PROVE IInv'
    BY <2>4, DeliverStep
  <2>5. ASSUME NEW p \in Plans, DeleteScope(p) PROVE IInv'
    BY <2>5 DEF DeleteScope, network, IInv, TypeOK, RecordsAgree, OneOwner,
                TokensHandedOut, AnswersAreTasks
  <2>6. CASE UNCHANGED vars
    BY <2>6 DEF vars, IInv, TypeOK, RecordsAgree, OneOwner, TokensHandedOut,
                AnswersAreTasks
  <2> QED
    BY <2>1, <2>2, <2>3, <2>4, <2>5, <2>6 DEF Next
<1> QED
  BY <1>1, <1>2, PTL DEF Spec

\* The state keeps its shape.
THEOREM TypeCorrect == Spec => []TypeOK
BY Invariance, PTL DEF IInv

\* The outbox row, the execution rows and the plan never disagree.
THEOREM RecordsCoherent == Spec => []RecordsAgree
BY Invariance, PTL DEF IInv

\* A claim has one owner, however many workers compete.
THEOREM SingleOwner == Spec => []OneOwner
BY Invariance, PTL DEF IInv

\* The outbox implements PlanContract: one task per plan, one settlement, and a
\* submitted plan has its task.
THEOREM Refinement == Spec => ContractSpec
<1>1. Init => Contract!Init
  BY DEF Init, Contract!Init, Outcome, Open
<1>2. IInv /\ [Next]_vars => [Contract!Next]_Contract!vars
  <2> SUFFICES ASSUME IInv, [Next]_vars, ~UNCHANGED <<Outcome, tasks>>
               PROVE  Contract!Next
    BY DEF Contract!vars
  <2> USE DEF IInv
  <2>1. ASSUME NEW p \in Plans, NEW t \in 1..(MaxFaults + 1), Deliver(p, t)
        PROVE  Contract!Next
    <3>1. UNCHANGED Outcome
      BY <2>1 DEF Deliver, Outcome
    <3>2. ~(tasks[p] > 0)
      BY <2>1, <3>1 DEF Deliver, KnownKey
    <3>3. tasks[p] \in Nat
      BY DEF TypeOK
    <3>4. tasks[p] = 0
      BY <3>2, <3>3
    <3>5. tasks' = [tasks EXCEPT ![p] = 1]
      BY <2>1, <3>2, <3>4 DEF Deliver, KnownKey
    <3> QED
      BY <3>1, <3>4, <3>5 DEF Contract!Next, Contract!Create
  <2>2. ASSUME NEW w \in Workers, Mark(w) PROVE Contract!Next
    <3> DEFINE p == worker[w].plan
               t == worker[w].token
               m == worker[w].mark
    <3>1. p \in Plans /\ m \in Settled \cup {"uncertain"} /\ worker[w].pc = "marking"
      BY <2>2, BusyFacts DEF Mark
    <3>2. UNCHANGED tasks
      BY <2>2 DEF Mark, network
    <3>3. MayMark(p, t, m)
      BY <2>2, <3>2 DEF Mark, Outcome
    <3>4. /\ row[p].status = "claimed"
          /\ \E r : /\ row' = [row EXCEPT ![p] = r]
                    /\ r.status = IF m = "uncertain" THEN "pending" ELSE m
      BY <2>2, <3>3 DEF Mark, MayMark
    <3>5. PICK r : /\ row' = [row EXCEPT ![p] = r]
                   /\ r.status = IF m = "uncertain" THEN "pending" ELSE m
      BY <3>4
    <3>6. \A q \in Plans : row'[q] = IF q = p THEN r ELSE row[q]
      BY <3>1, <3>5 DEF TypeOK
    <3>7. Outcome[p] = "open"
      BY <3>1, <3>4 DEF Outcome, Open
    <3>8. CASE m = "uncertain"
      <4>1. UNCHANGED Outcome
        BY <3>1, <3>4, <3>5, <3>6, <3>8 DEF Outcome, Open
      <4> QED
        BY <3>2, <4>1
    <3>9. CASE m # "uncertain"
      <4>1. m \in {"submitted", "stale", "failed"} /\ m \notin Open
        BY <3>1, <3>9 DEF Settled, Open
      <4>2. Outcome' = [Outcome EXCEPT ![p] = m]
        <5>1. row'[p].status = m
          BY <3>1, <3>5, <3>6, <3>9
        <5>2. Outcome' = [q \in Plans |-> IF q = p THEN m ELSE Outcome[q]]
          BY <3>1, <3>6, <4>1, <5>1 DEF Outcome
        <5> QED
          BY <3>1, <5>2 DEF Outcome
      <4>3. m = "submitted" => tasks[p] = 1
        BY <2>2, <3>1 DEF AnswersAreTasks
      <4> QED
        BY <3>1, <3>2, <3>7, <4>1, <4>2, <4>3 DEF Contract!Next, Contract!Settle
    <3> QED
      BY <3>8, <3>9
  <2>3. ASSUME NEW w \in Workers, Claim(w) PROVE FALSE
    <3> DEFINE p == worker[w].plan
    <3>1. p \in Plans
      BY <2>3, BusyFacts DEF Claim
    <3>2. UNCHANGED tasks
      BY <2>3 DEF Claim, network
    <3>3. \A q \in Plans : row'[q].status = row[q].status
                           \/ {row'[q].status, row[q].status} \subseteq Open
      <4> DEFINE r == [status |-> "claimed", token |-> row[p].token + 1,
                       live |-> TRUE, due |-> row[p].due]
      <4>1. \/ UNCHANGED row
            \/ row[p].status \in Open /\ row' = [row EXCEPT ![p] = r]
        BY <2>3 DEF Claim, Unclaimed
      <4>2. r.status \in Open
        BY DEF Open
      <4> HIDE DEF r, p
      <4> QED
        BY <3>1, <4>1, <4>2 DEF TypeOK
    <3>4. UNCHANGED Outcome
      BY <3>3 DEF Outcome
    <3> QED
      BY <3>2, <3>4
  <2>4. ASSUME NEW p \in Plans, Expire(p) \/ BecomeDue(p) PROVE FALSE
    <3>1. UNCHANGED tasks
      BY <2>4 DEF Expire, BecomeDue, network
    <3>2. \/ row' = [row EXCEPT ![p] = [row[p] EXCEPT !.live = FALSE]]
          \/ row' = [row EXCEPT ![p] = [row[p] EXCEPT !.due = TRUE]]
      BY <2>4 DEF Expire, BecomeDue
    <3>3. \A q \in Plans : row'[q].status = row[q].status
      <4>1. [row[p] EXCEPT !.live = FALSE].status = row[p].status
        BY DEF TypeOK
      <4>2. [row[p] EXCEPT !.due = TRUE].status = row[p].status
        BY DEF TypeOK
      <4> QED
        BY <3>2, <4>1, <4>2 DEF TypeOK
    <3>4. UNCHANGED Outcome
      BY <3>3 DEF Outcome
    <3> QED
      BY <3>1, <3>4
  <2>5. ASSUME NEW w \in Workers, Step(w) \/ Crash(w) PROVE Contract!Next
    <3>1. CASE UNCHANGED <<row, tasks>>
      BY <3>1 DEF Outcome
    <3>2. CASE ~UNCHANGED <<row, tasks>>
      <4>1. Claim(w) \/ Mark(w)
        BY <2>5, <3>2 DEF Step, Crash, Pick, CatalogMatches, CatalogChanged,
              ScopeGone, CatalogError, Answer, Refuse, Timeout, network
      <4> QED
        BY <2>2, <2>3, <4>1
    <3> QED
      BY <3>1, <3>2
  <2>6. ASSUME NEW p \in Plans, DeleteScope(p) PROVE FALSE
    BY <2>6 DEF DeleteScope, Outcome, network
  <2>7. CASE UNCHANGED vars
    BY <2>7 DEF vars, Outcome
  <2> QED
    BY <2>1, <2>4, <2>5, <2>6, <2>7 DEF Next
<1> QED
  BY <1>1, <1>2, Invariance, PTL DEF Spec, ContractSpec, Contract!Spec
=============================================================================
