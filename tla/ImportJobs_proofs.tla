------------------------- MODULE ImportJobs_proofs -------------------------
(* What a job reports as created is there, failed attempts leave nothing    *)
(* behind, and attempts are counted: for any workers, clients, jobs, chunks *)
(* and attempts.                                                            *)
EXTENDS ImportJobs, TLAPS

Kinds == {"overtaken", "answer lost", "not deleted", "not saved", "crash"}

\* How far a worker is, which is all that its own steps change of it.
Progress(s, y) ==
    /\ s \in {"create", "report"} => y.next \in 1..Chunks
    /\ s = "create" => Covers(y.made, y.next - 1)
    /\ s = "report" => Covers(y.made, y.next)
    /\ s = "complete" => Covers(y.made, Chunks)
    /\ s = "fail" => y.made = {}

Own(y) == \A r \in y.made : r.job = y.job /\ r.run = y.run

\* The row that a step of worker w may leave.
Written(w, s, new) ==
    \/ new = row[copy[w].job]
    \/ new = copy[w].row
    \/ s = "idle" /\ new = Failed(copy[w].row)
    \/ s = "idle" /\ step[w] = "complete" /\ new = Completed(copy[w].row, copy[w].made)

LEMMA WorkParts ==
    ASSUME NEW s, NEW y
    PROVE  WorkFine(s, y) <=>
             (s # "idle" =>
                /\ y.job \in Jobs /\ y.run <= runs[y.job]
                /\ y.row.status = "running" /\ y.row.result = {}
                /\ y.made \subseteq live /\ Own(y) /\ Progress(s, y)
                /\ \A r \in row[y.job].result : r.run # y.run)
BY DEF WorkFine, Own, Progress

LEMMA Ended ==
    ASSUME NEW r \in Rows, NEW made \in SUBSET Resources
    PROVE  /\ Failed(r) \in Rows /\ Failed(r).status = "failed"
           /\ Failed(r).result = r.result /\ Failed(r).attempts = r.attempts
           /\ Completed(r, made) \in Rows /\ Completed(r, made).status = "success"
           /\ Completed(r, made).result = made /\ Completed(r, made).attempts = r.attempts
<1>1. Failed(r) \in Rows /\ Failed(r).status = "failed"
      /\ Failed(r).result = r.result /\ Failed(r).attempts = r.attempts
  BY DEF Failed, Rows
<1> DEFINE q == [r EXCEPT !.status = "success"]
<1>2. q \in Rows /\ q.status = "success" /\ q.attempts = r.attempts
  BY DEF Rows
<1>3. Completed(r, made) = [q EXCEPT !.result = made]
  BY DEF Completed, Rows
<1> HIDE DEF q
<1>4. Completed(r, made) \in Rows /\ Completed(r, made).status = "success"
      /\ Completed(r, made).result = made /\ Completed(r, made).attempts = r.attempts
  BY <1>2, <1>3 DEF Rows, Resources
<1>5. QED
  BY <1>1, <1>4

\* A step of one worker at its job: it may write the row of the job, change
\* what there is of its own run, and add to the job's faults.
LEMMA JobStep ==
    ASSUME IInv, NEW w \in Workers, NEW j \in Jobs, Working(w, j),
           NEW s \in Steps, NEW y \in Copies, NEW new \in Rows, NEW f \in SUBSET Kinds,
           step' = [step EXCEPT ![w] = s],
           copy' = [copy EXCEPT ![w] = y],
           row' = [row EXCEPT ![j] = new],
           faults' = [faults EXCEPT ![j] = f],
           live' \subseteq Resources,
           \A r \in Resources : r.job # j \/ r.run # copy[w].run
                                  => (r \in live' <=> r \in live),
           UNCHANGED <<read, runs>>,
           s # "idle" => /\ y.job = j /\ y.run = copy[w].run /\ y.row = copy[w].row
                         /\ y.made \subseteq live' /\ Own(y) /\ Progress(s, y),
           Written(w, s, new),
           copy[w].made \subseteq live' \/ new.status # "success" \/ new = row[j],
           faults[j] \subseteq f,
           f = {} => {r \in live' : r.job = j} =
                       new.result \cup (IF s = "idle" THEN {} ELSE y.made)
    PROVE  IInv'
<1>1. /\ TypeOK /\ SuccessIsReal /\ NothingLeftBehind /\ RunsApart
      /\ \A i \in Jobs : RowFine(i) /\ OneAtATime(i)
      /\ \A v \in Workers : WorkFine(step[v], copy[v])
      /\ \A c \in Clients : ReadFine(read[c])
  BY DEF IInv
<1>2. /\ step[w] # "idle" /\ copy[w].job = j /\ copy[w] \in Copies /\ copy[w].row \in Rows /\ copy[w].made \in SUBSET Resources
      /\ copy[w].run <= runs[j]
      /\ copy[w].row.status = "running" /\ copy[w].row.result = {}
      /\ copy[w].made \subseteq live /\ Own(copy[w]) /\ Progress(step[w], copy[w])
      /\ \A r \in row[j].result : r.run # copy[w].run
  BY <1>1, WorkParts DEF TypeOK, Copies, Working
<1>3. /\ \A v \in Workers : step'[v] = IF v = w THEN s ELSE step[v]
      /\ \A v \in Workers : copy'[v] = IF v = w THEN y ELSE copy[v]
      /\ \A i \in Jobs : row'[i] = IF i = j THEN new ELSE row[i]
      /\ \A i \in Jobs : faults'[i] = IF i = j THEN f ELSE faults[i]
  BY <1>1, <1>2 DEF TypeOK
\* The row that is left: whose result it holds, and how it compares.
<1>4. /\ new.status # "success" => new.result = {}
      /\ \A r \in new.result : r.job = j /\ r.run <= runs[j]
      /\ new.status = "success" => /\ new.result \subseteq live'
                                   /\ \A i \in 1..Chunks : \E r \in new.result : r.job = j /\ r.chunk = i
      /\ new.result \subseteq row[j].result \/ (s = "idle" /\ new.result = copy[w].made)
  <2>1. CASE new = row[j]
    <3>1. row[j].result \subseteq Resources
      BY <1>1, <1>2 DEF TypeOK, Rows, Resources
    <3>2. QED
      BY <1>1, <1>2, <2>1, <3>1 DEF RowFine, SuccessIsReal
  <2>2. CASE new = copy[w].row
    BY <1>2, <2>2
  <2>3. CASE s = "idle" /\ new = Failed(copy[w].row)
    BY <1>2, <2>3, Ended
  <2>4. CASE s = "idle" /\ step[w] = "complete" /\ new = Completed(copy[w].row, copy[w].made)
    <3>1. new.status = "success" /\ new.result = copy[w].made
      BY <1>2, <2>4, Ended
    <3>2. Covers(copy[w].made, Chunks)
      BY <1>2, <2>4 DEF Progress
    <3>3. \A r \in copy[w].made : r.job = j /\ r.run = copy[w].run
      BY <1>2 DEF Own
    <3>4. copy[w].made \subseteq live'
      <4>1. CASE new = row[j]
        <5>1. copy[w].made = {}
          BY <1>2, <3>1, <3>3, <4>1
        <5>2. QED
          BY <5>1
      <4>2. QED
        BY <3>1, <4>1
    <3>5. QED
      BY <1>2, <2>4, <3>1, <3>2, <3>3, <3>4 DEF Covers
  <2>5. QED
    BY <1>2, <2>1, <2>2, <2>3, <2>4 DEF Written
<1>5. TypeOK'
  BY <1>1, <1>2 DEF TypeOK, Kinds
<1>6. ASSUME NEW v \in Workers, v # w, step[v] # "idle", copy[v].job = j
      PROVE  /\ \A r \in new.result : r.run # copy[v].run
             /\ copy[v].run # copy[w].run
  <2>1. copy[v].run # copy[w].run
    BY <1>1, <1>2, <1>6 DEF RunsApart
  <2>2. \A r \in row[j].result : r.run # copy[v].run
    BY <1>1, <1>6, WorkParts
  <2>3. QED
    BY <1>2, <1>4, <2>1, <2>2 DEF Own
<1>7. SuccessIsReal'
  <2>1. SUFFICES ASSUME NEW i \in Jobs, row'[i].status = "success"
                 PROVE  /\ row'[i].result \subseteq live'
                        /\ \A n \in 1..Chunks : \E r \in row'[i].result : r.job = i /\ r.chunk = n
    BY DEF SuccessIsReal
  <2>2. CASE i = j
    BY <1>3, <1>4, <2>1, <2>2
  <2>3. CASE i # j
    <3>1. row[i].result \subseteq Resources /\ \A r \in row[i].result : r.job = i
      BY <1>1, <2>1 DEF TypeOK, Rows, Resources, RowFine
    <3>2. QED
      BY <1>1, <1>3, <2>1, <2>3, <3>1 DEF SuccessIsReal
  <2>4. QED
    BY <2>2, <2>3
<1>8. RunsApart'
  <2>1. SUFFICES ASSUME NEW u \in Workers, NEW v \in Workers, u # v,
                        step'[u] # "idle", step'[v] # "idle", copy'[u].job = copy'[v].job
                 PROVE  copy'[u].run # copy'[v].run
    BY DEF RunsApart
  <2>2. \A x \in Workers : step'[x] # "idle" =>
          step[x] # "idle" /\ copy'[x].job = copy[x].job /\ copy'[x].run = copy[x].run
    BY <1>2, <1>3
  <2>3. QED
    BY <1>1, <2>1, <2>2 DEF RunsApart
<1>9. ASSUME NEW i \in Jobs PROVE RowFine(i)'
  BY <1>1, <1>3, <1>4 DEF RowFine
<1>10. ASSUME NEW v \in Workers PROVE WorkFine(step[v], copy[v])'
  <2>1. CASE v = w
    <3>1. CASE s = "idle"
      BY <1>3, <2>1, <3>1 DEF WorkFine
    <3>2. CASE s # "idle"
      <4>1. \A r \in new.result : r.run # y.run
        BY <1>2, <1>4, <3>2
      <4>2. row'[y.job] = new
        BY <1>2, <1>3, <3>2
      <4>3. QED
        BY <1>2, <1>3, <2>1, <3>2, <4>1, <4>2 DEF WorkFine, Own, Progress
    <3>3. QED
      BY <3>1, <3>2
  <2>2. CASE v # w
    <3>1. step'[v] = step[v] /\ copy'[v] = copy[v] /\ WorkFine(step[v], copy[v]) /\ copy[v] \in Copies
      BY <1>1, <1>3, <2>2 DEF TypeOK
    <3>2. step[v] # "idle" => copy[v].made \subseteq live'
      <4>1. SUFFICES ASSUME step[v] # "idle", NEW r \in copy[v].made PROVE r \in live'
        OBVIOUS
      <4>2. r \in Resources /\ r \in live /\ r.job = copy[v].job /\ r.run = copy[v].run
        BY <3>1, <4>1 DEF WorkFine, Copies
      <4>3. r.job # j \/ r.run # copy[w].run
        BY <1>6, <2>2, <4>1, <4>2
      <4>4. QED
        BY <4>2, <4>3
    <3>3. step[v] # "idle" => \A r \in row'[copy[v].job].result : r.run # copy[v].run
      BY <1>3, <1>6, <2>2, <3>1 DEF WorkFine
    <3>4. QED
      BY <3>1, <3>2, <3>3 DEF WorkFine
  <2>3. QED
    BY <2>1, <2>2
<1>11. ASSUME NEW i \in Jobs PROVE OneAtATime(i)'
  <2>1. \A v \in Workers : Working(v, i)' => Working(v, i)
    BY <1>3 DEF Working
  <2>2. CASE i # j
    <3>1. \A v \in Workers : Working(v, i) => copy'[v] = copy[v]
      BY <1>3, <2>2 DEF Working
    <3>2. QED
      BY <1>1, <1>3, <2>1, <2>2, <3>1 DEF OneAtATime
  <2>3. CASE i = j
    <3>1. SUFFICES ASSUME "overtaken" \notin faults[j] PROVE OneAtATime(i)'
      BY <1>3, <2>3 DEF OneAtATime
    <3>2. OneAtATime(j) /\ Working(w, j)
      BY <1>1, <1>2 DEF Working
    <3>3. copy[w].row = row[j] /\ runs[j] = row[j].attempts /\ runs[j] <= MaxAttempts
          /\ \A v \in Workers : Working(v, j) => v = w
      BY <3>1, <3>2 DEF OneAtATime
    <3>4. new.attempts = row[j].attempts /\ (s # "idle" => new = row[j])
      <4>1. CASE new = row[j] \/ new = copy[w].row
        BY <3>3, <4>1
      <4>2. CASE s = "idle" /\ new = Failed(copy[w].row)
        BY <1>2, <3>3, <4>2, Ended
      <4>3. CASE s = "idle" /\ new = Completed(copy[w].row, copy[w].made)
        BY <1>2, <3>3, <4>3, Ended
      <4>4. QED
        BY <1>2, <4>1, <4>2, <4>3 DEF Written
    <3>5. Working(w, j)' => copy'[w].row = row'[j]
      BY <1>2, <1>3, <3>3, <3>4 DEF Working
    <3>6. QED
      BY <1>2, <1>3, <2>1, <2>3, <3>3, <3>4, <3>5 DEF OneAtATime
  <2>4. QED
    BY <2>2, <2>3
<1>12. NothingLeftBehind'
  <2>1. SUFFICES ASSUME NEW i \in Jobs, faults'[i] = {}
                 PROVE  {r \in live' : r.job = i} = row'[i].result \cup MadeFor(i)'
    BY DEF NothingLeftBehind
  <2>2. CASE i # j
    <3>1. \A v \in Workers : (Working(v, i)' <=> Working(v, i)) /\ (Working(v, i) => copy'[v] = copy[v])
      BY <1>3, <2>2 DEF Working
    <3>2. MadeFor(i)' = MadeFor(i)
      BY <3>1 DEF MadeFor
    <3>3. {r \in live' : r.job = i} = {r \in live : r.job = i}
      BY <1>1, <2>2 DEF TypeOK
    <3>4. QED
      BY <1>1, <1>3, <2>1, <2>2, <3>2, <3>3 DEF NothingLeftBehind
  <2>3. CASE i = j
    <3>1. f = {} /\ "overtaken" \notin faults[j]
      BY <1>3, <2>1, <2>3
    <3>2. \A v \in Workers : Working(v, j) => v = w
      BY <1>1, <1>2, <3>1 DEF OneAtATime, Working
    <3>3. \A v \in Workers : Working(v, j)' <=> v = w /\ s # "idle"
      BY <1>3, <3>2 DEF Working
    <3>4. MadeFor(j)' = IF s = "idle" THEN {} ELSE y.made
      BY <1>3, <3>3 DEF MadeFor
    <3>5. QED
      BY <1>2, <1>3, <2>3, <3>1, <3>4
  <2>4. QED
    BY <2>2, <2>3
<1>13. QED
  BY <1>1, <1>5, <1>7, <1>8, <1>9, <1>10, <1>11, <1>12 DEF IInv

\* What a worker at a job may count on.
LEMMA AtJob ==
    ASSUME IInv, NEW w \in Workers, step[w] # "idle"
    PROVE  LET j == copy[w].job IN
             /\ j \in Jobs /\ Working(w, j)
             /\ copy[w] \in Copies /\ copy[w].row \in Rows /\ row[j] \in Rows
             /\ copy[w].made \in SUBSET Resources /\ copy[w].run \in Nat /\ copy[w].next \in Nat
             /\ copy[w].row.status = "running" /\ copy[w].row.result = {}
             /\ copy[w].made \subseteq live /\ Own(copy[w]) /\ Progress(step[w], copy[w])
             /\ live \subseteq Resources
             /\ faults[j] \in SUBSET Kinds
             /\ faults = [faults EXCEPT ![j] = faults[j]]
             /\ row = [row EXCEPT ![j] = row[j]]
             /\ copy = [copy EXCEPT ![w] = copy[w]]
             /\ faults[j] = {} => /\ row[j] = copy[w].row
                                  /\ {r \in live : r.job = j} = copy[w].made
<1>1. /\ TypeOK /\ NothingLeftBehind
      /\ \A i \in Jobs : OneAtATime(i)
      /\ WorkFine(step[w], copy[w])
  BY DEF IInv
<1>2. copy[w].job \in Jobs /\ copy[w] \in Copies /\ Working(w, copy[w].job)
  BY <1>1 DEF TypeOK, WorkFine, Working
<1> DEFINE j == copy[w].job
<1>3. ASSUME faults[j] = {}
      PROVE  row[j] = copy[w].row /\ {r \in live : r.job = j} = copy[w].made
  <2>1. OneAtATime(j) /\ {r \in live : r.job = j} = row[j].result \cup MadeFor(j)
    BY <1>1, <1>2, <1>3 DEF NothingLeftBehind
  <2>2. row[j] = copy[w].row /\ \A v \in Workers : Working(v, j) <=> v = w
    BY <1>2, <1>3, <2>1 DEF OneAtATime
  <2>3. MadeFor(j) = copy[w].made
    BY <2>2 DEF MadeFor
  <2>4. row[j].result = {}
    BY <1>1, <2>2, WorkParts
  <2>5. QED
    BY <2>1, <2>2, <2>3, <2>4
<1>4. /\ copy[w].row.status = "running" /\ copy[w].row.result = {}
      /\ copy[w].made \subseteq live /\ Own(copy[w]) /\ Progress(step[w], copy[w])
  BY <1>1, WorkParts
<1>5. QED
  BY <1>1, <1>2, <1>3, <1>4 DEF TypeOK, Copies, Kinds

LEMMA SetMade ==
    ASSUME NEW y \in Copies, NEW made \in SUBSET Resources
    PROVE  LET z == [y EXCEPT !.made = made] IN
             /\ z \in Copies /\ z.job = y.job /\ z.run = y.run /\ z.row = y.row /\ z.next = y.next
             /\ z.made = made
BY DEF Copies

LEMMA SetNext ==
    ASSUME NEW y \in Copies, NEW next \in Nat
    PROVE  LET z == [y EXCEPT !.next = next] IN
             /\ z \in Copies /\ z.job = y.job /\ z.run = y.run /\ z.row = y.row /\ z.next = next
             /\ z.made = y.made
BY DEF Copies

LEMMA Resting == NoJob \in Copies /\ NewRow \in Rows
BY JobAssumption DEF NoJob, NewRow, Rows, Copies, Resources

\* The worker gives its job up, with the row as it is or as failed.
LEMMA RestStep ==
    ASSUME IInv, NEW w \in Workers, step[w] # "idle", Rest(w),
           NEW f \in SUBSET Kinds, faults[copy[w].job] \subseteq f,
           faults' = [faults EXCEPT ![copy[w].job] = f],
           f = {} => copy[w].made = {},
           \/ UNCHANGED row
           \/ SaveRow(copy[w].job, Failed(copy[w].row)),
           UNCHANGED <<live, read, runs>>
    PROVE  IInv'
<1> DEFINE j == copy[w].job
<1>1. PICK new \in Rows : /\ row' = [row EXCEPT ![j] = new]
                          /\ new = row[j] \/ new = Failed(copy[w].row)
  BY AtJob, Ended DEF SaveRow
<1>2. Written(w, "idle", new) /\ (new.status # "success" \/ new = row[j])
  BY <1>1, AtJob, Ended DEF Written
<1>3. f = {} => {r \in live : r.job = j} = new.result
  <2>1. SUFFICES ASSUME f = {} PROVE {r \in live : r.job = j} = new.result
    OBVIOUS
  <2>2. faults[j] = {} /\ copy[w].made = {}
    BY <2>1
  <2>3. row[j] = copy[w].row /\ {r \in live : r.job = j} = {} /\ copy[w].row.result = {}
    BY <2>2, AtJob
  <2>4. Failed(copy[w].row).result = copy[w].row.result
    BY AtJob, Ended
  <2>5. QED
    BY <1>1, <2>3, <2>4
<1>4. step' = [step EXCEPT ![w] = "idle"] /\ copy' = [copy EXCEPT ![w] = NoJob]
  BY DEF Rest, Goto
<1>5. j \in Jobs /\ Working(w, j) /\ live' \subseteq Resources /\ live' = live
  BY AtJob
<1>6. "idle" \in Steps
  BY DEF Steps
<1> HIDE DEF j
<1>7. copy[w].job = j
  BY DEF j
<1>8. QED
  BY <1>1, <1>2, <1>3, <1>4, <1>5, <1>6, <1>7, Resting, JobStep

LEMMA CreateChunkStep ==
    ASSUME IInv, NEW w \in Workers, CreateChunk(w)
    PROVE  IInv'
<1> DEFINE j == copy[w].job
           made == copy[w].made \cup {Resource(w)}
           y == [copy[w] EXCEPT !.made = made]
<1>1. /\ step[w] = "create" /\ step' = [step EXCEPT ![w] = "report"] /\ copy' = [copy EXCEPT ![w] = y]
      /\ live' = live \cup {Resource(w)} /\ UNCHANGED <<row, read, runs, faults>>
  BY DEF CreateChunk, Goto
<1>2. Resource(w) \in Resources /\ Resource(w).job = j /\ Resource(w).run = copy[w].run
      /\ Resource(w).chunk = copy[w].next
  BY <1>1, AtJob DEF Resource, Resources
<1>3. /\ y \in Copies /\ y.job = j /\ y.run = copy[w].run /\ y.row = copy[w].row
      /\ y.next = copy[w].next /\ y.made = made
  <2>1. copy[w] \in Copies /\ made \in SUBSET Resources
    BY <1>1, <1>2, AtJob
  <2> HIDE DEF made
  <2>2. QED
    BY <2>1, SetMade
<1> HIDE DEF y
<1>4. Own(y) /\ y.made \subseteq live'
  BY <1>1, <1>2, <1>3, AtJob DEF Own
<1>5. Progress("report", y)
  <2>1. Covers(copy[w].made, copy[w].next - 1) /\ copy[w].next \in 1..Chunks
    BY <1>1, AtJob DEF Progress
  <2>2. Covers(made, copy[w].next)
    BY <1>2, <2>1, JobAssumption DEF Covers
  <2>3. QED
    BY <1>3, <2>1, <2>2 DEF Progress
<1>6. faults[j] = {} => {r \in live' : r.job = j} = row[j].result \cup y.made
  <2>1. SUFFICES ASSUME faults[j] = {} PROVE {r \in live' : r.job = j} = row[j].result \cup y.made
    OBVIOUS
  <2>2. {r \in live : r.job = j} = copy[w].made /\ row[j].result = {}
    BY <1>1, <2>1, AtJob
  <2>3. QED
    BY <1>1, <1>2, <1>3, <2>2
<1>7. /\ j \in Jobs /\ Working(w, j) /\ live' \subseteq Resources /\ "report" \in Steps
      /\ row[j] \in Rows /\ faults[j] \in SUBSET Kinds
      /\ row' = [row EXCEPT ![j] = row[j]] /\ faults' = [faults EXCEPT ![j] = faults[j]]
      /\ Written(w, "report", row[j])
  BY <1>1, <1>2, AtJob DEF Steps, Written
<1>8. \A r \in Resources : r.job # j \/ r.run # copy[w].run => (r \in live' <=> r \in live)
  BY <1>1, <1>2
<1> HIDE DEF j, made
<1>9. QED
  BY <1>1, <1>3, <1>4, <1>5, <1>6, <1>7, <1>8, JobStep

\* A chunk fails; its answer may be lost after its commit.
LEMMA ChunkFailsStep ==
    ASSUME IInv, NEW w \in Workers, ChunkFails(w) \/ ChunkAnswerLost(w)
    PROVE  IInv'
<1> DEFINE j == copy[w].job
           s == AfterFailure(w)
<1>1. /\ step[w] = "create" /\ step' = [step EXCEPT ![w] = s] /\ UNCHANGED <<row, copy, read, runs>>
      /\ \/ live' = live /\ faults' = faults
         \/ /\ live' = live \cup {Resource(w)}
            /\ faults' = [faults EXCEPT ![j] = faults[j] \cup {"answer lost"}]
  BY DEF ChunkFails, ChunkAnswerLost, Goto, Mark
<1>2. Resource(w) \in Resources /\ Resource(w).job = j /\ Resource(w).run = copy[w].run
  BY <1>1, AtJob DEF Resource, Resources
<1>3. PICK f \in SUBSET Kinds : /\ faults' = [faults EXCEPT ![j] = f] /\ faults[j] \subseteq f
                                /\ f = {} => live' = live /\ f = faults[j]
  <2>1. CASE live' = live /\ faults' = faults
    BY <1>1, <2>1, AtJob
  <2>2. CASE /\ live' = live \cup {Resource(w)}
             /\ faults' = [faults EXCEPT ![j] = faults[j] \cup {"answer lost"}]
    <3>1. faults[j] \cup {"answer lost"} \in SUBSET Kinds
      BY <1>1, AtJob DEF Kinds
    <3>2. QED
      BY <2>2, <3>1
  <2>3. QED
    BY <1>1, <2>1, <2>2
<1>4. s \in Steps /\ s # "idle" /\ Progress(s, copy[w]) /\ Own(copy[w])
  <2>1. Own(copy[w])
    BY <1>1, AtJob
  <2>2. QED
    BY <2>1 DEF AfterFailure, Progress, Steps
<1>5. /\ j \in Jobs /\ Working(w, j) /\ live' \subseteq Resources /\ copy[w].made \subseteq live'
      /\ copy[w] \in Copies /\ row[j] \in Rows
      /\ row' = [row EXCEPT ![j] = row[j]] /\ copy' = [copy EXCEPT ![w] = copy[w]]
      /\ Written(w, s, row[j])
  BY <1>1, <1>2, AtJob DEF Written
<1>6. f = {} => {r \in live' : r.job = j} = row[j].result \cup copy[w].made
  BY <1>1, <1>3, AtJob
<1>7. \A r \in Resources : r.job # j \/ r.run # copy[w].run => (r \in live' <=> r \in live)
  BY <1>1, <1>2
<1>8. s # "idle" =>
        /\ copy[w].job = j /\ copy[w].run = copy[w].run /\ copy[w].row = copy[w].row
        /\ copy[w].made \subseteq live' /\ Own(copy[w]) /\ Progress(s, copy[w])
  BY <1>4, <1>5
<1>9. f = {} => {r \in live' : r.job = j} =
                  row[j].result \cup (IF s = "idle" THEN {} ELSE copy[w].made)
  BY <1>4, <1>6
<1>10. UNCHANGED <<read, runs>> /\ s \in Steps
  BY <1>1, <1>4
<1> HIDE DEF j, s
<1>11. QED
  BY <1>1, <1>3, <1>5, <1>7, <1>8, <1>9, <1>10, JobStep

LEMMA ReportStep ==
    ASSUME IInv, NEW w \in Workers, Report(w)
    PROVE  IInv'
<1> DEFINE j == copy[w].job
           s == IF copy[w].next = Chunks THEN "complete" ELSE "create"
           y == [copy[w] EXCEPT !.next = copy[w].next + 1]
<1>1. /\ step[w] = "report" /\ step' = [step EXCEPT ![w] = s] /\ copy' = [copy EXCEPT ![w] = y]
      /\ SaveRow(j, copy[w].row) \/ UNCHANGED row
      /\ UNCHANGED <<live, read, runs, faults>>
  BY DEF Report, Goto
<1>2. PICK new \in Rows : /\ row' = [row EXCEPT ![j] = new]
                          /\ new = row[j] \/ new = copy[w].row
  BY <1>1, AtJob DEF SaveRow
<1>3. /\ y \in Copies /\ y.job = j /\ y.run = copy[w].run /\ y.row = copy[w].row
      /\ y.next = copy[w].next + 1 /\ y.made = copy[w].made
  <2>1. copy[w] \in Copies /\ copy[w].next + 1 \in Nat
    BY <1>1, AtJob
  <2>2. QED
    BY <2>1, SetNext
<1> HIDE DEF y
<1>4. /\ Covers(copy[w].made, copy[w].next) /\ copy[w].next \in 1..Chunks /\ Own(copy[w])
      /\ copy[w].made \subseteq live /\ live \subseteq Resources
  BY <1>1, AtJob DEF Progress
<1>5. Own(y) /\ y.made \subseteq live' /\ Progress(s, y) /\ s \in Steps
  <2>1. copy[w].next # Chunks => y.next \in 1..Chunks /\ y.next - 1 = copy[w].next
    BY <1>3, <1>4, JobAssumption
  <2>2. QED
    BY <1>1, <1>3, <1>4, <2>1 DEF Own, Progress, Steps
<1>6. faults[j] = {} => {r \in live' : r.job = j} = new.result \cup y.made
  <2>1. SUFFICES ASSUME faults[j] = {} PROVE {r \in live' : r.job = j} = new.result \cup y.made
    OBVIOUS
  <2>2. {r \in live : r.job = j} = copy[w].made /\ row[j] = copy[w].row /\ copy[w].row.result = {}
    BY <1>1, <2>1, AtJob
  <2>3. QED
    BY <1>1, <1>2, <1>3, <2>2
<1>7. /\ j \in Jobs /\ Working(w, j) /\ faults[j] \in SUBSET Kinds
      /\ faults' = [faults EXCEPT ![j] = faults[j]]
      /\ new.status # "success" \/ new = row[j]
      /\ Written(w, s, new)
  BY <1>1, <1>2, AtJob DEF Written
<1>8. live' = live /\ copy[w].job = j /\ s # "idle"
  BY <1>1
<1> HIDE DEF j, s
<1>9. QED
  BY <1>1, <1>2, <1>3, <1>4, <1>5, <1>6, <1>7, <1>8, JobStep

\* What was made is deleted, or cannot be.
LEMMA CompensateStep ==
    ASSUME IInv, NEW w \in Workers, Compensate(w) \/ CompensateFails(w)
    PROVE  IInv'
<1> DEFINE j == copy[w].job
           y == [copy[w] EXCEPT !.made = {}]
<1>1. /\ step[w] = "compensate" /\ step' = [step EXCEPT ![w] = "fail"] /\ copy' = [copy EXCEPT ![w] = y]
      /\ UNCHANGED <<row, read, runs>>
      /\ \/ live' = live \ copy[w].made /\ faults' = faults
         \/ live' = live /\ faults' = [faults EXCEPT ![j] = faults[j] \cup {"not deleted"}]
  BY DEF Compensate, CompensateFails, Goto, Mark, Undo
<1>2. /\ y \in Copies /\ y.job = j /\ y.run = copy[w].run /\ y.row = copy[w].row /\ y.made = {}
  <2>1. copy[w] \in Copies /\ {} \in SUBSET Resources
    BY <1>1, AtJob
  <2>2. QED
    BY <2>1, SetMade
<1> HIDE DEF y
<1>3. PICK f \in SUBSET Kinds : /\ faults' = [faults EXCEPT ![j] = f] /\ faults[j] \subseteq f
                                /\ f = {} => live' = live \ copy[w].made /\ f = faults[j]
  <2>1. CASE live' = live \ copy[w].made /\ faults' = faults
    BY <1>1, <2>1, AtJob
  <2>2. CASE live' = live /\ faults' = [faults EXCEPT ![j] = faults[j] \cup {"not deleted"}]
    <3>1. faults[j] \cup {"not deleted"} \in SUBSET Kinds
      BY <1>1, AtJob DEF Kinds
    <3>2. QED
      BY <2>2, <3>1
  <2>3. QED
    BY <1>1, <2>1, <2>2
<1>4. Own(y) /\ y.made \subseteq live' /\ Progress("fail", y) /\ "fail" \in Steps
  BY <1>2 DEF Own, Progress, Steps
<1>5. f = {} => {r \in live' : r.job = j} = row[j].result \cup y.made
  <2>1. SUFFICES ASSUME f = {} PROVE {r \in live' : r.job = j} = {} /\ row[j].result = {}
    BY <1>2
  <2>2. /\ {r \in live : r.job = j} = copy[w].made /\ row[j] = copy[w].row
        /\ copy[w].row.result = {} /\ live' = live \ copy[w].made
    BY <1>1, <1>3, <2>1, AtJob
  <2>3. QED
    BY <2>2
<1>6. /\ j \in Jobs /\ Working(w, j) /\ live' \subseteq Resources /\ row[j] \in Rows
      /\ row' = [row EXCEPT ![j] = row[j]] /\ Written(w, "fail", row[j])
  BY <1>1, AtJob DEF Written
<1>7. \A r \in Resources : r.job # j \/ r.run # copy[w].run => (r \in live' <=> r \in live)
  <2>1. Own(copy[w])
    BY <1>1, AtJob
  <2>2. QED
    BY <1>1, <2>1 DEF Own
<1>8. copy[w].job = j
  OBVIOUS
<1> HIDE DEF j
<1>9. QED
  BY <1>1, <1>2, <1>3, <1>4, <1>5, <1>6, <1>7, <1>8, JobStep

LEMMA CompleteStep ==
    ASSUME IInv, NEW w \in Workers, Complete(w)
    PROVE  IInv'
<1> DEFINE j == copy[w].job
           new == Completed(copy[w].row, copy[w].made)
<1>1. /\ step[w] = "complete" /\ step' = [step EXCEPT ![w] = "idle"] /\ copy' = [copy EXCEPT ![w] = NoJob]
      /\ row' = [row EXCEPT ![j] = new] /\ UNCHANGED <<live, read, runs, faults>>
  BY DEF Complete, Rest, Goto, SaveRow
<1>2. new \in Rows /\ new.result = copy[w].made /\ copy[w].made \subseteq live'
  <2>1. copy[w].row \in Rows /\ copy[w].made \in SUBSET Resources /\ copy[w].made \subseteq live
    BY <1>1, AtJob
  <2>2. QED
    BY <1>1, <2>1, Ended
<1>3. faults[j] = {} => {r \in live' : r.job = j} = new.result
  BY <1>1, <1>2, AtJob
<1>4. /\ j \in Jobs /\ Working(w, j) /\ live' \subseteq Resources /\ faults[j] \in SUBSET Kinds
      /\ faults' = [faults EXCEPT ![j] = faults[j]] /\ "idle" \in Steps
  BY <1>1, AtJob DEF Steps
<1>5. Written(w, "idle", new)
  BY <1>1 DEF Written
<1>6. live' = live /\ copy[w].job = j /\ UNCHANGED <<read, runs>>
  BY <1>1
<1>7. faults[j] = {} => {r \in live' : r.job = j} =
                          new.result \cup (IF "idle" = "idle" THEN {} ELSE NoJob.made)
  BY <1>3
<1> HIDE DEF j, new
<1>8. QED
  BY <1>1, <1>2, <1>4, <1>5, <1>6, <1>7, Resting, JobStep

\* The worker gives up, its last write fails, or it dies.
LEMMA BreakOffStep ==
    ASSUME IInv, NEW w \in Workers, Fail(w) \/ CompleteFails(w) \/ Crash(w)
    PROVE  IInv'
<1> DEFINE j == copy[w].job
<1>1. step[w] # "idle" /\ Rest(w) /\ UNCHANGED <<live, read, runs>>
  BY DEF Fail, CompleteFails, Crash
<1>2. j \in Jobs /\ faults[j] \in SUBSET Kinds /\ faults = [faults EXCEPT ![j] = faults[j]]
      /\ Progress(step[w], copy[w])
  BY <1>1, AtJob
<1>3. CASE Fail(w)
  <2>1. /\ faults' = [faults EXCEPT ![j] = faults[j]] /\ copy[w].made = {}
        /\ UNCHANGED row \/ SaveRow(j, Failed(copy[w].row))
    BY <1>2, <1>3 DEF Fail, Progress
  <2>2. QED
    BY <1>1, <1>2, <2>1, RestStep
<1>4. CASE CompleteFails(w) \/ Crash(w)
  <2>1. PICK kind1 \in {"not saved", "crash"} : faults' = [faults EXCEPT ![j] = faults[j] \cup {kind1}]
    BY <1>4 DEF CompleteFails, Crash, Mark
  <2>2. faults[j] \cup {kind1} \in SUBSET Kinds
    BY <1>2 DEF Kinds
  <2>3. UNCHANGED row
    BY <1>4 DEF CompleteFails, Crash
  <2>4. QED
    BY <1>1, <2>1, <2>2, <2>3, RestStep
<1>5. QED
  BY <1>3, <1>4

LEMMA Taken ==
    ASSUME NEW r \in Rows
    PROVE  LET q == [r EXCEPT !.status = "running", !.attempts = @ + 1, !.age = 0] IN
             /\ q \in Rows /\ q.status = "running" /\ q.result = r.result /\ q.attempts = r.attempts + 1
<1> DEFINE q1 == [r EXCEPT !.status = "running"]
           q2 == [q1 EXCEPT !.attempts = r.attempts + 1]
           q == [q2 EXCEPT !.age = 0]
<1>1. q1 \in Rows /\ q1.status = "running" /\ q1.result = r.result /\ q1.attempts = r.attempts
  BY DEF Rows
<1>2. q2 \in Rows /\ q2.status = "running" /\ q2.result = r.result /\ q2.attempts = r.attempts + 1
  <2> HIDE DEF q1
  <2> QED BY <1>1 DEF Rows
<1>3. q \in Rows /\ q.status = "running" /\ q.result = r.result /\ q.attempts = r.attempts + 1
  <2>1. 0 \in 0..StuckTimeout + 1
    BY JobAssumption
  <2> HIDE DEF q2
  <2>2. QED
    BY <1>2, <2>1 DEF Rows
<1>4. [r EXCEPT !.status = "running", !.attempts = @ + 1, !.age = 0] = q
  OBVIOUS
<1>5. QED
  BY <1>3, <1>4

LEMMA ResetFine ==
    ASSUME NEW r \in Rows
    PROVE  /\ ResetForRetry(r) \in Rows /\ ResetForRetry(r).status = "pending"
           /\ ResetForRetry(r).result = r.result /\ ResetForRetry(r).attempts = r.attempts
<1> DEFINE q1 == [r EXCEPT !.status = "pending"]
<1>1. q1 \in Rows /\ q1.status = "pending" /\ q1.result = r.result /\ q1.attempts = r.attempts
  BY DEF Rows
<1>2. ResetForRetry(r) = [q1 EXCEPT !.age = 0] /\ 0 \in 0..StuckTimeout + 1
  BY JobAssumption DEF ResetForRetry
<1> HIDE DEF q1
<1>3. QED
  BY <1>1, <1>2 DEF Rows

LEMMA OlderFine ==
    ASSUME NEW r \in Rows
    PROVE  /\ OlderIfRunning(r) \in Rows /\ OlderIfRunning(r).status = r.status
           /\ OlderIfRunning(r).result = r.result /\ OlderIfRunning(r).attempts = r.attempts
<1>1. r.age \in 0..StuckTimeout + 1
  BY DEF Rows
<1> DEFINE age == IF r.age <= StuckTimeout THEN r.age + 1 ELSE r.age
<1>2. age \in 0..StuckTimeout + 1 /\ Older(r) = [r EXCEPT !.age = age]
  BY <1>1, JobAssumption DEF Older
<1> HIDE DEF age
<1>3. QED
  BY <1>2 DEF OlderIfRunning, Rows

LEMMA ClaimStep ==
    ASSUME IInv, NEW w \in Workers, Claim(w)
    PROVE  IInv'
<1>1. PICK j \in Queue :
         LET taken == [row[j] EXCEPT !.status = "running", !.attempts = @ + 1, !.age = 0] IN
         /\ row' = [row EXCEPT ![j] = taken]
         /\ runs' = [runs EXCEPT ![j] = @ + 1]
         /\ copy' = [copy EXCEPT ![w] = [job |-> j, run |-> runs[j] + 1, row |-> taken,
                                         next |-> 1, made |-> {}]]
         /\ IF StillWorkedOn(j) THEN Mark(j, "overtaken") ELSE UNCHANGED faults
  BY DEF Claim
<1> DEFINE new == [row[j] EXCEPT !.status = "running", !.attempts = @ + 1, !.age = 0]
           y == [job |-> j, run |-> runs[j] + 1, row |-> new, next |-> 1, made |-> {}]
<1>2. /\ TypeOK /\ SuccessIsReal /\ NothingLeftBehind /\ RunsApart
      /\ \A i \in Jobs : RowFine(i) /\ OneAtATime(i)
      /\ \A v \in Workers : WorkFine(step[v], copy[v])
      /\ \A c \in Clients : ReadFine(read[c])
  BY DEF IInv
<1>3. /\ step[w] = "idle" /\ step' = [step EXCEPT ![w] = "create"] /\ UNCHANGED <<live, read>>
      /\ j \in Jobs /\ Claimable(row[j]) /\ row[j] \in Rows /\ runs[j] \in Nat /\ j \in Nat
      /\ faults[j] \in SUBSET Kinds
  BY <1>1, <1>2, JobAssumption DEF Claim, Queue, TypeOK, Kinds
<1>4. /\ new \in Rows /\ new.status = "running" /\ new.result = row[j].result
      /\ new.attempts = row[j].attempts + 1 /\ row[j].attempts \in Nat
      /\ row[j].attempts < MaxAttempts /\ row[j].result = {}
      /\ row[j].status # "failed"
  <2>1. row[j].status \in {"pending", "running"} /\ row[j].attempts < MaxAttempts
    BY <1>3 DEF Claimable, Stuck
  <2>2. row[j].result = {} /\ row[j].attempts \in Nat
    BY <1>2, <1>3, <2>1 DEF RowFine, Rows
  <2>3. QED
    BY <1>3, <2>1, <2>2, Taken
<1> HIDE DEF new
<1>5. /\ y \in Copies /\ y.job = j /\ y.run = runs[j] + 1 /\ y.row = new /\ y.next = 1 /\ y.made = {}
  BY <1>3, <1>4 DEF Copies, Resources
<1>6. PICK f \in SUBSET Kinds : /\ faults' = [faults EXCEPT ![j] = f] /\ faults[j] \subseteq f
                                /\ "overtaken" \notin f => ~StillWorkedOn(j)
  <2>1. CASE StillWorkedOn(j)
    <3>1. faults[j] \cup {"overtaken"} \in SUBSET Kinds /\ Mark(j, "overtaken")
      BY <1>1, <1>3, <2>1 DEF Kinds
    <3>2. QED
      BY <3>1 DEF Mark
  <2>2. CASE ~StillWorkedOn(j)
    BY <1>1, <1>2, <1>3, <2>2 DEF TypeOK
  <2>3. QED
    BY <2>1, <2>2
<1>7. /\ copy' = [copy EXCEPT ![w] = y] /\ row' = [row EXCEPT ![j] = new]
      /\ runs' = [runs EXCEPT ![j] = runs[j] + 1]
  BY <1>1 DEF new
<1> HIDE DEF y
<1>8. /\ \A v \in Workers : step'[v] = IF v = w THEN "create" ELSE step[v]
      /\ \A v \in Workers : copy'[v] = IF v = w THEN y ELSE copy[v]
      /\ \A i \in Jobs : row'[i] = IF i = j THEN new ELSE row[i]
      /\ \A i \in Jobs : runs'[i] = IF i = j THEN runs[j] + 1 ELSE runs[i]
      /\ \A i \in Jobs : faults'[i] = IF i = j THEN f ELSE faults[i]
      /\ \A i \in Jobs : runs[i] \in Nat
  BY <1>2, <1>3, <1>6, <1>7 DEF TypeOK
\* Whoever is still at the job has been there for too long.
<1>9. ASSUME "overtaken" \notin f, NEW v \in Workers PROVE ~Working(v, j)
  <2>1. SUFFICES ASSUME Working(v, j) PROVE FALSE
    OBVIOUS
  <2>2. copy[v].row = row[j] /\ copy[v].row.status = "running"
    BY <1>2, <1>3, <1>6, <1>9, <2>1, AtJob DEF OneAtATime, Working
  <2>3. row[j].age > StuckTimeout
    BY <1>3, <2>2 DEF Claimable, Stuck
  <2>4. QED
    BY <1>6, <1>9, <2>1, <2>2, <2>3 DEF StillWorkedOn
<1>10. TypeOK'
  <2>1. step' \in [Workers -> Steps]
    BY <1>2, <1>3 DEF TypeOK, Steps
  <2>2. copy' \in [Workers -> Copies] /\ row' \in [Jobs -> Rows]
    BY <1>2, <1>4, <1>5, <1>7 DEF TypeOK
  <2>3. runs' \in [Jobs -> Nat]
    <3>1. runs \in [Jobs -> Nat]
      BY <1>2 DEF TypeOK
    <3>2. runs[j] + 1 \in Nat
      BY <1>3
    <3>3. QED
      BY <1>7, <3>1, <3>2
  <2>4. faults' \in [Jobs -> SUBSET Kinds]
    BY <1>2, <1>6 DEF TypeOK, Kinds
  <2>5. QED
    BY <1>2, <1>3, <2>1, <2>2, <2>3, <2>4 DEF TypeOK, Kinds
<1>11. SuccessIsReal'
  BY <1>2, <1>3, <1>4, <1>8 DEF SuccessIsReal
<1>12. RunsApart'
  <2>1. SUFFICES ASSUME NEW u \in Workers, NEW v \in Workers, u # v,
                        step'[u] # "idle", step'[v] # "idle", copy'[u].job = copy'[v].job
                 PROVE  copy'[u].run # copy'[v].run
    BY DEF RunsApart
  <2>2. \A x \in Workers : step[x] # "idle" /\ copy[x].job = j => copy[x].run <= runs[j] /\ copy[x].run \in Nat
    BY <1>2 DEF WorkFine, TypeOK, Copies
  <2>3. CASE u = w
    BY <1>3, <1>5, <1>8, <2>1, <2>2, <2>3
  <2>4. CASE v = w
    BY <1>3, <1>5, <1>8, <2>1, <2>2, <2>4
  <2>5. CASE u # w /\ v # w
    BY <1>2, <1>8, <2>1, <2>5 DEF RunsApart
  <2>6. QED
    BY <2>3, <2>4, <2>5
<1>13. ASSUME NEW i \in Jobs PROVE RowFine(i)'
  <2>1. RowFine(i) /\ \A r \in row[i].result : r.run \in Nat
    <3>1. row[i] \in Rows /\ row[i].result \subseteq Resources
      BY <1>2 DEF TypeOK, Rows, Resources
    <3>2. QED
      BY <1>2, <3>1 DEF Resources
  <2>2. CASE i = j
    BY <1>4, <1>8, <2>2 DEF RowFine
  <2>3. CASE i # j
    BY <1>8, <2>1, <2>3 DEF RowFine
  <2>4. QED
    BY <2>2, <2>3
<1>14. ASSUME NEW v \in Workers PROVE WorkFine(step[v], copy[v])'
  <2>1. CASE v = w
    <3>1. Progress("create", y) /\ Own(y)
      BY <1>5, JobAssumption DEF Progress, Own, Covers
    <3>2. step'[v] = "create" /\ copy'[v] = y /\ row'[j].result = {} /\ runs'[j] = runs[j] + 1
      BY <1>3, <1>4, <1>8, <2>1
    <3>3. /\ y.job \in Jobs /\ y.run <= runs'[y.job]
          /\ y.row.status = "running" /\ y.row.result = {} /\ y.made \subseteq live'
          /\ \A r \in row'[y.job].result : r.run # y.run
      BY <1>3, <1>4, <1>5, <3>2
    <3>4. QED
      BY <3>1, <3>2, <3>3 DEF WorkFine, Progress, Own
  <2>2. CASE v # w
    <3>1. step'[v] = step[v] /\ copy'[v] = copy[v] /\ WorkFine(step[v], copy[v])
          /\ copy[v].run \in Nat
      BY <1>2, <1>8, <2>2 DEF TypeOK, Copies
    <3>2. step[v] # "idle" => /\ copy[v].run <= runs'[copy[v].job]
                              /\ \A r \in row'[copy[v].job].result : r.run # copy[v].run
      BY <1>4, <1>8, <3>1 DEF WorkFine
    <3>3. QED
      BY <1>3, <3>1, <3>2 DEF WorkFine
  <2>3. QED
    BY <2>1, <2>2
<1>15. ASSUME NEW i \in Jobs PROVE OneAtATime(i)'
  <2>1. CASE i = j
    <3>1. SUFFICES ASSUME "overtaken" \notin f PROVE OneAtATime(i)'
      BY <1>8, <2>1 DEF OneAtATime
    <3>2. \A v \in Workers : Working(v, i)' => v = w
      BY <1>8, <1>9, <2>1, <3>1 DEF Working
    <3>3. runs[j] = row[j].attempts
      BY <1>2, <1>3, <1>6, <3>1 DEF OneAtATime
    <3>4. runs'[i] = row'[i].attempts /\ runs'[i] <= MaxAttempts
      BY <1>4, <1>8, <2>1, <3>3, JobAssumption
    <3>5. copy'[w].row = row'[i]
      BY <1>5, <1>8, <2>1
    <3>6. QED
      BY <3>2, <3>4, <3>5 DEF OneAtATime
  <2>2. CASE i # j
    <3>1. \A v \in Workers : (Working(v, i)' <=> Working(v, i)) /\ (Working(v, i) => copy'[v] = copy[v])
      BY <1>3, <1>5, <1>8, <2>2 DEF Working
    <3>2. QED
      BY <1>2, <1>8, <2>2, <3>1 DEF OneAtATime
  <2>3. QED
    BY <2>1, <2>2
<1>16. NothingLeftBehind'
  <2>1. SUFFICES ASSUME NEW i \in Jobs, faults'[i] = {}
                 PROVE  {r \in live' : r.job = i} = row'[i].result \cup MadeFor(i)'
    BY DEF NothingLeftBehind
  <2>2. CASE i = j
    <3>1. f = {} /\ faults[j] = {}
      BY <1>6, <1>8, <2>1, <2>2
    <3>2. \A v \in Workers : ~Working(v, j)
      BY <1>9, <3>1
    <3>3. MadeFor(j) = {}
      BY <3>2 DEF MadeFor
    <3>4. \A v \in Workers : Working(v, i)' => v = w
      BY <1>8, <2>2, <3>2 DEF Working
    <3>5. MadeFor(i)' = {}
      BY <1>5, <1>8, <3>4 DEF MadeFor
    <3>6. QED
      BY <1>2, <1>3, <1>4, <1>8, <2>2, <3>1, <3>3, <3>5 DEF NothingLeftBehind
  <2>3. CASE i # j
    <3>1. \A v \in Workers : (Working(v, i)' <=> Working(v, i)) /\ (Working(v, i) => copy'[v] = copy[v])
      BY <1>3, <1>5, <1>8, <2>3 DEF Working
    <3>2. MadeFor(i)' = MadeFor(i)
      BY <3>1 DEF MadeFor
    <3>3. QED
      BY <1>2, <1>3, <1>8, <2>1, <2>3, <3>2 DEF NothingLeftBehind
  <2>4. QED
    BY <2>2, <2>3
<1>17. QED
  BY <1>2, <1>3, <1>10, <1>11, <1>12, <1>13, <1>14, <1>15, <1>16 DEF IInv

\* RetryJob writes back a row that was read as failed.
LEMMA RetryStep ==
    ASSUME IInv, NEW c \in Clients, Retry(c)
    PROVE  IInv'
<1> DEFINE x == read[c]
           j == x.job
           new == ResetForRetry(x.row)
<1>1. /\ TypeOK /\ SuccessIsReal /\ NothingLeftBehind /\ RunsApart
      /\ \A i \in Jobs : RowFine(i) /\ OneAtATime(i)
      /\ \A v \in Workers : WorkFine(step[v], copy[v])
      /\ \A d \in Clients : ReadFine(read[d])
  BY DEF IInv
<1>2. /\ x # NoRead /\ row' = [row EXCEPT ![j] = new]
      /\ IF row[j] # x.row THEN Mark(j, "overtaken") ELSE UNCHANGED faults
      /\ read' = [read EXCEPT ![c] = NoRead]
      /\ UNCHANGED <<live, step, copy, runs>>
  BY DEF Retry, SaveRow
<1>3. /\ j \in Jobs /\ x.row \in Rows /\ x.row.status = "failed" /\ x.row.result = {}
      /\ faults[j] \in SUBSET Kinds
  BY <1>1, <1>2 DEF TypeOK, ReadFine, Kinds
<1>4. /\ new \in Rows /\ new.status = "pending" /\ new.result = {}
      /\ new.attempts = x.row.attempts
  BY <1>3, ResetFine
<1>5. PICK f \in SUBSET Kinds : /\ faults' = [faults EXCEPT ![j] = f] /\ faults[j] \subseteq f
                                /\ "overtaken" \notin f => row[j] = x.row
  <2>1. CASE row[j] # x.row
    <3>1. faults[j] \cup {"overtaken"} \in SUBSET Kinds /\ Mark(j, "overtaken")
      BY <1>2, <1>3, <2>1 DEF Kinds
    <3>2. QED
      BY <3>1 DEF Mark
  <2>2. CASE row[j] = x.row
    BY <1>1, <1>2, <1>3, <2>2 DEF TypeOK
  <2>3. QED
    BY <2>1, <2>2
<1>6. /\ \A i \in Jobs : row'[i] = IF i = j THEN new ELSE row[i]
      /\ \A i \in Jobs : faults'[i] = IF i = j THEN f ELSE faults[i]
      /\ \A d \in Clients : read'[d] = IF d = c THEN NoRead ELSE read[d]
  BY <1>1, <1>2, <1>5 DEF TypeOK
<1> HIDE DEF x, j, new
\* Nobody works on a failed job.
<1>7. ASSUME "overtaken" \notin f, NEW v \in Workers PROVE ~Working(v, j)
  <2>1. "overtaken" \notin faults[j] /\ row[j].status = "failed"
    BY <1>3, <1>5, <1>7
  <2>2. Working(v, j) => copy[v].row = row[j] /\ copy[v].row.status = "running"
    BY <1>1, <1>3, <2>1 DEF OneAtATime, Working, WorkFine
  <2>3. QED
    BY <2>1, <2>2
<1>8. TypeOK'
  <2>1. read' \in [Clients -> [job : Nat, row : Rows]]
    <3>1. NoRead \in [job : Nat, row : Rows]
      BY Resting DEF NoRead
    <3>2. QED
      BY <1>1, <1>2, <3>1 DEF TypeOK
  <2>2. row' \in [Jobs -> Rows]
    BY <1>1, <1>2, <1>4 DEF TypeOK
  <2>3. faults' \in [Jobs -> SUBSET Kinds]
    BY <1>1, <1>5 DEF TypeOK, Kinds
  <2>4. QED
    BY <1>1, <1>2, <2>1, <2>2, <2>3 DEF TypeOK, Kinds
<1>9. SuccessIsReal'
  BY <1>1, <1>2, <1>4, <1>6 DEF SuccessIsReal
<1>10. RunsApart'
  BY <1>1, <1>2 DEF RunsApart
<1>11. ASSUME NEW i \in Jobs PROVE RowFine(i)'
  BY <1>1, <1>2, <1>4, <1>6 DEF RowFine
<1>12. ASSUME NEW v \in Workers PROVE WorkFine(step[v], copy[v])'
  BY <1>1, <1>2, <1>4, <1>6 DEF WorkFine
<1>13. ASSUME NEW d \in Clients PROVE ReadFine(read[d])'
  BY <1>1, <1>6 DEF ReadFine
<1>14. ASSUME NEW i \in Jobs, NEW v \in Workers PROVE Working(v, i)' <=> Working(v, i)
  BY <1>2 DEF Working
<1>15. ASSUME NEW i \in Jobs PROVE OneAtATime(i)'
  <2>1. CASE i = j
    BY <1>1, <1>2, <1>4, <1>5, <1>6, <1>7, <1>14, <2>1 DEF OneAtATime
  <2>2. CASE i # j
    BY <1>1, <1>2, <1>6, <1>14, <2>2 DEF OneAtATime
  <2>3. QED
    BY <2>1, <2>2
<1>16. NothingLeftBehind'
  <2>1. SUFFICES ASSUME NEW i \in Jobs, faults'[i] = {}
                 PROVE  {r \in live' : r.job = i} = row'[i].result \cup MadeFor(i)'
    BY DEF NothingLeftBehind
  <2>2. MadeFor(i)' = MadeFor(i)
    BY <1>2, <1>14 DEF MadeFor
  <2>3. row'[i].result = row[i].result /\ faults[i] = {}
    BY <1>3, <1>4, <1>5, <1>6, <2>1
  <2>4. QED
    BY <1>1, <1>2, <2>2, <2>3 DEF NothingLeftBehind
<1>17. QED
  BY <1>1, <1>8, <1>9, <1>10, <1>11, <1>12, <1>13, <1>15, <1>16 DEF IInv

\* A client reads a row, or its retry ends in an error.
LEMMA ReadStep ==
    ASSUME IInv, NEW c \in Clients, ReadForRetry(c) \/ RetryFails(c)
    PROVE  IInv'
<1>1. /\ TypeOK /\ \A j \in Jobs : RowFine(j)
      /\ \A d \in Clients : ReadFine(read[d])
  BY DEF IInv
<1>2. PICK x \in [job : Nat, row : Rows] : read' = [read EXCEPT ![c] = x] /\ ReadFine(x)
  <2>1. CASE RetryFails(c)
    <3>1. NoRead \in [job : Nat, row : Rows] /\ ReadFine(NoRead)
      BY Resting DEF NoRead, ReadFine
    <3>2. QED
      BY <2>1, <3>1 DEF RetryFails
  <2>2. CASE ReadForRetry(c)
    <3>1. PICK j \in Jobs : CanRetry(row[j]) /\ read' = [read EXCEPT ![c] = [job |-> j, row |-> row[j]]]
      BY <2>2 DEF ReadForRetry
    <3>2. row[j] \in Rows /\ j \in Nat /\ row[j].status = "failed" /\ row[j].result = {}
      BY <1>1, <3>1, JobAssumption DEF TypeOK, CanRetry, RowFine
    <3>3. [job |-> j, row |-> row[j]] \in [job : Nat, row : Rows]
      BY <3>2
    <3>4. ReadFine([job |-> j, row |-> row[j]])
      BY <3>2 DEF ReadFine
    <3>5. QED
      BY <3>1, <3>3, <3>4
  <2>3. QED
    BY <2>1, <2>2
<1>3. UNCHANGED <<row, live, step, copy, runs, faults>>
  BY DEF ReadForRetry, RetryFails
<1>4. TypeOK'
  BY <1>1, <1>2, <1>3 DEF TypeOK
<1>5. ASSUME NEW d \in Clients PROVE ReadFine(read[d])'
  <2>1. ReadFine(read'[d])
    BY <1>1, <1>2 DEF TypeOK
  <2>2. QED
    BY <2>1 DEF ReadFine
<1>6. /\ SuccessIsReal' /\ NothingLeftBehind' /\ RunsApart'
      /\ \A j \in Jobs : RowFine(j)' /\ OneAtATime(j)'
      /\ \A w \in Workers : WorkFine(step[w], copy[w])'
  BY <1>3 DEF IInv, SuccessIsReal, NothingLeftBehind, MadeFor, Working, RunsApart, RowFine,
              OneAtATime, WorkFine
<1>7. QED
  BY <1>4, <1>5, <1>6 DEF IInv

LEMMA TickStep ==
    ASSUME IInv, Tick
    PROVE  IInv'
<1>1. /\ TypeOK /\ SuccessIsReal /\ NothingLeftBehind /\ RunsApart
      /\ \A j \in Jobs : RowFine(j) /\ OneAtATime(j)
      /\ \A w \in Workers : WorkFine(step[w], copy[w])
      /\ \A c \in Clients : ReadFine(read[c])
  BY DEF IInv
<1>2. /\ row' = [j \in Jobs |-> OlderIfRunning(row[j])]
      /\ copy' = [w \in Workers |-> [copy[w] EXCEPT !.row = OlderIfRunning(copy[w].row)]]
      /\ UNCHANGED <<live, step, read, runs, faults>>
  BY DEF Tick
<1>3. ASSUME NEW j \in Jobs
      PROVE  /\ row'[j] = OlderIfRunning(row[j]) /\ row'[j] \in Rows
             /\ row'[j].status = row[j].status
             /\ row'[j].result = row[j].result /\ row'[j].attempts = row[j].attempts
  BY <1>1, <1>2, OlderFine DEF TypeOK
<1>4. ASSUME NEW w \in Workers
      PROVE  /\ copy'[w] \in Copies /\ copy'[w].job = copy[w].job /\ copy'[w].run = copy[w].run
             /\ copy'[w].next = copy[w].next /\ copy'[w].made = copy[w].made
             /\ copy'[w].row = OlderIfRunning(copy[w].row)
             /\ copy'[w].row.status = copy[w].row.status /\ copy'[w].row.result = copy[w].row.result
  <2>1. copy[w] \in Copies /\ copy[w].row \in Rows
    BY <1>1 DEF TypeOK, Copies
  <2> DEFINE r == OlderIfRunning(copy[w].row)
  <2>2. r \in Rows /\ r.status = copy[w].row.status /\ r.result = copy[w].row.result
    BY <2>1, OlderFine
  <2>3. copy'[w] = [copy[w] EXCEPT !.row = r]
    BY <1>2
  <2> HIDE DEF r
  <2>4. /\ copy'[w] \in Copies /\ copy'[w].job = copy[w].job /\ copy'[w].run = copy[w].run
        /\ copy'[w].next = copy[w].next /\ copy'[w].made = copy[w].made /\ copy'[w].row = r
    BY <2>1, <2>2, <2>3 DEF Copies
  <2>5. QED
    BY <2>2, <2>4 DEF r
<1>5. TypeOK'
  <2>1. row' \in [Jobs -> Rows] /\ copy' \in [Workers -> Copies]
    BY <1>2, <1>3, <1>4
  <2>2. QED
    BY <1>1, <1>2, <2>1 DEF TypeOK
<1>6. SuccessIsReal' /\ RunsApart'
  <2>1. SuccessIsReal'
    BY <1>1, <1>2, <1>3 DEF SuccessIsReal
  <2>2. RunsApart'
    BY <1>1, <1>2, <1>4 DEF RunsApart
  <2>3. QED
    BY <2>1, <2>2
<1>7. ASSUME NEW j \in Jobs, NEW w \in Workers PROVE Working(w, j)' <=> Working(w, j)
  BY <1>2, <1>4 DEF Working
<1>8. ASSUME NEW j \in Jobs PROVE RowFine(j)' /\ OneAtATime(j)'
  BY <1>1, <1>2, <1>3, <1>4, <1>7 DEF RowFine, OneAtATime
<1>9. ASSUME NEW w \in Workers PROVE WorkFine(step[w], copy[w])'
  <2>1. WorkFine(step[w], copy[w])
    BY <1>1
  <2>2. QED
    BY <1>2, <1>3, <1>4, <2>1 DEF WorkFine, Covers
<1>10. NothingLeftBehind'
  <2>1. SUFFICES ASSUME NEW j \in Jobs, faults'[j] = {}
                 PROVE  {r \in live' : r.job = j} = row'[j].result \cup MadeFor(j)'
    BY DEF NothingLeftBehind
  <2>2. MadeFor(j)' = MadeFor(j)
    BY <1>4, <1>7 DEF MadeFor
  <2>3. QED
    BY <1>1, <1>2, <1>3, <2>1, <2>2 DEF NothingLeftBehind
<1>11. ASSUME NEW c \in Clients PROVE ReadFine(read[c])'
  BY <1>1, <1>2 DEF ReadFine
<1>12. QED
  BY <1>5, <1>6, <1>8, <1>9, <1>10, <1>11 DEF IInv

LEMMA StutteringStep ==
    ASSUME IInv, UNCHANGED vars
    PROVE  IInv'
<1>1. UNCHANGED <<row, live, step, copy, read, runs, faults>>
  BY DEF vars
<1>2. TypeOK'
  BY <1>1 DEF IInv, TypeOK
<1>3. SuccessIsReal' /\ RunsApart' /\ NothingLeftBehind'
  BY <1>1 DEF IInv, SuccessIsReal, RunsApart, NothingLeftBehind, MadeFor, Working
<1>4. /\ \A j \in Jobs : RowFine(j)' /\ OneAtATime(j)'
      /\ \A w \in Workers : WorkFine(step[w], copy[w])'
      /\ \A c \in Clients : ReadFine(read[c])'
  BY <1>1 DEF IInv, RowFine, OneAtATime, Working, WorkFine, ReadFine
<1>5. QED
  BY <1>2, <1>3, <1>4 DEF IInv

LEMMA InitHolds == Init => IInv
<1>1. SUFFICES ASSUME Init PROVE IInv
  OBVIOUS
<1>2. TypeOK
  BY <1>1, Resting DEF Init, TypeOK, NoRead, Steps
<1>3. /\ \A j \in Jobs : row[j].status = "pending" /\ row[j].result = {} /\ row[j].attempts = 0
      /\ \A j \in Jobs : runs[j] = 0
      /\ \A w \in Workers : step[w] = "idle"
      /\ \A c \in Clients : read[c] = NoRead
      /\ live = {}
  BY <1>1 DEF Init, NewRow
<1>4. \A j \in Jobs : MadeFor(j) = {}
  BY <1>3 DEF MadeFor, Working
<1>5. QED
  BY <1>2, <1>3, <1>4, JobAssumption DEF IInv, SuccessIsReal, NothingLeftBehind, RunsApart,
     RowFine, OneAtATime, Working, WorkFine, ReadFine

(* The strengthened invariant holds of every behaviour of the workers and   *)
(* the clients.                                                             *)
THEOREM Invariance == Spec => []IInv
<1>1. ASSUME IInv, Next PROVE IInv'
  <2>1. ASSUME NEW w \in Workers, Work(w) \/ Crash(w) PROVE IInv'
    BY <1>1, <2>1, ClaimStep, CreateChunkStep, ChunkFailsStep, ReportStep, CompensateStep,
       CompleteStep, BreakOffStep DEF Work
  <2>2. QED
    BY <1>1, <2>1, RetryStep, ReadStep, TickStep DEF Next
<1>2. QED
  BY <1>1, InitHolds, StutteringStep, PTL DEF Spec

(* What a successful job says it created is there, one resource for every   *)
(* item, whatever other runs of the job, crashes and retries do.            *)
THEOREM ResultsAreReal == Spec => []SuccessIsReal
<1>1. IInv => SuccessIsReal
  BY DEF IInv
<1>2. QED
  BY <1>1, Invariance, PTL

(* Failing chunks and retries leave no resource behind that is in no        *)
(* result.                                                                  *)
THEOREM FailuresAreUndone == Spec => []NothingLeftBehind
<1>1. IInv => NothingLeftBehind
  BY DEF IInv
<1>2. QED
  BY <1>1, Invariance, PTL

(* Without a stale write, a job runs as often as its attempts say, at most  *)
(* MaxAttempts times, and never again after its success.                    *)
THEOREM AttemptsAreCounted == Spec => []AttemptsCounted
<1>1. IInv => AttemptsCounted
  <2>1. SUFFICES ASSUME IInv, NEW j \in Jobs, "overtaken" \notin faults[j]
                 PROVE  /\ runs[j] = row[j].attempts /\ runs[j] <= MaxAttempts
                        /\ row[j].status = "success" => \A w \in Workers : ~Working(w, j)
    BY DEF AttemptsCounted
  <2>2. OneAtATime(j) /\ \A w \in Workers : WorkFine(step[w], copy[w])
    BY <2>1 DEF IInv
  <2>3. \A w \in Workers : Working(w, j) => row[j].status = "running"
    BY <2>1, <2>2 DEF OneAtATime, Working, WorkFine
  <2>4. QED
    BY <2>1, <2>2, <2>3 DEF OneAtATime
<1>2. QED
  BY <1>1, Invariance, PTL
=============================================================================
