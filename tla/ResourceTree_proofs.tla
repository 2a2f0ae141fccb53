------------------------ MODULE ResourceTree_proofs ------------------------
(* For any nodes, transactions and requests: the depth of every row is the  *)
(* length of its path, and a node that is being moved stays where it was    *)
(* found.  As long as no commit changed what another transaction rested on, *)
(* the path of every live row is the way up by parent_id, so the scopes     *)
(* that are found by path are those by parent_id, no node is below itself,  *)
(* and a subtree is deleted as a whole.                                     *)
EXTENDS ResourceTree, FiniteSetTheorems, SequenceTheorems, WellFoundedInduction, TLAPS

(* Positions *)

\* The position of a new or moved node is measured if that of its parent is.
LEMMA TopMeasured ==
    ASSUME NEW n \in Nodes
    PROVE  Top(n) \in Positions /\ Measured(Top(n))
<1>1. <<n>> \in Seq(Nodes) /\ Len(<<n>>) = 1
  OBVIOUS
<1>2. QED
  BY <1>1 DEF Top, Positions, Measured

LEMMA BelowMeasured ==
    ASSUME NEW n \in Nodes, NEW at \in Positions, Measured(at)
    PROVE  Below(n, at) \in Positions /\ Measured(Below(n, at))
<1>1. Append(at.path, n) \in Seq(Nodes) /\ Len(Append(at.path, n)) = Len(at.path) + 1
  BY DEF Positions
<1>2. QED
  BY <1>1 DEF Below, Positions, Measured

\* The length of what follows a prefix of length i.
LEMMA TailLength ==
    ASSUME NEW s \in Seq(Nodes), NEW i \in Nat, i <= Len(s)
    PROVE  /\ SubSeq(s, i + 1, Len(s)) \in Seq(Nodes)
           /\ Len(SubSeq(s, i + 1, Len(s))) = Len(s) - i
<1>1. \A j \in i + 1 .. Len(s) : s[j] \in Nodes
  OBVIOUS
<1>2. Len(s) \in Nat
  OBVIOUS
<1>3. /\ SubSeq(s, i + 1, Len(s)) \in Seq(Nodes)
      /\ Len(SubSeq(s, i + 1, Len(s))) =
            IF i + 1 <= Len(s) THEN Len(s) - (i + 1) + 1 ELSE 0
  BY <1>1, <1>2, SubSeqProperties
<1>4. (IF i + 1 <= Len(s) THEN Len(s) - (i + 1) + 1 ELSE 0) = Len(s) - i
  BY <1>2
<1>5. QED
  BY <1>3, <1>4

\* A descendant that moves along with its ancestor stays measured.
LEMMA ShiftMeasured ==
    ASSUME NEW at \in Positions, NEW from \in Positions, NEW to \in Positions,
           Measured(at), Measured(from), Measured(to), Len(from.path) <= Len(at.path)
    PROVE  Shifted(at, from, to) \in Positions /\ Measured(Shifted(at, from, to))
<1> DEFINE tail == SubSeq(at.path, Len(from.path) + 1, Len(at.path))
<1>1. tail \in Seq(Nodes) /\ Len(tail) = Len(at.path) - Len(from.path)
  <2>1. at.path \in Seq(Nodes) /\ Len(from.path) \in Nat
    BY DEF Positions
  <2>2. QED
    BY <2>1, TailLength
<1>2. to.path \o tail \in Seq(Nodes) /\ Len(to.path \o tail) = Len(to.path) + Len(tail)
  BY <1>1, ConcatProperties DEF Positions
<1>3. Shifted(at, from, to) =
        [path |-> to.path \o tail, depth |-> at.depth + (to.depth - from.depth)]
  BY DEF Shifted
<1>4. Len(to.path) \in Nat /\ Len(from.path) \in Nat /\ Len(at.path) \in Nat
  BY DEF Positions
<1> HIDE DEF tail
<1>5. QED
  BY <1>1, <1>2, <1>3, <1>4 DEF Positions, Measured
-----------------------------------------------------------------------------
(* Transactions *)

\* A transaction that has not begun holds and rests on nothing.
LEMMA NothingBegun ==
    ASSUME NEW table
    PROVE  /\ NoTx \in Transactions /\ StepFits(NoTx) /\ Fine(NoTx, table)
           /\ Held(NoTx) = {} /\ NoTx.op = "none"
<1>1. NoPosition \in Positions /\ Measured(NoPosition)
  BY DEF NoPosition, Positions, Measured
<1>2. NoTx \in Transactions
  BY <1>1 DEF NoTx, Transactions
<1>3. StepFits(NoTx)
  BY DEF NoTx, StepFits
<1>4. Held(NoTx) = {} /\ NoTx.op = "none"
  BY DEF NoTx, Held
<1>5. Fine(NoTx, table)
  BY <1>1, <1>4 DEF NoTx, Fine
<1>6. QED
  BY <1>2, <1>3, <1>4, <1>5

\* Another transaction is not disturbed by rows it neither holds nor creates.
LEMMA OthersStay ==
    ASSUME NEW r \in Transactions, NEW table, NEW new, Fine(r, table),
           \A n \in Held(r) : new[n] = table[n],
           r.op = "create" => new[r.node].status = table[r.node].status
    PROVE  Fine(r, new)
BY DEF Fine, Held

\* A step of transaction t that writes no row.
LEMMA QuietStep ==
    ASSUME IInv, NEW t \in Txs, NEW new \in Transactions,
           StepFits(new), Fine(new, rows), Set(t, new),
           UNCHANGED rows, requests' \in Nat, raced' \in BOOLEAN,
           \A u \in Txs \ {t} : Apart(new, tx[u])
    PROVE  IInv'
<1>1. tx \in [Txs -> Transactions] /\ \A u \in Txs : tx'[u] = IF u = t THEN new ELSE tx[u]
  BY DEF IInv, TypeOK, Set
<1>2. TypeOK'
  BY <1>1 DEF IInv, TypeOK, Set
<1>3. \A n \in Nodes : Measured(rows'[n].at)
  BY DEF IInv
<1>4. \A u \in Txs : StepFits(tx'[u]) /\ Fine(tx'[u], rows')
  BY <1>1 DEF IInv
<1>5. ASSUME NEW u \in Txs, NEW v \in Txs, u # v PROVE Apart(tx'[u], tx'[v])
  <2>1. CASE u = t
    BY <1>1, <1>5, <2>1
  <2>2. CASE v = t
    BY <1>1, <1>5, <2>2 DEF Apart
  <2>3. CASE u # t /\ v # t
    BY <1>1, <1>5, <2>3 DEF IInv
  <2>4. QED
    BY <2>1, <2>2, <2>3
<1>6. QED
  BY <1>2, <1>3, <1>4, <1>5 DEF IInv

\* A transaction that ends without writing.
LEMMA RollbackKeeps ==
    ASSUME IInv, NEW t \in Txs, Rollback(t)
    PROVE  IInv'
<1>1. \A u \in Txs : Apart(NoTx, tx[u])
  BY NothingBegun DEF Apart
<1>2. requests' \in Nat /\ raced' \in BOOLEAN /\ UNCHANGED rows /\ Set(t, NoTx)
  BY DEF Rollback, End, IInv, TypeOK
<1>3. NoTx \in Transactions /\ StepFits(NoTx) /\ Fine(NoTx, rows)
  BY NothingBegun
<1>4. QED
  BY <1>1, <1>2, <1>3, QuietStep

\* A transaction that commits rows it holds or creates.
LEMMA CommitKeeps ==
    ASSUME IInv, NEW t \in Txs, NEW new \in [Nodes -> Rows], Commit(t, new),
           \A n \in Nodes : Measured(new[n].at),
           \A n \in Nodes : \/ new[n] = rows[n]
                            \/ n \in Held(tx[t])
                            \/ tx[t].op = "create" /\ n = tx[t].node
    PROVE  IInv'
<1>1. tx \in [Txs -> Transactions] /\ rows' = new
      /\ \A u \in Txs : tx'[u] = IF u = t THEN NoTx ELSE tx[u]
  BY DEF IInv, TypeOK, Commit, End, Set
<1>2. NoTx \in Transactions /\ StepFits(NoTx) /\ Fine(NoTx, new)
      /\ \A r : Apart(NoTx, r) /\ Apart(r, NoTx)
  BY NothingBegun DEF Apart
<1>3. TypeOK'
  <2>1. tx' \in [Txs -> Transactions]
    BY <1>1, <1>2 DEF Commit, End, Set
  <2>2. QED
    BY <1>1, <2>1 DEF IInv, TypeOK, Commit
<1>4. ASSUME NEW u \in Txs, u # t PROVE Fine(tx[u], new)
  <2>1. Fine(tx[u], rows) /\ Apart(tx[t], tx[u]) /\ tx[u] \in Transactions
    BY <1>1, <1>4 DEF IInv
  <2>2. \A n \in Held(tx[u]) : n \in Nodes /\ rows[n].status = "live"
    <3>1. Held(tx[u]) \subseteq Nodes
      BY <2>1, <1>4 DEF IInv, StepFits, Held, Transactions
    <3>2. QED
      BY <2>1, <3>1 DEF Fine
  <2>3. tx[t].op = "create" => rows[tx[t].node].status = "none"
    BY DEF IInv, Fine
  <2>4. \A n \in Held(tx[u]) : new[n] = rows[n]
    BY <2>1, <2>2, <2>3 DEF Apart
  <2>5. tx[u].op = "create" => new[tx[u].node] = rows[tx[u].node]
    <3>1. SUFFICES ASSUME tx[u].op = "create" PROVE new[tx[u].node] = rows[tx[u].node]
      OBVIOUS
    <3>2. rows[tx[u].node].status = "none" /\ tx[u].node \in Nodes
      BY <2>1, <3>1 DEF Fine, IInv, StepFits
    <3>3. \A n \in Held(tx[t]) : rows[n].status = "live"
      BY DEF IInv, Fine
    <3>4. QED
      BY <2>1, <3>1, <3>2, <3>3 DEF Apart
  <2>6. QED
    BY <2>1, <2>4, <2>5, OthersStay
<1>5. \A u \in Txs : StepFits(tx'[u]) /\ Fine(tx'[u], rows')
  BY <1>1, <1>2, <1>4 DEF IInv
<1>6. \A u, v \in Txs : u # v => Apart(tx'[u], tx'[v])
  BY <1>1, <1>2 DEF IInv
<1>7. QED
  BY <1>1, <1>3, <1>5, <1>6 DEF IInv
-----------------------------------------------------------------------------
(* The steps of a request *)

\* What holds of every transaction.
LEMMA TxFacts ==
    ASSUME IInv, NEW t \in Txs
    PROVE  /\ tx[t] \in Transactions /\ StepFits(tx[t]) /\ Fine(tx[t], rows)
           /\ \A n \in Nodes : rows[n] \in Rows /\ Measured(rows[n].at)
           /\ \A n \in Nodes : rows[n].at \in Positions
           /\ \A u \in Txs \ {t} : Apart(tx[t], tx[u])
           /\ requests \in Nat /\ raced \in BOOLEAN
BY DEF IInv, TypeOK, Rows

\* A transaction that holds no row is apart from all that create other nodes.
LEMMA NothingHeld ==
    ASSUME NEW r, NEW q, Held(r) = {}, r.op = "create" /\ q.op = "create" => q.node # r.node
    PROVE  Apart(r, q)
BY DEF Apart

LEMMA BeginKeeps ==
    ASSUME IInv, NEW t \in Txs, Begin(t)
    PROVE  IInv'
<1> PICK n \in Nodes :
      \/ BeginDelete(t, n) \/ BeginDeleteSubtree(t, n)
      \/ \E p \in Nodes \cup {NoNode} : BeginCreate(t, n, p) \/ BeginMove(t, n, p)
  BY DEF Begin
<1>1. CASE BeginDelete(t, n)
  <2> DEFINE new == [NoTx EXCEPT !.op = "delete", !.step = "write", !.node = n, !.todo = <<n>>]
  <2>1. /\ new \in Transactions /\ new.op = "delete" /\ new.step = "write"
        /\ new.node = n /\ new.written = {} /\ new.seen = NoTx.seen
        /\ new.target = NoTx.target
    <3>1. <<n>> \in Seq(Nodes)
      OBVIOUS
    <3>2. QED
      BY <3>1, NothingBegun DEF Transactions, NoTx
  <2>2. Set(t, new) /\ UNCHANGED rows /\ requests' \in Nat /\ raced' \in BOOLEAN
    BY <1>1 DEF BeginDelete, IInv, TypeOK
  <2> HIDE DEF new
  <2>3. Held(new) = {} /\ StepFits(new)
    BY <2>1 DEF Held, StepFits
  <2>4. Fine(new, rows)
    BY <2>1, <2>3, NothingBegun DEF Fine
  <2>5. \A u \in Txs \ {t} : Apart(new, tx[u])
    BY <2>1, <2>3, NothingHeld
  <2>6. QED
    BY <2>1, <2>2, <2>3, <2>4, <2>5, QuietStep
<1>2. CASE BeginDeleteSubtree(t, n)
  <2> DEFINE new == [NoTx EXCEPT !.op = "deleteSubtree", !.step = "select", !.node = n,
                                 !.seen[n] = rows[n].at]
  <2>1. /\ new \in Transactions /\ new.op = "deleteSubtree" /\ new.step = "select"
        /\ new.node = n /\ new.written = {} /\ new.target = NoTx.target
        /\ \A m \in Nodes : new.seen[m] = IF m = n THEN rows[n].at ELSE NoTx.seen[m]
    BY NothingBegun, TxFacts DEF Transactions, NoTx
  <2>2. Set(t, new) /\ UNCHANGED rows /\ requests' \in Nat /\ raced' \in BOOLEAN
    BY <1>2 DEF BeginDeleteSubtree, IInv, TypeOK
  <2> HIDE DEF new
  <2>3. Held(new) = {} /\ StepFits(new)
    BY <2>1 DEF Held, StepFits
  <2>4. Fine(new, rows)
    BY <2>1, <2>3, NothingBegun, TxFacts DEF Fine
  <2>5. \A u \in Txs \ {t} : Apart(new, tx[u])
    BY <2>1, <2>3, NothingHeld
  <2>6. QED
    BY <2>1, <2>2, <2>3, <2>4, <2>5, QuietStep
<1>3. CASE \E p \in Nodes \cup {NoNode} : BeginMove(t, n, p)
  <2> PICK p \in Nodes \cup {NoNode} : BeginMove(t, n, p)
    BY <1>3
  <2> DEFINE new == [NoTx EXCEPT !.op = "move", !.step = "lock", !.node = n, !.parent = p]
  <2>1. /\ new \in Transactions /\ new.op = "move" /\ new.step = "lock"
        /\ new.node = n /\ new.written = {} /\ new.seen = NoTx.seen
        /\ new.target = NoTx.target
    BY NothingBegun DEF Transactions, NoTx
  <2>2. Set(t, new) /\ UNCHANGED rows /\ requests' \in Nat /\ raced' \in BOOLEAN
    <3>1. Set(t, new) /\ UNCHANGED <<rows, raced>> /\ requests' = requests + 1
      BY DEF BeginMove
    <3>2. QED
      BY <3>1, TxFacts
  <2> HIDE DEF new
  <2>3. Held(new) = {} /\ StepFits(new)
    BY <2>1 DEF Held, StepFits
  <2>4. Fine(new, rows)
    BY <2>1, <2>3, NothingBegun DEF Fine
  <2>5. \A u \in Txs \ {t} : Apart(new, tx[u])
    BY <2>1, <2>3, NothingHeld
  <2>6. QED
    BY <2>1, <2>2, <2>3, <2>4, <2>5, QuietStep
<1>4. CASE \E p \in Nodes \cup {NoNode} : BeginCreate(t, n, p)
  <2> PICK p \in Nodes \cup {NoNode} : BeginCreate(t, n, p)
    BY <1>4
  <2> DEFINE new == [NoTx EXCEPT !.op = "create", !.node = n, !.parent = p, !.target = Top(n),
                                 !.step = IF p = NoNode THEN "insert" ELSE "parent"]
  <2>1. Top(n) \in Positions /\ Measured(Top(n))
    BY TopMeasured
  <2>2. /\ new \in Transactions /\ new.op = "create"
        /\ new.step = (IF p = NoNode THEN "insert" ELSE "parent")
        /\ new.node = n /\ new.written = {} /\ new.seen = NoTx.seen
        /\ new.parent = p /\ new.target = Top(n)
    BY <2>1, NothingBegun DEF Transactions, NoTx
  <2>3. Set(t, new) /\ UNCHANGED rows /\ requests' \in Nat /\ raced' \in BOOLEAN
        /\ rows[n].status = "none" /\ \A u \in Txs : tx[u].node # n
    BY DEF BeginCreate, IInv, TypeOK
  <2> HIDE DEF new
  <2>4. Held(new) = {} /\ StepFits(new)
    BY <2>2 DEF Held, StepFits
  <2>5. Fine(new, rows)
    BY <2>1, <2>2, <2>3, <2>4, NothingBegun DEF Fine
  <2>6. \A u \in Txs \ {t} : Apart(new, tx[u])
    BY <2>2, <2>3, <2>4, NothingHeld
  <2>7. QED
    BY <2>2, <2>3, <2>4, <2>5, <2>6, QuietStep
<1>5. QED
  BY <1>1, <1>2, <1>3, <1>4

LEMMA LockNodeKeeps ==
    ASSUME IInv, NEW t \in Txs, LockNode(t)
    PROVE  IInv'
<1> DEFINE n == tx[t].node
           own == [tx[t] EXCEPT !.seen[n] = rows[n].at, !.target = Top(n)]
           new == [own EXCEPT !.step = IF own.parent = NoNode THEN "select" ELSE "parent"]
<1>1. tx[t].step = "lock" /\ tx[t].op = "move" /\ n \in Nodes /\ tx[t].written = {}
      /\ rows[n].status = "live" /\ \A u \in Txs \ {t} : n \notin Locked(u)
  BY TxFacts DEF LockNode, Live, Blocked, StepFits
<1>2. Top(n) \in Positions /\ Measured(Top(n))
  BY <1>1, TopMeasured
<1>3. /\ own \in Transactions /\ own.op = "move" /\ own.node = n /\ own.target = Top(n)
      /\ own.written = {} /\ own.parent = tx[t].parent
      /\ \A m \in Nodes : own.seen[m] = IF m = n THEN rows[n].at ELSE tx[t].seen[m]
  BY <1>1, <1>2, TxFacts DEF Transactions
<1>4. Set(t, new) /\ UNCHANGED rows /\ requests' \in Nat /\ raced' \in BOOLEAN
  BY DEF LockNode, IInv, TypeOK
<1> HIDE DEF own
<1>5. /\ new \in Transactions /\ new.op = "move" /\ new.node = n /\ new.target = Top(n)
      /\ new.written = {} /\ new.parent = tx[t].parent /\ new.seen = own.seen
      /\ new.step = (IF tx[t].parent = NoNode THEN "select" ELSE "parent")
  BY <1>3 DEF Transactions
<1> HIDE DEF new
<1>6. Held(new) = {n}
  BY <1>5 DEF Held
<1>7. tx[t].parent \in Nodes \cup {NoNode}
  BY TxFacts DEF Transactions
<1>8. StepFits(new)
  BY <1>1, <1>5, <1>7 DEF StepFits
<1>9. Fine(new, rows)
  <2>1. new.seen[n] = rows[n].at /\ \A m \in Nodes : Measured(new.seen[m])
    BY <1>1, <1>3, <1>5, TxFacts DEF Fine
  <2>2. QED
    BY <1>1, <1>2, <1>5, <1>6, <2>1 DEF Fine
<1>10. \A u \in Txs \ {t} : Apart(new, tx[u])
  <2>1. \A u \in Txs : Locked(u) = Held(tx[u])
    BY DEF Locked, LockedForUpdate, Held
  <2>2. QED
    BY <1>1, <1>5, <1>6, <2>1 DEF Apart
<1>11. QED
  BY <1>4, <1>5, <1>8, <1>9, <1>10, QuietStep

LEMMA ReadParentKeeps ==
    ASSUME IInv, NEW t \in Txs, ReadParent(t)
    PROVE  IInv'
<1> DEFINE p == tx[t].parent
           n == tx[t].node
           new == [tx[t] EXCEPT !.seen[p] = rows[p].at, !.target = Below(n, rows[p].at),
                     !.step = IF tx[t].op = "create" THEN "insert" ELSE "select"]
<1>1. tx[t].step = "parent" /\ tx[t].op \in {"create", "move"} /\ n \in Nodes
      /\ p \in Nodes /\ tx[t].written = {}
  BY TxFacts DEF ReadParent, StepFits
<1>2. tx[t].op = "move" => p # n
  BY DEF ReadParent, MayFollow, MayMoveTo
<1>3. Below(n, rows[p].at) \in Positions /\ Measured(Below(n, rows[p].at))
  BY <1>1, TxFacts, BelowMeasured
<1>4. /\ new \in Transactions /\ new.op = tx[t].op /\ new.node = n /\ new.parent = p
      /\ new.target = Below(n, rows[p].at) /\ new.written = {}
      /\ new.step = (IF tx[t].op = "create" THEN "insert" ELSE "select")
      /\ \A m \in Nodes : new.seen[m] = IF m = p THEN rows[p].at ELSE tx[t].seen[m]
  BY <1>1, <1>3, TxFacts DEF Transactions
<1>5. Set(t, new) /\ UNCHANGED rows /\ requests' \in Nat /\ raced' \in BOOLEAN
  BY DEF ReadParent, IInv, TypeOK
<1> HIDE DEF new
<1>6. Held(new) = Held(tx[t])
  BY <1>1, <1>4 DEF Held
<1>7. StepFits(new)
  BY <1>1, <1>4 DEF StepFits
<1>8. Fine(new, rows)
  <2>1. \A m \in Nodes : Measured(new.seen[m])
    BY <1>1, <1>4, TxFacts DEF Fine
  <2>2. new.op = "move" => rows[n].at = new.seen[n]
    BY <1>1, <1>2, <1>4, TxFacts DEF Fine
  <2>3. QED
    BY <1>1, <1>3, <1>4, <1>6, <2>1, <2>2, TxFacts DEF Fine
<1>9. \A u \in Txs \ {t} : Apart(new, tx[u])
  BY <1>4, <1>6, TxFacts DEF Apart
<1>10. QED
  BY <1>4, <1>5, <1>7, <1>8, <1>9, QuietStep

\* A sequence of the elements of a set of nodes.
LEMMA OrderOf ==
    ASSUME NEW S \in SUBSET Nodes, NEW order \in SetToSeqs(S)
    PROVE  order \in Seq(Nodes) /\ ToSet(order) \subseteq S
<1>1. Cardinality(S) \in Nat
  BY TreeAssumption, FS_Subset, FS_CardinalityType
<1>2. order \in [1..Cardinality(S) -> S]
  BY DEF SetToSeqs
<1>3. order \in Seq(S)
  BY <1>1, <1>2
<1>4. QED
  BY <1>2, <1>3 DEF ToSet

\* What Select records of the rows it found.
Selected(r, order, read) == [r EXCEPT !.todo = order, !.step = "write", !.seen = read]

LEMMA SelectedFields ==
    ASSUME NEW r \in Transactions, NEW order \in Seq(Nodes), NEW read \in [Nodes -> Positions]
    PROVE  /\ Selected(r, order, read) \in Transactions
           /\ Selected(r, order, read).op = r.op /\ Selected(r, order, read).node = r.node
           /\ Selected(r, order, read).step = "write"
           /\ Selected(r, order, read).target = r.target
           /\ Selected(r, order, read).written = r.written
           /\ Selected(r, order, read).seen = read /\ Selected(r, order, read).todo = order
  BY DEF Selected, Transactions

LEMMA SelectKeeps ==
    ASSUME IInv, NEW t \in Txs, Select(t)
    PROVE  IInv'
<1> DEFINE n == tx[t].node
           below == Descendants(tx[t].seen[n].path)
           found == IF tx[t].op = "move" THEN below \ {n}
                    ELSE below \cup {m \in {n} : Live(m)}
           read == [d \in Nodes |-> IF d \in found \ {n} THEN rows[d].at ELSE tx[t].seen[d]]
<1>1. tx[t].step = "select" /\ tx[t].op \in {"move", "deleteSubtree"} /\ n \in Nodes
      /\ tx[t].written = {}
  BY TxFacts DEF Select, StepFits
<1>2. found \in SUBSET Nodes
      /\ \A d \in found \ {n} : IsStrictPrefix(tx[t].seen[n].path, rows[d].at.path)
  BY <1>1 DEF Descendants, Under
<1>3. PICK order \in SetToSeqs(found) :
        Set(t, Selected(tx[t], order, read))
  BY DEF Select, Selected
<1> DEFINE new == Selected(tx[t], order, read)
<1>4. order \in Seq(Nodes) /\ ToSet(order) \subseteq found
  <2> HIDE DEF found
  <2>1. QED
    BY <1>2, <1>3, OrderOf
<1> HIDE DEF found
<1>5. read \in [Nodes -> Positions]
      /\ \A d \in Nodes : read[d] = IF d \in found \ {n} THEN rows[d].at ELSE tx[t].seen[d]
  BY TxFacts DEF Transactions
<1> HIDE DEF read
<1>6. /\ new \in Transactions /\ new.op = tx[t].op /\ new.node = n /\ new.step = "write"
      /\ new.target = tx[t].target /\ new.written = {} /\ new.seen = read /\ new.todo = order
  <2>1. tx[t] \in Transactions
    BY TxFacts
  <2> HIDE DEF n
  <2>2. /\ new \in Transactions /\ new.op = tx[t].op /\ new.node = tx[t].node
        /\ new.step = "write" /\ new.target = tx[t].target /\ new.written = tx[t].written
        /\ new.seen = read /\ new.todo = order
    BY <1>4, <1>5, <2>1, SelectedFields
  <2>3. QED
    BY <1>1, <2>2 DEF n
<1>7. Set(t, new) /\ UNCHANGED rows /\ requests' \in Nat /\ raced' \in BOOLEAN
  BY <1>3 DEF Select, IInv, TypeOK
<1> HIDE DEF new
<1>8. Held(new) = Held(tx[t])
  BY <1>1, <1>6 DEF Held
<1>9. StepFits(new)
  BY <1>1, <1>6 DEF StepFits
<1>10. Fine(new, rows)
  <2>1. \A m \in Nodes : Measured(new.seen[m])
    BY <1>5, <1>6, TxFacts DEF Fine
  <2>2. new.seen[n] = tx[t].seen[n]
    BY <1>1, <1>5, <1>6
  <2>3. tx[t].op = "move" => n \notin found
    BY DEF found
  <2>4. ASSUME new.op = "move", NEW d \in ToSet(new.todo) \cup new.written
        PROVE  Len(new.seen[n].path) <= Len(new.seen[d].path)
    <3>1. d \in found \ {n} /\ d \in Nodes
      BY <1>2, <1>4, <1>6, <2>3, <2>4
    <3>2. new.seen[d] = rows[d].at
      BY <1>5, <1>6, <3>1
    <3>3. QED
      BY <1>2, <2>2, <3>1, <3>2 DEF IsStrictPrefix, IsPrefix
  <2>5. new.op = "move" => rows[n].at = new.seen[n]
    BY <1>1, <1>6, <2>2, TxFacts DEF Fine
  <2>6. QED
    BY <1>1, <1>6, <1>8, <2>1, <2>4, <2>5, TxFacts DEF Fine
<1>11. \A u \in Txs \ {t} : Apart(new, tx[u])
  BY <1>6, <1>8, TxFacts DEF Apart
<1>12. QED
  BY <1>6, <1>7, <1>9, <1>10, <1>11, QuietStep

\* The rest of what is to be written.
LEMMA TailOf ==
    ASSUME NEW s \in Seq(Nodes), s # <<>>
    PROVE  /\ Head(s) \in ToSet(s) /\ Head(s) \in Nodes
           /\ Tail(s) \in Seq(Nodes) /\ ToSet(Tail(s)) \subseteq ToSet(s)
<1>1. Len(s) \in Nat /\ Len(s) # 0 /\ DOMAIN s = 1..Len(s)
  OBVIOUS
<1>2. Head(s) \in ToSet(s) /\ Head(s) \in Nodes
  BY <1>1 DEF ToSet
<1>3. Tail(s) \in Seq(Nodes) /\ Len(Tail(s)) = Len(s) - 1
      /\ \A i \in 1..Len(Tail(s)) : Tail(s)[i] = s[i + 1]
  BY HeadTailProperties
<1>4. DOMAIN Tail(s) = 1..Len(Tail(s))
  BY <1>3
<1>5. ASSUME NEW x \in ToSet(Tail(s)) PROVE x \in ToSet(s)
  <2>1. PICK i \in 1..Len(Tail(s)) : x = Tail(s)[i]
    BY <1>4 DEF ToSet
  <2>2. i + 1 \in 1..Len(s) /\ x = s[i + 1]
    BY <1>1, <1>3, <2>1
  <2>3. QED
    BY <1>1, <2>2 DEF ToSet
<1>6. QED
  BY <1>2, <1>3, <1>5

LEMMA SkipKeeps ==
    ASSUME IInv, NEW t \in Txs, tx[t].step = "write", tx[t].todo # <<>>, Skip(t)
    PROVE  IInv'
<1> DEFINE new == [tx[t] EXCEPT !.todo = Tail(@)]
<1>1. /\ new \in Transactions /\ new.op = tx[t].op /\ new.node = tx[t].node
      /\ new.step = tx[t].step /\ new.parent = tx[t].parent /\ new.target = tx[t].target
      /\ new.written = tx[t].written /\ new.seen = tx[t].seen
      /\ ToSet(new.todo) \subseteq ToSet(tx[t].todo)
  <2>1. Tail(tx[t].todo) \in Seq(Nodes) /\ ToSet(Tail(tx[t].todo)) \subseteq ToSet(tx[t].todo)
    BY TxFacts, TailOf DEF Transactions
  <2>2. QED
    BY <2>1, TxFacts DEF Transactions
<1>2. Set(t, new) /\ UNCHANGED rows /\ requests' \in Nat /\ raced' \in BOOLEAN
  BY TxFacts DEF Skip
<1> HIDE DEF new
<1>3. Held(new) = Held(tx[t]) /\ StepFits(new)
  BY <1>1, TxFacts DEF Held, StepFits
<1>4. Fine(new, rows)
  BY <1>1, <1>3, TxFacts DEF Fine
<1>5. \A u \in Txs \ {t} : Apart(new, tx[u])
  BY <1>1, <1>3, TxFacts DEF Apart
<1>6. QED
  BY <1>1, <1>2, <1>3, <1>4, <1>5, QuietStep

LEMMA WriteRowKeeps ==
    ASSUME IInv, NEW t \in Txs, WriteRow(t)
    PROVE  IInv'
<1> DEFINE d == Head(tx[t].todo)
           new == [tx[t] EXCEPT !.todo = Tail(@), !.written = @ \cup {d}]
<1>1. tx[t].step = "write" /\ tx[t].todo # <<>> /\ Blocked(t, d) = {} /\ StillThere(t, d)
  BY DEF WriteRow
<1>2. /\ d \in Nodes /\ d \in ToSet(tx[t].todo)
      /\ Tail(tx[t].todo) \in Seq(Nodes) /\ ToSet(Tail(tx[t].todo)) \subseteq ToSet(tx[t].todo)
  BY <1>1, TxFacts, TailOf DEF Transactions
<1>3. /\ new \in Transactions /\ new.op = tx[t].op /\ new.node = tx[t].node
      /\ new.step = tx[t].step /\ new.parent = tx[t].parent /\ new.target = tx[t].target
      /\ new.written = tx[t].written \cup {d} /\ new.seen = tx[t].seen
      /\ ToSet(new.todo) \subseteq ToSet(tx[t].todo)
  BY <1>2, TxFacts DEF Transactions
<1>4. Set(t, new) /\ UNCHANGED rows /\ requests' \in Nat /\ raced' \in BOOLEAN
  BY TxFacts DEF WriteRow
<1>5. rows[d].status = "live"
  BY <1>1 DEF StillThere, Live
<1> HIDE DEF new, d
<1>6. Held(new) = Held(tx[t]) \cup {d} /\ StepFits(new)
  BY <1>1, <1>3, TxFacts DEF Held, StepFits
<1>7. Fine(new, rows)
  BY <1>1, <1>2, <1>3, <1>5, <1>6, TxFacts DEF Fine
<1>8. \A u \in Txs \ {t} : Apart(new, tx[u])
  <2>1. \A u \in Txs : Locked(u) = Held(tx[u])
    BY DEF Locked, LockedForUpdate, Held
  <2>2. \A u \in Txs \ {t} : d \notin Held(tx[u])
    BY <1>1, <2>1 DEF Blocked
  <2>3. QED
    BY <1>3, <1>6, <2>2, TxFacts DEF Apart
<1>9. QED
  BY <1>3, <1>4, <1>6, <1>7, <1>8, QuietStep
-----------------------------------------------------------------------------
(* The commits *)

LEMMA InsertKeeps ==
    ASSUME IInv, NEW t \in Txs, Insert(t)
    PROVE  IInv'
<1> DEFINE new == Created(t)
<1>1. tx[t].op = "create" /\ tx[t].node \in Nodes /\ Commit(t, new)
  BY TxFacts DEF Insert, StepFits
<1>2. tx[t].target \in Positions /\ Measured(tx[t].target)
      /\ tx[t].parent \in Nodes \cup {NoNode}
  BY TxFacts DEF Transactions, Fine
<1>3. [status |-> "live", parent |-> tx[t].parent, at |-> tx[t].target] \in Rows
  BY <1>2 DEF Rows
<1>4. /\ new \in [Nodes -> Rows]
      /\ \A n \in Nodes : new[n] = IF n = tx[t].node
           THEN [status |-> "live", parent |-> tx[t].parent, at |-> tx[t].target] ELSE rows[n]
  BY <1>1, <1>3 DEF Created, IInv, TypeOK
<1> HIDE DEF new
<1>5. \A n \in Nodes : Measured(new[n].at)
  BY <1>2, <1>4, TxFacts
<1>6. QED
  BY <1>1, <1>4, <1>5, CommitKeeps

LEMMA FinishMoveKeeps ==
    ASSUME IInv, NEW t \in Txs, FinishMove(t)
    PROVE  IInv'
<1> DEFINE new == Moved(t)
           n == tx[t].node
           old == tx[t].seen[n]
<1>1. tx[t].op = "move" /\ tx[t].step = "write" /\ n \in Nodes /\ Commit(t, new)
  BY TxFacts DEF FinishMove, StepFits
<1>2. /\ tx[t].target \in Positions /\ Measured(tx[t].target)
      /\ old \in Positions /\ Measured(old) /\ tx[t].parent \in Nodes \cup {NoNode}
  BY <1>1, TxFacts DEF Transactions, Fine
<1>3. ASSUME NEW d \in tx[t].written
      PROVE  /\ Shifted(tx[t].seen[d], old, tx[t].target) \in Positions
             /\ Measured(Shifted(tx[t].seen[d], old, tx[t].target))
  <2>1. d \in Nodes /\ tx[t].seen[d] \in Positions /\ Measured(tx[t].seen[d])
    BY TxFacts DEF Transactions, Fine
  <2>2. Len(old.path) <= Len(tx[t].seen[d].path)
    BY <1>1, TxFacts DEF Fine
  <2>3. QED
    BY <1>2, <2>1, <2>2, ShiftMeasured
<1>4. ASSUME NEW m \in Nodes
      PROVE  /\ new[m] \in Rows /\ Measured(new[m].at)
             /\ new[m] = rows[m] \/ m \in Held(tx[t])
  <2>1. CASE m = n
    <3>1. new[m] = [rows[m] EXCEPT !.parent = tx[t].parent, !.at = tx[t].target]
      BY <2>1 DEF Moved
    <3>2. m \in Held(tx[t])
      BY <1>1, <2>1 DEF Held
    <3>3. QED
      BY <1>2, <3>1, <3>2, TxFacts DEF Rows
  <2>2. CASE m # n /\ m \in tx[t].written
    <3>1. new[m] = [rows[m] EXCEPT !.at = Shifted(tx[t].seen[m], old, tx[t].target)]
      BY <2>2 DEF Moved
    <3>2. m \in Held(tx[t])
      BY <2>2 DEF Held
    <3>3. QED
      BY <1>3, <2>2, <3>1, <3>2, TxFacts DEF Rows
  <2>3. CASE m # n /\ m \notin tx[t].written
    <3>1. new[m] = rows[m]
      BY <2>3 DEF Moved
    <3>2. QED
      BY <3>1, TxFacts
  <2>4. QED
    BY <2>1, <2>2, <2>3
<1>5. new \in [Nodes -> Rows]
  <2>1. \A m \in Nodes : new[m] \in Rows
    BY <1>4
  <2>2. new = [m \in Nodes |-> new[m]]
    BY DEF Moved
  <2>3. QED
    BY <2>1, <2>2
<1> HIDE DEF new
<1>6. QED
  BY <1>1, <1>4, <1>5, CommitKeeps

LEMMA FinishDeleteKeeps ==
    ASSUME IInv, NEW t \in Txs, FinishDelete(t)
    PROVE  IInv'
<1> DEFINE new == Deleted(t)
<1>1. Commit(t, new)
  BY DEF FinishDelete
<1>2. ASSUME NEW m \in Nodes
      PROVE  /\ new[m] \in Rows /\ Measured(new[m].at)
             /\ new[m] = rows[m] \/ m \in Held(tx[t])
  BY TxFacts DEF Deleted, Rows, Held
<1>3. new \in [Nodes -> Rows]
  <2>1. new = [m \in Nodes |-> new[m]]
    BY DEF Deleted
  <2>2. QED
    BY <1>2, <2>1
<1> HIDE DEF new
<1>4. QED
  BY <1>1, <1>2, <1>3, CommitKeeps
-----------------------------------------------------------------------------
(* Paths *)

\* A non-empty set of natural numbers has a least element.
LEMMA LeastElement ==
    ASSUME NEW T \in SUBSET Nat, T # {}
    PROVE  \E x \in T : \A y \in T : x <= y
<1> DEFINE R == OpToRel(<, Nat)
<1>1. IsWellFoundedOn(R, Nat)
  BY NatLessThanWellFounded
<1>2. \A x \in Nat, y \in Nat : y < x => <<y, x>> \in R
  BY DEF OpToRel
<1> HIDE DEF R
<1>3. PICK x \in T : \A y \in T : ~(<<y, x>> \in R)
  BY <1>1, WFMin
<1>4. ASSUME NEW y \in T PROVE x <= y
  <2>1. x \in Nat /\ y \in Nat
    OBVIOUS
  <2>2. ~(y < x)
    BY <1>2, <1>3, <2>1, Zenon
  <2>3. QED
    BY <2>1, <2>2
<1>5. QED
  BY <1>4

\* A prefix agrees with the sequence as far as it goes.
LEMMA PrefixAgrees ==
    ASSUME NEW s \in Seq(Nodes), NEW q \in Seq(Nodes)
    PROVE  IsPrefix(s, q) <=> Len(s) <= Len(q) /\ \A i \in 1..Len(s) : s[i] = q[i]
<1>1. Len(s) \in Nat /\ Len(q) \in Nat
  OBVIOUS
<1>2. ASSUME Len(s) <= Len(q)
      PROVE  SubSeq(s, 1, Len(s)) = SubSeq(q, 1, Len(s)) <=> \A i \in 1..Len(s) : s[i] = q[i]
  <2>1. /\ SubSeq(s, 1, Len(s)) \in Seq(Nodes) /\ Len(SubSeq(s, 1, Len(s))) = Len(s)
        /\ \A i \in 1..Len(s) : SubSeq(s, 1, Len(s))[i] = s[i]
    BY <1>1
  <2>2. /\ SubSeq(q, 1, Len(s)) \in Seq(Nodes) /\ Len(SubSeq(q, 1, Len(s))) = Len(s)
        /\ \A i \in 1..Len(s) : SubSeq(q, 1, Len(s))[i] = q[i]
    BY <1>1, <1>2
  <2> DEFINE u == SubSeq(s, 1, Len(s))
             v == SubSeq(q, 1, Len(s))
  <2> HIDE DEF u, v
  <2>3. u = v <=> \A i \in 1..Len(s) : u[i] = v[i]
    BY <2>1, <2>2, SeqEqual DEF u, v
  <2>4. QED
    BY <2>1, <2>2, <2>3 DEF u, v
<1>3. QED
  BY <1>2 DEF IsPrefix

LEMMA UnderAgrees ==
    ASSUME NEW s \in Seq(Nodes), NEW q \in Seq(Nodes)
    PROVE  Under(q, s) <=> Len(s) < Len(q) /\ \A i \in 1..Len(s) : s[i] = q[i]
<1>1. Len(s) \in Nat /\ Len(q) \in Nat
  OBVIOUS
<1>2. s = q <=> Len(s) = Len(q) /\ \A i \in 1..Len(s) : s[i] = q[i]
  BY SeqEqual
<1>3. QED
  BY <1>1, <1>2, PrefixAgrees DEF Under, IsStrictPrefix

\* What Traced says of the path.
LEMMA PathFacts ==
    ASSUME NEW table \in [Nodes -> Rows], NEW n \in Nodes, Traced(table, n)
    PROVE  LET p == table[n].at.path
           IN  /\ p \in Seq(Nodes) /\ Len(p) \in Nat /\ 1 <= Len(p) /\ p[Len(p)] = n
               /\ \A i \in 1..Len(p) : p[i] \in Nodes /\ p[i] # NoNode
               /\ table[p[1]].parent = NoNode
               /\ \A i \in 2..Len(p) : table[p[i]].parent = p[i - 1]
               /\ \A i \in 1..Len(p) : table[p[i]].status # "none"
<1> DEFINE p == table[n].at.path
<1>1. p \in Seq(Nodes)
  BY DEF Rows, Positions
<1>2. p # <<>> /\ p[Len(p)] = n
      /\ \A i \in 1..Len(p) : /\ table[p[i]].status # "none"
                              /\ table[p[i]].parent = IF i = 1 THEN NoNode ELSE p[i - 1]
  BY DEF Traced
<1> HIDE DEF p
<1>3. Len(p) \in Nat /\ Len(p) # 0 /\ \A i \in 1..Len(p) : p[i] \in Nodes
  BY <1>1, <1>2
<1>4. table[p[1]].parent = NoNode
  BY <1>2, <1>3
<1>5. \A i \in 2..Len(p) : table[p[i]].parent = p[i - 1]
  BY <1>2, <1>3
<1>6. QED
  BY <1>1, <1>2, <1>3, <1>4, <1>5, TreeAssumption DEF p

\* A node has one way up: two paths through it agree from the top down to it.
LEMMA SameWayUp ==
    ASSUME NEW table \in [Nodes -> Rows], NEW m \in Nodes, NEW q \in Nodes,
           Traced(table, m), Traced(table, q),
           NEW a \in 1..Len(table[m].at.path), NEW b \in 1..Len(table[q].at.path),
           table[m].at.path[a] = table[q].at.path[b]
    PROVE  a = b /\ \A i \in 1..a : table[m].at.path[i] = table[q].at.path[i]
<1> DEFINE s == table[m].at.path
           v == table[q].at.path
           apart == {k \in Nat : k < a /\ k < b /\ s[a - k] # v[b - k]}
<1>1. /\ s \in Seq(Nodes) /\ Len(s) \in Nat /\ \A i \in 1..Len(s) : s[i] \in Nodes /\ s[i] # NoNode
      /\ table[s[1]].parent = NoNode /\ \A i \in 2..Len(s) : table[s[i]].parent = s[i - 1]
  BY PathFacts
<1>2. /\ v \in Seq(Nodes) /\ Len(v) \in Nat /\ \A i \in 1..Len(v) : v[i] \in Nodes /\ v[i] # NoNode
      /\ table[v[1]].parent = NoNode /\ \A i \in 2..Len(v) : table[v[i]].parent = v[i - 1]
  BY PathFacts
<1>3. s[a] = v[b] /\ a \in 1..Len(s) /\ b \in 1..Len(v)
  OBVIOUS
<1> HIDE DEF s, v
<1>4. apart = {}
  <2>1. SUFFICES ASSUME apart # {} PROVE FALSE
    OBVIOUS
  <2>2. PICK k \in apart : \A j \in apart : k <= j
    <3>1. apart \in SUBSET Nat
      OBVIOUS
    <3> HIDE DEF apart
    <3>2. QED
      BY <2>1, <3>1, LeastElement
  <2>3. k \in Nat /\ k < a /\ k < b /\ s[a - k] # v[b - k] /\ k # 0
    BY <1>1, <1>2, <1>3
  <2>4. k - 1 \in Nat /\ k - 1 < a /\ k - 1 < b /\ k - 1 \notin apart
    <3>1. k - 1 \in Nat /\ k - 1 < a /\ k - 1 < b /\ ~(k <= k - 1)
      BY <1>1, <1>2, <1>3, <2>3
    <3> HIDE DEF apart
    <3>2. k - 1 \notin apart
      BY <2>2, <3>1
    <3>3. QED
      BY <3>1, <3>2
  <2>5. s[a - (k - 1)] = v[b - (k - 1)]
    BY <2>4
  <2>6. a - (k - 1) \in 2..Len(s) /\ b - (k - 1) \in 2..Len(v)
        /\ (a - (k - 1)) - 1 = a - k /\ (b - (k - 1)) - 1 = b - k
    BY <1>1, <1>2, <1>3, <2>3
  <2>7. s[a - k] = v[b - k]
    BY <1>1, <1>2, <2>5, <2>6
  <2>8. QED
    BY <2>3, <2>7
<1>5. \A k \in Nat : k < a /\ k < b => s[a - k] = v[b - k]
  BY <1>4
<1> HIDE DEF apart
<1>6. a \in Nat /\ b \in Nat /\ 1 <= a /\ 1 <= b
  BY <1>3
<1>7. ~(a < b)
  <2>1. SUFFICES ASSUME a < b PROVE FALSE
    OBVIOUS
  <2>2. a - 1 \in Nat /\ a - 1 < a /\ a - 1 < b /\ a - (a - 1) = 1 /\ b - (a - 1) \in 2..Len(v)
        /\ (b - (a - 1)) - 1 \in 1..Len(v)
    BY <1>2, <1>3, <1>6, <2>1
  <2>3. s[1] = v[b - (a - 1)]
    BY <1>5, <2>2
  <2>4. QED
    BY <1>1, <1>2, <2>2, <2>3
<1>8. ~(b < a)
  <2>1. SUFFICES ASSUME b < a PROVE FALSE
    OBVIOUS
  <2>2. b - 1 \in Nat /\ b - 1 < a /\ b - 1 < b /\ b - (b - 1) = 1 /\ a - (b - 1) \in 2..Len(s)
        /\ (a - (b - 1)) - 1 \in 1..Len(s)
    BY <1>1, <1>3, <1>6, <2>1
  <2>3. v[1] = s[a - (b - 1)]
    BY <1>5, <2>2
  <2>4. QED
    BY <1>1, <1>2, <2>2, <2>3
<1>9. a = b
  BY <1>6, <1>7, <1>8
<1>10. ASSUME NEW i \in 1..a PROVE s[i] = v[i]
  <2>1. a - i \in Nat /\ a - i < a /\ a - i < b /\ a - (a - i) = i /\ b - (a - i) = i
    BY <1>6, <1>9
  <2>2. QED
    BY <1>5, <2>1
<1>11. QED
  BY <1>9, <1>10 DEF s, v

\* A path that was traced is below another exactly when it runs through the
\* other's node before its end.
LEMMA UnderMeansThrough ==
    ASSUME NEW table \in [Nodes -> Rows], NEW n \in Nodes, NEW r \in Nodes,
           Traced(table, n), Traced(table, r)
    PROVE  Under(table[n].at.path, table[r].at.path)
             <=> \E i \in 1..Len(table[n].at.path) - 1 : table[n].at.path[i] = r
<1> DEFINE p == table[n].at.path
           s == table[r].at.path
<1>1. p \in Seq(Nodes) /\ Len(p) \in Nat
  BY PathFacts
<1>2. s \in Seq(Nodes) /\ Len(s) \in Nat /\ 1 <= Len(s) /\ s[Len(s)] = r
  BY PathFacts
<1>3. Under(p, s) <=> Len(s) < Len(p) /\ \A i \in 1..Len(s) : s[i] = p[i]
  BY <1>1, <1>2, UnderAgrees
<1>4. ASSUME NEW i \in 1..Len(p), p[i] = r PROVE Len(s) = i /\ \A j \in 1..Len(s) : s[j] = p[j]
  <2>1. Len(s) \in 1..Len(s)
    BY <1>2
  <2>2. s[Len(s)] = p[i]
    BY <1>2, <1>4
  <2>3. QED
    BY <1>4, <2>1, <2>2, SameWayUp
<1> HIDE DEF p, s
<1>5. ASSUME NEW i \in 1..Len(p) - 1, p[i] = r PROVE Under(p, s)
  BY <1>1, <1>2, <1>3, <1>4, <1>5
<1>6. ASSUME Under(p, s) PROVE \E i \in 1..Len(p) - 1 : p[i] = r
  BY <1>1, <1>2, <1>3, <1>6
<1>7. QED
  BY <1>5, <1>6 DEF p, s
-----------------------------------------------------------------------------
(* Ancestors *)

\* No node comes twice on a path: it is no longer than there are nodes.
LEMMA PathIsShort ==
    ASSUME NEW table \in [Nodes -> Rows], NEW n \in Nodes, Traced(table, n)
    PROVE  /\ \A i, j \in 1..Len(table[n].at.path) :
                table[n].at.path[i] = table[n].at.path[j] => i = j
           /\ Len(table[n].at.path) <= Cardinality(Nodes)
<1> DEFINE p == table[n].at.path
<1>1. p \in Seq(Nodes) /\ Len(p) \in Nat /\ \A i \in 1..Len(p) : p[i] \in Nodes
  BY PathFacts
<1>2. \A i, j \in 1..Len(p) : p[i] = p[j] => i = j
  BY SameWayUp
<1> HIDE DEF p
<1> DEFINE f == [i \in 1..Len(p) |-> p[i]]
<1>3. f \in Injection(1..Len(p), Nodes)
  BY <1>1, <1>2 DEF Injection, IsInjective
<1>4. Cardinality(1..Len(p)) <= Cardinality(Nodes)
  BY <1>3, TreeAssumption, FS_Injection
<1>5. Cardinality(1..Len(p)) = Len(p)
  <2>1. Cardinality(1..Len(p)) = IF 1 > Len(p) THEN 0 ELSE Len(p) - 1 + 1
    BY <1>1, FS_Interval
  <2>2. QED
    BY <1>1, <2>1
<1>6. QED
  BY <1>2, <1>4, <1>5 DEF p

\* The way up that Ancestors walks.
Step(table, n, f, k) ==
    IF k = 0 THEN n ELSE IF f[k - 1] = NoNode THEN NoNode ELSE table[f[k - 1]].parent

LeadsUp(f, table, n) == f = [k \in 0..Cardinality(Nodes) |-> Step(table, n, f, k)]

WayUp(table, n) == CHOOSE up : LeadsUp(up, table, n)

LEMMA WalkedUp ==
    ASSUME NEW table, NEW n
    PROVE  Ancestors(table, n) = {WayUp(table, n)[k] : k \in 1..Cardinality(Nodes)} \ {NoNode}
BY DEF Ancestors, WayUp, LeadsUp, Step

LEMMA WayUpLeads ==
    ASSUME NEW table, NEW n, NEW g, LeadsUp(g, table, n)
    PROVE  LeadsUp(WayUp(table, n), table, n)
BY DEF WayUp

\* The ancestors of a node are the nodes before it on its path.
LEMMA AncestorsAreOnPath ==
    ASSUME NEW table \in [Nodes -> Rows], NEW n \in Nodes, Traced(table, n)
    PROVE  Ancestors(table, n) =
             {table[n].at.path[i] : i \in 1..Len(table[n].at.path) - 1}
<1> DEFINE p == table[n].at.path
           N == Cardinality(Nodes)
           g == [k \in 0..N |-> IF k < Len(p) THEN p[Len(p) - k] ELSE NoNode]
           f == WayUp(table, n)
<1>1. /\ p \in Seq(Nodes) /\ Len(p) \in Nat /\ 1 <= Len(p) /\ p[Len(p)] = n
      /\ \A i \in 1..Len(p) : p[i] \in Nodes /\ p[i] # NoNode
      /\ table[p[1]].parent = NoNode /\ \A i \in 2..Len(p) : table[p[i]].parent = p[i - 1]
  BY PathFacts
<1>2. N \in Nat /\ Len(p) <= N
  BY PathIsShort, TreeAssumption, FS_CardinalityType
<1> HIDE DEF p, N
<1>3. ASSUME NEW k \in 0..N PROVE g[k] = Step(table, n, g, k)
  <2>1. CASE k = 0
    BY <1>1, <1>2, <2>1 DEF Step
  <2>2. CASE k # 0 /\ k < Len(p)
    <3>1. k - 1 \in 0..N /\ k - 1 < Len(p) /\ Len(p) - (k - 1) \in 2..Len(p)
          /\ (Len(p) - (k - 1)) - 1 = Len(p) - k
      BY <1>1, <1>2, <2>2
    <3>2. g[k - 1] = p[Len(p) - (k - 1)] /\ g[k - 1] # NoNode
      BY <1>1, <3>1
    <3>3. table[g[k - 1]].parent = p[Len(p) - k]
      BY <1>1, <3>1, <3>2
    <3>4. g[k] = p[Len(p) - k]
      BY <2>2
    <3> HIDE DEF g
    <3>5. QED
      BY <2>2, <3>2, <3>3, <3>4 DEF Step
  <2>3. CASE k = Len(p)
    <3>1. k - 1 \in 0..N /\ k - 1 < Len(p) /\ Len(p) - (k - 1) = 1 /\ k # 0 /\ ~(k < Len(p))
      BY <1>1, <1>2, <2>3
    <3>2. g[k - 1] = p[1] /\ g[k - 1] # NoNode
      BY <1>1, <3>1
    <3>3. g[k] = NoNode
      BY <3>1
    <3> HIDE DEF g
    <3>4. QED
      BY <1>1, <3>1, <3>2, <3>3 DEF Step
  <2>4. CASE k > Len(p)
    <3>1. k - 1 \in 0..N /\ ~(k - 1 < Len(p)) /\ k # 0 /\ ~(k < Len(p))
      BY <1>1, <1>2, <2>4
    <3>2. g[k - 1] = NoNode /\ g[k] = NoNode
      BY <3>1
    <3> HIDE DEF g
    <3>3. QED
      BY <3>1, <3>2 DEF Step
  <2>5. QED
    BY <1>1, <1>2, <2>1, <2>2, <2>3, <2>4
<1>4. \A k \in 0..N : f[k] = Step(table, n, f, k)
  <2>1. g = [k \in 0..N |-> g[k]]
    OBVIOUS
  <2> HIDE DEF g
  <2>2. LeadsUp(g, table, n)
    BY <1>3, <2>1 DEF LeadsUp, N
  <2>3. LeadsUp(f, table, n)
    BY <2>2, WayUpLeads
  <2> HIDE DEF f
  <2>4. QED
    BY <2>3 DEF LeadsUp, N
<1>5. \A k \in 0..N : g[k] = IF k < Len(p) THEN p[Len(p) - k] ELSE NoNode
  OBVIOUS
<1> HIDE DEF f, g
<1>6. \A k \in 0..N : f[k] = g[k]
  <2> DEFINE apart == {k \in Nat : k <= N /\ f[k] # g[k]}
  <2>1. SUFFICES ASSUME apart # {} PROVE FALSE
    BY <1>2
  <2>2. PICK k \in apart : \A j \in apart : k <= j
    <3>1. apart \in SUBSET Nat
      OBVIOUS
    <3> HIDE DEF apart
    <3>2. QED
      BY <2>1, <3>1, LeastElement
  <2>3. k \in 0..N /\ f[k] # g[k]
    BY <1>2
  <2>4. k # 0
    BY <1>3, <1>4, <2>3 DEF Step
  <2>5. k - 1 \in Nat /\ k - 1 <= N /\ ~(k <= k - 1)
    BY <1>2, <2>3, <2>4
  <2>6. f[k - 1] = g[k - 1]
    BY <2>2, <2>5
  <2>7. QED
    BY <1>3, <1>4, <2>3, <2>4, <2>6 DEF Step
<1>7. Ancestors(table, n) = {f[k] : k \in 1..N} \ {NoNode}
  BY WalkedUp DEF f, N
<1>8. ASSUME NEW x \in Ancestors(table, n) PROVE \E i \in 1..Len(p) - 1 : x = p[i]
  <2>1. PICK k \in 1..N : x = f[k] /\ x # NoNode
    BY <1>7
  <2>2. k \in 0..N /\ k < Len(p) /\ x = p[Len(p) - k]
    BY <1>2, <1>5, <1>6, <2>1
  <2>3. Len(p) - k \in 1..Len(p) - 1
    BY <1>1, <2>2
  <2>4. QED
    BY <2>2, <2>3
<1>9. ASSUME NEW i \in 1..Len(p) - 1 PROVE p[i] \in Ancestors(table, n)
  <2>1. Len(p) - i \in 1..N /\ Len(p) - i \in 0..N /\ Len(p) - i < Len(p)
        /\ Len(p) - (Len(p) - i) = i /\ i \in 1..Len(p)
    BY <1>1, <1>2
  <2>2. f[Len(p) - i] = p[i] /\ p[i] # NoNode
    BY <1>1, <1>5, <1>6, <2>1
  <2>3. QED
    BY <1>7, <2>1, <2>2
<1>10. QED
  BY <1>8, <1>9 DEF p

\* Below by parent_id and below by path are the same.
LEMMA BelowMeansUnder ==
    ASSUME NEW table \in [Nodes -> Rows], NEW n \in Nodes, NEW r \in Nodes,
           Traced(table, n), Traced(table, r)
    PROVE  r \in Ancestors(table, n) <=> Under(table[n].at.path, table[r].at.path)
<1>1. r \in Ancestors(table, n)
        <=> \E i \in 1..Len(table[n].at.path) - 1 : table[n].at.path[i] = r
  BY AncestorsAreOnPath
<1>2. QED
  BY <1>1, UnderMeansThrough

\* No node with a path that was traced is below itself.
LEMMA NotBelowItself ==
    ASSUME NEW table \in [Nodes -> Rows], NEW n \in Nodes, Traced(table, n)
    PROVE  n \notin Ancestors(table, n)
<1>1. table[n].at.path \in Seq(Nodes) /\ Len(table[n].at.path) \in Nat
  BY PathFacts
<1>2. ~Under(table[n].at.path, table[n].at.path)
  BY DEF Under, IsStrictPrefix
<1>3. QED
  BY <1>2, BelowMeansUnder
-----------------------------------------------------------------------------
(* A history without races *)

\* A transaction that has not begun has read nothing.
LEMMA NothingRead ==
    ASSUME NEW table
    PROVE  Current(NoTx, table)
BY DEF Current, NoTx

\* A row that was read is not taken for one that was not.
LEMMA TracedIsSomewhere ==
    ASSUME NEW table \in [Nodes -> Rows], NEW n \in Nodes, Traced(table, n)
    PROVE  table[n].at # NoPosition
BY DEF Traced, NoPosition

\* What Unraced says as long as there was no race.
LEMMA UnracedFacts ==
    ASSUME IInv, Unraced, ~raced
    PROVE  /\ rows \in [Nodes -> Rows]
           /\ \A n \in Nodes : Live(n) => Traced(rows, n) /\ rows[n].at # NoPosition
           /\ \A t \in Txs : Current(tx[t], rows)
<1>1. rows \in [Nodes -> Rows]
  BY DEF IInv, TypeOK
<1>2. QED
  BY <1>1, TracedIsSomewhere DEF Unraced

\* A step of transaction t that writes no row.
LEMMA QuietUnraced ==
    ASSUME IInv, Unraced, NEW t \in Txs, NEW new, Set(t, new), UNCHANGED <<rows, raced>>,
           ~raced => Current(new, rows)
    PROVE  Unraced'
<1>1. \A u \in Txs : tx'[u] = IF u = t THEN new ELSE tx[u]
  BY DEF IInv, TypeOK, Set
<1>2. QED
  BY <1>1 DEF Unraced, Live

LEMMA RollbackUnraced ==
    ASSUME IInv, Unraced, NEW t \in Txs, Rollback(t)
    PROVE  Unraced'
BY QuietUnraced, NothingRead DEF Rollback, End

\* A commit that changes nothing a transaction rested on leaves it current.
LEMMA OthersCurrent ==
    ASSUME IInv, NEW t \in Txs, NEW u \in Txs \ {t}, NEW new \in [Nodes -> Rows],
           Current(tx[u], rows), ~Races(t, new)
    PROVE  Current(tx[u], new)
<1> DEFINE r == tx[u]
<1>1. ASSUME NEW n \in Nodes, new[n] # rows[n]
      PROVE  /\ r.seen[n] = NoPosition
             /\ r.step = "write" /\ r.op \in {"move", "deleteSubtree"}
                  => ~Under(new[n].at.path, r.seen[r.node].path)
  BY <1>1 DEF Races, RestsOn
<1>2. r.step # "idle" => r.node \in Nodes
  BY TxFacts DEF StepFits
<1> HIDE DEF r
<1>3. Current(r, rows)
  BY DEF r
<1>4. \A n \in Nodes : r.seen[n] # NoPosition => new[n] = rows[n]
  BY <1>1
<1>5. \A n \in Nodes : r.seen[n] # NoPosition =>
                          new[n].status = "live" /\ new[n].at = r.seen[n]
  BY <1>3, <1>4 DEF Current
<1>6. ASSUME r.step = "write", r.op \in {"move", "deleteSubtree"}
      PROVE  Affected(r, new) = Affected(r, rows)
  <2>1. r.node \in Nodes /\ (r.op = "deleteSubtree" => r.seen[r.node] # NoPosition)
    BY <1>2, <1>3, <1>6 DEF Current
  <2>2. \A d \in Affected(r, rows) : d \in Nodes /\ new[d] = rows[d]
    BY <1>3, <1>4, <1>6 DEF Current, Affected
  <2>3. ASSUME NEW d \in Affected(r, new) PROVE new[d] = rows[d]
    BY <1>1, <1>4, <1>6, <2>1, <2>3 DEF Affected
  <2>4. QED
    BY <2>2, <2>3 DEF Affected
<1>7. Current(r, new)
  BY <1>3, <1>5, <1>6 DEF Current
<1>8. QED
  BY <1>7 DEF r

\* A commit keeps the tree traced if what it writes is.
LEMMA CommitUnraced ==
    ASSUME IInv, Unraced, NEW t \in Txs, NEW new \in [Nodes -> Rows], Commit(t, new),
           ~raced => \A n \in Nodes : new[n].status = "live" => Traced(new, n)
    PROVE  Unraced'
<1>1. /\ rows' = new /\ raced' = (raced \/ Races(t, new))
      /\ \A u \in Txs : tx'[u] = IF u = t THEN NoTx ELSE tx[u]
  BY DEF IInv, TypeOK, Commit, End, Set
<1>2. SUFFICES ASSUME ~raced, ~Races(t, new)
               PROVE  /\ \A n \in Nodes : Live(n)' => Traced(new, n)
                      /\ \A u \in Txs : Current(tx'[u], new)
  BY <1>1 DEF Unraced, IInv, TypeOK
<1>3. \A n \in Nodes : Live(n)' => Traced(new, n)
  BY <1>1, <1>2 DEF Live
<1>4. ASSUME NEW u \in Txs PROVE Current(tx'[u], new)
  <2>1. CASE u = t
    BY <1>1, <2>1, NothingRead
  <2>2. CASE u # t
    <3>1. Current(tx[u], rows)
      BY <1>2, UnracedFacts
    <3>2. QED
      BY <1>1, <1>2, <2>2, <3>1, OthersCurrent
  <2>3. QED
    BY <2>1, <2>2
<1>5. QED
  BY <1>3, <1>4

\* A path on which no row changed stays traced.
LEMMA StillTraced ==
    ASSUME NEW table \in [Nodes -> Rows], NEW new \in [Nodes -> Rows], NEW n \in Nodes,
           Traced(table, n), new[n].at = table[n].at,
           \A i \in 1..Len(table[n].at.path) :
              /\ new[table[n].at.path[i]].parent = table[table[n].at.path[i]].parent
              /\ new[table[n].at.path[i]].status # "none"
    PROVE  Traced(new, n)
BY DEF Traced
-----------------------------------------------------------------------------
(* The steps of a request in a history without races *)

LEMMA BeginUnraced ==
    ASSUME IInv, Unraced, NEW t \in Txs, Begin(t)
    PROVE  Unraced'
<1> PICK n \in Nodes :
      \/ BeginDelete(t, n) \/ BeginDeleteSubtree(t, n)
      \/ \E p \in Nodes \cup {NoNode} : BeginCreate(t, n, p) \/ BeginMove(t, n, p)
  BY DEF Begin
<1>0. NoTx \in Transactions /\ NoTx.seen \in [Nodes -> Positions]
      /\ \A m \in Nodes : NoTx.seen[m] = NoPosition
  BY NothingBegun DEF NoTx, Transactions
<1>1. CASE BeginDelete(t, n)
  <2> DEFINE new == [NoTx EXCEPT !.op = "delete", !.step = "write", !.node = n, !.todo = <<n>>]
  <2>1. new.op = "delete" /\ new.step = "write" /\ new.seen = NoTx.seen
    BY DEF NoTx
  <2>2. Set(t, new) /\ UNCHANGED <<rows, raced>>
    BY <1>1 DEF BeginDelete
  <2> HIDE DEF new
  <2>3. Current(new, rows)
    BY <1>0, <2>1 DEF Current
  <2>4. QED
    BY <2>2, <2>3, QuietUnraced
<1>2. CASE BeginDeleteSubtree(t, n)
  <2> DEFINE new == [NoTx EXCEPT !.op = "deleteSubtree", !.step = "select", !.node = n,
                                 !.seen[n] = rows[n].at]
  <2>1. /\ new.op = "deleteSubtree" /\ new.step = "select" /\ new.node = n
        /\ \A m \in Nodes : new.seen[m] = IF m = n THEN rows[n].at ELSE NoPosition
    BY <1>0 DEF NoTx
  <2>2. Set(t, new) /\ UNCHANGED <<rows, raced>> /\ Live(n)
    BY <1>2 DEF BeginDeleteSubtree
  <2> HIDE DEF new
  <2>3. ASSUME ~raced PROVE Current(new, rows)
    BY <1>0, <2>1, <2>2, <2>3, UnracedFacts DEF Current, Live
  <2>4. QED
    BY <2>2, <2>3, QuietUnraced
<1>3. CASE \E p \in Nodes \cup {NoNode} : BeginMove(t, n, p)
  <2> PICK p \in Nodes \cup {NoNode} : BeginMove(t, n, p)
    BY <1>3
  <2> DEFINE new == [NoTx EXCEPT !.op = "move", !.step = "lock", !.node = n, !.parent = p]
  <2>1. new.op = "move" /\ new.step = "lock" /\ new.seen = NoTx.seen
    BY DEF NoTx
  <2>2. Set(t, new) /\ UNCHANGED <<rows, raced>>
    BY DEF BeginMove
  <2> HIDE DEF new
  <2>3. Current(new, rows)
    BY <1>0, <2>1 DEF Current
  <2>4. QED
    BY <2>2, <2>3, QuietUnraced
<1>4. CASE \E p \in Nodes \cup {NoNode} : BeginCreate(t, n, p)
  <2> PICK p \in Nodes \cup {NoNode} : BeginCreate(t, n, p)
    BY <1>4
  <2> DEFINE new == [NoTx EXCEPT !.op = "create", !.node = n, !.parent = p, !.target = Top(n),
                                 !.step = IF p = NoNode THEN "insert" ELSE "parent"]
  <2>1. /\ new.op = "create" /\ new.step = (IF p = NoNode THEN "insert" ELSE "parent")
        /\ new.node = n /\ new.seen = NoTx.seen /\ new.parent = p /\ new.target = Top(n)
    BY DEF NoTx
  <2>2. Set(t, new) /\ UNCHANGED <<rows, raced>>
    BY DEF BeginCreate
  <2> HIDE DEF new
  <2>3. Current(new, rows)
    BY <1>0, <2>1 DEF Current, Aims
  <2>4. QED
    BY <2>2, <2>3, QuietUnraced
<1>5. QED
  BY <1>1, <1>2, <1>3, <1>4

LEMMA LockNodeUnraced ==
    ASSUME IInv, Unraced, NEW t \in Txs, LockNode(t)
    PROVE  Unraced'
<1> DEFINE n == tx[t].node
           own == [tx[t] EXCEPT !.seen[n] = rows[n].at, !.target = Top(n)]
           new == [own EXCEPT !.step = IF own.parent = NoNode THEN "select" ELSE "parent"]
<1>1. tx[t].step = "lock" /\ tx[t].op = "move" /\ n \in Nodes /\ rows[n].status = "live"
  BY TxFacts DEF LockNode, Live, StepFits
<1>2. /\ own \in Transactions /\ own.op = "move" /\ own.node = n /\ own.target = Top(n)
      /\ own.parent = tx[t].parent
      /\ \A m \in Nodes : own.seen[m] = IF m = n THEN rows[n].at ELSE tx[t].seen[m]
  BY <1>1, TopMeasured, TxFacts DEF Transactions
<1>3. Set(t, new) /\ UNCHANGED <<rows, raced>>
  BY DEF LockNode
<1> HIDE DEF own
<1>4. /\ new.op = "move" /\ new.node = n /\ new.target = Top(n)
      /\ new.parent = tx[t].parent /\ new.seen = own.seen
      /\ new.step = (IF tx[t].parent = NoNode THEN "select" ELSE "parent")
  BY <1>2 DEF Transactions
<1> HIDE DEF new
<1>5. ASSUME ~raced PROVE Current(new, rows)
  <2>1. Current(tx[t], rows) /\ rows[n].at # NoPosition
    BY <1>1, <1>5, UnracedFacts DEF Live
  <2>2. \A m \in Nodes : new.seen[m] # NoPosition =>
                           rows[m].status = "live" /\ rows[m].at = new.seen[m]
    BY <1>1, <1>2, <1>4, <2>1 DEF Current
  <2>3. new.seen[new.node] # NoPosition
    BY <1>1, <1>2, <1>4, <2>1
  <2>4. new.step = "select" => Aims(new)
    BY <1>4 DEF Aims
  <2>5. QED
    BY <1>4, <2>2, <2>3, <2>4 DEF Current
<1>6. QED
  BY <1>3, <1>5, QuietUnraced

LEMMA ReadParentUnraced ==
    ASSUME IInv, Unraced, NEW t \in Txs, ReadParent(t)
    PROVE  Unraced'
<1> DEFINE p == tx[t].parent
           n == tx[t].node
           new == [tx[t] EXCEPT !.seen[p] = rows[p].at, !.target = Below(n, rows[p].at),
                     !.step = IF tx[t].op = "create" THEN "insert" ELSE "select"]
<1>1. tx[t].step = "parent" /\ tx[t].op \in {"create", "move"} /\ n \in Nodes /\ p \in Nodes
  BY TxFacts DEF ReadParent, StepFits
<1>2. /\ rows[p].status = "live"
      /\ tx[t].op = "move" => p # n /\ ~IsPrefix(tx[t].seen[n].path, rows[p].at.path)
  BY DEF ReadParent, MayFollow, MayMoveTo, Live
<1>3. /\ new.op = tx[t].op /\ new.node = n /\ new.parent = p
      /\ new.target = Below(n, rows[p].at)
      /\ new.step = (IF tx[t].op = "create" THEN "insert" ELSE "select")
      /\ \A m \in Nodes : new.seen[m] = IF m = p THEN rows[p].at ELSE tx[t].seen[m]
  BY <1>1, TxFacts DEF Transactions
<1>4. Set(t, new) /\ UNCHANGED <<rows, raced>>
  BY DEF ReadParent
<1> HIDE DEF new
<1>5. ASSUME ~raced PROVE Current(new, rows)
  <2>1. Current(tx[t], rows) /\ rows[p].at # NoPosition
    BY <1>1, <1>2, <1>5, UnracedFacts DEF Live
  <2>2. \A m \in Nodes : new.seen[m] # NoPosition =>
                           rows[m].status = "live" /\ rows[m].at = new.seen[m]
    BY <1>1, <1>2, <1>3, <2>1 DEF Current
  <2>3. new.op = "move" => new.seen[n] = tx[t].seen[n] /\ new.seen[n] # NoPosition
    BY <1>1, <1>2, <1>3, <2>1 DEF Current
  <2>4. new.seen[p] = rows[p].at
    BY <1>1, <1>3
  <2>5. Aims(new)
    BY <1>1, <1>2, <1>3, <2>1, <2>3, <2>4 DEF Aims
  <2>6. QED
    BY <1>1, <1>3, <2>2, <2>3, <2>5 DEF Current
<1>6. QED
  BY <1>4, <1>5, QuietUnraced

\* A sequence of the elements of a set of nodes has all of them.
LEMMA OrderIsComplete ==
    ASSUME NEW S \in SUBSET Nodes, NEW order \in SetToSeqs(S)
    PROVE  ToSet(order) = S
<1> DEFINE D == 1..Cardinality(S)
<1>1. IsFiniteSet(S) /\ Cardinality(S) \in Nat
  BY TreeAssumption, FS_Subset, FS_CardinalityType
<1>2. order \in [D -> S] /\ \A i, j \in D : i # j => order[i] # order[j]
  BY DEF SetToSeqs
<1>3. Cardinality(D) = Cardinality(S)
  <2>1. Cardinality(D) = IF 1 > Cardinality(S) THEN 0 ELSE Cardinality(S) - 1 + 1
    BY <1>1, FS_Interval
  <2>2. QED
    BY <1>1, <2>1
<1> HIDE DEF D
<1>4. order \in Injection(D, S)
  BY <1>2 DEF Injection, IsInjective
<1>5. order \in Surjection(D, S)
  BY <1>1, <1>3, <1>4, FS_Injection
<1>6. QED
  BY <1>2, <1>5 DEF Surjection, ToSet

LEMMA SelectUnraced ==
    ASSUME IInv, Unraced, NEW t \in Txs, Select(t)
    PROVE  Unraced'
<1> DEFINE n == tx[t].node
           below == Descendants(tx[t].seen[n].path)
           found == IF tx[t].op = "move" THEN below \ {n}
                    ELSE below \cup {m \in {n} : Live(m)}
           read == [d \in Nodes |-> IF d \in found \ {n} THEN rows[d].at ELSE tx[t].seen[d]]
<1>1. tx[t].step = "select" /\ tx[t].op \in {"move", "deleteSubtree"} /\ n \in Nodes
      /\ tx[t].written = {} /\ tx[t] \in Transactions
  BY TxFacts DEF Select, StepFits
<1>2. found \in SUBSET Nodes /\ \A d \in found : rows[d].status = "live"
  BY <1>1 DEF Descendants, Live
<1>3. PICK order \in SetToSeqs(found) :
        Set(t, Selected(tx[t], order, read)) /\ UNCHANGED <<rows, raced>>
  BY DEF Select, Selected
<1> DEFINE new == Selected(tx[t], order, read)
<1>4. order \in Seq(Nodes) /\ ToSet(order) = found
  <2> HIDE DEF found
  <2>1. QED
    BY <1>2, <1>3, OrderOf, OrderIsComplete
<1>5. ASSUME ~raced PROVE found = Affected(tx[t], rows)
  <2>1. Current(tx[t], rows)
    BY <1>5, UnracedFacts
  <2>2. tx[t].seen[n] # NoPosition /\ rows[n].at = tx[t].seen[n]
    BY <1>1, <2>1 DEF Current
  <2>3. ~Under(rows[n].at.path, tx[t].seen[n].path)
    BY <2>2 DEF Under, IsStrictPrefix
  <2>4. QED
    BY <1>1, <2>3 DEF Affected, Descendants, Live
<1> HIDE DEF found
<1>6. read \in [Nodes -> Positions]
      /\ \A d \in Nodes : read[d] = IF d \in found \ {n} THEN rows[d].at ELSE tx[t].seen[d]
  BY TxFacts DEF Transactions
<1> HIDE DEF read
<1>7. /\ new.op = tx[t].op /\ new.node = tx[t].node /\ new.step = "write"
      /\ new.target = tx[t].target /\ new.parent = tx[t].parent /\ new.written = {}
      /\ new.seen = read /\ new.todo = order
  BY <1>1, <1>4, <1>6, SelectedFields DEF Selected, Transactions
<1>8. Set(t, new) /\ UNCHANGED <<rows, raced>>
  BY <1>3
<1> HIDE DEF new
<1>9. ASSUME ~raced PROVE Current(new, rows)
  <2>1. Current(tx[t], rows) /\ \A m \in Nodes : Live(m) => rows[m].at # NoPosition
    BY <1>9, UnracedFacts
  <2>2. \A m \in Nodes : read[m] # NoPosition =>
                           rows[m].status = "live" /\ rows[m].at = read[m]
    BY <1>2, <1>6, <2>1 DEF Current
  <2>3. \A m \in Nodes : tx[t].seen[m] # NoPosition => read[m] = tx[t].seen[m]
    BY <1>6, <2>1 DEF Current
  <2>4. tx[t].seen[n] # NoPosition /\ read[n] = tx[t].seen[n]
    BY <1>1, <2>1, <2>3 DEF Current
  <2>5. new.op = "move" => Aims(new)
    <3>1. new.op = "move" => Aims(tx[t])
      BY <1>1, <1>7, <2>1 DEF Current
    <3>2. QED
      BY <1>1, <1>7, <2>3, <2>4, <3>1 DEF Aims
  <2>6. Affected(new, rows) = found
    BY <1>5, <1>7, <1>9, <2>4 DEF Affected
  <2>7. \A d \in found : read[d] # NoPosition
    BY <1>2, <1>6, <2>1, <2>4 DEF Live
  <2>8. ToSet(new.todo) \cup new.written = found
    BY <1>4, <1>7
  <2>9. QED
    BY <1>1, <1>7, <2>2, <2>4, <2>5, <2>6, <2>7, <2>8 DEF Current
<1>10. QED
  BY <1>8, <1>9, QuietUnraced

\* A sequence is its head and its tail.
LEMMA HeadAndTail ==
    ASSUME NEW s \in Seq(Nodes), s # <<>>
    PROVE  ToSet(s) = {Head(s)} \cup ToSet(Tail(s))
<1>1. Len(s) \in Nat /\ Len(s) # 0 /\ DOMAIN s = 1..Len(s) /\ Head(s) = s[1]
  OBVIOUS
<1>2. Tail(s) \in Seq(Nodes) /\ Len(Tail(s)) = Len(s) - 1
      /\ \A i \in 1..Len(Tail(s)) : Tail(s)[i] = s[i + 1]
  BY HeadTailProperties
<1>3. DOMAIN Tail(s) = 1..Len(Tail(s))
  BY <1>2
<1>4. ASSUME NEW x \in ToSet(s), x # Head(s) PROVE x \in ToSet(Tail(s))
  <2>1. PICK i \in 1..Len(s) : x = s[i]
    BY <1>1 DEF ToSet
  <2>2. i - 1 \in 1..Len(Tail(s)) /\ (i - 1) + 1 = i
    BY <1>1, <1>2, <1>4, <2>1
  <2>3. x = Tail(s)[i - 1]
    BY <1>2, <2>1, <2>2
  <2>4. QED
    BY <1>3, <2>2, <2>3 DEF ToSet
<1>5. QED
  BY <1>4, TailOf

LEMMA WriteRowUnraced ==
    ASSUME IInv, Unraced, NEW t \in Txs, WriteRow(t)
    PROVE  Unraced'
<1> DEFINE d == Head(tx[t].todo)
           new == [tx[t] EXCEPT !.todo = Tail(@), !.written = @ \cup {d}]
<1>1. tx[t].todo \in Seq(Nodes) /\ tx[t].todo # <<>>
  BY TxFacts DEF WriteRow, Transactions
<1>2. /\ new.op = tx[t].op /\ new.node = tx[t].node /\ new.step = tx[t].step
      /\ new.parent = tx[t].parent /\ new.target = tx[t].target /\ new.seen = tx[t].seen
      /\ new.todo = Tail(tx[t].todo) /\ new.written = tx[t].written \cup {d}
  BY TxFacts DEF Transactions
<1>3. Set(t, new) /\ UNCHANGED <<rows, raced>>
  BY DEF WriteRow
<1>4. ToSet(tx[t].todo) = {d} \cup ToSet(Tail(tx[t].todo))
  BY <1>1, HeadAndTail
<1> HIDE DEF new, d
<1>5. ToSet(new.todo) \cup new.written = ToSet(tx[t].todo) \cup tx[t].written
  BY <1>2, <1>4
<1>6. Affected(new, rows) = Affected(tx[t], rows) /\ (Aims(tx[t]) => Aims(new))
  BY <1>2 DEF Affected, Aims
<1>7. ASSUME ~raced PROVE Current(new, rows)
  BY <1>2, <1>5, <1>6, <1>7, UnracedFacts DEF Current
<1>8. QED
  BY <1>3, <1>7, QuietUnraced

\* The deletion of a subtree skips no row that was there when it started.
LEMMA SkipUnraced ==
    ASSUME IInv, Unraced, NEW t \in Txs, tx[t].step = "write", tx[t].todo # <<>>,
           tx[t].op = "deleteSubtree", ~StillThere(t, Head(tx[t].todo)), Skip(t)
    PROVE  Unraced'
<1>1. UNCHANGED <<rows, raced>>
  BY DEF Skip
<1>2. raced
  <2>1. SUFFICES ASSUME ~raced PROVE FALSE
    OBVIOUS
  <2>2. Head(tx[t].todo) \in ToSet(tx[t].todo) /\ Head(tx[t].todo) \in Nodes
    BY TxFacts, TailOf DEF Transactions
  <2>3. Head(tx[t].todo) \in Affected(tx[t], rows)
    BY <2>1, <2>2, UnracedFacts DEF Current
  <2>4. QED
    BY <2>3 DEF Affected, StillThere, Live
<1>3. QED
  BY <1>1, <1>2 DEF Unraced
-----------------------------------------------------------------------------
(* The commits in a history without races *)

\* The paths of the targets.
LEMMA TopPath ==
    ASSUME NEW n PROVE Top(n).path = <<n>>
BY DEF Top

LEMMA BelowPath ==
    ASSUME NEW n, NEW at PROVE Below(n, at).path = Append(at.path, n)
BY DEF Below

LEMMA ShiftedPath ==
    ASSUME NEW at, NEW from, NEW to
    PROVE  Shifted(at, from, to).path =
             to.path \o SubSeq(at.path, Len(from.path) + 1, Len(at.path))
BY DEF Shifted

\* A node without a parent is at the top.
LEMMA TopTraced ==
    ASSUME NEW table, NEW n, table[n].at.path = <<n>>, table[n].parent = NoNode,
           table[n].status = "live"
    PROVE  Traced(table, n)
BY DEF Traced

LEMMA InsertUnraced ==
    ASSUME IInv, Unraced, NEW t \in Txs, Insert(t)
    PROVE  Unraced'
<1> DEFINE new == Created(t)
           n == tx[t].node
           p == tx[t].parent
<1>1. tx[t].op = "create" /\ tx[t].step = "insert" /\ n \in Nodes /\ Commit(t, new)
      /\ rows[n].status = "none"
  BY TxFacts DEF Insert, StepFits, Fine
<1>2. tx[t].target \in Positions /\ p \in Nodes \cup {NoNode}
  BY TxFacts DEF Transactions
<1>3. [status |-> "live", parent |-> p, at |-> tx[t].target] \in Rows
  BY <1>2 DEF Rows
<1>4. /\ new \in [Nodes -> Rows]
      /\ \A m \in Nodes : new[m] = IF m = n
           THEN [status |-> "live", parent |-> p, at |-> tx[t].target] ELSE rows[m]
  BY <1>1, <1>3 DEF Created, IInv, TypeOK
<1> HIDE DEF new
<1>5. ASSUME ~raced, NEW m \in Nodes, new[m].status = "live" PROVE Traced(new, m)
  <2>1. /\ rows \in [Nodes -> Rows] /\ Current(tx[t], rows)
        /\ \A q \in Nodes : Live(q) => Traced(rows, q)
    BY <1>5, UnracedFacts
  <2>2. ASSUME NEW q \in Nodes, Live(q)
        PROVE  LET s == rows[q].at.path
               IN  \A i \in 1..Len(s) : s[i] \in Nodes /\ s[i] # n /\ new[s[i]] = rows[s[i]]
                                        /\ rows[s[i]].status # "none"
    BY <1>1, <1>4, <2>1, <2>2, PathFacts
  <2>3. CASE m # n
    <3>1. Live(m) /\ Traced(rows, m) /\ new[m] = rows[m]
      BY <1>4, <1>5, <2>1, <2>3 DEF Live
    <3>2. QED
      BY <1>4, <2>1, <2>2, <3>1, StillTraced
  <2>4. CASE m = n /\ p = NoNode /\ tx[t].target = Top(n)
    <3>1. new[m].at.path = <<n>> /\ new[m].parent = NoNode /\ new[m].status = "live"
      BY <1>4, <2>4 DEF Top
    <3>2. QED
      BY <2>4, <3>1, TopTraced
  <2>5. CASE /\ m = n /\ p \in Nodes /\ tx[t].seen[p] # NoPosition
             /\ tx[t].target = Below(n, tx[t].seen[p])
    <3> DEFINE s == rows[p].at.path
               v == new[m].at.path
    <3>1. Live(p) /\ rows[p].at = tx[t].seen[p] /\ Traced(rows, p)
      BY <2>1, <2>5 DEF Current, Live
    <3>2. s \in Seq(Nodes) /\ Len(s) \in Nat /\ 1 <= Len(s) /\ s[Len(s)] = p
          /\ \A i \in 1..Len(s) : rows[s[i]].parent = IF i = 1 THEN NoNode ELSE s[i - 1]
      BY <2>1, <2>5, <3>1, PathFacts DEF Traced
    <3>3. \A i \in 1..Len(s) : new[s[i]] = rows[s[i]] /\ rows[s[i]].status # "none"
      BY <2>2, <2>5, <3>1
    <3>4. v = Append(s, n) /\ new[n].parent = p /\ new[n].status = "live"
      <4>1. new[n] = [status |-> "live", parent |-> p, at |-> tx[t].target]
        BY <1>1, <1>4
      <4>2. tx[t].target.path = Append(rows[p].at.path, n)
        BY <2>5, <3>1, BelowPath
      <4>3. new[n].at = tx[t].target /\ new[n].parent = p /\ new[n].status = "live"
        BY <4>1
      <4>4. QED
        BY <2>5, <4>2, <4>3
    <3> HIDE DEF s, v
    <3>5. v \in Seq(Nodes) /\ v # <<>> /\ Len(v) = Len(s) + 1 /\ v[Len(s) + 1] = n
          /\ \A i \in 1..Len(s) : v[i] = s[i]
      BY <1>1, <3>2, <3>4, AppendProperties
    <3>6. ASSUME NEW i \in 1..Len(v)
          PROVE  new[v[i]].status # "none"
                 /\ new[v[i]].parent = IF i = 1 THEN NoNode ELSE v[i - 1]
      <4>1. CASE i \in 1..Len(s)
        <5>1. i = 1 \/ i - 1 \in 1..Len(s)
          BY <3>2, <4>1
        <5>2. QED
          BY <3>2, <3>3, <3>5, <4>1, <5>1
      <4>2. CASE i = Len(s) + 1
        <5>1. i # 1 /\ i - 1 = Len(s) /\ Len(s) \in 1..Len(s)
          BY <3>2, <4>2
        <5>2. QED
          BY <3>2, <3>4, <3>5, <4>2, <5>1
      <4>3. QED
        BY <3>2, <3>5, <4>1, <4>2
    <3>7. QED
      BY <2>5, <3>2, <3>5, <3>6 DEF Traced, v
  <2>6. QED
    <3>1. Aims(tx[t])
      BY <1>1, <2>1 DEF Current
    <3>2. QED
      BY <1>1, <2>3, <2>4, <2>5, <3>1 DEF Aims
<1>6. QED
  BY <1>1, <1>4, <1>5, CommitUnraced

\* What Deleted writes.
LEMMA DeletedRows ==
    ASSUME IInv, NEW t \in Txs
    PROVE  /\ Deleted(t) \in [Nodes -> Rows]
           /\ \A n \in Nodes :
                /\ Deleted(t)[n].at = rows[n].at /\ Deleted(t)[n].parent = rows[n].parent
                /\ Deleted(t)[n].status =
                     IF n \in tx[t].written THEN "deleted" ELSE rows[n].status
<1>1. ASSUME NEW n \in Nodes
      PROVE  /\ Deleted(t)[n] \in Rows
             /\ Deleted(t)[n].at = rows[n].at /\ Deleted(t)[n].parent = rows[n].parent
             /\ Deleted(t)[n].status = IF n \in tx[t].written THEN "deleted" ELSE rows[n].status
  BY TxFacts DEF Deleted, Rows
<1>2. Deleted(t) = [n \in Nodes |-> Deleted(t)[n]]
  BY DEF Deleted
<1>3. QED
  BY <1>1, <1>2

\* A deletion keeps every path: no row but its status changes.
LEMMA DeletedTraced ==
    ASSUME IInv, Unraced, ~raced, NEW t \in Txs, NEW n \in Nodes, Live(n)
    PROVE  Traced(Deleted(t), n)
<1> DEFINE new == Deleted(t)
           s == rows[n].at.path
<1>1. Traced(rows, n) /\ rows \in [Nodes -> Rows]
  BY UnracedFacts
<1>2. new \in [Nodes -> Rows]
      /\ \A m \in Nodes :
           /\ new[m].at = rows[m].at /\ new[m].parent = rows[m].parent
           /\ rows[m].status # "none" => new[m].status # "none"
  BY DeletedRows
<1> HIDE DEF new
<1>3. \A i \in 1..Len(s) : s[i] \in Nodes /\ rows[s[i]].status # "none"
  BY <1>1, PathFacts
<1>4. QED
  BY <1>1, <1>2, <1>3, StillTraced DEF new

LEMMA FinishDeleteUnraced ==
    ASSUME IInv, Unraced, NEW t \in Txs, FinishDelete(t)
    PROVE  Unraced'
<1>1. Commit(t, Deleted(t)) /\ Deleted(t) \in [Nodes -> Rows]
  BY DeletedRows DEF FinishDelete
<1>2. \A n \in Nodes : Deleted(t)[n].status = "live" => Live(n)
  BY DeletedRows DEF Live
<1>3. QED
  BY <1>1, <1>2, DeletedTraced, CommitUnraced

\* What Moved writes.
LEMMA MovedRows ==
    ASSUME IInv, NEW t \in Txs, FinishMove(t)
    PROVE  LET n   == tx[t].node
               new == Moved(t)
           IN  /\ new \in [Nodes -> Rows] /\ Commit(t, new)
               /\ \A m \in Nodes :
                    /\ new[m].status = rows[m].status
                    /\ m = n => new[m].parent = tx[t].parent /\ new[m].at = tx[t].target
                    /\ m # n => new[m].parent = rows[m].parent
                    /\ m # n /\ m \notin tx[t].written => new[m].at = rows[m].at
                    /\ m # n /\ m \in tx[t].written =>
                         new[m].at = Shifted(tx[t].seen[m], tx[t].seen[n], tx[t].target)
<1> DEFINE new == Moved(t)
           n == tx[t].node
           old == tx[t].seen[n]
<1>1. tx[t].op = "move" /\ tx[t].step = "write" /\ n \in Nodes /\ Commit(t, new)
  BY TxFacts DEF FinishMove, StepFits
<1>2. /\ tx[t].target \in Positions /\ Measured(tx[t].target)
      /\ old \in Positions /\ Measured(old) /\ tx[t].parent \in Nodes \cup {NoNode}
  BY <1>1, TxFacts DEF Transactions, Fine
<1>3. ASSUME NEW d \in tx[t].written
      PROVE  Shifted(tx[t].seen[d], old, tx[t].target) \in Positions
  <2>1. d \in Nodes /\ tx[t].seen[d] \in Positions /\ Measured(tx[t].seen[d])
    BY TxFacts DEF Transactions, Fine
  <2>2. Len(old.path) <= Len(tx[t].seen[d].path)
    BY <1>1, TxFacts DEF Fine
  <2>3. QED
    BY <1>2, <2>1, <2>2, ShiftMeasured
<1>4. ASSUME NEW m \in Nodes
      PROVE  /\ new[m] \in Rows /\ new[m].status = rows[m].status
             /\ m = n => new[m].parent = tx[t].parent /\ new[m].at = tx[t].target
             /\ m # n => new[m].parent = rows[m].parent
             /\ m # n /\ m \notin tx[t].written => new[m].at = rows[m].at
             /\ m # n /\ m \in tx[t].written =>
                  new[m].at = Shifted(tx[t].seen[m], old, tx[t].target)
  <2>1. CASE m = n
    <3>1. new[m] = [rows[m] EXCEPT !.parent = tx[t].parent, !.at = tx[t].target]
      BY <2>1 DEF Moved
    <3> HIDE DEF new
    <3>2. QED
      BY <1>2, <2>1, <3>1, TxFacts DEF Rows
  <2>2. CASE m # n /\ m \in tx[t].written
    <3>1. new[m] = [rows[m] EXCEPT !.at = Shifted(tx[t].seen[m], old, tx[t].target)]
      BY <2>2 DEF Moved
    <3> HIDE DEF new
    <3>2. QED
      BY <1>3, <2>2, <3>1, TxFacts DEF Rows
  <2>3. CASE m # n /\ m \notin tx[t].written
    <3>1. new[m] = rows[m]
      BY <2>3 DEF Moved
    <3> HIDE DEF new
    <3>2. QED
      BY <2>3, <3>1, TxFacts
  <2>4. QED
    BY <2>1, <2>2, <2>3
<1>5. new \in [Nodes -> Rows]
  <2>1. \A m \in Nodes : new[m] \in Rows
    BY <1>4
  <2>2. new = [m \in Nodes |-> new[m]]
    BY DEF Moved
  <2>3. QED
    BY <2>1, <2>2
<1>6. QED
  BY <1>1, <1>4, <1>5

\* What a move that is about to commit knows when there was no race.
LEMMA MoveIsCurrent ==
    ASSUME IInv, Unraced, ~raced, NEW t \in Txs, FinishMove(t)
    PROVE  LET n == tx[t].node
           IN  /\ n \in Nodes /\ Live(n) /\ rows[n].at = tx[t].seen[n]
               /\ \A m \in Nodes : Live(m) => Traced(rows, m)
               /\ Current(tx[t], rows) /\ Aims(tx[t])
               /\ \A m \in Nodes : m \in tx[t].written
                    <=> Live(m) /\ Under(rows[m].at.path, rows[n].at.path)
               /\ \A m \in tx[t].written : rows[m].at = tx[t].seen[m]
<1> DEFINE n == tx[t].node
<1>1. tx[t].op = "move" /\ tx[t].step = "write" /\ tx[t].todo = <<>> /\ n \in Nodes
  BY TxFacts DEF FinishMove, StepFits
<1>2. Current(tx[t], rows) /\ \A m \in Nodes : Live(m) => Traced(rows, m)
  BY UnracedFacts
<1>3. Aims(tx[t]) /\ Live(n) /\ rows[n].at = tx[t].seen[n]
  BY <1>1, <1>2 DEF Current, Live
<1>4. ToSet(<<>>) = {}
  BY DEF ToSet
<1>5. tx[t].written = Affected(tx[t], rows)
      /\ \A d \in Affected(tx[t], rows) : tx[t].seen[d] # NoPosition
  BY <1>1, <1>2, <1>4 DEF Current
<1>6. \A m \in Nodes : m \in tx[t].written
                         <=> Live(m) /\ Under(rows[m].at.path, rows[n].at.path)
  BY <1>1, <1>3, <1>5 DEF Affected, Live
<1>7. \A m \in tx[t].written : rows[m].at = tx[t].seen[m]
  BY <1>2, <1>5 DEF Current, Affected
<1>8. QED
  BY <1>1, <1>2, <1>3, <1>6, <1>7

\* The moved node arrives on a path that was traced: none of the nodes above
\* the new parent is the moved one.
LEMMA MovedArrives ==
    ASSUME IInv, Unraced, ~raced, NEW t \in Txs, FinishMove(t)
    PROVE  Traced(Moved(t), tx[t].node)
<1> DEFINE n == tx[t].node
           p == tx[t].parent
           new == Moved(t)
           v == new[n].at.path
<1>1. /\ n \in Nodes /\ Live(n) /\ rows[n].at = tx[t].seen[n]
      /\ \A m \in Nodes : Live(m) => Traced(rows, m)
      /\ Current(tx[t], rows) /\ Aims(tx[t])
  BY MoveIsCurrent
<1>2. /\ \A m \in Nodes : new[m].status = rows[m].status
      /\ \A m \in Nodes : m # n => new[m].parent = rows[m].parent
  BY MovedRows
<1>3. rows \in [Nodes -> Rows] /\ tx[t].op = "move"
  BY TxFacts DEF IInv, TypeOK, FinishMove
<1>4. v = tx[t].target.path /\ new[n].parent = p /\ new[n].status = "live"
  BY <1>1, MovedRows DEF Live
<1> HIDE DEF new
<1>5. CASE p = NoNode /\ tx[t].target = Top(n)
  <2>1. v = <<n>>
    BY <1>4, <1>5, TopPath
  <2>2. Traced(new, n)
    BY <1>4, <1>5, <2>1, TopTraced
  <2>3. QED
    BY <2>2 DEF new
<1>6. CASE /\ p \in Nodes /\ tx[t].seen[p] # NoPosition
           /\ tx[t].target = Below(n, tx[t].seen[p])
           /\ ~IsPrefix(tx[t].seen[n].path, tx[t].seen[p].path)
  <2> DEFINE s == rows[p].at.path
             u == rows[n].at.path
  <2>1. Live(p) /\ rows[p].at = tx[t].seen[p] /\ Traced(rows, p) /\ ~IsPrefix(u, s)
    BY <1>1, <1>6 DEF Current, Live
  <2>2. /\ s \in Seq(Nodes) /\ Len(s) \in Nat /\ 1 <= Len(s) /\ s[Len(s)] = p
        /\ \A i \in 1..Len(s) : s[i] \in Nodes /\ rows[s[i]].status # "none"
        /\ \A i \in 1..Len(s) : rows[s[i]].parent = IF i = 1 THEN NoNode ELSE s[i - 1]
    BY <1>3, <1>6, <2>1, PathFacts DEF Traced
  <2>3. u \in Seq(Nodes) /\ Len(u) \in Nat /\ 1 <= Len(u) /\ u[Len(u)] = n
    BY <1>1, <1>3, PathFacts
  <2>4. ASSUME NEW i \in 1..Len(s) PROVE s[i] # n
    <3>1. SUFFICES ASSUME s[i] = n PROVE FALSE
      OBVIOUS
    <3>2. Len(u) \in 1..Len(u) /\ u[Len(u)] = s[i]
      BY <2>3, <3>1
    <3>3. Len(u) = i /\ \A j \in 1..Len(u) : u[j] = s[j]
      BY <1>1, <1>3, <1>6, <2>1, <3>2, SameWayUp
    <3> HIDE DEF u, s
    <3>4. IsPrefix(u, s)
      BY <2>2, <2>3, <3>3, PrefixAgrees
    <3>5. QED
      BY <2>1, <3>4
  <2>5. v = Append(s, n)
    BY <1>4, <1>6, <2>1, BelowPath
  <2> HIDE DEF s, u, v
  <2>6. v \in Seq(Nodes) /\ v # <<>> /\ Len(v) = Len(s) + 1 /\ v[Len(s) + 1] = n
        /\ \A i \in 1..Len(s) : v[i] = s[i]
    BY <1>1, <2>2, <2>5, AppendProperties
  <2>7. \A i \in 1..Len(s) : new[s[i]].parent = rows[s[i]].parent /\ new[s[i]].status # "none"
    BY <1>2, <2>2, <2>4
  <2>8. ASSUME NEW i \in 1..Len(v)
        PROVE  new[v[i]].status # "none"
               /\ new[v[i]].parent = IF i = 1 THEN NoNode ELSE v[i - 1]
    <3>1. CASE i \in 1..Len(s)
      <4>1. i = 1 \/ i - 1 \in 1..Len(s)
        BY <2>2, <3>1
      <4>2. QED
        BY <2>2, <2>6, <2>7, <3>1, <4>1
    <3>2. CASE i = Len(s) + 1
      <4>1. i # 1 /\ i - 1 = Len(s) /\ Len(s) \in 1..Len(s)
        BY <2>2, <3>2
      <4>2. QED
        BY <1>4, <2>2, <2>6, <3>2, <4>1
    <3>3. QED
      BY <2>2, <2>6, <3>1, <3>2
  <2>9. QED
    BY <2>2, <2>6, <2>8 DEF Traced, v, new
<1>7. QED
  BY <1>1, <1>3, <1>5, <1>6 DEF Aims

\* A descendant arrives below it: the part of its path below the moved node
\* is what it was.
LEMMA DescendantArrives ==
    ASSUME IInv, Unraced, ~raced, NEW t \in Txs, FinishMove(t),
           NEW m \in tx[t].written, m # tx[t].node
    PROVE  Traced(Moved(t), m)
<1> DEFINE n == tx[t].node
           new == Moved(t)
           to == new[n].at.path
           u == rows[n].at.path
           s == rows[m].at.path
           tail == SubSeq(s, Len(u) + 1, Len(s))
           v == new[m].at.path
<1>1. /\ n \in Nodes /\ Live(n) /\ rows[n].at = tx[t].seen[n]
      /\ m \in Nodes /\ Live(m) /\ Under(s, u) /\ rows[m].at = tx[t].seen[m]
      /\ Traced(rows, n) /\ Traced(rows, m)
  BY MoveIsCurrent, TxFacts DEF Transactions
<1>2. /\ new \in [Nodes -> Rows]
      /\ \A q \in Nodes : new[q].status = rows[q].status
      /\ \A q \in Nodes : q # n => new[q].parent = rows[q].parent
  BY MovedRows
<1>3. rows \in [Nodes -> Rows]
  BY DEF IInv, TypeOK
<1>4. v = to \o tail
  <2>1. new[n].at = tx[t].target /\ new[m].at = Shifted(tx[t].seen[m], tx[t].seen[n], tx[t].target)
    BY <1>1, MovedRows
  <2> HIDE DEF new
  <2>2. QED
    <3>1. Shifted(tx[t].seen[m], tx[t].seen[n], tx[t].target).path = tx[t].target.path \o tail
      BY <1>1, ShiftedPath
    <3>2. QED
      BY <2>1, <3>1
<1>5. Traced(new, n)
  BY MovedArrives
<1> HIDE DEF new
<1>6. /\ to \in Seq(Nodes) /\ Len(to) \in Nat /\ 1 <= Len(to) /\ to[Len(to)] = n
      /\ \A i \in 1..Len(to) : new[to[i]].status # "none"
      /\ \A i \in 1..Len(to) : new[to[i]].parent = IF i = 1 THEN NoNode ELSE to[i - 1]
  BY <1>1, <1>2, <1>5, PathFacts DEF Traced
<1>7. u \in Seq(Nodes) /\ Len(u) \in Nat /\ 1 <= Len(u) /\ u[Len(u)] = n
  BY <1>1, <1>3, PathFacts
<1>8. /\ s \in Seq(Nodes) /\ Len(s) \in Nat /\ s[Len(s)] = m
      /\ \A i \in 1..Len(s) : s[i] \in Nodes /\ rows[s[i]].status # "none"
      /\ \A i \in 2..Len(s) : rows[s[i]].parent = s[i - 1]
      /\ \A i, j \in 1..Len(s) : s[i] = s[j] => i = j
  <2>1. \A i, j \in 1..Len(s) : s[i] = s[j] => i = j
    BY <1>1, <1>3, PathIsShort
  <2>2. s \in Seq(Nodes) /\ Len(s) \in Nat /\ s[Len(s)] = m
    BY <1>1, <1>3, PathFacts
  <2>3. \A i \in 1..Len(s) : s[i] \in Nodes /\ rows[s[i]].status # "none"
    BY <1>1, <1>3, PathFacts
  <2>4. \A i \in 2..Len(s) : rows[s[i]].parent = s[i - 1]
    BY <1>1, <1>3, PathFacts
  <2>5. QED
    BY <2>1, <2>2, <2>3, <2>4
<1>9. Len(u) < Len(s) /\ s[Len(u)] = n
  <2>1. Len(u) < Len(s) /\ \A i \in 1..Len(u) : u[i] = s[i]
    BY <1>1, <1>7, <1>8, UnderAgrees
  <2>2. Len(u) \in 1..Len(u)
    BY <1>7
  <2>3. QED
    BY <1>7, <2>1, <2>2
<1> HIDE DEF s, u, to
<1>10. /\ tail \in Seq(Nodes) /\ Len(tail) = Len(s) - Len(u)
       /\ \A i \in 1..Len(tail) : tail[i] = s[Len(u) + i]
  <2>1. \A i \in Len(u) + 1 .. Len(s) : s[i] \in Nodes
    BY <1>7, <1>8
  <2>2. /\ tail \in Seq(Nodes)
        /\ Len(tail) = IF Len(u) + 1 <= Len(s) THEN Len(s) - (Len(u) + 1) + 1 ELSE 0
        /\ \A i \in 1..Len(s) - (Len(u) + 1) + 1 : tail[i] = s[Len(u) + 1 + i - 1]
    BY <1>7, <1>8, <2>1, SubSeqProperties
  <2> HIDE DEF tail
  <2>3. Len(tail) = Len(s) - Len(u)
    BY <1>7, <1>8, <1>9, <2>2
  <2>4. ASSUME NEW i \in 1..Len(tail) PROVE tail[i] = s[Len(u) + i]
    <3>1. i \in 1..Len(s) - (Len(u) + 1) + 1 /\ Len(u) + 1 + i - 1 = Len(u) + i
      BY <1>7, <1>8, <2>3
    <3>2. QED
      BY <2>2, <3>1
  <2>5. QED
    BY <2>2, <2>3, <2>4
<1> HIDE DEF tail, v
<1>11. /\ v \in Seq(Nodes) /\ Len(v) = Len(to) + Len(tail)
       /\ \A i \in 1..Len(to) : v[i] = to[i]
       /\ \A i \in 1..Len(tail) : v[Len(to) + i] = tail[i]
  <2>1. /\ v \in Seq(Nodes) /\ Len(v) = Len(to) + Len(tail)
        /\ \A i \in 1 .. Len(to) + Len(tail) :
             v[i] = IF i <= Len(to) THEN to[i] ELSE tail[i - Len(to)]
    BY <1>4, <1>6, <1>10, ConcatProperties
  <2>2. Len(tail) \in Nat
    BY <1>10
  <2>3. \A i \in 1..Len(to) : v[i] = to[i]
    BY <1>6, <2>1, <2>2
  <2>4. ASSUME NEW i \in 1..Len(tail) PROVE v[Len(to) + i] = tail[i]
    <3>1. Len(to) + i \in 1..Len(to) + Len(tail) /\ ~(Len(to) + i <= Len(to))
          /\ Len(to) + i - Len(to) = i
      BY <1>6, <2>2
    <3>2. QED
      BY <2>1, <3>1
  <2>5. QED
    BY <2>1, <2>3, <2>4
<1>12. v # <<>> /\ v[Len(v)] = m
  <2>1. Len(tail) \in 1..Len(tail) /\ Len(u) + Len(tail) = Len(s)
    BY <1>7, <1>8, <1>9, <1>10
  <2>2. v[Len(v)] = m
    <3>1. v[Len(v)] = tail[Len(tail)]
      BY <1>11, <2>1
    <3>2. tail[Len(tail)] = s[Len(s)]
      BY <1>10, <2>1
    <3>3. QED
      BY <1>8, <3>1, <3>2
  <2>3. Len(v) # 0
    BY <1>6, <1>11, <2>1
  <2>4. QED
    BY <1>11, <2>2, <2>3
<1>13. ASSUME NEW i \in 1..Len(tail)
       PROVE  new[tail[i]].status # "none"
              /\ new[tail[i]].parent = IF i = 1 THEN n ELSE tail[i - 1]
  <2>1. Len(u) + i \in 2..Len(s) /\ Len(u) \in 1..Len(s) /\ Len(u) + i # Len(u)
        /\ (Len(u) + i) - 1 = IF i = 1 THEN Len(u) ELSE Len(u) + (i - 1)
    BY <1>7, <1>8, <1>9, <1>10
  <2>2. s[Len(u) + i] # n
    BY <1>8, <1>9, <2>1
  <2>3. tail[i] = s[Len(u) + i] /\ tail[i] \in Nodes
    BY <1>8, <1>10, <2>1
  <2>4. new[tail[i]].parent = s[(Len(u) + i) - 1] /\ new[tail[i]].status # "none"
    <3>1. rows[s[Len(u) + i]].parent = s[(Len(u) + i) - 1]
      BY <1>8, <2>1
    <3>2. Len(u) + i \in 1..Len(s)
      BY <2>1
    <3>3. rows[s[Len(u) + i]].status # "none"
      BY <1>8, <3>2
    <3>4. QED
      BY <1>2, <2>2, <2>3, <3>1, <3>3
  <2>5. i # 1 => i - 1 \in 1..Len(tail)
    BY <1>7, <1>8, <1>10
  <2>6. QED
    BY <1>9, <1>10, <2>1, <2>4, <2>5
<1>14. ASSUME NEW i \in 1..Len(v)
       PROVE  new[v[i]].status # "none"
              /\ new[v[i]].parent = IF i = 1 THEN NoNode ELSE v[i - 1]
  <2>1. CASE i \in 1..Len(to)
    <3>1. i = 1 \/ i - 1 \in 1..Len(to)
      BY <1>6, <2>1
    <3>2. QED
      BY <1>6, <1>11, <2>1, <3>1
  <2>2. CASE i \notin 1..Len(to)
    <3> DEFINE k == i - Len(to)
    <3>1. Len(tail) \in Nat
      BY <1>10
    <3>2. k \in 1..Len(tail) /\ i = Len(to) + k /\ i # 1
          /\ i - 1 = (IF k = 1 THEN Len(to) ELSE Len(to) + (k - 1))
      BY <1>6, <1>11, <2>2, <3>1
    <3> HIDE DEF k
    <3>3. v[i] = tail[k]
      BY <1>11, <3>2
    <3>4. v[i - 1] = IF k = 1 THEN n ELSE tail[k - 1]
      <4>1. CASE k = 1
        <5>1. Len(to) \in 1..Len(to)
          BY <1>6
        <5>2. QED
          BY <1>6, <1>11, <3>2, <4>1, <5>1
      <4>2. CASE k # 1
        <5>1. k - 1 \in 1..Len(tail)
          BY <3>1, <3>2, <4>2
        <5>2. QED
          BY <1>11, <3>2, <4>2, <5>1
      <4>3. QED
        BY <4>1, <4>2
    <3>5. QED
      BY <1>13, <3>2, <3>3, <3>4
  <2>3. QED
    BY <2>1, <2>2
<1>15. QED
  BY <1>12, <1>14 DEF Traced, v, new

\* The other nodes stay: the moved one is not on their paths.
LEMMA OthersStayTraced ==
    ASSUME IInv, Unraced, ~raced, NEW t \in Txs, FinishMove(t),
           NEW m \in Nodes, Live(m), m # tx[t].node, m \notin tx[t].written
    PROVE  Traced(Moved(t), m)
<1> DEFINE n == tx[t].node
           new == Moved(t)
           s == rows[m].at.path
           u == rows[n].at.path
<1>1. n \in Nodes /\ Live(n) /\ Traced(rows, n) /\ Traced(rows, m) /\ ~Under(s, u)
  BY MoveIsCurrent
<1>2. /\ new \in [Nodes -> Rows] /\ new[m].at = rows[m].at
      /\ \A q \in Nodes : new[q].status = rows[q].status
      /\ \A q \in Nodes : q # n => new[q].parent = rows[q].parent
  BY MovedRows
<1>3. rows \in [Nodes -> Rows]
  BY DEF IInv, TypeOK
<1> HIDE DEF new
<1>4. /\ Len(s) \in Nat /\ s[Len(s)] = m
      /\ \A i \in 1..Len(s) : s[i] \in Nodes /\ rows[s[i]].status # "none"
  BY <1>1, <1>3, PathFacts
<1>5. ~\E i \in 1..Len(s) - 1 : s[i] = n
  BY <1>1, <1>3, UnderMeansThrough
<1>6. ASSUME NEW i \in 1..Len(s) PROVE s[i] # n
  <2>1. i = Len(s) \/ i \in 1..Len(s) - 1
    BY <1>4
  <2>2. QED
    BY <1>4, <1>5, <2>1
<1>7. \A i \in 1..Len(s) : new[s[i]].parent = rows[s[i]].parent /\ new[s[i]].status # "none"
  BY <1>2, <1>4, <1>6
<1>8. QED
  BY <1>1, <1>2, <1>3, <1>7, StillTraced DEF new

LEMMA FinishMoveUnraced ==
    ASSUME IInv, Unraced, NEW t \in Txs, FinishMove(t)
    PROVE  Unraced'
<1>1. Moved(t) \in [Nodes -> Rows] /\ Commit(t, Moved(t))
      /\ \A m \in Nodes : Moved(t)[m].status = rows[m].status
  BY MovedRows
<1>2. ASSUME ~raced, NEW m \in Nodes, Moved(t)[m].status = "live" PROVE Traced(Moved(t), m)
  <2>1. Live(m)
    BY <1>1, <1>2 DEF Live
  <2>2. QED
    BY <1>2, <2>1, MovedArrives, DescendantArrives, OthersStayTraced
<1>3. QED
  BY <1>1, <1>2, CommitUnraced
-----------------------------------------------------------------------------
(* The theorems *)

LEMMA InitHolds == Init => IInv
<1> SUFFICES ASSUME Init PROVE IInv
  OBVIOUS
<1>1. NoPosition \in Positions /\ Measured(NoPosition)
  BY DEF NoPosition, Positions, Measured
<1>2. NoRow \in Rows /\ NoRow.at = NoPosition
  BY <1>1 DEF NoRow, Rows
<1>3. TypeOK
  BY <1>2, NothingBegun DEF Init, TypeOK
<1>4. QED
  BY <1>1, <1>2, <1>3, NothingBegun DEF Init, IInv, Apart

LEMMA NextKeeps == IInv /\ [Next]_vars => IInv'
<1> SUFFICES ASSUME IInv, [Next]_vars PROVE IInv'
  OBVIOUS
<1>1. CASE UNCHANGED vars
  BY <1>1 DEF vars, IInv, TypeOK, Fine, StepFits, Apart, Held
<1>2. ASSUME NEW t \in Txs, Begin(t) \/ Statement(t) \/ Fail(t) PROVE IInv'
  <2>1. CASE Begin(t)
    BY <2>1, BeginKeeps
  <2>2. CASE Fail(t)
    BY <2>2, RollbackKeeps DEF Fail
  <2>3. CASE LockNode(t) \/ LockNotFound(t)
    BY <2>3, LockNodeKeeps, RollbackKeeps DEF LockNotFound
  <2>4. CASE ReadParent(t) \/ ParentRefused(t)
    BY <2>4, ReadParentKeeps, RollbackKeeps DEF ParentRefused
  <2>5. CASE Select(t)
    BY <2>5, SelectKeeps
  <2>6. CASE WriteRow(t)
    BY <2>6, WriteRowKeeps
  <2>7. CASE RowGone(t)
    BY <2>7, SkipKeeps, RollbackKeeps DEF RowGone
  <2>8. CASE Insert(t)
    BY <2>8, InsertKeeps
  <2>9. CASE FinishMove(t)
    BY <2>9, FinishMoveKeeps
  <2>10. CASE FinishDelete(t)
    BY <2>10, FinishDeleteKeeps
  <2>11. QED
    BY <1>2, <2>1, <2>2, <2>3, <2>4, <2>5, <2>6, <2>7, <2>8, <2>9, <2>10 DEF Statement
<1>3. QED
  BY <1>1, <1>2 DEF Next

\* The inductive invariant holds of every state.
THEOREM Invariance == Spec => []IInv
BY InitHolds, NextKeeps, PTL DEF Spec

\* Every variable keeps its type.
THEOREM TypeCorrect == Spec => []TypeOK
<1>1. IInv => TypeOK
  BY DEF IInv
<1>2. QED
  BY <1>1, Invariance, PTL

\* Whatever moves, creations and deletions run concurrently, the depth that
\* Move and Create store is the length of the path they store.
THEOREM DepthsAreLengths == Spec => []DepthIsLength
<1>1. IInv => DepthIsLength
  BY DEF IInv, Measured, DepthIsLength
<1>2. QED
  BY <1>1, Invariance, PTL

\* From SELECT ... FOR UPDATE to its commit, Move has its node for itself: the
\* row is live and where it was found, and no other transaction has written a
\* row that it has written.
THEOREM MovedNodeStays ==
    Spec => [](\A t \in Txs :
      /\ tx[t].op = "move" /\ tx[t].step \in {"parent", "select", "write"}
           => Live(tx[t].node) /\ rows[tx[t].node].at = tx[t].seen[tx[t].node]
      /\ \A u \in Txs \ {t} : Locked(t) \cap Locked(u) = {})
<1> DEFINE Owned(t) ==
             /\ tx[t].op = "move" /\ tx[t].step \in {"parent", "select", "write"}
                  => Live(tx[t].node) /\ rows[tx[t].node].at = tx[t].seen[tx[t].node]
             /\ \A u \in Txs \ {t} : Locked(t) \cap Locked(u) = {}
<1>1. ASSUME IInv, NEW t \in Txs PROVE Owned(t)
  <2>1. \A u \in Txs : Locked(u) = Held(tx[u])
    BY DEF Locked, LockedForUpdate, Held
  <2>2. \A u \in Txs \ {t} : Locked(t) \cap Locked(u) = {}
    BY <1>1, <2>1, TxFacts DEF Apart
  <2>3. tx[t].op = "move" /\ tx[t].step \in {"parent", "select", "write"}
          => Live(tx[t].node) /\ rows[tx[t].node].at = tx[t].seen[tx[t].node]
    BY <1>1, TxFacts DEF Fine, Held, Live
  <2>4. QED
    BY <2>2, <2>3
<1>2. IInv => \A t \in Txs : Owned(t)
  BY <1>1
<1>3. QED
  BY <1>2, Invariance, PTL
-----------------------------------------------------------------------------
(* The theorems about a history without races *)

LEMMA InitUnraced == Init => Unraced
<1> SUFFICES ASSUME Init PROVE Unraced
  OBVIOUS
<1>1. \A n \in Nodes : ~Live(n)
  BY DEF Init, Live, NoRow
<1>2. \A t \in Txs : tx[t] = NoTx
  BY DEF Init
<1>3. QED
  BY <1>1, <1>2, NothingRead DEF Unraced

LEMMA NextUnraced == IInv /\ Unraced /\ [Next]_vars => Unraced'
<1> SUFFICES ASSUME IInv, Unraced, [Next]_vars PROVE Unraced'
  OBVIOUS
<1>1. CASE UNCHANGED vars
  BY <1>1 DEF vars, Unraced, Live
<1>2. ASSUME NEW t \in Txs, Begin(t) \/ Statement(t) \/ Fail(t) PROVE Unraced'
  <2>1. CASE Begin(t)
    BY <2>1, BeginUnraced
  <2>2. CASE Fail(t)
    BY <2>2, RollbackUnraced DEF Fail
  <2>3. CASE LockNode(t) \/ LockNotFound(t)
    BY <2>3, LockNodeUnraced, RollbackUnraced DEF LockNotFound
  <2>4. CASE ReadParent(t) \/ ParentRefused(t)
    BY <2>4, ReadParentUnraced, RollbackUnraced DEF ParentRefused
  <2>5. CASE Select(t)
    BY <2>5, SelectUnraced
  <2>6. CASE WriteRow(t)
    BY <2>6, WriteRowUnraced
  <2>7. CASE RowGone(t)
    BY <2>7, SkipUnraced, RollbackUnraced DEF RowGone
  <2>8. CASE Insert(t)
    BY <2>8, InsertUnraced
  <2>9. CASE FinishMove(t)
    BY <2>9, FinishMoveUnraced
  <2>10. CASE FinishDelete(t)
    BY <2>10, FinishDeleteUnraced
  <2>11. QED
    BY <1>2, <2>1, <2>2, <2>3, <2>4, <2>5, <2>6, <2>7, <2>8, <2>9, <2>10 DEF Statement
<1>3. QED
  BY <1>1, <1>2 DEF Next

\* As long as no commit has changed what another transaction rested on, every
\* live row has the path that its parents spell out, what each transaction has
\* read is still so, and it has found all it has to write.
THEOREM PathsFollowParents == Spec => []Unraced
BY InitUnraced, NextUnraced, Invariance, PTL DEF Spec

\* Under that condition the scope of a node, which resolveScopeSQL finds by
\* path, is the node and its live descendants by parent_id.
THEOREM ScopesByPathAreByParent == Spec => []ScopesAreDescendants
<1>1. ASSUME IInv, Unraced PROVE ScopesAreDescendants
  <2>1. SUFFICES ASSUME ~raced, NEW r \in Nodes, Live(r)
                 PROVE  Scope(r) = {n \in Nodes : Live(n) /\ (n = r \/ r \in Ancestors(rows, n))}
    BY DEF ScopesAreDescendants
  <2>2. ASSUME NEW n \in Nodes, Live(n)
        PROVE  r \in Ancestors(rows, n) <=> Under(rows[n].at.path, rows[r].at.path)
    BY <1>1, <2>1, <2>2, UnracedFacts, BelowMeansUnder
  <2>3. QED
    BY <2>2 DEF Scope
<1>2. IInv /\ Unraced => ScopesAreDescendants
  BY <1>1
<1>3. QED
  BY <1>2, Invariance, PathsFollowParents, PTL

\* Under that condition no live node is below itself by parent_id: whatever
\* moves run at a time, those that would close a cycle race with each other.
THEOREM NoCycles ==
    Spec => [](~raced => \A n \in Nodes : Live(n) => n \notin Ancestors(rows, n))
<1> DEFINE Acyclic == ~raced => \A n \in Nodes : Live(n) => n \notin Ancestors(rows, n)
<1>1. ASSUME IInv, Unraced PROVE Acyclic
  BY <1>1, UnracedFacts, NotBelowItself
<1>2. IInv /\ Unraced => Acyclic
  BY <1>1
<1> HIDE DEF Acyclic
<1>3. Spec => []Acyclic
  BY <1>2, Invariance, PathsFollowParents, PTL
<1>4. QED
  BY <1>3 DEF Acyclic

\* Only the commit of transaction t deletes the row of its node and ends t.
LEMMA DeletedByItself ==
    ASSUME IInv, Next, NEW t \in Txs, tx[t].op = "deleteSubtree", tx'[t].step = "idle",
           rows[tx[t].node].status = "live", rows'[tx[t].node].status = "deleted"
    PROVE  FinishDelete(t) /\ rows' = Deleted(t)
<1>1. tx[t].step # "idle" /\ tx[t].node \in Nodes
  BY TxFacts DEF StepFits
<1>2. PICK u \in Txs : Begin(u) \/ Statement(u) \/ Fail(u)
  BY DEF Next
<1>3. rows' # rows
  OBVIOUS
<1>4. Insert(u) \/ FinishMove(u) \/ FinishDelete(u)
  BY <1>2, <1>3 DEF Begin, BeginCreate, BeginMove, BeginDelete, BeginDeleteSubtree, Statement,
     LockNode, LockNotFound, ReadParent, ParentRefused, Select, WriteRow, RowGone, Skip, Fail,
     Rollback
<1>5. u = t
  <2>1. \E new : Commit(u, new)
    BY <1>4 DEF Insert, FinishMove, FinishDelete
  <2>2. tx' = [tx EXCEPT ![u] = NoTx]
    BY <2>1 DEF Commit, End, Set
  <2>3. u # t => tx'[t] = tx[t]
    BY <2>2 DEF IInv, TypeOK
  <2>4. QED
    BY <1>1, <2>3
<1>6. ~Insert(u)
  BY <1>5, TxFacts DEF Insert, StepFits
<1>7. ~FinishMove(u)
  BY <1>5 DEF FinishMove
<1>8. QED
  BY <1>4, <1>5, <1>6, <1>7 DEF FinishDelete, Commit

\* Under that condition a root that SoftDeleteSubtree deletes leaves no live
\* descendant by parent_id.
THEOREM SubtreesGoWhole == Spec => SubtreeGone
<1> DEFINE Whole(t) ==
             LET r == tx[t].node
             IN  /\ tx[t].op = "deleteSubtree" /\ tx'[t].step = "idle" /\ ~raced
                 /\ rows[r].status = "live" /\ rows'[r].status = "deleted"
                 => \A n \in Nodes : rows'[n].status = "live" => r \notin Ancestors(rows', n)
<1>1. ASSUME IInv, Unraced, Next, NEW t \in Txs PROVE Whole(t)
  <2> DEFINE r == tx[t].node
             new == Deleted(t)
  <2>1. SUFFICES ASSUME tx[t].op = "deleteSubtree", tx'[t].step = "idle", ~raced,
                        rows[r].status = "live", rows'[r].status = "deleted",
                        NEW n \in Nodes, rows'[n].status = "live"
                 PROVE  r \notin Ancestors(rows', n)
    OBVIOUS
  <2>2. FinishDelete(t) /\ rows' = new /\ r \in Nodes /\ Current(tx[t], rows)
    BY <1>1, <2>1, DeletedByItself, UnracedFacts, TxFacts DEF FinishDelete, StepFits
  <2>3. new \in [Nodes -> Rows] /\ new[n].at = rows[n].at /\ new[r].at = rows[r].at
        /\ n \notin tx[t].written /\ Live(n)
    BY <1>1, <2>1, <2>2, DeletedRows DEF Live
  <2>4. Traced(new, n) /\ Traced(new, r)
    BY <1>1, <2>1, <2>2, <2>3, DeletedTraced DEF Live
  <2>5. tx[t].written = Affected(tx[t], rows) /\ rows[r].at = tx[t].seen[r]
    <3>1. ToSet(<<>>) = {}
      BY DEF ToSet
    <3>2. QED
      BY <2>1, <2>2, <3>1 DEF FinishDelete, Current
  <2>6. ~Under(rows[n].at.path, rows[r].at.path)
    BY <2>3, <2>5 DEF Affected, Live
  <2> HIDE DEF new, r
  <2>7. QED
    BY <2>2, <2>3, <2>4, <2>6, BelowMeansUnder
<1>2. ASSUME IInv, Unraced, [Next]_vars PROVE [\A t \in Txs : Whole(t)]_vars
  BY <1>1, <1>2
<1>3. Spec => [][\A t \in Txs : Whole(t)]_vars
  <2>1. IInv /\ Unraced /\ [Next]_vars => [\A t \in Txs : Whole(t)]_vars
    BY <1>2
  <2> HIDE DEF Whole
  <2>2. QED
    BY <2>1, Invariance, PathsFollowParents, PTL DEF Spec
<1>4. QED
  BY <1>3 DEF SubtreeGone
=============================================================================
