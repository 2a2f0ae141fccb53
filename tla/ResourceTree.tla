---------------------------- MODULE ResourceTree ----------------------------
(***************************************************************************)
(* The tree of resource nodes in vpp-resource: every row of the table      *)
(* nodes names its parent and repeats its place as a materialised path and *)
(* a depth.  Create, Move and the two deletions run concurrently, each a   *)
(* database transaction at READ COMMITTED.  Move locks the moved row only; *)
(* the parent and the descendants are read without a lock and rewritten    *)
(* one by one.                                                             *)
(*                                                                         *)
(* A step is one statement.  What a transaction writes is seen by others   *)
(* when it commits, and its rows stay locked until then.  Node types and   *)
(* tenants are left out: neither restricts where a node may be moved.      *)
(***************************************************************************)
EXTENDS Integers, FiniteSets, Sequences, SequencesExt

CONSTANTS Nodes, NoNode,
          Txs,          \* the requests running at a time
          MaxRequests   \* bound: moves and deletions

ASSUME TreeAssumption ==
    IsFiniteSet(Nodes) /\ NoNode \notin Nodes /\ MaxRequests \in Nat

VARIABLES
    rows,      \* the committed rows
    tx,        \* tx[t]: the transaction of t
    requests,  \* how many moves and deletions there were
    raced      \* history: a commit changed what another transaction rested on

vars == <<rows, tx, requests, raced>>

Positions == [path : Seq(Nodes), depth : Int]
NoPosition == [path |-> <<>>, depth |-> -1]
NoRow == [status |-> "none", parent |-> NoNode, at |-> NoPosition]
Rows == [status : {"none", "live", "deleted"}, parent : Nodes \cup {NoNode}, at : Positions]

\* seen: the positions it read; target: where the node shall be; written: the
\* rows it has updated and locked.
Transactions ==
    [op : {"none", "create", "move", "delete", "deleteSubtree"},
     step : {"idle", "lock", "parent", "select", "write", "insert"},
     node : Nodes \cup {NoNode}, parent : Nodes \cup {NoNode},
     seen : [Nodes -> Positions], target : Positions,
     todo : Seq(Nodes), written : SUBSET Nodes]

NoTx == [op |-> "none", step |-> "idle", node |-> NoNode, parent |-> NoNode,
         seen |-> [n \in Nodes |-> NoPosition], target |-> NoPosition,
         todo |-> <<>>, written |-> {}]

Init ==
    /\ rows = [n \in Nodes |-> NoRow]
    /\ tx = [t \in Txs |-> NoTx]
    /\ requests = 0 /\ raced = FALSE
-----------------------------------------------------------------------------
Live(n) == rows[n].status = "live"

\* path LIKE base || '/%'
Under(path, base) == IsStrictPrefix(base, path)

Top(n) == [path |-> <<n>>, depth |-> 0]
Below(n, at) == [path |-> Append(at.path, n), depth |-> at.depth + 1]

\* Mutant of Shifted: every descendant is taken for a child.
ShiftedAsChild(at, from, to) ==
    [path |-> to.path \o SubSeq(at.path, Len(from.path) + 1, Len(at.path)),
     depth |-> to.depth + 1]

\* The position of a descendant after its ancestor went from one to another.
Shifted(at, from, to) ==
    [path |-> to.path \o SubSeq(at.path, Len(from.path) + 1, Len(at.path)),
     depth |-> at.depth + (to.depth - from.depth)]

\* Rows that transaction t keeps from being updated.
LockedForUpdate(t) ==
    IF tx[t].op = "move" /\ tx[t].step \in {"parent", "select", "write"}
    THEN {tx[t].node} ELSE {}
Locked(t) == LockedForUpdate(t) \cup tx[t].written

Blocked(t, n) == {u \in Txs \ {t} : n \in Locked(u)}

\* The foreign key on parent_id takes a key-share lock on the parent, which
\* conflicts with FOR UPDATE but not with the lock of an update.
ParentBlocked(t) == {u \in Txs \ {t} : tx[t].parent \in LockedForUpdate(u)}

Set(t, new) == tx' = [tx EXCEPT ![t] = new]

End(t) == Set(t, NoTx)

Rollback(t) == End(t) /\ UNCHANGED <<rows, requests, raced>>
-----------------------------------------------------------------------------
(* Requests *)

BeginCreate(t, n, p) ==
    /\ tx[t].step = "idle" /\ rows[n].status = "none"
    /\ \A u \in Txs : tx[u].node # n
    /\ Set(t, [NoTx EXCEPT !.op = "create", !.node = n, !.parent = p, !.target = Top(n),
                           !.step = IF p = NoNode THEN "insert" ELSE "parent"])
    /\ UNCHANGED <<rows, requests, raced>>

BeginMove(t, n, p) ==
    /\ tx[t].step = "idle" /\ requests < MaxRequests
    /\ requests' = requests + 1
    /\ Set(t, [NoTx EXCEPT !.op = "move", !.step = "lock", !.node = n, !.parent = p])
    /\ UNCHANGED <<rows, raced>>

\* SoftDelete is one statement: the row found now is updated at the end.
BeginDelete(t, n) ==
    /\ tx[t].step = "idle" /\ requests < MaxRequests
    /\ Live(n)
    /\ requests' = requests + 1
    /\ Set(t, [NoTx EXCEPT !.op = "delete", !.step = "write", !.node = n, !.todo = <<n>>])
    /\ UNCHANGED <<rows, raced>>

\* SoftDeleteSubtree reads the path of the root before it starts to delete.
BeginDeleteSubtree(t, n) ==
    /\ tx[t].step = "idle" /\ requests < MaxRequests
    /\ Live(n)
    /\ requests' = requests + 1
    /\ Set(t, [NoTx EXCEPT !.op = "deleteSubtree", !.step = "select", !.node = n,
                           !.seen[n] = rows[n].at])
    /\ UNCHANGED <<rows, raced>>

Begin(t) ==
    \E n \in Nodes :
      \/ BeginDelete(t, n) \/ BeginDeleteSubtree(t, n)
      \/ \E p \in Nodes \cup {NoNode} : BeginCreate(t, n, p) \/ BeginMove(t, n, p)
-----------------------------------------------------------------------------
(* Statements *)

\* SELECT ... FOR UPDATE of the node to be moved.
LockNode(t) ==
    /\ tx[t].step = "lock" /\ Blocked(t, tx[t].node) = {} /\ Live(tx[t].node)
    /\ LET n == tx[t].node
           own == [tx[t] EXCEPT !.seen[n] = rows[n].at, !.target = Top(n)]
       IN  Set(t, [own EXCEPT !.step = IF own.parent = NoNode THEN "select" ELSE "parent"])
    /\ UNCHANGED <<rows, requests, raced>>

LockNotFound(t) ==
    /\ tx[t].step = "lock" /\ Blocked(t, tx[t].node) = {} /\ ~Live(tx[t].node)
    /\ Rollback(t)

\* A node may not go under itself or one of its descendants.
MayMoveTo(t, p) ==
    /\ p # tx[t].node
    /\ ~IsPrefix(tx[t].seen[tx[t].node].path, rows[p].at.path)

\* Mutant of MayFollow: the descendants are not looked at.
MayFollowAnyone(t, p) == Live(p) /\ p # tx[t].node

MayFollow(t, p) == Live(p) /\ (tx[t].op = "move" => MayMoveTo(t, p))

ReadParent(t) ==
    /\ tx[t].step = "parent" /\ MayFollow(t, tx[t].parent)
    /\ LET p == tx[t].parent
       IN  Set(t, [tx[t] EXCEPT !.seen[p] = rows[p].at,
                                !.target = Below(tx[t].node, rows[p].at),
                                !.step = IF tx[t].op = "create" THEN "insert" ELSE "select"])
    /\ UNCHANGED <<rows, requests, raced>>

ParentRefused(t) ==
    /\ tx[t].step = "parent" /\ ~MayFollow(t, tx[t].parent)
    /\ Rollback(t)

\* Mutant of Descendants: the children only.
Children(base) ==
    {d \in Nodes : /\ Live(d) /\ Under(rows[d].at.path, base)
                   /\ Len(rows[d].at.path) = Len(base) + 1}

Descendants(base) == {d \in Nodes : Live(d) /\ Under(rows[d].at.path, base)}

\* FindDescendantsTx, or what the DELETE of a subtree finds when it starts.
Select(t) ==
    /\ tx[t].step = "select"
    /\ LET n == tx[t].node
           below == Descendants(tx[t].seen[n].path)
           found == IF tx[t].op = "move" THEN below \ {n}
                    ELSE below \cup {m \in {n} : Live(m)}
       IN  \E order \in SetToSeqs(found) :
             Set(t, [tx[t] EXCEPT !.todo = order, !.step = "write",
                       !.seen = [d \in Nodes |-> IF d \in found \ {n} THEN rows[d].at
                                                 ELSE tx[t].seen[d]]])
    /\ UNCHANGED <<rows, requests, raced>>

\* What an update that had to wait finds is checked again.
StillThere(t, d) ==
    /\ Live(d)
    /\ tx[t].op = "deleteSubtree" /\ d # tx[t].node
         => Under(rows[d].at.path, tx[t].seen[tx[t].node].path)

Skip(t) == Set(t, [tx[t] EXCEPT !.todo = Tail(@)]) /\ UNCHANGED <<rows, requests, raced>>

WriteRow(t) ==
    /\ tx[t].step = "write" /\ tx[t].todo # <<>>
    /\ LET d == Head(tx[t].todo)
       IN  /\ Blocked(t, d) = {} /\ StillThere(t, d)
           /\ Set(t, [tx[t] EXCEPT !.todo = Tail(@), !.written = @ \cup {d}])
    /\ UNCHANGED <<rows, requests, raced>>

\* An update of no row is an error for Move and SoftDelete.
RowGone(t) ==
    /\ tx[t].step = "write" /\ tx[t].todo # <<>>
    /\ LET d == Head(tx[t].todo)
       IN  Blocked(t, d) = {} /\ ~StillThere(t, d)
    /\ IF tx[t].op = "deleteSubtree" THEN Skip(t) ELSE Rollback(t)
-----------------------------------------------------------------------------
(* The end of a transaction *)

Created(t) ==
    [rows EXCEPT ![tx[t].node] =
       [status |-> "live", parent |-> tx[t].parent, at |-> tx[t].target]]

Moved(t) ==
    LET old == tx[t].seen[tx[t].node]
    IN  [n \in Nodes |->
           IF n = tx[t].node
           THEN [rows[n] EXCEPT !.parent = tx[t].parent, !.at = tx[t].target]
           ELSE IF n \in tx[t].written
           THEN [rows[n] EXCEPT !.at = Shifted(tx[t].seen[n], old, tx[t].target)]
           ELSE rows[n]]

Deleted(t) ==
    [n \in Nodes |-> IF n \in tx[t].written THEN [rows[n] EXCEPT !.status = "deleted"]
                     ELSE rows[n]]

\* The work of transaction u rests on the place of n, or on n not being there.
RestsOn(u, n, new) ==
    \/ tx[u].seen[n] # NoPosition
    \/ /\ tx[u].step = "write" /\ tx[u].op \in {"move", "deleteSubtree"}
       /\ Under(new[n].at.path, tx[u].seen[tx[u].node].path)

Races(t, new) ==
    \E n \in Nodes : /\ new[n] # rows[n]
                     /\ \E u \in Txs \ {t} : RestsOn(u, n, new)

Commit(t, new) ==
    /\ rows' = new
    /\ raced' = (raced \/ Races(t, new))
    /\ End(t)
    /\ UNCHANGED requests

Insert(t) ==
    /\ tx[t].step = "insert" /\ ParentBlocked(t) = {}
    /\ Commit(t, Created(t))

Reparents(t) == tx[t].parent \notin {NoNode, rows[tx[t].node].parent}

FinishMove(t) ==
    /\ tx[t].op = "move" /\ tx[t].step = "write" /\ tx[t].todo = <<>>
    /\ Reparents(t) => ParentBlocked(t) = {}
    /\ Commit(t, Moved(t))

FinishDelete(t) ==
    /\ tx[t].op \in {"delete", "deleteSubtree"}
    /\ tx[t].step = "write" /\ tx[t].todo = <<>>
    /\ Commit(t, Deleted(t))

\* A statement or the commit fails, the process ends, or the database ends one
\* of the transactions that wait for each other.
Fail(t) == tx[t].step # "idle" /\ Rollback(t)

Statement(t) ==
    \/ LockNode(t) \/ LockNotFound(t) \/ ReadParent(t) \/ ParentRefused(t)
    \/ Select(t) \/ WriteRow(t) \/ RowGone(t)
    \/ Insert(t) \/ FinishMove(t) \/ FinishDelete(t)

Next == \E t \in Txs : Begin(t) \/ Statement(t) \/ Fail(t)

Spec == Init /\ [][Next]_vars
-----------------------------------------------------------------------------
(* What the tree promises *)

Ancestors(table, n) ==
    LET up[k \in 0..Cardinality(Nodes)] ==
          IF k = 0 THEN n
          ELSE IF up[k - 1] = NoNode THEN NoNode ELSE table[up[k - 1]].parent
    IN  {up[k] : k \in 1..Cardinality(Nodes)} \ {NoNode}

\* resolveScopeSQL for the root of a scope
Scope(r) == {n \in Nodes : Live(n) /\ (n = r \/ Under(rows[n].at.path, rows[r].at.path))}

TypeOK ==
    /\ rows \in [Nodes -> Rows]
    /\ tx \in [Txs -> Transactions]
    /\ requests \in Nat /\ raced \in BOOLEAN

\* Whatever creations, moves and deletions run concurrently, the depth of a
\* row is the length of its path: computeNodePathDepth and Move change both
\* together, and ExportResourceTree and resolveScopeSQL compare depths.
DepthIsLength == \A n \in Nodes : rows[n].at.depth = Len(rows[n].at.path) - 1

\* "Site and asset scopes include every descendant CU" (scope_repo.go): as long
\* as no commit has changed what another transaction rested on, the nodes that
\* resolveScopeSQL finds by path are those below the root by parent_id, and
\* so no node is below itself.
ScopesAreDescendants ==
    ~raced => \A r \in Nodes : Live(r) =>
      Scope(r) = {n \in Nodes : Live(n) /\ (n = r \/ r \in Ancestors(rows, n))}

\* The same sentence without the condition: a move or creation that has read the
\* place of a node before another move commits leaves control units that the
\* scopes above them do not include.
ScopesIncludeDescendants ==
    \A r \in Nodes : Live(r) =>
      {n \in Nodes : Live(n) /\ r \in Ancestors(rows, n)} \subseteq Scope(r)

\* Under the same condition, a root that SoftDeleteSubtree deletes has no live
\* descendant by parent_id when the deletion commits.
SubtreeGone ==
    [][\A t \in Txs :
         LET r == tx[t].node
         IN  /\ tx[t].op = "deleteSubtree" /\ tx'[t].step = "idle" /\ ~raced
             /\ rows[r].status = "live" /\ rows'[r].status = "deleted"
             => \A n \in Nodes : rows'[n].status = "live" => r \notin Ancestors(rows', n)]_vars

\* node_repository.go of the port: SoftDeleteSubtree deletes the whole subtree.
\* What is created or moved below the root while the deletion runs is out of
\* its reach: the path it searches by, and the rows it sees, are those of its start.
SubtreeDeletedWhole ==
    [][\A t \in Txs :
         LET r == tx[t].node
         IN  /\ tx[t].op = "deleteSubtree" /\ tx'[t].step = "idle"
             /\ rows[r].status = "live" /\ rows'[r].status = "deleted"
             => \A n \in Nodes : rows'[n].status = "live" => r \notin Ancestors(rows', n)]_vars
-----------------------------------------------------------------------------
(* The inductive invariant *)

Measured(at) == at.depth = Len(at.path) - 1

\* The row locks of a transaction.
Held(r) ==
    (IF r.op = "move" /\ r.step \in {"parent", "select", "write"} THEN {r.node} ELSE {})
    \cup r.written

\* What its step says of a transaction.
StepFits(r) ==
    /\ r.step # "idle" => r.op # "none" /\ r.node \in Nodes
    /\ r.step = "lock" => r.op = "move"
    /\ r.step = "parent" => r.op \in {"create", "move"} /\ r.parent \in Nodes
    /\ r.step = "select" => r.op \in {"move", "deleteSubtree"}
    /\ r.step = "insert" => r.op = "create"
    /\ r.step # "write" => r.written = {}
    /\ r.step = "idle" => r.op = "none"

\* What it has read is measured, its rows are live, the node it moves is where
\* it found it, and the rows it moves along were found below that node.
Fine(r, table) ==
    /\ Measured(r.target) /\ \A n \in Nodes : Measured(r.seen[n])
    /\ r.op = "create" => table[r.node].status = "none"
    /\ \A n \in Held(r) : table[n].status = "live"
    /\ r.op = "move" /\ r.step \in {"parent", "select", "write"}
         => table[r.node].at = r.seen[r.node]
    /\ r.op = "move" /\ r.step = "write"
         => \A d \in ToSet(r.todo) \cup r.written :
              Len(r.seen[r.node].path) <= Len(r.seen[d].path)

\* Two transactions neither hold the same row nor create the same node.
Apart(r, q) ==
    /\ Held(r) \cap Held(q) = {}
    /\ r.op = "create" /\ q.op = "create" => r.node # q.node

IInv ==
    /\ TypeOK
    /\ \A n \in Nodes : Measured(rows[n].at)
    /\ \A t \in Txs : StepFits(tx[t]) /\ Fine(tx[t], rows)
    /\ \A t, u \in Txs : t # u => Apart(tx[t], tx[u])

-----------------------------------------------------------------------------
(* The invariant of a history without races *)

\* The path of a row leads from the top down to it, from each parent to its
\* child, through rows that were all created.
Traced(table, n) ==
    LET p == table[n].at.path
    IN  /\ p # <<>> /\ p[Len(p)] = n
        /\ \A i \in 1..Len(p) :
             /\ table[p[i]].status # "none"
             /\ table[p[i]].parent = IF i = 1 THEN NoNode ELSE p[i - 1]

\* The target of a creation or move is below the parent that was read, which
\* is not below the moved node.
Aims(r) ==
    \/ r.parent = NoNode /\ r.target = Top(r.node)
    \/ /\ r.parent \in Nodes /\ r.seen[r.parent] # NoPosition
       /\ r.target = Below(r.node, r.seen[r.parent])
       /\ r.op = "move" => ~IsPrefix(r.seen[r.node].path, r.seen[r.parent].path)

\* The live rows that a move or a deletion of a subtree has to write.
Affected(r, table) ==
    {d \in Nodes : /\ table[d].status = "live"
                   /\ \/ Under(table[d].at.path, r.seen[r.node].path)
                      \/ d = r.node /\ r.op = "deleteSubtree"}

\* The rows that a transaction has read are live and where it saw them, and
\* it has found all that it has to write.
Current(r, table) ==
    /\ \A n \in Nodes : r.seen[n] # NoPosition =>
                          table[n].status = "live" /\ table[n].at = r.seen[n]
    /\ r.op = "deleteSubtree" \/ (r.op = "move" /\ r.step # "lock")
         => r.seen[r.node] # NoPosition
    /\ r.step = "insert" \/ (r.op = "move" /\ r.step \in {"select", "write"}) => Aims(r)
    /\ r.step = "write" /\ r.op \in {"move", "deleteSubtree"}
         => /\ ToSet(r.todo) \cup r.written = Affected(r, table)
            /\ \A d \in Affected(r, table) : r.seen[d] # NoPosition

Unraced ==
    ~raced => /\ \A n \in Nodes : Live(n) => Traced(rows, n)
              /\ \A t \in Txs : Current(tx[t], rows)
=============================================================================
