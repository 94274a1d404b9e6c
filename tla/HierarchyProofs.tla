-------------------------- MODULE HierarchyProofs --------------------------
(***************************************************************************)
(* Proofs about Hierarchy, for any number of rows, users and transactions, *)
(* and, after those, about Menus, the columns of the same table.           *)
(* The invariant says what an open transaction may still rely on: the rows *)
(* it has share-locked are unchanged, and whatever has come to hang on its *)
(* row since the snapshot was put there by a rival it cannot commit after. *)
(***************************************************************************)
EXTENDS Hierarchy, Menus, TLAPS

\* The rows climbed so far: they take children, they lead to the row to be read
\* next, and the row being written is not among them.
ChainFits(t) ==
    /\ t.chain \subseteq live \ leaf
    /\ t.op.own \notin t.chain
    /\ t.op.to \in t.chain \cup {t.at}
    /\ t.op.kind # "assign" => \A x \in t.chain : pid[x] \in t.chain \cup {t.at}

\* The row being written.
OwnFits(t) ==
    /\ t.op.kind = "create" => t.op.own \notin live \cup gone /\ t.pc = "climb"
    /\ t.op.kind \in {"update", "remove"} =>
         t.op.own \in live \/ (t.pc = "lock" /\ Overwritten(t, t.op.own))

\* A rival has written a set of things under n after reading the row n.
PutUnder(t, what, n) == \E r \in t.rivals : <<what, n>> \in r.writes /\ <<"row", n>> \in r.reads

\* What hangs on the row was there in the snapshot, or comes from a rival.
BareFits(t) ==
    /\ t.op.kind = "remove" \/ t.op.leaf =>
         \A c \in live : pid[c] = t.op.own => t.kids \/ PutUnder(t, "kids", t.op.own)
    /\ t.op.kind = "remove" =>
         \A u \in Users : home[u] = t.op.own => t.users \/ PutUnder(t, "users", t.op.own)

TxFits(t) == t.pc \in {"lock", "climb"} => ChainFits(t) /\ OwnFits(t) /\ BareFits(t)

\* What the locks keep apart.
Apart(v, w) ==
    tx[v].pc = "climb" =>
        /\ tx[w].pc \in {"lock", "climb"} => tx[v].op.own \notin tx[w].chain
        /\ tx[w].pc = "climb" => tx[v].op.own # tx[w].op.own

Inv ==
    /\ TypeOK
    /\ Acyclic /\ ParentsCapable /\ HomesLive
    /\ \A w \in Writers : TxFits(tx[w])
    /\ \A v, w \in Writers : v # w => Apart(v, w)

-----------------------------------------------------------------------------
\* The fields of an open transaction.
LEMMA Open ==
    ASSUME TypeOK, NEW w \in Writers, tx[w].pc \in {"lock", "climb"}
    PROVE  /\ tx[w] \in Tx
           /\ w \in Busy
           /\ tx[w].op \in Ops /\ tx[w].chain \subseteq Nodes /\ tx[w].at \in Parents
           /\ tx[w].kids \in BOOLEAN /\ tx[w].users \in BOOLEAN
           /\ tx[w].rivals \subseteq Rivals
<1>1. tx[w] \in Tx
  BY DEF TypeOK, Idle, Done
<1> QED
  BY <1>1 DEF Tx, Busy

\* What a write is about.
LEMMA OpFields ==
    ASSUME NEW o \in Ops
    PROVE  /\ o.kind \in {"create", "update", "remove", "assign"}
           /\ o.kind # "assign" => o.own \in Nodes
           /\ o.kind = "assign" => o.own \in Users /\ o.to \in Nodes
           /\ o.to \in Parents /\ o.leaf \in BOOLEAN
           /\ o.kind \in {"remove", "assign"} => ~o.leaf
           /\ o.kind = "remove" => o.to = Root
  BY DEF Ops, Parents

\* What a transaction reads and writes.
LEMMA ThingsType ==
    ASSUME TypeOK, NEW w \in Writers, tx[w].pc \in {"lock", "climb"}
    PROVE  Reads(tx[w]) \subseteq Things /\ Writes(tx[w]) \subseteq Things
<1> DEFINE t == tx[w]
<1>1. t.op \in Ops /\ t.chain \subseteq Nodes
  BY Open
<1>2. t.op.own \in Nodes \cup Users /\ t.op.to \in Parents
  BY <1>1, OpFields
<1>3. t.op.kind # "assign" => t.op.own \in Nodes /\ pid[t.op.own] \in Parents
  BY <1>1, OpFields DEF TypeOK
<1>4. t.op.kind = "assign" => home[t.op.own] \in Parents
  BY <1>1, OpFields DEF TypeOK
<1>5. \A k \in {"row", "kids", "users"}, n \in Nodes \cup Users \cup {Root} : <<k, n>> \in Things
  BY DEF Things
<1> HIDE DEF t
<1>6. \A S : S \subseteq Nodes \cup Users => Rows(S) \subseteq Things
  BY <1>5 DEF Rows
<1>7. Reads(t) \subseteq Things
  <2>1. Rows(t.chain \cup {t.op.own}) \subseteq Things
    BY <1>1, <1>2, <1>6
  <2> QED
    BY <2>1, <1>2, <1>5 DEF Reads
<1>8. Writes(t) \subseteq Things
  <2>1. Rows({t.op.own}) \subseteq Things
    BY <1>2, <1>6
  <2>2. CASE t.op.kind = "assign"
    BY <2>1, <2>2, <1>2, <1>4, <1>5 DEF Writes, Parents
  <2>3. CASE t.op.kind # "assign"
    BY <2>1, <2>3, <1>2, <1>3, <1>5 DEF Writes, Parents
  <2> QED
    BY <2>2, <2>3
<1> QED
  BY <1>7, <1>8 DEF t

\* Rollback, and every step of another transaction.
LEMMA OthersStay ==
    ASSUME NEW w \in Writers, NEW v \in Writers, v # w, NEW e,
           TypeOK, tx' = [tx EXCEPT ![w] = e]
    PROVE  tx'[v] = tx[v]
  BY DEF TypeOK

-----------------------------------------------------------------------------
(* The steps that leave the table alone.                                   *)

\* They concern one transaction.
LEMMA Quiet ==
    ASSUME Inv, TypeOK', NEW w \in Writers, UNCHANGED table,
           \A v \in Writers \ {w} : tx'[v] = tx[v],
           TxFits(tx[w])',
           \A v \in Writers \ {w} : Apart(v, w)' /\ Apart(w, v)'
    PROVE  Inv'
<1>1. Acyclic' /\ ParentsCapable' /\ HomesLive'
  BY DEF Inv, Acyclic, Forest, ParentsCapable, HomesLive, table
<1>2. ASSUME NEW v \in Writers PROVE TxFits(tx[v])'
  <2>1. CASE v = w
    BY <2>1
  <2>2. CASE v # w
    <3>1. tx'[v] = tx[v] /\ TxFits(tx[v])
      BY <2>2 DEF Inv
    <3> QED
      BY <3>1 DEF TxFits, ChainFits, OwnFits, BareFits, PutUnder, Overwritten, table
  <2> QED
    BY <2>1, <2>2
<1>3. ASSUME NEW u \in Writers, NEW v \in Writers, u # v PROVE Apart(u, v)'
  <2>1. CASE u = w \/ v = w
    BY <1>3, <2>1
  <2>2. CASE u # w /\ v # w
    <3>1. tx'[u] = tx[u] /\ tx'[v] = tx[v] /\ Apart(u, v)
      BY <1>3, <2>2 DEF Inv
    <3> QED
      BY <3>1 DEF Apart
  <2> QED
    BY <2>1, <2>2
<1> QED
  BY <1>1, <1>2, <1>3 DEF Inv

LEMMA BeginInv == ASSUME Inv, NEW w \in Writers, NEW o \in Ops, Begin(w, o) PROVE Inv'
<1> DEFINE e == [pc |-> IF o.kind = "create" THEN "climb" ELSE "lock",
                 op |-> o, chain |-> {}, at |-> o.to, rivals |-> {},
                 kids |-> Kids(o.own) # {}, users |-> UsersOf(o.own) # {}]
<1> DEFINE k == Kids(o.own) # {}
           q == UsersOf(o.own) # {}
<1>1. UNCHANGED table /\ tx' = [tx EXCEPT ![w] = e]
  BY DEF Begin
<1>2. /\ e.pc = IF o.kind = "create" THEN "climb" ELSE "lock"
      /\ e.op = o /\ e.chain = {} /\ e.at = o.to /\ e.rivals = {}
      /\ e.kids = k /\ e.users = q
  OBVIOUS
<1>3. e \in Tx
  BY OpFields DEF Tx
<1>4. /\ k <=> \E c \in live : pid[c] = o.own
      /\ q <=> \E u \in Users : home[u] = o.own
  BY DEF Kids, UsersOf
<1> HIDE DEF e, k, q
<1>5. TypeOK'
  BY <1>1, <1>3 DEF Inv, TypeOK, table
<1>6. tx'[w] = e /\ \A v \in Writers \ {w} : tx'[v] = tx[v]
  BY <1>1 DEF Inv, TypeOK
<1>7. o.kind = "create" => o.own \notin live \cup gone /\ \A v \in Busy : tx[v].op.own # o.own
  BY DEF Begin
<1>8. o.kind \in {"update", "remove"} => o.own \in live
  BY DEF Begin
<1>9. TxFits(tx[w])'
  <2>1. /\ tx'[w].op = o /\ tx'[w].chain = {} /\ tx'[w].at = o.to
        /\ tx'[w].pc = IF o.kind = "create" THEN "climb" ELSE "lock"
        /\ tx'[w].kids = k /\ tx'[w].users = q
    BY <1>2, <1>6
  <2>2. ChainFits(tx[w])'
    BY <2>1 DEF ChainFits
  <2>3. OwnFits(tx[w])'
    BY <1>1, <1>7, <1>8, <2>1 DEF OwnFits, table
  <2>4. BareFits(tx[w])'
    BY <1>1, <1>4, <2>1 DEF BareFits, table
  <2> QED
    BY <2>2, <2>3, <2>4 DEF TxFits
<1>10. ASSUME NEW v \in Writers \ {w} PROVE Apart(v, w)' /\ Apart(w, v)'
  <2>1. tx'[v] = tx[v] /\ tx'[w] = e
    BY <1>6
  <2>2. Apart(v, w)'
    <3>1. tx[v].pc = "climb" => v \in Busy
      BY DEF Busy
    <3> QED
      BY <2>1, <3>1, <1>2, <1>7 DEF Apart
  <2>3. Apart(w, v)'
    <3>1. tx[v].pc \in {"lock", "climb"} => v \in Busy /\ tx[v].chain \subseteq live
      BY DEF Busy, Inv, TxFits, ChainFits
    <3> QED
      BY <2>1, <3>1, <1>2, <1>7 DEF Apart
  <2> QED
    BY <2>2, <2>3
<1> QED
  BY <1>1, <1>5, <1>6, <1>9, <1>10, Quiet

LEMMA LockRowInv == ASSUME Inv, NEW w \in Writers, LockRow(w) PROVE Inv'
<1> DEFINE t == tx[w]
           e == tx'[w]
<1>1. t.pc = "lock" /\ UNCHANGED table /\ tx' = [tx EXCEPT ![w].pc = "climb"]
  BY DEF LockRow
<1>2. t \in Tx
  BY <1>1, Open DEF Inv
<1>3. /\ e \in Tx /\ e.pc = "climb"
      /\ e.op = t.op /\ e.chain = t.chain /\ e.at = t.at /\ e.rivals = t.rivals
      /\ e.kids = t.kids /\ e.users = t.users
  BY <1>1, <1>2 DEF Inv, TypeOK, Tx
<1>4. \A v \in Writers \ {w} : tx'[v] = tx[v]
  BY <1>1 DEF Inv, TypeOK
<1>5. TypeOK'
  BY <1>1, <1>3, <1>4 DEF Inv, TypeOK, table
<1>6. ~Overwritten(t, t.op.own)
  BY DEF LockRow
<1>7. TxFits(tx[w])'
  <2>1. ChainFits(t) /\ OwnFits(t) /\ BareFits(t)
    BY <1>1 DEF Inv, TxFits
  <2>2. ChainFits(tx[w])'
    BY <1>1, <1>3, <2>1 DEF ChainFits, table
  <2>3. OwnFits(tx[w])'
    BY <1>1, <1>3, <1>6, <2>1 DEF OwnFits, table
  <2>4. BareFits(tx[w])'
    BY <1>1, <1>3, <2>1 DEF BareFits, PutUnder, table
  <2> QED
    BY <2>2, <2>3, <2>4 DEF TxFits
<1>8. ASSUME NEW v \in Writers \ {w} PROVE Apart(v, w)' /\ Apart(w, v)'
  <2>1. tx'[v] = tx[v] /\ Apart(v, w) /\ Apart(w, v)
    BY <1>4 DEF Inv
  <2>2. t.op.own \notin Exclusive(v) \cup Shared(v)
    BY DEF LockRow
  <2>3. /\ tx[v].pc = "climb" => tx[v].op.own # t.op.own
        /\ tx[v].pc \in {"lock", "climb"} => t.op.own \notin tx[v].chain
    BY <2>2 DEF Exclusive, Shared, Busy
  <2> QED
    BY <1>1, <1>3, <2>1, <2>3 DEF Apart
<1> QED
  BY <1>1, <1>4, <1>5, <1>7, <1>8, Quiet

LEMMA ReadParentInv == ASSUME Inv, NEW w \in Writers, ReadParent(w) PROVE Inv'
<1> DEFINE t == tx[w]
           e == tx'[w]
           next == IF t.op.kind = "assign" THEN Root ELSE pid[t.at]
<1>1. /\ t.pc = "climb" /\ t.at # Root /\ t.at \notin t.chain \cup {t.op.own}
      /\ t.at \in live \ leaf /\ UNCHANGED table
      /\ \A v \in Writers \ {w} : t.at \notin Exclusive(v)
      /\ tx' = [tx EXCEPT ![w] = [t EXCEPT !.chain = t.chain \cup {t.at}, !.at = next]]
  BY DEF ReadParent, Unvisited
<1>2. t \in Tx
  BY <1>1, Open DEF Inv
<1>3. t.at \in Nodes /\ next \in Parents
  BY <1>1 DEF Inv, TypeOK, Parents
<1> HIDE DEF next
<1>4. /\ e \in Tx /\ e.pc = "climb"
      /\ e.op = t.op /\ e.chain = t.chain \cup {t.at} /\ e.at = next /\ e.rivals = t.rivals
      /\ e.kids = t.kids /\ e.users = t.users
  BY <1>1, <1>2, <1>3 DEF Inv, TypeOK, Tx
<1>5. \A v \in Writers \ {w} : tx'[v] = tx[v]
  BY <1>1 DEF Inv, TypeOK
<1>6. TypeOK'
  BY <1>1, <1>4, <1>5 DEF Inv, TypeOK, table
<1>7. TxFits(tx[w])'
  <2>1. ChainFits(t) /\ OwnFits(t) /\ BareFits(t)
    BY <1>1 DEF Inv, TxFits
  <2>2. ChainFits(tx[w])'
    BY <1>1, <1>4, <2>1 DEF ChainFits, table, next
  <2>3. OwnFits(tx[w])'
    BY <1>1, <1>4, <2>1 DEF OwnFits, table
  <2>4. BareFits(tx[w])'
    BY <1>1, <1>4, <2>1 DEF BareFits, PutUnder, table
  <2> QED
    BY <2>2, <2>3, <2>4 DEF TxFits
<1>8. ASSUME NEW v \in Writers \ {w} PROVE Apart(v, w)' /\ Apart(w, v)'
  <2>1. tx'[v] = tx[v] /\ Apart(v, w) /\ Apart(w, v)
    BY <1>5 DEF Inv
  <2>2. tx[v].pc = "climb" => tx[v].op.own # t.at
    BY <1>1 DEF Exclusive
  <2> QED
    BY <1>1, <1>4, <2>1, <2>2 DEF Apart
<1> QED
  BY <1>1, <1>5, <1>6, <1>7, <1>8, Quiet

LEMMA RollbackInv == ASSUME Inv, NEW w \in Writers, Rollback(w) PROVE Inv'
<1>1. UNCHANGED table /\ tx' = [tx EXCEPT ![w] = Done]
  BY DEF Rollback
<1>2. tx'[w] = Done /\ \A v \in Writers \ {w} : tx'[v] = tx[v]
  BY <1>1 DEF Inv, TypeOK
<1>3. TypeOK'
  BY <1>1 DEF Inv, TypeOK, table
<1>4. TxFits(tx[w])' /\ \A v \in Writers \ {w} : Apart(v, w)' /\ Apart(w, v)'
  BY <1>2 DEF TxFits, Apart, Done
<1> QED
  BY <1>1, <1>2, <1>3, <1>4, Quiet

-----------------------------------------------------------------------------
(* The commit.                                                             *)

\* A commit changes the row it has locked, or the home of the user it has locked.
LEMMA Applied ==
    ASSUME TypeOK, NEW o \in Ops, Apply(o)
    PROVE  /\ live' \subseteq live \cup {o.own} /\ live \subseteq live' \cup {o.own}
           /\ o.kind \in {"create", "update"} =>
                /\ pid' = [pid EXCEPT ![o.own] = o.to] /\ home' = home
                /\ live' = IF o.kind = "create" THEN live \cup {o.own} ELSE live
                /\ gone' = gone
                /\ leaf' = IF o.leaf THEN leaf \cup {o.own} ELSE leaf \ {o.own}
           /\ o.kind = "remove" =>
                /\ pid' = pid /\ home' = home /\ live' = live \ {o.own}
                /\ gone' = gone \cup {o.own} /\ leaf' = leaf \ {o.own}
           /\ o.kind = "assign" =>
                /\ pid' = pid /\ live' = live /\ gone' = gone
                /\ home' = [home EXCEPT ![o.own] = o.to]
                /\ leaf' = leaf \ {o.own}
<1>1. /\ o.kind = "create" => live' = live \cup {o.own}
      /\ o.kind = "remove" => live' = live \ {o.own}
      /\ o.kind \in {"update", "assign"} => live' = live
  BY OpFields DEF Apply
<1> QED
  BY <1>1, OpFields, Zenon DEF Apply

\* What a transaction that may commit knows of its row: it has climbed to the root
\* from its new parent, and nothing hangs on a row to be removed or made a leaf.
LEMMA Committing ==
    ASSUME Inv, NEW w \in Writers, Commit(w)
    PROVE  LET t == tx[w] IN
           /\ ChainFits(t) /\ OwnFits(t) /\ t.at = Root
           /\ t.op.kind = "remove" \/ t.op.leaf => \A c \in live : pid[c] # t.op.own
           /\ t.op.kind = "remove" => \A u \in Users : home[u] # t.op.own
<1> DEFINE t == tx[w]
<1>1. t.pc = "climb" /\ t.at = Root /\ Bare(t) /\ Serializable(t)
  BY DEF Commit
<1>2. ChainFits(t) /\ OwnFits(t) /\ BareFits(t)
  BY <1>1 DEF Inv, TxFits
<1> HIDE DEF t
<1>3. t.op.kind # "assign" => <<"row", t.op.own>> \in Writes(t)
  BY DEF Writes, Rows
<1>4. ASSUME t.op.kind = "remove" \/ t.op.leaf, t.op.kind # "assign"
      PROVE  \A c \in live : pid[c] # t.op.own
  <2>1. <<"kids", t.op.own>> \in Reads(t)
    BY <1>4 DEF Reads
  <2>2. ~PutUnder(t, "kids", t.op.own)
    BY <1>1, <1>3, <1>4, <2>1 DEF PutUnder, Serializable
  <2> QED
    BY <1>1, <1>2, <1>4, <2>2 DEF Bare, BareFits
<1>5. ASSUME t.op.kind = "remove" PROVE \A u \in Users : home[u] # t.op.own
  <2>1. <<"users", t.op.own>> \in Reads(t)
    BY <1>5 DEF Reads
  <2>2. ~PutUnder(t, "users", t.op.own)
    BY <1>1, <1>3, <1>5, <2>1 DEF PutUnder, Serializable
  <2> QED
    BY <1>1, <1>2, <1>5, <2>2 DEF Bare, BareFits
<1>6. t.op.kind = "assign" => ~t.op.leaf
  BY <1>1, Open, OpFields DEF t, Inv
<1> QED
  BY <1>1, <1>2, <1>4, <1>5, <1>6 DEF t

\* A row is put under a chain that leads to the root without it.
Moved(own, to, chain) ==
    /\ own \in Nodes /\ to \in Parents /\ chain \subseteq live
    /\ own \notin chain /\ to \in chain \cup {Root}
    /\ \A x \in chain : pid[x] \in chain \cup {Root}
    /\ pid' = [pid EXCEPT ![own] = to] /\ live' \subseteq live \cup {own}

\* A row moved under a chain that leads to the root without it closes no cycle: take
\* any set of rows; if it meets the chain, the highest row of the chain in it leads
\* out of it, and if it does not, the moved row leads out of it.
LEMMA MovedAcyclic ==
    ASSUME Forest, pid \in [Nodes -> Parents], live \subseteq Nodes,
           NEW own, NEW to, NEW chain, Moved(own, to, chain)
    PROVE  Forest'
<1> USE DEF Moved
<1> SUFFICES ASSUME NEW S \in SUBSET live', S # {}
             PROVE  \E n \in S : pid'[n] \notin S
  BY DEF Forest
<1>1. /\ S \subseteq Nodes /\ Root \notin S
      /\ pid'[own] = to /\ \A n \in Nodes \ {own} : pid'[n] = pid[n]
  BY HierarchyAssumption
<1>2. CASE own \notin S
  <2>1. S \in SUBSET live
    BY <1>2
  <2>2. \E n \in S : pid[n] \notin S
    BY <2>1 DEF Forest
  <2> QED
    BY <1>1, <1>2, <2>2
<1>3. CASE own \in S /\ S \cap chain = {}
  BY <1>1, <1>3
<1>4. CASE own \in S /\ S \cap chain # {}
  <2>1. S \cap chain \in SUBSET live
    OBVIOUS
  <2>2. PICK n \in S \cap chain : pid[n] \notin S \cap chain
    BY <1>4, <2>1 DEF Forest
  <2>3. pid[n] \in chain \cup {Root} /\ n # own
    BY <2>2
  <2>4. pid[n] \notin S
    BY <1>1, <2>2, <2>3
  <2> QED
    BY <1>1, <2>2, <2>3, <2>4
<1> QED
  BY <1>2, <1>3, <1>4

\* Removing rows, or no change of parents, closes no cycle either.
LEMMA SameParents ==
    ASSUME Forest, pid' = pid, live' \subseteq live
    PROVE  Forest'
  BY DEF Forest

LEMMA CommitTable ==
    ASSUME Inv, NEW w \in Writers, Commit(w)
    PROVE  Acyclic' /\ ParentsCapable' /\ HomesLive'
<1> DEFINE t == tx[w]
           o == t.op
<1>1. /\ ChainFits(t) /\ OwnFits(t) /\ t.at = Root /\ t.pc = "climb"
      /\ o.kind = "remove" \/ o.leaf => \A c \in live : pid[c] # o.own
      /\ o.kind = "remove" => \A u \in Users : home[u] # o.own
  BY Committing DEF Commit
<1>2. o \in Ops /\ t.chain \subseteq Nodes
  BY <1>1, Open DEF Inv
<1>3. Apply(o)
  BY DEF Commit
<1>4. /\ live \subseteq Nodes /\ leaf \subseteq Nodes /\ pid \in [Nodes -> Parents]
      /\ home \in [Users -> Parents] /\ Forest /\ ParentsCapable /\ HomesLive
  BY DEF Inv, TypeOK, Acyclic
<1>5. /\ t.chain \subseteq live \ leaf /\ o.own \notin t.chain /\ o.to \in t.chain \cup {Root}
      /\ o.kind # "assign" => \A x \in t.chain : pid[x] \in t.chain \cup {Root}
  BY <1>1 DEF ChainFits
<1>6. o.kind \in {"update", "remove"} => o.own \in live
  BY <1>1 DEF OwnFits
<1>7. o.kind = "create" => o.own \notin live
  BY <1>1 DEF OwnFits
<1> HIDE DEF t, o
<1>8. CASE o.kind \in {"create", "update"}
  <2>1. /\ o.own \in Nodes /\ o.to \in Parents
        /\ pid' = [pid EXCEPT ![o.own] = o.to] /\ home' = home
        /\ live' = IF o.kind = "create" THEN live \cup {o.own} ELSE live
        /\ leaf' = IF o.leaf THEN leaf \cup {o.own} ELSE leaf \ {o.own}
    BY <1>2, <1>3, <1>8, OpFields, Applied DEF Inv
  <2>2. Forest'
    <3>1. Moved(o.own, o.to, t.chain)
      BY <1>4, <1>5, <1>8, <2>1 DEF Moved
    <3> QED
      BY <1>4, <3>1, MovedAcyclic
  <2>3. ParentsCapable'
    <3> SUFFICES ASSUME NEW n \in live', pid'[n] # Root PROVE pid'[n] \in live' \ leaf'
      BY DEF ParentsCapable
    <3>1. CASE n = o.own
      BY <1>4, <1>5, <2>1, <3>1
    <3>2. CASE n # o.own
      <4>1. n \in live /\ pid'[n] = pid[n] /\ pid[n] \in live \ leaf
        BY <1>4, <2>1, <3>2 DEF ParentsCapable
      <4>2. o.leaf => pid[n] # o.own
        BY <1>1, <4>1 DEF o
      <4> QED
        BY <2>1, <4>1, <4>2
    <3> QED
      BY <3>1, <3>2
  <2>4. HomesLive'
    BY <1>4, <2>1 DEF HomesLive
  <2> QED
    BY <2>2, <2>3, <2>4 DEF Acyclic
<1>9. CASE o.kind = "remove"
  <2>1. /\ pid' = pid /\ home' = home /\ live' = live \ {o.own} /\ leaf' = leaf \ {o.own}
    BY <1>2, <1>3, <1>9, Applied DEF Inv
  <2>2. Forest'
    BY <1>4, <2>1, SameParents
  <2>3. ParentsCapable'
    <3>1. \A c \in live : pid[c] # o.own
      BY <1>1, <1>9 DEF o
    <3> QED
      BY <1>4, <2>1, <3>1 DEF ParentsCapable
  <2>4. HomesLive'
    <3>1. \A u \in Users : home[u] # o.own
      BY <1>1, <1>9 DEF o
    <3> QED
      BY <1>4, <2>1, <3>1 DEF HomesLive
  <2> QED
    BY <2>2, <2>3, <2>4 DEF Acyclic
<1>10. CASE o.kind = "assign"
  <2>1. /\ pid' = pid /\ live' = live /\ home' = [home EXCEPT ![o.own] = o.to]
        /\ leaf' = leaf \ {o.own}
    BY <1>2, <1>3, <1>10, Applied DEF Inv
  <2>2. Forest' /\ ParentsCapable'
    BY <1>4, <2>1, SameParents DEF ParentsCapable
  <2>3. HomesLive'
    BY <1>4, <1>5, <2>1 DEF HomesLive
  <2> QED
    BY <2>2, <2>3 DEF Acyclic
<1> QED
  BY <1>2, <1>8, <1>9, <1>10, OpFields

\* What a commit does to the transactions: its own is over, the others gain a rival.
LEMMA CommitTx ==
    ASSUME Inv, NEW w \in Writers, Commit(w)
    PROVE  LET rival == [reads |-> Reads(tx[w]), writes |-> Writes(tx[w])] IN
           /\ tx'[w] = Done /\ TypeOK'
           /\ \A v \in Writers \ {w} :
                /\ tx[v].pc \notin {"lock", "climb"} => tx'[v] = tx[v]
                /\ tx[v].pc \in {"lock", "climb"} =>
                     /\ tx'[v].pc = tx[v].pc /\ tx'[v].op = tx[v].op
                     /\ tx'[v].chain = tx[v].chain /\ tx'[v].at = tx[v].at
                     /\ tx'[v].kids = tx[v].kids /\ tx'[v].users = tx[v].users
                     /\ tx'[v].rivals = tx[v].rivals \cup {rival}
<1> DEFINE rival == [reads |-> Reads(tx[w]), writes |-> Writes(tx[w])]
<1>1. /\ tx[w].pc = "climb" /\ Apply(tx[w].op)
      /\ tx' = [v \in Writers |-> IF v = w THEN Done
                                  ELSE IF v \in Busy
                                       THEN [tx[v] EXCEPT !.rivals = @ \cup {rival}]
                                  ELSE tx[v]]
  BY DEF Commit
<1>2. rival \in Rivals
  BY <1>1, ThingsType DEF Rivals, Inv
<1> HIDE DEF rival
<1>3. tx'[w] = Done
  BY <1>1
<1>4. ASSUME NEW v \in Writers \ {w}
      PROVE  /\ tx[v].pc \notin {"lock", "climb"} => tx'[v] = tx[v]
             /\ tx[v].pc \in {"lock", "climb"} =>
                  /\ tx'[v] \in Tx
                  /\ tx'[v].pc = tx[v].pc /\ tx'[v].op = tx[v].op
                  /\ tx'[v].chain = tx[v].chain /\ tx'[v].at = tx[v].at
                  /\ tx'[v].kids = tx[v].kids /\ tx'[v].users = tx[v].users
                  /\ tx'[v].rivals = tx[v].rivals \cup {rival}
  <2>1. CASE tx[v].pc \notin {"lock", "climb"}
    BY <1>1, <2>1 DEF Busy
  <2>2. CASE tx[v].pc \in {"lock", "climb"}
    <3>1. tx[v] \in Tx /\ v \in Busy
      BY <2>2, Open DEF Inv
    <3>2. tx'[v] = [tx[v] EXCEPT !.rivals = tx[v].rivals \cup {rival}]
      BY <1>1, <3>1
    <3> QED
      BY <1>2, <3>1, <3>2 DEF Tx
  <2> QED
    BY <2>1, <2>2
<1>5. tx' \in [Writers -> Tx \cup {Idle, Done}]
  <2>1. ASSUME NEW v \in Writers PROVE tx'[v] \in Tx \cup {Idle, Done}
    <3>1. tx[v].pc \in {"lock", "climb"} \/ tx[v] \in {Idle, Done}
      BY DEF Inv, TypeOK, Tx
    <3>2. CASE v = w
      BY <1>3, <3>2
    <3>3. CASE v # w /\ tx[v].pc \in {"lock", "climb"}
      BY <1>4, <3>3
    <3>4. CASE v # w /\ tx[v].pc \notin {"lock", "climb"}
      BY <1>4, <3>1, <3>4
    <3> QED
      BY <3>2, <3>3, <3>4
  <2>2. tx' = [v \in Writers |-> tx'[v]]
    BY <1>1
  <2> QED
    BY <2>1, <2>2
<1>6. TypeOK'
  <2>1. tx[w].op \in Ops /\ TypeOK
    BY <1>1, Open DEF Inv
  <2>2. /\ live \subseteq Nodes /\ gone \subseteq Nodes /\ leaf \subseteq Nodes
        /\ pid \in [Nodes -> Parents] /\ home \in [Users -> Parents]
    BY <2>1 DEF TypeOK
  <2>3. \A n \in Nodes : n \in Parents
    BY DEF Parents
  <2> DEFINE o == tx[w].op
  <2>4. o \in Ops /\ Apply(o)
    BY <1>1, <2>1
  <2> HIDE DEF o
  <2>5. /\ live' \subseteq Nodes /\ gone' \subseteq Nodes /\ leaf' \subseteq Nodes
        /\ pid' \in [Nodes -> Parents] /\ home' \in [Users -> Parents]
    <3>1. CASE o.kind \in {"create", "update"}
      BY <2>1, <2>2, <2>4, <3>1, OpFields, Applied
    <3>2. CASE o.kind = "remove"
      BY <2>1, <2>2, <2>4, <3>2, OpFields, Applied
    <3>3. CASE o.kind = "assign"
      BY <2>1, <2>2, <2>3, <2>4, <3>3, OpFields, Applied
    <3> QED
      BY <2>4, <3>1, <3>2, <3>3, OpFields
  <2> QED
    BY <1>5, <2>5 DEF TypeOK
<1> QED
  BY <1>3, <1>4, <1>6 DEF rival

\* An open transaction keeps what it may rely on when another commits.
LEMMA CommitOther ==
    ASSUME Inv, NEW w \in Writers, Commit(w), NEW v \in Writers, v # w,
           tx[v].pc \in {"lock", "climb"}
    PROVE  TxFits(tx[v])'
<1> DEFINE t == tx[w]
           o == t.op
           x == tx[v]
           rival == [reads |-> Reads(t), writes |-> Writes(t)]
<1>1. /\ ChainFits(t) /\ OwnFits(t) /\ t.at = Root /\ t.pc = "climb"
  BY Committing DEF Commit
<1>2. o \in Ops /\ t.chain \subseteq Nodes /\ x.op \in Ops /\ x.chain \subseteq Nodes
  BY <1>1, Open DEF Inv
<1>3. Apply(o) /\ TypeOK
  BY DEF Commit, Inv
<1>4. ChainFits(x) /\ OwnFits(x) /\ BareFits(x)
  BY DEF Inv, TxFits
<1>5. /\ tx'[v].pc = x.pc /\ tx'[v].op = x.op
      /\ tx'[v].chain = x.chain /\ tx'[v].at = x.at
      /\ tx'[v].kids = x.kids /\ tx'[v].users = x.users
      /\ tx'[v].rivals = x.rivals \cup {rival}
  BY CommitTx
<1>6. /\ o.own \notin x.chain
      /\ x.pc = "climb" => o.own # x.op.own
  BY <1>1 DEF Inv, Apart
<1>7. rival.reads = Reads(t) /\ rival.writes = Writes(t)
  OBVIOUS
<1>8. o.to \in t.chain \cup {Root} /\ o.kind = "create" => o.own \notin live
  BY <1>1 DEF ChainFits, OwnFits
<1>9. /\ o.to # Root => <<"row", o.to>> \in Reads(t)
      /\ <<"row", o.own>> \in Writes(t)
      /\ o.kind # "assign" => <<"kids", o.to>> \in Writes(t)
      /\ o.kind = "assign" => <<"users", o.to>> \in Writes(t)
  <2>1. o.to \in t.chain \cup {Root}
    BY <1>1 DEF ChainFits
  <2> QED
    BY <2>1 DEF Reads, Writes, Rows
<1>10. /\ live' \subseteq live \cup {o.own} /\ live \subseteq live' \cup {o.own}
       /\ gone' \subseteq gone \cup {o.own} /\ leaf' \subseteq leaf \cup {o.own}
       /\ o.kind # "remove" => live \subseteq live'
       /\ pid' = pid \/ (o.kind \in {"create", "update"} /\ pid' = [pid EXCEPT ![o.own] = o.to])
       /\ home' = home \/ (o.kind = "assign" /\ home' = [home EXCEPT ![o.own] = o.to])
  <2>1. CASE o.kind \in {"create", "update"}
    BY <1>2, <1>3, <2>1, Applied
  <2>2. CASE o.kind = "remove"
    BY <1>2, <1>3, <2>2, Applied
  <2>3. CASE o.kind = "assign"
    BY <1>2, <1>3, <2>3, Applied
  <2> QED
    BY <1>2, <2>1, <2>2, <2>3, OpFields
<1>11. pid \in [Nodes -> Parents] /\ home \in [Users -> Parents] /\ live \subseteq Nodes
  BY <1>3 DEF TypeOK
<1>12. o.kind = "create" => o.own \in Nodes
  BY <1>2, OpFields
<1>13. o.kind = "create" => \A n \in live : pid[n] # o.own
  BY <1>1, HierarchyAssumption, <1>12 DEF OwnFits, Inv, ParentsCapable
<1> HIDE DEF t, o, x, rival
<1>14. ChainFits(tx[v])'
  BY <1>4, <1>5, <1>6, <1>10, <1>11 DEF ChainFits
<1>15. OwnFits(tx[v])'
  <2>1. CASE x.op.own = o.own /\ x.op.kind \in {"update", "remove"}
    <3>1. x.pc = "lock" /\ <<"row", x.op.own>> \in rival.writes
      BY <1>2, <1>6, <1>7, <1>9, <2>1, Open DEF Inv, x
    <3>2. Overwritten(tx[v], tx[v].op.own)'
      BY <1>5, <3>1 DEF Overwritten
    <3> QED
      BY <1>5, <2>1, <3>1, <3>2 DEF OwnFits
  <2>2. CASE x.op.own # o.own
    <3>1. Overwritten(x, x.op.own) => Overwritten(tx[v], tx[v].op.own)'
      BY <1>5 DEF Overwritten
    <3> QED
      BY <1>4, <1>5, <1>10, <2>2, <3>1 DEF OwnFits
  <2>3. CASE x.op.kind \notin {"create", "update", "remove"}
    BY <1>5, <2>3 DEF OwnFits
  <2>4. CASE x.op.own = o.own /\ x.op.kind = "create"
    BY <1>4, <1>6, <2>4 DEF OwnFits
  <2> QED
    BY <2>1, <2>2, <2>3, <2>4
<1>16. BareFits(tx[v])'
  <2>1. \A k \in {"kids", "users"} :
           PutUnder(x, k, x.op.own) => PutUnder(tx[v], k, tx[v].op.own)'
    BY <1>5 DEF PutUnder
  <2>2. ASSUME x.op.kind = "remove" \/ x.op.leaf, NEW c \in live', pid'[c] = x.op.own
        PROVE  x.kids \/ PutUnder(tx[v], "kids", tx[v].op.own)'
    <3>1. x.op.own \in Nodes /\ x.op.own # Root
      BY <1>2, <2>2, OpFields, HierarchyAssumption
    <3>2. CASE c \in live /\ pid[c] = x.op.own
      BY <1>4, <2>1, <2>2, <3>2 DEF BareFits
    <3>3. CASE ~(c \in live /\ pid[c] = x.op.own)
      <4>1. o.kind \in {"create", "update"} /\ c = o.own /\ pid' = [pid EXCEPT ![o.own] = o.to]
        BY <1>2, <1>3, <1>10, <1>11, <2>2, <3>3, OpFields, Applied
      <4>2. c \in Nodes
        BY <1>2, <4>1, OpFields
      <4>3. o.to = x.op.own
        BY <1>11, <2>2, <4>1, <4>2
      <4> QED
        BY <1>5, <1>7, <1>9, <3>1, <4>1, <4>3 DEF PutUnder
    <3> QED
      BY <3>2, <3>3
  <2>3. ASSUME x.op.kind = "remove", NEW u \in Users, home'[u] = x.op.own
        PROVE  x.users \/ PutUnder(tx[v], "users", tx[v].op.own)'
    <3>1. x.op.own \in Nodes /\ x.op.own # Root
      BY <1>2, <2>3, OpFields, HierarchyAssumption
    <3>2. CASE home[u] = x.op.own
      BY <1>4, <2>1, <2>3, <3>2 DEF BareFits
    <3>3. CASE home[u] # x.op.own
      <4>1. o.kind = "assign" /\ o.to = x.op.own
        BY <1>10, <1>11, <2>3, <3>3
      <4> QED
        BY <1>5, <1>7, <1>9, <3>1, <4>1 DEF PutUnder
    <3> QED
      BY <3>2, <3>3
  <2> QED
    BY <1>5, <2>2, <2>3 DEF BareFits
<1> QED
  BY <1>14, <1>15, <1>16 DEF TxFits

LEMMA CommitInv == ASSUME Inv, NEW w \in Writers, Commit(w) PROVE Inv'
<1>1. Acyclic' /\ ParentsCapable' /\ HomesLive'
  BY CommitTable
<1>2. /\ tx'[w] = Done /\ TypeOK'
      /\ \A v \in Writers \ {w} : tx[v].pc \notin {"lock", "climb"} => tx'[v] = tx[v]
      /\ \A v \in Writers \ {w} : tx[v].pc \in {"lock", "climb"} =>
           tx'[v].pc = tx[v].pc /\ tx'[v].op = tx[v].op /\ tx'[v].chain = tx[v].chain
  BY CommitTx
<1>3. ASSUME NEW v \in Writers PROVE TxFits(tx[v])'
  <2>1. CASE v = w
    BY <1>2, <2>1 DEF TxFits, Done
  <2>2. CASE v # w /\ tx[v].pc \in {"lock", "climb"}
    BY <2>2, CommitOther
  <2>3. CASE v # w /\ tx[v].pc \notin {"lock", "climb"}
    BY <1>2, <2>3 DEF TxFits
  <2> QED
    BY <2>1, <2>2, <2>3
<1>4. ASSUME NEW u \in Writers, NEW v \in Writers, u # v PROVE Apart(u, v)'
  <2>1. CASE u = w \/ v = w
    BY <1>2, <2>1 DEF Apart, Done
  <2>2. CASE u # w /\ v # w
    <3>1. Apart(u, v)
      BY <1>4 DEF Inv
    <3> QED
      BY <1>2, <2>2, <3>1 DEF Apart
  <2> QED
    BY <2>1, <2>2
<1> QED
  BY <1>1, <1>2, <1>3, <1>4 DEF Inv

-----------------------------------------------------------------------------
LEMMA InitInv == Init => Inv
<1> SUFFICES ASSUME Init PROVE Inv
  OBVIOUS
<1>1. /\ live \subseteq Nodes /\ gone = {} /\ leaf \subseteq live
      /\ pid \in [Nodes -> Parents] /\ home \in [Users -> live \cup {Root}]
      /\ \A n \in Nodes : pid[n] # Root => n \in live /\ pid[n] \in live \ leaf
      /\ Forest /\ tx = [w \in Writers |-> Idle]
  BY DEF Init
<1>2. TypeOK
  BY <1>1 DEF TypeOK, Parents
<1>3. ParentsCapable /\ HomesLive
  BY <1>1 DEF ParentsCapable, HomesLive
<1>4. \A w \in Writers : tx[w].pc = "idle"
  BY <1>1 DEF Idle
<1> QED
  BY <1>1, <1>2, <1>3, <1>4 DEF Inv, Acyclic, TxFits, Apart

LEMMA StepInv == Inv /\ [Next]_vars => Inv'
<1> SUFFICES ASSUME Inv, [Next]_vars PROVE Inv'
  OBVIOUS
<1>1. CASE UNCHANGED vars
  <2>1. TypeOK'
    BY <1>1 DEF vars, Inv, TypeOK
  <2>2. Acyclic' /\ ParentsCapable' /\ HomesLive'
    BY <1>1 DEF vars, Inv, Acyclic, Forest, ParentsCapable, HomesLive
  <2>3. ASSUME NEW w \in Writers PROVE TxFits(tx[w])'
    <3>1. TxFits(tx[w]) /\ tx'[w] = tx[w]
      BY <1>1 DEF vars, Inv
    <3> QED BY <1>1, <3>1 DEF vars, TxFits, ChainFits, OwnFits, BareFits, PutUnder, Overwritten
  <2>4. \A v, w \in Writers : v # w => Apart(v, w)'
    BY <1>1 DEF vars, Inv, Apart
  <2> QED BY <2>1, <2>2, <2>3, <2>4 DEF Inv
<1>2. CASE Next
  <2>1. PICK w \in Writers : Step(w)
    BY <1>2 DEF Next
  <2>2. CASE \E o \in Ops : Begin(w, o)
    BY <2>2, BeginInv
  <2>3. CASE LockRow(w)
    BY <2>3, LockRowInv
  <2>4. CASE ReadParent(w)
    BY <2>4, ReadParentInv
  <2>5. CASE Commit(w)
    BY <2>5, CommitInv
  <2>6. CASE Rollback(w)
    BY <2>6, RollbackInv
  <2> QED
    BY <2>1, <2>2, <2>3, <2>4, <2>5, <2>6 DEF Step
<1> QED
  BY <1>1, <1>2

LEMMA Invariance == Spec => []Inv
  BY InitInv, StepInv, PTL DEF Spec

\* Every variable stays in its type, however many transactions overlap.
THEOREM TypeCorrect == Spec => []TypeOK
<1>1. Inv => TypeOK
  BY DEF Inv
<1> QED
  BY Invariance, <1>1, PTL

\* No sequence of overlapping moves makes a row its own ancestor: each climb of
\* validateParentChain locks the way to the root it relies on.
THEOREM TreesAcyclic == Spec => []Acyclic
<1>1. Inv => Acyclic
  BY DEF Inv
<1> QED
  BY Invariance, <1>1, PTL

\* A parent exists and takes children: of a write that puts a row under another and
\* one that removes it, or makes it a leaf, SERIALIZABLE lets only one commit.
THEOREM ParentsStayCapable == Spec => []ParentsCapable
<1>1. Inv => ParentsCapable
  BY DEF Inv
<1> QED
  BY Invariance, <1>1, PTL

\* No user belongs to a department that was removed.
THEOREM HomesStayLive == Spec => []HomesLive
<1>1. Inv => HomesLive
  BY DEF Inv
<1> QED
  BY Invariance, <1>1, PTL

-----------------------------------------------------------------------------
(* Every step is a step of TreeView, or leaves its table alone.            *)

\* A table that writes have left is one that TreeView begins with.
LEMMA TreeInit == Init => Tree!Init
<1> SUFFICES ASSUME Init PROVE Tree!Init
  OBVIOUS
<1>1. live \in SUBSET Nodes /\ gone = {} /\ leaf \in SUBSET live /\ home \in [Users -> live \cup {Root}]
  BY DEF Init
<1>2. pid \in [Nodes -> Tree!Parents] /\ \A n \in live : pid[n] # Root => pid[n] \in Tree!Branches
  BY DEF Init, Parents, Tree!Parents, Tree!Branches
<1>3. \A S \in SUBSET live : S # {} => \E n \in S : pid[n] \notin S
  BY DEF Init, Forest
<1> QED BY <1>1, <1>2, <1>3 DEF Tree!Init

\* What a commit has checked holds of the table it changes: it is one write of a table
\* that nobody else is writing.
LEMMA CommitTree ==
    ASSUME Inv, NEW w \in Writers, Commit(w)
    PROVE  Tree!Next
<1> DEFINE t == tx[w]
           o == t.op
<1>1. /\ ChainFits(t) /\ OwnFits(t) /\ t.at = Root /\ t.pc = "climb"
      /\ o.kind = "remove" \/ o.leaf => \A c \in live : pid[c] # o.own
      /\ o.kind = "remove" => \A u \in Users : home[u] # o.own
  BY Committing DEF Commit
<1>2. o \in Ops /\ TypeOK /\ Apply(o)
  BY <1>1, Open DEF Inv, Commit
<1>3. /\ t.chain \subseteq live \ leaf /\ o.own \notin t.chain /\ o.to \in t.chain \cup {Root}
      /\ o.kind # "assign" => \A x \in t.chain : pid[x] \in t.chain \cup {Root}
  BY <1>1 DEF ChainFits
<1>4. /\ o.kind = "create" => o.own \notin live \cup gone
      /\ o.kind \in {"update", "remove"} => o.own \in live
  BY <1>1 DEF OwnFits
<1> HIDE DEF t, o
<1>5. CASE o.kind \in {"create", "update"}
  <2>1. /\ o.own \in Nodes /\ o.to \in Tree!Parents
        /\ pid' = [pid EXCEPT ![o.own] = o.to] /\ home' = home /\ gone' = gone
        /\ live' = IF o.kind = "create" THEN live \cup {o.own} ELSE live
        /\ leaf' = IF o.leaf THEN leaf \cup {o.own} ELSE leaf \ {o.own}
    BY <1>2, <1>5, OpFields, Applied DEF Parents, Tree!Parents
  <2>2. Tree!Clear(o.to, o.own)
    <3>1. t.chain \in SUBSET (Tree!Branches \ {o.own})
      BY <1>3 DEF Tree!Branches
    <3>2. o.to \in t.chain \cup {Root} /\ \A m \in t.chain : pid[m] \in t.chain \cup {Root}
      BY <1>3, <1>5
    <3> QED BY <3>1, <3>2 DEF Tree!Clear
  <2>3. o.leaf => Tree!Childless(o.own)
    BY <1>1 DEF o, Tree!Childless
  <2>4. Tree!Under(o.own, o.to)
    BY <2>1, <2>2, <2>3 DEF Tree!Under
  <2>5. Tree!Add(o.own, o.to) \/ Tree!Move(o.own, o.to)
    BY <1>4, <1>5, <2>1, <2>4 DEF Tree!Add, Tree!Move
  <2> QED BY <2>1, <2>5 DEF Tree!Next
<1>6. CASE o.kind = "remove"
  <2>1. /\ o.own \in Nodes /\ pid' = pid /\ home' = home /\ live' = live \ {o.own}
        /\ gone' = gone \cup {o.own} /\ leaf' = leaf \ {o.own}
    BY <1>2, <1>6, OpFields, Applied
  <2>2. Tree!Childless(o.own) /\ \A u \in Users : home[u] # o.own
    BY <1>1, <1>6 DEF o, Tree!Childless
  <2>3. Tree!Remove(o.own)
    BY <1>4, <1>6, <2>1, <2>2 DEF Tree!Remove
  <2> QED BY <2>1, <2>3 DEF Tree!Next
<1>7. CASE o.kind = "assign"
  <2>1. /\ o.own \in Users /\ o.to \in Nodes /\ pid' = pid /\ live' = live /\ gone' = gone
        /\ home' = [home EXCEPT ![o.own] = o.to] /\ leaf' = leaf \ {o.own}
    BY <1>2, <1>7, OpFields, Applied
  <2>2. leaf' = leaf
    BY <1>2, <2>1, HierarchyAssumption DEF TypeOK
  <2>3. o.to \in Tree!Branches
    BY <1>3, <2>1, HierarchyAssumption DEF Tree!Branches
  <2>4. Tree!Assign(o.own, o.to)
    BY <2>1, <2>2, <2>3 DEF Tree!Assign
  <2> QED BY <2>1, <2>4 DEF Tree!Next
<1> QED BY <1>2, <1>5, <1>6, <1>7, OpFields

\* However many writes overlap, and whatever they have read before, the table changes
\* as if they came one after the other (runSerializableWrite).
THEOREM Implements == Spec => ImplementsTree
<1>1. Inv /\ [Next]_vars => [Tree!Next]_<<live, gone, leaf, pid, home>>
  <2> SUFFICES ASSUME Inv, Next PROVE Tree!Next \/ UNCHANGED table
    BY DEF vars, table
  <2>1. PICK w \in Writers : Step(w)
    BY DEF Next
  <2>2. CASE Commit(w)
    BY <2>2, CommitTree
  <2>3. CASE ~Commit(w)
    BY <2>1, <2>3 DEF Step, Begin, LockRow, ReadParent, Rollback
  <2> QED BY <2>2, <2>3
<1> QED BY <1>1, TreeInit, Invariance, PTL DEF Spec, ImplementsTree, Tree!Spec

-----------------------------------------------------------------------------
(* The columns of sys_menu (module Menus).                                 *)

\* A row as the writes leave it: it has a type's columns and keys and no others, and
\* an edit that submits nothing finds it well formed.
RowFits(r) ==
    /\ r = [f \in Columns \cup {"meta"} |-> r[f]]
    /\ r.meta = [k \in MetaKeys |-> r.meta[k]]
    /\ r.type \in Types /\ r.status \in 0..1 /\ r.name \in Names
    /\ \A f \in Clears[r.type] : r[f] = None
    /\ \A k \in Drops[r.type] : r.meta[k] = None
    /\ WellFormed(<<>>, r)

\* What the columns of a unique index hold is not in two rows, unless it is null.
Unique == {"name", "path", "authCode"}

MenusInv ==
    /\ menus \subseteq Ids
    /\ \A i \in menus : RowFits(rows[i])
    /\ \A i, j \in menus, f \in Unique :
           i # j => rows[i][f] = None \/ rows[j][f] # rows[i][f]

\* What a type needs is never among what it clears.
LEMMA NeedsStay ==
    \A t \in Types : /\ Needs[t] \cap Clears[t] = {}
                     /\ Needs[t] \subseteq Columns
                     /\ Clears[t] \subseteq Columns \ {"type", "status", "name", "pid"}
                     /\ Drops[t] \subseteq MetaKeys \ {"order"}
BY DEF Types, Needs, Clears, Columns, Drops, MetaKeys

\* What buildMenuWriteState makes of a body it accepts.
LEMMA BuildFits ==
    ASSUME NEW dto, BodyFits(dto), NEW cur,
           {"name", "type", "status"} \subseteq DOMAIN dto \/ RowFits(cur),
           WellFormed(dto, Draft(dto, cur))
    PROVE  RowFits(Build(dto, cur))
<1> DEFINE d == Draft(dto, cur)
           r == Build(dto, cur)
           cols == Columns \cup {"meta"}
<1>1. /\ d = [f \in cols |-> d[f]]
      /\ d.type = Submitted(dto, cur, "type") /\ d.name = Submitted(dto, cur, "name")
      /\ d.status = Submitted(dto, cur, "status") /\ d.meta = NormalMeta(dto, cur, d.type)
  BY DEF Draft, Columns
<1>2. d.type \in Types /\ d.status \in 0..1 /\ d.name \in Names
  <2>1. d.name \in Names \cup {None, Bad}
    BY <1>1 DEF Submitted, BodyFits, RowFits
  <2>2. d.name # None /\ d.name # Bad
    BY DEF WellFormed, Columns
  <2> QED BY <1>1, <2>1, <2>2 DEF Submitted, BodyFits, RowFits
<1>3. d.meta = [k \in MetaKeys |-> d.meta[k]] /\ \A k \in Drops[d.type] : d.meta[k] = None
  BY <1>1, <1>2, NeedsStay DEF NormalMeta
<1>4. WellFormed(dto, d)
  OBVIOUS
<1> HIDE DEF d
<1>5. r = [f \in cols |-> IF f \in Clears[d.type] THEN None ELSE d[f]]
  BY <1>1 DEF Build, d
<1> HIDE DEF r
<1>6. r.type = d.type /\ r.name = d.name /\ r.status = d.status /\ r.meta = d.meta
  BY <1>2, <1>5, NeedsStay DEF Columns
<1>7. WellFormed(<<>>, r)
  <2>1. \A f \in Columns \ {"type"} : r[f] # Bad
    BY <1>4, <1>5 DEF WellFormed, Bad, None
  <2>2. \A f \in Needs[d.type] : r[f] # None
    BY <1>2, <1>4, <1>5, NeedsStay DEF WellFormed
  <2> QED BY <1>4, <1>6, <2>1, <2>2 DEF WellFormed
<1>8. \A f \in Clears[d.type] : r[f] = None
  BY <1>2, <1>5, NeedsStay
<1> QED BY <1>2, <1>3, <1>5, <1>6, <1>7, <1>8 DEF RowFits, r

\* An edit that submits nothing leaves such a row as it is.
LEMMA Unchanged == ASSUME NEW r, RowFits(r) PROVE Build(<<>>, r) = r
<1> DEFINE d == Draft(<<>>, r)
<1>1. NormalMeta(<<>>, r, r.type) = r.meta
  <2>1. \A k \in MetaKeys : Merged(<<>>, r)[k] = r.meta[k]
    BY DEF Merged, Submitted
  <2>2. NormalMeta(<<>>, r, r.type) = [k \in MetaKeys |-> r.meta[k]]
    <3>1. r.type \in Types /\ \A k \in Drops[r.type] : r.meta[k] = None
      BY DEF RowFits
    <3>2. \A k \in MetaKeys : NormalMeta(<<>>, r, r.type)[k] = r.meta[k]
      BY <2>1, <3>1 DEF NormalMeta
    <3> QED BY <3>2 DEF NormalMeta
  <2> QED BY <2>2 DEF RowFits
<1>2. d = r
  BY <1>1 DEF Draft, Submitted, RowFits
<1> QED BY <1>2 DEF Build, RowFits

\* A row that is valid beside the others differs from each of them where it has to.
LEMMA ValidUnique ==
    ASSUME NEW i, NEW row, Valid(i, row), NEW j \in menus \ {i}, NEW f \in Unique
    PROVE  row[f] = None \/ rows[j][f] # row[f]
BY DEF Valid, Others, Unique

\* Nor is there anything in a row of the first tables that its type has no use for.
LEMMA PlainFits ==
    ASSUME NEW i \in Ids, NEW p \in Ids \cup {None}, NEW o \in 0..1, NEW s \in 0..1
    PROVE  LET r == Plain(i, p, o, s)
           IN  RowFits(r) /\ r.name = i /\ r.path = i /\ r.authCode = None
<1> DEFINE r == Plain(i, p, o, s)
<1>1. /\ r.type = "menu" /\ r.status = s /\ r.name = i /\ r.pid = p /\ r.path = i /\ r.authCode = None
      /\ r.component = 1 /\ r.redirect = None
      /\ r.meta = [k \in MetaKeys |-> IF k = "order" THEN o ELSE None]
  BY DEF Plain
<1>2. r = [f \in Columns \cup {"meta"} |-> r[f]]
  BY DEF Plain, Columns
<1> HIDE DEF r
<1>3. i \in Nat \ {0} /\ i \in Names /\ p \in Nat
  BY MenusAssumption DEF None
<1>4. WellFormed(<<>>, r)
  <2>1. \A f \in Columns \ {"type"} : r[f] # Bad
    BY <1>1, <1>3 DEF Columns, Bad, None
  <2>2. \A k \in MetaKeys : r.meta[k] # Bad
    BY <1>1 DEF Bad, None
  <2> QED BY <1>1, <1>3, <2>1, <2>2 DEF WellFormed, Needs, None
<1>5. Clears["menu"] = {} /\ Drops["menu"] = {"iframeSrc", "link"} /\ "menu" \in Types
  BY DEF Clears, Drops, Types
<1>6. \A k \in {"iframeSrc", "link"} : r.meta[k] = None
  BY <1>1 DEF MetaKeys
<1> QED BY <1>1, <1>2, <1>3, <1>5, <1>4, <1>6 DEF RowFits, r

\* The first tables satisfy it, the damaged ones too: only their parents are damaged.
LEMMA MenusInvInit == MenusInit => MenusInv
<1> SUFFICES ASSUME MenusInit PROVE MenusInv
  OBVIOUS
<1>1. CASE rows = <<>>
  BY <1>1 DEF MenusInv, menus
<1>2. CASE \E S \in SUBSET Ids : \E pids \in [S -> Ids \cup {None}], orders \in [S -> 0..1],
               statuses \in [S -> 0..1] : rows = Table(pids, orders, statuses)
  <2> PICK S \in SUBSET Ids : \E pids \in [S -> Ids \cup {None}], orders \in [S -> 0..1],
               statuses \in [S -> 0..1] : rows = Table(pids, orders, statuses)
    BY <1>2
  <2> PICK pids \in [S -> Ids \cup {None}], orders \in [S -> 0..1], statuses \in [S -> 0..1] :
               rows = Table(pids, orders, statuses)
    OBVIOUS
  <2>1. /\ menus = S
        /\ \A i \in S : rows[i] = Plain(i, pids[i], orders[i], statuses[i])
    BY DEF Table, menus
  <2>2. ASSUME NEW i \in S
        PROVE  RowFits(rows[i]) /\ rows[i].name = i /\ rows[i].path = i /\ rows[i].authCode = None
    <3>1. i \in Ids /\ pids[i] \in Ids \cup {None} /\ orders[i] \in 0..1 /\ statuses[i] \in 0..1
      BY <2>2
    <3> QED BY <2>1, <2>2, <3>1, PlainFits
  <2>3. \A i, j \in S, f \in Unique : i # j => rows[i][f] = None \/ rows[j][f] # rows[i][f]
    BY <2>2 DEF Unique
  <2>4. \A i \in menus : RowFits(rows[i])
    BY <2>1, <2>2
  <2> QED BY <2>1, <2>3, <2>4 DEF MenusInv
<1> QED BY <1>1, <1>2 DEF MenusInit

\* A write preserves it: what it stores fits, and is compared with the other rows.
LEMMA MenusInvNext == MenusInv /\ MenusNext => MenusInv'
<1> SUFFICES ASSUME MenusInv, MenusNext PROVE MenusInv'
  OBVIOUS
\* A row is put where there was none or another.
<1>a. ASSUME NEW i \in Ids, NEW row, RowFits(row), Valid(i, row),
             DOMAIN rows' = menus \cup {i}, rows'[i] = row, \A j \in menus \ {i} : rows'[j] = rows[j]
      PROVE  MenusInv'
  <2>1. \A j \in menus \ {i}, f \in Unique :
            /\ row[f] = None \/ rows[j][f] # row[f]
            /\ rows[j][f] = None \/ row[f] # rows[j][f]
    BY <1>a, ValidUnique
  <2>2. menus' = menus \cup {i}
    BY <1>a DEF menus
  <2>3. \A j \in menus' : RowFits(rows'[j])
    BY <1>a, <2>2 DEF MenusInv
  <2>4. \A j, k \in menus', f \in Unique : j # k => rows'[j][f] = None \/ rows'[k][f] # rows'[j][f]
    BY <1>a, <2>1, <2>2 DEF MenusInv
  <2>5. menus' \subseteq Ids
    BY <2>2 DEF MenusInv
  <2> QED BY <2>3, <2>4, <2>5 DEF MenusInv, RowFits
<1>1. ASSUME NEW i \in Ids, NEW dto \in Creates, Create(i, dto) PROVE MenusInv'
  <2>1. RowFits(Build(dto, Blank))
    BY <1>1, BuildFits, MenusAssumption DEF Create
  <2> QED BY <1>a, <1>1, <2>1 DEF Create, menus
<1>2. ASSUME NEW i \in menus, NEW dto \in Patches, Update(i, dto) PROVE MenusInv'
  <2>1. RowFits(Build(dto, rows[i]))
    BY <1>2, BuildFits, MenusAssumption DEF Update, MenusInv
  <2>2. i \in Ids /\ Valid(i, Build(dto, rows[i]))
    BY <1>2 DEF Update, MenusInv
  <2>3. rows' = [rows EXCEPT ![i] = Build(dto, rows[i])]
    BY <1>2 DEF Update
  <2>4. DOMAIN rows' = menus \cup {i} /\ rows'[i] = Build(dto, rows[i])
    BY <2>3 DEF menus
  <2>5. \A j \in menus \ {i} : rows'[j] = rows[j]
    BY <2>3 DEF menus
  <2> QED BY <1>a, <2>1, <2>2, <2>4, <2>5
<1>3. ASSUME NEW i \in menus, Delete(i) PROVE MenusInv'
  <2>1. menus' = menus \ {i} /\ \A j \in menus' : rows'[j] = rows[j]
    BY <1>3 DEF Delete, menus
  <2>2. menus' \subseteq Ids /\ \A j \in menus' : RowFits(rows'[j])
    BY <2>1 DEF MenusInv
  <2>3. \A j, k \in menus', f \in Unique : j # k => rows'[j][f] = None \/ rows'[k][f] # rows'[j][f]
    BY <2>1 DEF MenusInv
  <2> QED BY <2>2, <2>3 DEF MenusInv, RowFits
<1> QED BY <1>1, <1>2, <1>3 DEF MenusNext

\* So it holds in every reachable state.
LEMMA MenusInvHolds == MenusSpec => []MenusInv
<1>1. ASSUME MenusInv, UNCHANGED rows PROVE MenusInv'
  <2>1. menus' = menus /\ \A i \in menus : rows'[i] = rows[i]
    BY <1>1 DEF menus
  <2>2. menus' \subseteq Ids /\ \A i \in menus' : RowFits(rows'[i])
    BY <1>1, <2>1 DEF MenusInv
  <2>3. \A j, k \in menus', f \in Unique : j # k => rows'[j][f] = None \/ rows'[k][f] # rows'[j][f]
    BY <1>1, <2>1 DEF MenusInv
  <2> QED BY <2>2, <2>3 DEF MenusInv, RowFits
<1> QED BY <1>1, MenusInvInit, MenusInvNext, PTL DEF MenusSpec

\* What is cleared and what is needed, type by type.
LEMMA FitsItsType == ASSUME NEW r, RowFits(r) PROVE FitsType(r)
<1> r.type \in Types
  BY DEF RowFits
<1>1. /\ \A f \in {"pid", "path", "authCode", "component", "redirect"} : f \in Has(r) <=> r[f] # None
      /\ Has(r) \subseteq {"pid", "path", "authCode", "component", "redirect"}
  BY DEF Has, Columns
<1>2. /\ \A k \in {"activePath", "iframeSrc", "link"} : k \in HasMeta(r) <=> r.meta[k] # None
      /\ HasMeta(r) \subseteq {"activePath", "iframeSrc", "link"}
  BY DEF HasMeta, MetaKeys
<1>3. /\ \A f \in Clears[r.type] : r[f] = None
      /\ \A f \in Needs[r.type] : r[f] # None
      /\ \A k \in Drops[r.type] : r.meta[k] = None
      /\ r.type = "embedded" => r.meta.iframeSrc # None
      /\ r.type = "link" => r.meta.link # None
  BY DEF RowFits, WellFormed
<1>4. CASE r.type = "catalog"
  <2>1. "path" \in Has(r) /\ HasMeta(r) = {}
    BY <1>1, <1>2, <1>3, <1>4 DEF Needs, Drops
  <2> QED BY <1>4, <2>1 DEF FitsType
<1>5. CASE r.type = "menu"
  <2>1. {"path", "component"} \subseteq Has(r) /\ HasMeta(r) \subseteq {"activePath"}
    BY <1>1, <1>2, <1>3, <1>5 DEF Needs, Drops
  <2> QED BY <1>5, <2>1 DEF FitsType
<1>6. CASE r.type = "embedded"
  <2>1. "path" \in Has(r) /\ "redirect" \notin Has(r)
    BY <1>1, <1>3, <1>6 DEF Needs, Clears
  <2>2. "iframeSrc" \in HasMeta(r) /\ "link" \notin HasMeta(r)
    BY <1>2, <1>3, <1>6 DEF Drops
  <2> QED BY <1>6, <2>1, <2>2 DEF FitsType
<1>7. CASE r.type = "link"
  <2>1. Has(r) \cap {"authCode", "redirect"} = {} /\ HasMeta(r) = {"link"}
    BY <1>1, <1>2, <1>3, <1>7 DEF Clears, Drops
  <2> QED BY <1>7, <2>1 DEF FitsType
<1>8. CASE r.type = "button"
  <2>1. Has(r) = {"pid", "authCode"} /\ HasMeta(r) = {}
    BY <1>1, <1>2, <1>3, <1>8 DEF Needs, Clears, Drops
  <2> QED BY <1>8, <2>1 DEF FitsType
<1> QED BY <1>4, <1>5, <1>6, <1>7, <1>8 DEF Types

\* The first row met on the way up.
LEMMA ClimbsFrom ==
    ASSUME NEW at, NEW visited, Climbs(at, visited)
    PROVE  at = None \/ MayClimb(at, visited)
BY DEF Climbs

\* Through whatever changes of type a row has what its type needs, and nothing else: an
\* address only where one is opened, no route for a button, no permission for a link
\* (buildMenuWriteState, normalizeMeta).
THEOREM RowsFit == MenusSpec => []RowsFitType
<1>1. MenusInv => RowsFitType
  BY FitsItsType DEF MenusInv, RowsFitType, RowFits
<1> QED BY <1>1, MenusInvHolds, PTL

\* An edit that submits nothing changes nothing and is refused only for the row's
\* activePath, if no other row has that path by now (updateMenu, validateWriteState).
THEOREM EditsStay == MenusSpec => []EditsStayPossible
<1>1. MenusInv => EditsStayPossible
  <2> SUFFICES ASSUME MenusInv, Intact, NEW i \in menus
               PROVE  /\ Build(<<>>, rows[i]) = rows[i]
                      /\ WellFormed(<<>>, rows[i]) /\ LeafAllowed(i, rows[i].type)
                      /\ ~Dangling(i) => Valid(i, rows[i])
    BY DEF EditsStayPossible
  <2>1. RowFits(rows[i])
    BY DEF MenusInv
  <2>2. Build(<<>>, rows[i]) = rows[i] /\ WellFormed(<<>>, rows[i])
    BY <2>1, Unchanged DEF RowFits
  <2>3. LeafAllowed(i, rows[i].type)
    <3> SUFFICES ASSUME NEW j \in menus, rows[j].pid = i PROVE ParentCapable(rows[i].type)
      BY DEF LeafAllowed, Children
    <3>1. Climbs(i, {j}) /\ i # None
      BY MenusAssumption DEF Intact, MenusInv
    <3> QED BY <3>1, ClimbsFrom DEF MayClimb
  <2>4. ASSUME ~Dangling(i) PROVE Valid(i, rows[i])
    <3>1. Climbs(rows[i].pid, {i} \cap menus)
      <4>1. {i} \cap menus = {i}
        OBVIOUS
      <4> QED BY <4>1 DEF Intact
    <3>2. \A j \in Others(i), f \in Unique : rows[i][f] = None \/ rows[j][f] # rows[i][f]
      BY DEF MenusInv, Others
    <3>3. rows[i].meta.activePath # None => \E j \in Others(i) : rows[j].path = rows[i].meta.activePath
      BY <2>4 DEF Dangling, Others
    <3> QED BY <3>1, <3>2, <3>3 DEF Valid, Unique
  <2> QED BY <2>2, <2>3, <2>4
<1> QED BY <1>1, MenusInvHolds, PTL

\* While parents are intact, every row above another has a route, because only a catalog
\* or a menu takes children and both keep their path: so buildDynamicRoutes, which hangs a
\* route under its parent's, has none whose parent got no route.
THEOREM ParentsRouted ==
    MenusSpec => [](Intact => \A i \in menus : rows[i].pid # None => HasRoute(rows[i].pid))
<1> DEFINE Routed == Intact => \A i \in menus : rows[i].pid # None => HasRoute(rows[i].pid)
<1>1. MenusInv => Routed
  <2> SUFFICES ASSUME MenusInv, Intact, NEW i \in menus, rows[i].pid # None
               PROVE  HasRoute(rows[i].pid)
    OBVIOUS
  <2> DEFINE up == rows[i].pid
  <2>1. up \in menus /\ rows[up].type \in {"catalog", "menu"}
    <3>1. Climbs(up, {i}) /\ up # None
      BY DEF Intact
    <3> QED BY <3>1, ClimbsFrom DEF MayClimb, ParentCapable
  <2>2. \A f \in Needs[rows[up].type] : rows[up][f] # None
    BY <2>1 DEF MenusInv, RowFits, WellFormed
  <2>3. "path" \in Needs[rows[up].type]
    BY <2>1 DEF Needs
  <2> QED BY <2>1, <2>2, <2>3 DEF HasRoute
<1> QED BY <1>1, MenusInvHolds, PTL

=============================================================================
