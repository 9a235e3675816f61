------------------------- MODULE StoreSessionProofs -------------------------
(***************************************************************************)
(* TLAPS proofs about StoreSession, for any number of cycles, faults and   *)
(* kills and any contents of objects.                                      *)
(*                                                                         *)
(* Rows are traced to the transaction that writes them (Rows).  What the   *)
(* disk promises of a transaction, the connection promises too, except of  *)
(* the one that is open (Whole): that is why committing whatever a failed  *)
(* commit left pending is harmless to the others.                          *)
(***************************************************************************)
EXTENDS StoreSession, TLAPS

USE StoreAssumption

\* The rows a transaction may write.
Rows(t) ==
    LET c == t[2]
    IN  CASE t[1] = "propose" -> {<<"artifact", c, c>>, <<"operation", c, c>>}
          [] t[1] = "failure" -> {<<"failure", c, c>>}
          [] t[1] = "commit"  -> {<<"decision", c, c>>, <<"accepted", c, c>>, <<"rejected", c, c>>}
                                 \cup {<<"superseded", old, c>> : old \in Cycles}

AllRows == UNION {Rows(t) : t \in Tx}

\* How a transaction may stand.
Ends == {"none", "open", "returned", "raised", "killed", "unsure"}

Types ==
    /\ tx \in [Tx -> Ends] /\ writes \in [Tx -> SUBSET AllRows]
    /\ todo \in Seq(AllRows)
    /\ cycle \in 0 .. MaxCycles /\ (stage # "idle" => cycle \in Cycles)
    /\ stage \in Stages \cup {"idle", "put", "putting"}
    /\ content \in [Cycles -> Contents] /\ files \in [Contents -> {"absent", "torn", "intact"}]

\* Only the current transaction is open, and it is the outermost.
OpenIsCurrent ==
    \A t \in Tx : tx[t] = "open" => stage \in Stages /\ t = Current /\ depth = 1

\* A transaction writes rows of its own, from when it begins.
Traced == \A t \in Tx : writes[t] \subseteq Rows(t) /\ (tx[t] = "none" <=> writes[t] = {})

\* What rows may hold of a transaction that is not open: all or nothing.
Whole(rows) ==
    \A t \in Tx :
        /\ tx[t] # "open" => writes[t] \subseteq rows \/ writes[t] \cap rows = {}
        /\ tx[t] = "returned" => writes[t] \subseteq rows
        /\ tx[t] \in {"raised", "killed"} => writes[t] \cap rows = {}

\* Every row was written by some transaction.
Written(rows) == \A r \in rows : \E t \in Tx : r \in writes[t]

\* The open transaction: its rows are on the connection or still to be
\* written, and none is on disk.
Progress ==
    \A t \in Tx : tx[t] = "open" =>
        /\ writes[t] \cap disk = {}
        /\ Range(todo) \subseteq writes[t] /\ writes[t] \subseteq conn \cup Range(todo)

\* Both views of the database.
Views == disk \subseteq conn /\ Whole(disk) /\ Whole(conn) /\ Written(conn)

\* The object of a cycle can be read, or its rewriting was interrupted.
ObjectOK(c) ==
    \/ files[content[c]] = "intact"
    \/ files[content[c]] = "torn" /\ content[c] \in broken

\* It can before the artifact is proposed, and as long as a row names it.
ObjectsFirst ==
    /\ stage = "propose" => ObjectOK(cycle)
    /\ \A c \in Cycles : <<"artifact", c, c>> \in conn => ObjectOK(c)

\* Accepted for good, or by a commit that raised.
Stands(c) == <<"accepted", c, c>> \in disk \/ tx[<<"commit", c>>] = "unsure"

\* What the records and the exports name stands.
NamedStand == record \subseteq Cycles /\ exported \subseteq Cycles
              /\ \A c \in record \cup exported : Stands(c)

DbInv == OpenIsCurrent /\ Traced /\ Views /\ Progress

IInv == Types /\ DbInv /\ ObjectsFirst /\ NamedStand

-----------------------------------------------------------------------------
(* Rows and statements *)

\* A row tells its transaction.
LEMMA RowsDisjoint ==
    ASSUME NEW t \in Tx, NEW u \in Tx, NEW r, r \in Rows(t), r \in Rows(u)
    PROVE  t = u
<1>1. PICK s \in Stages, c \in Cycles : t = <<s, c>>
  BY DEF Tx
<1>2. PICK z \in Stages, d \in Cycles : u = <<z, d>>
  BY DEF Tx
<1>3. r[3] = c /\ r[3] = d
  BY <1>1, <1>2 DEF Rows, Stages
<1>4. s = z
  BY <1>1, <1>2 DEF Rows, Stages
<1> QED
  BY <1>1, <1>2, <1>3, <1>4

\* The statements of a plan are rows of the current transaction.
LEMMA PlansAreRows ==
    ASSUME stage \in Stages, cycle \in Cycles, NEW plan \in Plans(stage)
    PROVE  plan \in Seq(AllRows) /\ Range(plan) \subseteq Rows(Current) /\ Range(plan) # {}
<1>1. Current \in Tx /\ Current[1] = stage /\ Current[2] = cycle
  BY DEF Current, Tx
<1>2. Rows(Current) \subseteq AllRows
  BY <1>1 DEF AllRows
<1>3. CASE stage = "propose"
  <2>1. plan = <<<<"artifact", cycle, cycle>>, <<"operation", cycle, cycle>>>>
    BY <1>3 DEF Plans
  <2> QED
    BY <1>1, <1>2, <1>3, <2>1 DEF Rows, Range
<1>4. CASE stage = "failure"
  <2>1. plan = <<<<"failure", cycle, cycle>>>>
    BY <1>4 DEF Plans
  <2> QED
    BY <1>1, <1>2, <1>4, <2>1 DEF Rows, Range
<1>5. CASE stage = "commit"
  <2> DEFINE own(table) == <<table, cycle, cycle>>
  <2>1. \/ plan = <<own("decision"), own("rejected")>>
        \/ plan = <<own("decision"), own("accepted")>>
        \/ \E old \in Cycles : plan = <<own("decision"), own("accepted"), <<"superseded", old, cycle>>>>
    BY <1>5 DEF Plans, AcceptedIn
  <2>2. /\ own("decision") \in Rows(Current) /\ own("accepted") \in Rows(Current)
        /\ own("rejected") \in Rows(Current)
        /\ \A old \in Cycles : <<"superseded", old, cycle>> \in Rows(Current)
    BY <1>1, <1>5 DEF Rows
  <2> HIDE DEF own
  <2>3. CASE plan = <<own("decision"), own("rejected")>>
    BY <1>2, <2>2, <2>3 DEF Range
  <2>4. CASE plan = <<own("decision"), own("accepted")>>
    BY <1>2, <2>2, <2>4 DEF Range
  <2>5. ASSUME NEW old \in Cycles,
               plan = <<own("decision"), own("accepted"), <<"superseded", old, cycle>>>>
        PROVE  plan \in Seq(AllRows) /\ Range(plan) \subseteq Rows(Current) /\ Range(plan) # {}
    <3> DEFINE gone == <<"superseded", old, cycle>>
    <3>1. gone \in Rows(Current)
      BY <2>2
    <3> HIDE DEF gone
    <3>2. plan = <<own("decision"), own("accepted"), gone>>
      BY <2>5 DEF gone
    <3> QED
      BY <1>2, <2>2, <3>1, <3>2 DEF Range
  <2> QED
    BY <2>1, <2>3, <2>4, <2>5
<1> QED
  BY <1>3, <1>4, <1>5 DEF Stages

\* Making one statement.
LEMMA RangeOfTail ==
    ASSUME NEW S, NEW s \in Seq(S), s # << >>
    PROVE  /\ Head(s) \in S /\ Tail(s) \in Seq(S)
           /\ Range(s) = {Head(s)} \cup Range(Tail(s))
<1>1. /\ Len(s) \in Nat \ {0} /\ DOMAIN s = 1 .. Len(s) /\ DOMAIN Tail(s) = 1 .. Len(s) - 1
      /\ Head(s) = s[1] /\ \A i \in 1 .. Len(s) - 1 : Tail(s)[i] = s[i + 1]
      /\ Head(s) \in S /\ Tail(s) \in Seq(S)
  OBVIOUS
<1>2. ASSUME NEW i \in DOMAIN s PROVE s[i] \in {Head(s)} \cup Range(Tail(s))
  <2>1. i # 1 => i - 1 \in DOMAIN Tail(s) /\ Tail(s)[i - 1] = s[i]
    BY <1>1
  <2> QED
    BY <1>1, <2>1 DEF Range
<1>3. ASSUME NEW i \in DOMAIN Tail(s) PROVE Tail(s)[i] \in Range(s)
  <2>1. i + 1 \in DOMAIN s /\ Tail(s)[i] = s[i + 1]
    BY <1>1
  <2> QED
    BY <2>1 DEF Range
<1>4. Head(s) \in Range(s)
  BY <1>1 DEF Range
<1> QED
  BY <1>1, <1>2, <1>3, <1>4 DEF Range

\* Nothing is left of an empty list of statements.
LEMMA RangeOfEmpty == Range(<< >>) = {}
  BY DEF Range

-----------------------------------------------------------------------------
(* Transactions *)

\* The current transaction is a transaction.
LEMMA CurrentIsTx ==
    ASSUME Types, stage \in Stages
    PROVE  Current \in Tx /\ cycle \in Cycles
  BY DEF Types, Current, Tx, Stages

\* A step outside of transactions: nothing is open, or nothing moves.
LEMMA OutsideKeeps ==
    ASSUME DbInv, UNCHANGED <<disk, conn, depth, todo, tx, writes>>,
           depth = 0 \/ stage \notin Stages \/ UNCHANGED <<stage, cycle>>
    PROVE  DbInv'
<1>1. OpenIsCurrent'
  BY DEF DbInv, OpenIsCurrent, Current
<1>2. Traced' /\ Views' /\ Progress'
  BY DEF DbInv, Traced, Views, Whole, Written, Progress
<1> QED
  BY <1>1, <1>2 DEF DbInv

\* Entering the outermost _tx: its rows are nowhere yet.
LEMMA BeginKeeps ==
    ASSUME Types, DbInv, stage \in Stages, NEW plan \in Plans(stage), Begin(plan)
    PROVE  DbInv' /\ todo' \in Seq(AllRows) /\ tx' \in [Tx -> Ends]
           /\ writes' \in [Tx -> SUBSET AllRows]
<1> DEFINE t == Current
<1> USE DEF Types, DbInv
<1>1. t \in Tx /\ cycle \in Cycles
  BY CurrentIsTx
<1>2. plan \in Seq(AllRows) /\ Range(plan) \subseteq Rows(t) /\ Rows(t) \subseteq AllRows /\ Range(plan) # {}
  BY <1>1, PlansAreRows DEF AllRows
<1>3. /\ tx[t] = "none" /\ writes[t] = {} /\ depth = 0 /\ depth' = 1 /\ todo' = plan
      /\ tx' = [tx EXCEPT ![t] = "open"] /\ writes' = [writes EXCEPT ![t] = Range(plan)]
      /\ UNCHANGED <<disk, conn, stage, cycle>>
  BY <1>1 DEF Begin, Traced
<1> HIDE DEF t
<1>4. /\ tx'[t] = "open" /\ writes'[t] = Range(plan)
      /\ \A u \in Tx : u # t => tx'[u] = tx[u] /\ writes'[u] = writes[u]
  BY <1>1, <1>3
<1>5. \A u \in Tx : tx[u] # "open"
  BY <1>3 DEF OpenIsCurrent
<1>6. OpenIsCurrent'
  <2>1. \A u \in Tx : tx'[u] = "open" => u = t
    BY <1>4, <1>5
  <2>2. t = Current' /\ stage' \in Stages
    BY <1>3 DEF Current, t
  <2> QED
    BY <1>3, <2>1, <2>2 DEF OpenIsCurrent
<1>7. Traced'
  BY <1>2, <1>4 DEF Traced
<1>8. writes'[t] \cap conn = {}
  <2> SUFFICES ASSUME NEW r \in conn, r \in Range(plan) PROVE FALSE
    BY <1>4
  <2>1. PICK u \in Tx : r \in writes[u]
    BY DEF Views, Written
  <2>2. u = t
    BY <1>1, <1>2, <2>1, RowsDisjoint DEF Traced
  <2> QED
    BY <1>3, <2>1, <2>2
<1>9. Whole(disk)' /\ Whole(conn)'
  BY <1>3, <1>4 DEF Views, Whole
<1>10. Written(conn)'
  <2> SUFFICES ASSUME NEW r \in conn PROVE \E u \in Tx : r \in writes'[u]
    BY <1>3 DEF Written
  <2>1. PICK u \in Tx : r \in writes[u]
    BY DEF Views, Written
  <2>2. u # t
    BY <1>3, <2>1
  <2> QED
    BY <1>4, <2>1, <2>2
<1>11. Progress'
  <2> SUFFICES ASSUME NEW u \in Tx, tx'[u] = "open"
               PROVE  /\ writes'[u] \cap disk = {}
                      /\ Range(plan) \subseteq writes'[u] /\ writes'[u] \subseteq conn \cup Range(plan)
    BY <1>3 DEF Progress
  <2>1. u = t
    BY <1>4, <1>5
  <2> QED
    BY <1>4, <1>8, <2>1 DEF Views
<1>12. DbInv'
  BY <1>3, <1>6, <1>7, <1>9, <1>10, <1>11 DEF Views
<1>13. tx' \in [Tx -> Ends] /\ writes' \in [Tx -> SUBSET AllRows]
  BY <1>1, <1>2, <1>3 DEF Ends
<1> QED
  BY <1>2, <1>3, <1>12, <1>13

\* A statement inside the transaction reaches the connection, not the disk.
LEMMA WriteKeeps ==
    ASSUME Types, DbInv, Write
    PROVE  /\ DbInv' /\ todo' \in Seq(AllRows) /\ UNCHANGED <<disk, history>>
           /\ Head(todo) \in writes[Current] /\ Current \in Tx /\ tx[Current] = "open"
<1> DEFINE t == Current
<1> USE DEF Types, DbInv
<1>1. t \in Tx /\ tx[t] = "open" /\ stage \in Stages /\ depth = 1
  BY CurrentIsTx DEF Write, Open, OpenIsCurrent
<1>2. /\ todo # << >> /\ conn' = conn \cup {Head(todo)} /\ todo' = Tail(todo) /\ disk' = disk
      /\ UNCHANGED <<depth, stage, cycle, tx, writes>>
  BY <1>1 DEF Write, Outermost, history
<1>3. /\ Head(todo) \in Range(todo) /\ Range(todo) = {Head(todo)} \cup Range(todo')
      /\ todo' \in Seq(AllRows)
  BY <1>2, RangeOfTail
<1>4. Head(todo) \in writes[t]
  BY <1>1, <1>3 DEF Progress
<1> HIDE DEF t
<1>5. \A u \in Tx : tx[u] = "open" => u = t
  BY DEF OpenIsCurrent, t
<1>6. OpenIsCurrent' /\ Traced'
  BY <1>2 DEF OpenIsCurrent, Traced, Current
<1>7. Whole(conn)'
  <2>1. \A u \in Tx : u # t => Head(todo) \notin writes[u]
    BY <1>1, <1>4, RowsDisjoint DEF Traced
  <2>2. \A u \in Tx : u # t => writes[u] \cap conn' = writes[u] \cap conn
    BY <1>2, <2>1
  <2> QED
    BY <1>1, <1>2, <2>2 DEF Views, Whole
<1>8. Written(conn)' /\ Whole(disk)'
  BY <1>1, <1>2, <1>4 DEF Views, Written, Whole
<1>9. Progress'
  BY <1>2, <1>3 DEF Progress
<1>10. DbInv'
  BY <1>2, <1>6, <1>7, <1>8, <1>9 DEF Views
<1> QED
  BY <1>1, <1>2, <1>3, <1>4, <1>10 DEF history, t

\* A step that ends whatever transaction was open.
LEMMA ClosingKeeps ==
    ASSUME Types, DbInv, writes' = writes,
           \A u \in Tx : tx'[u] = tx[u] \/ (tx[u] = "open" /\ tx'[u] # "none"),
           \A u \in Tx : tx'[u] # "open",
           disk' \subseteq conn', Whole(disk)', Whole(conn)', conn' \subseteq conn
    PROVE  DbInv'
<1>1. OpenIsCurrent' /\ Progress'
  BY DEF OpenIsCurrent, Progress
<1>2. Traced' /\ Written(conn)'
  BY DEF DbInv, Traced, Views, Written
<1> QED
  BY <1>1, <1>2 DEF DbInv, Views

\* The three ways a transaction ends.
LEMMA EndKeeps ==
    ASSUME Types, DbInv, WriteRaises \/ Commit \/ CommitRaises(TRUE) \/ CommitRaises(FALSE)
    PROVE  /\ DbInv' /\ tx' \in [Tx -> Ends] /\ todo' \in Seq(AllRows)
           /\ disk \subseteq disk' /\ conn' \subseteq conn
           /\ \A u \in Tx : tx[u] = "unsure" => tx'[u] = "unsure"
<1> DEFINE t == Current
<1> USE DEF Types, DbInv
<1>1. t \in Tx /\ tx[t] = "open" /\ stage \in Stages
  BY CurrentIsTx DEF WriteRaises, Commit, CommitRaises, Open
<1>2. \A u \in Tx : tx[u] = "open" => u = t
  BY DEF OpenIsCurrent
<1> HIDE DEF t
<1>3. ASSUME NEW e \in {"raised", "returned", "unsure"}, tx' = [tx EXCEPT ![t] = e], writes' = writes,
             disk' \in {disk, conn}, conn' \in {disk, conn}, disk' \subseteq conn',
             e = "raised" => conn' = disk /\ disk' = disk,
             e = "returned" => disk' = conn /\ writes[t] \subseteq conn,
             e = "unsure" => disk' = disk /\ writes[t] \subseteq conn
      PROVE  /\ DbInv' /\ tx' \in [Tx -> Ends] /\ disk \subseteq disk' /\ conn' \subseteq conn
             /\ \A u \in Tx : tx[u] = "unsure" => tx'[u] = "unsure"
  <2>1. tx'[t] = e /\ tx' \in [Tx -> Ends] /\ \A u \in Tx : u # t => tx'[u] = tx[u] /\ tx[u] # "open"
    BY <1>1, <1>2, <1>3 DEF Ends
  <2>2. disk \subseteq conn /\ writes[t] \cap disk = {}
    BY <1>1 DEF Views, Progress
  <2>3. ASSUME NEW rows \in {disk, conn}, NEW u \in Tx, u # t
        PROVE  /\ writes[u] \subseteq rows \/ writes[u] \cap rows = {}
               /\ tx[u] = "returned" => writes[u] \subseteq rows
               /\ tx[u] \in {"raised", "killed"} => writes[u] \cap rows = {}
    BY <2>1, <2>3 DEF Views, Whole
  <2>4. Whole(disk)'
    BY <1>3, <2>1, <2>2, <2>3 DEF Whole
  <2>5. Whole(conn)'
    BY <1>3, <2>1, <2>2, <2>3 DEF Whole
  <2>6. DbInv'
    <3>1. \A u \in Tx : tx'[u] = tx[u] \/ (tx[u] = "open" /\ tx'[u] # "none")
      BY <1>1, <2>1
    <3>2. \A u \in Tx : tx'[u] # "open"
      BY <2>1
    <3> QED
      BY <1>3, <2>2, <2>4, <2>5, <3>1, <3>2, ClosingKeeps
  <2> QED
    BY <1>1, <1>3, <2>1, <2>2, <2>6
<1>4. CASE WriteRaises
  <2>1. /\ tx' = [tx EXCEPT ![t] = "raised"] /\ writes' = writes /\ conn' = disk /\ disk' = disk
        /\ todo' = << >>
    BY <1>4 DEF WriteRaises, RolledBack, t
  <2>2. << >> \in Seq(AllRows)
    OBVIOUS
  <2> QED
    BY <1>3, <2>1, <2>2
<1>5. ASSUME todo = << >> PROVE writes[t] \subseteq conn
  BY <1>1, <1>5, RangeOfEmpty DEF Progress
<1>6. CASE Commit
  <2>1. /\ tx' = [tx EXCEPT ![t] = "returned"] /\ writes' = writes /\ conn' = conn /\ disk' = conn
        /\ todo = << >> /\ todo' = todo
    BY <1>6 DEF Commit, t
  <2> QED
    BY <1>3, <1>5, <2>1
<1>7. ASSUME NEW rolledBack \in BOOLEAN, CommitRaises(rolledBack)
      PROVE  /\ DbInv' /\ tx' \in [Tx -> Ends] /\ todo' \in Seq(AllRows)
             /\ disk \subseteq disk' /\ conn' \subseteq conn
             /\ \A u \in Tx : tx[u] = "unsure" => tx'[u] = "unsure"
  <2>1. /\ tx' = [tx EXCEPT ![t] = "unsure"] /\ writes' = writes /\ disk' = disk
        /\ conn' \in {disk, conn} /\ todo = << >> /\ todo' = todo
    BY <1>7 DEF CommitRaises, t
  <2>2. disk \subseteq conn
    BY DEF Views
  <2> QED
    BY <1>3, <1>5, <2>1, <2>2
<1> QED
  BY <1>4, <1>6, <1>7

\* A kill undoes the open transaction and what was pending.
LEMMA CrashKeeps ==
    ASSUME Types, DbInv, Crash
    PROVE  DbInv' /\ tx' \in [Tx -> Ends] /\ todo' \in Seq(AllRows)
<1> USE DEF Types, DbInv
<1>1. /\ conn' = disk /\ disk' = disk /\ todo' = << >> /\ writes' = writes
      /\ tx' = [t \in Tx |-> IF tx[t] = "open" THEN "killed" ELSE tx[t]]
  BY DEF Crash
<1>2. \A u \in Tx : tx'[u] # "open" /\ (tx'[u] = tx[u] \/ (tx[u] = "open" /\ tx'[u] = "killed"))
  BY <1>1
<1>3. Whole(disk)'
  BY <1>1, <1>2 DEF Views, Whole, Progress
<1>4. Whole(conn)'
  BY <1>1, <1>3 DEF Whole
<1>5. DbInv'
  BY <1>1, <1>2, <1>3, <1>4, ClosingKeeps DEF Views
<1> QED
  BY <1>1, <1>5 DEF Ends

-----------------------------------------------------------------------------
(* Objects, records and exports *)

\* Rows of the connection that a step does not add to name objects as before,
\* when it leaves the object directory alone.
LEMMA SameObjects ==
    ASSUME ObjectsFirst, UNCHANGED <<files, content, broken>>,
           \A c \in Cycles : <<"artifact", c, c>> \in conn' => <<"artifact", c, c>> \in conn,
           stage' = "propose" => stage = "propose" /\ cycle' = cycle
    PROVE  ObjectsFirst'
  BY DEF ObjectsFirst, ObjectOK

\* A statement writes an artifact's row only in the transaction that proposes
\* it, which comes after its object.
LEMMA WriteAfterObject ==
    ASSUME Types, DbInv, ObjectsFirst, Write
    PROVE  ObjectsFirst'
<1>1. /\ Head(todo) \in writes[Current] /\ Current \in Tx /\ tx[Current] = "open"
      /\ conn' = conn \cup {Head(todo)}
      /\ UNCHANGED <<files, stage, cycle, content, broken>>
  BY WriteKeeps DEF Write
<1>2. ASSUME NEW c \in Cycles, <<"artifact", c, c>> = Head(todo) PROVE ObjectOK(c)
  <2>1. <<"artifact", c, c>> \in Rows(Current)
    BY <1>1, <1>2 DEF DbInv, Traced
  <2>2. <<"propose", c>> \in Tx /\ <<"artifact", c, c>> \in Rows(<<"propose", c>>)
    BY DEF Tx, Stages, Rows
  <2>3. Current = <<"propose", c>>
    BY <1>1, <2>1, <2>2, RowsDisjoint
  <2>4. stage = "propose" /\ cycle = c
    BY <2>3 DEF Current
  <2> QED
    BY <2>4 DEF ObjectsFirst
<1> QED
  BY <1>1, <1>2 DEF ObjectsFirst, ObjectOK

\* Storing an object: the files others refer to stay, or are marked broken
\* while they are rewritten.
LEMMA PutKeepsObjects ==
    ASSUME Types, ObjectsFirst, PutTruncates \/ PutObject(TRUE) \/ PutObject(FALSE)
    PROVE  ObjectsFirst' /\ files' \in [Contents -> {"absent", "torn", "intact"}]
           /\ stage' \in Stages \cup {"putting"} /\ cycle' = cycle /\ cycle \in Cycles
           /\ conn' = conn
<1> USE DEF Types
<1> DEFINE k == content[cycle]
<1>1. cycle \in Cycles /\ k \in Contents
  BY DEF PutTruncates, PutObject
<1>2. CASE PutTruncates
  <2>1. /\ files' = [files EXCEPT ![k] = "torn"] /\ stage' = "putting"
        /\ broken' = IF files[k] = "intact" THEN broken \cup {k} ELSE broken
        /\ UNCHANGED <<conn, cycle, content>>
    BY <1>2 DEF PutTruncates, session
  <2>2. \A c \in Cycles : ObjectOK(c) => ObjectOK(c)'
    <3> SUFFICES ASSUME NEW c \in Cycles, ObjectOK(c) PROVE ObjectOK(c)'
      OBVIOUS
    <3>1. CASE content[c] = k
      BY <1>1, <2>1, <3>1 DEF ObjectOK
    <3>2. CASE content[c] # k
      BY <1>1, <2>1, <3>2 DEF ObjectOK
    <3> QED
      BY <3>1, <3>2
  <2> QED
    BY <1>1, <2>1, <2>2 DEF ObjectsFirst
<1>3. CASE PutObject(TRUE)
  <2>1. /\ files' = [files EXCEPT ![k] = "intact"] /\ stage' = "propose" /\ broken' = broken \ {k}
        /\ UNCHANGED <<conn, cycle, content>>
    BY <1>3 DEF PutObject, session
  <2>2. \A c \in Cycles : ObjectOK(c) \/ content[c] = k => ObjectOK(c)'
    <3> SUFFICES ASSUME NEW c \in Cycles, ObjectOK(c) \/ content[c] = k PROVE ObjectOK(c)'
      OBVIOUS
    <3>1. CASE content[c] = k
      BY <1>1, <2>1, <3>1 DEF ObjectOK
    <3>2. CASE content[c] # k
      BY <1>1, <2>1, <3>2 DEF ObjectOK
    <3> QED
      BY <3>1, <3>2
  <2> QED
    BY <1>1, <2>1, <2>2 DEF ObjectsFirst, Stages
<1>4. CASE PutObject(FALSE)
  <2>1. stage' = "failure" /\ UNCHANGED <<files, broken, conn, cycle, content>>
    BY <1>4 DEF PutObject, session, PutFailed
  <2> QED
    BY <1>1, <2>1, SameObjects DEF Stages
<1> QED
  BY <1>2, <1>3, <1>4

\* What is named still stands when the disk only grows and an unsure commit
\* stays one.
LEMMA NamedStay ==
    ASSUME NamedStand, disk \subseteq disk',
           \A u \in Tx : tx[u] = "unsure" => tx'[u] = "unsure",
           record' \subseteq record, exported' \subseteq exported
    PROVE  NamedStand'
<1>1. \A c \in Cycles : <<"commit", c>> \in Tx
  BY DEF Tx, Stages
<1> QED
  BY <1>1 DEF NamedStand, Stands

\* What the connection reports as accepted between transactions stands.
LEMMA AcceptedStands ==
    ASSUME Types, DbInv, stage = "idle", NEW c \in AcceptedIn(conn)
    PROVE  c \in Cycles /\ Stands(c)
<1> DEFINE t == <<"commit", c>>
<1>1. c \in Cycles /\ <<"accepted", c, c>> \in conn
  BY DEF AcceptedIn
<1>2. t \in Tx /\ <<"accepted", c, c>> \in Rows(t)
  BY <1>1 DEF Tx, Stages, Rows
<1>3. PICK u \in Tx : <<"accepted", c, c>> \in writes[u]
  BY <1>1 DEF DbInv, Views, Written
<1>4. u = t
  BY <1>2, <1>3, RowsDisjoint DEF DbInv, Traced
<1>5. <<"accepted", c, c>> \in writes[t] \cap conn
  BY <1>1, <1>3, <1>4
<1> HIDE DEF t
<1>6. tx[t] \in Ends /\ tx[t] # "open" /\ tx[t] # "none" /\ tx[t] \notin {"raised", "killed"}
  BY <1>2, <1>5 DEF Types, DbInv, OpenIsCurrent, Stages, Traced, Views, Whole
<1>7. tx[t] = "returned" => <<"accepted", c, c>> \in disk
  BY <1>2, <1>5 DEF DbInv, Views, Whole
<1> QED
  BY <1>1, <1>6, <1>7 DEF Ends, Stands, t

-----------------------------------------------------------------------------
(* The inductive invariant *)

\* Initially the store is empty.
LEMMA InitIInv == Init => IInv
<1> SUFFICES ASSUME Init PROVE IInv
  OBVIOUS
<1>1. \A t \in Tx : tx[t] = "none" /\ writes[t] = {}
  BY DEF Init
<1>2. Types
  <2>1. << >> \in Seq(AllRows) /\ 0 \in 0 .. MaxCycles
    OBVIOUS
  <2> QED
    BY <2>1 DEF Init, Types, Ends
<1>3. DbInv
  BY <1>1 DEF Init, DbInv, OpenIsCurrent, Traced, Views, Whole, Written, Progress
<1>4. ObjectsFirst /\ NamedStand
  BY DEF Init, ObjectsFirst, NamedStand
<1> QED
  BY <1>2, <1>3, <1>4 DEF IInv

\* Every statement, commit, failure, kill, report and export preserves it.
LEMMA StepIInv == IInv /\ [Next]_vars => IInv'
<1> SUFFICES ASSUME IInv, [Next]_vars PROVE IInv'
  OBVIOUS
<1> USE DEF IInv, session, history
<1>1. CASE StartCycle
  <2>1. /\ stage = "idle" /\ cycle < MaxCycles /\ cycle' = cycle + 1 /\ stage' = "put"
        /\ UNCHANGED <<disk, conn, depth, todo, tx, writes, files, content, broken, record, exported>>
    BY <1>1 DEF StartCycle
  <2>2. cycle' \in Cycles /\ cycle' \in 0 .. MaxCycles
    BY <2>1 DEF Types, Cycles
  <2>3. DbInv'
    BY <2>1, OutsideKeeps DEF Stages
  <2>4. ObjectsFirst' /\ NamedStand'
    BY <2>1, SameObjects, NamedStay
  <2> QED
    BY <2>1, <2>2, <2>3, <2>4 DEF Types
<1>2. CASE PutTruncates \/ \E ok \in BOOLEAN : PutObject(ok)
  <2>1. /\ ObjectsFirst' /\ files' \in [Contents -> {"absent", "torn", "intact"}]
        /\ stage' \in Stages \cup {"putting"} /\ cycle' = cycle /\ cycle \in Cycles
    BY <1>2, PutKeepsObjects
  <2>2. /\ stage \notin Stages
        /\ UNCHANGED <<disk, conn, depth, todo, tx, writes, content, record, exported>>
    BY <1>2 DEF PutTruncates, PutObject, Stages
  <2>3. DbInv'
    BY <2>2, OutsideKeeps
  <2>4. NamedStand'
    BY <2>2, NamedStay
  <2> QED
    BY <2>1, <2>2, <2>3, <2>4 DEF Types
<1>3. CASE Write
  <2>1. DbInv' /\ todo' \in Seq(AllRows) /\ UNCHANGED <<disk, tx, writes>>
    BY <1>3, WriteKeeps
  <2>2. UNCHANGED <<files, stage, cycle, content, record, exported>>
    BY <1>3 DEF Write
  <2>3. ObjectsFirst' /\ NamedStand'
    BY <1>3, <2>1, <2>2, WriteAfterObject, NamedStay
  <2> QED
    BY <2>1, <2>2, <2>3 DEF Types
<1>4. CASE WriteRaises \/ Commit \/ \E rolledBack \in BOOLEAN : CommitRaises(rolledBack)
  <2>1. /\ DbInv' /\ tx' \in [Tx -> Ends] /\ todo' \in Seq(AllRows)
        /\ disk \subseteq disk' /\ conn' \subseteq conn
        /\ \A u \in Tx : tx[u] = "unsure" => tx'[u] = "unsure"
    BY <1>4, EndKeeps
  <2>2. /\ UNCHANGED <<files, cycle, content, writes, broken, record, exported>>
        /\ stage \in Stages /\ stage' \in {"commit", "idle", "failure"}
    BY <1>4 DEF WriteRaises, Commit, CommitRaises, Open, AfterReturn, AfterRaise
  <2>3. ObjectsFirst'
    BY <2>1, <2>2, SameObjects
  <2>4. NamedStand'
    BY <2>1, <2>2, NamedStay
  <2>5. stage # "idle"
    BY <2>2 DEF Stages
  <2> QED
    BY <2>1, <2>2, <2>3, <2>4, <2>5 DEF Types, Stages
<1>5. CASE GateUnavailable
  <2>1. /\ stage = "commit" /\ depth = 0 /\ stage' = "failure"
        /\ UNCHANGED <<disk, conn, depth, todo, tx, writes, files, cycle, content, broken, record,
                       exported>>
    BY <1>5 DEF GateUnavailable
  <2>2. DbInv' /\ ObjectsFirst' /\ NamedStand'
    BY <2>1, OutsideKeeps, SameObjects, NamedStay
  <2> QED
    BY <2>1, <2>2 DEF Types, Stages
<1>6. CASE Crash
  <2>1. DbInv' /\ tx' \in [Tx -> Ends] /\ todo' \in Seq(AllRows)
    BY <1>6, CrashKeeps
  <2>2. /\ conn' = disk /\ stage' = "idle" /\ record' = {} /\ exported' = {}
        /\ UNCHANGED <<disk, files, cycle, content, writes, broken>>
    BY <1>6 DEF Crash
  <2>3. ObjectsFirst' /\ NamedStand'
    BY <2>2, SameObjects DEF DbInv, Views, NamedStand
  <2> QED
    BY <2>1, <2>2, <2>3 DEF Types
<1>7. CASE EndRun \/ export
  <2>1. UNCHANGED <<disk, conn, depth, todo, tx, writes, files, stage, cycle, content, broken>>
    BY <1>7 DEF EndRun, export
  <2>2. DbInv' /\ ObjectsFirst'
    BY <2>1, OutsideKeeps, SameObjects
  <2>3. NamedStand'
    <3>1. CASE EndRun
      <4>1. stage = "idle" /\ record' = AcceptedIn(conn) /\ exported' = exported
        BY <3>1 DEF EndRun
      <4>2. \A c \in record' : c \in Cycles /\ Stands(c)
        BY <4>1, AcceptedStands
      <4> QED
        BY <2>1, <4>1, <4>2 DEF NamedStand, Stands
    <3>2. CASE export
      <4>1. record' = record /\ exported' \subseteq record
        BY <3>2 DEF export, Exportable
      <4> QED
        BY <2>1, <4>1 DEF NamedStand, Stands
    <3> QED
      BY <1>7, <3>1, <3>2
  <2> QED
    BY <2>1, <2>2, <2>3 DEF Types
<1>8. CASE \E plan \in (IF stage \in Stages THEN Plans(stage) ELSE {}) : Begin(plan)
  <2>1. PICK plan \in Plans(stage) : stage \in Stages /\ Begin(plan)
    BY <1>8
  <2>2. DbInv' /\ todo' \in Seq(AllRows) /\ tx' \in [Tx -> Ends] /\ writes' \in [Tx -> SUBSET AllRows]
    BY <2>1, BeginKeeps
  <2>3. /\ UNCHANGED <<disk, conn, files, stage, cycle, content, broken, record, exported>>
        /\ tx[Current] = "none" /\ tx' = [tx EXCEPT ![Current] = "open"]
    BY <2>1 DEF Begin
  <2>4. \A u \in Tx : tx[u] = "unsure" => tx'[u] = "unsure"
    BY <2>3 DEF Types
  <2>5. ObjectsFirst' /\ NamedStand'
    BY <2>3, <2>4, SameObjects, NamedStay
  <2> QED
    BY <2>2, <2>3, <2>5 DEF Types
<1>9. CASE UNCHANGED vars
  <2>1. UNCHANGED <<disk, conn, depth, todo, tx, writes, files, stage, cycle, content, broken, record,
                    exported>>
    BY <1>9 DEF vars
  <2>2. DbInv' /\ ObjectsFirst' /\ NamedStand'
    BY <2>1, OutsideKeeps, SameObjects, NamedStay
  <2> QED
    BY <2>1, <2>2 DEF Types
<1> QED
  BY <1>1, <1>2, <1>3, <1>4, <1>5, <1>6, <1>7, <1>8, <1>9 DEF Next

\* It holds of every reachable state.
LEMMA Invariance == Spec => []IInv
  BY InitIInv, StepIInv, PTL DEF Spec

-----------------------------------------------------------------------------
(* The theorems *)

\* A transaction is on disk as a whole or not at all, for good once it
\* returned, and not at all once a write of it raised or it was killed: for
\* every number of cycles, faults and kills.
THEOREM TransactionsAtomic == Spec => []OutcomeIsDurable
<1>1. IInv => OutcomeIsDurable
  <2> SUFFICES ASSUME IInv, NEW t \in Tx
               PROVE  /\ writes[t] \subseteq disk \/ writes[t] \cap disk = {}
                      /\ tx[t] = "returned" => writes[t] \subseteq disk
                      /\ tx[t] \in {"raised", "killed"} => writes[t] \cap disk = {}
    BY DEF OutcomeIsDurable
  <2> QED
    BY DEF IInv, DbInv, Views, Whole, Progress
<1> QED
  BY <1>1, Invariance, PTL

\* An artifact on disk has its object, unless rewriting it was interrupted.
THEOREM ObjectsBeforeRows == Spec => []ReferencesIntact
<1>1. IInv => ReferencesIntact
  BY DEF IInv, DbInv, Views, ObjectsFirst, ObjectOK, ReferencesIntact
<1> QED
  BY <1>1, Invariance, PTL

\* What an export wrote out was accepted on disk, or by a commit that raised.
THEOREM ExportsStand == Spec => []ExportDurable
<1>1. IInv => ExportDurable
  BY DEF IInv, NamedStand, Stands, ExportDurable
<1> QED
  BY <1>1, Invariance, PTL

-----------------------------------------------------------------------------
(* The refinement *)

\* A step that moves neither the database nor a transaction does not show.
LEMMA SameStore ==
    ASSUME UNCHANGED <<disk, conn, tx, writes>>
    PROVE  UNCHANGED Atomic!storeVars
  BY DEF Atomic!storeVars, OnDisk, Pending

\* Nor does a statement: the rows of the others on the connection, and all
\* rows on disk, are the ones that were there.
LEMMA StatementHidden ==
    ASSUME Types, DbInv, Write
    PROVE  UNCHANGED Atomic!storeVars
<1>1. /\ UNCHANGED <<disk, tx, writes>> /\ conn' = conn \cup {Head(todo)}
      /\ Head(todo) \in writes[Current] /\ Current \in Tx /\ tx[Current] = "open"
  BY WriteKeeps DEF Write, history
<1>2. \A u \in Tx : tx[u] # "open" => Head(todo) \notin writes[u]
  BY <1>1, RowsDisjoint DEF DbInv, Traced
<1>3. OnDisk' = OnDisk
  BY <1>1 DEF OnDisk
<1>4. \A u \in Tx : tx[u] # "open" => (writes[u] \subseteq conn' <=> writes[u] \subseteq conn)
  BY <1>1, <1>2
<1>5. Pending' = Pending
  BY <1>1, <1>3, <1>4 DEF Pending
<1> QED
  BY <1>1, <1>3, <1>5 DEF Atomic!storeVars

\* Entering a transaction starts it: none of its rows is anywhere.
LEMMA BeginStarts ==
    ASSUME Types, DbInv, stage \in Stages, NEW plan \in Plans(stage), Begin(plan)
    PROVE  Current \in Tx /\ Atomic!Start(Current)
<1> DEFINE t == Current
<1>1. t \in Tx
  BY CurrentIsTx
<1>2. /\ tx[t] = "none" /\ depth = 0 /\ tx' = [tx EXCEPT ![t] = "open"]
      /\ writes' = [writes EXCEPT ![t] = Range(plan)] /\ UNCHANGED <<disk, conn>>
  BY DEF Begin
<1> HIDE DEF t
<1>3. \A u \in Tx : tx[u] # "open"
  BY <1>2 DEF DbInv, OpenIsCurrent
<1>4. \A u \in Tx : u # t => tx'[u] = tx[u] /\ writes'[u] = writes[u]
  BY <1>2 DEF Types
<1>5. tx'[t] = "open" /\ writes[t] = {} /\ writes'[t] # {} /\ writes'[t] \cap disk' = {}
  <2>1. DbInv'
    BY BeginKeeps
  <2>2. tx'[t] = "open" /\ writes[t] = {}
    BY <1>1, <1>2 DEF Types, DbInv, Traced
  <2> QED
    BY <1>1, <2>1, <2>2 DEF DbInv, Traced, Progress
<1>6. OnDisk' = OnDisk
  BY <1>2, <1>4, <1>5 DEF OnDisk
<1>7. Pending' = Pending
  BY <1>2, <1>4, <1>5, <1>6 DEF Pending
<1> QED
  BY <1>1, <1>2, <1>3, <1>6, <1>7 DEF Atomic!Start, t

\* The open transaction: all of it is on the connection when no statement is
\* left, and nothing of it on disk.
LEMMA OpenTransaction ==
    ASSUME Types, DbInv, Open
    PROVE  /\ Current \in Tx /\ tx[Current] = "open" /\ writes[Current] # {}
           /\ writes[Current] \cap disk = {} /\ disk \subseteq conn
           /\ todo = << >> => writes[Current] \subseteq conn
           /\ \A u \in Tx : u # Current => tx[u] # "open"
  BY CurrentIsTx, RangeOfEmpty DEF Open, DbInv, Traced, Progress, OpenIsCurrent, Views

\* The commit that returns makes its transaction and all that is pending
\* durable, in one step.
LEMMA CommitReturns ==
    ASSUME Types, DbInv, Commit
    PROVE  Current \in Tx /\ Atomic!Returns(Current)
<1> DEFINE t == Current
<1>1. /\ t \in Tx /\ tx[t] = "open" /\ writes[t] # {} /\ disk \subseteq conn /\ writes[t] \subseteq conn
      /\ \A u \in Tx : u # t => tx[u] # "open"
  BY OpenTransaction DEF Commit
<1>2. /\ tx' = [tx EXCEPT ![t] = "returned"] /\ disk' = conn /\ conn' = conn /\ writes' = writes
  BY DEF Commit
<1> HIDE DEF t
<1>3. OnDisk' = OnDisk \cup Pending \cup {t}
  BY <1>1, <1>2 DEF OnDisk, Pending
<1>4. Pending' = {}
  BY <1>2 DEF OnDisk, Pending
<1> QED
  BY <1>1, <1>2, <1>3, <1>4 DEF Atomic!Returns, t

\* A statement that raises drops its transaction and all that is pending.
LEMMA RaiseRollsBack ==
    ASSUME Types, DbInv, WriteRaises
    PROVE  Current \in Tx /\ Atomic!RollsBack(Current)
<1>1. Current \in Tx /\ tx[Current] = "open"
  BY OpenTransaction DEF WriteRaises
<1>2. /\ tx' = [tx EXCEPT ![Current] = "raised"] /\ UNCHANGED <<disk, writes>> /\ conn' = disk
  BY DEF WriteRaises, RolledBack
<1>3. OnDisk' = OnDisk /\ Pending' = {}
  BY <1>2 DEF OnDisk, Pending
<1> QED
  BY <1>1, <1>2, <1>3 DEF Atomic!RollsBack

\* A commit that raises leaves its transaction in doubt: pending with the
\* others, or dropped with them.
LEMMA CommitInDoubt ==
    ASSUME Types, DbInv, NEW rolledBack \in BOOLEAN, CommitRaises(rolledBack)
    PROVE  Current \in Tx /\ Atomic!InDoubt(Current)
<1> DEFINE t == Current
<1>1. /\ t \in Tx /\ tx[t] = "open" /\ writes[t] # {} /\ disk \subseteq conn /\ writes[t] \subseteq conn
      /\ writes[t] \cap disk = {} /\ \A u \in Tx : u # t => tx[u] # "open"
  BY OpenTransaction DEF CommitRaises
<1>2. /\ tx' = [tx EXCEPT ![t] = "unsure"] /\ UNCHANGED <<disk, writes>>
      /\ conn' = IF rolledBack THEN disk ELSE conn
  BY DEF CommitRaises
<1> HIDE DEF t
<1>3. OnDisk' = OnDisk
  BY <1>2 DEF OnDisk
<1>4. CASE rolledBack
  <2>1. Pending' = {}
    BY <1>2, <1>4 DEF OnDisk, Pending
  <2> QED
    BY <1>1, <1>2, <1>3, <2>1 DEF Atomic!InDoubt, t
<1>5. CASE ~rolledBack
  <2>1. tx'[t] = "unsure" /\ \A u \in Tx : u # t => tx'[u] = tx[u]
    BY <1>1, <1>2 DEF Types
  <2>2. t \in Pending'
    BY <1>1, <1>2, <1>5, <2>1 DEF OnDisk, Pending
  <2>3. \A u \in Tx : u # t => (u \in Pending' <=> u \in Pending)
    BY <1>2, <1>3, <1>5, <2>1 DEF Pending
  <2>4. Pending \subseteq Tx /\ Pending' \subseteq Tx
    BY DEF Pending
  <2>5. Pending' = Pending \cup {t}
    BY <1>1, <2>2, <2>3, <2>4
  <2> QED
    BY <1>1, <1>2, <1>3, <2>5 DEF Atomic!InDoubt, t
<1> QED
  BY <1>4, <1>5

\* A kill drops the open transaction and all that is pending.
LEMMA CrashDies ==
    ASSUME Crash
    PROVE  Atomic!Dies
<1>1. /\ tx' = [t \in Tx |-> IF tx[t] = "open" THEN "killed" ELSE tx[t]]
      /\ UNCHANGED <<disk, writes>> /\ conn' = disk
  BY DEF Crash
<1>2. OnDisk' = OnDisk /\ Pending' = {}
  BY <1>1 DEF OnDisk, Pending
<1> QED
  BY <1>1, <1>2 DEF Atomic!Dies

\* The sqlite session implements a store whose transactions are atomic, for
\* every number of cycles, faults and kills: what the commit path assumes.
THEOREM RefinesAtomicStore == Spec => ImplementsAtomicStore
<1>1. Init => Atomic!StoreInit
  BY DEF Init, Atomic!StoreInit, OnDisk, Pending
<1>2. IInv /\ [Next]_vars => [Atomic!StoreNext]_(Atomic!storeVars)
  <2> SUFFICES ASSUME IInv, [Next]_vars PROVE Atomic!StoreNext \/ UNCHANGED Atomic!storeVars
    OBVIOUS
  <2> USE DEF IInv, session, history
  <2>1. CASE StartCycle \/ PutTruncates \/ (\E ok \in BOOLEAN : PutObject(ok)) \/ GateUnavailable
             \/ EndRun \/ export \/ UNCHANGED vars
    <3>1. UNCHANGED <<disk, conn, tx, writes>>
      BY <2>1 DEF StartCycle, PutTruncates, PutObject, GateUnavailable, EndRun, export, vars
    <3> QED
      BY <3>1, SameStore
  <2>2. CASE Write
    BY <2>2, StatementHidden
  <2>3. CASE \E plan \in (IF stage \in Stages THEN Plans(stage) ELSE {}) : Begin(plan)
    <3>1. PICK plan \in Plans(stage) : stage \in Stages /\ Begin(plan)
      BY <2>3
    <3> QED
      BY <3>1, BeginStarts DEF Atomic!StoreNext
  <2>4. CASE Commit
    BY <2>4, CommitReturns DEF Atomic!StoreNext
  <2>5. CASE WriteRaises
    BY <2>5, RaiseRollsBack DEF Atomic!StoreNext
  <2>6. CASE \E rolledBack \in BOOLEAN : CommitRaises(rolledBack)
    BY <2>6, CommitInDoubt DEF Atomic!StoreNext
  <2>7. CASE Crash
    BY <2>7, CrashDies DEF Atomic!StoreNext
  <2> QED
    BY <2>1, <2>2, <2>3, <2>4, <2>5, <2>6, <2>7 DEF Next
<1> QED
  BY <1>1, <1>2, Invariance, PTL DEF Spec, ImplementsAtomicStore, Atomic!StoreSpec


=============================================================================
