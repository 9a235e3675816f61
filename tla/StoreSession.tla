---------------------------- MODULE StoreSession ----------------------------
(***************************************************************************)
(* The sqlite connection and the object directory behind one task's store, *)
(* a write at a time.  The commit path runs in a worker thread; meanwhile  *)
(* the event loop serves exports over the same connection, so it sees the  *)
(* rows of a transaction that is still open.  A write may raise, so may    *)
(* the commit itself, writing an object may fail half-way, and the process *)
(* may be killed anywhere.                                                 *)
(*                                                                         *)
(* A row is told by its table, the cycle whose artifact it is about, and   *)
(* the cycle that wrote it.  A cycle stores its object, proposes its       *)
(* artifact, and commits the gates' verdict; or it fails and is recorded   *)
(* as failed.                                                              *)
(***************************************************************************)
EXTENDS Naturals, Sequences, FiniteSets, SequencesExt

CONSTANTS MaxCycles,   \* bound: cycles, numbered as they start
          MaxFaults,   \* bound: writes and commits that raise
          MaxCrashes,  \* bound: kills of the process
          Contents     \* the contents an object may have

ASSUME StoreAssumption == {MaxCycles, MaxFaults, MaxCrashes} \subseteq Nat

Cycles == 1 .. MaxCycles
Stages == {"propose", "commit", "failure"}
Tx == Stages \X Cycles

VARIABLES
    disk,       \* rows of the database file
    conn,       \* rows a read on the connection returns
    files,      \* the object directory
    depth,      \* _tx_depth
    stage,      \* what the current cycle is doing
    cycle,
    todo,       \* the statements left of the transaction
    content,    \* the object of each cycle
    tx,         \* history: how each transaction ended
    writes,     \* history: the rows each transaction writes
    broken,     \* history: contents whose rewriting was interrupted
    record,     \* accepted ids in the record of the last run
    exported,   \* ids the last export wrote out
    faults, crashes

session == <<conn, depth, todo>>
history == <<tx, writes>>
vars == <<disk, session, files, stage, cycle, content, history, broken, record, exported, faults,
          crashes>>

(* query_artifacts(status=ACCEPTED): an update replaces the status.        *)
AcceptedIn(rows) == {c \in Cycles : /\ <<"accepted", c, c>> \in rows
                                   /\ \A by \in Cycles : <<"superseded", c, by>> \notin rows}

Init ==
    /\ disk = {} /\ conn = {} /\ files = [k \in Contents |-> "absent"]
    /\ depth = 0 /\ stage = "idle" /\ cycle = 0 /\ todo = <<>>
    /\ content \in [Cycles -> Contents]
    /\ tx = [t \in Tx |-> "none"] /\ writes = [t \in Tx |-> {}]
    /\ broken = {} /\ record = {} /\ exported = {} /\ faults = 0 /\ crashes = 0

-----------------------------------------------------------------------------
(* Objects *)

StartCycle ==
    /\ stage = "idle" /\ cycle < MaxCycles
    /\ cycle' = cycle + 1
    /\ stage' = "put"
    /\ UNCHANGED <<disk, session, files, content, history, broken, record, exported, faults, crashes>>

(* put_object: write_bytes truncates the file, then fills it.              *)
PutTruncates ==
    /\ stage = "put"
    /\ stage' = "putting"
    /\ files' = [files EXCEPT ![content[cycle]] = "torn"]
    /\ broken' = IF files[content[cycle]] = "intact" THEN broken \cup {content[cycle]} ELSE broken
    /\ UNCHANGED <<disk, session, cycle, content, history, record, exported, faults, crashes>>

(* Mutant: the artifact is proposed though its object could not be stored. *)
ProposesAnyway == "propose"

(* An OSError is a StoreError: the cycle fails.                            *)
PutFailed == "failure"

PutObject(ok) ==
    /\ stage = "putting"
    /\ IF ok
       THEN /\ files' = [files EXCEPT ![content[cycle]] = "intact"]
            /\ broken' = broken \ {content[cycle]}
            /\ stage' = "propose" /\ UNCHANGED faults
       ELSE /\ faults < MaxFaults /\ faults' = faults + 1
            /\ stage' = PutFailed /\ UNCHANGED <<files, broken>>
    /\ UNCHANGED <<disk, session, cycle, content, history, record, exported, crashes>>

-----------------------------------------------------------------------------
(* Transactions *)

(* The statements of a stage.  run_commit records the decision and then    *)
(* the status; an accepted artifact may replace one accepted before.       *)
Plans(s) ==
    LET Own(table) == <<table, cycle, cycle>>
    IN  CASE s = "propose" -> {<<Own("artifact"), Own("operation")>>}
          [] s = "failure" -> {<<Own("failure")>>}
          [] s = "commit"  ->
                {<<Own("decision"), Own("rejected")>>, <<Own("decision"), Own("accepted")>>}
                \cup {<<Own("decision"), Own("accepted"), <<"superseded", old, cycle>>>> :
                         old \in AcceptedIn(conn)}

Current == <<stage, cycle>>

(* The outermost _tx is entered.                                           *)
Begin(plan) ==
    /\ stage \in Stages /\ depth = 0
    /\ tx[Current] = "none"
    /\ depth' = 1 /\ todo' = plan
    /\ tx' = [tx EXCEPT ![Current] = "open"]
    /\ writes' = [writes EXCEPT ![Current] = Range(plan)]
    /\ UNCHANGED <<disk, conn, files, stage, cycle, content, broken, record, exported, faults,
                   crashes>>

(* Mutant: every _tx commits when it is left.                              *)
CommitsEach(d) == TRUE

(* _tx: only the outermost commits or rolls back.                          *)
Outermost(d) == d = 1

Open == stage \in Stages /\ tx[Current] = "open"

(* One write inside the transaction, under a nested _tx of its own.        *)
Write ==
    /\ Open /\ todo # <<>>
    /\ conn' = conn \cup {Head(todo)}
    /\ todo' = Tail(todo)
    /\ disk' = IF Outermost(depth + 1) THEN conn' ELSE disk
    /\ UNCHANGED <<files, depth, stage, cycle, content, history, broken, record, exported, faults,
                   crashes>>

(* Where the control plane goes on once a transaction has returned, and    *)
(* once it has raised: a failed cycle is recorded, best effort.            *)
AfterReturn == IF stage = "propose" THEN "commit" ELSE "idle"
AfterRaise == IF stage = "failure" THEN "idle" ELSE "failure"

(* Mutant: the statements of this transaction are undone, and no others.   *)
UndoesItsOwn == conn \ writes[Current]

(* conn.rollback(): all that is pending is undone.                         *)
RolledBack == disk

(* A statement raises: the exception unwinds to the outermost _tx, which   *)
(* rolls back.                                                             *)
WriteRaises ==
    /\ Open /\ faults < MaxFaults
    /\ todo # <<>>
    /\ faults' = faults + 1
    /\ conn' = RolledBack /\ depth' = 0 /\ todo' = <<>>
    /\ tx' = [tx EXCEPT ![Current] = "raised"]
    /\ stage' = AfterRaise
    /\ UNCHANGED <<disk, files, cycle, content, writes, broken, record, exported, crashes>>

Commit ==
    /\ Open /\ todo = <<>>
    /\ disk' = conn /\ depth' = 0
    /\ tx' = [tx EXCEPT ![Current] = "returned"]
    /\ stage' = AfterReturn
    /\ UNCHANGED <<conn, files, cycle, todo, content, writes, broken, record, exported, faults,
                   crashes>>

(* conn.commit() raises in the else branch: nothing rolls back.  sqlite    *)
(* has done so by itself, or the rows stay pending on the connection.      *)
CommitRaises(rolledBack) ==
    /\ Open /\ todo = <<>> /\ faults < MaxFaults
    /\ faults' = faults + 1
    /\ conn' = IF rolledBack THEN disk ELSE conn
    /\ depth' = 0
    /\ tx' = [tx EXCEPT ![Current] = "unsure"]
    /\ stage' = AfterRaise
    /\ UNCHANGED <<disk, files, cycle, todo, content, writes, broken, record, exported, crashes>>

(* The gate cannot rule: the proposal stays proposed.                      *)
GateUnavailable ==
    /\ stage = "commit" /\ depth = 0
    /\ stage' = "failure"
    /\ UNCHANGED <<disk, session, files, cycle, content, history, broken, record, exported, faults,
                   crashes>>

-----------------------------------------------------------------------------
(* The process is killed; opening the store again finds what is on disk.   *)
Crash ==
    /\ crashes < MaxCrashes
    /\ crashes' = crashes + 1
    /\ conn' = disk /\ depth' = 0 /\ todo' = <<>> /\ stage' = "idle"
    /\ tx' = [t \in Tx |-> IF tx[t] = "open" THEN "killed" ELSE tx[t]]
    /\ record' = {} /\ exported' = {}
    /\ UNCHANGED <<disk, files, cycle, content, writes, broken, faults>>

(* A run ends: its record names what the store reports as accepted.        *)
EndRun ==
    /\ stage = "idle" /\ record # AcceptedIn(conn)
    /\ record' = AcceptedIn(conn)
    /\ UNCHANGED <<disk, session, files, stage, cycle, content, history, broken, exported, faults,
                   crashes>>

(* Mutant: the export takes what is accepted now, in the record or not.    *)
ExportsAll == AcceptedIn(conn)

(* The ids of the record that are accepted now.                            *)
Exportable == record \cap AcceptedIn(conn)

(* POST /runs/{id}/export, on the event loop, whatever the commit thread   *)
(* is doing.                                                               *)
export ==
    /\ record # {} /\ exported # Exportable
    /\ exported' = Exportable
    /\ UNCHANGED <<disk, session, files, stage, cycle, content, history, broken, record, faults,
                   crashes>>

Next ==
    \/ StartCycle \/ PutTruncates \/ Write \/ WriteRaises \/ Commit \/ GateUnavailable
    \/ Crash \/ EndRun \/ export
    \/ \E ok \in BOOLEAN : PutObject(ok)
    \/ \E plan \in (IF stage \in Stages THEN Plans(stage) ELSE {}) : Begin(plan)
    \/ \E rolledBack \in BOOLEAN : CommitRaises(rolledBack)

Spec == Init /\ [][Next]_vars

-----------------------------------------------------------------------------
(* Properties *)

(* "All of a commit's decision rows + its terminal status write land       *)
(* together, or none do": a transaction is on disk as a whole or not at    *)
(* all, for good once it returned and not at all once a write of it raised *)
(* or the process was killed inside it, whatever an earlier commit that    *)
(* failed left pending.  (_tx, transaction)                                *)
OutcomeIsDurable ==
    \A t \in Tx :
        /\ writes[t] \subseteq disk \/ writes[t] \cap disk = {}
        /\ tx[t] = "returned" => writes[t] \subseteq disk
        /\ tx[t] \in {"raised", "killed"} => writes[t] \cap disk = {}

(* An artifact on disk has its object: it was stored first, and it is      *)
(* intact unless storing the same content again was interrupted.           *)
(* (submit_proposal, put_object)                                           *)
ReferencesIntact ==
    \A c \in Cycles :
        <<"artifact", c, c>> \in disk =>
            \/ files[content[c]] = "intact"
            \/ files[content[c]] = "torn" /\ content[c] \in broken

(* What a client takes out of an export really was accepted: though the    *)
(* export reads through an open transaction, an artifact it wrote out is   *)
(* accepted, or was, on disk.  (A commit that raised can leave rows that   *)
(* the report of the run then names: those are excepted.)                  *)
ExportDurable ==
    \A c \in exported : <<"accepted", c, c>> \in disk \/ tx[<<"commit", c>>] = "unsure"

(* The transactions that are on disk, and those that are not but are       *)
(* pending on the connection after a commit that raised.                   *)
OnDisk == {t \in Tx : writes[t] # {} /\ writes[t] \subseteq disk}
Pending == {t \in Tx : tx[t] # "open" /\ writes[t] # {} /\ writes[t] \subseteq conn} \ OnDisk

Atomic == INSTANCE AtomicStore
          WITH Transactions <- Tx, state <- tx, durable <- OnDisk, pending <- Pending

(* A statement at a time, with faults, kills and readers in between, the   *)
(* store implements one whose transactions take effect in a single step:   *)
(* what CommitPath takes its transactions to be.  (_tx, transaction)       *)
ImplementsAtomicStore == Atomic!StoreSpec

=============================================================================
