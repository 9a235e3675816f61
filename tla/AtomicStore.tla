---------------------------- MODULE AtomicStore ----------------------------
(***************************************************************************)
(* What the store promises the commit path, with no mention of statements, *)
(* rows or a connection: transactions are one at a time, and each takes    *)
(* effect in one step or not at all.  The one that returns is durable from *)
(* that step on.  The one whose commit fails is in doubt: its caller is    *)
(* told it failed, yet it may still be pending; whatever is pending        *)
(* becomes durable with the next transaction that returns, and is dropped  *)
(* with the next that is rolled back or with the process.                  *)
(***************************************************************************)
CONSTANT Transactions

VARIABLES state,     \* how each transaction stands
          durable,   \* the transactions that have taken effect
          pending    \* those in doubt that still may

storeVars == <<state, durable, pending>>

StoreInit ==
    /\ state = [t \in Transactions |-> "none"]
    /\ durable = {} /\ pending = {}

Start(t) ==
    /\ state[t] = "none" /\ \A u \in Transactions : state[u] # "open"
    /\ state' = [state EXCEPT ![t] = "open"]
    /\ UNCHANGED <<durable, pending>>

Returns(t) ==
    /\ state[t] = "open"
    /\ state' = [state EXCEPT ![t] = "returned"]
    /\ durable' = durable \cup pending \cup {t}
    /\ pending' = {}

RollsBack(t) ==
    /\ state[t] = "open"
    /\ state' = [state EXCEPT ![t] = "raised"]
    /\ pending' = {}
    /\ UNCHANGED durable

InDoubt(t) ==
    /\ state[t] = "open"
    /\ state' = [state EXCEPT ![t] = "unsure"]
    /\ pending' \in {{}, pending \cup {t}}
    /\ UNCHANGED durable

Dies ==
    /\ state' = [t \in Transactions |-> IF state[t] = "open" THEN "killed" ELSE state[t]]
    /\ pending' = {}
    /\ UNCHANGED durable

StoreNext ==
    \/ \E t \in Transactions : Start(t) \/ Returns(t) \/ RollsBack(t) \/ InDoubt(t)
    \/ Dies

StoreSpec == StoreInit /\ [][StoreNext]_storeVars
=============================================================================
