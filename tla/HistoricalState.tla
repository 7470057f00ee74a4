-------------------------- MODULE HistoricalState --------------------------
(***************************************************************************)
(* What the historical accounts adapter promises its callers: whoever asks *)
(* for an account, or for code, at a root hash gets what the state with    *)
(* that root hash says, labelled with that root hash, or an error; never   *)
(* the state of a block some other caller asked for.                       *)
(***************************************************************************)
CONSTANTS Procs, Roots, Present, NoRoot

VARIABLE calls  \* what each caller asked for, and what it was told

NoCall == [st |-> "idle", op |-> "none", root |-> NoRoot, answer |-> "none",
           label |-> NoRoot]

\* The truthful answers.  Code that cannot be read is told as empty.
Truth(op, r) ==
    CASE op = "account" -> {IF r \in Present THEN "found" ELSE "absent"}
      [] op = "code" -> {"empty"} \cup (IF r \in Present THEN {"found"} ELSE {})

Init == calls = [p \in Procs |-> NoCall]

Ask(p) ==
    /\ calls[p].st = "idle"
    /\ \E op \in {"account", "code"}, r \in Roots :
          calls' = [calls EXCEPT ![p] =
                       [st |-> "asked", op |-> op, root |-> r, answer |-> "none",
                        label |-> NoRoot]]

Tell(p, a, label) ==
    calls' = [calls EXCEPT ![p] =
                 [st |-> "answered", op |-> calls[p].op, root |-> calls[p].root,
                  answer |-> a, label |-> label]]

Answer(p) ==
    /\ calls[p].st = "asked"
    /\ \/ \E a \in Truth(calls[p].op, calls[p].root) : Tell(p, a, calls[p].root)
       \/ Tell(p, "error", NoRoot)

Return(p) ==
    /\ calls[p].st = "answered"
    /\ calls' = [calls EXCEPT ![p] = NoCall]

Next == \E p \in Procs : Ask(p) \/ Answer(p) \/ Return(p)

Spec == Init /\ [][Next]_calls
============================================================================
