---------------------------- MODULE ShareJournal ----------------------------
(***************************************************************************)
(* What a caller of recordAcceptedShare may rely on, free of batching and  *)
(* timers: calls wait in line, are answered in order and once, and an      *)
(* answer of success means that the share is in the database.              *)
(***************************************************************************)
EXTENDS Naturals, Sequences, Functions

CONSTANT Shares

VARIABLES
    line,     \* the shares whose callers wait, first come first
    durable,  \* the shares in the database
    outcome   \* what became of each call

vars == <<line, durable, outcome>>

Init ==
    /\ line = <<>>
    /\ durable = {}
    /\ outcome = [s \in Shares |-> "new"]

Accept(s) ==
    /\ outcome[s] = "new"
    /\ outcome' = [outcome EXCEPT ![s] = "waiting"]
    /\ line' = Append(line, s)
    /\ UNCHANGED durable

Refuse(s) ==
    /\ outcome[s] = "new"
    /\ outcome' = [outcome EXCEPT ![s] = "refused"]
    /\ UNCHANGED <<line, durable>>

(* A share may become durable while its caller waits or after it gave up. *)
Store ==
    \E batch \in SUBSET (Shares \ durable) :
        /\ batch # {}
        /\ \A s \in batch : outcome[s] \in {"waiting", "rejected", "lost"}
        /\ durable' = durable \cup batch
        /\ UNCHANGED <<line, outcome>>

(* The first n callers are answered, all alike. *)
Settle(n) ==
    LET head == Range(SubSeq(line, 1, n))
    IN  \E answer \in {"resolved", "rejected"} :
            /\ answer = "resolved" => head \subseteq durable
            /\ outcome' = [s \in Shares |->
                              IF s \in head THEN answer ELSE outcome[s]]
            /\ line' = SubSeq(line, n + 1, Len(line))
            /\ UNCHANGED durable

(* The process is gone and no caller is ever answered. *)
Exit ==
    /\ line' = <<>>
    /\ outcome' = [s \in Shares |->
                      IF outcome[s] \in {"new", "waiting"} THEN "lost"
                                                           ELSE outcome[s]]
    /\ UNCHANGED durable

Next ==
    \/ \E s \in Shares : Accept(s) \/ Refuse(s)
    \/ Store
    \/ \E n \in 1..Len(line) : Settle(n)
    \/ Exit

Spec == Init /\ [][Next]_vars
=============================================================================
