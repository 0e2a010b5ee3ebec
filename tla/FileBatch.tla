------------------------------ MODULE FileBatch ------------------------------
(***************************************************************************)
(* What downloadSelectedFiles of cmd/pull.go promises, whether it works    *)
(* through the files one by one or with several workers: every file it was *)
(* asked for comes to one outcome, once, and the answer names those that   *)
(* are there and is an error just when that is not all of them. Only a     *)
(* cancellation may leave files out.                                       *)
(***************************************************************************)
CONSTANT Files

VARIABLES wanted, outcome, canceled, answer

batch == <<wanted, outcome, canceled, answer>>

NoAnswer == [given |-> FALSE, ok |-> {}, err |-> FALSE]
Done     == {f \in wanted : outcome[f] = "ok"}

\* Nothing is asked, and nothing known.
Blank ==
    /\ wanted = {} /\ outcome = [f \in Files |-> "none"]
    /\ canceled = FALSE /\ answer = NoAnswer

Ask(W) ==
    /\ wanted = {} \/ answer.given
    /\ wanted' = W /\ outcome' = [f \in Files |-> "none"]
    /\ canceled' = FALSE /\ answer' = NoAnswer

Settle(f, o) ==
    /\ f \in wanted /\ ~answer.given /\ outcome[f] = "none"
    /\ outcome' = [outcome EXCEPT ![f] = o]
    /\ UNCHANGED <<wanted, canceled, answer>>

Cancel == canceled' = TRUE /\ UNCHANGED <<wanted, outcome, answer>>

Answer ==
    /\ wanted # {} /\ ~answer.given
    /\ canceled \/ \A f \in wanted : outcome[f] # "none"
    /\ answer' = [given |-> TRUE, ok |-> Done, err |-> Done # wanted]
    /\ UNCHANGED <<wanted, outcome, canceled>>

\* The command fails before, or is killed.
Quit ==
    /\ wanted' = {} /\ outcome' = [f \in Files |-> "none"]
    /\ canceled' = FALSE /\ answer' = NoAnswer

Next ==
    \/ \E W \in (SUBSET Files) \ {{}} : Ask(W)
    \/ \E f \in Files, o \in {"ok", "failed"} : Settle(f, o)
    \/ Cancel \/ Answer \/ Quit

Spec == Blank /\ [][Next]_batch
==============================================================================
