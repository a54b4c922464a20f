------------------------------ MODULE RunLife ------------------------------
(***************************************************************************)
(* What the queue promises of each run, free of workers, leases and lost   *)
(* replies: it is claimed until one execution closes it, closed once and   *)
(* for good, refunded in that step or never, and what is stored of it      *)
(* afterwards is the last execution's.  Answers are less strict: any       *)
(* execution that was claimed may still append its own.                    *)
(***************************************************************************)
EXTENDS Naturals

CONSTANT Runs

VARIABLES status, claims, refunds, answers, artifacts

vars == <<status, claims, refunds, answers, artifacts>>

Init ==
    /\ status = [r \in Runs |-> "absent"]
    /\ claims = [r \in Runs |-> 0]
    /\ refunds = [r \in Runs |-> 0]
    /\ answers = [r \in Runs |-> {}]
    /\ artifacts = [r \in Runs |-> {}]

Enqueue(r) ==
    /\ status[r] = "absent"
    /\ status' = [status EXCEPT ![r] = "queued"]
    /\ UNCHANGED <<claims, refunds, answers, artifacts>>

\* The first execution of the run, or one that takes over.
Claim(r) ==
    /\ status[r] \in {"queued", "running"}
    /\ status' = [status EXCEPT ![r] = "running"]
    /\ claims' = [claims EXCEPT ![r] = @ + 1]
    /\ UNCHANGED <<refunds, answers, artifacts>>

\* The use is given back when the run times out, and sometimes when it fails.
MayGo(s, refund) ==
    /\ s = "completed" => ~refund
    /\ s = "timeout" => refund

Close(r, s) ==
    /\ status[r] = "running"
    /\ status' = [status EXCEPT ![r] = s]
    /\ \E refund \in BOOLEAN :
          /\ MayGo(s, refund)
          /\ refunds' = IF refund THEN [refunds EXCEPT ![r] = @ + 1] ELSE refunds
    /\ UNCHANGED <<claims, answers, artifacts>>

\* Execution n of the run tells the user how it went.
Answer(r, n) ==
    /\ n \notin answers[r]
    /\ answers' = [answers EXCEPT ![r] = @ \cup {n}]
    /\ UNCHANGED <<status, claims, refunds, artifacts>>

Store(r) ==
    /\ status[r] = "completed" /\ artifacts[r] = {}
    /\ artifacts' = [artifacts EXCEPT ![r] = {claims[r]}]
    /\ UNCHANGED <<status, claims, refunds, answers>>

Next ==
    \E r \in Runs :
        \/ Enqueue(r) \/ Claim(r) \/ Store(r)
        \/ \E s \in {"completed", "failed", "timeout"} : Close(r, s)
        \/ \E n \in 1 .. claims[r] : Answer(r, n)

Spec == Init /\ [][Next]_vars
=============================================================================
