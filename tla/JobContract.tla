---------------------------- MODULE JobContract ----------------------------
(***************************************************************************)
(* What the shared state store promises a client about background jobs,    *)
(* whoever runs them: a job is accepted, may start, gains rows one at a    *)
(* time in the order its URLs finish, ends once, and is then frozen until  *)
(* it expires.  A job that says "done" holds a row for every URL.          *)
(***************************************************************************)
EXTENDS Naturals, Sequences, FiniteSets

CONSTANTS Jobs,  \* job ids
          Urls   \* the URLs (positions) every job asks for

VARIABLES status,  \* status[j]: what the stored record says
          rows     \* rows[j]: the URLs whose rows are stored, in order

contractVars == <<status, rows>>

Unfinished == {"queued", "running"}
Final == {"done", "failed"}
Statuses == Unfinished \cup Final \cup {"absent", "expired"}

RowsOf(j) == {rows[j][i] : i \in 1..Len(rows[j])}

ContractTypeOK ==
    /\ status \in [Jobs -> Statuses]
    /\ rows \in [Jobs -> Seq(Urls)]

ContractInit ==
    /\ status = [j \in Jobs |-> "absent"]
    /\ rows = [j \in Jobs |-> <<>>]

Accept(j) ==
    /\ status[j] = "absent"
    /\ status' = [status EXCEPT ![j] = "queued"]
    /\ UNCHANGED rows

Begin(j) ==
    /\ status[j] = "queued"
    /\ status' = [status EXCEPT ![j] = "running"]
    /\ UNCHANGED rows

AddRow(j, u) ==
    /\ status[j] = "running"
    /\ u \notin RowsOf(j)
    /\ rows' = [rows EXCEPT ![j] = Append(@, u)]
    /\ UNCHANGED status

Finish(j, s) ==
    /\ status[j] \in Unfinished
    /\ s = "done" => /\ status[j] = "running"
                     /\ RowsOf(j) = Urls
    /\ status' = [status EXCEPT ![j] = s]
    /\ UNCHANGED rows

(* Time passes and the records of a set of jobs expire, rows with them.     *)
Expire(S) ==
    /\ S # {}
    /\ \A j \in S : status[j] \in Unfinished \cup Final
    /\ status' = [j \in Jobs |-> IF j \in S THEN "expired" ELSE status[j]]
    /\ rows' = [j \in Jobs |-> IF j \in S THEN <<>> ELSE rows[j]]

ContractNext ==
    \/ \E j \in Jobs : Accept(j) \/ Begin(j)
    \/ \E j \in Jobs, u \in Urls : AddRow(j, u)
    \/ \E j \in Jobs, s \in Final : Finish(j, s)
    \/ \E S \in SUBSET Jobs : Expire(S)

ContractSpec == ContractInit /\ [][ContractNext]_contractVars

-----------------------------------------------------------------------------
(* A URL has at most one row: rows are numbered as their URLs finish.       *)
RowsDistinct ==
    \A j \in Jobs : \A a, b \in 1..Len(rows[j]) : rows[j][a] = rows[j][b] => a = b

(* A job that says done answered every URL.                                 *)
DoneIsComplete == \A j \in Jobs : status[j] = "done" => RowsOf(j) = Urls

(* Once a job has ended neither its status nor its rows change any more,    *)
(* except that both expire together.                                        *)
EndedIsFrozen ==
    [][\A j \in Jobs : status[j] \in Final =>
          \/ status'[j] = status[j] /\ rows'[j] = rows[j]
          \/ status'[j] = "expired"]_contractVars
=============================================================================
