-------------------------- MODULE JobContractProofs --------------------------
(***************************************************************************)
(* What the contract of the job store promises to whoever relies on it,    *)
(* for any set of jobs and any set of URLs.                                *)
(***************************************************************************)
EXTENDS JobContract, TLAPS

ContractInv == ContractTypeOK /\ RowsDistinct /\ DoneIsComplete

(* Appending the row of a URL that has none keeps the rows distinct.        *)
LEMMA AppendDistinct ==
  ASSUME NEW s \in Seq(Urls), NEW u \in Urls, u \notin {s[i] : i \in 1..Len(s)},
         \A a, b \in 1..Len(s) : s[a] = s[b] => a = b
  PROVE  /\ Append(s, u) \in Seq(Urls)
         /\ \A a, b \in 1..Len(Append(s, u)) : Append(s, u)[a] = Append(s, u)[b] => a = b
<1>1. /\ Len(Append(s, u)) = Len(s) + 1 /\ Len(s) \in Nat
      /\ Append(s, u)[Len(s) + 1] = u
      /\ \A a \in 1..Len(s) : Append(s, u)[a] = s[a] /\ s[a] # u
  OBVIOUS
<1> QED
  BY <1>1

(* Every step of the contract keeps its invariant: a row is only added to a *)
(* running job that has none for the URL, and only a full job becomes done. *)
LEMMA ContractStep == ContractInv /\ [ContractNext]_contractVars => ContractInv'
<1> SUFFICES ASSUME ContractInv, [ContractNext]_contractVars PROVE ContractInv'
  OBVIOUS
<1> USE DEF ContractInv
<1>1. CASE UNCHANGED contractVars
  BY <1>1 DEF contractVars, ContractTypeOK, RowsDistinct, DoneIsComplete, RowsOf
<1>2. ASSUME NEW j \in Jobs, NEW s \in {"queued", "running", "done", "failed"},
             status[j] \in {"absent", "queued", "running"},
             status' = [status EXCEPT ![j] = s], rows' = rows,
             s = "done" => RowsOf(j) = Urls
      PROVE  ContractInv'
  <2>1. ContractTypeOK'
    BY <1>2 DEF ContractTypeOK, Statuses, Unfinished, Final
  <2>2. RowsDistinct'
    BY <1>2 DEF RowsDistinct
  <2>3. DoneIsComplete'
    BY <1>2 DEF DoneIsComplete, RowsOf, ContractTypeOK
  <2> QED
    BY <2>1, <2>2, <2>3
<1>3. ASSUME NEW j \in Jobs, Accept(j) \/ Begin(j)
      PROVE  ContractInv'
  BY <1>2, <1>3 DEF Accept, Begin
<1>4. ASSUME NEW j \in Jobs, NEW u \in Urls, AddRow(j, u)
      PROVE  ContractInv'
  <2>1. /\ rows \in [Jobs -> Seq(Urls)] /\ rows[j] \in Seq(Urls)
        /\ rows' = [rows EXCEPT ![j] = Append(rows[j], u)]
        /\ u \notin {rows[j][i] : i \in 1..Len(rows[j])}
        /\ status' = status /\ status[j] = "running"
    BY <1>4 DEF AddRow, RowsOf, ContractTypeOK
  <2>2. /\ Append(rows[j], u) \in Seq(Urls)
        /\ \A a, b \in 1..Len(Append(rows[j], u)) :
              Append(rows[j], u)[a] = Append(rows[j], u)[b] => a = b
    BY <2>1, AppendDistinct DEF RowsDistinct
  <2>3. ContractTypeOK'
    BY <2>1, <2>2 DEF ContractTypeOK
  <2>4. RowsDistinct'
    BY <2>1, <2>2 DEF RowsDistinct
  <2>5. DoneIsComplete'
    BY <2>1 DEF DoneIsComplete, RowsOf
  <2> QED
    BY <2>3, <2>4, <2>5
<1>5. ASSUME NEW j \in Jobs, NEW s \in Final, Finish(j, s)
      PROVE  ContractInv'
  BY <1>2, <1>5 DEF Finish, Final, Unfinished
<1>6. ASSUME NEW S \in SUBSET Jobs, Expire(S)
      PROVE  ContractInv'
  <2>1. /\ \A j \in Jobs : status'[j] = IF j \in S THEN "expired" ELSE status[j]
        /\ \A j \in Jobs : rows'[j] = IF j \in S THEN <<>> ELSE rows[j]
    BY <1>6 DEF Expire
  <2>2. ContractTypeOK'
    BY <1>6 DEF Expire, ContractTypeOK, Statuses
  <2>3. RowsDistinct'
    BY <2>1 DEF RowsDistinct
  <2>4. DoneIsComplete'
    BY <2>1 DEF DoneIsComplete, RowsOf
  <2> QED
    BY <2>2, <2>3, <2>4
<1> QED
  BY <1>1, <1>3, <1>4, <1>5, <1>6 DEF ContractNext

(* At any time each URL has one row at most, and a job that says "done"     *)
(* holds a row for every URL: what a client of /jobs relies on.             *)
THEOREM ContractHolds == ContractSpec => [](RowsDistinct /\ DoneIsComplete)
<1>1. ContractInit => ContractInv
  BY DEF ContractInit, ContractInv, ContractTypeOK, RowsDistinct, DoneIsComplete, Statuses
<1>2. ContractInv => RowsDistinct /\ DoneIsComplete
  BY DEF ContractInv
<1> QED
  BY <1>1, <1>2, ContractStep, PTL DEF ContractSpec

(* A job that has ended never changes its answer: it only expires, rows and *)
(* record together.                                                         *)
THEOREM EndedStaysFrozen == ContractSpec => EndedIsFrozen
<1> DEFINE Frozen == \A j \in Jobs : status[j] \in Final =>
                        \/ status'[j] = status[j] /\ rows'[j] = rows[j]
                        \/ status'[j] = "expired"
<1>1. ContractInit => ContractInv
  BY DEF ContractInit, ContractInv, ContractTypeOK, RowsDistinct, DoneIsComplete, Statuses
<1>2. ContractInv /\ [ContractNext]_contractVars => [Frozen]_contractVars
  <2> SUFFICES ASSUME ContractInv, ContractNext, NEW k \in Jobs, status[k] \in Final
               PROVE  \/ status'[k] = status[k] /\ rows'[k] = rows[k]
                      \/ status'[k] = "expired"
    OBVIOUS
  <2>1. status \in [Jobs -> Statuses] /\ rows \in [Jobs -> Seq(Urls)]
    BY DEF ContractInv, ContractTypeOK
  <2>2. ASSUME NEW j \in Jobs, Accept(j) \/ Begin(j)
        PROVE  status'[k] = status[k] /\ rows'[k] = rows[k]
    BY <2>1, <2>2 DEF Accept, Begin, Final
  <2>3. ASSUME NEW j \in Jobs, NEW u \in Urls, AddRow(j, u)
        PROVE  status'[k] = status[k] /\ rows'[k] = rows[k]
    BY <2>1, <2>3 DEF AddRow, Final
  <2>4. ASSUME NEW j \in Jobs, NEW s \in Final, Finish(j, s)
        PROVE  status'[k] = status[k] /\ rows'[k] = rows[k]
    BY <2>1, <2>4 DEF Finish, Final, Unfinished
  <2>5. ASSUME NEW S \in SUBSET Jobs, Expire(S)
        PROVE  \/ status'[k] = status[k] /\ rows'[k] = rows[k]
               \/ status'[k] = "expired"
    BY <2>5 DEF Expire
  <2> QED
    BY <2>2, <2>3, <2>4, <2>5 DEF ContractNext
<1> QED
  BY <1>1, <1>2, ContractStep, PTL DEF ContractSpec, EndedIsFrozen
=============================================================================
