------------------------------ MODULE Promise ------------------------------
(***************************************************************************)
(* What reserving the liability of a request promises about free quota,    *)
(* whatever the dispatcher, the retrieval worker and crashes do: the       *)
(* liability is held before the provider can work on the request, it stays *)
(* counted for as long as the provider may, and it is given up at most     *)
(* once: for the usage of work that has ended, in full when that usage     *)
(* cannot be had, or for nothing when the provider never worked.           *)
(***************************************************************************)
CONSTANT Request

VARIABLES
  account,  \* where the liability of each request stands
  work      \* what the provider does for it

Account == {"absent", "held", "settled", "written off", "freed"}
Work == {"none", "running", "ended"}

Init ==
  /\ account = [r \in Request |-> "absent"]
  /\ work = [r \in Request |-> "none"]

Move(r, from, to) ==
  /\ account[r] = from
  /\ account' = [account EXCEPT ![r] = to]
  /\ UNCHANGED work

Hold(r) == Move(r, "absent", "held")

\* The provider may begin after the proxy has given up on the request, but
\* never once its liability has been freed.
Begin(r) ==
  /\ account[r] \in {"held", "written off"}
  /\ work[r] = "none"
  /\ work' = [work EXCEPT ![r] = "running"]
  /\ UNCHANGED account

End(r) ==
  /\ work[r] = "running"
  /\ work' = [work EXCEPT ![r] = "ended"]
  /\ UNCHANGED account

Settle(r) == work[r] = "ended" /\ Move(r, "held", "settled")

WriteOff(r) == Move(r, "held", "written off")

\* A restart may free several requests at once.
Free(S) ==
  /\ \A r \in S : account[r] = "held" /\ work[r] = "none"
  /\ account' = [r \in Request |-> IF r \in S THEN "freed" ELSE account[r]]
  /\ UNCHANGED work

Next ==
  \/ \E r \in Request : Hold(r) \/ Begin(r) \/ End(r) \/ Settle(r) \/ WriteOff(r)
  \/ \E S \in SUBSET Request : Free(S)

Spec == Init /\ [][Next]_<<account, work>>
=============================================================================
