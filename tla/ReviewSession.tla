--------------------------- MODULE ReviewSession ---------------------------
(***************************************************************************)
(* What the review session of one chat promises, without Redis, requests   *)
(* or stages of an apply: at most one session is open; a decision is final *)
(* and covers only what was pending; a session is claimed by one apply id  *)
(* for good; and a session that was closed never comes back.               *)
(***************************************************************************)
CONSTANTS Sids,      \* session ids
          Items,     \* what a session can offer: file changes, state ops, schema ops
          Ids,       \* apply ids
          NoSession, None

VARIABLES session,   \* NoSession, or the open session
          used       \* ids of all sessions opened so far

vars == <<session, used>>

Offered == {"absent", "pending", "unresolved"}
Status  == Offered \union {"accepted", "rejected"}

Init == session = NoSession /\ used = {}

Open == \E s \in Sids \ used, offer \in [Items -> Offered] :
  /\ session = NoSession
  /\ session' = [sid |-> s, status |-> offer, applyId |-> None]
  /\ used' = used \union {s}

Decided(status, A, R) ==
  [i \in Items |-> CASE i \in A -> "accepted" [] i \in R -> "rejected" [] OTHER -> status[i]]

Decide == \E A, R \in SUBSET Items :
  /\ session # NoSession
  /\ A \intersect R = {}
  /\ \A i \in A \union R : session.status[i] = "pending"
  /\ session' = [sid     |-> session.sid,
                 status  |-> Decided(session.status, A, R),
                 applyId |-> session.applyId]
  /\ UNCHANGED used

Claim == \E id \in Ids :
  /\ session # NoSession
  /\ session.applyId = None
  /\ session' = [sid |-> session.sid, status |-> session.status, applyId |-> id]
  /\ UNCHANGED used

Close == session' = NoSession /\ UNCHANGED used

Next == Open \/ Decide \/ Claim \/ Close
Spec == Init /\ [][Next]_vars
=============================================================================
