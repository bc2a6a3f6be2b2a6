------------------------ MODULE MCUpdateModeSession ------------------------
(* Instances of UpdateModeSession for TLC.                                 *)
EXTENDS UpdateModeSession

\* Proposals offer every item; a file change may be unresolved.
Offer(files, ops, schema, unresolved) ==
  [i \in Items |-> IF i \in unresolved THEN "unresolved"
                   ELSE IF i \in files \union ops \union schema THEN "pending" ELSE "absent"]

AllOffered == {Offer(Files, StateOps, Schema, {})}
FilesMayFail == {Offer(Files, StateOps, Schema, {}), Offer(Files, StateOps, {}, {"f1"})}

Body(a, r, e) == [accept |-> a, reject |-> r, edit |-> e]
AcceptAll == {Body(Items, {}, {})}
OneByOne == {Body({"f1"}, {}, {}), Body({"f2"}, {}, {})}
TwoDecisions == {Body({"f1"}, {"o1"}, {}), Body({"c1", "o1"}, {}, {}), Body({"f1"}, {}, {"o1"})}

\* The requests are named by what they do.
KindOf == [s1 |-> "start", s2 |-> "start", p1 |-> "propose", v1 |-> "review", v2 |-> "review",
           a1 |-> "apply", a2 |-> "apply", a3 |-> "apply", x1 |-> "cancel"]
MCKind == [r \in Requests |-> KindOf[r]]

\* a1 and a2 carry the same client-made id, every other request none.
SameId  == [r \in Requests |-> IF r \in {"a1", "a2"} THEN "c" ELSE None]

MCKeyOf == [o \in StateOps \union Schema |-> IF o \in {"c1"} THEN "k1" ELSE "k2"]
=============================================================================
