-------------------------- MODULE ChatPipelineProofs --------------------------
(***************************************************************************)
(* Proofs about ChatPipeline for every set of requests, every acyclic      *)
(* pipeline and every bound.                                               *)
(***************************************************************************)
EXTENDS ChatPipeline, FiniteSetTheorems, SequenceTheorems, WellFoundedInduction, TLAPS

-----------------------------------------------------------------------------
(* Execution levels. *)

\* A set of natural numbers that is not empty has a least one.
LEMMA Least ==
  ASSUME NEW S \in SUBSET Nat, S # {}
  PROVE  \E n \in S : \A m \in S : n <= m
<1> DEFINE R == OpToRel(<, Nat)
<1>1. IsWellFoundedOn(R, Nat)
  BY NatLessThanWellFounded
<1>2. \A x, y \in Nat : x < y => <<x, y>> \in R
  BY DEF OpToRel
<1> HIDE DEF R
<1>3. PICK n \in S : \A m \in S : ~ (<<m, n>> \in R)
  BY <1>1, WFMin
<1>4. ASSUME NEW m \in S PROVE ~(m < n)
  BY <1>2, <1>3
<1> QED
  BY <1>4

Size == Cardinality(Step)

\* up[i]: the steps of the levels up to i.
Below(up, i) == IF i = 0 THEN {} ELSE up[i - 1]
Ready(up, i) == {s \in Step : After[s] \cap Step \subseteq Below(up, i)}
IsUpto(up, k) == up \in [0 .. k -> SUBSET Step] /\ \A i \in 0 .. k : up[i] = Ready(up, i)

LEMMA UptoExists == \A k \in Nat : \E up : IsUpto(up, k)
<1> DEFINE bad == {k \in Nat : ~ \E up : IsUpto(up, k)}
<1> SUFFICES ASSUME bad # {} PROVE FALSE
  OBVIOUS
<1>1. PICK k \in bad : \A m \in bad : k <= m
  BY Least
<1>2. CASE k = 0
  <2> DEFINE up == [i \in 0 .. 0 |-> {s \in Step : After[s] \cap Step \subseteq {}}]
  <2>1. IsUpto(up, 0)
    BY DEF IsUpto, Ready, Below
  <2> QED
    BY <1>1, <1>2, <2>1
<1>3. CASE k # 0
  <2>1. k - 1 \in Nat /\ k - 1 \notin bad
    BY <1>1, <1>3
  <2>2. PICK old : IsUpto(old, k - 1)
    BY <2>1
  <2> DEFINE next == {s \in Step : After[s] \cap Step \subseteq old[k - 1]}
             up == [i \in 0 .. k |-> IF i = k THEN next ELSE old[i]]
  <2>3. \A i \in 0 .. k - 1 : up[i] = old[i] /\ Below(up, i) = Below(old, i)
    BY <2>1 DEF Below
  <2>4. up[k] = next /\ Below(up, k) = old[k - 1]
    BY <1>3, <2>1 DEF Below
  <2>5. up \in [0 .. k -> SUBSET Step]
    BY <2>1, <2>2 DEF IsUpto
  <2> HIDE DEF up
  <2>6. ASSUME NEW i \in 0 .. k PROVE up[i] = Ready(up, i)
    <3>1. CASE i = k
      BY <2>4, <3>1 DEF Ready
    <3>2. CASE i # k
      <4>1. i \in 0 .. k - 1
        BY <2>1, <3>2
      <4> QED
        BY <2>2, <2>3, <4>1 DEF IsUpto, Ready
    <3> QED
      BY <3>1, <3>2
  <2> QED
    BY <1>1, <2>5, <2>6 DEF IsUpto
<1> QED
  BY <1>2, <1>3

\* What topological_sort computes: a step is in the first level that lies behind all
\* the levels of its parents.
LEMMA LevelsAre ==
  \E up : IsUpto(up, Size) /\ Levels = [i \in 0 .. Size |-> up[i] \ Below(up, i)]
<1>1. Size \in Nat
  BY PipelineAssumption, FS_CardinalityType DEF Size
<1> DEFINE Eq(f) == f = [i \in 0 .. Size |-> {s \in Step : After[s] \cap Step \subseteq (IF i = 0 THEN {} ELSE f[i - 1])}]
           U == CHOOSE f : Eq(f)
<1>2. \E f : Eq(f)
  <2>1. PICK up : IsUpto(up, Size)
    BY <1>1, UptoExists
  <2>2. \A i \in 0 .. Size :
          up[i] = {s \in Step : After[s] \cap Step \subseteq (IF i = 0 THEN {} ELSE up[i - 1])}
    BY <2>1 DEF IsUpto, Ready, Below
  <2>3. up = [i \in 0 .. Size |-> up[i]]
    BY <2>1 DEF IsUpto
  <2>4. Eq(up)
    BY <2>2, <2>3
  <2> QED
    BY <2>4
<1>3. Eq(U)
  BY <1>2
<1>4. Levels = [i \in 0 .. Size |-> U[i] \ (IF i = 0 THEN {} ELSE U[i - 1])]
  BY DEF Levels, LevelsOf, Size
<1> HIDE DEF U
<1> QED
  BY <1>3, <1>4 DEF IsUpto, Ready, Below

LEMMA UptoGrows ==
  ASSUME NEW up, IsUpto(up, Size)
  PROVE  \A i, j \in 0 .. Size : i <= j => up[i] \subseteq up[j]
<1>1. Size \in Nat
  BY PipelineAssumption, FS_CardinalityType DEF Size
<1>2. ASSUME NEW i \in 0 .. Size PROVE Below(up, i) \subseteq up[i]
  <2> DEFINE bad == {k \in 0 .. Size : ~(Below(up, k) \subseteq up[k])}
  <2> SUFFICES ASSUME bad # {} PROVE FALSE
    OBVIOUS
  <2>0. bad \in SUBSET Nat
    BY <1>1
  <2>1. PICK k \in bad : \A m \in bad : k <= m
    BY <2>0, Least
  <2>2. k # 0 /\ k \in 0 .. Size
    BY <2>1 DEF Below
  <2>3. k - 1 \in 0 .. Size /\ k - 1 \notin bad /\ Below(up, k) = up[k - 1]
    BY <1>1, <2>1, <2>2 DEF Below
  <2>4. Below(up, k - 1) \subseteq Below(up, k)
    BY <2>3
  <2>5. up[k - 1] = Ready(up, k - 1) /\ up[k] = Ready(up, k)
    BY <2>2, <2>3 DEF IsUpto
  <2>6. up[k - 1] \subseteq up[k]
    BY <2>4, <2>5 DEF Ready
  <2> QED
    BY <2>1, <2>3, <2>6
<1>3. ASSUME NEW i \in 0 .. Size, NEW j \in 0 .. Size, i <= j PROVE up[i] \subseteq up[j]
  <2> DEFINE bad == {k \in i .. Size : ~(up[i] \subseteq up[k])}
  <2> SUFFICES ASSUME bad # {} PROVE FALSE
    BY <1>1, <1>3
  <2>0. bad \in SUBSET Nat
    BY <1>1
  <2>1. PICK k \in bad : \A m \in bad : k <= m
    BY <2>0, Least
  <2>2. k # i /\ k \in i .. Size
    BY <2>1
  <2>3. k - 1 \in i .. Size /\ k - 1 \notin bad /\ k \in 0 .. Size /\ k # 0
    BY <1>1, <2>1, <2>2
  <2>4. up[k - 1] \subseteq up[k]
    BY <1>2, <2>3 DEF Below
  <2> QED
    BY <2>1, <2>3, <2>4
<1> QED
  BY <1>3

\* Every step is in one level, behind the levels of all its parents, and no level
\* between two of them is empty: the levels are exactly those below Depth.
LEMMA LevelFacts ==
  /\ Depth \in Nat
  /\ \A s \in Step : \E i \in 0 .. Depth - 1 : s \in Levels[i]
  /\ \A i \in 0 .. Depth - 1 : Levels[i] \subseteq Step
  /\ \A i, j \in 0 .. Depth - 1 : \A s : s \in Levels[i] /\ s \in Levels[j] => i = j
  /\ \A i \in 0 .. Depth - 1 : \A s \in Levels[i] : \A p \in After[s] :
       \E j \in 0 .. i - 1 : p \in Levels[j]
<1>1. Size \in Nat
  BY PipelineAssumption, FS_CardinalityType DEF Size
<1>2. PICK up : IsUpto(up, Size) /\ Levels = [i \in 0 .. Size |-> up[i] \ Below(up, i)]
  BY LevelsAre
<1>3. \A i, j \in 0 .. Size : i <= j => up[i] \subseteq up[j]
  BY <1>2, UptoGrows
<1>4. \A i \in 0 .. Size : Levels[i] = up[i] \ Below(up, i) /\ up[i] \subseteq Step /\ up[i] = Ready(up, i)
  BY <1>2 DEF IsUpto
<1>5. ASSUME NEW i \in 0 .. Size, NEW j \in 0 .. Size, NEW s, s \in Levels[i], s \in Levels[j], i < j
      PROVE  FALSE
  <2>1. j # 0 /\ j - 1 \in 0 .. Size /\ i <= j - 1
    BY <1>1, <1>5
  <2>2. s \in up[j - 1] /\ s \notin up[j - 1]
    BY <1>3, <1>4, <1>5, <2>1 DEF Below
  <2> QED
    BY <2>2
<1>6. ASSUME NEW i \in 0 .. Size, NEW s \in Levels[i], NEW p \in After[s]
      PROVE  \E j \in 0 .. i - 1 : p \in Levels[j]
  <2>1. s \in Ready(up, i) /\ s \in Step
    BY <1>4
  <2>2. p \in Step
    BY <2>1, PipelineAssumption
  <2>3. i # 0 /\ p \in up[i - 1]
    BY <2>1, <2>2 DEF Ready, Below
  <2> DEFINE have == {j \in 0 .. Size : p \in up[j]}
  <2>4. i - 1 \in have
    BY <1>1, <2>3
  <2>5. PICK j \in have : \A m \in have : j <= m
    <3>1. have \in SUBSET Nat /\ have # {}
      BY <1>1, <2>4
    <3> QED
      BY <3>1, Least
  <2>6. j \in 0 .. i - 1 /\ j \in 0 .. Size
    BY <1>1, <2>4, <2>5
  <2>7. j # 0 => j - 1 \in 0 .. Size /\ ~(j <= j - 1)
    BY <1>1, <2>6
  <2>8. j # 0 => p \notin up[j - 1]
    BY <2>5, <2>7
  <2> QED
    BY <1>4, <2>5, <2>6, <2>8 DEF Below
<1>7. ASSUME NEW i \in 0 .. Size, i # 0, Levels[i - 1] = {} PROVE Levels[i] = {}
  <2>1. i - 1 \in 0 .. Size /\ Below(up, i) = up[i - 1]
    BY <1>1, <1>7 DEF Below
  <2>2. up[i - 1] \subseteq Below(up, i - 1)
    BY <1>4, <1>7, <2>1
  <2>3. up[i] \subseteq up[i - 1]
    BY <1>4, <2>1, <2>2 DEF Ready
  <2> QED
    BY <1>4, <2>1, <2>3
<1> DEFINE full == {i \in 0 .. Size : Levels[i] # {}}
           free == {i \in Nat : i \notin full}
<1>8. PICK k \in free : \A m \in free : k <= m
  <2>1. Size + 1 \in free /\ free \in SUBSET Nat
    BY <1>1
  <2> QED
    BY <2>1, Least
<1>9. \A i \in full : i < k
  <2> DEFINE bad == {i \in full : i > k}
  <2> SUFFICES ASSUME bad # {} PROVE FALSE
    BY <1>8
  <2>0. bad \in SUBSET Nat
    BY <1>1
  <2>1. PICK i \in bad : \A m \in bad : i <= m
    BY <2>0, Least
  <2>2. i - 1 \in 0 .. Size /\ i # 0 /\ i - 1 \notin bad /\ i - 1 >= k
    BY <1>1, <1>8, <2>1
  <2>3. i - 1 \in full
    BY <1>7, <2>1, <2>2
  <2> QED
    BY <1>8, <2>2, <2>3
<1>10. full = 0 .. k - 1
  <2>1. ASSUME NEW i \in 0 .. k - 1 PROVE i \in full
    BY <1>8, <2>1
  <2>2. ASSUME NEW i \in full PROVE i \in 0 .. k - 1
    BY <1>1, <1>8, <1>9
  <2> QED
    BY <2>1, <2>2
<1>11. Depth = k
  <2>1. DOMAIN Levels = 0 .. Size
    BY <1>2
  <2>2. Depth = Cardinality(full)
    BY <2>1 DEF Depth
  <2> QED
    <3>1. k \in Nat /\ k - 1 \in Int /\ 0 \in Int
      BY <1>8
    <3>2. Cardinality(0 .. k - 1) = IF 0 > k - 1 THEN 0 ELSE (k - 1) - 0 + 1
      BY <3>1, FS_Interval
    <3>3. Cardinality(0 .. k - 1) = k
      BY <3>1, <3>2
    <3> HIDE DEF full
    <3> QED
      BY <1>10, <2>2, <3>3
<1> HIDE DEF free
<1>12. \A i : i \in 0 .. Depth - 1 <=> i \in 0 .. Size /\ Levels[i] # {}
  BY <1>10, <1>11
<1>13. \A s \in Step : \E i \in 0 .. Size : s \in Levels[i]
  BY <1>2, AcyclicAssumption
<1> HIDE DEF full
<1>14. Depth \in Nat
  BY <1>8, <1>11 DEF free
<1>15. \A i \in 0 .. Depth - 1 : i \in 0 .. Size /\ i \in Nat
  BY <1>12, <1>14
<1>16. \A i \in 0 .. Depth - 1 : \A j \in 0 .. i - 1 : j \in 0 .. Depth - 1
  BY <1>14
<1>17. \A i, j \in 0 .. Depth - 1 : \A s : s \in Levels[i] /\ s \in Levels[j] => i = j
  BY <1>5, <1>15
<1>18. \A i \in 0 .. Depth - 1 : Levels[i] \subseteq Step
  BY <1>4, <1>15
<1>19. \A s \in Step : \E i \in 0 .. Depth - 1 : s \in Levels[i]
  BY <1>12, <1>13
<1>20. \A i \in 0 .. Depth - 1 : \A s \in Levels[i] : \A p \in After[s] :
         \E j \in 0 .. i - 1 : p \in Levels[j]
  BY <1>6, <1>15
<1> QED
  BY <1>14, <1>17, <1>18, <1>19, <1>20

\* The level of a step, as resume_pipeline looks it up, without the graph behind it.
LEMMA LevelOfFacts ==
  /\ Depth \in Nat
  /\ \A s \in Step : LevelOf(s) \in 0 .. Depth - 1
  /\ \A i \in Nat : Level(i) = {s \in Step : LevelOf(s) = i}
  /\ \A s \in Step : \A p \in After[s] : p \in Step /\ LevelOf(p) < LevelOf(s)
<1>1. \A s \in Step : LevelOf(s) \in 0 .. Depth - 1 /\ s \in Levels[LevelOf(s)]
  BY LevelFacts DEF LevelOf
<1>2. \A i \in 0 .. Depth - 1 : \A s : s \in Levels[i] => s \in Step /\ LevelOf(s) = i
  BY <1>1, LevelFacts
<1>3. ASSUME NEW i \in Nat PROVE Level(i) = {s \in Step : LevelOf(s) = i}
  <2>1. CASE i < Depth
    <3>1. i \in 0 .. Depth - 1 /\ Level(i) = Levels[i]
      BY <2>1, LevelFacts DEF Level
    <3> QED
      BY <1>1, <1>2, <3>1
  <2>2. CASE ~(i < Depth)
    <3>1. Level(i) = {}
      BY <2>2 DEF Level
    <3>2. \A s \in Step : LevelOf(s) # i
      BY <1>1, <2>2, LevelFacts
    <3> QED
      BY <3>1, <3>2
  <2> QED
    BY <2>1, <2>2
<1>4. ASSUME NEW s \in Step, NEW p \in After[s] PROVE p \in Step /\ LevelOf(p) < LevelOf(s)
  <2>1. PICK j \in 0 .. LevelOf(s) - 1 : p \in Levels[j]
    BY <1>1, LevelFacts
  <2>2. j \in 0 .. Depth - 1 /\ j < LevelOf(s)
    BY <1>1, <2>1, LevelFacts
  <2> QED
    BY <1>2, <2>1, <2>2
<1> QED
  BY <1>1, <1>3, <1>4, LevelFacts

-----------------------------------------------------------------------------
(* The inductive invariant. *)

Ats == {"idle", "planning", "answering", "routing", "replying", "steps", "levels_done", "compose",
        "save", "save_empty", "save_question", "save_again", "saved", "confirmed", "declined",
        "offer_expired", "resumed", "cancelled", "selecting"}
Froms == {"none", "stream", "send", "offer", "pause", "full_doc", "plain_doc"}
Clarification ==
  [stage : {"idle", "collecting", "complete", "fallback"}, missing : BOOLEAN, turn : Nat]
ReqSet ==
  [at : Ats, asked : Clarification, level : 0 .. Depth, todo : SUBSET Step,
   results : [Step -> Result], ran : Seq(Step), token : Nat, from : Froms]
PauseSet ==
  [at : {"none", "validation", "full_doc", "plain_doc"}, token : Nat, step : Step \cup {"none"},
   results : [Step -> Result], ran : Seq(Step)]

\* What ChainIsOrdered says of the steps run, in order.
Has(ran, s) == \E i \in DOMAIN ran : ran[i] = s
Chain(ran) ==
  \A i \in DOMAIN ran :
    /\ \A j \in DOMAIN ran : ran[i] = ran[j] => i = j
    /\ \A p \in After[ran[i]] : p \in BesideValidation \/ \E j \in 1 .. i - 1 : ran[j] = p

\* How far a run is: the levels before this one are done, but for steps beside a
\* validation, of this one the steps of todo are left, and none of a later one has run.
Progress(ran, level, todo) ==
  \A s \in Step :
    /\ LevelOf(s) < level => Has(ran, s) \/ s \in BesideValidation
    /\ LevelOf(s) = level => (Has(ran, s) <=> s \notin todo)
    /\ Has(ran, s) => LevelOf(s) <= level
Through(ran, level) == Progress(ran, level, Level(level))
Done(ran) == \A s \in Step \ BesideValidation : Has(ran, s)

Deciding == {"confirmed", "declined", "offer_expired", "resumed", "cancelled", "selecting"}
Sound(q) ==
  /\ q \in ReqSet /\ Chain(q.ran)
  /\ q.at = "steps" =>
       q.level < Depth /\ q.todo \subseteq Level(q.level) /\ Progress(q.ran, q.level, q.todo)
  /\ q.at = "resumed" => q.level < Depth /\ Through(q.ran, q.level + 1)
  /\ q.at \in {"levels_done", "compose"} => Done(q.ran)
  /\ q.at = "selecting" /\ q.from # "plain_doc" => Done(q.ran)
  /\ q.at \in {"planning", "answering", "routing", "confirmed"} => q.ran = <<>>
  /\ q.at \in {"planning", "answering"} => q.from = "stream"
  /\ q.at \notin Deciding => q.token = 0
  /\ q.at \in Deciding => (q.from = "offer" <=> q.at \in {"confirmed", "declined", "offer_expired"})

SoundPause ==
  /\ pause \in PauseSet /\ Chain(pause.ran)
  /\ pause.at = "validation" => pause.step \in Step /\ Through(pause.ran, LevelOf(pause.step) + 1)
  /\ pause.at = "full_doc" => Done(pause.ran)

\* Tokens: one that a request holds, of an offer or of a pause, is not one of the
\* other kind, and what is stored was not taken out before.
Held(q, last, offer, paused) ==
  /\ q.token \in 0 .. last
  /\ q.token # 0 /\ q.from = "offer" => q.token # paused
  /\ q.token # 0 /\ q.from # "offer" => q.token # offer
Tokens ==
  /\ \A t \in spent : t \in 1 .. minted
  /\ pending \in 0 .. minted /\ pause.token \in 0 .. minted
  /\ pending \notin spent /\ pause.token \notin spent
  /\ pending = pause.token => pending = 0
  /\ \A r \in Req : Held(req[r], minted, pending, pause.token)

\* A request hands out one token at most, which MaxToken has room for.
Active == {r \in Req : req[r].at # "idle"}
Minters == {r \in Req : req[r].at \notin {"idle", "save_empty", "saved"}}
Room ==
  /\ minted \in Nat /\ IsFiniteSet(Active)
  /\ minted + Cardinality(Minters) <= MaxToken

PipelineInv ==
  /\ fsm \in Clarification /\ DOMAIN req = Req
  /\ \A r \in Req : Sound(req[r])
  /\ SoundPause /\ Tokens /\ Room

-----------------------------------------------------------------------------
(* Runs of steps. *)

\* Past the last level every step has run that is not beside a validation step.
LEMMA AllDone ==
  ASSUME NEW ran, NEW level, Through(ran, level), ~(level < Depth), level \in 0 .. Depth
  PROVE  Done(ran)
<1>1. Depth \in Nat /\ \A s \in Step : LevelOf(s) \in Nat /\ LevelOf(s) < Depth
  BY LevelOfFacts
<1> QED
  BY <1>1 DEF Through, Progress, Done

LEMMA NoRun ==
  /\ Chain(<<>>) /\ Through(<<>>, 0) /\ \A s : ~Has(<<>>, s)
BY LevelOfFacts DEF Chain, Through, Progress, Has

\* A step still to do may run next: it has not run, and its parents have or are exempt.
LEMMA ChainGrows ==
  ASSUME NEW ran \in Seq(Step), Chain(ran), NEW level \in Nat, NEW todo \in SUBSET Level(level),
         Progress(ran, level, todo), NEW s \in todo
  PROVE  /\ Append(ran, s) \in Seq(Step) /\ Chain(Append(ran, s))
         /\ \A t : Has(Append(ran, s), t) <=> Has(ran, t) \/ t = s
<1>1. s \in Step /\ LevelOf(s) = level /\ ~Has(ran, s)
  BY LevelOfFacts DEF Progress
<1> DEFINE n == Len(ran)
           new == Append(ran, s)
<1>2. /\ new \in Seq(Step) /\ n \in Nat /\ DOMAIN ran = 1 .. n /\ DOMAIN new = 1 .. n + 1
      /\ new[n + 1] = s /\ \A i \in 1 .. n : new[i] = ran[i]
  BY <1>1, AppendProperties
<1> HIDE DEF new
<1>3. \A t : Has(new, t) <=> Has(ran, t) \/ t = s
  BY <1>2 DEF Has
<1>4. ASSUME NEW i \in DOMAIN new, NEW j \in DOMAIN new, new[i] = new[j] PROVE i = j
  BY <1>1, <1>2, <1>4 DEF Chain, Has
<1>5. ASSUME NEW i \in DOMAIN new, NEW p \in After[new[i]]
      PROVE  p \in BesideValidation \/ \E j \in 1 .. i - 1 : new[j] = p
  <2>1. CASE i \in 1 .. n
    <3>1. p \in BesideValidation \/ \E j \in 1 .. i - 1 : ran[j] = p
      BY <1>2, <1>5, <2>1 DEF Chain
    <3>2. \A j \in 1 .. i - 1 : j \in 1 .. n
      BY <1>2, <2>1
    <3> QED
      BY <1>2, <3>1, <3>2
  <2>2. CASE i = n + 1
    <3>1. p \in Step /\ LevelOf(p) < level
      BY <1>1, <1>2, <1>5, <2>2, LevelOfFacts
    <3>2. Has(ran, p) \/ p \in BesideValidation
      BY <3>1 DEF Progress
    <3>3. i - 1 = n
      BY <1>2, <2>2
    <3> QED
      BY <1>2, <3>2, <3>3 DEF Has
  <2> QED
    BY <1>2, <2>1, <2>2
<1> QED
  BY <1>2, <1>3, <1>4, <1>5 DEF Chain, new

LEMMA ProgressGrows ==
  ASSUME NEW ran, NEW new, NEW level \in Nat, NEW todo \in SUBSET Level(level), NEW s \in todo,
         Progress(ran, level, todo),
         \A t : Has(new, t) <=> Has(ran, t) \/ t = s
  PROVE  /\ Progress(new, level, todo \ {s})
         /\ todo \ {s} = {} => Through(new, level + 1)
<1>1. s \in Step /\ LevelOf(s) = level /\ \A t \in Step : LevelOf(t) \in Nat
  BY LevelOfFacts
<1>2. Progress(new, level, todo \ {s})
  BY <1>1 DEF Progress
<1>3. ASSUME todo \ {s} = {} PROVE Through(new, level + 1)
  <2>1. Level(level + 1) = {t \in Step : LevelOf(t) = level + 1}
    BY LevelOfFacts
  <2>2. \A t \in Step : Has(new, t) => LevelOf(t) <= level
    BY <1>2 DEF Progress
  <2>3. \A t \in Step : LevelOf(t) < level + 1 => Has(new, t) \/ t \in BesideValidation
    BY <1>1, <1>2, <1>3 DEF Progress
  <2> QED
    BY <1>1, <2>1, <2>2, <2>3 DEF Through, Progress
<1> QED
  BY <1>2, <1>3

\* A validation step leaves its level: what it leaves undone lies beside it.
LEMMA ValidationPasses ==
  ASSUME NEW ran, NEW new, NEW level \in Nat, NEW todo \in SUBSET Level(level), NEW s \in todo,
         Progress(ran, level, todo), Kind[s] = "validation",
         \A t : Has(new, t) <=> Has(ran, t) \/ t = s
  PROVE  s \in Step /\ Through(new, LevelOf(s) + 1)
<1>1. s \in Step /\ LevelOf(s) = level /\ \A t \in Step : LevelOf(t) \in Nat
  BY LevelOfFacts
<1>2. Level(level + 1) = {t \in Step : LevelOf(t) = level + 1} /\ Level(level) = {t \in Step : LevelOf(t) = level}
  BY LevelOfFacts
<1>3. \A t \in Step : LevelOf(t) = level /\ t # s => t \in BesideValidation
  BY <1>1, <1>2 DEF BesideValidation
<1>4. \A t \in Step : Has(new, t) => LevelOf(t) <= level
  BY <1>1 DEF Progress
<1>5. \A t \in Step : LevelOf(t) < level + 1 => Has(new, t) \/ t \in BesideValidation
  BY <1>1, <1>3 DEF Progress
<1> QED
  BY <1>1, <1>2, <1>4, <1>5 DEF Through, Progress

\* The length of a run is bounded by the number of steps.
LEMMA RunsAre ==
  ASSUME NEW ran \in Seq(Step), Chain(ran)
  PROVE  ran \in Runs
<1> DEFINE n == Len(ran)
<1>1. n \in Nat /\ ran \in [1 .. n -> Step]
  BY LenProperties
<1>2. Cardinality(Step) \in Nat /\ IsFiniteSet(1 .. n) /\ Cardinality(1 .. n) = n
  <2>1. IsFiniteSet(1 .. n) /\ Cardinality(1 .. n) = IF 1 > n THEN 0 ELSE n - 1 + 1
    BY <1>1, FS_Interval
  <2> QED
    BY <1>1, <2>1, PipelineAssumption, FS_CardinalityType
<1>3. ~(Cardinality(Step) < n)
  <2>1. ~ \E i, j \in 1 .. n : i # j /\ ran[i] = ran[j]
    BY <1>1 DEF Chain
  <2> QED
    BY <1>1, <1>2, <2>1, PipelineAssumption, FS_PigeonHole
<1>4. n \in 0 .. Cardinality(Step)
  BY <1>1, <1>2, <1>3
<1> QED
  BY <1>1, <1>4 DEF Runs

-----------------------------------------------------------------------------
(* Every step leaves a sound request and a clarification. *)

Easy == Ats \ ({"steps", "levels_done", "compose", "planning", "answering", "routing"} \cup Deciding)

LEMMA IdleIs == Idle \in Clarification /\ Idle.stage = "idle"
BY DEF Idle, Clarification

LEMMA NoResultsAre == NoResults \in [Step -> Result]
BY DEF NoResults, Result

LEMMA NoReqSound ==
  /\ Sound(NoReq)
  /\ \A at \in Easy : Sound([NoReq EXCEPT !.at = at])
  /\ \A at \in Easy, from \in Froms : Sound([NoReq EXCEPT !.at = at, !.from = from])
<1>1. NoReq \in ReqSet
  BY IdleIs, NoResultsAre, LevelOfFacts DEF NoReq, ReqSet, Ats, Froms
<1>2. NoReq.ran = <<>> /\ NoReq.token = 0 /\ NoReq.from = "none" /\ NoReq.at = "idle"
  BY DEF NoReq
<1> HIDE DEF NoReq
<1>3. \A at \in Easy : [NoReq EXCEPT !.at = at] \in ReqSet
  BY <1>1 DEF ReqSet, Easy
<1>4. \A at \in Easy, from \in Froms : [NoReq EXCEPT !.at = at, !.from = from] \in ReqSet
  BY <1>1 DEF ReqSet, Easy
<1>5. Sound(NoReq)
  BY <1>1, <1>2, NoRun DEF Sound, Deciding
<1>6. ASSUME NEW at \in Easy PROVE Sound([NoReq EXCEPT !.at = at])
  <2> DEFINE new == [NoReq EXCEPT !.at = at]
  <2>1. new \in ReqSet
    BY <1>3
  <2>2. new.ran = <<>> /\ new.token = 0 /\ new.from = "none" /\ new.at = at
    BY <1>1, <1>2 DEF ReqSet
  <2> HIDE DEF new
  <2>3. Sound(new)
    BY <2>1, <2>2, NoRun DEF Sound, Easy, Deciding
  <2> QED
    BY <2>3 DEF new
<1>7. ASSUME NEW at \in Easy, NEW from \in Froms
      PROVE  Sound([NoReq EXCEPT !.at = at, !.from = from])
  <2> DEFINE new == [NoReq EXCEPT !.at = at, !.from = from]
  <2>1. new \in ReqSet
    BY <1>4
  <2>2. new.ran = <<>> /\ new.token = 0 /\ new.from = from /\ new.at = at
    BY <1>1, <1>2 DEF ReqSet
  <2> HIDE DEF new
  <2>3. Sound(new)
    BY <2>1, <2>2, NoRun DEF Sound, Easy, Deciding
  <2> QED
    BY <2>3 DEF new
<1> QED
  BY <1>5, <1>6, <1>7

LEMMA AtSound ==
  ASSUME NEW q, Sound(q), q.at \notin Deciding, NEW at \in Easy
  PROVE  Sound([q EXCEPT !.at = at])
<1> DEFINE new == [q EXCEPT !.at = at]
<1>1. /\ new \in ReqSet /\ new.ran = q.ran /\ new.token = q.token /\ new.asked = q.asked
      /\ new.from = q.from /\ new.at = at
  BY DEF Sound, ReqSet, Easy
<1> HIDE DEF new
<1>2. Sound(new)
  BY <1>1 DEF Sound, Easy, Deciding
<1> QED
  BY <1>2 DEF new

LEMMA EnterSound ==
  ASSUME NEW q \in ReqSet, Chain(q.ran), NEW level \in 0 .. Depth, Through(q.ran, level),
         q.token = 0
  PROVE  Sound(Enter(q, level))
<1> DEFINE new == Enter(q, level)
<1>1. Level(level) \subseteq Step /\ level \in Nat /\ Depth \in Nat
  BY LevelOfFacts
<1>2. /\ new \in ReqSet /\ new.ran = q.ran /\ new.token = 0 /\ new.asked = q.asked
      /\ new.from = q.from /\ new.level = level /\ new.todo = Level(level)
      /\ new.at = IF level < Depth THEN "steps" ELSE "levels_done"
  BY <1>1 DEF Enter, ReqSet, Ats
<1> HIDE DEF new
<1>3. ~(level < Depth) => Done(new.ran)
  BY <1>2, AllDone
<1>4. Sound(new)
  BY <1>1, <1>2, <1>3 DEF Sound, Deciding, Through
<1> QED
  BY <1>4 DEF new

LEMMA RanSound ==
  ASSUME NEW r \in Req, Sound(req[r]), req[r].at = "steps", NEW s \in req[r].todo,
         NEW result \in Result
  PROVE  Sound(Ran(r, s, result))
<1> DEFINE q == req[r]
           ran == Append(q.ran, s)
           ctx == [q EXCEPT !.results[s] = result, !.ran = Append(@, s), !.todo = @ \ {s}]
<1>1. /\ q \in ReqSet /\ Chain(q.ran) /\ q.level \in Nat /\ q.level < Depth
      /\ q.todo \in SUBSET Level(q.level) /\ Progress(q.ran, q.level, q.todo)
      /\ q.token = 0
  BY DEF Sound, ReqSet, Deciding
<1>2. /\ ran \in Seq(Step) /\ Chain(ran)
      /\ \A t : Has(ran, t) <=> Has(q.ran, t) \/ t = s
  BY <1>1, ChainGrows DEF ReqSet
<1>3. /\ Progress(ran, q.level, q.todo \ {s})
      /\ q.todo \ {s} = {} => Through(ran, q.level + 1)
  BY <1>1, <1>2, ProgressGrows
<1>4. /\ ctx \in ReqSet /\ ctx.ran = ran /\ ctx.token = 0 /\ ctx.asked = q.asked
      /\ ctx.from = q.from /\ ctx.level = q.level /\ ctx.todo = q.todo \ {s} /\ ctx.at = "steps"
  <2> DEFINE results == [q.results EXCEPT ![s] = result]
  <2>1. results \in [Step -> Result]
    BY <1>1 DEF ReqSet
  <2>2. ctx = [q EXCEPT !.results = results, !.ran = ran, !.todo = @ \ {s}]
    BY <1>1 DEF ReqSet
  <2>3. q.todo \ {s} \in SUBSET Step /\ ran \in Seq(Step) /\ q \in ReqSet
    BY <1>1, <1>2 DEF ReqSet
  <2> HIDE DEF ctx, ran, results, q
  <2>4. ctx \in ReqSet
    BY <2>1, <2>2, <2>3 DEF ReqSet
  <2>5. /\ ctx.ran = ran /\ ctx.token = q.token /\ ctx.asked = q.asked
        /\ ctx.from = q.from /\ ctx.level = q.level /\ ctx.todo = q.todo \ {s} /\ ctx.at = q.at
    BY <2>2, <2>3 DEF ReqSet
  <2> QED
    BY <1>1, <2>4, <2>5 DEF q
<1> HIDE DEF ctx, ran
<1>5. CASE ctx.todo = {}
  <2>1. Ran(r, s, result) = Enter(ctx, ctx.level + 1)
    BY <1>5 DEF Ran, ctx
  <2>2. ctx.level + 1 \in 0 .. Depth
    <3>1. Depth \in Nat
      BY LevelOfFacts
    <3> QED
      BY <1>1, <1>4, <3>1
  <2> QED
    BY <1>1, <1>2, <1>3, <1>4, <1>5, <2>1, <2>2, EnterSound
<1>6. CASE ctx.todo # {}
  <2>1. Ran(r, s, result) = ctx
    BY <1>6 DEF Ran, ctx
  <2>2. Sound(ctx)
    BY <1>1, <1>2, <1>3, <1>4 DEF Sound, Deciding
  <2> QED
    BY <2>1, <2>2
<1> QED
  BY <1>5, <1>6

LEMMA AnsweredIs ==
  ASSUME NEW asked \in Clarification, NEW filled \in BOOLEAN
  PROVE  Answered(asked, filled) \in Clarification
<1> DEFINE missing == asked.missing /\ ~filled
           turn == asked.turn + 1
           stage == IF ~missing THEN "complete" ELSE IF turn >= MaxTurns THEN "fallback" ELSE "collecting"
<1>1. Answered(asked, filled) = [stage |-> stage, missing |-> missing, turn |-> turn]
  BY DEF Answered
<1>2. turn \in Nat /\ stage \in {"idle", "collecting", "complete", "fallback"}
  BY DEF Clarification
<1>3. missing \in BOOLEAN
  OBVIOUS
<1> HIDE DEF missing, turn, stage
<1> QED
  BY <1>1, <1>2, <1>3 DEF Clarification

\* Where a request stands after its step.
NextSound(r) == \E new : Becomes(r, new) /\ Sound(new)

LEMMA EndsSound == \A r : Ends(r) => NextSound(r)
BY NoReqSound DEF Ends, NextSound

LEMMA GoesSound ==
  ASSUME NEW r \in Req, Sound(req[r]), req[r].at \notin Deciding, NEW at \in Easy, Goes(r, at)
  PROVE  NextSound(r)
BY AtSound DEF Goes, NextSound

LEMMA StepsSound ==
  ASSUME PipelineInv, NEW r \in Req,
         \/ RetrievalStep(r) \/ ValidationStep(r) \/ OfferDocuments(r) \/ NoDocuments(r) \/ Compose(r)
  PROVE  NextSound(r) /\ UNCHANGED fsm
<1>1. Sound(req[r])
  BY DEF PipelineInv
<1>2. {"save_empty", "save"} \subseteq Easy
  BY DEF Easy, Ats, Deciding
<1>3. CASE RetrievalStep(r)
  <2>1. PICK s \in req[r].todo, result \in Result : Becomes(r, Ran(r, s, result))
    BY <1>3 DEF RetrievalStep, SearchResults, DocumentResults, Result
  <2>2. Sound(Ran(r, s, result))
    BY <1>1, <1>3, <2>1, RanSound DEF RetrievalStep
  <2> QED
    BY <1>3, <2>1, <2>2 DEF NextSound, RetrievalStep, row
<1>4. CASE ValidationStep(r)
  BY <1>1, <1>2, <1>4, EndsSound, GoesSound DEF ValidationStep, Deciding
<1>5. CASE OfferDocuments(r)
  BY <1>1, <1>2, <1>5, EndsSound, GoesSound DEF OfferDocuments, Deciding
<1>6. CASE NoDocuments(r)
  <2> DEFINE q == req[r]
             new == [q EXCEPT !.at = "compose"]
  <2>1. /\ Sound(q) /\ q.at = "levels_done" /\ Done(q.ran) /\ Becomes(r, new) /\ UNCHANGED fsm
    BY <1>1, <1>6 DEF NoDocuments, Goes, row, Sound
  <2>2. /\ new \in ReqSet /\ new.ran = q.ran /\ new.token = q.token /\ new.from = q.from
        /\ new.at = "compose"
    BY <2>1 DEF Sound, ReqSet, Ats
  <2> HIDE DEF new
  <2>3. Sound(new)
    BY <2>1, <2>2 DEF Sound, Deciding
  <2> QED
    BY <2>1, <2>3 DEF NextSound
<1>7. CASE Compose(r)
  <2>1. CASE Becomes(r, [NoReq EXCEPT !.at = "save", !.from = req[r].from])
    <3>1. req[r].from \in Froms
      BY <1>1 DEF Sound, ReqSet
    <3> QED
      BY <1>2, <1>7, <2>1, <3>1, NoReqSound DEF Compose, NextSound, row
  <2>2. CASE Goes(r, "save_empty") \/ Ends(r)
    BY <1>1, <1>2, <1>7, <2>2, EndsSound, GoesSound DEF Compose, Deciding, row
  <2> QED
    BY <1>7, <2>1, <2>2 DEF Compose
<1> QED
  BY <1>3, <1>4, <1>5, <1>6, <1>7

LEMMA MessageSound ==
  ASSUME PipelineInv, NEW r \in Req,
         \/ AnswerClarification(r) \/ StartCollecting(r) \/ NothingMissing(r)
         \/ Offer(r) \/ NoPipeline(r) \/ PlainDocuments(r) \/ Reply(r)
         \/ SaveAnswer(r) \/ SaveQuestion(r) \/ Finish(r) \/ RunDirect(r) \/ SaveDirect(r)
  PROVE  NextSound(r) /\ fsm' \in Clarification
<1> DEFINE q == req[r]
<1>1. Sound(q) /\ q \in ReqSet /\ q.asked \in Clarification /\ fsm \in Clarification
  BY DEF PipelineInv, Sound, ReqSet
<1>2. {"replying", "save", "saved", "save_question"} \subseteq Easy
  BY DEF Easy, Ats, Deciding
<1>3. ASSUME Routes(r), q.at \in {"answering", "planning"} PROVE NextSound(r)
  <2> DEFINE new == [q EXCEPT !.at = "routing", !.asked = Idle]
  <2>1. q.ran = <<>> /\ q.from = "stream" /\ q.token = 0 /\ Chain(q.ran)
    BY <1>1, <1>3 DEF Sound, Deciding
  <2>2. /\ new \in ReqSet /\ new.at = "routing" /\ new.ran = q.ran
        /\ new.from = q.from /\ new.token = q.token
    BY <1>1, IdleIs DEF ReqSet, Ats
  <2>3. Becomes(r, new)
    BY <1>3 DEF Routes
  <2> HIDE DEF new
  <2>4. Sound(new)
    BY <2>1, <2>2 DEF Sound
  <2> QED
    BY <2>3, <2>4 DEF NextSound
<1>4. CASE AnswerClarification(r)
  <2>1. PICK filled \in BOOLEAN :
          fsm' = Answered(q.asked, filled) /\ (Ends(r) \/ Routes(r))
    BY <1>4 DEF AnswerClarification
  <2>2. q.at = "answering"
    BY <1>4 DEF AnswerClarification
  <2> QED
    BY <1>1, <1>3, <2>1, <2>2, AnsweredIs, EndsSound
<1>5. CASE StartCollecting(r) \/ NothingMissing(r)
  <2>1. [stage |-> "collecting", missing |-> TRUE, turn |-> 0] \in Clarification
    BY DEF Clarification
  <2> QED
    BY <1>1, <1>2, <1>3, <1>5, <2>1, NoReqSound DEF StartCollecting, NothingMissing, NextSound, row
<1>6. CASE Offer(r) \/ PlainDocuments(r) \/ Finish(r)
  BY <1>1, <1>6, EndsSound DEF Offer, PlainDocuments, Finish, row
<1>7. CASE NoPipeline(r) \/ Reply(r)
  BY <1>1, <1>2, <1>7, EndsSound, GoesSound DEF NoPipeline, Reply, Deciding, row
<1>8. CASE SaveAnswer(r)
  BY <1>1, <1>2, <1>8, IdleIs, NoReqSound DEF SaveAnswer, Saved, NextSound
<1>9. CASE SaveQuestion(r) \/ SaveDirect(r)
  BY <1>1, <1>2, <1>9, NoReqSound DEF SaveQuestion, SaveDirect, Saved, NextSound, row
<1>10. CASE RunDirect(r)
  <2>1. q.ran = <<>> /\ q.token = 0 /\ Chain(q.ran)
    BY <1>1, <1>10 DEF RunDirect, Sound, Deciding
  <2>2. Sound(Enter(q, 0))
    BY <1>1, <2>1, EnterSound, NoRun, LevelOfFacts
  <2> QED
    BY <1>1, <1>10, <2>2 DEF RunDirect, NextSound, row
<1> QED
  BY <1>3, <1>4, <1>5, <1>6, <1>7, <1>8, <1>9, <1>10

LEMMA DecisionSound ==
  ASSUME PipelineInv, NEW r \in Req,
         \/ ConfirmClears(r) \/ DeclinedReply(r) \/ SaveRun(r) \/ ResumeClears(r)
         \/ SelectClears(r) \/ DocumentsReply(r) \/ SavePlain(r) \/ SaveSelection(r)
  PROVE  NextSound(r) /\ UNCHANGED fsm
<1> DEFINE q == req[r]
           ctx == [q EXCEPT !.token = 0]
<1>1. Sound(q) /\ q \in ReqSet /\ Chain(q.ran)
  BY DEF PipelineInv, Sound
<1>2. {"replying", "save", "saved", "save_again"} \subseteq Easy
  BY DEF Easy, Ats, Deciding
<1>3. /\ ctx \in ReqSet /\ ctx.ran = q.ran /\ ctx.token = 0 /\ ctx.from = q.from
      /\ ctx.asked = q.asked /\ ctx.at = q.at /\ ctx.level = q.level
  BY <1>1 DEF ReqSet
<1>4. q.at = "selecting" /\ q.from # "plain_doc" => Done(q.ran)
  BY <1>1 DEF Sound
<1>5. ASSUME NEW at \in {"replying", "compose"}, at = "compose" => Done(q.ran) PROVE Sound([q EXCEPT !.token = 0, !.at = at])
  <2> DEFINE new == [q EXCEPT !.token = 0, !.at = at]
  <2>1. /\ new \in ReqSet /\ new.ran = q.ran /\ new.token = 0 /\ new.from = q.from
        /\ new.asked = q.asked /\ new.at = at
    BY <1>1 DEF ReqSet, Ats
  <2> HIDE DEF new
  <2>2. Sound(new)
    BY <1>1, <1>5, <2>1 DEF Sound, Deciding
  <2> QED
    BY <2>2 DEF new
<1>6. CASE ConfirmClears(r)
  <2>1. CASE q.at = "confirmed"
    <3>1. Becomes(r, Enter(ctx, 0)) /\ UNCHANGED fsm
      BY <1>6, <2>1 DEF ConfirmClears
    <3>2. q.ran = <<>>
      BY <1>1, <2>1 DEF Sound
    <3>3. Sound(Enter(ctx, 0))
      <4> HIDE DEF ctx
      <4> QED
        BY <1>1, <1>3, <3>2, EnterSound, NoRun, LevelOfFacts
    <3> QED
      BY <3>1, <3>3 DEF NextSound
  <2>2. CASE q.at = "declined"
    <3>1. Becomes(r, [ctx EXCEPT !.at = "replying"]) /\ UNCHANGED fsm
      BY <1>6, <2>2 DEF ConfirmClears
    <3>2. [ctx EXCEPT !.at = "replying"] = [q EXCEPT !.token = 0, !.at = "replying"]
      BY <1>1 DEF ReqSet
    <3> QED
      BY <1>5, <3>1, <3>2 DEF NextSound
  <2>3. CASE q.at = "offer_expired"
    BY <1>6, <2>3, EndsSound DEF ConfirmClears
  <2> QED
    BY <1>6, <2>1, <2>2, <2>3 DEF ConfirmClears
<1>7. CASE ResumeClears(r)
  <2>1. CASE q.at = "resumed"
    <3>1. Becomes(r, Enter(ctx, q.level + 1)) /\ UNCHANGED fsm
      BY <1>7, <2>1 DEF ResumeClears
    <3>2. q.level < Depth /\ q.level \in Nat /\ Depth \in Nat /\ Through(q.ran, q.level + 1)
      BY <1>1, <2>1, LevelOfFacts DEF Sound, ReqSet
    <3>3. q.level + 1 \in 0 .. Depth
      BY <3>2
    <3>4. Sound(Enter(ctx, q.level + 1))
      <4> HIDE DEF ctx
      <4> QED
        BY <1>1, <1>3, <3>2, <3>3, EnterSound
    <3> QED
      BY <3>1, <3>4 DEF NextSound
  <2>2. CASE q.at = "cancelled"
    BY <1>7, <2>2, EndsSound DEF ResumeClears
  <2> QED
    BY <1>7, <2>1, <2>2 DEF ResumeClears
<1>8. CASE SelectClears(r)
  BY <1>4, <1>5, <1>8 DEF SelectClears, NextSound
<1>9. CASE DeclinedReply(r) \/ DocumentsReply(r)
  BY <1>1, <1>2, <1>9, EndsSound, GoesSound DEF DeclinedReply, DocumentsReply, Deciding, row
<1>10. CASE SaveRun(r) \/ SavePlain(r) \/ SaveSelection(r)
  BY <1>2, <1>10, NoReqSound DEF SaveRun, SavePlain, SaveSelection, Saved, NextSound, row
<1> QED
  BY <1>6, <1>7, <1>8, <1>9, <1>10

LEMMA StartsIs ==
  ASSUME NEW r, NEW new, Starts(r, new), Sound(new)
  PROVE  NextSound(r)
BY DEF Starts, Becomes, NextSound

LEMMA BeginSound ==
  ASSUME PipelineInv, NEW r \in Req, Begins(r)
  PROVE  NextSound(r) /\ UNCHANGED fsm
<1>1. /\ fsm \in Clarification /\ SoundPause
      /\ pending \in 0 .. minted /\ pause.token \in 0 .. minted /\ minted \in Nat
  BY DEF PipelineInv, Tokens, Room
<1>2. pending \in Nat /\ pause.token \in Nat
  BY <1>1
<1>3. NoReq \in ReqSet /\ NoReq.ran = <<>> /\ NoReq.token = 0
      /\ Chain(NoReq.ran)
  BY NoReqSound DEF Sound, NoReq
<1>4. UNCHANGED fsm
  BY DEF Begins, SendBegins, SendDirect, ConfirmBegins, ResumeBegins, SelectBegins, row
<1>5. CASE SendBegins(r)
  <2>1. ASSUME NEW at \in {"answering", "planning"}
        PROVE  Sound([NoReq EXCEPT !.at = at, !.asked = fsm, !.from = "stream"])
    <3> DEFINE new == [NoReq EXCEPT !.at = at, !.asked = fsm, !.from = "stream"]
    <3>1. /\ new \in ReqSet /\ new.ran = <<>> /\ new.token = 0 /\ new.from = "stream" /\ new.at = at
      BY <1>1, <1>3 DEF ReqSet, Ats, Froms
    <3> HIDE DEF new
    <3>2. Sound(new)
      BY <1>3, <3>1 DEF Sound
    <3> QED
      BY <3>2 DEF new
  <2> QED
    BY <1>4, <1>5, <2>1, StartsIs DEF SendBegins
<1>6. CASE SendDirect(r)
  <2> DEFINE new == [NoReq EXCEPT !.at = "routing", !.from = "send"]
  <2>1. /\ new \in ReqSet /\ new.ran = <<>> /\ new.token = 0 /\ new.from = "send" /\ new.at = "routing"
    BY <1>3 DEF ReqSet, Ats, Froms
  <2>2. Starts(r, new)
    BY <1>6 DEF SendDirect
  <2> HIDE DEF new
  <2>3. Sound(new)
    BY <1>3, <2>1 DEF Sound
  <2> QED
    BY <1>4, <2>2, <2>3, StartsIs
<1>7. CASE ConfirmBegins(r)
  <2>1. PICK at \in {"confirmed", "declined", "offer_expired"} :
          Starts(r, [NoReq EXCEPT !.at = at, !.token = pending, !.from = "offer"])
    BY <1>7 DEF ConfirmBegins
  <2> DEFINE new == [NoReq EXCEPT !.at = at, !.token = pending, !.from = "offer"]
  <2>2. /\ new \in ReqSet /\ new.ran = <<>> /\ new.from = "offer" /\ new.at = at
    BY <1>2, <1>3 DEF ReqSet, Ats, Froms
  <2> HIDE DEF new
  <2>3. Sound(new)
    BY <1>3, <2>2 DEF Sound, Deciding
  <2> QED
    BY <1>4, <2>1, <2>3, StartsIs DEF new
<1>8. CASE ResumeBegins(r)
  <2>1. PICK at \in {"resumed", "cancelled"} :
          Starts(r, [NoReq EXCEPT !.at = at, !.token = pause.token, !.from = "pause",
                       !.level = IF at = "resumed" THEN LevelOf(pause.step) ELSE 0,
                       !.results = IF at = "resumed" THEN Resumed(pause) ELSE NoResults,
                       !.ran = IF at = "resumed" THEN pause.ran ELSE <<>>])
    BY <1>8 DEF ResumeBegins
  <2>2. /\ pause.step \in Step /\ pause.ran \in Seq(Step) /\ Chain(pause.ran)
        /\ Through(pause.ran, LevelOf(pause.step) + 1)
    BY <1>1, <1>8 DEF ResumeBegins, SoundPause, PauseSet
  <2>3. LevelOf(pause.step) \in Nat /\ LevelOf(pause.step) < Depth /\ Depth \in Nat
    BY <2>2, LevelOfFacts
  <2>4. Resumed(pause) \in [Step -> Result] /\ NoResults \in [Step -> Result]
    BY NoResultsAre DEF Resumed, Result
  <2> DEFINE level == IF at = "resumed" THEN LevelOf(pause.step) ELSE 0
             results == IF at = "resumed" THEN Resumed(pause) ELSE NoResults
             ran == IF at = "resumed" THEN pause.ran ELSE <<>>
             new == [NoReq EXCEPT !.at = at, !.token = pause.token, !.from = "pause",
                       !.level = level, !.results = results, !.ran = ran]
  <2>5. level \in 0 .. Depth /\ results \in [Step -> Result] /\ ran \in Seq(Step) /\ Chain(ran)
    BY <2>2, <2>3, <2>4, NoRun
  <2>6. at = "resumed" => level < Depth /\ Through(ran, level + 1)
    BY <2>2, <2>3
  <2> HIDE DEF level, results, ran
  <2>7. /\ new \in ReqSet /\ new.ran = ran /\ new.level = level /\ new.from = "pause" /\ new.at = at
    BY <1>2, <1>3, <2>5 DEF ReqSet, Ats, Froms
  <2> HIDE DEF new
  <2>8. Sound(new)
    BY <1>3, <2>5, <2>6, <2>7 DEF Sound, Deciding
  <2> QED
    BY <1>4, <2>1, <2>8, StartsIs DEF new, level, results, ran
<1>9. CASE SelectBegins(r)
  <2> DEFINE new == [NoReq EXCEPT !.at = "selecting", !.token = pause.token, !.from = pause.at,
                       !.ran = pause.ran]
  <2>1. pause.at \in {"full_doc", "plain_doc"} /\ Starts(r, new)
    BY <1>9 DEF SelectBegins
  <2>2. pause.ran \in Seq(Step) /\ Chain(pause.ran) /\ (pause.at # "plain_doc" => Done(pause.ran))
    BY <1>1, <2>1 DEF SoundPause, PauseSet
  <2>3. /\ new \in ReqSet /\ new.ran = pause.ran /\ new.from = pause.at /\ new.at = "selecting"
    BY <1>2, <1>3, <2>1, <2>2 DEF ReqSet, Ats, Froms
  <2> HIDE DEF new
  <2>4. Sound(new)
    BY <1>3, <2>1, <2>2, <2>3 DEF Sound, Deciding
  <2> QED
    BY <1>4, <2>1, <2>4, StartsIs
<1> QED
  BY <1>5, <1>6, <1>7, <1>8, <1>9 DEF Begins

LEMMA NextRequests ==
  ASSUME PipelineInv, [Next]_vars
  PROVE  fsm' \in Clarification /\ DOMAIN req' = Req /\ \A r \in Req : Sound(req'[r])
<1>1. fsm \in Clarification /\ DOMAIN req = Req /\ \A r \in Req : Sound(req[r])
  BY DEF PipelineInv
<1>2. ASSUME NEW r \in Req, NextSound(r) PROVE DOMAIN req' = Req /\ \A q \in Req : Sound(req'[q])
  BY <1>1, <1>2 DEF NextSound, Becomes
<1>3. ASSUME NEW r \in Req, Begins(r) PROVE NextSound(r) /\ fsm' \in Clarification
  BY <1>1, <1>3, BeginSound
<1>4. ASSUME NEW r \in Req, Works(r) PROVE NextSound(r) /\ fsm' \in Clarification
  BY <1>1, <1>4, StepsSound, MessageSound, DecisionSound DEF Works
<1>5. ASSUME NEW r \in Req, Dies(r) PROVE NextSound(r) /\ fsm' \in Clarification
  BY <1>1, <1>5, EndsSound DEF Dies, row
<1>6. CASE UNCHANGED vars
  BY <1>1, <1>6 DEF vars, row
<1> QED
  BY <1>2, <1>3, <1>4, <1>5, <1>6 DEF Next

-----------------------------------------------------------------------------
(* Every step leaves a sound pause. *)

LEMMA NoPauseSound ==
  /\ NoPause \in PauseSet /\ NoPause.ran = <<>> /\ NoPause.at = "none" /\ NoPause.token = 0
  /\ \A n \in Nat :
       LET new == [NoPause EXCEPT !.at = "plain_doc", !.token = n]
       IN new \in PauseSet /\ new.ran = <<>> /\ new.at = "plain_doc"
<1>1. NoPause \in PauseSet /\ NoPause.ran = <<>> /\ NoPause.at = "none" /\ NoPause.token = 0
  BY NoResultsAre DEF NoPause, PauseSet
<1> HIDE DEF NoPause
<1> QED
  BY <1>1 DEF PauseSet

LEMMA PausedSound ==
  ASSUME PipelineInv, NEW r \in Req, req[r].at = "steps", NEW s \in req[r].todo,
         Kind[s] = "validation"
  PROVE  /\ Paused(r, s) \in PauseSet /\ Chain(Paused(r, s).ran)
         /\ Paused(r, s).step \in Step
         /\ Through(Paused(r, s).ran, LevelOf(Paused(r, s).step) + 1)
         /\ Paused(r, s).token = minted + 1 /\ Paused(r, s).at = "validation"
<1> DEFINE q == req[r]
           ran == Append(q.ran, s)
<1>1. /\ q \in ReqSet /\ Chain(q.ran) /\ q.level \in Nat
      /\ q.todo \in SUBSET Level(q.level) /\ Progress(q.ran, q.level, q.todo)
  BY DEF PipelineInv, Sound, ReqSet
<1>2. /\ ran \in Seq(Step) /\ Chain(ran)
      /\ \A t : Has(ran, t) <=> Has(q.ran, t) \/ t = s
  BY <1>1, ChainGrows DEF ReqSet
<1>3. s \in Step /\ Through(ran, LevelOf(s) + 1)
  BY <1>1, <1>2, ValidationPasses
<1>4. minted + 1 \in Nat /\ q.results \in [Step -> Result]
  BY <1>1 DEF PipelineInv, Room, ReqSet
<1>5. Paused(r, s) = [at |-> "validation", token |-> minted + 1, step |-> s,
                      results |-> q.results, ran |-> ran]
  BY DEF Paused
<1> HIDE DEF ran, q
<1> QED
  BY <1>2, <1>3, <1>4, <1>5 DEF PauseSet

LEMMA NextPause ==
  ASSUME PipelineInv, [Next]_vars
  PROVE  SoundPause'
<1>1. SoundPause /\ minted + 1 \in Nat
  BY DEF PipelineInv, Room
<1>2. CASE UNCHANGED pause
  BY <1>1, <1>2 DEF SoundPause
<1>3. CASE pause' = NoPause
  BY <1>3, NoPauseSound, NoRun DEF SoundPause
<1>4. CASE pause' = [NoPause EXCEPT !.at = "plain_doc", !.token = minted + 1]
  <2> DEFINE n == minted + 1
  <2>1. n \in Nat /\ pause' = [NoPause EXCEPT !.at = "plain_doc", !.token = n]
    BY <1>1, <1>4
  <2> HIDE DEF n
  <2>2. pause' \in PauseSet /\ pause'.ran = <<>> /\ pause'.at = "plain_doc"
    BY <2>1, NoPauseSound
  <2> QED
    BY <2>2, NoRun DEF SoundPause
<1>5. ASSUME NEW r \in Req, ValidationStep(r) PROVE SoundPause'
  <2>1. PICK s \in req[r].todo :
          Kind[s] = "validation" /\ (pause' = Paused(r, s) \/ UNCHANGED pause)
    BY <1>5 DEF ValidationStep, Stores
  <2>2. CASE pause' = Paused(r, s)
    <3> DEFINE p == Paused(r, s)
    <3>1. /\ p \in PauseSet /\ Chain(p.ran) /\ p.step \in Step /\ p.at = "validation"
          /\ Through(p.ran, LevelOf(p.step) + 1)
      BY <1>5, <2>1, PausedSound DEF ValidationStep
    <3> HIDE DEF p
    <3>2. pause' = p
      BY <2>2 DEF p
    <3> QED
      BY <3>1, <3>2 DEF SoundPause
  <2> QED
    BY <1>2, <2>1, <2>2
<1>6. ASSUME NEW r \in Req, OfferDocuments(r) \/ PlainDocuments(r) PROVE SoundPause'
  <2>1. CASE OfferDocuments(r)
    <3> DEFINE n == minted + 1
               ran == req[r].ran
    <3>1. n \in Nat /\ ran \in Seq(Step) /\ Chain(ran) /\ Done(ran)
      BY <1>1, <2>1 DEF OfferDocuments, PipelineInv, Sound, ReqSet
    <3>2. pause' = [NoPause EXCEPT !.at = "full_doc", !.token = n, !.ran = ran]
      <4>1. Stores(r, pending, [NoPause EXCEPT !.at = "full_doc", !.token = minted + 1,
                                               !.ran = req[r].ran])
        BY <2>1 DEF OfferDocuments
      <4> QED
        BY <4>1 DEF Stores
    <3> HIDE DEF n, ran
    <3>3. pause' \in PauseSet /\ pause'.ran = ran /\ pause'.at = "full_doc"
      <4>1. NoPause \in PauseSet
        BY NoPauseSound
      <4> HIDE DEF NoPause
      <4> QED
        BY <3>1, <3>2, <4>1 DEF PauseSet
    <3> QED
      BY <3>1, <3>3 DEF SoundPause
  <2> QED
    BY <1>4, <1>6, <2>1 DEF PlainDocuments, Stores
<1>7. ASSUME NEW r \in Req, ConfirmClears(r) \/ ResumeClears(r) \/ SelectClears(r) \/ Offer(r)
      PROVE  SoundPause'
  BY <1>2, <1>3, <1>7 DEF ConfirmClears, ResumeClears, SelectClears, Offer, Stores
<1>8. \/ \E r \in Req : \/ ValidationStep(r) \/ OfferDocuments(r) \/ PlainDocuments(r)
                        \/ ConfirmClears(r) \/ ResumeClears(r) \/ SelectClears(r) \/ Offer(r)
      \/ UNCHANGED pause
  BY DEF Next, Begins, Works, Dies, vars, row, SendBegins, SendDirect, ConfirmBegins, ResumeBegins,
         SelectBegins, RetrievalStep, NoDocuments, Compose, AnswerClarification, StartCollecting,
         NothingMissing, NoPipeline, Reply, SaveAnswer, SaveQuestion, Finish, RunDirect, SaveDirect,
         DeclinedReply, SaveRun, DocumentsReply, SavePlain, SaveSelection, Routes
<1> QED
  BY <1>2, <1>5, <1>6, <1>7, <1>8

-----------------------------------------------------------------------------
(* Tokens. *)

\* A step of r that stores no token and takes none out; what it holds afterwards is
\* nothing or what it has just read.
LEMMA ReadTokens ==
  ASSUME Tokens, DOMAIN req = Req, minted \in Nat, NEW r \in Req, NEW new, Becomes(r, new),
         UNCHANGED <<pending, pause, minted, spent>>,
         \/ new.token = 0
         \/ new.token = pending /\ new.from = "offer"
         \/ new.token = pause.token /\ new.from # "offer"
  PROVE  Tokens'
<1>1. Held(new, minted, pending, pause.token)
  BY DEF Tokens, Held
<1>2. \A q \in Req : req'[q] = req[q] \/ req'[q] = new
  BY DEF Becomes
<1> QED
  BY <1>1, <1>2 DEF Tokens, Held

\* A step of r that hands out a token: it replaces the offer or the pause.
LEMMA MintTokens ==
  ASSUME Tokens, DOMAIN req = Req, minted \in Nat, NEW r \in Req, NEW new, Becomes(r, new),
         new.token = 0, req[r].token = 0, minted' = minted + 1,
         \/ Stores(r, minted + 1, pause)
         \/ Stores(r, pending, pause') /\ pause'.token = minted + 1
         \/ UNCHANGED <<pending, pause, spent>>
  PROVE  Tokens'
<1>1. /\ \A t \in spent : t \in 1 .. minted
      /\ pending \in 0 .. minted /\ pause.token \in 0 .. minted
      /\ pending \notin spent /\ pause.token \notin spent /\ (pending = pause.token => pending = 0)
  BY DEF Tokens
<1>2. minted + 1 \notin spent /\ 0 \notin spent /\ minted + 1 # pending /\ minted + 1 # pause.token
  BY <1>1
<1>3. ASSUME NEW q \in Req PROVE Held(req'[q], minted', pending', pause'.token)
  <2>1. CASE q = r
    BY <2>1 DEF Becomes, Held
  <2>2. CASE q # r
    <3>1. req'[q] = req[q] /\ Held(req[q], minted, pending, pause.token)
      BY <2>2 DEF Becomes, Tokens
    <3> QED
      BY <1>1, <3>1 DEF Held, Stores
  <2> QED
    BY <2>1, <2>2
<1>4. CASE Stores(r, minted + 1, pause)
  BY <1>1, <1>2, <1>3, <1>4 DEF Tokens, Stores
<1>5. CASE Stores(r, pending, pause') /\ pause'.token = minted + 1
  BY <1>1, <1>2, <1>3, <1>5 DEF Tokens, Stores
<1>6. CASE UNCHANGED <<pending, pause, spent>>
  BY <1>1, <1>2, <1>3, <1>6 DEF Tokens
<1> QED
  BY <1>4, <1>5, <1>6

\* A step of r that takes out what it decided upon.
LEMMA ClearTokens ==
  ASSUME Tokens, DOMAIN req = Req, minted \in Nat, NEW r \in Req, NEW new, Becomes(r, new),
         new.token = 0, UNCHANGED minted,
         \/ Stores(r, 0, pause) /\ req[r].from = "offer"
         \/ Stores(r, pending, NoPause) /\ req[r].from # "offer"
         \/ UNCHANGED <<pending, pause, spent>>
  PROVE  Tokens'
<1>1. /\ \A t \in spent : t \in 1 .. minted
      /\ pending \in 0 .. minted /\ pause.token \in 0 .. minted
      /\ pending \notin spent /\ pause.token \notin spent /\ (pending = pause.token => pending = 0)
      /\ Held(req[r], minted, pending, pause.token)
  BY DEF Tokens
<1>2. 0 \notin spent /\ NoPause.token = 0
  BY <1>1 DEF NoPause
<1>3. ASSUME NEW q \in Req PROVE Held(req'[q], minted', pending', pause'.token)
  <2>1. CASE q = r
    BY <2>1 DEF Becomes, Held
  <2>2. CASE q # r
    <3>1. req'[q] = req[q] /\ Held(req[q], minted, pending, pause.token)
      BY <2>2 DEF Becomes, Tokens
    <3>2. pending' \in {0, pending} /\ pause'.token \in {0, pause.token}
      BY <1>2 DEF Stores
    <3> QED
      BY <3>1, <3>2 DEF Held
  <2> QED
    BY <2>1, <2>2
<1>4. CASE Stores(r, 0, pause) /\ req[r].from = "offer"
  BY <1>1, <1>2, <1>3, <1>4 DEF Tokens, Stores, Held
<1>5. CASE Stores(r, pending, NoPause) /\ req[r].from # "offer"
  <2>1. /\ pending' = pending /\ pause' = NoPause
        /\ spent' = (spent \cup {req[r].token} \cup ({pending, pause.token} \ {pending, NoPause.token})) \ {0}
    BY <1>5 DEF Stores
  <2> HIDE DEF NoPause
  <2>2. pending' \notin spent'
    BY <1>1, <1>2, <1>5, <2>1 DEF Held
  <2>3. \A t \in spent' : t \in 1 .. minted
    BY <1>1, <1>2, <2>1 DEF Held
  <2> QED
    BY <1>1, <1>2, <1>3, <2>1, <2>2, <2>3 DEF Tokens
<1>6. CASE UNCHANGED <<pending, pause, spent>>
  BY <1>1, <1>2, <1>3, <1>6 DEF Tokens
<1> QED
  BY <1>4, <1>5, <1>6

LEMMA NextTokens ==
  ASSUME PipelineInv, [Next]_vars
  PROVE  Tokens'
<1>1. /\ Tokens /\ DOMAIN req = Req /\ minted \in Nat
      /\ \A r \in Req : Sound(req[r])
  BY DEF PipelineInv, Room
<1>2. \A r \in Req : req[r].at \notin Deciding => req[r].token = 0
  BY <1>1 DEF Sound
<1>3. NoReq.token = 0
  BY DEF NoReq
<1>4. \A r \in Req : req[r] \in ReqSet
  BY <1>1 DEF Sound
<1>5. ASSUME NEW r \in Req, Ends(r), UNCHANGED <<pending, pause, minted, spent>> PROVE Tokens'
  BY <1>1, <1>3, <1>5, ReadTokens DEF Ends
<1>6. ASSUME NEW r \in Req, NEW at, Goes(r, at), req[r].token = 0,
             UNCHANGED <<pending, pause, minted, spent>>
      PROVE  Tokens'
  <2>1. [req[r] EXCEPT !.at = at].token = req[r].token
    BY <1>4 DEF ReqSet
  <2> QED
    BY <1>1, <1>6, <2>1, ReadTokens DEF Goes
<1>7. ASSUME NEW r \in Req, Begins(r) PROVE Tokens'
  <2>1. UNCHANGED <<pending, pause, minted, spent>>
    BY <1>7 DEF Begins, SendBegins, SendDirect, ConfirmBegins, ResumeBegins, SelectBegins, row
  <2>2. \E new : /\ Becomes(r, new)
                 /\ \/ new.token = 0
                    \/ new.token = pending /\ new.from = "offer"
                    \/ new.token = pause.token /\ new.from # "offer"
    <3>1. CASE SendBegins(r)
      <4>1. PICK at : Becomes(r, [NoReq EXCEPT !.at = at, !.asked = fsm, !.from = "stream"])
        BY <3>1 DEF SendBegins, Starts, Becomes
      <4>2. [NoReq EXCEPT !.at = at, !.asked = fsm, !.from = "stream"].token = 0
        BY DEF NoReq
      <4> QED
        BY <4>1, <4>2
    <3>2. CASE SendDirect(r)
      <4>1. Becomes(r, [NoReq EXCEPT !.at = "routing", !.from = "send"])
        BY <3>2 DEF SendDirect, Starts, Becomes
      <4>2. [NoReq EXCEPT !.at = "routing", !.from = "send"].token = 0
        BY DEF NoReq
      <4> QED
        BY <4>1, <4>2
    <3>3. CASE ConfirmBegins(r)
      <4>1. PICK at : Becomes(r, [NoReq EXCEPT !.at = at, !.token = pending, !.from = "offer"])
        BY <3>3 DEF ConfirmBegins, Starts, Becomes
      <4> DEFINE new == [NoReq EXCEPT !.at = at, !.token = pending, !.from = "offer"]
      <4>2. new.token = pending /\ new.from = "offer"
        BY DEF NoReq
      <4> QED
        BY <4>1, <4>2
    <3>4. CASE ResumeBegins(r)
      <4>1. PICK at \in {"resumed", "cancelled"} :
              Becomes(r, [NoReq EXCEPT !.at = at, !.token = pause.token, !.from = "pause",
                            !.level = IF at = "resumed" THEN LevelOf(pause.step) ELSE 0,
                            !.results = IF at = "resumed" THEN Resumed(pause) ELSE NoResults,
                            !.ran = IF at = "resumed" THEN pause.ran ELSE <<>>])
        BY <3>4 DEF ResumeBegins, Starts, Becomes
      <4> DEFINE new == [NoReq EXCEPT !.at = at, !.token = pause.token, !.from = "pause",
                           !.level = IF at = "resumed" THEN LevelOf(pause.step) ELSE 0,
                           !.results = IF at = "resumed" THEN Resumed(pause) ELSE NoResults,
                           !.ran = IF at = "resumed" THEN pause.ran ELSE <<>>]
      <4>2. new.token = pause.token /\ new.from = "pause"
        BY DEF NoReq
      <4> QED
        BY <4>1, <4>2
    <3>5. CASE SelectBegins(r)
      <4> DEFINE new == [NoReq EXCEPT !.at = "selecting", !.token = pause.token, !.from = pause.at,
                           !.ran = pause.ran]
      <4>1. pause.at # "offer" /\ Becomes(r, new)
        BY <3>5 DEF SelectBegins, Starts, Becomes
      <4>2. new.token = pause.token /\ new.from = pause.at
        BY DEF NoReq
      <4> QED
        BY <4>1, <4>2
    <3> QED
      BY <1>7, <3>1, <3>2, <3>3, <3>4, <3>5 DEF Begins
  <2> QED
    BY <1>1, <2>1, <2>2, ReadTokens
<1>8. ASSUME NEW r \in Req, RetrievalStep(r) PROVE Tokens'
  <2>1. PICK s \in req[r].todo, result \in Result : Becomes(r, Ran(r, s, result))
    BY <1>8 DEF RetrievalStep, SearchResults, DocumentResults, Result
  <2>2. Ran(r, s, result).token = req[r].token
    BY <1>4 DEF Ran, Enter, ReqSet
  <2>3. req[r].token = 0
    BY <1>2, <1>8 DEF RetrievalStep, Deciding
  <2> QED
    BY <1>1, <1>8, <2>1, <2>2, <2>3, ReadTokens DEF RetrievalStep, row
<1>9. ASSUME NEW r \in Req,
             \/ NoDocuments(r) \/ NoPipeline(r) \/ Reply(r)
             \/ DeclinedReply(r) \/ DocumentsReply(r)
      PROVE  Tokens'
  <2>1. /\ req[r].token = 0 /\ UNCHANGED <<pending, pause, minted, spent>>
        /\ Ends(r) \/ \E at : Goes(r, at)
    BY <1>2, <1>9 DEF NoDocuments, NoPipeline, Reply, DeclinedReply, DocumentsReply,
                      Deciding, row
  <2> QED
    BY <1>5, <1>6, <2>1
<1>10. ASSUME NEW r \in Req, Compose(r) PROVE Tokens'
  <2>1. CASE Becomes(r, [NoReq EXCEPT !.at = "save", !.from = req[r].from])
    <3>1. [NoReq EXCEPT !.at = "save", !.from = req[r].from].token = 0
      BY DEF NoReq
    <3> QED
      BY <1>1, <1>10, <2>1, <3>1, ReadTokens DEF Compose, row
  <2>2. CASE Ends(r) \/ Goes(r, "save_empty")
    BY <1>2, <1>5, <1>6, <1>10, <2>2 DEF Compose, Deciding, row
  <2> QED
    BY <1>10, <2>1, <2>2 DEF Compose
<1>11. ASSUME NEW r \in Req, AnswerClarification(r) \/ NothingMissing(r) PROVE Tokens'
  <2>1. CASE Ends(r)
    BY <1>5, <1>11, <2>1 DEF AnswerClarification, NothingMissing, row
  <2>2. CASE Routes(r)
    <3>1. [req[r] EXCEPT !.at = "routing", !.asked = Idle].token = 0
      BY <1>2, <1>4, <1>11 DEF AnswerClarification, NothingMissing, Deciding, ReqSet
    <3> QED
      BY <1>1, <1>11, <2>2, <3>1, ReadTokens DEF AnswerClarification, NothingMissing, Routes, row
  <2> QED
    BY <1>11, <2>1, <2>2 DEF AnswerClarification, NothingMissing
<1>12. ASSUME NEW r \in Req,
              \/ StartCollecting(r) \/ SaveAnswer(r) \/ SaveQuestion(r) \/ SaveDirect(r)
              \/ SaveRun(r) \/ SavePlain(r) \/ SaveSelection(r)
       PROVE  Tokens'
  <2>1. \A at : [NoReq EXCEPT !.at = at].token = 0
    BY DEF NoReq
  <2>2. /\ UNCHANGED <<pending, pause, minted, spent>>
        /\ \E at : Becomes(r, [NoReq EXCEPT !.at = at])
    BY <1>12 DEF StartCollecting, SaveAnswer, SaveQuestion, SaveDirect, SaveRun, SavePlain,
                 SaveSelection, Saved, row
  <2> QED
    BY <1>1, <2>1, <2>2, ReadTokens
<1>13. ASSUME NEW r \in Req, Finish(r) \/ Dies(r) PROVE Tokens'
  BY <1>5, <1>13 DEF Finish, Dies, row
<1>14. ASSUME NEW r \in Req, RunDirect(r) PROVE Tokens'
  <2>1. Enter(req[r], 0).token = 0
    BY <1>2, <1>4, <1>14 DEF RunDirect, Deciding, Enter, ReqSet
  <2> QED
    BY <1>1, <1>14, <2>1, ReadTokens DEF RunDirect, row
<1>15. ASSUME NEW r \in Req,
              \/ ValidationStep(r) \/ OfferDocuments(r) \/ Offer(r) \/ PlainDocuments(r)
       PROVE  Tokens'
  <2>1. req[r].token = 0 /\ minted' = minted + 1
    BY <1>2, <1>15 DEF ValidationStep, OfferDocuments, Offer, PlainDocuments, Deciding
  <2>2. [req[r] EXCEPT !.at = "save_empty"].token = 0
    BY <1>4, <2>1 DEF ReqSet
  <2>3. \E new : Becomes(r, new) /\ new.token = 0
    BY <1>3, <1>15, <2>2 DEF ValidationStep, OfferDocuments, Offer, PlainDocuments, Goes, Ends
  <2>4. \A s : Paused(r, s).token = minted + 1
    BY DEF Paused
  <2>5. /\ \A at : [NoPause EXCEPT !.at = at, !.token = minted + 1].token = minted + 1
        /\ \A at, ran : [NoPause EXCEPT !.at = at, !.token = minted + 1, !.ran = ran].token = minted + 1
    BY DEF NoPause
  <2>6. \/ Stores(r, minted + 1, pause)
        \/ Stores(r, pending, pause') /\ pause'.token = minted + 1
        \/ UNCHANGED <<pending, pause, spent>>
    <3>1. CASE ValidationStep(r)
      BY <2>4, <3>1 DEF ValidationStep, Stores
    <3>2. CASE OfferDocuments(r)
      <4>1. pause' = [NoPause EXCEPT !.at = "full_doc", !.token = minted + 1, !.ran = req[r].ran]
        BY <3>2 DEF OfferDocuments, Stores
      <4>2. Stores(r, pending, pause')
        BY <3>2, <4>1 DEF OfferDocuments
      <4> QED
        BY <2>5, <4>1, <4>2
    <3>4. CASE PlainDocuments(r)
      BY <2>5, <3>4 DEF PlainDocuments, Stores
    <3>3. CASE Offer(r)
      BY <3>3 DEF Offer
    <3> QED
      BY <1>15, <3>1, <3>2, <3>3, <3>4
  <2> QED
    BY <1>1, <2>1, <2>3, <2>6, MintTokens
<1>16. ASSUME NEW r \in Req, ConfirmClears(r) \/ ResumeClears(r) \/ SelectClears(r) PROVE Tokens'
  <2> DEFINE ctx == [req[r] EXCEPT !.token = 0]
  <2>1. /\ ctx.token = 0 /\ \A l : Enter(ctx, l).token = 0
        /\ \A at : [ctx EXCEPT !.at = at].token = 0
        /\ \A at : [req[r] EXCEPT !.token = 0, !.at = at].token = 0
    BY <1>4 DEF Enter, ReqSet
  <2>2. \E new : Becomes(r, new) /\ new.token = 0
    <3>1. CASE ConfirmClears(r)
      BY <1>3, <2>1, <3>1 DEF ConfirmClears, Ends
    <3>2. CASE ResumeClears(r)
      BY <1>3, <2>1, <3>2 DEF ResumeClears, Ends
    <3>3. CASE SelectClears(r)
      BY <2>1, <3>3 DEF SelectClears
    <3> QED
      BY <1>16, <3>1, <3>2, <3>3
  <2>3. /\ UNCHANGED minted
        /\ \/ Stores(r, 0, pause) /\ req[r].from = "offer"
           \/ Stores(r, pending, NoPause) /\ req[r].from # "offer"
           \/ UNCHANGED <<pending, pause, spent>>
    BY <1>1, <1>16 DEF ConfirmClears, ResumeClears, SelectClears, Sound, Deciding
  <2> QED
    BY <1>1, <2>2, <2>3, ClearTokens
<1>17. CASE UNCHANGED vars
  BY <1>1, <1>17 DEF vars, row, Tokens
<1> QED
  BY <1>7, <1>8, <1>9, <1>10, <1>11, <1>12, <1>13, <1>14, <1>15, <1>16, <1>17 DEF Next, Works

-----------------------------------------------------------------------------
(* Room for the tokens of the requests under way. *)

LEMMA RoomBegins ==
  ASSUME Room, DOMAIN req = Req, NEW r \in Req, NEW new, Starts(r, new), UNCHANGED minted
  PROVE  Room'
<1>1. /\ minted \in Nat /\ IsFiniteSet(Active) /\ Cardinality(Active) \in Nat
      /\ minted + Cardinality(Active) < MaxToken /\ MaxToken \in Nat
  BY PipelineAssumption, FS_CardinalityType DEF Room, Starts, Active
<1>2. IsFiniteSet(Active \cup {r}) /\ Cardinality(Active \cup {r}) <= Cardinality(Active) + 1
  BY <1>1, FS_AddElement
<1>3. Active' \in SUBSET (Active \cup {r}) /\ Minters' \in SUBSET (Active \cup {r})
  BY DEF Starts, Active, Minters
<1>4. /\ IsFiniteSet(Active') /\ IsFiniteSet(Minters')
      /\ Cardinality(Minters') <= Cardinality(Active \cup {r})
  BY <1>2, <1>3, FS_Subset
<1>5. Cardinality(Minters') \in Nat /\ Cardinality(Active \cup {r}) \in Nat
  BY <1>2, <1>4, FS_CardinalityType
<1> QED
  BY <1>1, <1>2, <1>4, <1>5 DEF Room

LEMMA RoomStays ==
  ASSUME Room, DOMAIN req = Req, NEW r \in Req, NEW new, Becomes(r, new), UNCHANGED minted,
         req[r].at # "idle",
         req[r].at \in {"save_empty", "saved"} => new.at \in {"idle", "save_empty", "saved"}
  PROVE  Room'
<1>1. Active' \in SUBSET Active /\ Minters' \in SUBSET Minters /\ Minters \in SUBSET Active
  BY DEF Becomes, Active, Minters
<1>2. IsFiniteSet(Active') /\ IsFiniteSet(Minters) /\ IsFiniteSet(Minters')
  BY <1>1, FS_Subset DEF Room
<1>3. /\ Cardinality(Minters') <= Cardinality(Minters)
      /\ Cardinality(Minters') \in Nat /\ Cardinality(Minters) \in Nat
  BY <1>1, <1>2, FS_Subset, FS_CardinalityType
<1> QED
  BY <1>2, <1>3, PipelineAssumption DEF Room

LEMMA RoomMints ==
  ASSUME Room, DOMAIN req = Req, NEW r \in Req, NEW new, Becomes(r, new), minted' = minted + 1,
         req[r].at \notin {"idle", "save_empty", "saved"}, new.at \in {"idle", "save_empty"}
  PROVE  Room'
<1>1. /\ Active' \in SUBSET Active /\ Minters' \in SUBSET (Minters \ {r}) /\ r \in Minters
      /\ Minters \in SUBSET Active
  BY DEF Becomes, Active, Minters
<1>2. IsFiniteSet(Active') /\ IsFiniteSet(Minters)
  BY <1>1, FS_Subset DEF Room
<1>3. IsFiniteSet(Minters \ {r}) /\ Cardinality(Minters \ {r}) = Cardinality(Minters) - 1
  BY <1>1, <1>2, FS_RemoveElement
<1>4. /\ IsFiniteSet(Minters') /\ Cardinality(Minters') <= Cardinality(Minters \ {r})
  BY <1>1, <1>3, FS_Subset
<1>5. Cardinality(Minters') \in Nat /\ Cardinality(Minters) \in Nat
  BY <1>2, <1>4, FS_CardinalityType
<1> QED
  BY <1>2, <1>3, <1>4, <1>5, PipelineAssumption DEF Room

LEMMA NextRoom ==
  ASSUME PipelineInv, [Next]_vars
  PROVE  Room'
<1>1. Room /\ DOMAIN req = Req /\ \A r \in Req : req[r] \in ReqSet
  BY DEF PipelineInv, Sound
<1>2. ASSUME NEW r \in Req, Begins(r) PROVE Room'
  <2>1. \E new : Starts(r, new)
    BY <1>2 DEF Begins, SendBegins, SendDirect, ConfirmBegins, ResumeBegins, SelectBegins
  <2>2. UNCHANGED minted
    BY <1>2 DEF Begins, SendBegins, SendDirect, ConfirmBegins, ResumeBegins, SelectBegins
  <2> QED
    BY <1>1, <2>1, <2>2, RoomBegins
<1>3. NoReq.at = "idle"
  BY DEF NoReq
<1>4. ASSUME NEW r \in Req, NEW at, req[r].at \notin {"idle", "save_empty", "saved"},
             Goes(r, at) \/ Ends(r), UNCHANGED minted
      PROVE  Room'
  BY <1>1, <1>4, RoomStays DEF Goes, Ends
<1>5. ASSUME NEW r \in Req, NEW new, req[r].at \notin {"idle", "save_empty", "saved"},
             Becomes(r, new), UNCHANGED minted
      PROVE  Room'
  BY <1>1, <1>5, RoomStays
<1>6. ASSUME NEW r \in Req,
             \/ RetrievalStep(r) \/ NoDocuments(r) \/ Compose(r)
             \/ AnswerClarification(r) \/ StartCollecting(r) \/ NothingMissing(r)
             \/ NoPipeline(r) \/ Reply(r) \/ SaveAnswer(r) \/ SaveQuestion(r) \/ RunDirect(r)
             \/ ConfirmClears(r) \/ DeclinedReply(r) \/ SaveRun(r) \/ ResumeClears(r)
             \/ SelectClears(r) \/ DocumentsReply(r) \/ SavePlain(r) \/ SaveSelection(r)
      PROVE  Room'
  <2>1. req[r].at \notin {"idle", "save_empty", "saved"} /\ UNCHANGED minted
    BY <1>6 DEF RetrievalStep, NoDocuments, Compose, AnswerClarification, StartCollecting,
                NothingMissing, NoPipeline, Reply, SaveAnswer, SaveQuestion, RunDirect, ConfirmClears,
                DeclinedReply, SaveRun, ResumeClears, SelectClears, DocumentsReply, SavePlain,
                SaveSelection
  <2>2. \E new : Becomes(r, new)
    <3>1. CASE RetrievalStep(r)
      BY <3>1 DEF RetrievalStep
    <3>2. CASE NoDocuments(r) \/ Compose(r) \/ NoPipeline(r) \/ Reply(r)
               \/ DeclinedReply(r) \/ DocumentsReply(r)
      BY <3>2 DEF NoDocuments, Compose, NoPipeline, Reply, DeclinedReply, DocumentsReply, Goes, Ends
    <3>3. CASE AnswerClarification(r) \/ StartCollecting(r) \/ NothingMissing(r)
      BY <3>3 DEF AnswerClarification, StartCollecting, NothingMissing, Routes, Ends
    <3>4. CASE \/ SaveAnswer(r) \/ SaveQuestion(r) \/ SaveRun(r) \/ SavePlain(r) \/ SaveSelection(r)
      BY <3>4 DEF SaveAnswer, SaveQuestion, SaveRun, SavePlain, SaveSelection, Saved
    <3>5. CASE RunDirect(r) \/ ConfirmClears(r) \/ ResumeClears(r) \/ SelectClears(r)
      BY <3>5 DEF RunDirect, ConfirmClears, ResumeClears, SelectClears, Ends
    <3> QED
      BY <1>6, <3>1, <3>2, <3>3, <3>4, <3>5
  <2> QED
    BY <1>5, <2>1, <2>2
<1>7. ASSUME NEW r \in Req, SaveDirect(r) PROVE Room'
  <2>1. [NoReq EXCEPT !.at = "saved"].at = "saved"
    BY DEF NoReq
  <2> QED
    BY <1>1, <1>7, <2>1, RoomStays DEF SaveDirect, Saved
<1>8. ASSUME NEW r \in Req, Finish(r) \/ Dies(r) PROVE Room'
  BY <1>1, <1>3, <1>8, RoomStays DEF Finish, Dies, Ends
<1>9. ASSUME NEW r \in Req,
             \/ ValidationStep(r) \/ OfferDocuments(r) \/ Offer(r) \/ PlainDocuments(r)
      PROVE  Room'
  <2>1. req[r].at \notin {"idle", "save_empty", "saved"} /\ minted' = minted + 1
    BY <1>9 DEF ValidationStep, OfferDocuments, Offer, PlainDocuments
  <2>2. [req[r] EXCEPT !.at = "save_empty"].at = "save_empty"
    BY <1>1 DEF ReqSet
  <2>3. \E new : Becomes(r, new) /\ new.at \in {"idle", "save_empty"}
    BY <1>3, <1>9, <2>2 DEF ValidationStep, OfferDocuments, Offer, PlainDocuments, Goes, Ends
  <2> QED
    BY <1>1, <2>1, <2>3, RoomMints
<1>10. CASE UNCHANGED vars
  BY <1>1, <1>10 DEF vars, row, Room, Active, Minters
<1> QED
  BY <1>2, <1>6, <1>7, <1>8, <1>9, <1>10 DEF Next, Works

-----------------------------------------------------------------------------
(* What the pipelines of a chat promise. *)

LEMMA InitInv == Init => PipelineInv
<1> SUFFICES ASSUME Init PROVE PipelineInv
  OBVIOUS
<1>1. fsm \in Clarification /\ DOMAIN req = Req /\ \A r \in Req : req[r] = NoReq
  BY IdleIs DEF Init
<1>2. \A r \in Req : Sound(req[r])
  BY <1>1, NoReqSound
<1>3. SoundPause
  BY NoPauseSound, NoRun DEF Init, SoundPause
<1>4. Tokens
  BY <1>1 DEF Init, Tokens, Held, NoReq, NoPause
<1>5. Room
  <2>1. Active = {} /\ Minters = {}
    BY <1>1 DEF Active, Minters, NoReq
  <2> QED
    BY <2>1, FS_EmptySet, PipelineAssumption DEF Init, Room
<1> QED
  BY <1>1, <1>2, <1>3, <1>4, <1>5 DEF PipelineInv

LEMMA NextInv == PipelineInv /\ [Next]_vars => PipelineInv'
BY NextRequests, NextPause, NextTokens, NextRoom DEF PipelineInv

\* Every reachable state satisfies the inductive invariant: the requests, the pause and
\* the tokens fit together, whatever requests overlap and wherever one of them dies.
THEOREM PipelineInvariant == Spec => []PipelineInv
BY InitInv, NextInv, PTL DEF Spec

\* Tokens stay within their bound, and the row and the requests are of their types; a
\* run is never longer than the pipeline has steps.
THEOREM PipelineTypes == Spec => []TypeOK
<1>1. ASSUME PipelineInv PROVE TypeOK
  <2>1. minted \in Nat /\ Cardinality(Minters) \in Nat /\ minted + Cardinality(Minters) <= MaxToken
    <3>1. Minters \in SUBSET Active /\ IsFiniteSet(Active)
      BY <1>1 DEF PipelineInv, Room, Active, Minters
    <3>2. Cardinality(Minters) \in Nat
      BY <3>1, FS_Subset, FS_CardinalityType
    <3> QED
      BY <1>1, <3>2 DEF PipelineInv, Room
  <2>2. minted \in Token /\ \A t \in 0 .. minted : t \in Token
    BY <2>1, PipelineAssumption DEF Token
  <2>3. pending \in Token /\ pause.token \in Token /\ spent \subseteq 1 .. minted
    BY <1>1, <2>2 DEF PipelineInv, Tokens
  <2>4. /\ pause.at \in {"none", "validation", "full_doc", "plain_doc"}
        /\ pause.results \in [Step -> Result] /\ pause.ran \in Runs
    BY <1>1, RunsAre DEF PipelineInv, SoundPause, PauseSet
  <2>5. ASSUME NEW r \in Req
        PROVE  /\ req[r].level \in 0 .. Depth /\ req[r].todo \subseteq Step /\ req[r].ran \in Runs
               /\ req[r].results \in [Step -> Result] /\ req[r].token \in Token
    <3>1. Sound(req[r]) /\ req[r].token \in 0 .. minted
      BY <1>1 DEF PipelineInv, Tokens, Held
    <3> QED
      BY <2>2, <3>1, RunsAre DEF Sound, ReqSet
  <2>6. fsm \in [stage : {"idle", "collecting", "complete", "fallback"}, missing : BOOLEAN, turn : Nat]
    BY <1>1 DEF PipelineInv, Clarification
  <2> QED
    BY <2>2, <2>3, <2>4, <2>5, <2>6 DEF TypeOK
<1> QED
  BY <1>1, PipelineInvariant, PTL

\* A pipeline runs a step at most once and behind its parents, over pauses, resumptions
\* and requests that die, for every acyclic pipeline.
THEOREM StepsRunInOrder == Spec => []ChainIsOrdered
<1>1. PipelineInv => ChainIsOrdered
  BY DEF PipelineInv, Sound, Chain, ChainIsOrdered
<1> QED
  BY <1>1, PipelineInvariant, PTL

\* Whoever composes an answer, behind however many pauses: no step was passed over that
\* does not share its level with a validation step, for every acyclic pipeline.
THEOREM NoStepIsSkipped == Spec => []NothingIsSkipped
<1>1. PipelineInv => NothingIsSkipped
  BY DEF PipelineInv, Sound, Done, Has, NothingIsSkipped
<1> QED
  BY <1>1, PipelineInvariant, PTL

\* Whatever requests overlap and wherever one dies, no token that was taken out or
\* replaced is ever found in the chat's row again.
THEOREM TokensStayOut == Spec => []TakenOutStaysOut
<1>1. PipelineInv => TakenOutStaysOut
  BY DEF PipelineInv, Tokens, TakenOutStaysOut
<1> QED
  BY <1>1, PipelineInvariant, PTL
=============================================================================
