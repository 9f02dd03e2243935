-------------------------- MODULE AgentLoop_proofs --------------------------
(***************************************************************************)
(* The agent loop for every set of calls and effects, every posture, every *)
(* limit, memory, window and number of lanes: the gates and the user's     *)
(* stop bind both paths, a failed call stays refused, the answer is the    *)
(* one named, and every request pairs its calls with their replies.        *)
(***************************************************************************)
EXTENDS AgentLoop, FiniteSetTheorems, SequenceTheorems, WellFoundedInduction, TLAPS

-----------------------------------------------------------------------------
(* Least and greatest elements: induction, in the form of sets.             *)

\* A set of naturals that is not empty has a least element.
LEMMA LeastNatural ==
  ASSUME NEW T \in SUBSET Nat, T # {}
  PROVE  \E x \in T : \A y \in T : x <= y
<1> DEFINE R == {ss \in Nat \X Nat : ss[1] < ss[2]}
<1>1. IsWellFoundedOn(R, Nat)
  BY NatLessThanWellFounded DEF OpToRel
<1> HIDE DEF R
<1>2. PICK x \in T : \A y \in T : ~ (<<y, x>> \in R)
  BY <1>1, WFMin
<1>3. ASSUME NEW y \in T PROVE x <= y
  <2>1. ~(<<y, x>> \in R) /\ x \in Nat /\ y \in Nat
    BY <1>2
  <2>2. y < x => <<y, x>> \in R
    BY <2>1 DEF R
  <2> QED BY <2>1, <2>2
<1> QED BY <1>3

\* What Least picks.
LEMMA LeastIsLeast ==
  ASSUME NEW T \in SUBSET Nat, T # {}
  PROVE  Least(T) \in T /\ \A y \in T : Least(T) <= y
BY LeastNatural DEF Least

\* What Greatest picks, in a set that is bounded.
LEMMA GreatestIsGreatest ==
  ASSUME NEW n \in Nat, NEW T \in SUBSET (0 .. n), T # {}
  PROVE  Greatest(T) \in T /\ \A y \in T : y <= Greatest(T)
<1> DEFINE D == {n - x : x \in T}
<1>1. D \in SUBSET Nat /\ D # {}
  <2>1. \A x \in T : n - x \in Nat
    OBVIOUS
  <2> QED BY <2>1
<1>2. PICK d \in D : \A y \in D : d <= y
  BY <1>1, LeastNatural
<1>3. PICK x \in T : d = n - x
  BY <1>2
<1>4. ASSUME NEW y \in T PROVE y <= x
  <2>1. n - y \in D
    OBVIOUS
  <2>2. n - x <= n - y
    BY <1>2, <1>3, <2>1
  <2> QED BY <2>2
<1> QED BY <1>4 DEF Greatest

-----------------------------------------------------------------------------
(* Where the loop stands: what the calls in hand may do.                    *)

Mode == {"bypass", "read-only", "never", "ask"}
Policy == [mode : Mode, plan : BOOLEAN, frozen : BOOLEAN, grants : SUBSET Call]
Running == {"tools", "ask", "go"}
Batching == {"batch", "launch"}

\* What is granted is what the user allowed for the session.
Granted == \A c \in Call : <<c, "session">> \in consent <=> c \in policy.grants

\* A turn's calls are in hand one by one, or all at once if none needs a
\* question; one that waits for its answer passed every refusal before it, and
\* one that is about to run passed all of them.
HandInv ==
  /\ policy \in Policy /\ Granted
  /\ pending \in Seq(Call)
  /\ pc \in Running => at \in 1 .. Len(pending)
  /\ pc \in {"ask", "go"} => InHand \notin Invalid /\ InHand \notin Remembered
  /\ pc = "ask" => Effect[InHand].approval /\ Decide(InHand) = "ask"
  /\ pc = "go" => Allowed(InHand)
  /\ pc \in Batching =>
       /\ at \in 0 .. Len(pending)
       /\ results \in Seq(BOOLEAN) /\ Len(results) <= at
       /\ \A i \in DOMAIN pending : /\ Allowed(pending[i]) /\ ~Effect[pending[i]].approval
                                    /\ pending[i] \notin Remembered
  /\ turns \in Nat /\ (pc \in Running \cup {"receive"} \cup Batching => turns > 0)
  /\ ran \in Seq([call : Call, ok : BOOLEAN, batch : Nat])

\* What the policy answers, and that it answers.
LEMMA Decides ==
  ASSUME policy \in Policy, NEW c
  PROVE  /\ Decide(c) \in {"allow", "deny", "ask"}
         /\ Decide(c) # "deny" => /\ c \notin Forbidden /\ policy.mode # "never"
                                  /\ policy.plan => ReadOnlyPermits(c)
<1>1. policy.mode \in Mode
  BY DEF Policy
<1> QED BY <1>1 DEF Decide, Resolve, Mode

\* A policy that allows a call has the user's word for it.
LEMMA AllowedByPolicy ==
  ASSUME policy \in Policy, Granted, NEW c \in Call, Decide(c) = "allow"
  PROVE  Approved(c)
<1>1. policy.mode \in Mode
  BY DEF Policy
<1>2. Resolve(c) = "allow"
  BY DEF Decide
<1> QED BY <1>1, <1>2 DEF Approved, Resolve, Mode, Granted

\* What Proceed and Deny do to the hand: the call goes on, or the next one is
\* taken up, or the turn is over.
LEMMA Onward ==
  ASSUME pending \in Seq(Call), at \in 1 .. Len(pending), Answered
  PROVE  /\ pending' \in Seq(Call)
         /\ pc' \in {"tools", "turn"}
         /\ pc' = "tools" => at' \in 1 .. Len(pending')
BY EmptySeq DEF Answered

\* Permissions that are left alone stay in order.
LEMMA PermissionStays ==
  ASSUME HandInv, UNCHANGED permission
  PROVE  /\ policy' \in Policy /\ Granted'
         /\ \A c : Allowed(c) => (Allowed(c))'
<1>1. policy' = policy /\ consent' = consent
  BY DEF permission
<1> QED BY <1>1 DEF HandInv, Granted, Allowed, Approved

\* The next step's hand, if it is given up or has not been taken up.
LEMMA HandStays ==
  ASSUME HandInv, pc' \notin Running \cup {"receive"} \cup Batching,
         UNCHANGED permission, pending' \in Seq(Call), turns' \in Nat, ran' = ran
  PROVE  HandInv'
BY DEF HandInv, Running, Batching, permission, Granted

\* Answering the call in hand without running it.
LEMMA HandAnswered ==
  ASSUME HandInv, pc \in Running, Answered, policy' \in Policy, Granted', ran' = ran
  PROVE  HandInv'
<1>1. /\ pending' \in Seq(Call)
      /\ pc' \in {"tools", "turn"} /\ (pc' = "tools" => at' \in 1 .. Len(pending'))
  BY Onward DEF HandInv
<1>2. turns' = turns /\ turns \in Nat /\ turns > 0
  BY DEF HandInv, Answered, spent
<1> QED BY <1>1, <1>2 DEF HandInv, Running, Batching

\* Outcomes extends the history by one entry for each call.
LEMMA Recorded ==
  ASSUME ran \in Seq([call : Call, ok : BOOLEAN, batch : Nat]), turns \in Nat,
         NEW cs \in Seq(Call), NEW oks \in Seq(BOOLEAN), Len(oks) = Len(cs), Outcomes(cs, oks)
  PROVE  /\ ran' \in Seq([call : Call, ok : BOOLEAN, batch : Nat])
         /\ Len(ran') = Len(ran) + Len(cs)
         /\ \A i \in 1 .. Len(ran) : ran'[i] = ran[i]
         /\ \A i \in 1 .. Len(cs) :
              ran'[Len(ran) + i] = [call |-> cs[i], ok |-> oks[i], batch |-> Together]
<1> DEFINE E == [call : Call, ok : BOOLEAN, batch : Nat]
           new == [i \in DOMAIN cs |-> [call |-> cs[i], ok |-> oks[i], batch |-> Together]]
<1>1. ran' = ran \o new
  BY DEF Outcomes
<1>2. Together \in Nat
  BY DEF Together
<1>3. \A i \in 1 .. Len(cs) : [call |-> cs[i], ok |-> oks[i], batch |-> Together] \in E
  BY <1>2
<1>4. new \in [1 .. Len(cs) -> E]
  BY <1>3
<1>5. new \in Seq(E) /\ Len(new) = Len(cs)
  BY <1>4
<1>6. \A i \in 1 .. Len(cs) : new[i] = [call |-> cs[i], ok |-> oks[i], batch |-> Together]
  OBVIOUS
<1> HIDE DEF new, E
<1>7. ran \in Seq(E)
  BY DEF E
<1>8. /\ ran' \in Seq(E) /\ Len(ran') = Len(ran) + Len(new)
      /\ \A i \in 1 .. Len(ran) + Len(new) :
           ran'[i] = IF i <= Len(ran) THEN ran[i] ELSE new[i - Len(ran)]
  <2> DEFINE r == ran'
  <2>1. r = ran \o new
    BY <1>1
  <2> HIDE DEF r
  <2>2. new \in Seq(E)
    BY <1>5
  <2> QED BY ONLY <2>1, <2>2, <1>7, ConcatProperties DEF r
<1>9. \A i \in 1 .. Len(ran) : ran'[i] = ran[i]
  BY <1>5, <1>7, <1>8
<1>10. ASSUME NEW i \in 1 .. Len(cs) PROVE ran'[Len(ran) + i] = new[i]
  <2>1. Len(ran) \in Nat /\ Len(cs) \in Nat
    BY <1>7
  <2>2. Len(ran) + i \in 1 .. Len(ran) + Len(new) /\ ~(Len(ran) + i <= Len(ran))
        /\ Len(ran) + i - Len(ran) = i
    BY <1>5, <2>1
  <2> QED BY <1>8, <2>2
<1> QED BY <1>5, <1>6, <1>8, <1>9, <1>10 DEF E

\* The action in which an approved call waits for the user, starts, or not.
LEMMA Proceeded ==
  ASSUME HandInv, pc \in {"tools", "ask"}, InHand \notin Invalid, InHand \notin Remembered,
         ~Effect[InHand].approval \/ (Decide(InHand) # "deny" /\ Approved(InHand)'),
         Proceed, policy' \in Policy, Granted', policy'.plan = policy.plan
  PROVE  HandInv'
<1>1. CASE Gated(InHand)
  BY <1>1, HandAnswered DEF Proceed, Deny, Running
<1>2. CASE ~Gated(InHand)
  <2>1. /\ pc' = "go" /\ pending' = pending /\ at' = at /\ failed' = failed
        /\ turns' = turns /\ ran' = ran
    BY <1>2 DEF Proceed, turn, spent, history
  <2>2. InHand' = InHand /\ Remembered' = Remembered
    BY <2>1 DEF InHand, Remembered
  <2>3. Effect[InHand].approval => /\ InHand \notin Forbidden
                                   /\ policy.plan => ReadOnlyPermits(InHand)
    BY Decides DEF HandInv
  <2>4. Allowed(InHand)'
    BY <1>2, <2>2, <2>3 DEF Allowed
  <2> QED BY <2>1, <2>2, <2>4 DEF HandInv, Running, Batching
<1> QED BY <1>1, <1>2

\* Every step keeps the hand in order.
LEMMA StepKeepsHand ==
  ASSUME HandInv, [Next]_vars
  PROVE  HandInv'
<1>1. CASE StopIfCancelled \/ ProviderFails \/ InvalidWithoutId
  <2>1. pc' \in Ended /\ UNCHANGED <<permission, turn, spent, history>>
    BY <1>1 DEF StopIfCancelled, ProviderFails, InvalidWithoutId, Finish, Ended
  <2> QED BY <2>1, HandStays DEF HandInv, turn, spent, history, Ended, Running, Batching
<1>2. CASE StartTurn
  <2>1. /\ \/ pc' = "salvage" /\ turns' = turns
           \/ pc' = "receive" /\ turns' = turns + 1
        /\ UNCHANGED <<permission, turn, history>>
    BY <1>2 DEF StartTurn
  <2> QED BY <2>1 DEF HandInv, turn, history, Running, Batching, permission, Granted
<1>3. CASE Retry
  <2>1. pc \in Asked /\ UNCHANGED <<pc, permission, turn, spent, history>>
    BY <1>3 DEF Retry
  <2> QED BY <2>1 DEF HandInv, turn, spent, history, Running, Batching, Asked, permission, Granted
<1>4. CASE Truncate \/ AnswerInProse
  <2>1. pc' \in {"turn", "complete"} /\ UNCHANGED <<permission, turn, turns, history>>
    BY <1>4 DEF Truncate, AnswerInProse, Finish, spent
  <2> QED BY <2>1, HandStays DEF HandInv, turn, history, Running, Batching
<1>5. ASSUME NEW cs \in Turns, NEW prose \in BOOLEAN, Designate(cs, prose) PROVE HandInv'
  <2>1. pc' \in {"turn", "complete", "cancelled"} /\ UNCHANGED <<permission, turn, spent, ran>>
    BY <1>5 DEF Designate
  <2> QED BY <2>1, HandStays DEF HandInv, turn, spent, Running, Batching
<1>6. ASSUME NEW cs \in Turns, AskForTools(cs) PROVE HandInv'
  <2>0. cs \in Seq(Call)
    BY DEF Turns
  <2>1. /\ cs \in Seq(Call) /\ cs # << >> /\ turns > 0
        /\ UNCHANGED <<turns, permission, history, failed>>
    BY <1>6, <2>0 DEF AskForTools, HandInv
  <2>2. CASE calls + Len(cs) > MaxCalls
    BY <1>6, <2>1, <2>2, HandStays DEF AskForTools, HandInv, turn, history, Running, Batching
  <2>3. CASE ~(calls + Len(cs) > MaxCalls) /\ Batchable(cs)
    <3>1. pending' = cs /\ results' = << >> /\ pc' = "batch" /\ at' = 0
      BY <1>6, <2>3 DEF AskForTools
    <3>2. \A i \in DOMAIN cs : Allowed(cs[i]) /\ ~Effect[cs[i]].approval /\ cs[i] \notin Remembered
      BY <2>3 DEF Batchable, AutoRunnable, Allowed
    <3>3. \A i \in DOMAIN cs : Allowed(cs[i])' /\ cs[i] \notin Remembered'
      BY <2>1, <3>2 DEF Allowed, Approved, Remembered, permission
    <3> QED BY <2>1, <3>1, <3>2, <3>3 DEF HandInv, history, Running, Batching, permission, Granted
  <2>4. CASE ~(calls + Len(cs) > MaxCalls) /\ ~Batchable(cs)
    <3>1. pending' = cs /\ pc' = "tools" /\ at' = 1
      BY <1>6, <2>4 DEF AskForTools
    <3>2. 1 \in 1 .. Len(cs)
      BY <2>1, EmptySeq
    <3> QED BY <2>1, <3>1, <3>2 DEF HandInv, history, Running, Batching, permission, Granted
  <2> QED BY <2>2, <2>3, <2>4
<1>0. CASE Announce
  <2>1. /\ pc = "batch" /\ pc' = "launch" /\ UNCHANGED <<turn, turns, failed, permission, history>>
    BY <1>0 DEF Announce, spent
  <2>2. \A i \in DOMAIN pending : Allowed(pending[i]) => Allowed(pending[i])'
    BY <2>1, PermissionStays DEF turn
  <2> QED BY <2>1, <2>2, PermissionStays DEF HandInv, turn, history, Running, Batching, Remembered
<1>7. CASE BatchStart
  <2>1. /\ pc = "launch" /\ at' = at + 1 /\ at < Len(pending)
        /\ UNCHANGED <<pc, turns, pending, results, failed, permission, ran>>
    BY <1>7 DEF BatchStart, spent, history
  <2>2. \A i \in DOMAIN pending : Allowed(pending[i]) => Allowed(pending[i])'
    BY <2>1, PermissionStays
  <2>3. at + 1 \in 0 .. Len(pending) /\ Len(results) <= at + 1
    BY <2>1 DEF HandInv, Batching
  <2> QED BY <2>1, <2>2, <2>3, PermissionStays DEF HandInv, Running, Batching, Remembered
<1>8. ASSUME NEW ok \in BOOLEAN, BatchFinish(ok) PROVE HandInv'
  <2>1. /\ pc = "launch" /\ Len(results) < at /\ results' = Append(results, ok)
        /\ UNCHANGED <<pc, turns, pending, at, failed, permission, ran>>
    BY <1>8 DEF BatchFinish, spent, history
  <2>2. \A i \in DOMAIN pending : Allowed(pending[i]) => Allowed(pending[i])'
    BY <2>1, PermissionStays
  <2>3. results' \in Seq(BOOLEAN) /\ Len(results') <= at
    BY <2>1 DEF HandInv, Batching
  <2> QED BY <2>1, <2>2, <2>3, PermissionStays DEF HandInv, Running, Batching, Remembered
<1>9. CASE BatchRecord
  <2>1. /\ pc' = "turn" /\ pending' = << >> /\ UNCHANGED <<turns, permission>>
        /\ Outcomes(pending, results) /\ pc = "launch" /\ Len(results) = Len(pending)
    BY <1>9 DEF BatchRecord, spent
  <2>2. ran' \in Seq([call : Call, ok : BOOLEAN, batch : Nat])
    BY <2>1, Recorded DEF HandInv, Batching
  <2> QED BY <2>1, <2>2, EmptySeq, PermissionStays DEF HandInv, Running, Batching
<1>10. CASE AnswerInvalid \/ RefuseRepeat
  BY <1>10, HandAnswered DEF AnswerInvalid, RefuseRepeat, HandInv, Running, permission, Granted
<1>11. CASE Approve
  <2>1. /\ pc = "tools" /\ InHand \notin Invalid /\ InHand \notin Remembered
        /\ policy' = policy /\ consent' = ForSession /\ InHand \in Call
    BY <1>11 DEF Approve, HandInv, InHand, Running
  <2>2. Granted' /\ policy' \in Policy
    BY <2>1 DEF Granted, ForSession, HandInv
  <2>3. CASE ~Effect[InHand].approval
    BY <1>11, <2>1, <2>2, <2>3, Proceeded DEF Approve
  <2>4. CASE Effect[InHand].approval /\ Decide(InHand) = "allow"
    <3>1. Approved(InHand)
      BY <2>1, <2>4, AllowedByPolicy DEF HandInv
    <3>2. Proceed
      BY <1>11, <2>4 DEF Approve
    <3>3. CASE Gated(InHand)
      BY <2>1, <2>2, <3>2, <3>3, HandAnswered DEF Proceed, Deny, Running
    <3>4. CASE ~Gated(InHand)
      <4>1. InHand' = InHand
        BY <3>2, <3>4 DEF Proceed, InHand, turn
      <4>2. policy.mode = "ask" => <<InHand, "session">> \in consent
        <5>1. policy.mode = "ask" => InHand \in policy.grants
          BY <2>4 DEF Decide, Resolve
        <5> QED BY <2>1, <5>1 DEF HandInv, Granted
      <4>3. <<InHand, "session">> \in consent => <<InHand, "session">> \in consent'
        BY <2>1 DEF ForSession
      <4>4. Approved(InHand)'
        BY <2>1, <3>1, <4>1, <4>2, <4>3 DEF Approved
      <4> QED BY <1>11, <2>1, <2>2, <2>4, <3>2, <4>4, Proceeded
    <3> QED BY <3>3, <3>4
  <2>5. CASE Effect[InHand].approval /\ Decide(InHand) = "deny"
    BY <1>11, <2>1, <2>2, <2>5, HandAnswered DEF Approve, Deny, Running
  <2>6. CASE Effect[InHand].approval /\ Decide(InHand) = "ask"
    <3>1. pc' = "ask" /\ UNCHANGED <<turns, turn, failed, history>>
      BY <1>11, <2>6 DEF Approve, spent
    <3>2. InHand' = InHand /\ Remembered' = Remembered /\ Decide(InHand)' = Decide(InHand)
      BY <2>1, <3>1 DEF InHand, Remembered, turn, Decide, Resolve
    <3> QED BY <2>1, <2>2, <2>6, <3>1, <3>2 DEF HandInv, Running, Batching, turn, history
  <2>7. Decide(InHand) \in {"allow", "deny", "ask"}
    BY Decides DEF HandInv
  <2> QED BY <2>3, <2>4, <2>5, <2>6, <2>7
<1>12. ASSUME NEW choice \in {"once", "session", "deny"}, UserAnswers(choice) PROVE HandInv'
  <2>1. /\ pc = "ask" /\ InHand \in Call
        /\ InHand \notin Invalid /\ InHand \notin Remembered /\ Decide(InHand) = "ask"
    BY <1>12 DEF UserAnswers, HandInv, InHand, Running
  <2>2. policy' \in Policy /\ policy'.mode = policy.mode /\ policy'.plan = policy.plan
    BY <1>12, <2>1 DEF UserAnswers, HandInv, Policy
  <2>3. Granted'
    <3>1. policy.grants \in SUBSET Call
      BY DEF HandInv, Policy
    <3>2. CASE choice = "session"
      <4>1. policy'.grants = policy.grants \cup {InHand} /\ consent' = consent \cup {<<InHand, "session">>}
        BY <1>12, <3>2 DEF UserAnswers, HandInv, Policy
      <4> QED BY <4>1 DEF Granted, HandInv
    <3>3. CASE choice # "session"
      BY <1>12, <3>3 DEF UserAnswers, Granted, HandInv
    <3> QED BY <3>2, <3>3
  <2>4. CASE Deny
    BY <2>1, <2>2, <2>3, <2>4, HandAnswered DEF Deny, Running
  <2>5. CASE choice # "deny" /\ Proceed
    <3>1. policy.mode = "ask"
      <4>1. policy.mode \in Mode
        BY DEF HandInv, Policy
      <4> QED BY <2>1, <4>1 DEF Decide, Resolve, Mode
    <3>2. <<InHand, "once">> \in consent' \/ <<InHand, "session">> \in consent'
      BY <1>12, <2>5 DEF UserAnswers
    <3>3. CASE ~Gated(InHand)
      <4>1. InHand' = InHand
        BY <2>5, <3>3 DEF Proceed, InHand, turn
      <4>2. Approved(InHand)'
        BY <2>2, <3>1, <3>2, <4>1 DEF Approved
      <4> QED BY <2>1, <2>2, <2>3, <2>5, <4>2, Proceeded
    <3>4. CASE Gated(InHand)
      BY <2>1, <2>2, <2>3, <2>5, <3>4, HandAnswered DEF Proceed, Deny, Running
    <3> QED BY <3>3, <3>4
  <2> QED BY <1>12, <2>4, <2>5 DEF UserAnswers
<1>13. ASSUME NEW ok \in BOOLEAN, Execute(ok) PROVE HandInv'
  <2>1. /\ pc = "go" /\ Outcomes(<<InHand>>, <<ok>>) /\ Answered /\ InHand \in Call
        /\ UNCHANGED policy /\ consent' = ForSession
    BY <1>13 DEF Execute, HandInv, InHand, Running
  <2>0. Granted'
    BY <2>1 DEF Granted, ForSession, HandInv
  <2>2. ran' \in Seq([call : Call, ok : BOOLEAN, batch : Nat])
    <3>1. /\ <<InHand>> \in Seq(Call) /\ <<ok>> \in Seq(BOOLEAN)
          /\ Len(<<ok>>) = Len(<<InHand>>)
      BY <2>1
    <3> QED BY <2>1, <3>1, Recorded DEF HandInv
  <2>3. pending' \in Seq(Call) /\ pc' \in {"tools", "turn"} /\ (pc' = "tools" => at' \in 1 .. Len(pending'))
    BY <2>1, Onward DEF HandInv, Running, Batching, permission, Granted
  <2>4. turns' = turns /\ turns > 0 /\ turns \in Nat
    BY <2>1 DEF Answered, spent, HandInv, Running
  <2> QED BY <2>0, <2>1, <2>2, <2>3, <2>4 DEF HandInv, Running, Batching
<1>14. CASE Cancel \/ UNCHANGED vars
  <2>1. UNCHANGED <<pc, turns, turn, failed, permission, ran>>
    BY <1>14 DEF Cancel, vars, spent, history
  <2>2. \A c : Allowed(c)' = Allowed(c) /\ Decide(c)' = Decide(c)
    BY <2>1 DEF Allowed, Approved, Decide, Resolve, permission
  <2> QED BY <2>1, <2>2 DEF HandInv, turn, InHand, Remembered, Running, Batching, permission, Granted
<1> QED BY <1>0, <1>1, <1>2, <1>3, <1>4, <1>5, <1>6, <1>7, <1>8, <1>9, <1>10, <1>11, <1>12, <1>13, <1>14
        DEF Next, Step, Respond, Batch, Sequential

\* A run begins with nothing in hand, under one of the postures.
LEMMA InitHand == Init => HandInv
<1> SUFFICES ASSUME Init PROVE HandInv
  OBVIOUS
<1>1. policy \in Policy
  BY PostureAssumption DEF Init, Policy, Mode
<1>2. Granted
  BY DEF Init, Granted
<1> QED BY <1>1, <1>2, EmptySeq DEF Init, HandInv, Running, Batching

\* The hand is in order in every state.
LEMMA Hand == Spec => []HandInv
BY InitHand, StepKeepsHand, PTL DEF Spec

-----------------------------------------------------------------------------
(* The gates and the stop: which steps run a tool.                          *)

\* A batch starts a call only by BatchStart.
LEMMA StartsByBatch ==
  ASSUME HandInv, [Next]_vars, Started # {}
  PROVE  BatchStart
<1>1. pc = "launch" /\ at' > at /\ at \in Nat
  BY DEF Started, HandInv, Batching
<1>2. at' # at /\ ~(at' = 0 /\ at' > at)
  BY <1>1
<1>3. pc \notin {"turn", "receive", "salvage", "tools", "go", "ask"}
  BY <1>1
<1>4. ~UNCHANGED turn
  BY <1>2 DEF turn
<1>5. ~(StopIfCancelled \/ StartTurn \/ Retry \/ Announce \/ Cancel \/ UNCHANGED vars)
  BY <1>4 DEF StopIfCancelled, Announce, StartTurn, Retry, Cancel, Finish, vars
<1>6. ~Respond
  BY <1>3 DEF Respond, Retry, ProviderFails, Truncate, AnswerInProse, AskForTools, Designate,
              Asked
<1>7. ~(BatchRecord \/ \E ok \in BOOLEAN : BatchFinish(ok))
  BY <1>1, <1>2 DEF BatchRecord, BatchFinish
<1>8. ~(Sequential \/ \E choice \in {"once", "session", "deny"} : UserAnswers(choice))
  BY <1>3 DEF Sequential, InvalidWithoutId, AnswerInvalid, RefuseRepeat, Approve, Execute,
              UserAnswers
<1> QED BY <1>5, <1>6, <1>7, <1>8 DEF Next, Step, Batch

\* The history of executed calls and the memory change only by Execute and BatchRecord.
LEMMA RecordsByRunning ==
  ASSUME HandInv, [Next]_vars, ~BatchRecord, \A ok \in BOOLEAN : ~Execute(ok)
  PROVE  UNCHANGED <<ran, failed>>
<1>1. StopIfCancelled \/ StartTurn \/ Announce \/ BatchStart \/ Cancel \/ UNCHANGED vars
      => UNCHANGED <<ran, failed>>
  BY DEF StopIfCancelled, StartTurn, Announce, BatchStart, Cancel, Finish, vars, history
<1>2. Respond => UNCHANGED <<ran, failed>>
  BY DEF Respond, Retry, ProviderFails, Truncate, AnswerInProse, AskForTools, Designate, Finish,
         history
<1>3. ASSUME NEW ok \in BOOLEAN, BatchFinish(ok) PROVE UNCHANGED <<ran, failed>>
  BY <1>3 DEF BatchFinish, history
<1>4. Deny \/ Proceed => UNCHANGED <<ran, failed>>
  BY DEF Deny, Proceed, history
<1>5. InvalidWithoutId \/ AnswerInvalid \/ RefuseRepeat \/ Approve => UNCHANGED <<ran, failed>>
  <2>1. Decide(InHand) \in {"allow", "deny", "ask"}
    BY Decides DEF HandInv
  <2>2. Approve => UNCHANGED <<ran, failed>>
    BY <1>4, <2>1 DEF Approve, history
  <2> QED BY <2>2 DEF InvalidWithoutId, AnswerInvalid, RefuseRepeat, Finish, history
<1>6. ASSUME NEW choice \in {"once", "session", "deny"}, UserAnswers(choice) PROVE UNCHANGED <<ran, failed>>
  BY <1>4, <1>6 DEF UserAnswers
<1> QED BY <1>1, <1>2, <1>3, <1>5, <1>6 DEF Next, Step, Batch, Sequential

\* Whether a call runs in a batch or alone, its tool is known, its gates are
\* open, and it needed no approval or was given it: by the launch policy, by a
\* grant the user made for the session, or by the user's answer to its prompt.
THEOREM Gates == Spec => GatesBindBothPaths
<1>1. HandInv /\ [Next]_vars =>
        [/\ \A c \in Started : Allowed(c) /\ ~Effect[c].approval
         /\ \A i \in (Len(ran) + 1) .. Len(ran') : Allowed(ran'[i].call)]_vars
  <2> SUFFICES ASSUME HandInv, [Next]_vars
               PROVE  /\ \A c \in Started : Allowed(c) /\ ~Effect[c].approval
                      /\ \A i \in (Len(ran) + 1) .. Len(ran') : Allowed(ran'[i].call)
    OBVIOUS
  <2>1. ASSUME NEW c \in Started PROVE Allowed(c) /\ ~Effect[c].approval
    <3>1. BatchStart
      BY <2>1, StartsByBatch
    <3>2. c = pending[at'] /\ pc = "launch" /\ at' = at + 1 /\ at < Len(pending)
      BY <2>1, <3>1 DEF Started, BatchStart
    <3>3. at' \in DOMAIN pending
      BY <3>2 DEF HandInv, Batching
    <3> QED BY <3>2, <3>3 DEF HandInv, Batching
  <2>2. ASSUME NEW i \in (Len(ran) + 1) .. Len(ran') PROVE Allowed(ran'[i].call)
    <3>1. Len(ran) \in Nat
      BY DEF HandInv
    <3>2. ran' # ran
      BY <3>1
    <3>3. ASSUME NEW cs \in Seq(Call), NEW oks \in Seq(BOOLEAN), Len(oks) = Len(cs),
                 Outcomes(cs, oks), \A k \in DOMAIN cs : Allowed(cs[k])
          PROVE  Allowed(ran'[i].call)
      <4>1. Len(ran') = Len(ran) + Len(cs) /\ \A k \in 1 .. Len(cs) : ran'[Len(ran) + k].call = cs[k]
        <5>1. turns \in Nat /\ ran \in Seq([call : Call, ok : BOOLEAN, batch : Nat])
          BY DEF HandInv
        <5>2. Len(ran') = Len(ran) + Len(cs)
          BY <3>3, <5>1, Recorded
        <5>3. ASSUME NEW k \in 1 .. Len(cs) PROVE ran'[Len(ran) + k].call = cs[k]
          <6>1. ran'[Len(ran) + k] = [call |-> cs[k], ok |-> oks[k], batch |-> Together]
            BY <3>3, <5>1, Recorded
          <6> QED BY <6>1
        <5> QED BY <5>2, <5>3
      <4>2. i - Len(ran) \in 1 .. Len(cs) /\ Len(ran) + (i - Len(ran)) = i
        BY <3>1, <3>3, <4>1
      <4>3. ran'[i].call = cs[i - Len(ran)]
        BY <4>1, <4>2
      <4> QED BY <3>3, <4>2, <4>3
    <3>4. CASE BatchRecord
      BY <3>3, <3>4 DEF BatchRecord, HandInv, Batching
    <3>5. ASSUME NEW ok \in BOOLEAN, Execute(ok) PROVE Allowed(ran'[i].call)
      <4>1. pc = "go" /\ Outcomes(<<InHand>>, <<ok>>) /\ InHand \in Call /\ Allowed(InHand)
        BY <3>5 DEF Execute, HandInv, InHand, Running
      <4>2. /\ <<InHand>> \in Seq(Call) /\ <<ok>> \in Seq(BOOLEAN)
            /\ Len(<<ok>>) = Len(<<InHand>>)
            /\ \A k \in DOMAIN <<InHand>> : Allowed(<<InHand>>[k])
        BY <4>1
      <4> QED BY <3>3, <4>1, <4>2
    <3> QED BY <3>2, <3>4, <3>5, RecordsByRunning
  <2> QED BY <2>1, <2>2
<1> QED BY <1>1, Hand, PTL DEF Spec, GatesBindBothPaths

\* Once the user has stopped the run no call starts but those of a batch that
\* had passed its check, no batch passes it, and no call is run by itself.
THEOREM StopHolds == Spec => CancelStopsTools
<1>1. HandInv /\ [Next]_vars =>
        [cancelled => /\ Started # {} => pc = "launch"
                      /\ pc' = "launch" => pc = "launch"
                      /\ ran' = ran]_vars
  <2> SUFFICES ASSUME HandInv, [Next]_vars, cancelled
               PROVE  /\ Started # {} => pc = "launch"
                      /\ pc' = "launch" => pc = "launch"
                      /\ ran' = ran
    OBVIOUS
  <2>1. Started # {} => pc = "launch"
    BY DEF Started
  <2>2. ASSUME pc' = "launch" PROVE pc = "launch"
    <3>1. ~Respond
      BY <2>2 DEF Respond, Retry, ProviderFails, Truncate, AnswerInProse, AskForTools, Designate,
                  Finish, Asked
    <3>2. ~(StopIfCancelled \/ StartTurn \/ Announce \/ BatchRecord)
      BY <2>2 DEF StopIfCancelled, StartTurn, Announce, BatchRecord, Finish
    <3>3. ~Deny /\ ~Answered
      BY <2>2 DEF Deny, Answered
    <3>4. ~Proceed
      BY <2>2, <3>3 DEF Proceed
    <3>5. ~Approve
      <4>1. Decide(InHand) \in {"allow", "deny", "ask"}
        BY Decides DEF HandInv
      <4> QED BY <2>2, <3>3, <3>4, <4>1 DEF Approve
    <3>6. ~Sequential /\ \A choice : ~UserAnswers(choice)
      BY <2>2, <3>3, <3>4, <3>5 DEF Sequential, InvalidWithoutId, AnswerInvalid, RefuseRepeat,
                                    Execute, UserAnswers, Finish
    <3>7. CASE BatchStart \/ (\E ok \in BOOLEAN : BatchFinish(ok)) \/ Cancel \/ UNCHANGED vars
      BY <2>2, <3>7 DEF BatchStart, BatchFinish, Cancel, vars
    <3> QED BY <3>1, <3>2, <3>6, <3>7 DEF Next, Step, Batch
  <2>3. ran' = ran
    BY RecordsByRunning DEF BatchRecord, Execute
  <2> QED BY <2>1, <2>2, <2>3
<1> QED BY <1>1, Hand, PTL DEF Spec, CancelStopsTools

-----------------------------------------------------------------------------
(* The answer.                                                              *)

\* A statement is named once the model designated one, and then it is the
\* first; the last statement that succeeded is one that ran.
Succeeded(s) == \E i \in DOMAIN ran : ran[i].call = s /\ ran[i].ok
AnswerInv ==
  /\ named \in Seq(Call)
  /\ sql = IF named = << >> THEN None ELSE named[1]
  /\ proseDue => named # << >>
  /\ lastSql # None => Succeeded(lastSql)
  /\ AnswerIsWhatWasNamed

\* The best answer of a salvage is the one named, or one that ran.
LEMMA BestIsKnown ==
  ASSUME AnswerInv
  PROVE  IF named # << >> THEN Best = named[1] ELSE Best # None => Succeeded(Best)
<1>1. named # << >> => named[1] \in Call
  BY EmptySeq DEF AnswerInv
<1> QED BY <1>1, CallsAssumption DEF AnswerInv, Best

\* A step that ends the run otherwise than with an answer, or not at all.
LEMMA AnswerStays ==
  ASSUME AnswerInv, UNCHANGED <<named, sql, lastSql, ran>>, proseDue' => proseDue,
         pc' # "complete" \/ UNCHANGED <<pc, answer>>
  PROVE  AnswerInv'
BY DEF AnswerInv, AnswerIsWhatWasNamed, Succeeded

\* The run completes with answer a.
LEMMA Completes ==
  ASSUME AnswerInv, NEW a, Finish("complete", a),
         IF named # << >> THEN a = named[1] ELSE a # None => Succeeded(a)
  PROVE  AnswerInv'
BY DEF AnswerInv, AnswerIsWhatWasNamed, Succeeded, Finish, designation, history

\* What the calls just run came to: the last statement among those that
\* succeeded, if any did.
LEMMA SucceededLast ==
  ASSUME HandInv, AnswerInv, NEW cs \in Seq(Call), NEW oks \in Seq(BOOLEAN), Len(oks) = Len(cs),
         Outcomes(cs, oks), pc' # "complete", UNCHANGED <<named, sql, proseDue>>
  PROVE  AnswerInv'
<1> DEFINE good == {i \in DOMAIN cs : oks[i] /\ cs[i] \in Statement}
           g == Greatest(good)
<1>1. turns \in Nat /\ ran \in Seq([call : Call, ok : BOOLEAN, batch : Nat])
  BY DEF HandInv
<1>2. /\ ran' \in Seq([call : Call, ok : BOOLEAN, batch : Nat])
      /\ Len(ran') = Len(ran) + Len(cs)
      /\ \A i \in 1 .. Len(ran) : ran'[i] = ran[i]
  BY <1>1, Recorded
<1>3. lastSql' = IF good = {} THEN lastSql ELSE cs[g]
  BY DEF Outcomes, Greatest
<1>4. ASSUME good = {}, lastSql # None PROVE Succeeded(lastSql)'
  <2>1. PICK i \in DOMAIN ran : ran[i].call = lastSql /\ ran[i].ok
    BY <1>4 DEF AnswerInv, Succeeded
  <2>2. i \in DOMAIN ran' /\ ran'[i] = ran[i]
    <3>1. i \in 1 .. Len(ran) /\ Len(ran) \in Nat /\ Len(cs) \in Nat
      BY <1>1
    <3>2. DOMAIN ran' = 1 .. Len(ran')
      BY <1>2
    <3> QED BY <1>2, <3>1, <3>2
  <2>3. lastSql' = lastSql
    BY <1>3, <1>4
  <2> QED BY <2>1, <2>2, <2>3 DEF Succeeded
<1>5. ASSUME good # {} PROVE Succeeded(lastSql)'
  <2>1. Len(cs) \in Nat /\ good \in SUBSET (0 .. Len(cs))
    OBVIOUS
  <2>2. g \in good
    BY <1>5, <2>1, GreatestIsGreatest
  <2>3. g \in 1 .. Len(cs) /\ oks[g]
    BY <2>2
  <2>4. ran'[Len(ran) + g] = [call |-> cs[g], ok |-> oks[g], batch |-> Together]
    BY <1>1, <2>3, Recorded
  <2>5. Len(ran) + g \in DOMAIN ran'
    BY <1>1, <1>2, <2>3
  <2> HIDE DEF g
  <2>6. ran'[Len(ran) + g].call = lastSql' /\ ran'[Len(ran) + g].ok
    BY <1>3, <1>5, <2>3, <2>4
  <2> QED BY <2>5, <2>6 DEF Succeeded
<1>6. lastSql' # None => Succeeded(lastSql)'
  BY <1>3, <1>4, <1>5
<1> QED BY <1>6 DEF AnswerInv, AnswerIsWhatWasNamed, Succeeded

\* Every step keeps the answer what was named.
LEMMA StepKeepsAnswer ==
  ASSUME HandInv, AnswerInv, [Next]_vars
  PROVE  AnswerInv'
<1>1. CASE StopIfCancelled \/ InvalidWithoutId
  BY <1>1, AnswerStays DEF StopIfCancelled, InvalidWithoutId, Finish, designation, history
<1>2. CASE StartTurn \/ Truncate \/ Announce
  BY <1>2, AnswerStays DEF StartTurn, Truncate, Announce, designation, history
<1>3. CASE ProviderFails
  <2>1. CASE pc = "receive" /\ proseDue /\ Finish("complete", sql)
    BY <2>1, Completes DEF AnswerInv
  <2>2. CASE Finish("error", None)
    BY <2>2, AnswerStays DEF Finish, designation, history
  <2>3. CASE Finish("complete", Best)
    BY <2>3, Completes, BestIsKnown
  <2> QED BY <1>3, <2>1, <2>2, <2>3 DEF ProviderFails
<1>4. CASE AnswerInProse
  <2>1. CASE Finish("complete", Best)
    BY <2>1, Completes, BestIsKnown
  <2>2. CASE /\ answer' = sql /\ proseDue' = FALSE /\ UNCHANGED <<sql, lastSql, history>>
    BY <2>2 DEF AnswerInv, AnswerIsWhatWasNamed, Succeeded, history
  <2> QED BY <1>4, <2>1, <2>2 DEF AnswerInProse
<1>5. ASSUME NEW cs \in Turns, NEW prose \in BOOLEAN, Designate(cs, prose) PROVE AnswerInv'
  <2> DEFINE d == FirstDesignation(cs)
  <2>1. cs \in Seq(Call)
    BY DEF Turns
  <2>2. Designations(cs) \in SUBSET Nat /\ Designations(cs) # {}
    BY <1>5, <2>1 DEF Designations, Designate
  <2>3. d \in Call
    BY <2>1, <2>2, LeastIsLeast DEF FirstDesignation, Designations
  <2> HIDE DEF d
  <2>4. sql' = Standing(d) /\ named' = Append(named, d) /\ lastSql' = lastSql /\ ran' = ran
    BY <1>5 DEF Designate, d
  <2>5. named' \in Seq(Call) /\ named' # << >> /\ named'[1] = (IF named = << >> THEN d ELSE named[1])
    <3>1. named \in Seq(Call) /\ (named # << >> => 1 \in 1 .. Len(named))
      BY EmptySeq DEF AnswerInv
    <3> QED BY <2>3, <2>4, <3>1, AppendProperties, EmptySeq
  <2>6. named # << >> => sql = named[1] /\ named[1] \in Call
    BY EmptySeq DEF AnswerInv
  <2>7. sql' = named'[1]
    BY <2>4, <2>5, <2>6, CallsAssumption DEF AnswerInv, Standing
  <2>8. pc' = "complete" => answer' = sql'
    BY <1>5 DEF Designate
  <2> QED BY <2>4, <2>5, <2>7, <2>8 DEF AnswerInv, AnswerIsWhatWasNamed, Succeeded
<1>6. ASSUME NEW cs \in Turns, AskForTools(cs) PROVE AnswerInv'
  <2>1. /\ proseDue' = FALSE /\ pc' \in {"salvage", "batch", "tools"}
        /\ UNCHANGED <<sql, lastSql, history>>
    BY <1>6 DEF AskForTools
  <2> QED BY <2>1, AnswerStays DEF history
<1>7. CASE Retry \/ BatchStart \/ Cancel \/ UNCHANGED vars \/ \E ok \in BOOLEAN : BatchFinish(ok)
  <2>1. UNCHANGED <<pc, answer, sql, proseDue, lastSql, named, ran>>
    BY <1>7 DEF Retry, BatchStart, BatchFinish, Cancel, vars, designation, history
  <2> QED BY <2>1, AnswerStays
<1>8. CASE BatchRecord
  <2>1. /\ pc = "launch" /\ Len(results) = Len(pending) /\ Outcomes(pending, results)
        /\ pc' = "turn" /\ UNCHANGED <<named, sql, proseDue>>
    BY <1>8 DEF BatchRecord, designation
  <2> QED BY <2>1, SucceededLast DEF HandInv, Batching
<1>9. ASSUME NEW ok \in BOOLEAN, Execute(ok) PROVE AnswerInv'
  <2>1. /\ pc = "go" /\ Outcomes(<<InHand>>, <<ok>>) /\ pc' \in {"tools", "turn"}
        /\ UNCHANGED <<named, sql, proseDue>>
    BY <1>9 DEF Execute, Answered, designation
  <2>2. InHand \in Call
    BY <2>1 DEF HandInv, InHand, Running
  <2>3. /\ <<InHand>> \in Seq(Call) /\ <<ok>> \in Seq(BOOLEAN)
        /\ Len(<<ok>>) = Len(<<InHand>>)
    BY <2>2
  <2> QED BY <2>1, <2>3, SucceededLast
<1>10. ASSUME Answered, UNCHANGED <<lastSql, ran>> PROVE AnswerInv'
  <2>1. pc' \in {"tools", "turn"} /\ UNCHANGED <<sql, proseDue, named>>
    BY <1>10 DEF Answered, designation
  <2> QED BY <1>10, <2>1, AnswerStays
<1>11. CASE Proceed
  <2>1. CASE Gated(InHand)
    BY <1>10, <1>11, <2>1 DEF Proceed, Deny
  <2>2. CASE ~Gated(InHand)
    BY <1>11, <2>2, AnswerStays DEF Proceed, designation, history
  <2> QED BY <2>1, <2>2
<1>12. CASE AnswerInvalid \/ RefuseRepeat
  BY <1>10, <1>12 DEF AnswerInvalid, RefuseRepeat
<1>13. CASE Approve
  <2>1. Decide(InHand) \in {"allow", "deny", "ask"}
    BY Decides DEF HandInv
  <2>2. Deny => AnswerInv'
    BY <1>10 DEF Deny
  <2>3. pc' = "ask" /\ UNCHANGED <<lastSql, designation, history>> => AnswerInv'
    BY AnswerStays DEF designation, history
  <2> QED BY <1>11, <1>13, <2>1, <2>2, <2>3 DEF Approve
<1>14. ASSUME NEW choice, UserAnswers(choice) PROVE AnswerInv'
  BY <1>10, <1>11, <1>14 DEF UserAnswers, Deny
<1> QED BY <1>1, <1>2, <1>3, <1>4, <1>5, <1>6, <1>7, <1>8, <1>9, <1>12, <1>13, <1>14
        DEF Next, Step, Respond, Batch, Sequential

\* A run that ends with an answer carries the statement the model designated
\* first, or else one that ran and succeeded.
THEOREM NamedAnswer == Spec => []AnswerIsWhatWasNamed
<1>1. Init => AnswerInv
  BY EmptySeq DEF Init, AnswerInv, AnswerIsWhatWasNamed
<1>2. AnswerInv => AnswerIsWhatWasNamed
  BY DEF AnswerInv
<1> QED BY <1>1, <1>2, StepKeepsAnswer, Hand, PTL DEF Spec

-----------------------------------------------------------------------------
(* The memory of failed calls, and the history it stands for.               *)

Entry == [call : Call, ok : BOOLEAN, batch : Nat]

\* FailedSince and SameBatch of a history.
Since(log, i, j) ==
  {log[k].call : k \in {k \in (i + 1) .. (j - 1) : ~log[k].ok}} \ {log[i].call}
Batched(log, i, j) == log[i].batch = log[j].batch /\ log[i].batch > 0

\* k is the failure that i goes by: itself, or one of the same call in its batch.
StandsFor(log, k, i) ==
  log[k].call = log[i].call /\ ~log[k].ok /\ (k = i \/ Batched(log, k, i))

\* The call of k is remembered, and whatever the memory holds behind it failed
\* after k; or as many others as the memory holds have failed since.
Kept(mem, log, k) ==
  \/ \E m \in DOMAIN mem : /\ mem[m] = log[k].call
                           /\ \A p \in (m + 1) .. Len(mem) : mem[p] \in Since(log, k, Len(log) + 1)
  \/ Cardinality(Since(log, k, Len(log) + 1)) >= Memory

\* The memory is short and holds no call twice, and every failure goes by one
\* that is kept in it.
Distinct(mem) == \A p, q \in DOMAIN mem : mem[p] = mem[q] => p = q
Remembers(mem, log) ==
  /\ mem \in Seq(Call) /\ Len(mem) <= Memory /\ Distinct(mem)
  /\ \A i \in DOMAIN log : ~log[i].ok => \E k \in 1 .. i : StandsFor(log, k, i) /\ Kept(mem, log, k)

\* FailedCallStaysRefused of a history.
Refused(log) ==
  \A i, j \in DOMAIN log :
    i < j /\ log[i].call = log[j].call /\ ~log[i].ok
    => \/ Batched(log, i, j)
       \/ \E k \in 1 .. i : StandsFor(log, k, i) /\ Cardinality(Since(log, k, j)) >= Memory

MemoryInv == Remembers(failed, ran) /\ Refused(ran)

Extends(log2, log) ==
  /\ log \in Seq(Entry) /\ log2 \in Seq(Entry) /\ Len(log) <= Len(log2)
  /\ \A i \in 1 .. Len(log) : log2[i] = log[i]

\* The calls that failed since are finitely many.
LEMMA SinceFinite ==
  ASSUME NEW log \in Seq(Entry), NEW i \in Nat, NEW j \in Nat
  PROVE  IsFiniteSet(Since(log, i, j))
<1> DEFINE S == {k \in (i + 1) .. (j - 1) : ~log[k].ok}
           T == {log[k].call : k \in S}
           f == [k \in S |-> log[k].call]
<1>1. IsFiniteSet((i + 1) .. (j - 1))
  BY FS_Interval
<1>2. IsFiniteSet(S)
  BY <1>1, FS_Subset
<1>3. f \in Surjection(S, T)
  BY DEF Surjection
<1>4. IsFiniteSet(T)
  BY <1>2, <1>3, FS_Surjection
<1>5. Since(log, i, j) \in SUBSET T
  BY DEF Since
<1> QED BY <1>4, <1>5, FS_Subset

\* What failed since then still has when more is recorded, and when asked later.
LEMMA SinceGrows ==
  ASSUME NEW log, NEW log2, Extends(log2, log),
         NEW k \in 1 .. Len(log), NEW j \in 1 .. (Len(log) + 1), NEW l \in Nat, j <= l
  PROVE  /\ Since(log, k, j) \subseteq Since(log2, k, l)
         /\ Cardinality(Since(log, k, j)) >= Memory => Cardinality(Since(log2, k, l)) >= Memory
<1>1. log \in Seq(Entry) /\ log2 \in Seq(Entry) /\ \A i \in 1 .. Len(log) : log2[i] = log[i]
  BY DEF Extends
<1>2. Since(log, k, j) \subseteq Since(log2, k, l)
  <2>1. ASSUME NEW q \in (k + 1) .. (j - 1), ~log[q].ok
        PROVE  q \in (k + 1) .. (l - 1) /\ ~log2[q].ok /\ log2[q].call = log[q].call
    <3>1. Len(log) \in Nat /\ q \in 1 .. Len(log) /\ q \in (k + 1) .. (l - 1)
      BY <1>1
    <3> QED BY <1>1, <2>1, <3>1
  <2>2. log2[k] = log[k]
    BY <1>1
  <2> QED BY <2>1, <2>2 DEF Since
<1>3. IsFiniteSet(Since(log2, k, l))
  BY <1>1, SinceFinite
<1>4. /\ IsFiniteSet(Since(log, k, j))
      /\ Cardinality(Since(log, k, j)) <= Cardinality(Since(log2, k, l))
  BY <1>2, <1>3, FS_Subset
<1>5. Cardinality(Since(log, k, j)) \in Nat /\ Cardinality(Since(log2, k, l)) \in Nat
  BY <1>3, <1>4, FS_CardinalityType
<1>6. Memory \in Nat
  BY LimitsAssumption
<1> QED BY <1>2, <1>4, <1>5, <1>6

\* A failure that stands for another goes on doing so.
LEMMA StandsStill ==
  ASSUME NEW log, NEW log2, Extends(log2, log), NEW i \in 1 .. Len(log), NEW k \in 1 .. i,
         StandsFor(log, k, i)
  PROVE  StandsFor(log2, k, i)
<1>1. log \in Seq(Entry) /\ k \in 1 .. Len(log) /\ log2[i] = log[i] /\ log2[k] = log[k]
  BY DEF Extends
<1> QED BY <1>1 DEF StandsFor, Batched

\* One call more has failed: what the memory holds then.
LEMMA RememberFacts ==
  ASSUME NEW mem \in Seq(Call), NEW c \in Call, Len(mem) <= Memory, Distinct(mem),
         \A m \in DOMAIN mem : mem[m] # c
  PROVE  LET new == Remember(mem, c) IN
         /\ new \in Seq(Call) /\ Len(new) <= Memory /\ Distinct(new)
         /\ Len(new) \in DOMAIN new /\ new[Len(new)] = c
         /\ Len(mem) < Memory => /\ Len(new) = Len(mem) + 1
                                 /\ \A m \in 1 .. Len(mem) : new[m] = mem[m]
         /\ ~(Len(mem) < Memory) => /\ Len(new) = Memory /\ Len(mem) = Memory
                                    /\ \A m \in 1 .. (Memory - 1) : new[m] = mem[m + 1]
<1> DEFINE old == IF Len(mem) >= Memory THEN Tail(mem) ELSE mem
           new == Append(old, c)
<1>1. Memory \in Nat \ {0} /\ Len(mem) \in Nat
  BY LimitsAssumption
<1>2. Remember(mem, c) = new
  BY DEF Remember
<1>3. CASE Len(mem) < Memory
  <2>1. old = mem
    BY <1>1, <1>3
  <2>2. /\ new \in Seq(Call) /\ Len(new) = Len(mem) + 1 /\ new[Len(mem) + 1] = c
        /\ \A m \in 1 .. Len(mem) : new[m] = mem[m]
    <3>1. new = Append(mem, c)
      BY <2>1
    <3> HIDE DEF new
    <3> QED BY <3>1, AppendProperties
  <2> HIDE DEF new, old
  <2>3. Distinct(new)
    <3> SUFFICES ASSUME NEW p \in DOMAIN new, NEW q \in DOMAIN new, new[p] = new[q]
                 PROVE  p = q
      BY DEF Distinct
    <3>1. DOMAIN new = 1 .. (Len(mem) + 1)
      BY <2>2
    <3>2. CASE p \in 1 .. Len(mem) /\ q \in 1 .. Len(mem)
      BY <2>2, <3>2 DEF Distinct
    <3>3. CASE p = Len(mem) + 1 \/ q = Len(mem) + 1
      BY <1>1, <2>2, <3>1, <3>3
    <3> QED BY <1>1, <3>1, <3>2, <3>3
  <2>4. Len(new) \in DOMAIN new /\ new[Len(new)] = c /\ Len(new) <= Memory
    BY <1>1, <1>3, <2>2
  <2> QED BY <1>1, <1>2, <1>3, <2>2, <2>3, <2>4
<1>4. CASE ~(Len(mem) < Memory)
  <2>1. Len(mem) = Memory /\ old = Tail(mem) /\ mem # << >>
    BY <1>1, <1>4, EmptySeq
  <2>2. /\ old \in Seq(Call) /\ Len(old) = Memory - 1
        /\ \A m \in 1 .. (Memory - 1) : old[m] = mem[m + 1]
    BY <1>1, <2>1, HeadTailProperties
  <2> HIDE DEF old
  <2>3. /\ new \in Seq(Call) /\ Len(new) = Len(old) + 1 /\ new[Len(old) + 1] = c
        /\ \A m \in 1 .. Len(old) : new[m] = old[m]
    BY <2>2, AppendProperties
  <2> HIDE DEF new
  <2>4. /\ Len(new) = Memory /\ new[Memory] = c
        /\ \A m \in 1 .. (Memory - 1) : new[m] = mem[m + 1]
    BY <1>1, <2>2, <2>3
  <2>5. Distinct(new)
    <3> SUFFICES ASSUME NEW p \in DOMAIN new, NEW q \in DOMAIN new, new[p] = new[q]
                 PROVE  p = q
      BY DEF Distinct
    <3>1. DOMAIN new = 1 .. Memory
      BY <2>3, <2>4
    <3>2. \A m \in 1 .. (Memory - 1) : m + 1 \in DOMAIN mem
      BY <1>1, <2>1
    <3>3. CASE p \in 1 .. (Memory - 1) /\ q \in 1 .. (Memory - 1)
      <4>1. mem[p + 1] = mem[q + 1] /\ p + 1 \in DOMAIN mem /\ q + 1 \in DOMAIN mem
        BY <2>4, <3>2, <3>3
      <4>2. p + 1 = q + 1
        BY <4>1 DEF Distinct
      <4> QED BY <1>1, <3>3, <4>2
    <3>4. CASE p = Memory \/ q = Memory
      BY <1>1, <2>4, <3>1, <3>2, <3>4
    <3> QED BY <1>1, <3>1, <3>3, <3>4
  <2>6. Len(new) \in DOMAIN new /\ new[Len(new)] = c /\ Len(new) <= Memory
    BY <1>1, <2>3, <2>4
  <2> QED BY <1>1, <1>2, <1>4, <2>1, <2>3, <2>4, <2>5, <2>6
<1> QED BY <1>3, <1>4

\* What the memory is after the outcome e, which adds to the history; and a
\* call that has run although it was remembered ran in the batch that made it so.
Adds(log2, log, e) ==
  Extends(log2, log) /\ Len(log2) = Len(log) + 1 /\ e = log2[Len(log2)]
After(mem, e) == IF e.ok THEN mem ELSE Remember(mem, e.call)
Known(mem, log, e) ==
  \A m \in DOMAIN mem : mem[m] = e.call =>
    \E q \in DOMAIN log : /\ log[q].call = e.call /\ ~log[q].ok
                          /\ log[q].batch = e.batch /\ e.batch > 0

\* A new entry at the end of a history, and the memory it leaves.
LEMMA OneMore ==
  ASSUME NEW mem, NEW log, NEW log2, NEW e,
         Adds(log2, log, e), Remembers(mem, log), Known(mem, log, e)
  PROVE  /\ Remembers(After(mem, e), log2)
         /\ \A m \in DOMAIN After(mem, e) :
              (After(mem, e)[m] = e.call /\ ~e.ok) \/ \E p \in DOMAIN mem : After(mem, e)[m] = mem[p]
<1> DEFINE n == Len(log2)
           c == e.call
           mem2 == After(mem, e)
<1>0. /\ Extends(log2, log) /\ Len(log2) = Len(log) + 1 /\ e = log2[Len(log2)]
      /\ mem2 = IF e.ok THEN mem ELSE Remember(mem, e.call)
  BY DEF Adds, After
<1> SUFFICES /\ Remembers(mem2, log2)
             /\ \A m \in DOMAIN mem2 :
                  (mem2[m] = e.call /\ ~e.ok) \/ \E p \in DOMAIN mem : mem2[m] = mem[p]
  OBVIOUS
<1> HIDE DEF mem2
<1>1. /\ log \in Seq(Entry) /\ log2 \in Seq(Entry) /\ Len(log) \in Nat
      /\ n = Len(log) + 1 /\ n \in Nat /\ n \in DOMAIN log2 /\ log2[n] = e
      /\ \A i \in 1 .. Len(log) : log2[i] = log[i]
  BY <1>0 DEF Extends
<1>2. e \in Entry /\ c \in Call
  <2>1. e \in Entry
    BY <1>1
  <2> QED BY <2>1 DEF Entry
<1>3. mem \in Seq(Call) /\ Len(mem) <= Memory /\ Distinct(mem) /\ Memory \in Nat \ {0}
  BY LimitsAssumption DEF Remembers
<1> HIDE DEF n, c
\* What goes by a failure kept in the memory before goes by it afterwards.
<1>4. ASSUME mem2 \in Seq(Call), Len(mem2) <= Memory, Distinct(mem2),
             \A k \in 1 .. Len(log) : ~log[k].ok /\ Kept(mem, log, k) => Kept(mem2, log2, k),
             ~e.ok => \E k \in 1 .. n : StandsFor(log2, k, n) /\ Kept(mem2, log2, k)
      PROVE  Remembers(mem2, log2)
  <2> SUFFICES ASSUME NEW i \in DOMAIN log2, ~log2[i].ok
               PROVE  \E k \in 1 .. i : StandsFor(log2, k, i) /\ Kept(mem2, log2, k)
    BY <1>4 DEF Remembers
  <2>1. i \in 1 .. n
    BY <1>1 DEF n
  <2>2. CASE i = n
    BY <1>1, <1>4, <2>2
  <2>3. CASE i \in 1 .. Len(log)
    <3>1. ~log[i].ok /\ i \in DOMAIN log
      BY <1>1, <2>3
    <3>2. PICK k \in 1 .. i : StandsFor(log, k, i) /\ Kept(mem, log, k)
      BY <3>1 DEF Remembers
    <3>3. k \in 1 .. Len(log) /\ ~log[k].ok
      BY <1>1, <2>3, <3>2 DEF StandsFor
    <3>4. StandsFor(log2, k, i)
      BY <1>0, <2>3, <3>2, StandsStill
    <3> QED BY <1>4, <3>2, <3>3, <3>4
  <2> QED BY <1>1, <2>1, <2>2, <2>3
\* What had failed since k still has; and the new failure joins it.
<1>5. ASSUME NEW k \in 1 .. Len(log)
      PROVE  /\ Since(log, k, Len(log) + 1) \subseteq Since(log2, k, n + 1)
             /\ (Cardinality(Since(log, k, Len(log) + 1)) >= Memory) =>
                  (Cardinality(Since(log2, k, n + 1)) >= Memory)
             /\ ~e.ok /\ c # log[k].call => c \in Since(log2, k, n + 1)
  <2>1. Len(log) + 1 \in 1 .. (Len(log) + 1) /\ n + 1 \in Nat /\ Len(log) + 1 <= n + 1
    BY <1>1
  <2>2. ASSUME ~e.ok, c # log[k].call PROVE c \in Since(log2, k, n + 1)
    <3>1. n \in (k + 1) .. ((n + 1) - 1) /\ log2[k] = log[k]
      BY <1>1
    <3>2. ~log2[n].ok /\ log2[n].call = c
      BY <1>1, <2>2 DEF c
    <3> QED BY <2>2, <3>1, <3>2 DEF Since
  <2> QED BY <1>0, <2>1, <2>2, SinceGrows
<1>6. CASE e.ok
  <2>1. mem2 = mem
    BY <1>0, <1>6
  <2>2. ASSUME NEW k \in 1 .. Len(log), Kept(mem, log, k) PROVE Kept(mem2, log2, k)
    <3>1. log2[k] = log[k]
      BY <1>1
    <3> QED BY <1>5, <2>1, <2>2, <3>1 DEF Kept, n
  <2> QED BY <1>3, <1>4, <1>6, <2>1, <2>2
<1>7. CASE ~e.ok /\ \E m \in DOMAIN mem : mem[m] = c
  <2>1. mem2 = mem
    BY <1>0, <1>7 DEF Remember, c
  <2>2. ASSUME NEW k \in 1 .. Len(log), Kept(mem, log, k) PROVE Kept(mem2, log2, k)
    <3>1. log2[k] = log[k]
      BY <1>1
    <3> QED BY <1>5, <2>1, <2>2, <3>1 DEF Kept, n
  <2>3. PICK q \in DOMAIN log : log[q].call = c /\ ~log[q].ok /\ log[q].batch = e.batch /\ e.batch > 0
    BY <1>7 DEF c, Known
  <2>4. PICK k \in 1 .. q : StandsFor(log, k, q) /\ Kept(mem, log, k)
    BY <2>3 DEF Remembers
  <2>5. k \in 1 .. Len(log) /\ k \in 1 .. n /\ log2[k] = log[k]
    BY <1>1, <2>4
  <2>6. StandsFor(log2, k, n)
    BY <1>1, <2>3, <2>4, <2>5 DEF StandsFor, Batched, c
  <2> QED BY <1>3, <1>4, <2>1, <2>2, <2>4, <2>5, <2>6
<1>8. CASE ~e.ok /\ \A m \in DOMAIN mem : mem[m] # c
  <2>1. mem2 = Remember(mem, c)
    BY <1>0, <1>8 DEF c
  <2>2. /\ mem2 \in Seq(Call) /\ Len(mem2) <= Memory /\ Distinct(mem2)
        /\ Len(mem2) \in DOMAIN mem2 /\ mem2[Len(mem2)] = c
        /\ Len(mem) < Memory => /\ Len(mem2) = Len(mem) + 1
                                /\ \A m \in 1 .. Len(mem) : mem2[m] = mem[m]
        /\ ~(Len(mem) < Memory) => /\ Len(mem2) = Memory /\ Len(mem) = Memory
                                   /\ \A m \in 1 .. (Memory - 1) : mem2[m] = mem[m + 1]
    BY <1>2, <1>3, <1>8, <2>1, RememberFacts
  <2>3. ASSUME NEW k \in 1 .. Len(log), Kept(mem, log, k) PROVE Kept(mem2, log2, k)
    <3>1. log2[k] = log[k]
      BY <1>1
    <3>2. CASE Cardinality(Since(log, k, Len(log) + 1)) >= Memory
      BY <1>5, <3>2 DEF Kept, n
    <3>3. ASSUME NEW m \in DOMAIN mem, mem[m] = log[k].call,
                 \A p \in (m + 1) .. Len(mem) : mem[p] \in Since(log, k, Len(log) + 1)
          PROVE  Kept(mem2, log2, k)
      <4>1. c \in Since(log2, k, n + 1)
        BY <1>5, <1>8, <3>3
      <4>2. \A p \in (m + 1) .. Len(mem) : mem[p] \in Since(log2, k, n + 1)
        BY <1>5, <3>3
      <4>3. CASE Len(mem) < Memory
        <5>1. m \in DOMAIN mem2 /\ mem2[m] = log2[k].call
          BY <1>3, <2>2, <3>1, <3>3, <4>3
        <5>2. ASSUME NEW p \in (m + 1) .. Len(mem2) PROVE mem2[p] \in Since(log2, k, n + 1)
          <6>1. CASE p = Len(mem2)
            BY <2>2, <4>1, <6>1
          <6>2. CASE p # Len(mem2)
            <7>1. p \in (m + 1) .. Len(mem) /\ p \in 1 .. Len(mem)
              BY <1>3, <2>2, <4>3, <6>2
            <7> QED BY <2>2, <4>2, <4>3, <7>1
          <6> QED BY <6>1, <6>2
        <5> QED BY <5>1, <5>2 DEF Kept, n
      <4>4. CASE ~(Len(mem) < Memory) /\ m > 1
        <5>1. /\ m - 1 \in DOMAIN mem2 /\ m - 1 \in 1 .. (Memory - 1)
              /\ (m - 1) + 1 = m
          BY <1>3, <2>2, <4>4
        <5>2. mem2[m - 1] = log2[k].call
          BY <2>2, <3>1, <3>3, <4>4, <5>1
        <5>3. ASSUME NEW p \in ((m - 1) + 1) .. Len(mem2) PROVE mem2[p] \in Since(log2, k, n + 1)
          <6>1. CASE p = Len(mem2)
            BY <2>2, <4>1, <6>1
          <6>2. CASE p # Len(mem2)
            <7>1. p \in 1 .. (Memory - 1) /\ p + 1 \in (m + 1) .. Len(mem)
              BY <1>3, <2>2, <4>4, <6>2
            <7> QED BY <2>2, <4>2, <4>4, <7>1
          <6> QED BY <6>1, <6>2
        <5> QED BY <5>1, <5>2, <5>3 DEF Kept, n
      <4>5. CASE ~(Len(mem) < Memory) /\ m = 1
        <5> DEFINE F == Since(log2, k, n + 1)
        <5>1. ASSUME NEW p \in 1 .. Memory PROVE mem2[p] \in F
          <6>1. CASE p = Memory
            BY <2>2, <4>1, <4>5, <6>1
          <6>2. CASE p # Memory
            <7>1. p \in 1 .. (Memory - 1) /\ p + 1 \in (m + 1) .. Len(mem)
              BY <1>3, <2>2, <4>5, <6>2
            <7> QED BY <2>2, <4>2, <4>5, <7>1
          <6> QED BY <6>1, <6>2
        <5>2. k \in Nat /\ n + 1 \in Nat
          BY <1>1
        <5>3. IsFiniteSet(F)
          BY <1>1, <5>2, SinceFinite
        <5> HIDE DEF F
        <5>4. DOMAIN mem2 = 1 .. Memory /\ mem2 = [p \in 1 .. Memory |-> mem2[p]]
          BY <1>3, <2>2, <4>5
        <5>5. mem2 \in Injection(1 .. Memory, F)
          <6>1. mem2 \in [1 .. Memory -> F]
            BY <5>1, <5>4
          <6>2. \A p, q \in 1 .. Memory : mem2[p] = mem2[q] => p = q
            BY <2>2, <5>4 DEF Distinct
          <6>3. IsInjective(mem2)
            BY <5>4, <6>2 DEF IsInjective
          <6> QED BY <6>1, <6>3 DEF Injection
        <5>6. Cardinality(1 .. Memory) <= Cardinality(F) /\ Cardinality(1 .. Memory) = Memory
          BY <1>3, <5>3, <5>5, FS_Injection, FS_Interval
        <5>7. Cardinality(F) \in Nat
          BY <5>3, FS_CardinalityType
        <5>8. Cardinality(F) >= Memory
          BY <1>3, <5>6, <5>7
        <5> QED BY <5>8 DEF Kept, F, n
      <4> QED BY <1>3, <4>3, <4>4, <4>5
    <3> QED BY <2>3, <3>2, <3>3 DEF Kept
  <2>4. StandsFor(log2, n, n) /\ n \in 1 .. n
    BY <1>1, <1>8 DEF StandsFor
  <2>5. Kept(mem2, log2, n)
    <3>1. mem2[Len(mem2)] = log2[n].call
      BY <1>1, <2>2 DEF c
    <3>2. \A p \in (Len(mem2) + 1) .. Len(mem2) : FALSE
      BY <2>2
    <3> QED BY <2>2, <3>1, <3>2 DEF Kept
  <2>6. Remembers(mem2, log2)
    BY <1>4, <2>2, <2>3, <2>4, <2>5
  <2>7. ASSUME NEW m \in DOMAIN mem2
        PROVE  mem2[m] = c \/ \E p \in DOMAIN mem : mem2[m] = mem[p]
    <3>1. CASE m = Len(mem2)
      BY <2>2, <3>1
    <3>2. CASE m # Len(mem2) /\ Len(mem) < Memory
      <4>1. m \in 1 .. Len(mem)
        BY <1>3, <2>2, <3>2
      <4> QED BY <2>2, <3>2, <4>1
    <3>3. CASE m # Len(mem2) /\ ~(Len(mem) < Memory)
      <4>1. m \in 1 .. (Memory - 1) /\ m + 1 \in DOMAIN mem
        BY <1>3, <2>2, <3>3
      <4> QED BY <2>2, <3>3, <4>1
    <3> QED BY <3>1, <3>2, <3>3
  <2> QED BY <1>8, <2>6, <2>7 DEF c
<1> QED BY <1>2, <1>6, <1>7, <1>8 DEF c

\* A history stays refused when what is added was not in the memory, all of it
\* at once in one batch or one call alone.
LEMMA RefusedGrows ==
  ASSUME NEW mem, NEW log, NEW log2, Extends(log2, log), Remembers(mem, log), Refused(log),
         \A j \in (Len(log) + 1) .. Len(log2) : \A m \in DOMAIN mem : mem[m] # log2[j].call,
         \A i, j \in (Len(log) + 1) .. Len(log2) : i < j => Batched(log2, i, j)
  PROVE  Refused(log2)
<1>1. /\ log \in Seq(Entry) /\ log2 \in Seq(Entry) /\ Len(log) \in Nat /\ Len(log2) \in Nat
      /\ Len(log) <= Len(log2) /\ \A i \in 1 .. Len(log) : log2[i] = log[i]
  BY DEF Extends
<1> SUFFICES ASSUME NEW i \in DOMAIN log2, NEW j \in DOMAIN log2,
                    i < j, log2[i].call = log2[j].call, ~log2[i].ok, ~Batched(log2, i, j)
             PROVE  \E k \in 1 .. i : /\ StandsFor(log2, k, i)
                                      /\ Cardinality(Since(log2, k, j)) >= Memory
  BY DEF Refused
<1>2. i \in 1 .. Len(log2) /\ j \in 1 .. Len(log2)
  BY <1>1
<1>3. i \in 1 .. Len(log)
  BY <1>1, <1>2
<1>4. log2[i] = log[i] /\ i \in DOMAIN log
  BY <1>1, <1>3
<1>5. CASE j \in 1 .. Len(log)
  <2>1. log2[j] = log[j] /\ j \in DOMAIN log
    BY <1>1, <1>5
  <2>2. ~Batched(log, i, j)
    BY <1>4, <2>1 DEF Batched
  <2>3. PICK k \in 1 .. i : StandsFor(log, k, i) /\ Cardinality(Since(log, k, j)) >= Memory
    BY <1>4, <2>1, <2>2 DEF Refused
  <2>4. k \in 1 .. Len(log) /\ j \in 1 .. (Len(log) + 1) /\ j \in Nat /\ j <= j
    BY <1>1, <1>3, <1>5
  <2> QED BY <1>3, <2>3, <2>4, SinceGrows, StandsStill
<1>6. CASE j \in (Len(log) + 1) .. Len(log2)
  <2>1. PICK k \in 1 .. i : StandsFor(log, k, i) /\ Kept(mem, log, k)
    BY <1>4 DEF Remembers
  <2>2. \A m \in DOMAIN mem : mem[m] # log[k].call
    BY <1>4, <1>6, <2>1 DEF StandsFor
  <2>3. Cardinality(Since(log, k, Len(log) + 1)) >= Memory
    BY <2>1, <2>2 DEF Kept
  <2>4. /\ k \in 1 .. Len(log) /\ Len(log) + 1 \in 1 .. (Len(log) + 1)
        /\ j \in Nat /\ Len(log) + 1 <= j
    BY <1>1, <1>3, <1>6
  <2> QED BY <1>3, <2>1, <2>3, <2>4, SinceGrows, StandsStill
<1> QED BY <1>1, <1>2, <1>5, <1>6

\* The memory after the first i outcomes: one function for all of them.
Folding(h, cs, oks, n) ==
  h = [i \in 0 .. n |-> IF i = 0 THEN failed
                        ELSE IF oks[i] THEN h[i - 1] ELSE Remember(h[i - 1], cs[i])]

\* There is one, however many outcomes there are.
LEMMA FoldExists ==
  ASSUME NEW cs, NEW oks, NEW n \in Nat
  PROVE  \E h : Folding(h, cs, oks, n)
<1> DEFINE T == {x \in Nat : ~\E h : Folding(h, cs, oks, x)}
<1> SUFFICES T = {}
  OBVIOUS
<1> SUFFICES ASSUME T # {} PROVE FALSE
  OBVIOUS
<1>1. PICK x \in T : \A y \in T : x <= y
  BY LeastNatural
<1>2. x \in Nat /\ ~\E h : Folding(h, cs, oks, x)
  BY <1>1
<1>3. CASE x = 0
  <2> DEFINE h == [i \in 0 .. 0 |-> failed]
  <2>1. Folding(h, cs, oks, 0)
    BY DEF Folding
  <2> QED BY <1>2, <1>3, <2>1
<1>4. CASE x # 0
  <2>1. x - 1 \in Nat /\ x - 1 \notin T
    BY <1>1, <1>2, <1>4
  <2>2. PICK g : Folding(g, cs, oks, x - 1)
    BY <2>1
  <2> DEFINE last == IF oks[x] THEN g[x - 1] ELSE Remember(g[x - 1], cs[x])
             h == [i \in 0 .. x |-> IF i = x THEN last ELSE g[i]]
  <2> HIDE DEF last
  <2>3. ASSUME NEW i \in 0 .. x
        PROVE  h[i] = IF i = 0 THEN failed
                      ELSE IF oks[i] THEN h[i - 1] ELSE Remember(h[i - 1], cs[i])
    <3>1. CASE i = x
      <4>1. h[i] = last /\ h[i - 1] = g[i - 1]
        BY <1>2, <1>4, <3>1
      <4> QED BY <1>4, <3>1, <4>1 DEF last
    <3>2. CASE i # x
      <4>1. i \in 0 .. (x - 1) /\ h[i] = g[i] /\ (i # 0 => h[i - 1] = g[i - 1])
        BY <1>2, <3>2
      <4> QED BY <2>2, <4>1 DEF Folding
    <3> QED BY <3>1, <3>2
  <2>4. Folding(h, cs, oks, x)
    BY <2>3 DEF Folding
  <2> QED BY <1>2, <2>4
<1> QED BY <1>3, <1>4

\* Outcomes leaves the memory the fold ends with.
LEMMA MemoryFolds ==
  ASSUME NEW cs \in Seq(Call), NEW oks, Outcomes(cs, oks)
  PROVE  \E h : Folding(h, cs, oks, Len(cs)) /\ failed' = h[Len(cs)]
<1> DEFINE h == CHOOSE h : Folding(h, cs, oks, Len(cs))
<1>1. Len(cs) \in Nat
  OBVIOUS
<1>2. Folding(h, cs, oks, Len(cs))
  BY <1>1, FoldExists
<1>3. failed' = h[Len(cs)]
  BY DEF Outcomes, Folding
<1> QED BY <1>2, <1>3

\* The calls cs, none of them remembered, have run in one batch, or one alone.
LEMMA OutcomesRemembered ==
  ASSUME HandInv, MemoryInv, NEW cs \in Seq(Call), NEW oks \in Seq(BOOLEAN), Len(oks) = Len(cs),
         Outcomes(cs, oks), \A i \in DOMAIN cs : cs[i] \notin Remembered,
         Len(cs) <= 1 \/ Together > 0
  PROVE  MemoryInv'
<1> DEFINE l == Len(ran)
           upto(x) == [i \in 1 .. (l + x) |-> ran'[i]]
           entry(x) == [call |-> cs[x], ok |-> oks[x], batch |-> Together]
           n == Len(cs)
<1>1. ran \in Seq(Entry) /\ turns \in Nat /\ l \in Nat /\ n \in Nat /\ Together \in Nat
  BY DEF HandInv, Entry, Together
<1>2. /\ ran' \in Seq(Entry) /\ Len(ran') = l + n
      /\ \A i \in 1 .. l : ran'[i] = ran[i]
      /\ \A i \in 1 .. n : ran'[l + i] = entry(i)
  BY <1>1, Recorded DEF Entry
<1>3. PICK h : Folding(h, cs, oks, n) /\ failed' = h[n]
  BY MemoryFolds
<1>4. \A p \in DOMAIN failed : \A i \in DOMAIN cs : failed[p] # cs[i]
  BY DEF Remembered
<1> HIDE DEF n, l
<1>5. ASSUME NEW x \in 0 .. n
      PROVE  /\ upto(x) \in Seq(Entry) /\ Len(upto(x)) = l + x
             /\ \A i \in 1 .. (l + x) : upto(x)[i] = ran'[i]
  <2>1. \A i \in 1 .. (l + x) : ran'[i] \in Entry
    BY <1>1, <1>2
  <2>2. upto(x) \in [1 .. (l + x) -> Entry] /\ l + x \in Nat
    BY <1>1, <2>1
  <2> QED BY <2>2
<1> HIDE DEF upto, entry
\* What holds after the first x outcomes.
<1> DEFINE P(x) == /\ Remembers(h[x], upto(x))
                   /\ \A m \in DOMAIN h[x] : \A i \in DOMAIN cs : h[x][m] = cs[i] =>
                        \E q \in DOMAIN upto(x) : /\ upto(x)[q].call = cs[i] /\ ~upto(x)[q].ok
                                                  /\ upto(x)[q].batch = Together
                                                  /\ q \in (l + 1) .. (l + x)
<1>6. P(0)
  <2>1. 0 \in 0 .. n
    BY <1>1
  <2>2. upto(0) = ran
    BY <1>1, <1>2, <1>5, <2>1, SeqEqual DEF l
  <2>3. h[0] = failed
    BY <1>3, <2>1 DEF Folding
  <2> QED BY <1>4, <2>2, <2>3 DEF MemoryInv
<1>7. ASSUME NEW x \in 1 .. n, P(x - 1) PROVE P(x)
  <2> DEFINE e == entry(x)
             log == upto(x - 1)
             log2 == upto(x)
             mem == h[x - 1]
             mem2 == h[x]
  <2>1. x \in 0 .. n /\ x - 1 \in 0 .. n /\ x \in Nat /\ x # 0 /\ x \in DOMAIN cs
    BY <1>1 DEF n
  <2>2. /\ Extends(log2, log) /\ Len(log2) = Len(log) + 1 /\ Len(log2) = l + x
        /\ Len(log) = l + (x - 1)
    <3>1. Len(log) = l + (x - 1) /\ Len(log2) = l + x /\ log \in Seq(Entry) /\ log2 \in Seq(Entry)
      BY <1>5, <2>1
    <3>2. ASSUME NEW i \in 1 .. (l + (x - 1)) PROVE log2[i] = log[i]
      <4>1. i \in 1 .. (l + x)
        BY <1>1, <2>1
      <4>2. upto(x)[i] = ran'[i] /\ upto(x - 1)[i] = ran'[i]
        BY <1>5, <2>1, <4>1
      <4> QED BY <4>2
    <3> QED BY <1>1, <2>1, <3>1, <3>2 DEF Extends
  <2>3. e = log2[Len(log2)]
    BY <1>1, <1>2, <1>5, <2>1, <2>2
  <2>4. mem2 = IF oks[x] THEN mem ELSE Remember(mem, cs[x])
    BY <1>3, <2>1 DEF Folding
  <2>5. e.call = cs[x] /\ e.ok = oks[x] /\ e.batch = Together
    BY DEF entry
  <2>6. Known(mem, log, e)
    <3> SUFFICES ASSUME NEW m \in DOMAIN mem, mem[m] = e.call
                 PROVE  \E q \in DOMAIN log : /\ log[q].call = e.call /\ ~log[q].ok
                                              /\ log[q].batch = e.batch /\ e.batch > 0
      BY DEF Known
    <3>1. PICK q \in DOMAIN log : /\ log[q].call = cs[x] /\ ~log[q].ok /\ log[q].batch = Together
                                  /\ q \in (l + 1) .. (l + (x - 1))
      BY <1>7, <2>1, <2>5
    <3>2. x > 1 /\ n > 1
      BY <1>1, <2>1, <3>1
    <3>3. Together > 0
      BY <3>2, <1>1 DEF n
    <3> QED BY <2>5, <3>1, <3>3
  <2> HIDE DEF e, mem, mem2, log, log2
  <2>7. Remembers(mem, log)
    BY <1>7 DEF mem, log
  <2>8. mem2 = After(mem, e) /\ Adds(log2, log, e)
    BY <2>2, <2>3, <2>4, <2>5 DEF After, Adds
  <2>9. /\ Remembers(mem2, log2)
        /\ \A m \in DOMAIN mem2 : (mem2[m] = e.call /\ ~e.ok) \/ \E p \in DOMAIN mem : mem2[m] = mem[p]
    BY ONLY <2>6, <2>7, <2>8, OneMore
  <2>10. ASSUME NEW m \in DOMAIN mem2, NEW i \in DOMAIN cs, mem2[m] = cs[i]
         PROVE  \E q \in DOMAIN log2 : /\ log2[q].call = cs[i] /\ ~log2[q].ok
                                       /\ log2[q].batch = Together /\ q \in (l + 1) .. (l + x)
    <3>1. log \in Seq(Entry) /\ log2 \in Seq(Entry) /\ \A q \in DOMAIN log : q \in DOMAIN log2 /\ log2[q] = log[q]
      BY <2>2 DEF Extends
    <3>2. CASE mem2[m] = e.call /\ ~e.ok
      <4>1. l + x \in DOMAIN log2 /\ l + x \in (l + 1) .. (l + x) /\ log2[l + x] = e
        BY <1>1, <2>1, <2>2, <2>3, <3>1
      <4> QED BY <2>5, <2>10, <3>2, <4>1
    <3>3. ASSUME NEW p \in DOMAIN mem, mem2[m] = mem[p]
          PROVE  \E q \in DOMAIN log2 : /\ log2[q].call = cs[i] /\ ~log2[q].ok
                                        /\ log2[q].batch = Together /\ q \in (l + 1) .. (l + x)
      <4>1. PICK q \in DOMAIN log : /\ log[q].call = cs[i] /\ ~log[q].ok
                                    /\ log[q].batch = Together /\ q \in (l + 1) .. (l + (x - 1))
        BY <1>7, <2>10, <3>3 DEF mem, log
      <4>2. q \in (l + 1) .. (l + x)
        BY <1>1, <2>1, <4>1
      <4> QED BY <3>1, <4>1, <4>2
    <3> QED BY <2>9, <3>2, <3>3
  <2> QED BY <2>9, <2>10 DEF mem2, log2
<1> HIDE DEF P
<1>8. P(n)
  <2> DEFINE T == {x \in 0 .. n : ~P(x)}
  <2> SUFFICES ASSUME T # {} PROVE FALSE
    BY <1>1
  <2>1. T \in SUBSET Nat
    BY <1>1
  <2>2. PICK x \in T : \A y \in T : x <= y
    BY <2>1, LeastNatural
  <2>3. x # 0 /\ x \in 1 .. n /\ x - 1 \in 0 .. n /\ x - 1 \notin T
    BY <1>1, <1>6, <2>1, <2>2
  <2>4. P(x - 1)
    BY <2>3
  <2> QED BY <1>7, <2>2, <2>3, <2>4
<1>9. Remembers(failed', ran')
  <2>1. n \in 0 .. n
    BY <1>1
  <2>2. upto(n) = ran'
    BY <1>1, <1>2, <1>5, <2>1, SeqEqual
  <2> QED BY <1>3, <1>8, <2>2 DEF P
<1>10. Refused(ran')
  <2>1. Extends(ran', ran)
    BY <1>1, <1>2 DEF Extends, l
  <2>2. \A j \in (l + 1) .. (l + n) : j - l \in DOMAIN cs /\ ran'[j] = entry(j - l)
    <3> SUFFICES ASSUME NEW j \in (l + 1) .. (l + n)
                 PROVE  j - l \in DOMAIN cs /\ ran'[j] = entry(j - l)
      OBVIOUS
    <3>1. j - l \in 1 .. n /\ l + (j - l) = j
      BY <1>1
    <3> QED BY <1>2, <3>1 DEF n
  <2>3. \A j \in (l + 1) .. (l + n) : ran'[j].call = cs[j - l] /\ ran'[j].batch = Together
    <3> SUFFICES ASSUME NEW j \in (l + 1) .. (l + n)
                 PROVE  ran'[j].call = cs[j - l] /\ ran'[j].batch = Together
      OBVIOUS
    <3>1. ran'[j] = [call |-> cs[j - l], ok |-> oks[j - l], batch |-> Together]
      BY <2>2 DEF entry
    <3> QED BY <3>1
  <2>4. \A j \in (Len(ran) + 1) .. Len(ran') : \A m \in DOMAIN failed : failed[m] # ran'[j].call
    <3> SUFFICES ASSUME NEW j \in (l + 1) .. (l + n), NEW m \in DOMAIN failed
                 PROVE  failed[m] # ran'[j].call
      BY <1>2 DEF l
    <3>1. ran'[j].call = cs[j - l] /\ j - l \in DOMAIN cs
      BY <2>2, <2>3
    <3> QED BY <1>4, <3>1
  <2>5. \A i, j \in (Len(ran) + 1) .. Len(ran') : i < j => Batched(ran', i, j)
    <3> SUFFICES ASSUME NEW i \in (l + 1) .. (l + n), NEW j \in (l + 1) .. (l + n), i < j
                 PROVE  Batched(ran', i, j)
      BY <1>2 DEF l
    <3>1. n > 1
      BY <1>1
    <3> QED BY <2>3, <3>1 DEF Batched, n
  <2> QED BY <2>1, <2>4, <2>5, RefusedGrows DEF MemoryInv
<1> QED BY <1>9, <1>10 DEF MemoryInv

\* Every step keeps the memory true to the history.
LEMMA StepKeepsMemory ==
  ASSUME HandInv, MemoryInv, [Next]_vars
  PROVE  MemoryInv'
<1>1. CASE BatchRecord
  <2>1. /\ pc = "launch" /\ Len(results) = Len(pending) /\ Outcomes(pending, results)
    BY <1>1 DEF BatchRecord
  <2>2. Together > 0
    BY <2>1 DEF Together, HandInv, Batching
  <2> QED BY <2>1, <2>2, OutcomesRemembered DEF HandInv, Batching
<1>2. ASSUME NEW ok \in BOOLEAN, Execute(ok) PROVE MemoryInv'
  <2>1. pc = "go" /\ Outcomes(<<InHand>>, <<ok>>)
    BY <1>2 DEF Execute
  <2>2. InHand \in Call /\ InHand \notin Remembered
    BY <2>1 DEF HandInv, InHand, Running
  <2>3. /\ <<InHand>> \in Seq(Call) /\ <<ok>> \in Seq(BOOLEAN)
        /\ Len(<<ok>>) = Len(<<InHand>>) /\ Len(<<InHand>>) <= 1
        /\ \A i \in DOMAIN <<InHand>> : <<InHand>>[i] \notin Remembered
    BY <2>2
  <2> QED BY <2>1, <2>3, OutcomesRemembered
<1> QED BY <1>1, <1>2, RecordsByRunning DEF MemoryInv

\* The history of every run is one whose failed calls stay refused until as
\* many others have failed as the memory holds.
THEOREM RefusedAgain == Spec => []FailedCallStaysRefused
<1>1. Init => MemoryInv
  <2> SUFFICES ASSUME Init PROVE MemoryInv
    OBVIOUS
  <2>1. failed = << >> /\ ran = << >> /\ Memory \in Nat
    BY LimitsAssumption DEF Init
  <2> QED BY <2>1, EmptySeq DEF MemoryInv, Remembers, Distinct, Refused
<1>2. MemoryInv => FailedCallStaysRefused
  <2> SUFFICES ASSUME MemoryInv, NEW i \in DOMAIN ran, NEW j \in DOMAIN ran,
                      i < j, ran[i].call = ran[j].call, ~ran[i].ok, ~SameBatch(i, j)
               PROVE  \/ Forgotten(i, j)
                      \/ \E k \in 1 .. i : /\ SameBatch(k, i) /\ ran[k].call = ran[i].call
                                           /\ ~ran[k].ok /\ Forgotten(k, j)
    BY DEF FailedCallStaysRefused
  <2>1. PICK k \in 1 .. i : StandsFor(ran, k, i) /\ Cardinality(Since(ran, k, j)) >= Memory
    BY DEF MemoryInv, Refused, Batched, SameBatch
  <2>2. Forgotten(k, j)
    BY <2>1 DEF Forgotten, FailedSince, Since
  <2> QED BY <2>1, <2>2 DEF StandsFor, Batched, SameBatch
<1> QED BY <1>1, <1>2, StepKeepsMemory, Hand, PTL DEF Spec

-----------------------------------------------------------------------------
(* The conversation.                                                        *)

Message == [role : {"user", "note", "digest", "assistant", "tool"}, n : Nat, ids : Seq(Nat)]

\* A conversation whose calls and replies are paired; its digest comes before every turn that
\* asked for tools.
Accepted(ms) ==
  /\ ms \in Seq(Message) /\ Len(ms) >= 1 /\ ms[1] = Prompt
  /\ \A g \in GroupStarts(ms) : /\ g + ms[g].n <= Len(ms)
                                /\ \A k \in 1 .. ms[g].n : ms[g + k] = Reply(ms[g].ids[k])
  /\ \A i \in DOMAIN ms : ms[i].role = "tool" =>
       \E g \in GroupStarts(ms) : g < i /\ i <= g + ms[g].n
  /\ \A d \in DOMAIN ms : ms[d].role = "digest" =>
       /\ \A g \in GroupStarts(ms) : d < g
       /\ \A e \in DOMAIN ms : ms[e].role = "digest" => e = d

\* ms is base, a turn that asked for the calls cs, and the first answers to it.
Opened(ms, base, cs, done) ==
  /\ ms \in Seq(Message) /\ Len(ms) = Len(base) + 1 + done
  /\ \A i \in 1 .. Len(base) : ms[i] = base[i]
  /\ ms[Len(base) + 1] = Assistant(cs)
  /\ \A k \in 1 .. done : ms[Len(base) + 1 + k] = Reply(Ids(cs)[k])

\* Between turns every call has its reply; in a turn all but those not yet
\* answered do.
TalkInv ==
  /\ pc \in {"turn"} \cup Asked => Accepted(messages)
  /\ pc \in Batching => \E base : Accepted(base) /\ Opened(messages, base, pending, 0)
  /\ pc \in Running => \E base : Accepted(base) /\ Opened(messages, base, pending, at - 1)

\* The ids of a turn's calls, one each.
LEMMA IdsOf ==
  ASSUME NEW cs \in Seq(Call)
  PROVE  /\ Ids(cs) \in Seq(Nat) /\ Len(Ids(cs)) = Len(cs)
         /\ \A k \in 1 .. Len(cs) : Ids(cs)[k] \in Nat
<1>1. \A i \in 1 .. Len(cs) : (IF cs[i] \in Nameless THEN NoId ELSE i) \in Nat
  BY DEF NoId
<1>2. Ids(cs) \in [1 .. Len(cs) -> Nat]
  BY <1>1 DEF Ids
<1> QED BY <1>2

\* What the messages are, and what tells them apart.
LEMMA Messages ==
  /\ Prompt \in Message /\ Note \in Message /\ Digest \in Message
  /\ \A id \in Nat : Reply(id) \in Message
  /\ \A id : Reply(id).role = "tool"
  /\ Prompt.role = "user" /\ Note.role = "note" /\ Digest.role = "digest"
<1>1. << >> \in Seq(Nat) /\ \A id \in Nat : <<id>> \in Seq(Nat)
  OBVIOUS
<1> QED BY <1>1 DEF Message, Prompt, Note, Digest, Text, Reply

\* A turn among the messages.
LEMMA TurnMessage ==
  ASSUME NEW cs \in Seq(Call)
  PROVE  /\ Assistant(cs) \in Message /\ Assistant(cs).role = "assistant"
         /\ Assistant(cs).n = Len(cs) /\ Assistant(cs).ids = Ids(cs)
BY IdsOf DEF Message, Assistant

\* A turn that asked for tools is one of the messages, and asked for some.
LEMMA GroupFacts ==
  ASSUME NEW ms \in Seq(Message)
  PROVE  \A g \in GroupStarts(ms) : g \in 1 .. Len(ms) /\ g \in DOMAIN ms /\ ms[g].n \in Nat
<1> SUFFICES ASSUME NEW g \in GroupStarts(ms)
             PROVE  g \in 1 .. Len(ms) /\ g \in DOMAIN ms /\ ms[g].n \in Nat
  OBVIOUS
<1>1. g \in DOMAIN ms
  BY DEF GroupStarts
<1>2. ms[g] \in Message
  BY <1>1
<1> QED BY <1>1, <1>2 DEF Message

\* A note at the end is no call, no answer and no digest.
LEMMA NoteKeeps ==
  ASSUME NEW ms, Accepted(ms)
  PROVE  Accepted(Append(ms, Note))
<1> DEFINE new == Append(ms, Note)
           l == Len(ms)
<1>1. ms \in Seq(Message) /\ l \in Nat /\ l >= 1
  BY DEF Accepted
<1>2. /\ new \in Seq(Message) /\ Len(new) = l + 1 /\ new[l + 1] = Note
      /\ \A i \in 1 .. l : new[i] = ms[i]
  BY <1>1, Messages, AppendProperties
<1> HIDE DEF new
<1>3. DOMAIN new = 1 .. (l + 1) /\ DOMAIN ms = 1 .. l
  BY <1>1, <1>2
<1>4. GroupStarts(new) = GroupStarts(ms)
  BY <1>1, <1>2, <1>3, Messages DEF GroupStarts
<1>5. \A g \in GroupStarts(ms) : g \in 1 .. l /\ ms[g].n \in Nat
  BY <1>1, GroupFacts
<1>6. ASSUME NEW g \in GroupStarts(new)
      PROVE  g + new[g].n <= Len(new) /\ \A k \in 1 .. new[g].n : new[g + k] = Reply(new[g].ids[k])
  <2>1. /\ g \in GroupStarts(ms) /\ g \in 1 .. l /\ new[g] = ms[g] /\ ms[g].n \in Nat
        /\ g + ms[g].n <= l /\ \A k \in 1 .. ms[g].n : ms[g + k] = Reply(ms[g].ids[k])
    BY <1>2, <1>4, <1>5 DEF Accepted
  <2>2. ASSUME NEW k \in 1 .. ms[g].n PROVE new[g + k] = Reply(new[g].ids[k])
    <3>1. g + k \in 1 .. l
      BY <1>1, <2>1
    <3> QED BY <1>2, <2>1, <3>1
  <2>3. g + new[g].n <= Len(new)
    BY <1>1, <1>2, <2>1
  <2> QED BY <2>1, <2>2, <2>3
<1>7. ASSUME NEW i \in DOMAIN new, new[i].role \in {"tool", "digest"}
      PROVE  i \in DOMAIN ms /\ new[i] = ms[i]
  BY <1>1, <1>2, <1>3, <1>7, Messages
<1>8. ASSUME NEW i \in DOMAIN new, new[i].role = "tool"
      PROVE  \E g \in GroupStarts(new) : g < i /\ i <= g + new[g].n
  BY <1>2, <1>4, <1>5, <1>7, <1>8 DEF Accepted
<1>9. ASSUME NEW d \in DOMAIN new, new[d].role = "digest"
      PROVE  /\ \A g \in GroupStarts(new) : d < g
             /\ \A e \in DOMAIN new : new[e].role = "digest" => e = d
  BY <1>4, <1>7, <1>9 DEF Accepted
<1>10. new[1] = Prompt /\ Len(new) >= 1
  <2>1. 1 \in 1 .. l
    BY <1>1
  <2> QED BY <1>1, <1>2, <2>1 DEF Accepted
<1>11. Accepted(new)
  BY <1>1, <1>2, <1>6, <1>8, <1>9, <1>10 DEF Accepted
<1> QED BY <1>11 DEF new

\* A turn whose calls are all answered.
LEMMA AnsweredKeeps ==
  ASSUME NEW base, Accepted(base), NEW cs \in Seq(Call), NEW ms, Opened(ms, base, cs, Len(cs))
  PROVE  Accepted(ms)
<1> DEFINE l == Len(base)
           n == Len(cs)
<1>0. n \in Nat
  OBVIOUS
<1>1. base \in Seq(Message) /\ l \in Nat /\ l >= 1 /\ n \in Nat
  BY DEF Accepted
<1>2. /\ ms \in Seq(Message) /\ Len(ms) = l + 1 + n /\ ms[l + 1] = Assistant(cs)
      /\ \A i \in 1 .. l : ms[i] = base[i]
      /\ \A k \in 1 .. n : ms[l + 1 + k] = Reply(Ids(cs)[k])
  BY DEF Opened, n
<1> HIDE DEF l, n
<1>3. DOMAIN ms = 1 .. (l + 1 + n) /\ DOMAIN base = 1 .. l
  BY <1>1, <1>2 DEF l
\* A message is one of base, the turn, or an answer to it.
<1>4. ASSUME NEW i \in DOMAIN ms
      PROVE  \/ i \in 1 .. l /\ ms[i] = base[i]
             \/ i = l + 1 /\ ms[i] = Assistant(cs)
             \/ i \in (l + 2) .. (l + 1 + n) /\ ms[i].role = "tool"
  <2>1. CASE i \in (l + 2) .. (l + 1 + n)
    <3>1. i - (l + 1) \in 1 .. n /\ l + 1 + (i - (l + 1)) = i
      BY <1>1, <2>1
    <3>2. ms[i] = Reply(Ids(cs)[i - (l + 1)])
      BY <1>2, <3>1
    <3> QED BY <2>1, <3>2, Messages, TurnMessage
  <2> QED BY <1>1, <1>2, <1>3, <2>1
<1>5. \A g \in GroupStarts(base) : g \in 1 .. l /\ base[g].n \in Nat /\ g \in GroupStarts(ms)
  <2> SUFFICES ASSUME NEW g \in GroupStarts(base)
               PROVE  g \in 1 .. l /\ base[g].n \in Nat /\ g \in GroupStarts(ms)
    OBVIOUS
  <2>1. g \in 1 .. l /\ base[g].n \in Nat /\ base[g].role = "assistant" /\ base[g].n > 0
    BY <1>1, GroupFacts DEF GroupStarts, l
  <2>2. g \in DOMAIN ms /\ ms[g] = base[g]
    BY <1>1, <1>2, <1>3, <2>1
  <2> QED BY <2>1, <2>2 DEF GroupStarts
<1>6. ASSUME NEW g \in GroupStarts(ms)
      PROVE  g \in GroupStarts(base) \/ (g = l + 1 /\ ms[g].n = n /\ ms[g].ids = Ids(cs))
  <2>1. g \in DOMAIN ms /\ ms[g].role = "assistant" /\ ms[g].n > 0
    BY DEF GroupStarts
  <2>2. CASE g \in 1 .. l /\ ms[g] = base[g]
    BY <1>3, <2>1, <2>2 DEF GroupStarts
  <2>3. CASE g = l + 1 /\ ms[g] = Assistant(cs)
    BY <2>3, TurnMessage DEF n
  <2> QED BY <1>4, <2>1, <2>2, <2>3
<1>7. ASSUME NEW g \in GroupStarts(ms)
      PROVE  g + ms[g].n <= Len(ms) /\ \A k \in 1 .. ms[g].n : ms[g + k] = Reply(ms[g].ids[k])
  <2>1. CASE g \in GroupStarts(base)
    <3>1. /\ g \in 1 .. l /\ ms[g] = base[g] /\ base[g].n \in Nat
          /\ g + base[g].n <= l /\ \A k \in 1 .. base[g].n : base[g + k] = Reply(base[g].ids[k])
      BY <1>2, <1>5, <2>1 DEF Accepted, l
    <3>2. \A k \in 1 .. base[g].n : g + k \in 1 .. l
      BY <1>1, <3>1
    <3> QED BY <1>1, <1>2, <3>1, <3>2, SMTT(30)
  <2>2. CASE g = l + 1 /\ ms[g].n = n /\ ms[g].ids = Ids(cs)
    BY <1>1, <1>2, <2>2
  <2> QED BY <1>6, <2>1, <2>2
<1>8. ASSUME NEW i \in DOMAIN ms, ms[i].role = "tool"
      PROVE  \E g \in GroupStarts(ms) : g < i /\ i <= g + ms[g].n
  <2>1. CASE i \in 1 .. l /\ ms[i] = base[i]
    <3>1. PICK g \in GroupStarts(base) : g < i /\ i <= g + base[g].n
      BY <1>3, <1>8, <2>1 DEF Accepted
    <3> QED BY <1>2, <1>5, <3>1
  <2>2. CASE i \in (l + 2) .. (l + 1 + n)
    <3>1. n > 0 /\ l + 1 \in DOMAIN ms
      BY <1>1, <1>3, <2>2
    <3>2. l + 1 \in GroupStarts(ms) /\ ms[l + 1].n = n
      BY <1>2, <3>1, TurnMessage DEF GroupStarts, n
    <3> QED BY <1>1, <2>2, <3>2
  <2>3. CASE i = l + 1 /\ ms[i] = Assistant(cs)
    BY <1>8, <2>3, Messages, TurnMessage
  <2> QED BY <1>4, <2>1, <2>2, <2>3
<1>9. ASSUME NEW i \in DOMAIN ms, ms[i].role = "digest"
      PROVE  i \in DOMAIN base /\ ms[i] = base[i]
  BY <1>3, <1>4, <1>9, Messages, TurnMessage
<1>10. ASSUME NEW d \in DOMAIN ms, ms[d].role = "digest"
      PROVE  /\ \A g \in GroupStarts(ms) : d < g
             /\ \A e \in DOMAIN ms : ms[e].role = "digest" => e = d
  <2>1. d \in 1 .. l /\ d \in DOMAIN base /\ base[d].role = "digest"
    BY <1>3, <1>9, <1>10
  <2>2. \A e \in DOMAIN ms : ms[e].role = "digest" => e = d
    BY <1>9, <2>1 DEF Accepted
  <2>3. ASSUME NEW g \in GroupStarts(ms) PROVE d < g
    <3>1. CASE g \in GroupStarts(base)
      BY <2>1, <3>1 DEF Accepted
    <3>2. CASE g = l + 1
      BY <1>1, <2>1, <3>2
    <3> QED BY <1>6, <3>1, <3>2
  <2> QED BY <2>2, <2>3
<1>11. ms[1] = Prompt /\ Len(ms) >= 1
  <2>1. 1 \in 1 .. l
    BY <1>1
  <2> QED BY <1>1, <1>2, <2>1 DEF Accepted
<1> QED BY <1>2, <1>7, <1>8, <1>10, <1>11 DEF Accepted

\* Everything before the first turn that asked for tools or digest, a digest,
\* and everything from one such turn on: ms with its middle folded away.
FoldedOf(new, ms, from, kept) ==
  /\ new \in Seq(Message) /\ Len(new) = from + (Len(ms) - kept + 1)
  /\ \A i \in 1 .. (from - 1) : new[i] = ms[i]
  /\ new[from] = Digest
  /\ \A i \in (from + 1) .. Len(new) : new[i] = ms[i + (kept - 1 - from)]

\* The fold takes turns away only with all their answers.
LEMMA FoldKeeps ==
  ASSUME NEW ms, Accepted(ms), NEW kept \in GroupStarts(ms), NEW from \in 2 .. kept,
         \A i \in 1 .. (from - 1) : i \notin GroupStarts(ms) /\ ms[i].role # "digest",
         NEW new, FoldedOf(new, ms, from, kept)
  PROVE  Accepted(new)
<1> DEFINE l == Len(ms)
           s == kept - 1 - from
           n == Len(new)
<1>1. /\ ms \in Seq(Message) /\ l \in Nat /\ DOMAIN ms = 1 .. l
      /\ kept \in 1 .. l /\ ms[kept].role = "assistant" /\ ms[kept].n > 0
  <2>1. ms \in Seq(Message)
    BY DEF Accepted
  <2> QED BY <2>1, GroupFacts DEF GroupStarts
<1>0. new \in Seq(Message) /\ n = from + (l - kept + 1) /\ s = kept - 1 - from
  BY DEF FoldedOf
<1>2. /\ from \in Nat /\ from >= 2 /\ from <= kept /\ s \in Int /\ n \in Nat
      /\ n = from + (l - kept + 1) /\ s = kept - 1 - from /\ n + s = l
      /\ new \in Seq(Message) /\ DOMAIN new = 1 .. n
  <2>1. n \in Nat /\ DOMAIN new = 1 .. n
    BY <1>0
  <2>2. kept \in 1 .. l /\ l \in Nat /\ from \in 2 .. kept
    BY <1>1
  <2> HIDE DEF n, s, l
  <2> QED BY <1>0, <2>1, <2>2
<1>3. /\ \A i \in 1 .. (from - 1) : new[i] = ms[i]
      /\ new[from] = Digest
      /\ \A i \in (from + 1) .. n : new[i] = ms[i + s]
  BY DEF FoldedOf
<1> HIDE DEF l, s, n
<1>4. \A i \in (from + 1) .. n : i + s \in kept .. l /\ i + s \in DOMAIN ms
  BY <1>1, <1>2
<1>5. \A j \in kept .. l : j - s \in (from + 1) .. n /\ (j - s) + s = j
  BY <1>1, <1>2
<1>6. \A g \in GroupStarts(ms) : /\ g \in kept .. l \/ g < kept
                                 /\ g \in 1 .. l /\ ms[g].n \in Nat /\ g >= from
                                 /\ g + ms[g].n <= l
                                 /\ \A k \in 1 .. ms[g].n : ms[g + k] = Reply(ms[g].ids[k])
  <2> SUFFICES ASSUME NEW g \in GroupStarts(ms)
               PROVE  /\ g \in kept .. l \/ g < kept
                      /\ g \in 1 .. l /\ ms[g].n \in Nat /\ g >= from
                      /\ g + ms[g].n <= l
                      /\ \A k \in 1 .. ms[g].n : ms[g + k] = Reply(ms[g].ids[k])
    OBVIOUS
  <2>1. g \in 1 .. l /\ ms[g].n \in Nat
    BY <1>1, GroupFacts DEF l
  <2>2. g \notin 1 .. (from - 1)
    OBVIOUS
  <2>3. g >= from
    BY <1>2, <2>1, <2>2
  <2>4. g + ms[g].n <= l /\ \A k \in 1 .. ms[g].n : ms[g + k] = Reply(ms[g].ids[k])
    BY DEF Accepted, l
  <2>5. g \in kept .. l \/ g < kept
    BY <1>1, <2>1
  <2> QED BY <2>1, <2>3, <2>4, <2>5
\* A message of the fold is one before, the digest, or one from kept on.
<1>7. ASSUME NEW i \in DOMAIN new
      PROVE  \/ i \in 1 .. (from - 1) /\ new[i] = ms[i] /\ i \in DOMAIN ms
             \/ i = from /\ new[i] = Digest
             \/ i \in (from + 1) .. n /\ new[i] = ms[i + s]
  <2>1. i \in 1 .. n
    BY <1>2
  <2>2. i \in 1 .. (from - 1) \/ i = from \/ i \in (from + 1) .. n
    BY <1>2, <2>1
  <2>3. i \in 1 .. (from - 1) => i \in 1 .. l
    BY <1>1, <1>2
  <2>4. i \in 1 .. (from - 1) => i \in DOMAIN ms
    BY <1>1, <2>3
  <2> QED BY <1>3, <2>2, <2>4
<1>8. ASSUME NEW g \in GroupStarts(new)
      PROVE  g \in (from + 1) .. n /\ g + s \in GroupStarts(ms) /\ new[g] = ms[g + s]
  <2>1. g \in DOMAIN new /\ new[g].role = "assistant" /\ new[g].n > 0
    BY DEF GroupStarts
  <2>2. CASE g \in 1 .. (from - 1) /\ new[g] = ms[g] /\ g \in DOMAIN ms
    BY <2>1, <2>2 DEF GroupStarts
  <2>3. CASE g = from /\ new[g] = Digest
    BY <2>1, <2>3, Messages
  <2>4. CASE g \in (from + 1) .. n /\ new[g] = ms[g + s]
    BY <1>4, <2>1, <2>4 DEF GroupStarts
  <2> QED BY <1>7, <2>1, <2>2, <2>3, <2>4
<1>9. ASSUME NEW g \in GroupStarts(ms), g \in kept .. l
      PROVE  g - s \in GroupStarts(new) /\ new[g - s] = ms[g]
  <2>1. g - s \in (from + 1) .. n /\ (g - s) + s = g
    BY <1>5, <1>9
  <2>2. new[g - s] = ms[g] /\ g - s \in DOMAIN new
    BY <1>2, <1>3, <2>1
  <2> QED BY <2>2 DEF GroupStarts
<1>10. ASSUME NEW g \in GroupStarts(new)
       PROVE  g + new[g].n <= n /\ \A k \in 1 .. new[g].n : new[g + k] = Reply(new[g].ids[k])
  <2>1. /\ g \in (from + 1) .. n /\ g + s \in GroupStarts(ms) /\ new[g] = ms[g + s]
        /\ new[g].n \in Nat /\ (g + s) + new[g].n <= l
        /\ \A k \in 1 .. new[g].n : ms[(g + s) + k] = Reply(new[g].ids[k])
    BY <1>6, <1>8
  <2>2. g + new[g].n <= n
    BY <1>1, <1>2, <2>1
  <2>3. ASSUME NEW k \in 1 .. new[g].n PROVE new[g + k] = Reply(new[g].ids[k])
    <3> DEFINE m == new[g].n
    <3>0. m \in Nat /\ k \in 1 .. m /\ g + m <= n /\ g \in (from + 1) .. n
      BY <2>1, <2>2
    <3> HIDE DEF m
    <3>1. g + k \in (from + 1) .. n /\ (g + k) + s = (g + s) + k
      BY <1>2, <3>0
    <3>2. new[g + k] = ms[(g + k) + s]
      BY <1>3, <3>1
    <3>3. ms[(g + s) + k] = Reply(new[g].ids[k])
      BY <2>1
    <3> QED BY <3>1, <3>2, <3>3
  <2> QED BY <2>2, <2>3
<1>11. ASSUME NEW i \in DOMAIN new, new[i].role = "tool"
       PROVE  \E g \in GroupStarts(new) : g < i /\ i <= g + new[g].n
  <2>1. CASE i \in 1 .. (from - 1) /\ new[i] = ms[i] /\ i \in DOMAIN ms
    <3>1. PICK g \in GroupStarts(ms) : g < i
      BY <1>11, <2>1 DEF Accepted
    <3>2. g >= from /\ g \in Nat /\ i < from
      BY <1>1, <1>2, <1>6, <2>1
    <3> QED BY <1>2, <2>1, <3>1, <3>2
  <2>2. CASE i = from /\ new[i] = Digest
    BY <1>11, <2>2, Messages
  <2>3. CASE i \in (from + 1) .. n /\ new[i] = ms[i + s]
    <3>1. i + s \in kept .. l /\ i + s \in DOMAIN ms /\ ms[i + s].role = "tool"
      BY <1>4, <1>11, <2>3
    <3>2. PICK g \in GroupStarts(ms) : g < i + s /\ i + s <= g + ms[g].n
      BY <3>1 DEF Accepted
    <3>3. CASE g < kept
      <4>1. g \in 1 .. l /\ ms[g].n \in Nat /\ \A k \in 1 .. ms[g].n : ms[g + k] = Reply(ms[g].ids[k])
        BY <1>6
      <4>2. kept - g \in 1 .. ms[g].n /\ g + (kept - g) = kept /\ kept - g \in Nat
        BY <1>1, <1>2, <2>3, <3>1, <3>2, <3>3, <4>1
      <4>3. ms[kept] = Reply(ms[g].ids[kept - g])
        BY <4>1, <4>2
      <4> QED BY <1>1, <4>2, <4>3, Messages
    <3>4. CASE g \in kept .. l
      <4>1. g - s \in GroupStarts(new) /\ new[g - s] = ms[g] /\ ms[g].n \in Nat /\ g \in Nat
        BY <1>6, <1>9, <3>4
      <4>2. g - s < i /\ i <= (g - s) + ms[g].n
        <5>1. i \in Int /\ s \in Int /\ g \in Int /\ ms[g].n \in Int
          BY <1>2, <2>3, <4>1
        <5> QED BY <3>2, <5>1
      <4> QED BY <4>1, <4>2
    <3> QED BY <1>6, <3>3, <3>4
  <2> QED BY <1>7, <2>1, <2>2, <2>3
<1>12. ASSUME NEW d \in DOMAIN new, new[d].role = "digest" PROVE d = from
  <2>1. CASE d \in 1 .. (from - 1) /\ new[d] = ms[d]
    BY <1>12, <2>1
  <2>2. CASE d \in (from + 1) .. n /\ new[d] = ms[d + s]
    <3>1. d + s \in kept .. l /\ d + s \in DOMAIN ms /\ ms[d + s].role = "digest"
      BY <1>4, <1>12, <2>2
    <3>2. d + s < kept
      BY <3>1 DEF Accepted
    <3> QED BY <1>1, <3>1, <3>2
  <2> QED BY <1>7, <2>1, <2>2
<1>13. \A g \in GroupStarts(new) : from < g
  <2> SUFFICES ASSUME NEW g \in GroupStarts(new) PROVE from < g
    OBVIOUS
  <2>1. g \in (from + 1) .. n
    BY <1>8
  <2> QED BY <1>2, <2>1
<1>14. new[1] = Prompt /\ n >= 1
  <2>1. 1 \in 1 .. (from - 1)
    BY <1>2
  <2> QED BY <1>1, <1>2, <1>3, <2>1 DEF Accepted
<1> QED BY <1>2, <1>10, <1>11, <1>12, <1>13, <1>14 DEF Accepted, n

\* Folded is such a fold.
LEMMA FoldedIsFold ==
  ASSUME NEW ms \in Seq(Message), NEW kept \in 1 .. Len(ms), NEW from \in 1 .. kept
  PROVE  FoldedOf(Folded(ms, from, kept), ms, from, kept)
<1> DEFINE head == SubSeq(ms, 1, from - 1)
           tail == SubSeq(ms, kept, Len(ms))
           mid == <<Digest>>
           up == head \o mid
           new == up \o tail
           l == Len(ms)
<1>1. l \in Nat /\ from \in Nat /\ kept \in Nat /\ from >= 1 /\ from <= kept /\ kept <= l
  OBVIOUS
<1>2. /\ head \in Seq(Message) /\ Len(head) = from - 1
      /\ \A i \in 1 .. (from - 1) : head[i] = ms[i]
  <2>1. 1 \in 1 .. (l + 1) /\ from - 1 \in 0 .. l
    BY <1>1
  <2> QED BY <1>1, <2>1, SubSeqProperties
<1>3. /\ tail \in Seq(Message) /\ Len(tail) = l - kept + 1
      /\ \A i \in 1 .. (l - kept + 1) : tail[i] = ms[kept + i - 1]
  <2>1. kept \in 1 .. (l + 1) /\ l \in (kept - 1) .. l
    BY <1>1
  <2> QED BY <1>1, <2>1, SubSeqProperties
<1>4. mid \in Seq(Message) /\ Len(mid) = 1 /\ mid[1] = Digest
  BY Messages
<1> HIDE DEF head, tail, mid, l
<1>5. /\ up \in Seq(Message) /\ Len(up) = Len(head) + Len(mid)
      /\ \A i \in 1 .. (Len(head) + Len(mid)) :
           up[i] = IF i <= Len(head) THEN head[i] ELSE mid[i - Len(head)]
  BY <1>2, <1>4, ConcatProperties
<1>6. /\ Len(up) = from /\ up[from] = Digest
      /\ \A i \in 1 .. (from - 1) : up[i] = ms[i]
  <2>1. Len(up) = from
    BY <1>1, <1>2, <1>4, <1>5
  <2>2. up[from] = mid[from - (from - 1)] /\ from - (from - 1) = 1
    BY <1>1, <1>2, <1>4, <1>5
  <2>3. \A i \in 1 .. (from - 1) : up[i] = head[i]
    BY <1>1, <1>2, <1>4, <1>5
  <2> QED BY <1>2, <1>4, <2>1, <2>2, <2>3
<1> HIDE DEF up
<1>7. /\ new \in Seq(Message) /\ Len(new) = Len(up) + Len(tail)
      /\ \A i \in 1 .. (Len(up) + Len(tail)) :
           new[i] = IF i <= Len(up) THEN up[i] ELSE tail[i - Len(up)]
  <2>1. up \in Seq(Message) /\ tail \in Seq(Message)
    BY <1>3, <1>5
  <2> QED BY ONLY <2>1, ConcatProperties
<1> HIDE DEF new
<1>8. Len(new) = from + (l - kept + 1)
  BY <1>1, <1>3, <1>6, <1>7
<1>9. \A i \in 1 .. from : new[i] = up[i]
  BY <1>1, <1>3, <1>6, <1>7
<1>10. ASSUME NEW i \in (from + 1) .. Len(new) PROVE new[i] = ms[i + (kept - 1 - from)]
  <2>1. i - from \in 1 .. (l - kept + 1) /\ kept + (i - from) - 1 = i + (kept - 1 - from)
    BY <1>1, <1>8
  <2>2. new[i] = tail[i - from]
    BY <1>1, <1>3, <1>6, <1>7, <1>8
  <2> QED BY <1>3, <2>1, <2>2
<1>11. FoldedOf(new, ms, from, kept)
  <2>1. \A i \in 1 .. (from - 1) : new[i] = ms[i]
    BY <1>1, <1>6, <1>9
  <2>2. new[from] = Digest
    BY <1>1, <1>6, <1>9
  <2> QED BY <1>7, <1>8, <1>10, <2>1, <2>2 DEF FoldedOf, l
<1>12. Folded(ms, from, kept) = new
  BY DEF Folded, new, up, head, mid, tail
<1> QED BY <1>11, <1>12

\* Compaction folds away whole turns, answers included.
LEMMA TrimKeeps ==
  ASSUME NEW ms, Accepted(ms)
  PROVE  Accepted(Trimmed(ms))
<1> DEFINE groups == GroupStarts(ms)
           digests == {i \in DOMAIN ms : ms[i].role = "digest"}
           from == Least(groups \cup digests)
           later == groups \ {Least(groups)}
           fits == {k \in later : Len(Folded(ms, from, k)) <= Window}
           kept == IF fits = {} THEN Greatest(groups) ELSE Least(fits)
<1>1. ms \in Seq(Message) /\ Len(ms) \in Nat /\ Len(ms) >= 1 /\ ms[1] = Prompt
  BY DEF Accepted
<1>2. groups \in SUBSET (1 .. Len(ms)) /\ digests \in SUBSET (1 .. Len(ms))
  BY <1>1, GroupFacts
<1>3. CASE Len(ms) <= Window \/ Cardinality(groups) <= 1
  BY <1>3 DEF Trimmed
<1>4. CASE ~(Len(ms) <= Window \/ Cardinality(groups) <= 1)
  <2>1. groups # {}
    BY <1>4, FS_EmptySet
  <2>2. from \in groups \cup digests /\ \A i \in groups \cup digests : from <= i
    <3>1. groups \cup digests \in SUBSET Nat /\ groups \cup digests # {}
      BY <1>1, <1>2, <2>1
    <3> QED BY <3>1, LeastIsLeast
  <2>3. Trimmed(ms) = Folded(ms, from, kept)
    BY <1>4 DEF Trimmed
  <2>4. kept \in groups
    <3>1. CASE fits = {}
      <4>1. groups \in SUBSET (0 .. Len(ms))
        BY <1>1, <1>2
      <4>2. Greatest(groups) \in groups
        BY <1>1, <2>1, <4>1, GreatestIsGreatest
      <4> QED BY <3>1, <4>2
    <3>2. CASE fits # {}
      <4>1. fits \in SUBSET groups /\ fits \in SUBSET Nat
        BY <1>1, <1>2
      <4>2. Least(fits) \in fits
        BY <3>2, <4>1, LeastIsLeast
      <4> QED BY <3>2, <4>1, <4>2
    <3> QED BY <3>1, <3>2
  <2> HIDE DEF kept, fits, later, from
  <2>5. kept \in 1 .. Len(ms) /\ from \in 1 .. Len(ms) /\ from <= kept
    BY <1>2, <2>2, <2>4
  <2>6. from # 1
    <3>1. 1 \notin groups /\ 1 \notin digests
      BY <1>1, Messages DEF GroupStarts
    <3> QED BY <2>2, <3>1
  <2>7. from \in 1 .. kept /\ from \in 2 .. kept
    BY <1>1, <2>5, <2>6
  <2>8. \A i \in 1 .. (from - 1) : i \notin GroupStarts(ms) /\ ms[i].role # "digest"
    <3> SUFFICES ASSUME NEW i \in 1 .. (from - 1)
                 PROVE  i \notin groups /\ i \notin digests /\ i \in DOMAIN ms
      OBVIOUS
    <3>1. ~(from <= i) /\ i \in 1 .. Len(ms)
      BY <1>1, <2>5
    <3> QED BY <1>1, <2>2, <3>1
  <2>9. FoldedOf(Folded(ms, from, kept), ms, from, kept)
    BY <1>1, <2>5, <2>7, FoldedIsFold
  <2>10. Accepted(Folded(ms, from, kept))
    BY <2>4, <2>7, <2>8, <2>9, FoldKeeps
  <2> QED BY <2>3, <2>10
<1> QED BY <1>3, <1>4

\* A turn opens, is answered one by one, or all at once.
LEMMA TurnOpens ==
  ASSUME NEW base, Accepted(base), NEW cs \in Seq(Call)
  PROVE  Opened(Append(base, Assistant(cs)), base, cs, 0)
<1>1. base \in Seq(Message) /\ Assistant(cs) \in Message
  BY TurnMessage DEF Accepted
<1>2. /\ Append(base, Assistant(cs)) \in Seq(Message)
      /\ Len(Append(base, Assistant(cs))) = Len(base) + 1
      /\ Append(base, Assistant(cs))[Len(base) + 1] = Assistant(cs)
      /\ \A i \in 1 .. Len(base) : Append(base, Assistant(cs))[i] = base[i]
  BY <1>1, AppendProperties
<1> QED BY <1>1, <1>2 DEF Opened

LEMMA AnswerOne ==
  ASSUME NEW ms, NEW base, base \in Seq(Message), NEW cs \in Seq(Call), NEW d \in Nat, d < Len(cs),
         Opened(ms, base, cs, d)
  PROVE  Opened(Append(ms, Reply(Ids(cs)[d + 1])), base, cs, d + 1)
<1> DEFINE new == Append(ms, Reply(Ids(cs)[d + 1]))
           b == Len(base)
<1>1. /\ ms \in Seq(Message) /\ Reply(Ids(cs)[d + 1]) \in Message /\ b \in Nat
      /\ Len(ms) = b + 1 + d
  <2>1. d + 1 \in 1 .. Len(cs)
    OBVIOUS
  <2> QED BY <2>1, Messages, IdsOf DEF Opened
<1>2. /\ new \in Seq(Message) /\ Len(new) = Len(ms) + 1 /\ new[Len(ms) + 1] = Reply(Ids(cs)[d + 1])
      /\ \A i \in 1 .. Len(ms) : new[i] = ms[i]
  <2> DEFINE m == Reply(Ids(cs)[d + 1])
  <2>1. ms \in Seq(Message) /\ m \in Message
    BY <1>1
  <2> HIDE DEF m
  <2>2. /\ Append(ms, m) \in Seq(Message) /\ Len(Append(ms, m)) = Len(ms) + 1
        /\ Append(ms, m)[Len(ms) + 1] = m /\ \A i \in 1 .. Len(ms) : Append(ms, m)[i] = ms[i]
    BY <2>1, AppendProperties
  <2> QED BY <2>2 DEF m
<1> HIDE DEF new, b
<1>3. \A i \in 1 .. b : new[i] = base[i]
  BY <1>1, <1>2 DEF Opened, b
<1>4. new[b + 1] = Assistant(cs)
  BY <1>1, <1>2 DEF Opened, b
<1>5. ASSUME NEW k \in 1 .. (d + 1) PROVE new[b + 1 + k] = Reply(Ids(cs)[k])
  <2>1. CASE k = d + 1
    <3>1. b + 1 + k = Len(ms) + 1
      BY <1>1, <2>1
    <3> QED BY <1>2, <2>1, <3>1
  <2>2. CASE k # d + 1
    <3>1. k \in 1 .. d /\ b + 1 + k \in 1 .. Len(ms)
      BY <1>1, <2>2
    <3>2. ms[b + 1 + k] = Reply(Ids(cs)[k])
      BY <3>1 DEF Opened, b
    <3> QED BY <1>2, <3>1, <3>2
  <2> QED BY <2>1, <2>2
<1>6. Opened(new, base, cs, d + 1)
  <2>1. Len(new) = Len(base) + 1 + (d + 1)
    BY <1>1, <1>2 DEF b
  <2> QED BY <1>2, <1>3, <1>4, <1>5, <2>1 DEF Opened, b
<1> QED BY <1>6 DEF new

LEMMA AnswerAll ==
  ASSUME NEW ms, NEW base, base \in Seq(Message), NEW cs \in Seq(Call), Opened(ms, base, cs, 0)
  PROVE  Opened(ms \o Replies(cs), base, cs, Len(cs))
<1> DEFINE new == ms \o Replies(cs)
           b == Len(base)
           n == Len(cs)
<1>0. n \in Nat
  OBVIOUS
<1>1. ms \in Seq(Message) /\ b \in Nat /\ Len(ms) = b + 1
  BY DEF Opened
<1>2. Replies(cs) \in Seq(Message) /\ Len(Replies(cs)) = n /\ \A i \in 1 .. n : Replies(cs)[i] = Reply(Ids(cs)[i])
  <2>1. \A i \in 1 .. n : Reply(Ids(cs)[i]) \in Message
    BY Messages, IdsOf
  <2>2. Replies(cs) \in [1 .. n -> Message]
    BY <2>1 DEF Replies
  <2> QED BY <2>2 DEF Replies
<1>3. /\ new \in Seq(Message) /\ Len(new) = Len(ms) + Len(Replies(cs))
      /\ \A i \in 1 .. Len(ms) + Len(Replies(cs)) :
           new[i] = IF i <= Len(ms) THEN ms[i] ELSE Replies(cs)[i - Len(ms)]
  <2> DEFINE m == Replies(cs)
  <2>1. ms \in Seq(Message) /\ m \in Seq(Message)
    BY <1>1, <1>2
  <2> HIDE DEF m
  <2>2. /\ ms \o m \in Seq(Message) /\ Len(ms \o m) = Len(ms) + Len(m)
        /\ \A i \in 1 .. Len(ms) + Len(m) : (ms \o m)[i] = IF i <= Len(ms) THEN ms[i] ELSE m[i - Len(ms)]
    BY ONLY <2>1, ConcatProperties
  <2> QED BY <2>2 DEF m
<1> HIDE DEF new, b, n
<1>4. \A i \in 1 .. Len(ms) : new[i] = ms[i]
  BY <1>1, <1>2, <1>3
<1>5. ASSUME NEW k \in 1 .. n PROVE new[b + 1 + k] = Reply(Ids(cs)[k])
  <2>1. /\ b + 1 + k \in 1 .. Len(ms) + Len(Replies(cs))
        /\ ~(b + 1 + k <= Len(ms)) /\ (b + 1 + k) - Len(ms) = k
    BY <1>1, <1>2
  <2> QED BY <1>2, <1>3, <2>1
<1>6. Opened(new, base, cs, Len(cs))
  <2>1. \A i \in 1 .. b : new[i] = base[i] /\ i \in 1 .. Len(ms)
    BY <1>1, <1>4 DEF Opened, b
  <2>2. new[b + 1] = Assistant(cs)
    BY <1>1, <1>4 DEF Opened, b
  <2> QED BY <1>1, <1>2, <1>3, <1>5, <2>1, <2>2 DEF Opened, b, n
<1> QED BY <1>6 DEF new

\* The conversation is as it was, and the loop where it needs no other.
LEMMA TalkStays ==
  ASSUME TalkInv, messages' = messages,
         \/ pc' \in Ended
         \/ pc \in {"turn"} \cup Asked /\ pc' \in {"turn"} \cup Asked
         \/ pc \in Batching /\ pc' \in Batching /\ pending' = pending
         \/ pc \in Running /\ pc' \in Running /\ pending' = pending /\ at' = at
  PROVE  TalkInv'
BY DEF TalkInv, Ended, Asked, Running, Batching

\* The call in hand is answered.
LEMMA TalkAnswered ==
  ASSUME HandInv, TalkInv, pc \in Running, Answered
  PROVE  TalkInv'
<1>1. at \in 1 .. Len(pending) /\ pending \in Seq(Call) /\ Len(pending) \in Nat
  BY DEF HandInv
<1>2. PICK base : Accepted(base) /\ Opened(messages, base, pending, at - 1)
  BY DEF TalkInv
<1>3. base \in Seq(Message) /\ at - 1 \in Nat /\ (at - 1) + 1 = at /\ at - 1 < Len(pending)
  BY <1>1, <1>2 DEF Accepted
<1>4. Opened(Append(messages, Reply(Ids(pending)[at])), base, pending, at)
  <2>1. Opened(Append(messages, Reply(Ids(pending)[(at - 1) + 1])), base, pending, (at - 1) + 1)
    BY <1>1, <1>2, <1>3, AnswerOne
  <2> QED BY <1>3, <2>1
<1>5. CASE at < Len(pending)
  <2>1. /\ messages' = Append(messages, Reply(Ids(pending)[at])) /\ pc' = "tools" /\ at' = at + 1
        /\ pending' = pending
    BY <1>5 DEF Answered
  <2>2. at' - 1 = at
    BY <1>1, <2>1
  <2>3. Opened(messages', base, pending', at' - 1)
    BY <1>4, <2>1, <2>2
  <2> QED BY <1>2, <2>1, <2>3 DEF TalkInv, Asked, Running, Batching
<1>6. CASE ~(at < Len(pending))
  <2>1. messages' = Trimmed(Append(messages, Reply(Ids(pending)[at]))) /\ pc' = "turn"
    BY <1>6 DEF Answered
  <2>2. at = Len(pending)
    BY <1>1, <1>6
  <2>3. Accepted(Append(messages, Reply(Ids(pending)[at])))
    BY <1>1, <1>2, <1>4, <2>2, AnsweredKeeps
  <2>4. Accepted(messages')
    BY <2>1, <2>3, TrimKeeps
  <2> QED BY <2>1, <2>4 DEF TalkInv, Running, Batching
<1> QED BY <1>5, <1>6

\* A turn that is answered as soon as it is noted.
LEMMA TurnAnswered ==
  ASSUME Accepted(messages), NEW cs \in Seq(Call)
  PROVE  Accepted(Append(messages, Assistant(cs)) \o Replies(cs))
<1>1. messages \in Seq(Message)
  BY DEF Accepted
<1>2. Opened(Append(messages, Assistant(cs)) \o Replies(cs), messages, cs, Len(cs))
  BY <1>1, TurnOpens, AnswerAll
<1> QED BY <1>2, AnsweredKeeps

\* Every step keeps the conversation one to go on from.
LEMMA StepKeepsTalk ==
  ASSUME HandInv, TalkInv, [Next]_vars
  PROVE  TalkInv'
<1>1. CASE StopIfCancelled \/ ProviderFails \/ InvalidWithoutId
  <2>1. messages' = messages /\ pc' \in Ended
    BY <1>1 DEF StopIfCancelled, ProviderFails, InvalidWithoutId, Finish, Ended
  <2> QED BY <2>1, TalkStays
<1>2. CASE StartTurn \/ Truncate
  <2>1. /\ pc \in {"turn"} \cup Asked /\ pc' \in {"turn"} \cup Asked
        /\ messages' \in {messages, Append(messages, Note)}
    BY <1>2 DEF StartTurn, Truncate, Asked
  <2>2. Accepted(messages')
    BY <2>1, NoteKeeps DEF TalkInv
  <2> QED BY <2>1, <2>2 DEF TalkInv, Asked, Running, Batching
<1>3. CASE Retry
  BY <1>3, TalkStays DEF Retry
<1>4. CASE AnswerInProse
  <2>1. pc' = "complete"
    BY <1>4 DEF AnswerInProse, Finish
  <2> QED BY <2>1 DEF TalkInv, Asked, Running, Batching
<1>5. ASSUME NEW cs \in Turns, NEW prose \in BOOLEAN, Designate(cs, prose) PROVE TalkInv'
  <2>1. cs \in Seq(Call) /\ Accepted(messages)
    BY <1>5 DEF Turns, Designate, TalkInv, Asked
  <2>2. CASE pc' = "turn" /\ messages' = Append(messages, Assistant(cs)) \o Replies(cs)
    <3>1. Accepted(messages')
      BY <2>1, <2>2, TurnAnswered
    <3> QED BY <2>2, <3>1 DEF TalkInv, Running, Batching
  <2>3. CASE pc' \in {"cancelled", "complete"}
    BY <2>3 DEF TalkInv, Asked, Running, Batching
  <2> QED BY <1>5, <2>2, <2>3 DEF Designate
<1>6. ASSUME NEW cs \in Turns, AskForTools(cs) PROVE TalkInv'
  <2>1. cs \in Seq(Call) /\ Accepted(messages)
    BY <1>6 DEF Turns, AskForTools, TalkInv, Asked
  <2>2. CASE calls + Len(cs) > MaxCalls
    <3> DEFINE told == Append(messages, Assistant(cs)) \o Replies(cs)
    <3>1. pc' = "salvage" /\ messages' = told \o <<Note>>
      BY <1>6, <2>2 DEF AskForTools, BudgetReplies
    <3>2. Accepted(told)
      BY <2>1, TurnAnswered
    <3> HIDE DEF told
    <3>3. told \in Seq(Message) /\ Note \in Message
      BY <3>2, Messages DEF Accepted
    <3>4. told \o <<Note>> = Append(told, Note)
      BY ONLY <3>3, AppendIsConcat
    <3>5. Accepted(messages')
      BY <3>1, <3>2, <3>4, NoteKeeps
    <3> QED BY <3>1, <3>5 DEF TalkInv, Asked, Running, Batching
  <2>3. CASE ~(calls + Len(cs) > MaxCalls)
    <3>1. /\ messages' = Append(messages, Assistant(cs)) /\ pending' = cs
          /\ pc' = "batch" \/ (pc' = "tools" /\ at' = 1)
      BY <1>6, <2>3 DEF AskForTools
    <3>2. Opened(messages', messages, pending', 0)
      BY <2>1, <3>1, TurnOpens
    <3>3. pc' = "tools" => at' - 1 = 0
      BY <3>1
    <3>4. pc' = "tools" => Opened(messages', messages, pending', at' - 1)
      BY <3>2, <3>3
    <3> QED BY <2>1, <3>1, <3>2, <3>4 DEF TalkInv, Asked, Running, Batching
  <2> QED BY <2>2, <2>3
<1>7. CASE Announce \/ BatchStart \/ \E ok \in BOOLEAN : BatchFinish(ok)
  <2>1. pc \in Batching /\ pc' \in Batching /\ pending' = pending /\ messages' = messages
    BY <1>7 DEF Announce, BatchStart, BatchFinish, Batching, turn
  <2> QED BY <2>1, TalkStays
<1>8. CASE BatchRecord
  <2>1. pc = "launch" /\ pc' = "turn" /\ messages' = Trimmed(messages \o Replies(pending))
    BY <1>8 DEF BatchRecord
  <2>2. pending \in Seq(Call)
    BY DEF HandInv
  <2>3. PICK base : Accepted(base) /\ Opened(messages, base, pending, 0)
    BY <2>1 DEF TalkInv, Batching
  <2>4. base \in Seq(Message)
    BY <2>3 DEF Accepted
  <2>5. Opened(messages \o Replies(pending), base, pending, Len(pending))
    BY <2>2, <2>3, <2>4, AnswerAll
  <2>6. Accepted(messages')
    BY <2>1, <2>2, <2>3, <2>5, AnsweredKeeps, TrimKeeps
  <2> QED BY <2>1, <2>6 DEF TalkInv, Running, Batching
<1>9. CASE Proceed /\ pc \in Running
  <2>1. CASE Gated(InHand)
    BY <1>9, <2>1, TalkAnswered DEF Proceed, Deny
  <2>2. CASE ~Gated(InHand)
    <3>1. pc' = "go" /\ UNCHANGED <<messages, pending, at>>
      BY <1>9, <2>2 DEF Proceed, turn
    <3> QED BY <1>9, <3>1, TalkStays DEF Running, Batching
  <2> QED BY <2>1, <2>2
<1>10. CASE AnswerInvalid \/ RefuseRepeat \/ \E ok \in BOOLEAN : Execute(ok)
  BY <1>10, TalkAnswered DEF AnswerInvalid, RefuseRepeat, Execute, Running, Batching
<1>11. CASE Approve
  <2>1. pc = "tools" /\ pc \in Running
    BY <1>11 DEF Approve, Running, Batching
  <2>2. CASE Proceed
    BY <1>9, <2>1, <2>2
  <2>3. CASE Deny
    BY <2>1, <2>3, TalkAnswered DEF Deny
  <2>4. CASE pc' = "ask" /\ UNCHANGED <<messages, turn>>
    BY <2>1, <2>4, TalkStays DEF turn, Running, Batching
  <2>5. Decide(InHand) \in {"allow", "deny", "ask"}
    BY Decides DEF HandInv
  <2> QED BY <1>11, <2>2, <2>3, <2>4, <2>5 DEF Approve
<1>12. ASSUME NEW choice, UserAnswers(choice) PROVE TalkInv'
  <2>1. pc \in Running /\ (Deny \/ Proceed)
    BY <1>12 DEF UserAnswers, Running, Batching
  <2> QED BY <1>9, <2>1, TalkAnswered DEF Deny
<1>13. CASE Cancel \/ UNCHANGED vars
  <2>1. UNCHANGED <<pc, messages, pending, at>>
    BY <1>13 DEF Cancel, vars, turn
  <2> QED BY <2>1 DEF TalkInv
<1> QED BY <1>1, <1>2, <1>3, <1>4, <1>5, <1>6, <1>7, <1>8, <1>10, <1>11, <1>12, <1>13
        DEF Next, Step, Respond, Batch, Sequential

\* What is sent to the provider pairs every call with the reply under its id,
\* for every budget, every size of turn and however often the middle was folded
\* away.
THEOREM Paired == Spec => []RequestsPairCalls
<1>1. Init => TalkInv
  <2> SUFFICES ASSUME Init PROVE TalkInv
    OBVIOUS
  <2>1. /\ messages = <<Prompt>> /\ pc = "turn" /\ messages \in Seq(Message) /\ Len(messages) = 1
        /\ DOMAIN messages = {1} /\ messages[1] = Prompt
    BY Messages DEF Init
  <2>2. GroupStarts(messages) = {}
    BY <2>1, Messages DEF GroupStarts
  <2>3. Accepted(messages)
    BY <2>1, <2>2, Messages DEF Accepted
  <2> QED BY <2>1, <2>3 DEF TalkInv, Running, Batching
<1>2. TalkInv => RequestsPairCalls
  <2> SUFFICES ASSUME TalkInv, pc \in Asked PROVE RequestsPairCalls
    BY DEF RequestsPairCalls
  <2> DEFINE D == {i \in DOMAIN messages : messages[i].role = "digest"}
  <2>1. Accepted(messages)
    BY DEF TalkInv
  <2>2. Cardinality(D) <= 1
    <3>1. CASE D = {}
      BY <3>1, FS_EmptySet
    <3>2. ASSUME NEW d \in D PROVE Cardinality(D) <= 1
      <4>1. D = {d}
        BY <2>1 DEF Accepted
      <4>2. Cardinality({d}) = 1
        BY FS_Singleton
      <4> HIDE DEF D
      <4> QED BY <4>1, <4>2
    <3> QED BY <3>1, <3>2
  <2> QED BY <2>1, <2>2 DEF RequestsPairCalls, Accepted
<1> QED BY <1>1, <1>2, StepKeepsTalk, Hand, PTL DEF Spec
=============================================================================
