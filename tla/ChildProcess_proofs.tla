------------------------ MODULE ChildProcess_proofs ------------------------
(* What an outcome promises, for every tree of processes and every pipe.   *)
EXTENDS ChildProcess, TLAPS

Stages == {"waiting", "killing", "reaping", "sweeping", "killing orphans",
           "finishing", "returned", "failed", "dropped"}

TypeInv ==
  /\ pc \in Stages
  /\ state \in [Proc -> {"unborn", "running", "zombie", "gone"}]
  /\ group \subseteq Proc /\ holds \subseteq Proc
  /\ written \in Nat /\ total \in 0..written /\ eof \in BOOLEAN

\* A process enters the group, and has the pipe, only by being born.
BornFirst == \A p \in group \cup holds : state[p] # "unborn"

\* What each stage of the call has established for good.
Established ==
  /\ pc \in {"sweeping", "killing orphans", "finishing", "returned"} => state[Child] = "gone"
  /\ pc \in {"finishing", "returned"} => group \cap Running \subseteq immune
  /\ pc = "returned" => eof

\* The end of the stream is final: nobody is left who could write.
EndIsFinal == eof => holds \cap Running = {} /\ total = written

IInv == TypeInv /\ BornFirst /\ Established /\ EndIsFinal

LEMMA InitIInv == Init => IInv
<1> SUFFICES ASSUME Init PROVE IInv
  OBVIOUS
<1>1. TypeInv
  <2>1. state \in [Proc -> {"unborn", "running", "zombie", "gone"}]
    BY DEF Init
  <2>2. group \subseteq Proc /\ holds \subseteq Proc
    BY ChildAssumption DEF Init
  <2>3. pc \in Stages /\ written \in Nat /\ total \in 0..written
    BY DEF Init, Stages
  <2>4. eof \in BOOLEAN
    BY DEF Init
  <2> QED BY <2>1, <2>2, <2>3, <2>4 DEF TypeInv
<1>2. BornFirst
  BY ChildAssumption DEF Init, BornFirst
<1>3. Established /\ EndIsFinal
  BY DEF Init, Established, EndIsFinal
<1> QED BY <1>1, <1>2, <1>3 DEF IInv

\* The steps that only move the call, or the two signals it watches.
LEMMA CallSteps ==
  ASSUME IInv, UNCHANGED <<tree, output>>,
         pc' \in Stages,
         pc' # pc => pc' \in {"waiting", "killing", "reaping", "failed", "dropped"}
                     \/ (pc' \in {"sweeping", "killing orphans"} /\ state[Child] = "gone")
  PROVE  IInv'
BY DEF IInv, TypeInv, Stages, BornFirst, Established, EndIsFinal, Running, tree, output

\* The steps in which processes die and nothing is born.
LEMMA Deaths ==
  ASSUME IInv, NEW dead \in SUBSET Running, state' = Died(dead),
         UNCHANGED <<group, holds, immune, output>>,
         pc' \in Stages,
         pc' = pc \/ pc' = "reaping"
           \/ (pc = "killing orphans" /\ pc' = "finishing" /\ dead = (Running \cap group) \ immune)
  PROVE  IInv'
<1>1. /\ \A p \in Proc : state'[p] = IF p \in dead THEN "zombie" ELSE state[p]
      /\ state' \in [Proc -> {"unborn", "running", "zombie", "gone"}]
  BY DEF Died, IInv, TypeInv
<1>2. Running' = Running \ dead
  BY <1>1 DEF Running
<1>3. state[Child] = "gone" => state'[Child] = "gone"
  BY <1>1, ChildAssumption DEF Running
<1>4. TypeInv' /\ BornFirst' /\ EndIsFinal'
  BY <1>1, <1>2 DEF IInv, TypeInv, BornFirst, EndIsFinal, output
<1>5. Established'
  BY <1>2, <1>3 DEF IInv, Established, output
<1> QED BY <1>4, <1>5 DEF IInv

LEMMA ForkIInv == ASSUME IInv, NEW p \in Proc, NEW q \in Proc, Fork(p, q) PROVE IInv'
<1>1. Running' = Running \cup {q} /\ state' \in [Proc -> {"unborn", "running", "zombie", "gone"}]
  BY DEF Fork, Running, IInv, TypeInv
<1>2. group \subseteq group' /\ group' \subseteq group \cup {q} /\ (q \in group' => p \in group \cap Running)
  BY DEF Fork, Inherit, IInv, BornFirst
<1>3. holds \subseteq holds' /\ holds' \subseteq holds \cup {q} /\ (q \in holds' => p \in holds \cap Running)
  BY DEF Fork, Inherit, IInv, BornFirst
<1>i. immune \subseteq immune' /\ (p \in immune => q \in immune')
  BY DEF Fork, Inherit
<1>4. TypeInv' /\ BornFirst'
  BY <1>1, <1>2, <1>3 DEF Fork, IInv, TypeInv, BornFirst, call, output
<1>5. state[Child] = "gone" => state'[Child] = "gone"
  BY ChildAssumption DEF Fork, IInv, TypeInv
<1>6. Established' /\ EndIsFinal'
  BY <1>1, <1>2, <1>3, <1>i, <1>5 DEF Fork, IInv, Established, EndIsFinal, call, output
<1> QED BY <1>4, <1>6 DEF IInv

LEMMA NextIInv == IInv /\ [Next]_vars => IInv'
<1> SUFFICES ASSUME IInv, [Next]_vars PROVE IInv'
  OBVIOUS
<1>1. ASSUME NEW p \in Proc, Leave(p) \/ Elevate(p) \/ CloseOutput(p) PROVE IInv'
  <2>1. UNCHANGED <<pc, state, written, total, eof>> /\ Running' = Running
        /\ group' \subseteq group /\ holds' \subseteq holds /\ immune \subseteq immune'
    BY <1>1 DEF Leave, Elevate, CloseOutput, call, output, Running
  <2>2. TypeInv' /\ BornFirst'
    BY <2>1 DEF IInv, TypeInv, BornFirst
  <2>3. Established' /\ EndIsFinal'
    BY <2>1 DEF IInv, Established, EndIsFinal
  <2> QED BY <2>2, <2>3 DEF IInv
<1>2. ASSUME NEW p \in Proc, Write(p) PROVE IInv'
  <2>1. Running' = Running /\ ~eof
    BY <1>2 DEF Write, IInv, EndIsFinal, Running, tree
  <2>2. written' = written + 1 /\ UNCHANGED <<pc, state, group, holds, immune, total, eof>>
    BY <1>2 DEF Write, call, tree
  <2>3. TypeInv'
    BY <2>2 DEF IInv, TypeInv
  <2>4. BornFirst' /\ Established' /\ EndIsFinal'
    BY <2>1, <2>2 DEF IInv, BornFirst, Established, EndIsFinal
  <2> QED BY <2>3, <2>4 DEF IInv
<1>3. ASSUME NEW p \in Proc, Exit(p) PROVE IInv'
  <2>1. {p} \in SUBSET Running /\ state' = Died({p}) /\ UNCHANGED <<pc, group, holds, immune, output>>
    BY <1>3 DEF Exit, call
  <2>2. pc' \in Stages
    BY <2>1 DEF IInv, TypeInv
  <2> QED BY <2>1, <2>2, Deaths
<1>4. ASSUME NEW p \in Proc, state[p] = "zombie", state' = [state EXCEPT ![p] = "gone"],
             UNCHANGED <<call, group, holds, immune, output>>
      PROVE  IInv'
  <2>1. Running' = Running /\ state' \in [Proc -> {"unborn", "running", "zombie", "gone"}]
    BY <1>4 DEF IInv, TypeInv, Running
  <2> QED BY <1>4, <2>1, ChildAssumption DEF IInv, TypeInv, BornFirst, Established, EndIsFinal, call, output
<1>5. CASE WaitTask \/ \E p \in Proc : Reaped(p)
  BY <1>4, <1>5, ChildAssumption DEF WaitTask, Reaped
<1>6. CASE Cancel \/ Deadline \/ Dropped
  BY <1>6, CallSteps DEF Cancel, Deadline, Dropped, IInv, TypeInv, Stages, call
<1>7. CASE Pump
  <2>1. UNCHANGED <<pc, state, group, holds, immune, written>> /\ Running' = Running
    BY <1>7 DEF Pump, call, tree, Running
  <2>2. CASE total < written
    <3>1. total' = total + 1 /\ ~eof /\ eof' = FALSE
      BY <1>7, <2>2 DEF Pump
    <3>2. TypeInv'
      <4>1. written \in Nat /\ total \in 0..written
        BY DEF IInv, TypeInv
      <4>2. total' \in 0..written'
        BY <2>1, <2>2, <3>1, <4>1
      <4>3. eof' \in BOOLEAN
        BY <3>1
      <4> QED BY <2>1, <4>2, <4>3 DEF IInv, TypeInv
    <3>3. BornFirst' /\ Established' /\ EndIsFinal'
      BY <2>1, <3>1 DEF IInv, BornFirst, Established, EndIsFinal
    <3> QED BY <3>2, <3>3 DEF IInv
  <2>3. CASE ~(total < written)
    <3>1. total' = total /\ holds \cap Running = {} /\ eof' = TRUE
      BY <1>7, <2>3 DEF Pump
    <3>2. total = written
      BY <2>3 DEF IInv, TypeInv
    <3>3. TypeInv'
      BY <2>1, <3>1 DEF IInv, TypeInv
    <3>4. EndIsFinal'
      BY <2>1, <3>1, <3>2 DEF EndIsFinal
    <3>5. BornFirst' /\ Established'
      BY <2>1, <3>1 DEF IInv, BornFirst, Established
    <3> QED BY <3>3, <3>4, <3>5 DEF IInv
  <2> QED BY <2>2, <2>3
<1>8. CASE Proceed
  <2>1. ASSUME NEW why \in {"exited", "cancelled", "timed out"}, Select(why) PROVE IInv'
    BY <2>1, CallSteps DEF Select, Ready, Stages
  <2>2. CASE Kill
    BY <2>2, Deaths, (Running \cap group) \ immune \in SUBSET Running DEF Kill, KillGroup, Stages
  <2>0. CASE KillRefused
    BY <2>0, CallSteps DEF KillRefused, Stages
  <2>3. CASE Join
    BY <2>3, CallSteps DEF Join, Stages
  <2>4. CASE Probe
    <3>1. CASE orphans'
      BY <2>4, <3>1, CallSteps DEF Probe, Stages, IInv, Established
    <3>2. CASE ~orphans'
      <4>1. Members \subseteq immune /\ pc = "sweeping" /\ pc' = "finishing" /\ UNCHANGED <<tree, output>>
        BY <2>4, <3>2 DEF Probe, Refused
      <4>2. group \cap Running \subseteq immune
        BY <4>1 DEF Members, Running, IInv, TypeInv
      <4> QED BY <4>1, <4>2 DEF IInv, TypeInv, Stages, BornFirst, Established, EndIsFinal, Running, tree, output
    <3> QED BY <3>1, <3>2
  <2>5. CASE Sweep
    BY <2>5, Deaths, (Running \cap group) \ immune \in SUBSET Running DEF Sweep, KillGroup, Stages
  <2>6. CASE Finish
    BY <2>6 DEF Finish, IInv, TypeInv, Stages, BornFirst, Established, EndIsFinal, Running, tree, output
  <2> QED BY <1>8, <2>0, <2>1, <2>2, <2>3, <2>4, <2>5, <2>6 DEF Proceed
<1>9. CASE UNCHANGED vars
  BY <1>9, CallSteps DEF vars, IInv, TypeInv, tree, output, call
<1> QED BY <1>1, <1>2, <1>3, <1>5, <1>6, <1>7, <1>8, <1>9, ForkIInv DEF Next

\* Whatever tree of processes the child grows and however the wait ends, an
\* outcome is reported only once the child is reaped, every byte of its output
\* counted, and its group dead but for processes that may not be signalled.
THEOREM OutcomeIsLast == Spec => []NothingOutlivesOutcome
<1>1. IInv => NothingOutlivesOutcome
  BY DEF IInv, Established, EndIsFinal, NothingOutlivesOutcome
<1> QED BY <1>1, InitIInv, NextIInv, PTL DEF Spec
=============================================================================
