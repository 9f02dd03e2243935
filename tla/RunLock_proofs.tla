--------------------------- MODULE RunLock_proofs ---------------------------
(* Exclusion of claims that do not overlap, and a winner among those that  *)
(* do, for every set of processes.                                         *)
EXTENDS RunLock, TLAPS

\* Without overlapping claims at most one process is on its way in.
Alone == \A p, q \in Acquirers : p = q

\* A live holder's name stays in the file, so its release removes no other's.
Named == \A p \in Process : Holds(p) => file = p

\* A process on its way in has read whoever holds; one that has found that
\* holder dead, or found nobody, meets no holder any more.
Cleared ==
  \A p \in Acquirers :
    /\ pc[p] = "remove" => seen[p] \notin alive
    /\ \A q \in Process : Holds(q) => pc[p] \in {"probe", "remove"} /\ seen[p] = q

IInv == TypeOK /\ (overlap = {} => Alone /\ Named /\ Cleared)

LEMMA InitIInv == Init => IInv
BY NoPidAssumption DEF Init, IInv, TypeOK, Alone, Named, Cleared, Acquirers, Acquiring, Holds

LEMMA NextTypeOK == TypeOK /\ [Next]_vars => TypeOK'
<1> SUFFICES ASSUME TypeOK, [Next]_vars PROVE TypeOK'
  OBVIOUS
<1> USE DEF TypeOK, Acquiring
<1>1. ASSUME NEW p \in Process, Acquire(p) PROVE TypeOK'
  <2>1. CASE ReadHolder(p)
    <3>1. overlap' \subseteq Process
      BY <2>1 DEF ReadHolder, Acquirers
    <3> QED BY <2>1, <3>1 DEF ReadHolder, Goto
  <2> QED BY <1>1, <2>1 DEF Acquire, Probe, RemoveStale, Claim, Verify, Goto
<1>2. ASSUME NEW p \in Process, Release(p) \/ Die(p) PROVE TypeOK'
  BY <1>2 DEF Release, CheckOwned, Unlink, Die, Goto
<1> QED BY <1>1, <1>2 DEF Next, vars

\* A step that starts no claim leaves overlap alone: what held before it
\* held because no claims overlapped then either.
LEMMA NextIInv == IInv /\ [Next]_vars => IInv'
<1> SUFFICES ASSUME IInv, [Next]_vars, overlap' = {} PROVE Alone' /\ Named' /\ Cleared'
  BY NextTypeOK DEF IInv
<1> USE DEF TypeOK, Holds
<1>0. TypeOK
  BY DEF IInv
<1>1. ASSUME NEW p \in Process, ReadHolder(p) PROVE Alone' /\ Named' /\ Cleared'
  <2>1. Acquirers = {} /\ overlap = {}
    BY <1>1, <1>0 DEF ReadHolder, IInv
  <2>2. Alone /\ Named
    BY <2>1 DEF IInv
  <2>3. /\ pc' = [pc EXCEPT ![p] = IF file = NoPid THEN "claim" ELSE "probe"]
        /\ seen' = [seen EXCEPT ![p] = file] /\ UNCHANGED <<file, alive>> /\ pc[p] = "idle"
    BY <1>1 DEF ReadHolder, Goto
  <2>4. Acquirers' \subseteq {p}
    BY <2>1, <2>3, <1>0 DEF Acquirers, Acquiring
  <2>5. \A q \in Process : Holds(q)' => Holds(q) /\ file = q
    BY <2>2, <2>3, <1>0 DEF Named
  <2>6. Cleared'
    <3>1. \A q \in Process : Holds(q)' => pc'[p] = "probe" /\ seen'[p] = q
      BY <2>3, <2>5, <1>0, NoPidAssumption
    <3>2. pc'[p] # "remove"
      BY <2>3, <1>0
    <3> QED BY <2>4, <3>1, <3>2 DEF Cleared
  <2> QED BY <2>3, <2>4, <2>5, <2>6 DEF Alone, Named
<1> USE DEF Acquirers, Acquiring, Goto
<1>2. ASSUME overlap = {} PROVE Alone /\ Named /\ Cleared
  BY <1>2 DEF IInv
<1>3. ASSUME NEW p \in Process, Probe(p) PROVE Alone' /\ Named' /\ Cleared'
  BY <1>0, <1>2, <1>3 DEF Probe, Alone, Named, Cleared
<1>4. ASSUME NEW p \in Process, RemoveStale(p) PROVE Alone' /\ Named' /\ Cleared'
  <2>1. \A q \in Process : ~Holds(q)
    BY <1>0, <1>2, <1>4 DEF RemoveStale, Cleared
  <2> QED BY <1>0, <1>2, <1>4, <2>1 DEF RemoveStale, Alone, Named, Cleared
<1>5. ASSUME NEW p \in Process, Claim(p) PROVE Alone' /\ Named' /\ Cleared'
  <2>1. \A q \in Process : ~Holds(q)
    BY <1>0, <1>2, <1>5 DEF Claim, Cleared
  <2> QED BY <1>0, <1>2, <1>5, <2>1 DEF Claim, Alone, Named, Cleared
<1>6. ASSUME NEW p \in Process, Verify(p) PROVE Alone' /\ Named' /\ Cleared'
  <2>1. overlap = {} /\ p \in Acquirers /\ UNCHANGED <<file, alive, seen>>
        /\ pc' = [pc EXCEPT ![p] = IF file = p THEN "held" ELSE "refused"]
    BY <1>6 DEF Verify
  <2>2. \A q \in Process : ~Holds(q)
    BY <1>0, <1>2, <1>6 DEF Verify, Cleared
  <2>3. Acquirers' = {}
    BY <1>0, <1>2, <2>1 DEF Alone
  <2> QED BY <1>0, <2>1, <2>2, <2>3 DEF Alone, Named, Cleared
<1>7. ASSUME NEW p \in Process, CheckOwned(p) PROVE Alone' /\ Named' /\ Cleared'
  BY <1>0, <1>2, <1>7 DEF CheckOwned, Alone, Named, Cleared
<1>8. ASSUME NEW p \in Process, Unlink(p) PROVE Alone' /\ Named' /\ Cleared'
  BY <1>0, <1>2, <1>8 DEF Unlink, Alone, Named, Cleared
<1>9. ASSUME NEW p \in Process, Die(p) PROVE Alone' /\ Named' /\ Cleared'
  BY <1>0, <1>2, <1>9 DEF Die, Alone, Named, Cleared
<1>10. CASE UNCHANGED vars
  BY <1>0, <1>2, <1>10 DEF vars, Alone, Named, Cleared
<1> QED
  BY <1>1, <1>3, <1>4, <1>5, <1>6, <1>7, <1>8, <1>9, <1>10 DEF Next, Acquire, Release

LEMMA SpecIInv == Spec => []IInv
BY InitIInv, NextIInv, PTL DEF Spec

\* The lock's state is well formed whatever processes race, die or let go.
THEOREM LockTypes == Spec => []TypeOK
<1>1. IInv => TypeOK
  BY DEF IInv
<1> QED BY <1>1, SpecIInv, PTL

\* Any number of processes exclude each other as long as no two acquires
\* overlap, through stale files, deaths and releases at any step.
THEOREM Exclusion == Spec => []ExclusiveUnlessRaced
<1>1. IInv => ExclusiveUnlessRaced
  BY DEF IInv, Named, ExclusiveUnlessRaced
<1> QED BY <1>1, SpecIInv, PTL

-----------------------------------------------------------------------------
(* A race has a winner.  A death after the first read, and a release, leave *)
(* their trace in pc for good: a state without one has a past without one.  *)
NobodyLetGo ==
  \A p \in Process :
    /\ p \notin alive => pc[p] = "idle"
    /\ pc[p] \notin {"unlink", "released"}

\* The processes that have put their name in the file, or met one that has.
Past == {p \in Process : pc[p] \in {"verify", "held", "refused"}}

\* A live process the file names holds it or is about to; whoever was read
\* and lives has claimed; and once there was a claim, the file names a live
\* claimant or somebody has removed the name to put another in its place.
RaceInv ==
  NobodyLetGo =>
    /\ file \in alive => pc[file] \in {"verify", "held"}
    /\ \A p \in Process : seen[p] \in alive => seen[p] \in Past
    /\ Past # {} => file \in alive \/ \E p \in Process : pc[p] = "claim"

LEMMA InitRaceInv == Init => RaceInv
BY NoPidAssumption DEF Init, RaceInv, Past

LEMMA NextRaceInv == TypeOK /\ RaceInv /\ [Next]_vars => RaceInv'
<1> SUFFICES ASSUME TypeOK, RaceInv, [Next]_vars, NobodyLetGo' PROVE RaceInv'
  BY DEF RaceInv
<1> USE NoPidAssumption DEF TypeOK, Goto
<1>1. ASSUME NobodyLetGo PROVE
        /\ file \in alive => pc[file] \in {"verify", "held"}
        /\ \A p \in Process : seen[p] \in alive => seen[p] \in Past
        /\ Past # {} => file \in alive \/ \E p \in Process : pc[p] = "claim"
  BY <1>1 DEF RaceInv
<1>2. ASSUME NEW p \in Process, ReadHolder(p) PROVE RaceInv'
  <2>1. NobodyLetGo
    BY <1>2 DEF NobodyLetGo, ReadHolder
  <2>2. /\ pc' = [pc EXCEPT ![p] = IF file = NoPid THEN "claim" ELSE "probe"]
        /\ seen' = [seen EXCEPT ![p] = file] /\ UNCHANGED <<file, alive>> /\ pc[p] = "idle"
    BY <1>2 DEF ReadHolder
  <2>3. Past' = Past
    BY <2>2 DEF Past
  <2> QED BY <1>1, <2>1, <2>2, <2>3 DEF RaceInv, Past
<1>3. ASSUME NEW p \in Process, Probe(p) PROVE RaceInv'
  <2>1. NobodyLetGo
    BY <1>3 DEF NobodyLetGo, Probe
  <2>2. UNCHANGED <<file, alive, seen>> /\ pc[p] = "probe"
        /\ pc' = [pc EXCEPT ![p] = IF seen[p] \in alive THEN "refused" ELSE "remove"]
    BY <1>3 DEF Probe
  <2>3. CASE seen[p] \in alive
    BY <1>1, <2>1, <2>2, <2>3 DEF RaceInv, Past
  <2>4. CASE seen[p] \notin alive
    BY <1>1, <2>1, <2>2, <2>4 DEF RaceInv, Past
  <2> QED BY <2>3, <2>4
<1>4. ASSUME NEW p \in Process, RemoveStale(p) PROVE RaceInv'
  <2>1. NobodyLetGo
    BY <1>4 DEF NobodyLetGo, RemoveStale
  <2> QED BY <1>1, <1>4, <2>1 DEF RemoveStale, RaceInv, Past
<1>5. ASSUME NEW p \in Process, Claim(p) PROVE RaceInv'
  <2>1. NobodyLetGo
    BY <1>5 DEF NobodyLetGo, Claim
  <2> QED BY <1>1, <1>5, <2>1 DEF Claim, RaceInv, Past
<1>6. ASSUME NEW p \in Process, Verify(p) PROVE RaceInv'
  <2>1. NobodyLetGo
    BY <1>6 DEF NobodyLetGo, Verify
  <2>2. Past' = Past /\ p \in Past
    BY <1>6 DEF Verify, Past
  <2> QED BY <1>1, <1>6, <2>1, <2>2 DEF Verify, RaceInv, Past
<1>7. ASSUME NEW p \in Process, Release(p) PROVE FALSE
  BY <1>7 DEF NobodyLetGo, Release, CheckOwned, Unlink
<1>8. ASSUME NEW p \in Process, Die(p) PROVE RaceInv'
  <2>1. NobodyLetGo /\ pc[p] = "idle"
    BY <1>8 DEF NobodyLetGo, Die
  <2> QED BY <1>1, <1>8, <2>1 DEF Die, RaceInv, Past
<1>9. CASE UNCHANGED vars
  BY <1>1, <1>9 DEF vars, NobodyLetGo, RaceInv, Past
<1> QED
  BY <1>2, <1>3, <1>4, <1>5, <1>6, <1>7, <1>8, <1>9 DEF Next, Acquire

LEMMA SpecRaceInv == Spec => []RaceInv
BY InitRaceInv, NextRaceInv, LockTypes, PTL DEF Spec

\* However many claims overlap, over whatever stale file: when all are through
\* and nobody died or let go on the way, one of them holds the lock.
THEOREM Winner == Spec => []RaceHasWinner
<1>1. TypeOK /\ RaceInv => RaceHasWinner
  <2> SUFFICES ASSUME TypeOK, RaceInv, alive # {},
                      \A p \in Process : pc[p] \in IF p \in alive THEN {"held", "refused"} ELSE {"idle"}
               PROVE  \E p \in alive : pc[p] = "held"
    BY DEF RaceHasWinner
  <2>1. NobodyLetGo
    BY DEF NobodyLetGo
  <2>2. Past # {} /\ \A p \in Process : pc[p] # "claim"
    BY DEF TypeOK, Past
  <2>3. file \in alive /\ pc[file] \in {"verify", "held"}
    BY <2>1, <2>2 DEF RaceInv
  <2> QED BY <2>3 DEF TypeOK
<1> QED BY <1>1, LockTypes, SpecRaceInv, PTL
=============================================================================
