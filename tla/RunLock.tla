------------------------------ MODULE RunLock ------------------------------
(***************************************************************************)
(* The single-writer claim on a run directory: a file naming a pid, taken  *)
(* by RunLock::acquire and dropped by RunLock::release.  Each process takes *)
(* the lock at most once, and each file-system call is a step of its own:  *)
(* two `saya` processes may interleave anywhere between them.              *)
(***************************************************************************)
EXTENDS FiniteSets

CONSTANTS
  Process,  \* the processes that may claim the run directory, by pid
  NoPid     \* what holder_pid returns for an absent or unparsable file
ASSUME NoPidAssumption == NoPid \notin Process

VARIABLES
  file,    \* the pid the lock file names, or NoPid
  alive,   \* the processes that exist
  pc,      \* where each process stands in acquire or release
  seen,    \* the holder each process read last
  overlap  \* the processes whose acquire ran while another acquire ran
vars == <<file, alive, pc, seen, overlap>>

Acquiring == {"probe", "remove", "claim", "verify"}
Acquirers == {p \in Process : p \in alive /\ pc[p] \in Acquiring}
Holds(p) == p \in alive /\ pc[p] \in {"held", "unlink"}

\* A stale file may be there already: left by a process that is gone.
Init ==
  /\ alive \in SUBSET Process
  /\ file \in {NoPid} \cup (Process \ alive)
  /\ pc = [p \in Process |-> "idle"]
  /\ seen = [p \in Process |-> NoPid]
  /\ overlap = {}

Goto(p, label) == pc' = [pc EXCEPT ![p] = label]

\* acquire: the first read of the file.
ReadHolder(p) ==
  /\ p \in alive /\ pc[p] = "idle"
  /\ seen' = [seen EXCEPT ![p] = file]
  /\ Goto(p, IF file = NoPid THEN "claim" ELSE "probe")
  /\ overlap' = IF Acquirers = {} THEN overlap ELSE overlap \cup Acquirers \cup {p}
  /\ UNCHANGED <<file, alive>>

\* Mutants: a holder is taken for dead without asking, or for alive.
ProbeNobody(p) ==
  p \in alive /\ pc[p] = "probe" /\ Goto(p, "remove") /\ UNCHANGED <<file, alive, seen, overlap>>
ProbeAnybody(p) ==
  p \in alive /\ pc[p] = "probe" /\ Goto(p, "refused") /\ UNCHANGED <<file, alive, seen, overlap>>

\* acquire: kill(pid, 0) on the holder that was read.
Probe(p) ==
  /\ p \in alive /\ pc[p] = "probe"
  /\ Goto(p, IF seen[p] \in alive THEN "refused" ELSE "remove")
  /\ UNCHANGED <<file, alive, seen, overlap>>

\* acquire: the file is removed, whoever it names by now.
RemoveStale(p) ==
  /\ p \in alive /\ pc[p] = "remove"
  /\ file' = NoPid
  /\ Goto(p, "claim")
  /\ UNCHANGED <<alive, seen, overlap>>

\* Mutant: the pid is written in place, and half of it may be seen.
ClaimInPlace(p) ==
  /\ p \in alive /\ pc[p] = "claim"
  /\ file' \in {p, "half a pid"}
  /\ Goto(p, "verify")
  /\ UNCHANGED <<alive, seen, overlap>>

\* claim: the pid-suffixed temporary file is this process's own; only its
\* rename over the lock path is visible.
Claim(p) ==
  /\ p \in alive /\ pc[p] = "claim"
  /\ file' = p
  /\ Goto(p, "verify")
  /\ UNCHANGED <<alive, seen, overlap>>

\* Mutant: the loser of a race tidies up before it refuses itself.
VerifyTidily(p) ==
  /\ p \in alive /\ pc[p] = "verify"
  /\ Goto(p, IF file = p THEN "held" ELSE "refused")
  /\ file' = IF file = p THEN p ELSE NoPid
  /\ UNCHANGED <<alive, seen, overlap>>

\* acquire: the re-read; anything but our own pid refuses (held or contended).
Verify(p) ==
  /\ p \in alive /\ pc[p] = "verify"
  /\ Goto(p, IF file = p THEN "held" ELSE "refused")
  /\ UNCHANGED <<file, alive, seen, overlap>>

\* remove_if_owned: the read, then the removal.
CheckOwned(p) ==
  /\ p \in alive /\ pc[p] = "held"
  /\ Goto(p, IF file = p THEN "unlink" ELSE "released")
  /\ UNCHANGED <<file, alive, seen, overlap>>

Unlink(p) ==
  /\ p \in alive /\ pc[p] = "unlink"
  /\ file' = NoPid
  /\ Goto(p, "released")
  /\ UNCHANGED <<alive, seen, overlap>>

\* A process is killed, gives up on an I/O error, or simply exits.
Die(p) ==
  /\ p \in alive
  /\ alive' = alive \ {p}
  /\ UNCHANGED <<file, pc, seen, overlap>>

Acquire(p) == ReadHolder(p) \/ Probe(p) \/ RemoveStale(p) \/ Claim(p) \/ Verify(p)
Release(p) == CheckOwned(p) \/ Unlink(p)

Next == \E p \in Process : Acquire(p) \/ Release(p) \/ Die(p)
Spec == Init /\ [][Next]_vars

\* A process that started to acquire goes on; none is obliged to start, to
\* release or to die.
FairSpec == Spec /\ \A p \in Process : WF_vars(pc[p] # "idle" /\ Acquire(p))

-----------------------------------------------------------------------------

TypeOK ==
  /\ file \in Process \cup {NoPid} /\ alive \subseteq Process
  /\ pc \in [Process -> Acquiring \cup {"idle", "refused", "held", "unlink", "released"}]
  /\ seen \in [Process -> Process \cup {NoPid}] /\ overlap \subseteq Process

\* Claims that never overlap another claim exclude each other, across stale
\* files, deaths and releases: two holders need an overlapping acquire.
ExclusiveUnlessRaced ==
  overlap = {} => \A p, q \in Process : Holds(p) /\ Holds(q) => p = q

\* However many claims race over whatever stale file, they do not all refuse
\* each other: once every live process is through, and none of them has died
\* or let go on the way, one holds the lock.
RaceHasWinner ==
  /\ alive # {}
  /\ \A p \in Process : pc[p] \in IF p \in alive THEN {"held", "refused"} ELSE {"idle"}
  => \E p \in alive : pc[p] = "held"

\* A lock whose holder died never wedges the run: a process that probes it
\* while no other process lives acquires it or dies trying.
StaleLockIsReclaimed ==
  \A p \in Process :
    (alive = {p} /\ pc[p] = "probe") ~> (pc[p] = "held" \/ p \notin alive)
=============================================================================
