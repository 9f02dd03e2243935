---------------------------- MODULE ChildProcess ----------------------------
(***************************************************************************)
(* One child of the command runner or of a host command, on Unix: the wait *)
(* under a timeout and a cancellation token, the kill of its process group, *)
(* the sweep of what it left behind, and the pumps that drain its output.  *)
(* The child and its descendants fork, write, close their output, leave    *)
(* the group, take on another user's credentials and exit between any two  *)
(* of those steps.  The two streams are one pipe, its bytes are counted,   *)
(* and a pid is not reused.                                                *)
(***************************************************************************)
EXTENDS Naturals

CONSTANTS
  Proc,      \* the child and the descendants it may have
  Child,     \* the process that was spawned; it leads its own group
  MaxBytes,  \* bound: the bytes ever written
  PipeSize   \* the bytes a pipe holds before a writer blocks
ASSUME ChildAssumption == Child \in Proc
ASSUME SizeAssumption == MaxBytes \in Nat /\ PipeSize \in Nat \ {0}

VARIABLES
  pc,         \* where the call stands: waiting, killing, reaping, sweeping, finishing, ...
  end,        \* how the wait ended
  orphans,    \* whether the sweep found members left in the group
  state,      \* of each process: unborn, running, zombie, gone
  group,      \* the processes in the child's group
  holds,      \* the processes that have the write end open
  immune,     \* the processes the kernel lets us send no signal to (EPERM)
  written,    \* bytes put into the pipe so far
  total,      \* bytes the pump has taken out of it
  eof,        \* the pump has met the end of the stream
  cancelled,  \* the cancellation token
  expired     \* the deadline has passed
call == <<pc, end, orphans>>
tree == <<state, group, holds, immune>>
output == <<written, total, eof>>
vars == <<call, tree, output, cancelled, expired>>

Running == {p \in Proc : state[p] = "running"}
Members == {p \in group : state[p] \in {"running", "zombie"}}

\* killpg, as Linux has it, fails only when it may signal no member: EPERM when
\* there are members and with ESRCH when there are none.
Refused == Members # {} /\ Members \subseteq immune

\* Those that can hold up the call and that no signal of it reaches: the
\* ones that keep the output open from outside the group, and the child or
\* an owner of the output that may not be signalled.
Unreached == Running \cap ((holds \ group) \cup (immune \cap (holds \cup {Child})))

Init ==
  /\ pc = "waiting" /\ end = "none" /\ orphans = FALSE
  /\ state = [p \in Proc |-> IF p = Child THEN "running" ELSE "unborn"]
  /\ group = {Child} /\ holds = {Child} /\ immune = {}
  /\ written = 0 /\ total = 0 /\ eof = FALSE
  /\ cancelled = FALSE /\ expired = FALSE

Inherit(set, p, q) == IF p \in set THEN set \cup {q} ELSE set
Died(dead) == [p \in Proc |-> IF p \in dead THEN "zombie" ELSE state[p]]

-----------------------------------------------------------------------------
(* What the processes and the kernel do.                                   *)

Fork(p, q) ==
  /\ p \in Running /\ state[q] = "unborn"
  /\ state' = [state EXCEPT ![q] = "running"]
  /\ group' = Inherit(group, p, q)
  /\ holds' = Inherit(holds, p, q)
  /\ immune' = Inherit(immune, p, q)
  /\ UNCHANGED <<call, output, cancelled, expired>>

\* setsid: open to every process that leads no group.
Leave(p) ==
  /\ p \in (Running \cap group) \ {Child}
  /\ group' = group \ {p}
  /\ UNCHANGED <<call, state, holds, immune, output, cancelled, expired>>

\* exec of a set-user-id program: its credentials stay, and are inherited.
Elevate(p) ==
  /\ p \in Running \ immune
  /\ immune' = immune \cup {p}
  /\ UNCHANGED <<call, state, group, holds, output, cancelled, expired>>

CloseOutput(p) ==
  /\ p \in Running \cap holds
  /\ holds' = holds \ {p}
  /\ UNCHANGED <<call, state, group, immune, output, cancelled, expired>>

Write(p) ==
  /\ p \in Running \cap holds
  /\ written < MaxBytes /\ written - total < PipeSize
  /\ written' = written + 1
  /\ UNCHANGED <<call, tree, total, eof, cancelled, expired>>

Exit(p) ==
  /\ p \in Running
  /\ state' = Died({p})
  /\ UNCHANGED <<call, group, holds, immune, output, cancelled, expired>>

\* A descendant's own parent, or init, collects it.
Reaped(p) ==
  /\ p # Child /\ state[p] = "zombie"
  /\ state' = [state EXCEPT ![p] = "gone"]
  /\ UNCHANGED <<call, group, holds, immune, output, cancelled, expired>>

\* The blocking task in child.wait().
WaitTask ==
  /\ state[Child] = "zombie"
  /\ state' = [state EXCEPT ![Child] = "gone"]
  /\ UNCHANGED <<call, group, holds, immune, output, cancelled, expired>>

Cancel ==
  /\ ~cancelled /\ cancelled' = TRUE
  /\ UNCHANGED <<call, tree, output, expired>>

Deadline ==
  /\ ~expired /\ expired' = TRUE
  /\ UNCHANGED <<call, tree, output, cancelled>>

\* pump: the thread drains what there is, and ends when nothing is left to
\* read and nobody is left to write.
Pump ==
  /\ ~eof
  /\ IF total < written
       THEN total' = total + 1 /\ eof' = FALSE
       ELSE holds \cap Running = {} /\ eof' = TRUE /\ total' = total
  /\ UNCHANGED <<call, tree, written, cancelled, expired>>

-----------------------------------------------------------------------------
(* The wait, the kill, the sweep and the join of the pumps.                *)

\* The select: any arm that is ready may win.
Ready(why) ==
  CASE why = "exited"    -> state[Child] = "gone"
    [] why = "cancelled" -> cancelled
    [] why = "timed out" -> expired

Select(why) ==
  /\ pc = "waiting" /\ Ready(why)
  /\ end' = why
  /\ pc' = IF why = "exited" THEN "sweeping" ELSE "killing"
  /\ UNCHANGED <<orphans, tree, output, cancelled, expired>>

\* Mutant: the signal goes to the child's pid, not to its group.
KillChild == state' = Died((Running \cap {Child}) \ immune)

\* killpg(SIGKILL): every member that may be signalled dies.
KillGroup == state' = Died((Running \cap group) \ immune)

\* kill_process_group: a group with no member left is no error.
Kill ==
  /\ pc = "killing" /\ ~Refused
  /\ KillGroup
  /\ pc' = "reaping"
  /\ UNCHANGED <<end, orphans, group, holds, immune, output, cancelled, expired>>

\* No member may be signalled: the wait fails and leaves the child.
KillRefused ==
  /\ pc = "killing" /\ Refused
  /\ pc' = "failed"
  /\ UNCHANGED <<end, orphans, tree, output, cancelled, expired>>

Join ==
  /\ pc = "reaping" /\ state[Child] = "gone"
  /\ pc' = "sweeping"
  /\ UNCHANGED <<end, orphans, tree, output, cancelled, expired>>

\* Mutant: the group of a child that ended by itself is left alone.
ProbeStoppedOnly ==
  /\ pc = "sweeping"
  /\ orphans' = (end # "exited" /\ Members # {} /\ ~Refused)
  /\ pc' = IF orphans' THEN "killing orphans" ELSE "finishing"
  /\ UNCHANGED <<end, tree, output, cancelled, expired>>

\* sweep_process_group: signal 0 finds zombies as well, and any error is
\* taken for an empty group, a refusal too.
Probe ==
  /\ pc = "sweeping"
  /\ orphans' = (Members # {} /\ ~Refused)
  /\ pc' = IF orphans' THEN "killing orphans" ELSE "finishing"
  /\ UNCHANGED <<end, tree, output, cancelled, expired>>

\* What the kill answers is not looked at.
Sweep ==
  /\ pc = "killing orphans"
  /\ KillGroup
  /\ pc' = "finishing"
  /\ UNCHANGED <<end, orphans, group, holds, immune, output, cancelled, expired>>

\* Pipes::finish joins the pumps, then the outcome is built.
Finish ==
  /\ pc = "finishing" /\ eof
  /\ pc' = "returned"
  /\ UNCHANGED <<end, orphans, tree, output, cancelled, expired>>

\* The run that awaits this call is dropped at one of its two awaits, by
\* Ctrl-C or by the panel's stop; the child is left as it is.
Dropped ==
  /\ pc \in {"waiting", "reaping"}
  /\ pc' = "dropped" /\ cancelled' = TRUE
  /\ UNCHANGED <<end, orphans, tree, output, expired>>

Proceed ==
  \/ \E why \in {"exited", "cancelled", "timed out"} : Select(why)
  \/ Kill \/ KillRefused \/ Join \/ Probe \/ Sweep \/ Finish

Next ==
  \/ \E p, q \in Proc : Fork(p, q)
  \/ \E p \in Proc : Leave(p) \/ Elevate(p) \/ CloseOutput(p) \/ Write(p) \/ Exit(p) \/ Reaped(p)
  \/ WaitTask \/ Cancel \/ Deadline \/ Pump
  \/ Proceed \/ Dropped

Spec == Init /\ [][Next]_vars

\* The executor, the timer, the kernel's wait and the pump threads go on;
\* no process of the tree is obliged to do anything.
FairSpec == Spec /\ WF_vars(Proceed) /\ WF_vars(Deadline) /\ WF_vars(WaitTask) /\ WF_vars(Pump)

-----------------------------------------------------------------------------

\* When an outcome is reported the child is reaped, nobody can still write to
\* its streams and every byte anybody wrote has been counted, however the wait
\* ended and whatever the tree did; and of its group only processes that may
\* not be signalled still run, which sweep_process_group takes for nobody.
NothingOutlivesOutcome ==
  pc = "returned" =>
    /\ state[Child] = "gone" /\ group \cap Running \subseteq immune
    /\ holds \cap Running = {} /\ total = written

\* The timeout bounds the call, children that never end by themselves
\* included: an outcome or an error is reported, unless a process no signal
\* of the call reaches stays in its way.  A call that is dropped reports
\* nothing and bounds nothing: it is set aside, not counted as an end.
TimeoutBindsCall ==
  []<>(Unreached = {}) /\ [](pc # "dropped") => <>(pc \in {"returned", "failed"})
=============================================================================
