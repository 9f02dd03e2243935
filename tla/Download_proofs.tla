--------------------------- MODULE Download_proofs ---------------------------
(***************************************************************************)
(* For every number of concurrent calls, destinations, bodies, chunk       *)
(* sizes, crashes and refused writes: the download budget binds the run,   *)
(* and every file is what the call that leaves it there takes it for.      *)
(***************************************************************************)
EXTENDS Download, SequenceTheorems, TLAPS

\* What is spent on the run's account is what its wallet holds, the journal
\* never holds more, and the wallet never goes beyond its limit.
WalletInv ==
  /\ consumed \in Nat /\ consumed <= Limit
  /\ journaled \in Nat /\ journaled <= consumed
  /\ spent = consumed

\* A claim within the limit keeps the wallet within it.
LEMMA ClaimedKeepsWallet ==
  ASSUME WalletInv, NEW n \in Nat, Fits(n), Claimed(n), journaled' = journaled
  PROVE WalletInv'
<1>1. consumed + n \in Nat /\ consumed + n <= Limit /\ journaled <= consumed + n
  BY BoundAssumption DEF WalletInv, Fits
<1> QED BY <1>1 DEF WalletInv, Claimed

\* A step that leaves wallet, level and account alone keeps the relation.
LEMMA UntouchedKeepsWallet ==
  ASSUME WalletInv, UNCHANGED <<consumed, journaled, spent>>
  PROVE WalletInv'
BY DEF WalletInv

\* Whatever one call does next, the wallet stays within its limit.
LEMMA AttemptKeepsWallet ==
  ASSUME WalletInv, NEW c \in Call, Attempt(c)
  PROVE WalletInv'
<1>1. CASE Refuse(c)
  BY <1>1, UntouchedKeepsWallet DEF Refuse, wallet, record, ghost
<1>2. CASE Resume(c)
  BY <1>2, UntouchedKeepsWallet DEF Resume, wallet, record, ghost
<1>3. CASE Fresh(c)
  BY <1>3, UntouchedKeepsWallet DEF Fresh, wallet, record, ghost
<1>4. CASE OpenFails(c)
  BY <1>4, UntouchedKeepsWallet DEF OpenFails, wallet, record, ghost
<1>5. ASSUME NEW n \in 1 .. MaxChunk, Chunk(c, n)
      PROVE WalletInv'
  <2>1. n \in Nat
    BY BodyAssumption
  <2> QED BY <1>5, <2>1, ClaimedKeepsWallet DEF Chunk
<1>6. ASSUME NEW n \in 1 .. MaxChunk, ChunkRefused(c, n)
      PROVE WalletInv'
  BY <1>6, UntouchedKeepsWallet DEF ChunkRefused, ghost
<1>7. CASE BodyFails(c)
  BY <1>7, UntouchedKeepsWallet DEF BodyFails, wallet, ghost
<1>8. CASE WriteFails(c)
  BY <1>8, ClaimedKeepsWallet DEF WriteFails
<1>9. CASE Promote(c)
  BY <1>9, UntouchedKeepsWallet DEF Promote, wallet, ghost
<1>10. CASE PromoteMissing(c)
  BY <1>10, UntouchedKeepsWallet DEF PromoteMissing, wallet, ghost
<1> QED BY <1>1, <1>2, <1>3, <1>4, <1>5, <1>6, <1>7, <1>8, <1>9, <1>10 DEF Attempt

\* A tick may raise the recorded level to what the wallet holds.
LEMMA TickKeepsWallet ==
  ASSUME WalletInv, Tick
  PROVE WalletInv'
BY DEF WalletInv, Tick, wallet, ghost

\* The next invocation's wallet starts from the recorded level, and what was
\* spent beyond it is off the account.
LEMMA RestartKeepsWallet ==
  ASSUME WalletInv, Restart
  PROVE WalletInv'
<1>1. consumed' = journaled /\ journaled' = journaled /\ spent' = spent - (consumed - journaled)
  BY DEF Restart, Carried
<1> QED BY <1>1, BoundAssumption DEF WalletInv

\* Every step keeps the wallet, the journal's level and the account together.
LEMMA StepKeepsWallet ==
  ASSUME WalletInv, [Next]_vars
  PROVE WalletInv'
<1>1. ASSUME NEW c \in Call, Attempt(c) PROVE WalletInv'
  BY <1>1, AttemptKeepsWallet
<1>2. ASSUME NEW c \in Call, NEW d \in Path, NEW u \in Url, Start(c, d, u) PROVE WalletInv'
  BY <1>2, UntouchedKeepsWallet DEF Start, wallet, record
<1>3. CASE Tick
  BY <1>3, TickKeepsWallet
<1>4. CASE Restart
  BY <1>4, RestartKeepsWallet
<1>5. ASSUME NEW d \in Path, Clobber(d) PROVE WalletInv'
  BY <1>5, UntouchedKeepsWallet DEF Clobber, wallet, record
<1>6. CASE UNCHANGED vars
  BY <1>6, UntouchedKeepsWallet DEF vars, wallet, record, ghost
<1> QED BY <1>1, <1>2, <1>3, <1>4, <1>5, <1>6 DEF Next

\* Over all its invocations a run fetches no more than its download budget,
\* but for what a crash kept out of its journal.
THEOREM Bounded == Spec => []BudgetBindsRun
<1>1. Init => WalletInv
  BY BoundAssumption DEF Init, WalletInv
<1>2. WalletInv /\ [Next]_vars => WalletInv'
  BY StepKeepsWallet
<1>3. WalletInv => BudgetBindsRun
  BY DEF WalletInv, BudgetBindsRun
<1> QED BY <1>1, <1>2, <1>3, PTL DEF Spec

-----------------------------------------------------------------------------
(* What lies on disk.  A path two calls worked on at once is out of account *)
(* (raced); of every other one the invariant says, stage by stage of the    *)
(* one call at work on it, what its three files hold.                       *)

Block == (Url \X Nat) \cup {Hole}
Prefix(u, n) == [i \in 1 .. n |-> <<u, i>>]
Starts(s, b) == Len(b) <= Len(s) /\ SubSeq(s, 1, Len(b)) = b

Session ==
  [at : {"idle", "requested", "streaming"}, path : Path \cup {Absent}, url : Url \cup {Absent},
   plan : Seq(Block) \cup {Absent}, file : {"part", "dest", "gone"}, append : BOOLEAN,
   hashed : Seq(Block)]

\* b is what the body of u begins with.
BodyPart(u, b) == u \in Url /\ Len(b) <= BodyLen[u] /\ b = Prefix(u, Len(b))

\* Session x has hashed a prefix of its body, and plans to go on from one.
CallOK(x) ==
  IF x.at = "idle" THEN x = Idle
  ELSE /\ x.path \in Path /\ BodyPart(x.url, x.hashed)
       /\ x.at = "requested" => x.file = "gone" /\ x.hashed = << >> /\ ~x.append
       /\ x.plan # Absent => BodyPart(x.url, x.plan)
       /\ x.at = "streaming" => x.plan = Absent
SidecarOK(m) == m # Absent => m.bytes \in Seq(Block) /\ BodyPart(m.url, m.bytes)

\* Every digest is one of a prefix of a body, of one resource.
DigestInv ==
  /\ call \in [Call -> Session]
  /\ dest = [d \in Path |-> dest[d]] /\ part = [d \in Path |-> part[d]]
  /\ sidecar = [d \in Path |-> sidecar[d]]
  /\ \A c \in Call : CallOK(call[c])
  /\ \A d \in Path : SidecarOK(sidecar[d])

\* Files q, p and m of path d at rest: a whole body or none, and a sidecar
\* that describes what the part begins with unless d is one of the changed K.
RestOK(d, q, p, m, K) ==
  /\ q = Absent \/ \E u \in Url : q = Body(u)
  /\ p = Absent \/ p \in Seq(Block)
  /\ d \notin K /\ m # Absent /\ p # Absent => Starts(p, m.bytes)

\* Part p and sidecar m under the hands of session x: a plan was read from the
\* files as they still are, and a stream has written just what it hashed.
HandOK(x, p, m) ==
  /\ x.at = "requested" /\ x.plan # Absent =>
       p # Absent /\ Starts(p, x.plan) /\ m # Absent /\ m.bytes = x.plan
  /\ x.at = "streaming" =>
       x.file = "part" /\ p = x.hashed /\ (m # Absent => Starts(p, m.bytes))

At(c, d) == call[c].at # "idle" /\ call[c].path = d
FileInv ==
  \A d \in Path \ raced :
    /\ RestOK(d, dest[d], part[d], sidecar[d], clobbered)
    /\ \A c \in Call : At(c, d) =>
         HandOK(call[c], part[d], sidecar[d]) /\ \A k \in Call : At(k, d) => k = c

\* A body prefix is a sequence of blocks, and ends at the whole body.
LEMMA PrefixFacts ==
  ASSUME NEW u \in Url, NEW n \in Nat
  PROVE  /\ Prefix(u, n) \in Seq(Block) /\ Len(Prefix(u, n)) = n
         /\ \A i \in 1 .. n : Prefix(u, n)[i] = <<u, i>>
         /\ n = BodyLen[u] => Prefix(u, n) = Body(u)
<1>1. \A i \in 1 .. n : <<u, i>> \in Block
  BY DEF Block
<1>2. Prefix(u, n) \in [1 .. n -> Block]
  BY <1>1 DEF Prefix
<1> QED BY <1>2 DEF Prefix, Body

\* Two pieces that are each right join to the longer prefix.
LEMMA PrefixJoins ==
  ASSUME NEW u \in Url, NEW t \in Nat, NEW n \in Nat,
         NEW s \in Seq(Block), Len(s) = t, \A i \in 1 .. t : s[i] = <<u, i>>,
         NEW fed \in Seq(Block), Len(fed) = n, \A i \in 1 .. n : fed[i] = <<u, t + i>>
  PROVE  s \o fed = Prefix(u, t + n)
<1>1. s \o fed \in Seq(Block) /\ Len(s \o fed) = t + n
  BY ConcatProperties
<1>2. \A i \in 1 .. t + n : (s \o fed)[i] = IF i <= t THEN s[i] ELSE fed[i - t]
  BY ConcatProperties, ZenonT(30)
<1>3. ASSUME NEW i \in 1 .. t + n PROVE (s \o fed)[i] = <<u, i>>
  <2>1. CASE i <= t
    BY <1>2, <2>1
  <2>2. CASE i > t
    <3>1. i - t \in 1 .. n /\ t + (i - t) = i
      BY <2>2
    <3> QED BY <1>2, <2>2, <3>1
  <2> QED BY <2>1, <2>2
<1>4. Prefix(u, t + n) \in Seq(Block) /\ Len(Prefix(u, t + n)) = t + n
      /\ \A i \in 1 .. t + n : Prefix(u, t + n)[i] = <<u, i>>
  BY PrefixFacts
<1>5. Len(s \o fed) = Len(Prefix(u, t + n))
  BY <1>1, <1>4
<1>6. \A i \in 1 .. Len(s \o fed) : (s \o fed)[i] = Prefix(u, t + n)[i]
  BY <1>1, <1>3, <1>4
<1> DEFINE one == s \o fed
           two == Prefix(u, t + n)
<1>7. one \in Seq(Block) /\ two \in Seq(Block) /\ Len(one) = Len(two)
      /\ \A i \in 1 .. Len(one) : one[i] = two[i]
  BY <1>1, <1>4, <1>5, <1>6
<1> HIDE DEF one, two
<1>8. one = two
  BY <1>7, SeqEqual
<1> QED BY <1>8 DEF one, two

\* Blocks written or fed right behind a prefix make the longer prefix.
LEMMA PrefixGrows ==
  ASSUME NEW u \in Url, NEW t \in Nat, NEW n \in Nat, t + n <= BodyLen[u]
  PROVE  /\ Write(Prefix(u, t), t, u, t, n) = Prefix(u, t + n)
         /\ Prefix(u, t) \o SubSeq(Body(u), t + 1, t + n) = Prefix(u, t + n)
<1>1. BodyLen[u] \in Nat
  BY BodyAssumption
<1>2. Len(Prefix(u, t)) = t /\ \A i \in 1 .. t : Prefix(u, t)[i] = <<u, i>>
  BY PrefixFacts
<1>3. Write(Prefix(u, t), t, u, t, n) = Prefix(u, t + n)
  <2>1. (IF t + n > Len(Prefix(u, t)) THEN t + n ELSE Len(Prefix(u, t))) = t + n
    BY <1>2
  <2>2. \A i \in 1 .. t + n :
          (IF i \in t + 1 .. t + n THEN <<u, t + i - t>>
           ELSE IF i <= Len(Prefix(u, t)) THEN Prefix(u, t)[i] ELSE Hole) = <<u, i>>
    BY <1>2
  <2> QED BY <2>1, <2>2 DEF Write, Prefix
<1>4. Prefix(u, t) \o SubSeq(Body(u), t + 1, t + n) = Prefix(u, t + n)
  <2>1. Body(u) = Prefix(u, BodyLen[u]) /\ Body(u) \in Seq(Block) /\ Len(Body(u)) = BodyLen[u]
    BY <1>1, PrefixFacts
  <2>2. \A i \in 1 .. BodyLen[u] : Body(u)[i] = <<u, i>>
    BY <1>1 DEF Body
  <2> DEFINE fed == SubSeq(Body(u), t + 1, t + n)
  <2>3. fed \in Seq(Block) /\ Len(fed) = n /\ \A i \in 1 .. n : fed[i] = <<u, t + i>>
    BY <1>1, <2>1, <2>2
  <2>4. Prefix(u, t) \in Seq(Block)
    BY PrefixFacts
  <2>5. Prefix(u, t) \o fed = Prefix(u, t + n)
    <3> HIDE DEF fed
    <3> DEFINE s == Prefix(u, t)
    <3>1. s \in Seq(Block) /\ Len(s) = t /\ \A i \in 1 .. t : s[i] = <<u, i>>
      BY <1>2, <2>4
    <3> HIDE DEF s
    <3>2. s \o fed = Prefix(u, t + n)
      BY <2>3, <3>1, PrefixJoins, ZenonT(30)
    <3> QED BY <3>2 DEF s
  <2> QED BY <2>5
<1> QED BY <1>3, <1>4

\* What begins a prefix begins every longer one.
LEMMA StartsGrows ==
  ASSUME NEW u \in Url, NEW t \in Nat, NEW n \in Nat, NEW b \in Seq(Block), Starts(Prefix(u, t), b)
  PROVE  Starts(Prefix(u, t + n), b)
<1>1. Len(Prefix(u, t)) = t /\ Prefix(u, t) \in Seq(Block)
  BY PrefixFacts
<1>2. Len(Prefix(u, t + n)) = t + n /\ Prefix(u, t + n) \in Seq(Block)
  BY PrefixFacts
<1>3. Len(b) \in Nat /\ Len(b) <= t
  BY <1>1 DEF Starts
<1>4. \A i \in 1 .. Len(b) : Prefix(u, t)[i] = <<u, i>> /\ Prefix(u, t + n)[i] = <<u, i>>
  BY <1>3 DEF Prefix
<1>5. SubSeq(Prefix(u, t), 1, Len(b)) = b
  BY DEF Starts
<1>6. \A i \in 1 .. Len(b) : b[i] = Prefix(u, t)[i]
  BY <1>1, <1>3, <1>5
<1>7. SubSeq(Prefix(u, t + n), 1, Len(b)) \in Seq(Block) /\ Len(SubSeq(Prefix(u, t + n), 1, Len(b))) = Len(b)
  BY <1>2, <1>3
<1>8. \A i \in 1 .. Len(b) : SubSeq(Prefix(u, t + n), 1, Len(b))[i] = Prefix(u, t + n)[i]
  BY <1>2, <1>3
<1>9. SubSeq(Prefix(u, t + n), 1, Len(b)) = b
  BY <1>4, <1>6, <1>7, <1>8, SeqEqual
<1> QED BY <1>2, <1>3, <1>9 DEF Starts

\* A part cut back to a plan it begins with is that plan.
LEMMA CutBack ==
  ASSUME NEW s \in Seq(Block), NEW b \in Seq(Block), Starts(s, b)
  PROVE  Resize(s, Len(b)) = b
<1>1. Len(b) \in Nat /\ Len(b) <= Len(s) /\ SubSeq(s, 1, Len(b)) = b
  BY DEF Starts
<1>2. \A i \in 1 .. Len(b) : b[i] = s[i]
  BY <1>1
<1>3. Resize(s, Len(b)) = [i \in 1 .. Len(b) |-> b[i]]
  BY <1>1, <1>2 DEF Resize
<1> QED BY <1>3

\* Every sequence begins with itself and with nothing.
LEMMA StartsItself ==
  ASSUME NEW s \in Seq(Block)
  PROVE  Starts(s, s) /\ Starts(s, << >>)
BY DEF Starts

-----------------------------------------------------------------------------

\* A call at rest is a session that satisfies the invariant.
LEMMA IdleFacts == Idle \in Session /\ CallOK(Idle) /\ Idle.at = "idle"
BY DEF Idle, Session, CallOK

\* A step of call c on path d: what it leaves at d decides, nothing else moved.
LEMMA Effect ==
  ASSUME DigestInv, FileInv, NEW c \in Call, NEW d \in Path, NEW q, NEW p, NEW m,
         call' \in [Call -> Session], \A k \in Call : CallOK(call'[k]),
         \A k \in Call \ {c} :
           call'[k] = call[k] \/ (call'[k].path = d /\ d \in raced'),
         call'[c].at = "idle" \/ call'[c].path = d,
         dest' = [dest EXCEPT ![d] = q], part' = [part EXCEPT ![d] = p],
         sidecar' = [sidecar EXCEPT ![d] = m], SidecarOK(m),
         raced \subseteq raced', UNCHANGED clobbered,
         d \notin raced' => /\ \A k \in Call : At(k, d) => k = c
                            /\ RestOK(d, q, p, m, clobbered)
                            /\ HandOK(call'[c], p, m)
  PROVE  DigestInv' /\ FileInv'
<1>1. /\ dest'[d] = q /\ part'[d] = p /\ sidecar'[d] = m
      /\ \A e \in Path \ {d} : dest'[e] = dest[e] /\ part'[e] = part[e] /\ sidecar'[e] = sidecar[e]
  BY DEF DigestInv
<1>2. /\ dest' = [e \in Path |-> dest'[e]] /\ part' = [e \in Path |-> part'[e]]
      /\ sidecar' = [e \in Path |-> sidecar'[e]]
  BY DEF DigestInv
<1>3. \A e \in Path : SidecarOK(sidecar'[e])
  BY <1>1 DEF DigestInv
<1>4. DigestInv'
  BY <1>2, <1>3 DEF DigestInv
<1>5. ASSUME NEW e \in Path, e \notin raced'
      PROVE  /\ RestOK(e, dest'[e], part'[e], sidecar'[e], clobbered')
             /\ \A k \in Call : call'[k].at # "idle" /\ call'[k].path = e =>
                  /\ HandOK(call'[k], part'[e], sidecar'[e])
                  /\ \A j \in Call : call'[j].at # "idle" /\ call'[j].path = e => j = k
  <2>1. CASE e = d
    <3>1. \A k \in Call : call'[k].at # "idle" /\ call'[k].path = d => k = c
      BY <1>5, <2>1 DEF At
    <3> QED BY <1>1, <1>5, <2>1, <3>1
  <2>2. CASE e # d
    <3>1. \A k \in Call : call'[k].at # "idle" /\ call'[k].path = e => call'[k] = call[k] /\ At(k, e)
      BY <1>5, <2>2 DEF At
    <3>2. e \in Path \ raced
      BY <1>5
    <3>3. /\ RestOK(e, dest[e], part[e], sidecar[e], clobbered)
          /\ \A k \in Call : At(k, e) =>
               HandOK(call[k], part[e], sidecar[e]) /\ \A j \in Call : At(j, e) => j = k
      BY <3>2 DEF FileInv
    <3> QED BY <1>1, <2>2, <3>1, <3>3
  <2> QED BY <2>1, <2>2
<1>6. FileInv'
  BY <1>5 DEF FileInv, At
<1> QED BY <1>4, <1>6

\* The same for a call that was at work on d already and goes on as x.
LEMMA GoesOn ==
  ASSUME DigestInv, FileInv, NEW c \in Call, NEW d, At(c, d), NEW q, NEW p, NEW m, NEW x \in Session,
         call' = [call EXCEPT ![c] = x], CallOK(x), x.at = "idle" \/ x.path = d,
         dest' = [dest EXCEPT ![d] = q], part' = [part EXCEPT ![d] = p],
         sidecar' = [sidecar EXCEPT ![d] = m], SidecarOK(m),
         UNCHANGED <<raced, clobbered>>,
         d \notin raced => RestOK(d, q, p, m, clobbered) /\ HandOK(x, p, m)
  PROVE  DigestInv' /\ FileInv'
<1>1. d \in Path
  BY DEF DigestInv, CallOK, At
<1>2. call' \in [Call -> Session] /\ call'[c] = x /\ \A k \in Call \ {c} : call'[k] = call[k]
  BY DEF DigestInv
<1>3. \A k \in Call : CallOK(call'[k])
  BY <1>2 DEF DigestInv
<1>4. d \notin raced => \A k \in Call : At(k, d) => k = c
  BY <1>1 DEF FileInv
<1> QED BY <1>1, <1>2, <1>3, <1>4, Effect

\* What stays is what it is set to.
LEMMA Stays ==
  ASSUME NEW f, f = [e \in Path |-> f[e]], NEW d \in Path
  PROVE  f = [f EXCEPT ![d] = f[d]]
OBVIOUS

\* What the invariant says of the call at work and its files.
LEMMA Stage ==
  ASSUME DigestInv, FileInv, NEW c \in Call, call[c].at # "idle"
  PROVE  LET d == call[c].path IN
         /\ d \in Path /\ call[c] \in Session /\ CallOK(call[c]) /\ At(c, d)
         /\ dest = [dest EXCEPT ![d] = dest[d]] /\ part = [part EXCEPT ![d] = part[d]]
         /\ sidecar = [sidecar EXCEPT ![d] = sidecar[d]] /\ SidecarOK(sidecar[d])
         /\ d \notin raced => /\ RestOK(d, dest[d], part[d], sidecar[d], clobbered)
                              /\ HandOK(call[c], part[d], sidecar[d])
<1>1. call[c].path \in Path /\ call[c] \in Session /\ CallOK(call[c]) /\ At(c, call[c].path)
  BY DEF DigestInv, CallOK, At
<1> QED BY <1>1, Stays DEF DigestInv, FileInv

-----------------------------------------------------------------------------

\* A call that returns without touching the part or the destination, its
\* sidecar as it was, zero, or its digest so far.
LEMMA Returns ==
  ASSUME DigestInv, FileInv, NEW c \in Call, call[c].at # "idle",
         call' = [call EXCEPT ![c] = Idle], UNCHANGED <<dest, part, raced, clobbered>>,
         \/ UNCHANGED sidecar
         \/ sidecar' = [sidecar EXCEPT ![call[c].path] = Zero(call[c].url)]
         \/ call[c].at = "streaming" /\ Persisted(c)
  PROVE  DigestInv' /\ FileInv'
<1> DEFINE d == call[c].path
<1>1. /\ d \in Path /\ call[c] \in Session /\ CallOK(call[c]) /\ At(c, d)
      /\ dest' = [dest EXCEPT ![d] = dest[d]] /\ part' = [part EXCEPT ![d] = part[d]]
      /\ sidecar = [sidecar EXCEPT ![d] = sidecar[d]] /\ SidecarOK(sidecar[d])
      /\ d \notin raced => /\ RestOK(d, dest[d], part[d], sidecar[d], clobbered)
                           /\ HandOK(call[c], part[d], sidecar[d])
  BY Stage
<1> HIDE DEF d
<1>2. ASSUME NEW m, sidecar' = [sidecar EXCEPT ![d] = m], SidecarOK(m),
             d \notin raced => RestOK(d, dest[d], part[d], m, clobbered)
      PROVE  DigestInv' /\ FileInv'
  BY <1>1, <1>2, IdleFacts, GoesOn, ZenonT(30) DEF HandOK
<1>3. CASE UNCHANGED sidecar
  BY <1>1, <1>2, <1>3
<1>4. CASE sidecar' = [sidecar EXCEPT ![d] = Zero(call[c].url)]
  <2>1. SidecarOK(Zero(call[c].url)) /\ Zero(call[c].url).bytes = << >>
    BY <1>1, BodyAssumption DEF SidecarOK, Zero, CallOK, BodyPart, Prefix
  <2>2. d \notin raced => RestOK(d, dest[d], part[d], Zero(call[c].url), clobbered)
    BY <1>1, <2>1, StartsItself DEF RestOK
  <2> QED BY <1>2, <1>4, <2>1, <2>2
<1>5. CASE call[c].at = "streaming" /\ Persisted(c)
  <2> DEFINE m == [url |-> call[c].url, bytes |-> call[c].hashed]
  <2>1. sidecar' = [sidecar EXCEPT ![d] = m]
    BY <1>5 DEF Persisted, d
  <2>2. SidecarOK(m) /\ m.bytes = call[c].hashed /\ call[c].hashed \in Seq(Block)
    BY <1>1, <1>5 DEF SidecarOK, CallOK, Session
  <2> HIDE DEF m
  <2>3. d \notin raced => RestOK(d, dest[d], part[d], m, clobbered)
    BY <1>1, <1>5, <2>2, StartsItself DEF RestOK, HandOK
  <2> QED BY <1>2, <2>1, <2>2, <2>3
<1> QED BY <1>3, <1>4, <1>5 DEF d

\* Starting a call: the plan it takes is what the files show, and a second call
\* on a path takes that path out of account.
LEMMA StartKeepsDisk ==
  ASSUME DigestInv, FileInv, NEW c \in Call, NEW d \in Path, NEW u \in Url, Start(c, d, u)
  PROVE  DigestInv' /\ FileInv'
<1> DEFINE asked == [Idle EXCEPT !.at = "requested", !.path = d, !.url = u]
           meta == sidecar[d]
<1>1. /\ call[c].at = "idle" /\ UNCHANGED <<dest, part, sidecar, clobbered>>
      /\ raced \subseteq raced'
      /\ d \notin raced' => \A k \in Call : ~At(k, d)
  BY DEF Start, disk, Working, At
<1>2. \/ call' = [call EXCEPT ![c] = asked]
      \/ /\ meta # Absent /\ meta.url = u /\ Verify(meta, part[d]) = "verified"
         /\ call' = [call EXCEPT ![c] = [asked EXCEPT !.plan = meta.bytes]]
      \/ UNCHANGED call
  BY DEF Start, Continue
<1>3. /\ dest' = [dest EXCEPT ![d] = dest[d]] /\ part' = [part EXCEPT ![d] = part[d]]
      /\ sidecar' = [sidecar EXCEPT ![d] = sidecar[d]] /\ SidecarOK(sidecar[d])
      /\ d \notin raced => RestOK(d, dest[d], part[d], sidecar[d], clobbered)
  BY <1>1, Stays DEF DigestInv, FileInv
<1>4. ASSUME NEW x \in Session, CallOK(x), x.path = d, HandOK(x, part[d], sidecar[d]),
             call' = [call EXCEPT ![c] = x]
      PROVE  DigestInv' /\ FileInv'
  <2>1. call' \in [Call -> Session] /\ call'[c] = x /\ \A k \in Call \ {c} : call'[k] = call[k]
    BY <1>4 DEF DigestInv
  <2>2. \A k \in Call : CallOK(call'[k])
    BY <1>4, <2>1 DEF DigestInv
  <2>3. d \notin raced' => /\ \A k \in Call : At(k, d) => k = c
                           /\ RestOK(d, dest[d], part[d], sidecar[d], clobbered)
                           /\ HandOK(call'[c], part[d], sidecar[d])
    BY <1>1, <1>3, <1>4, <2>1
  <2>4. call'[c].path = d /\ raced \subseteq raced' /\ UNCHANGED clobbered
    BY <1>1, <1>4, <2>1
  <2> QED BY ONLY DigestInv, FileInv, <1>3, <2>1, <2>2, <2>3, <2>4, Effect
<1>5. /\ asked \in Session /\ asked.at = "requested" /\ asked.path = d /\ asked.url = u
      /\ asked.plan = Absent /\ asked.file = "gone" /\ ~asked.append /\ asked.hashed = << >>
  <2>1. asked \in Session
    BY IdleFacts DEF Session
  <2>2. asked.at = "requested" /\ asked.path = d /\ asked.url = u
    BY IdleFacts DEF Session
  <2>3. asked.plan = Absent /\ asked.file = "gone" /\ ~asked.append /\ asked.hashed = << >>
    BY IdleFacts DEF Session, Idle
  <2> QED BY <2>1, <2>2, <2>3
<1>6. BodyPart(u, << >>)
  BY BodyAssumption DEF BodyPart, Prefix
<1> HIDE DEF asked
<1>7. CASE call' = [call EXCEPT ![c] = asked]
  <2>1. asked \in Session /\ CallOK(asked) /\ asked.path = d /\ HandOK(asked, part[d], sidecar[d])
    BY <1>5, <1>6 DEF Session, CallOK, HandOK
  <2> QED BY <1>4, <1>7, <2>1
<1>8. CASE /\ meta # Absent /\ meta.url = u /\ Verify(meta, part[d]) = "verified"
           /\ call' = [call EXCEPT ![c] = [asked EXCEPT !.plan = meta.bytes]]
  <2> DEFINE x == [asked EXCEPT !.plan = meta.bytes]
  <2>1. meta.bytes \in Seq(Block) /\ BodyPart(u, meta.bytes)
    BY <1>3, <1>8 DEF SidecarOK
  <2>2. /\ x \in Session /\ x.at = "requested" /\ x.path = d /\ x.url = u
        /\ x.plan = meta.bytes /\ x.file = "gone" /\ ~x.append /\ x.hashed = << >>
    BY <1>5, <2>1 DEF Session
  <2>3. part[d] # Absent /\ Len(part[d]) >= Len(meta.bytes) /\ SubSeq(part[d], 1, Len(meta.bytes)) = meta.bytes
    BY <1>8 DEF Verify
  <2> HIDE DEF x
  <2>4. x \in Session /\ CallOK(x) /\ x.path = d
    BY <1>6, <2>1, <2>2 DEF Session, CallOK
  <2>5. HandOK(x, part[d], sidecar[d])
    BY <1>8, <2>2, <2>3 DEF HandOK, Starts
  <2> QED BY <1>4, <1>8, <2>4, <2>5 DEF x
<1>9. CASE UNCHANGED call
  <2>1. DigestInv'
    BY <1>1, <1>9 DEF DigestInv
  <2>2. FileInv'
    BY <1>1, <1>9 DEF FileInv, At
  <2> QED BY <2>1, <2>2
<1> QED BY <1>2, <1>7, <1>8, <1>9

\* Going on from a plan: the part is cut back to exactly the planned prefix.
LEMMA ResumeKeepsDisk ==
  ASSUME DigestInv, FileInv, NEW c \in Call, Resume(c)
  PROVE  DigestInv' /\ FileInv'
<1> DEFINE d == call[c].path
           p == Resize(IF part[d] = Absent THEN << >> ELSE part[d], Len(call[c].plan))
           x == [call[c] EXCEPT !.at = "streaming", !.file = "part", !.append = TRUE,
                                !.hashed = call[c].plan, !.plan = Absent]
<1>1. /\ d \in Path /\ call[c] \in Session /\ CallOK(call[c]) /\ At(c, d)
      /\ dest = [dest EXCEPT ![d] = dest[d]]
      /\ sidecar = [sidecar EXCEPT ![d] = sidecar[d]] /\ SidecarOK(sidecar[d])
      /\ d \notin raced => /\ RestOK(d, dest[d], part[d], sidecar[d], clobbered)
                           /\ HandOK(call[c], part[d], sidecar[d])
  BY Stage DEF Resume
<1>2. /\ call[c].at = "requested" /\ call[c].plan # Absent
      /\ UNCHANGED <<dest, sidecar, raced, clobbered>> /\ call' = [call EXCEPT ![c] = x]
  BY DEF Resume, Continue, ghost
<1>3. part' = [part EXCEPT ![d] = p]
  BY DEF Resume, Reopen
<1>4. call[c].plan \in Seq(Block) /\ BodyPart(call[c].url, call[c].plan) /\ d \in Path
  BY <1>1, <1>2 DEF CallOK, Session
<1>5. /\ x \in Session /\ x.at = "streaming" /\ x.path = d /\ x.url = call[c].url
      /\ x.plan = Absent /\ x.file = "part" /\ x.hashed = call[c].plan
  BY <1>1, <1>4 DEF Session
<1>6. CallOK(x)
  BY <1>4, <1>5 DEF CallOK
<1>7. d \notin raced => p = call[c].plan /\ Starts(p, call[c].plan)
  BY <1>1, <1>2, <1>4, CutBack, StartsItself DEF RestOK, HandOK
<1>8. d \notin raced => RestOK(d, dest[d], p, sidecar[d], clobbered) /\ HandOK(x, p, sidecar[d])
  BY <1>1, <1>2, <1>4, <1>5, <1>7 DEF RestOK, HandOK
<1>9. dest' = [dest EXCEPT ![d] = dest[d]] /\ sidecar' = [sidecar EXCEPT ![d] = sidecar[d]]
  BY <1>1, <1>2
<1>10. /\ At(c, d) /\ x \in Session /\ call' = [call EXCEPT ![c] = x]
       /\ x.path = d /\ SidecarOK(sidecar[d]) /\ UNCHANGED <<raced, clobbered>>
  BY <1>1, <1>2, <1>5
<1> HIDE DEF d, p, x
<1> QED BY ONLY DigestInv, FileInv, <1>3, <1>6, <1>8, <1>9, <1>10, GoesOn

\* Starting over: an empty part beside a sidecar that says so.
LEMMA FreshKeepsDisk ==
  ASSUME DigestInv, FileInv, NEW c \in Call, Fresh(c)
  PROVE  DigestInv' /\ FileInv'
<1> DEFINE d == call[c].path
           m == Zero(call[c].url)
           x == [call[c] EXCEPT !.at = "streaming", !.file = "part", !.plan = Absent]
<1>1. /\ d \in Path /\ call[c] \in Session /\ CallOK(call[c]) /\ At(c, d)
      /\ dest = [dest EXCEPT ![d] = dest[d]]
      /\ d \notin raced => RestOK(d, dest[d], part[d], sidecar[d], clobbered)
  BY Stage DEF Fresh
<1>2. /\ call[c].at = "requested" /\ UNCHANGED <<dest, raced, clobbered>>
      /\ sidecar' = [sidecar EXCEPT ![d] = m] /\ part' = [part EXCEPT ![d] = << >>]
      /\ call' = [call EXCEPT ![c] = x]
  BY DEF Fresh, Continue, ghost
<1>3. call[c].hashed = << >> /\ BodyPart(call[c].url, << >>)
  BY <1>1, <1>2 DEF CallOK
<1>4. /\ x \in Session /\ x.at = "streaming" /\ x.path = d /\ x.url = call[c].url
      /\ x.plan = Absent /\ x.file = "part" /\ x.hashed = << >>
  BY <1>1, <1>3 DEF Session
<1>5. CallOK(x)
  BY <1>1, <1>3, <1>4 DEF CallOK
<1>6. SidecarOK(m) /\ m.bytes = << >>
  BY <1>3 DEF SidecarOK, Zero
<1>7. Starts(<< >>, << >>)
  BY DEF Starts
<1>8. d \notin raced => RestOK(d, dest[d], << >>, m, clobbered) /\ HandOK(x, << >>, m)
  BY <1>1, <1>4, <1>6, <1>7 DEF RestOK, HandOK
<1> HIDE DEF d, m, x
<1> QED BY <1>1, <1>2, <1>4, <1>5, <1>6, <1>8, GoesOn

\* What a write leaves of the files: on a path of its own, the next longer
\* prefix of the body.
LEMMA Stored ==
  ASSUME DigestInv, FileInv, NEW c \in Call, NEW n \in Nat, Delivered(c, n), Store(c, n)
  PROVE  \E q, p :
           /\ dest' = [dest EXCEPT ![call[c].path] = q] /\ part' = [part EXCEPT ![call[c].path] = p]
           /\ call[c].path \notin raced =>
                q = dest[call[c].path] /\ p = Prefix(call[c].url, Len(call[c].hashed) + n)
<1> DEFINE d == call[c].path
           t == Len(call[c].hashed)
           W(s) == Write(s, IF call[c].append THEN Len(s) ELSE t, call[c].url, t, n)
<1>1. /\ d \in Path /\ call[c] \in Session /\ CallOK(call[c])
      /\ dest = [dest EXCEPT ![d] = dest[d]] /\ part = [part EXCEPT ![d] = part[d]]
      /\ d \notin raced => HandOK(call[c], part[d], sidecar[d])
  BY Stage DEF Delivered
<1>2. /\ part' = IF call[c].file = "part" THEN [part EXCEPT ![d] = W(part[d])] ELSE part
      /\ dest' = IF call[c].file = "dest" THEN [dest EXCEPT ![d] = W(dest[d])] ELSE dest
  BY DEF Store, Total
<1>3. /\ call[c].at = "streaming" /\ t \in Nat /\ call[c].url \in Url
      /\ t + n <= BodyLen[call[c].url] /\ call[c].hashed = Prefix(call[c].url, t)
  BY <1>1 DEF Delivered, Total, CallOK, BodyPart, Session
<1>4. d \notin raced => call[c].file = "part" /\ W(part[d]) = Prefix(call[c].url, t + n)
  <2> SUFFICES ASSUME d \notin raced
               PROVE  call[c].file = "part" /\ W(part[d]) = Prefix(call[c].url, t + n)
    OBVIOUS
  <2>1. call[c].file = "part" /\ part[d] = Prefix(call[c].url, t) /\ Len(part[d]) = t
    BY <1>1, <1>3 DEF HandOK
  <2>2. W(part[d]) = Write(Prefix(call[c].url, t), t, call[c].url, t, n)
    BY <2>1
  <2> QED BY <1>3, <2>1, <2>2, PrefixGrows
<1>5. CASE call[c].file = "part"
  BY <1>1, <1>2, <1>4, <1>5
<1>6. CASE call[c].file = "dest"
  BY <1>1, <1>2, <1>4, <1>6
<1>7. CASE call[c].file = "gone"
  BY <1>1, <1>2, <1>4, <1>7
<1> QED BY <1>1, <1>5, <1>6, <1>7 DEF Session

\* A chunk is written behind what was hashed, and hashed too.
LEMMA ChunkKeepsDisk ==
  ASSUME DigestInv, FileInv, NEW c \in Call, NEW n \in Nat, Chunk(c, n)
  PROVE  DigestInv' /\ FileInv'
<1> DEFINE d == call[c].path
           u == call[c].url
           t == Len(call[c].hashed)
           h == call[c].hashed \o SubSeq(Body(u), t + 1, t + n)
           x == [call[c] EXCEPT !.hashed = h]
<1>1. /\ d \in Path /\ call[c] \in Session /\ CallOK(call[c]) /\ At(c, d)
      /\ sidecar = [sidecar EXCEPT ![d] = sidecar[d]] /\ SidecarOK(sidecar[d])
      /\ d \notin raced => /\ RestOK(d, dest[d], part[d], sidecar[d], clobbered)
                           /\ HandOK(call[c], part[d], sidecar[d])
  BY Stage DEF Chunk, Delivered
<1>2. call' = [call EXCEPT ![c] = x] /\ UNCHANGED <<sidecar, raced, clobbered>>
  BY DEF Chunk, Continue, Total
<1>3. /\ call[c].at = "streaming" /\ t \in Nat /\ u \in Url
      /\ t + n <= BodyLen[u] /\ call[c].hashed = Prefix(u, t) /\ call[c].plan = Absent
  BY <1>1 DEF Chunk, Delivered, Total, CallOK, BodyPart, Session
<1>4. h = Prefix(u, t + n) /\ h \in Seq(Block) /\ Len(h) = t + n
  <2>1. h = Prefix(u, t) \o SubSeq(Body(u), t + 1, t + n)
    BY <1>3
  <2>2. Prefix(u, t) \o SubSeq(Body(u), t + 1, t + n) = Prefix(u, t + n)
    BY <1>3, PrefixGrows
  <2>3. Prefix(u, t + n) \in Seq(Block) /\ Len(Prefix(u, t + n)) = t + n
    BY <1>3, PrefixFacts
  <2> QED BY <2>1, <2>2, <2>3
<1> HIDE DEF h
<1>5. /\ x \in Session /\ x.at = "streaming" /\ x.path = d /\ x.url = u /\ x.plan = Absent
      /\ x.file = call[c].file /\ x.hashed = h
  BY <1>1, <1>3, <1>4 DEF Session
<1>6. CallOK(x)
  BY <1>1, <1>3, <1>4, <1>5 DEF CallOK, BodyPart
<1>7. PICK q, p : /\ dest' = [dest EXCEPT ![d] = q] /\ part' = [part EXCEPT ![d] = p]
                  /\ d \notin raced => q = dest[d] /\ p = Prefix(u, t + n)
  BY Stored DEF Chunk
<1>8. d \notin raced => RestOK(d, q, p, sidecar[d], clobbered) /\ HandOK(x, p, sidecar[d])
  <2> SUFFICES ASSUME d \notin raced
               PROVE  RestOK(d, q, p, sidecar[d], clobbered) /\ HandOK(x, p, sidecar[d])
    OBVIOUS
  <2>1. sidecar[d] # Absent => Starts(p, sidecar[d].bytes)
    BY <1>1, <1>3, <1>7, StartsGrows DEF HandOK, SidecarOK
  <2> QED BY <1>1, <1>4, <1>5, <1>7, <2>1 DEF RestOK, HandOK
<1> HIDE DEF d, u, t, x
<1> QED BY <1>1, <1>2, <1>5, <1>6, <1>7, <1>8, GoesOn

\* A write that was refused half way leaves a part longer than any digest.
LEMMA WriteFailsKeepsDisk ==
  ASSUME DigestInv, FileInv, NEW c \in Call, WriteFails(c)
  PROVE  DigestInv' /\ FileInv'
<1> DEFINE d == call[c].path
           u == call[c].url
           t == Len(call[c].hashed)
<1>1. /\ d \in Path /\ call[c] \in Session /\ CallOK(call[c]) /\ At(c, d)
      /\ sidecar = [sidecar EXCEPT ![d] = sidecar[d]] /\ SidecarOK(sidecar[d])
      /\ d \notin raced => /\ RestOK(d, dest[d], part[d], sidecar[d], clobbered)
                           /\ HandOK(call[c], part[d], sidecar[d])
  BY Stage DEF WriteFails, Delivered
<1>2. call' = [call EXCEPT ![c] = Idle] /\ UNCHANGED <<raced, clobbered>>
      /\ (Persisted(c) \/ UNCHANGED sidecar)
  BY DEF WriteFails, Return
<1>3. /\ call[c].at = "streaming" /\ t \in Nat /\ u \in Url /\ call[c].hashed = Prefix(u, t)
      /\ call[c].hashed \in Seq(Block) /\ BodyPart(u, call[c].hashed)
  BY <1>1 DEF WriteFails, Delivered, CallOK, BodyPart, Session
<1>4. PICK q, p : /\ dest' = [dest EXCEPT ![d] = q] /\ part' = [part EXCEPT ![d] = p]
                  /\ d \notin raced => q = dest[d] /\ p = Prefix(u, t + 1)
  BY Stored DEF WriteFails
<1>5. Prefix(u, t + 1) \in Seq(Block)
  BY <1>3, PrefixFacts
<1>6. ASSUME NEW m, sidecar' = [sidecar EXCEPT ![d] = m], SidecarOK(m),
             d \notin raced /\ m # Absent => Starts(Prefix(u, t), m.bytes)
      PROVE  DigestInv' /\ FileInv'
  <2>1. d \notin raced /\ m # Absent => Starts(p, m.bytes)
    BY <1>3, <1>4, <1>6, StartsGrows DEF SidecarOK
  <2>2. d \notin raced => RestOK(d, q, p, m, clobbered) /\ HandOK(Idle, p, m)
    BY <1>1, <1>4, <1>5, <2>1, IdleFacts DEF RestOK, HandOK
  <2> HIDE DEF d, u, t
  <2> QED BY <1>1, <1>2, <1>4, <1>6, <2>2, IdleFacts, GoesOn
<1>7. CASE UNCHANGED sidecar
  BY <1>1, <1>3, <1>6, <1>7 DEF HandOK
<1>8. CASE Persisted(c)
  <2> DEFINE m == [url |-> u, bytes |-> call[c].hashed]
  <2>1. sidecar' = [sidecar EXCEPT ![d] = m]
    BY <1>8 DEF Persisted
  <2>2. SidecarOK(m) /\ m.bytes = call[c].hashed
    BY <1>3 DEF SidecarOK
  <2>3. Starts(Prefix(u, t), m.bytes)
    BY <1>3, <2>2, StartsItself
  <2> HIDE DEF m
  <2> QED BY <1>6, <2>1, <2>2, <2>3
<1> QED BY <1>2, <1>7, <1>8

\* A promotion makes the destination what was hashed, a whole body, and the
\* part go away; another call's open file on that path goes along.
LEMMA PromoteKeepsDisk ==
  ASSUME DigestInv, FileInv, NEW c \in Call, Promote(c)
  PROVE  /\ DigestInv' /\ FileInv'
         /\ call[c].path \notin raced => dest'[call[c].path] = call[c].hashed
<1> DEFINE d == call[c].path
<1>1. /\ d \in Path /\ call[c] \in Session /\ CallOK(call[c]) /\ At(c, d)
      /\ sidecar = [sidecar EXCEPT ![d] = sidecar[d]] /\ SidecarOK(sidecar[d])
      /\ d \notin raced => /\ RestOK(d, dest[d], part[d], sidecar[d], clobbered)
                           /\ HandOK(call[c], part[d], sidecar[d])
  BY Stage DEF Promote
<1>2. /\ call[c].at = "streaming" /\ Len(call[c].hashed) = BodyLen[call[c].url]
      /\ call' = [k \in Call |-> IF k = c THEN Idle ELSE Renamed(k, d)]
      /\ dest' = [dest EXCEPT ![d] = part[d]] /\ part' = [part EXCEPT ![d] = Absent]
      /\ UNCHANGED <<raced, clobbered>>
  BY DEF Promote, AtEnd, Total, Promoted, ghost
<1>3. PICK m : sidecar' = [sidecar EXCEPT ![d] = m] /\ m \in {Absent, sidecar[d]}
  BY <1>1 DEF Promote
<1>4. call[c].url \in Url /\ call[c].hashed = Body(call[c].url)
  BY <1>1, <1>2, BodyAssumption DEF CallOK, BodyPart, Prefix, Body
<1>5. d \notin raced => part[d] = call[c].hashed
  BY <1>1, <1>2 DEF HandOK
<1>6. ASSUME NEW k \in Call
      PROVE  /\ call'[k] \in Session /\ CallOK(call'[k])
             /\ k # c /\ call[k].path # d => call'[k] = call[k]
             /\ k # c /\ call[k].at # "idle" => call'[k].path = call[k].path
             /\ k # c /\ call[k].at = "idle" => call'[k] = call[k]
             /\ k = c => call'[k] = Idle
  <2>1. call[k] \in Session /\ CallOK(call[k])
    BY DEF DigestInv
  <2>2. CASE k = c
    BY <1>2, <2>2, IdleFacts
  <2>3. CASE k # c /\ call[k].path # d
    BY <1>2, <2>1, <2>3 DEF Renamed
  <2>4. CASE k # c /\ call[k].path = d
    <3> DEFINE f == IF call[k].file = "part" THEN "dest" ELSE "gone"
               x == [call[k] EXCEPT !.file = f]
    <3>1. call'[k] = x
      BY <1>2, <2>4 DEF Renamed
    <3>2. /\ x \in Session /\ x.at = call[k].at /\ x.path = call[k].path /\ x.url = call[k].url
          /\ x.plan = call[k].plan /\ x.file = f /\ x.append = call[k].append
          /\ x.hashed = call[k].hashed
      BY <2>1 DEF Session
    <3>3. CASE call[k].at = "idle"
      <4>1. call[k] = Idle /\ Idle.file = "gone"
        BY <2>1, <3>3 DEF CallOK, Idle
      <4>2. x = Idle
        BY <4>1, IdleFacts DEF Session
      <4> QED BY <2>4, <3>1, <3>3, <4>1, <4>2, IdleFacts
    <3>4. CASE call[k].at # "idle"
      <4>1. CallOK(x)
        <5>1. call[k].at = "requested" => f = "gone"
          BY <2>1, <3>4 DEF CallOK
        <5> HIDE DEF x, f
        <5> QED BY <2>1, <3>2, <3>4, <5>1 DEF CallOK
      <4> QED BY <2>4, <3>1, <3>2, <3>4, <4>1
    <3> QED BY <3>3, <3>4
  <2> QED BY <2>2, <2>3, <2>4
<1>7. call' \in [Call -> Session] /\ \A k \in Call : CallOK(call'[k])
  BY <1>2, <1>6
<1>8. d \notin raced => \A k \in Call : At(k, d) => k = c
  BY <1>1 DEF FileInv
<1>9. \A k \in Call \ {c} : call'[k] = call[k] \/ (call'[k].path = d /\ d \in raced')
  <2> SUFFICES ASSUME NEW k \in Call \ {c}, call[k].path = d, call[k].at # "idle"
               PROVE  call'[k].path = d /\ d \in raced'
    BY <1>6
  <2> QED BY <1>2, <1>6, <1>8 DEF At
<1>10. call'[c].at = "idle" /\ raced \subseteq raced' /\ UNCHANGED clobbered
  BY <1>2, <1>6, IdleFacts
<1>11. SidecarOK(m)
  BY <1>1, <1>3 DEF SidecarOK
<1>12. d \notin raced' => /\ \A k \in Call : At(k, d) => k = c
                          /\ RestOK(d, part[d], Absent, m, clobbered)
                          /\ HandOK(call'[c], Absent, m)
  BY <1>2, <1>4, <1>5, <1>8, <1>10 DEF RestOK, HandOK
<1>13. DigestInv' /\ FileInv'
  BY ONLY DigestInv, FileInv, <1>1, <1>2, <1>3, <1>7, <1>9, <1>10, <1>11, <1>12, Effect
<1>14. d \notin raced => dest'[d] = call[c].hashed
  BY <1>1, <1>2, <1>5 DEF DigestInv
<1> QED BY <1>13, <1>14

\* A crash between two awaits, or between the two writes of one, leaves every
\* path that was not raced at rest.
LEMMA RestartKeepsDisk ==
  ASSUME DigestInv, FileInv, Restart
  PROVE  DigestInv' /\ FileInv'
<1>1. call' = [c \in Call |-> Idle] /\ UNCHANGED <<raced, clobbered>> /\ HalfDone
  BY DEF Restart
<1>2. ASSUME /\ dest' = [d \in Path |-> dest'[d]] /\ part' = [d \in Path |-> part'[d]]
             /\ sidecar' = [d \in Path |-> sidecar'[d]],
             \A d \in Path : SidecarOK(sidecar'[d]),
             \A d \in Path \ raced : RestOK(d, dest'[d], part'[d], sidecar'[d], clobbered)
      PROVE  DigestInv' /\ FileInv'
  <2>1. \A c \in Call : call'[c] = Idle /\ call'[c].at = "idle"
    BY <1>1, IdleFacts
  <2>2. DigestInv'
    BY <1>1, <1>2, <2>1, IdleFacts DEF DigestInv
  <2>3. FileInv'
    BY <1>1, <1>2, <2>1 DEF FileInv, At
  <2> QED BY <2>2, <2>3
<1>3. CASE UNCHANGED disk
  <2>1. UNCHANGED <<dest, part, sidecar>>
    BY <1>3 DEF disk
  <2> QED BY <1>2, <2>1 DEF DigestInv, FileInv
<1>4. ASSUME NEW c \in Call, call[c].at = "requested",
             sidecar' = [sidecar EXCEPT ![call[c].path] = Zero(call[c].url)],
             UNCHANGED <<dest, part>>
      PROVE  DigestInv' /\ FileInv'
  <2> DEFINE e == call[c].path
             m == Zero(call[c].url)
  <2>1. CallOK(call[c]) /\ e \in Path
    BY <1>4, Stage
  <2>2. SidecarOK(m) /\ m.bytes = << >>
    BY <1>4, <2>1 DEF SidecarOK, Zero, CallOK
  <2> HIDE DEF e, m
  <2>3. sidecar'[e] = m /\ \A d \in Path \ {e} : sidecar'[d] = sidecar[d]
    BY <1>4, <2>1 DEF DigestInv, e, m
  <2>4. /\ dest' = [d \in Path |-> dest'[d]] /\ part' = [d \in Path |-> part'[d]]
        /\ sidecar' = [d \in Path |-> sidecar'[d]]
    BY <1>4 DEF DigestInv
  <2>5. \A d \in Path : SidecarOK(sidecar'[d])
    BY <2>2, <2>3 DEF DigestInv
  <2>6. ASSUME NEW d \in Path \ raced
        PROVE  RestOK(d, dest'[d], part'[d], sidecar'[d], clobbered)
    <3>1. RestOK(d, dest[d], part[d], sidecar[d], clobbered)
      BY DEF FileInv
    <3>2. CASE d = e
      BY <1>4, <2>2, <2>3, <3>1, <3>2, StartsItself DEF RestOK
    <3>3. CASE d # e
      BY <1>4, <2>3, <3>1, <3>3
    <3> QED BY <3>2, <3>3
  <2> QED BY <1>2, <2>4, <2>5, <2>6
<1>5. ASSUME NEW c \in Call, call[c].at = "streaming", AtEnd(c), Promoted(call[c].path),
             UNCHANGED sidecar
      PROVE  DigestInv' /\ FileInv'
  <2> DEFINE e == call[c].path
  <2>1. CallOK(call[c]) /\ e \in Path /\ (e \notin raced => HandOK(call[c], part[e], sidecar[e]))
    BY <1>5, Stage
  <2>2. call[c].url \in Url /\ call[c].hashed = Body(call[c].url)
    BY <1>5, <2>1, BodyAssumption DEF CallOK, BodyPart, Prefix, Body, AtEnd, Total
  <2> HIDE DEF e
  <2>3. /\ dest'[e] = part[e] /\ part'[e] = Absent
        /\ \A d \in Path \ {e} : dest'[d] = dest[d] /\ part'[d] = part[d]
    BY <1>5, <2>1 DEF DigestInv, Promoted, e
  <2>4. /\ dest' = [d \in Path |-> dest'[d]] /\ part' = [d \in Path |-> part'[d]]
        /\ sidecar' = [d \in Path |-> sidecar'[d]]
    BY <1>5 DEF DigestInv, Promoted
  <2>5. \A d \in Path : SidecarOK(sidecar'[d])
    BY <1>5 DEF DigestInv
  <2>6. ASSUME NEW d \in Path \ raced
        PROVE  RestOK(d, dest'[d], part'[d], sidecar'[d], clobbered)
    <3>1. RestOK(d, dest[d], part[d], sidecar[d], clobbered)
      BY DEF FileInv
    <3>2. CASE d = e
      BY <1>5, <2>1, <2>2, <2>3, <3>2 DEF RestOK, HandOK
    <3>3. CASE d # e
      BY <1>5, <2>3, <3>1, <3>3
    <3> QED BY <3>2, <3>3
  <2> QED BY <1>2, <2>4, <2>5, <2>6
<1> QED BY <1>1, <1>3, <1>4, <1>5 DEF HalfDone

\* A part changed between two turns is one nobody is at work on.
LEMMA ClobberKeepsDisk ==
  ASSUME DigestInv, FileInv, NEW e \in Path, Clobber(e)
  PROVE  DigestInv' /\ FileInv'
<1>1. /\ \A c \in Call : call[c].at = "idle"
      /\ part[e] # Absent /\ part[e] # << >> /\ clobbered' = clobbered \cup {e}
      /\ UNCHANGED <<dest, sidecar, call, raced>>
  BY DEF Clobber, Working
<1>2. PICK p : p \in {<< >>, [part[e] EXCEPT ![1] = Hole]} /\ part' = [part EXCEPT ![e] = p]
  BY DEF Clobber
<1>3. part'[e] = p /\ \A d \in Path \ {e} : part'[d] = part[d]
  BY <1>2 DEF DigestInv
<1>4. DigestInv'
  BY <1>1, <1>2 DEF DigestInv
<1>5. ASSUME NEW d \in Path \ raced
      PROVE  RestOK(d, dest[d], part'[d], sidecar[d], clobbered')
  <2>1. RestOK(d, dest[d], part[d], sidecar[d], clobbered)
    BY DEF FileInv
  <2>2. CASE d = e
    <3>1. part[e] \in Seq(Block)
      BY <1>1, <2>1, <2>2 DEF RestOK
    <3>2. 1 \in 1 .. Len(part[e])
      BY <1>1, <3>1, EmptySeq
    <3>3. Hole \in Block
      BY DEF Block
    <3>4. [part[e] EXCEPT ![1] = Hole] \in Seq(Block)
      BY <3>1, <3>2, <3>3, ExceptSeq
    <3>5. p \in Seq(Block)
      BY <1>2, <3>4, EmptySeq
    <3>6. d \in clobbered' /\ part'[d] = p
      BY <1>1, <1>3, <2>2
    <3> QED BY <2>1, <3>5, <3>6 DEF RestOK
  <2>3. CASE d # e
    BY <1>1, <1>3, <2>1, <2>3 DEF RestOK
  <2> QED BY <2>2, <2>3
<1>6. FileInv'
  BY <1>1, <1>5 DEF FileInv, At
<1> QED BY <1>4, <1>6

\* Every step keeps the digests those of body prefixes and the files what the
\* one call at work on them takes them for.
LEMMA StepKeepsDisk ==
  ASSUME DigestInv, FileInv, [Next]_vars
  PROVE  DigestInv' /\ FileInv'
<1>1. ASSUME NEW c \in Call, Attempt(c) PROVE DigestInv' /\ FileInv'
  <2>1. CASE Refuse(c)
    BY <2>1, Returns DEF Refuse, Return, disk, ghost
  <2>2. CASE Resume(c)
    BY <2>2, ResumeKeepsDisk
  <2>3. CASE Fresh(c)
    BY <2>3, FreshKeepsDisk
  <2>4. CASE OpenFails(c)
    BY <2>4, Returns DEF OpenFails, Return, ghost
  <2>5. ASSUME NEW n \in 1 .. MaxChunk, Chunk(c, n) PROVE DigestInv' /\ FileInv'
    <3>1. n \in Nat
      BY BodyAssumption
    <3> QED BY <2>5, <3>1, ChunkKeepsDisk
  <2>6. ASSUME NEW n \in 1 .. MaxChunk, ChunkRefused(c, n) PROVE DigestInv' /\ FileInv'
    <3>1. call[c].at = "streaming" /\ (Persisted(c) \/ UNCHANGED sidecar)
          /\ UNCHANGED <<dest, part, raced, clobbered>> /\ call' = [call EXCEPT ![c] = Idle]
      BY <2>6 DEF ChunkRefused, Delivered, Persist, Return, ghost
    <3> QED BY <3>1, Returns
  <2>7. CASE BodyFails(c)
    BY <2>7, Returns DEF BodyFails, Persist, Return, ghost
  <2>8. CASE WriteFails(c)
    BY <2>8, WriteFailsKeepsDisk
  <2>9. CASE Promote(c)
    BY <2>9, PromoteKeepsDisk
  <2>10. CASE PromoteMissing(c)
    BY <2>10, Returns DEF PromoteMissing, Return, disk, ghost
  <2> QED BY <1>1, <2>1, <2>2, <2>3, <2>4, <2>5, <2>6, <2>7, <2>8, <2>9, <2>10 DEF Attempt
<1>2. ASSUME NEW c \in Call, NEW d \in Path, NEW u \in Url, Start(c, d, u)
      PROVE  DigestInv' /\ FileInv'
  BY <1>2, StartKeepsDisk
<1>3. CASE Tick \/ UNCHANGED vars
  <2>1. UNCHANGED <<dest, part, sidecar, call, raced, clobbered>>
    BY <1>3 DEF Tick, vars, disk, ghost
  <2> QED BY <2>1 DEF DigestInv, FileInv, At
<1>4. CASE Restart
  BY <1>4, RestartKeepsDisk
<1>5. ASSUME NEW d \in Path, Clobber(d) PROVE DigestInv' /\ FileInv'
  BY <1>5, ClobberKeepsDisk
<1> QED BY <1>1, <1>2, <1>3, <1>4, <1>5 DEF Next

\* An empty workspace satisfies the invariant.
LEMMA InitDisk == Init => DigestInv /\ FileInv
<1> SUFFICES ASSUME Init PROVE DigestInv /\ FileInv
  OBVIOUS
<1>1. /\ \A d \in Path : dest[d] = Absent /\ part[d] = Absent /\ sidecar[d] = Absent
      /\ \A c \in Call : call[c] = Idle /\ call[c].at = "idle"
  BY IdleFacts DEF Init
<1>2. DigestInv
  BY <1>1, IdleFacts DEF Init, DigestInv, SidecarOK
<1>3. FileInv
  BY <1>1 DEF FileInv, RestOK, At
<1> QED BY <1>2, <1>3

\* Digests and files agree in every state.
LEMMA Disk == Spec => [](DigestInv /\ FileInv)
BY InitDisk, StepKeepsDisk, PTL DEF Spec

-----------------------------------------------------------------------------

\* A destination no two calls raced for is absent or one whole body, whatever
\* was refused, cut off, resumed, crashed or changed behind the tool's back.
THEOREM WholeDestination == Spec => []DestinationIsWhole
<1>1. FileInv => DestinationIsWhole
  BY DEF FileInv, RestOK, DestinationIsWhole
<1> QED BY <1>1, Disk, PTL

\* A sidecar beside an unraced, unchanged part always verifies: what a resume
\* takes up is never refused nor wrong.
THEOREM SafeSidecar == Spec => []SidecarIsSafe
<1>1. DigestInv /\ FileInv => SidecarIsSafe
  <2> SUFFICES ASSUME DigestInv, FileInv, NEW d \in Path \ (raced \cup clobbered),
                      sidecar[d] # Absent, part[d] # Absent
               PROVE  Verify(sidecar[d], part[d]) = "verified"
    BY DEF SidecarIsSafe
  <2>1. Starts(part[d], sidecar[d].bytes) /\ part[d] \in Seq(Block)
    BY DEF FileInv, RestOK
  <2>2. sidecar[d].bytes \in Seq(Block)
    BY DEF DigestInv, SidecarOK
  <2>3. ~(Len(part[d]) < Len(sidecar[d].bytes))
    BY <2>1, <2>2 DEF Starts
  <2> QED BY <2>1, <2>3 DEF Starts, Verify
<1> QED BY <1>1, Disk, PTL

\* A call that reports success reports the digest of what its destination
\* holds: the promotion moves the very bytes that were hashed.
THEOREM TrueCompletion == Spec => []CompletionIsTrue
<1>1. Init => CompletionIsTrue
  BY DEF Init, CompletionIsTrue, ReportIsOf
<1>2. DigestInv /\ FileInv /\ CompletionIsTrue /\ [Next]_vars => CompletionIsTrue'
  <2> SUFFICES ASSUME DigestInv, FileInv, CompletionIsTrue, [Next]_vars PROVE CompletionIsTrue'
    OBVIOUS
  <2>1. ASSUME report' = Absent \/ report'.is # "done" PROVE CompletionIsTrue'
    BY <2>1 DEF CompletionIsTrue, ReportIsOf
  <2>2. ASSUME NEW c \in Call, Attempt(c), ~Promote(c) PROVE report' = Absent \/ report'.is # "done"
    BY <2>2 DEF Attempt, Refuse, Resume, Fresh, OpenFails, Chunk, ChunkRefused, BodyFails,
                WriteFails, PromoteMissing, Continue, Return
  <2>3. ASSUME NEW c \in Call, Promote(c) PROVE CompletionIsTrue'
    <3>1. call[c].path \notin raced => dest'[call[c].path] = call[c].hashed
      BY <2>3, PromoteKeepsDisk
    <3>2. raced' = raced /\ report'.path = call[c].path /\ report'.digest = call[c].hashed
      BY <2>3 DEF Promote, ghost
    <3> QED BY <3>1, <3>2 DEF CompletionIsTrue, ReportIsOf
  <2>4. ASSUME NEW c \in Call, NEW d \in Path, NEW u \in Url, Start(c, d, u)
        PROVE  report' = Absent \/ report'.is # "done"
    BY <2>4 DEF Start, Continue
  <2>5. CASE Tick \/ Restart \/ \E d \in Path : Clobber(d)
    BY <2>1, <2>5 DEF Tick, Restart, Clobber
  <2>6. CASE UNCHANGED vars
    BY <2>6 DEF vars, disk, ghost, CompletionIsTrue, ReportIsOf
  <2> QED BY <2>1, <2>2, <2>3, <2>4, <2>5, <2>6 DEF Next
<1> QED BY <1>1, <1>2, Disk, PTL DEF Spec
=============================================================================
