------------------------ MODULE GameAndMerkleProofs -------------------------
(***************************************************************************)
(* Proofs about GameLoop, for every contract, set of entities and          *)
(* deadline: what a run removes, what a game system scheduled after the    *)
(* deadline system finds, and that the app is whole when the systems run,  *)
(* however its plugins add each other, and that each step of an invocation *)
(* brings it nearer to its end.                                            *)
(*                                                                         *)
(* Proofs about MerkleTrees, for every set of values, set of keys, depth   *)
(* and number of insertions: whose proofs the verifiers accept, what a     *)
(* root and a proof bind, and what insertions make of the sparse tree.     *)
(*                                                                         *)
(* Both rest on induction over numbers, which comes first.                 *)
(***************************************************************************)
EXTENDS GameLoop, MerkleTrees, FiniteSetTheorems, SequenceTheorems,
        WellFoundedInduction, TLAPS

-----------------------------------------------------------------------------
(* Induction *)

\* Every set of numbers that is not empty has a least member.
LEMMA LeastNumber ==
    ASSUME NEW S, S \subseteq Nat, S # {}
    PROVE  \E n \in S : \A m \in S : n =< m
<1> DEFINE less == OpToRel(<, Nat)
<1>1. PICK n \in S : \A m \in S : <<m, n>> \notin less
  BY NatLessThanWellFounded, WFMin, Zenon
<1>2. ASSUME NEW m \in S
      PROVE  n =< m
  <2>1. m \in Nat /\ n \in Nat
    BY <1>2
  <2>2. m < n => <<m, n>> \in less
    BY <2>1 DEF OpToRel
  <2>3. ~ (m < n)
    BY <1>1, <1>2, <2>2, Zenon
  <2> QED
    BY <2>1, <2>3
<1> QED
  BY <1>2

\* A set that contains 0 and with a number its successor contains all numbers.
LEMMA NumberInduction ==
    ASSUME NEW S, 0 \in S, \A n \in Nat : n \in S => n + 1 \in S
    PROVE  \A n \in Nat : n \in S
<1> DEFINE T == Nat \ S
<1> SUFFICES ASSUME T # {} PROVE FALSE
  OBVIOUS
<1>1. PICK n \in T : \A m \in T : n =< m
  BY LeastNumber
<1>2. n - 1 \in Nat /\ n - 1 + 1 = n /\ ~(n =< n - 1)
  OBVIOUS
<1> QED
  BY <1>1, <1>2

-----------------------------------------------------------------------------
(* The world of GameLoop *)

WorldTypes ==
    /\ commits \in [EntityId -> Commitments \cup {None}]
    /\ markers \in [EntityId -> (0..MaxTime) \cup {None}]
    /\ now \in 0..MaxTime

\* A marker tells when the proof was last verified.
MarkersTell == verified = markers

\* The loop over the systems starts anew with every run.
RunStartsAtOne ==
    /\ position \in Nat \ {0}
    /\ phase # "running" => position = 1

LoopInv == WorldTypes /\ MarkersTell /\ RunStartsAtOne /\ GameFindsNoOverdue

-----------------------------------------------------------------------------
(* What changes the world *)

\* The calls and systems that change the world, and the steps that do not.
LEMMA WorldCases ==
    ASSUME [Next]_vars
    PROVE  \/ SweepCommitments /\ UNCHANGED now
           \/ CleanupVerified /\ UNCHANGED now
           \/ (\E e \in EntityId, d \in Deadline : Commit(e, d)) /\ UNCHANGED now
           \/ (\E e \in EntityId : Reveal(e)) /\ UNCHANGED now
           \/ GameActs /\ (\E e \in EntityId : Discard(e)) /\ UNCHANGED now
           \/ (\E e \in EntityId : SubmitProof(e)) /\ UNCHANGED now
           \/ UNCHANGED world /\ now < MaxTime /\ now' = now + 1
           \/ UNCHANGED world /\ UNCHANGED now
<1>1. CASE RunSystem
  BY <1>1 DEF RunSystem, GameSystem, GameActs
<1>2. CASE StartInvocation \/ BuildStep \/ BuildReturn \/ EndInvocation \/ UNCHANGED vars
  BY <1>2 DEF StartInvocation, BuildStep, BuildReturn, EndInvocation, vars
<1>3. CASE \E e \in EntityId, d \in Deadline : Call(Commit(e, d))
  BY <1>3 DEF Call
<1>4. CASE \E e \in EntityId : Call(Reveal(e))
  BY <1>4 DEF Call
<1>5. CASE \E e \in EntityId : Call(SubmitProof(e))
  BY <1>5 DEF Call
<1>6. CASE Tick
  BY <1>6 DEF Tick
<1>7. CASE \E e \in EntityId : Call(Discard(e))
  BY <1>7 DEF Call, GameActs
<1> QED
  BY <1>1, <1>2, <1>3, <1>4, <1>5, <1>6, <1>7 DEF Next

\* A new commitment and a revealed one are commitments.
LEMMA CommitmentTypes ==
    /\ \A d \in Deadline : [deadline |-> d, revealed |-> FALSE] \in Commitments
    /\ \A c \in Commitments : [c EXCEPT !.revealed = TRUE] \in Commitments
  BY DEF Commitments

\* Revealing changes one flag of one commitment.
LEMMA RevealedEntry ==
    ASSUME WorldTypes, NEW e \in EntityId, Reveal(e)
    PROVE  /\ commits[e] \in Commitments
           /\ commits' = [commits EXCEPT ![e] = [commits[e] EXCEPT !.revealed = TRUE]]
           /\ [commits[e] EXCEPT !.revealed = TRUE] \in Commitments
<1>1. commits[e] \in Commitments
  BY DEF WorldTypes, Reveal
<1> QED
  BY <1>1, CommitmentTypes DEF Reveal

\* Every step keeps the types, and keeps markers telling the last verification.
LEMMA StepWorld ==
    ASSUME WorldTypes, MarkersTell, [Next]_vars
    PROVE  WorldTypes' /\ MarkersTell'
<1> USE DEF WorldTypes, MarkersTell
<1>1. CASE SweepCommitments /\ UNCHANGED now
  BY <1>1 DEF SweepCommitments
<1>2. CASE CleanupVerified /\ UNCHANGED now
  BY <1>2 DEF CleanupVerified
<1>3. CASE (\E e \in EntityId, d \in Deadline : Commit(e, d)) /\ UNCHANGED now
  BY <1>3, CommitmentTypes DEF Commit
<1>4. CASE (\E e \in EntityId : Reveal(e)) /\ UNCHANGED now
  BY <1>4, RevealedEntry DEF Reveal
<1>5. CASE (\E e \in EntityId : SubmitProof(e)) /\ UNCHANGED now
  BY <1>5 DEF SubmitProof, Marked
<1>6. CASE UNCHANGED world /\ now < MaxTime /\ now' = now + 1
  BY <1>6, LoopAssumption DEF world
<1>7. CASE UNCHANGED world /\ UNCHANGED now
  BY <1>7 DEF world
<1>8. CASE (\E e \in EntityId : Discard(e)) /\ UNCHANGED now
  BY <1>8 DEF Discard
<1> QED
  BY <1>1, <1>2, <1>3, <1>4, <1>5, <1>6, <1>7, <1>8, WorldCases

-----------------------------------------------------------------------------
(* What the systems of a run find *)

\* A run starts at the first system, and only a run moves on.
LEMMA StepPosition ==
    ASSUME RunStartsAtOne, [Next]_vars
    PROVE  RunStartsAtOne'
  BY DEF RunStartsAtOne, Next, vars, StartInvocation, BuildStep, BuildReturn, RunSystem,
         Advance, EndInvocation, Call, Tick

\* Only the game makes a commitment overdue, while the clock stands.
LEMMA SystemsSweep ==
    ASSUME WorldTypes, UNCHANGED now, SweepCommitments \/ CleanupVerified,
           NEW e \in EntityId
    PROVE  /\ Overdue(e)' => Overdue(e)
           /\ SweepCommitments => ~Overdue(e)'
  BY DEF WorldTypes, Overdue, SweepCommitments, CleanupVerified

\* When a game system runs, the sweeps before it have taken what is overdue.
LEMMA StepFinds ==
    ASSUME LoopInv, [Next]_vars
    PROVE  GameFindsNoOverdue'
<1> USE DEF LoopInv
<1> SUFFICES ASSUME phase' = "running",
                    NEW i \in 1..(position' - 1),
                    systems'[i] = "deadline",
                    \A j \in (i + 1)..(position' - 1) : systems'[j] # "game",
                    NEW e \in EntityId
             PROVE  ~Overdue(e)'
  BY DEF GameFindsNoOverdue
<1>1. CASE RunSystem
  <2>1. /\ phase = "running"
        /\ position' = position + 1
        /\ systems' = systems
        /\ now' = now
    BY <1>1 DEF RunSystem, Advance, app
  <2>2. position \in Nat /\ i \in 1..position
    BY <2>1 DEF RunStartsAtOne
  <2>3. CASE i = position
    <3>1. SweepCommitments
      BY <1>1, <2>1, <2>3 DEF RunSystem
    <3> QED
      BY <2>1, <3>1, SystemsSweep
  <2>4. CASE i # position
    <3>1. /\ i \in 1..(position - 1)
          /\ position \in (i + 1)..(position' - 1)
          /\ \A j \in (i + 1)..(position - 1) : j \in (i + 1)..(position' - 1)
      BY <2>1, <2>2, <2>4
    <3>2. systems[position] # "game"
      BY <2>1, <3>1
    <3>3. SweepCommitments \/ CleanupVerified
      BY <1>1, <3>2 DEF RunSystem
    <3>4. ~Overdue(e)
      BY <2>1, <3>1 DEF GameFindsNoOverdue
    <3> QED
      BY <2>1, <3>3, <3>4, SystemsSweep
  <2> QED
    BY <2>3, <2>4
<1>2. CASE BuildReturn
  BY <1>2 DEF BuildReturn, RunStartsAtOne
<1>3. CASE UNCHANGED vars
  BY <1>3 DEF vars, app, world, GameFindsNoOverdue, Overdue
<1>4. CASE \/ StartInvocation
           \/ BuildStep
           \/ EndInvocation
           \/ \E x \in EntityId, d \in Deadline : Call(Commit(x, d))
           \/ \E x \in EntityId : Call(Reveal(x))
           \/ \E x \in EntityId : Call(Discard(x))
           \/ \E x \in EntityId : Call(SubmitProof(x))
           \/ Tick
  BY <1>4 DEF StartInvocation, BuildStep, EndInvocation, Call, Tick
<1> QED
  BY <1>1, <1>2, <1>3, <1>4 DEF Next

\* Nothing is committed, verified or running at first.
LEMMA InitInv == Init => LoopInv
  BY LoopAssumption DEF Init, LoopInv, WorldTypes, MarkersTell, RunStartsAtOne,
                        GameFindsNoOverdue

\* The invariant holds of every reachable state.
LEMMA Invariance == Spec => []LoopInv
<1>1. LoopInv /\ [Next]_vars => LoopInv'
  BY StepWorld, StepPosition, StepFinds DEF LoopInv
<1> QED
  BY <1>1, InitInv, PTL DEF Spec

\* A game system that is scheduled after the deadline system, with no other
\* game system between them, finds no overdue commitment.
THEOREM DeadlinesComeFirst == Spec => []GameFindsNoOverdue
<1>1. LoopInv => GameFindsNoOverdue
  BY DEF LoopInv
<1> QED
  BY <1>1, Invariance, PTL

-----------------------------------------------------------------------------
(* What is removed *)

\* Unless the game itself removes it, the commitment of a player who revealed, or
\* who has time left, stays until it is made anew, and a proof counts as verified
\* for MaxAge after its last verification.
THEOREM NothingIsSweptEarly == Spec => NothingExpiresEarly
<1>1. ASSUME LoopInv, [Next]_vars, ~GameActs, NEW e \in EntityId
      PROVE  /\ commits[e] # None /\ commits'[e] = None => Overdue(e)
             /\ markers[e] # None /\ markers'[e] = None => now - verified[e] > MaxAge
  <2> USE <1>1 DEF LoopInv, WorldTypes
  <2>1. CASE SweepCommitments /\ UNCHANGED now
    BY <2>1 DEF SweepCommitments
  <2>2. CASE CleanupVerified /\ UNCHANGED now
    BY <2>2 DEF CleanupVerified, TooOld, MarkersTell
  <2>3. CASE (\E x \in EntityId, d \in Deadline : Commit(x, d)) /\ UNCHANGED now
    BY <2>3, CommitmentTypes, LoopAssumption DEF Commit
  <2>4. CASE (\E x \in EntityId : Reveal(x)) /\ UNCHANGED now
    BY <2>4, RevealedEntry, LoopAssumption DEF Reveal
  <2>5. CASE (\E x \in EntityId : SubmitProof(x)) /\ UNCHANGED now
    BY <2>5, LoopAssumption DEF SubmitProof, Marked
  <2>6. CASE UNCHANGED world
    BY <2>6 DEF world
  <2> QED
    BY <2>1, <2>2, <2>3, <2>4, <2>5, <2>6, WorldCases
<1>2. LoopInv /\ [Next]_vars =>
        [~GameActs =>
            \A e \in EntityId :
                /\ commits[e] # None /\ commits'[e] = None => Overdue(e)
                /\ markers[e] # None /\ markers'[e] = None => now - verified[e] > MaxAge]_vars
  BY <1>1
<1> QED
  BY <1>2, Invariance, PTL DEF Spec, NothingExpiresEarly

-----------------------------------------------------------------------------
(* Counting in lists *)

\* Where an item occurs in a list.
Places(l, x) == {i \in DOMAIN l : l[i] = x}

\* An item occurs in a list a natural number of times.
LEMMA CountType ==
    ASSUME NEW S, NEW l \in Seq(S), NEW x
    PROVE  /\ CountIn(l, x) = Cardinality(Places(l, x))
           /\ CountIn(l, x) \in Nat
           /\ IsFiniteSet(Places(l, x))
<1>1. DOMAIN l = 1..Len(l) /\ Len(l) \in Nat
  BY LenProperties
<1>2. IsFiniteSet(1..Len(l))
  BY <1>1, FS_Interval
<1>3. Places(l, x) \in SUBSET (1..Len(l))
  BY <1>1 DEF Places
<1>4. IsFiniteSet(Places(l, x)) /\ Cardinality(Places(l, x)) \in Nat
  BY <1>2, <1>3, FS_Subset, FS_CardinalityType
<1> QED
  BY <1>4 DEF CountIn, Places

\* In an empty list nothing occurs.
LEMMA CountEmpty ==
    ASSUME NEW x
    PROVE  CountIn(<<>>, x) = 0
<1>1. <<>> \in Seq({}) /\ Len(<<>>) = 0
  BY EmptySeq
<1>2. DOMAIN <<>> = {}
  BY <1>1, LenProperties
<1>3. Places(<<>>, x) = {}
  BY <1>2 DEF Places
<1>4. Cardinality(Places(<<>>, x)) = 0
  BY <1>3, FS_EmptySet
<1> QED
  BY <1>1, <1>4, CountType

\* An appended item occurs once more, and the others as often as before.
LEMMA CountAppend ==
    ASSUME NEW S, NEW l \in Seq(S), NEW y \in S, NEW x
    PROVE  CountIn(Append(l, y), x) = CountIn(l, x) + (IF y = x THEN 1 ELSE 0)
<1> DEFINE m == Append(l, y)
           n == Len(l) + 1
<1>1. /\ DOMAIN l = 1..Len(l) /\ Len(l) \in Nat
      /\ m \in Seq(S) /\ DOMAIN m = 1..n
      /\ \A i \in 1..Len(l) : m[i] = l[i]
      /\ m[n] = y
  OBVIOUS
<1> HIDE DEF m
<1>2. n \notin Places(l, x) /\ Places(l, x) \subseteq Places(m, x)
  BY <1>1 DEF Places
<1>3. Places(m, x) = IF y = x THEN Places(l, x) \cup {n} ELSE Places(l, x)
  BY <1>1 DEF Places
<1>4. /\ CountIn(l, x) = Cardinality(Places(l, x)) /\ IsFiniteSet(Places(l, x))
      /\ CountIn(m, x) = Cardinality(Places(m, x)) /\ CountIn(l, x) \in Nat
  BY <1>1, CountType
<1>5. Cardinality(Places(l, x) \cup {n}) = Cardinality(Places(l, x)) + 1
  BY <1>2, <1>4, FS_AddElement
<1>6. CountIn(m, x) = CountIn(l, x) + (IF y = x THEN 1 ELSE 0)
  BY <1>3, <1>4, <1>5
<1> QED
  BY <1>6 DEF m

\* Without its first item, that one occurs in a list once less.
LEMMA CountTail ==
    ASSUME NEW S, NEW l \in Seq(S), l # <<>>, NEW x
    PROVE  CountIn(l, x) = CountIn(Tail(l), x) + (IF Head(l) = x THEN 1 ELSE 0)
<1> DEFINE m == Tail(l)
           A == Places(l, x)
           B == Places(m, x)
           C == A \ {1}
           shift == [i \in B |-> i + 1]
<1>1. /\ DOMAIN l = 1..Len(l) /\ Len(l) \in Nat \ {0}
      /\ m \in Seq(S)
      /\ DOMAIN m = 1..(Len(l) - 1)
      /\ \A i \in 1..(Len(l) - 1) : m[i] = l[i + 1]
      /\ Head(l) = l[1]
  OBVIOUS
<1> HIDE DEF m
<1>2. /\ CountIn(l, x) = Cardinality(A) /\ CountIn(m, x) = Cardinality(B)
      /\ IsFiniteSet(A) /\ IsFiniteSet(B)
      /\ CountIn(l, x) \in Nat /\ CountIn(m, x) \in Nat
  BY <1>1, CountType
<1>3. \A i \in B : i + 1 \in C /\ i \in Nat
  BY <1>1 DEF Places
<1>4. \A j \in C : j - 1 \in B /\ (j - 1) + 1 = j
  BY <1>1 DEF Places
<1>5. 1 \in A <=> Head(l) = x
  BY <1>1 DEF Places
<1>6. Cardinality(C) = IF 1 \in A THEN Cardinality(A) - 1 ELSE Cardinality(A)
  BY <1>2, FS_RemoveElement
<1> HIDE DEF A, B, C
<1>7. shift \in Bijection(B, C)
  <2>1. shift \in [B -> C]
    BY <1>3
  <2>2. \A a, b \in B : shift[a] = shift[b] => a = b
    BY <1>3
  <2>3. \A j \in C : \E i \in B : shift[i] = j
    BY <1>4
  <2> HIDE DEF shift
  <2>4. shift \in Injection(B, C)
    BY <2>1, <2>2 DEF Injection, IsInjective
  <2>5. shift \in Surjection(B, C)
    BY <2>1, <2>3 DEF Surjection
  <2> QED BY <2>4, <2>5 DEF Bijection
<1>8. Cardinality(C) = Cardinality(B)
  BY <1>2, <1>7, FS_Bijection DEF ExistsBijection
<1>9. CountIn(l, x) = CountIn(m, x) + (IF Head(l) = x THEN 1 ELSE 0)
  BY <1>2, <1>5, <1>6, <1>8
<1> QED
  BY <1>9 DEF m

\* What occurs in a list is its first item or occurs in the rest.
LEMMA ElementsTail ==
    ASSUME NEW S, NEW l \in Seq(S), l # <<>>, NEW x \in Elements(l), x # Head(l)
    PROVE  x \in Elements(Tail(l))
<1>1. PICK i \in 1..Len(l) : x = l[i]
  BY DEF Elements
<1>2. /\ Len(l) \in Nat \ {0} /\ Head(l) = l[1]
      /\ DOMAIN Tail(l) = 1..(Len(l) - 1)
      /\ \A j \in 1..(Len(l) - 1) : Tail(l)[j] = l[j + 1]
  OBVIOUS
<1>3. i - 1 \in DOMAIN Tail(l) /\ Tail(l)[i - 1] = x
  BY <1>1, <1>2
<1> QED
  BY <1>3 DEF Elements

-----------------------------------------------------------------------------
(* How often a system is asked for, and how often the builds under way still *)
(* have to add it                                                            *)

SystemNames == {"deadline", "cleanup", "game"}

SystemItem(s) == [adds |-> "system", what |-> s]

PluginItem(p) == [adds |-> "plugin", what |-> p]

\* t[n]: how often contract c and the first n plugins of b ask for system s.
AskedUpTo(t, c, b, s) ==
    /\ t \in [0..Len(b) -> Nat]
    /\ t[0] = CountIn(c.main, SystemItem(s))
    /\ \A i \in 1..Len(b) : t[i] = t[i - 1] + CountIn(c.build[b[i]], SystemItem(s))

\* u[n]: how often the n outermost builds of st still add system s.
Pending(u, st, s) ==
    /\ u \in [0..Len(st) -> Nat]
    /\ u[0] = 0
    /\ \A k \in 1..Len(st) : u[k] = u[k - 1] + CountIn(st[k], SystemItem(s))

\* A plugin that is built asks for the systems in its list.
LEMMA AskedPushed ==
    ASSUME NEW c \in Contracts, NEW b \in Seq(Plugin), NEW p \in Plugin, NEW s,
           NEW t, AskedUpTo(t, c, b, s)
    PROVE  \E v : /\ AskedUpTo(v, c, Append(b, p), s)
                  /\ v[Len(b) + 1] = t[Len(b)] + CountIn(c.build[p], SystemItem(s))
<1> DEFINE n == Len(b)
           d == Append(b, p)
           more == CountIn(c.build[p], SystemItem(s))
           v == [i \in 0..(n + 1) |-> IF i = n + 1 THEN t[n] + more ELSE t[i]]
<1>1. /\ n \in Nat /\ d \in Seq(Plugin) /\ Len(d) = n + 1 /\ d[n + 1] = p
      /\ \A i \in 1..n : d[i] = b[i]
  OBVIOUS
<1>2. more \in Nat
  BY CountType, LoopAssumption
<1>3. t \in [0..n -> Nat] /\ t[n] \in Nat
  BY <1>1 DEF AskedUpTo
<1> HIDE DEF n, d, more
<1>4. v \in [0..(n + 1) -> Nat] /\ v[n + 1] = t[n] + more /\ \A i \in 0..n : v[i] = t[i]
  BY <1>1, <1>2, <1>3
<1> HIDE DEF v
<1>5. \A i \in 1..(n + 1) : v[i] = v[i - 1] + CountIn(c.build[d[i]], SystemItem(s))
  <2> SUFFICES ASSUME NEW i \in 1..(n + 1)
               PROVE  v[i] = v[i - 1] + CountIn(c.build[d[i]], SystemItem(s))
    OBVIOUS
  <2>1. CASE i = n + 1
    BY <1>1, <1>4, <2>1 DEF more
  <2>2. CASE i # n + 1
    <3>1. i \in 1..n /\ i - 1 \in 0..n /\ i \in 0..n
      BY <1>1, <2>2
    <3>2. t[i] = t[i - 1] + CountIn(c.build[b[i]], SystemItem(s))
      BY <3>1 DEF AskedUpTo, n
    <3> QED BY <1>1, <1>4, <3>1, <3>2
  <2> QED BY <2>1, <2>2
<1>6. AskedUpTo(v, c, d, s)
  BY <1>1, <1>4, <1>5 DEF AskedUpTo
<1> QED
  BY <1>4, <1>6 DEF n, d, more

\* A build that begins still has to add all systems in its list.
LEMMA PendingPushed ==
    ASSUME NEW st \in Seq(Seq(Items)), NEW l \in Seq(Items), NEW s,
           NEW u, Pending(u, st, s)
    PROVE  \E v : /\ Pending(v, Append(st, l), s)
                  /\ v[Len(st) + 1] = u[Len(st)] + CountIn(l, SystemItem(s))
<1> DEFINE n == Len(st)
           d == Append(st, l)
           more == CountIn(l, SystemItem(s))
           v == [i \in 0..(n + 1) |-> IF i = n + 1 THEN u[n] + more ELSE u[i]]
<1>1. /\ n \in Nat /\ d \in Seq(Seq(Items)) /\ Len(d) = n + 1 /\ d[n + 1] = l
      /\ \A i \in 1..n : d[i] = st[i]
  OBVIOUS
<1>2. more \in Nat
  BY CountType
<1>3. u \in [0..n -> Nat] /\ u[n] \in Nat
  BY <1>1 DEF Pending
<1> HIDE DEF n, d, more
<1>4. v \in [0..(n + 1) -> Nat] /\ v[n + 1] = u[n] + more /\ \A i \in 0..n : v[i] = u[i]
  BY <1>1, <1>2, <1>3
<1> HIDE DEF v
<1>5. \A i \in 1..(n + 1) : v[i] = v[i - 1] + CountIn(d[i], SystemItem(s))
  <2> SUFFICES ASSUME NEW i \in 1..(n + 1)
               PROVE  v[i] = v[i - 1] + CountIn(d[i], SystemItem(s))
    OBVIOUS
  <2>1. CASE i = n + 1
    BY <1>1, <1>4, <2>1 DEF more
  <2>2. CASE i # n + 1
    <3>1. i \in 1..n /\ i - 1 \in 0..n /\ i \in 0..n
      BY <1>1, <2>2
    <3>2. u[i] = u[i - 1] + CountIn(st[i], SystemItem(s))
      BY <3>1 DEF Pending, n
    <3> QED BY <1>1, <1>4, <3>1, <3>2
  <2> QED BY <2>1, <2>2
<1>6. Pending(v, d, s)
  BY <1>1, <1>3, <1>4, <1>5 DEF Pending
<1> QED
  BY <1>4, <1>6 DEF n, d, more

\* The list of the innermost build may be replaced by what is left of it.
LEMMA PendingReplaced ==
    ASSUME NEW st \in Seq(Seq(Items)), st # <<>>, NEW l \in Seq(Items), NEW s,
           NEW u, Pending(u, st, s),
           NEW d \in Seq(Seq(Items)), Len(d) = Len(st), d[Len(st)] = l,
           \A k \in 1..(Len(st) - 1) : d[k] = st[k]
    PROVE  \E v : /\ Pending(v, d, s)
                  /\ v[Len(st)] = u[Len(st)] - CountIn(st[Len(st)], SystemItem(s))
                                    + CountIn(l, SystemItem(s))
<1> DEFINE n == Len(st)
           v == [u EXCEPT ![n] = u[n - 1] + CountIn(l, SystemItem(s))]
<1>1. n \in Nat \ {0} /\ d \in Seq(Seq(Items)) /\ Len(d) = n
  OBVIOUS
<1>2. d[n] = l /\ \A i \in 1..(n - 1) : d[i] = st[i]
  OBVIOUS
<1>3. CountIn(l, SystemItem(s)) \in Nat /\ CountIn(st[n], SystemItem(s)) \in Nat
  BY <1>1, CountType
<1>4. /\ u \in [0..n -> Nat] /\ u[n] \in Nat /\ u[n - 1] \in Nat
      /\ u[n] = u[n - 1] + CountIn(st[n], SystemItem(s))
  <2>1. /\ u \in [0..n -> Nat]
        /\ \A k \in 1..n : u[k] = u[k - 1] + CountIn(st[k], SystemItem(s))
    BY DEF Pending
  <2>2. n \in 1..n /\ n \in 0..n /\ n - 1 \in 0..n
    BY <1>1
  <2> HIDE DEF n
  <2> QED BY <2>1, <2>2
<1> HIDE DEF n
<1>5. /\ v \in [0..n -> Nat] /\ v[n] = u[n - 1] + CountIn(l, SystemItem(s))
      /\ \A i \in 0..(n - 1) : v[i] = u[i]
  BY <1>1, <1>3, <1>4
<1> HIDE DEF v
<1>6. \A i \in 1..n : v[i] = v[i - 1] + CountIn(d[i], SystemItem(s))
  <2> SUFFICES ASSUME NEW i \in 1..n
               PROVE  v[i] = v[i - 1] + CountIn(d[i], SystemItem(s))
    OBVIOUS
  <2>1. CASE i = n
    BY <1>1, <1>2, <1>5, <2>1
  <2>2. CASE i # n
    <3>1. i \in 1..(n - 1) /\ i - 1 \in 0..(n - 1) /\ i \in 0..(n - 1)
      BY <1>1, <2>2
    <3>2. u[i] = u[i - 1] + CountIn(st[i], SystemItem(s))
      BY <1>1, <3>1 DEF Pending, n
    <3> QED BY <1>2, <1>5, <3>1, <3>2
  <2> QED BY <2>1, <2>2
<1>7. Pending(v, d, s)
  <2>1. v[0] = 0
    BY <1>1, <1>5 DEF Pending
  <2> QED BY <1>1, <1>5, <1>6, <2>1 DEF Pending
<1>8. v[n] = u[n] - CountIn(st[n], SystemItem(s)) + CountIn(l, SystemItem(s))
  BY <1>3, <1>4, <1>5
<1> QED
  BY <1>7, <1>8 DEF n

\* A build that has nothing left to add may return.
LEMMA PendingPopped ==
    ASSUME NEW st \in Seq(Seq(Items)), st # <<>>, st[Len(st)] = <<>>, NEW s,
           NEW u, Pending(u, st, s)
    PROVE  \E v : /\ Pending(v, SubSeq(st, 1, Len(st) - 1), s)
                  /\ v[Len(st) - 1] = u[Len(st)]
<1> DEFINE n == Len(st)
           d == SubSeq(st, 1, n - 1)
           v == [i \in 0..(n - 1) |-> u[i]]
<1>1. /\ n \in Nat \ {0} /\ d \in Seq(Seq(Items)) /\ Len(d) = n - 1
      /\ \A i \in 1..(n - 1) : d[i] = st[i]
  <2>1. /\ n \in Nat \ {0} /\ 1 \in Int /\ n - 1 \in Int
        /\ \A i \in 1..(n - 1) : st[i] \in Seq(Items)
    OBVIOUS
  <2>2. /\ d \in Seq(Seq(Items))
        /\ Len(d) = IF 1 =< n - 1 THEN (n - 1) - 1 + 1 ELSE 0
        /\ \A i \in 1..((n - 1) - 1 + 1) : d[i] = st[1 + i - 1]
    BY <2>1, SubSeqProperties
  <2> HIDE DEF n, d
  <2>3. Len(d) = n - 1
    BY <2>1, <2>2
  <2>4. \A i \in 1..(n - 1) : i \in 1..((n - 1) - 1 + 1) /\ 1 + i - 1 = i
    BY <2>1
  <2> QED BY <2>1, <2>2, <2>3, <2>4
<1>2. CountIn(st[n], SystemItem(s)) = 0
  BY CountEmpty
<1>3. /\ u \in [0..n -> Nat] /\ u[0] = 0
      /\ u[n] = u[n - 1] + CountIn(st[n], SystemItem(s)) /\ u[n - 1] \in Nat
      /\ \A i \in 1..(n - 1) : u[i] = u[i - 1] + CountIn(st[i], SystemItem(s))
  <2>1. /\ u \in [0..n -> Nat] /\ u[0] = 0
        /\ \A k \in 1..n : u[k] = u[k - 1] + CountIn(st[k], SystemItem(s))
    BY DEF Pending
  <2>2. /\ n \in 1..n /\ n - 1 \in 0..n
        /\ \A i \in 1..(n - 1) : i \in 1..n
    BY <1>1
  <2> HIDE DEF n
  <2> QED BY <2>1, <2>2
<1> HIDE DEF n, d
<1>4. v \in [0..(n - 1) -> Nat] /\ \A i \in 0..(n - 1) : v[i] = u[i]
  BY <1>1, <1>3
<1>5. v[n - 1] = u[n]
  BY <1>1, <1>2, <1>3, <1>4
<1> HIDE DEF v
<1>6. Pending(v, d, s)
  <2>1. v[0] = 0
    BY <1>1, <1>3, <1>4
  <2>2. \A i \in 1..(n - 1) : i - 1 \in 0..(n - 1) /\ i \in 0..(n - 1)
    BY <1>1
  <2>3. \A i \in 1..(n - 1) : v[i] = v[i - 1] + CountIn(d[i], SystemItem(s))
    BY <1>1, <1>3, <1>4, <2>2
  <2> QED BY <1>1, <1>4, <2>1, <2>3 DEF Pending
<1> QED
  BY <1>5, <1>6 DEF n, d

-----------------------------------------------------------------------------
(* The app while it is built *)

BuildTypes ==
    /\ contract \in Contracts
    /\ built \in Seq(Plugin)
    /\ plugins \in Seq(Name)
    /\ systems \in Seq(SystemNames)
    /\ stack \in Seq(Seq(Items))
    /\ phase = "running" => stack = <<>>

\* The registered names are those of the plugins that were built, each once.
OneEachName ==
    /\ Len(plugins) = Len(built)
    /\ \A i \in 1..Len(built) : plugins[i] = contract.name[built[i]]
    /\ \A i, j \in 1..Len(plugins) : plugins[i] = plugins[j] => i = j

\* A plugin of this name was built, or a build under way still asks for it.
Known(p) ==
    \/ HasPlugin(contract.name[p])
    \/ \E k \in 1..Len(stack) : PluginItem(p) \in Elements(stack[k])

AskedAreKnown ==
    \A list \in Lists, p \in Plugin : PluginItem(p) \in Elements(list) => Known(p)

\* What the lists ask for is scheduled, or is still to be added by the builds
\* under way.
Balanced(s) ==
    \E t, u : /\ AskedUpTo(t, contract, built, s)
              /\ Pending(u, stack, s)
              /\ t[Len(built)] = CountIn(systems, s) + u[Len(stack)]

BuildInv ==
    /\ BuildTypes
    /\ OneEachName
    /\ phase # "idle" => AskedAreKnown /\ \A s \in SystemNames : Balanced(s)

\* The four outcomes of an item.
Outcome(item) ==
    \/ \E p \in Plugin :
          /\ item = PluginItem(p) /\ UNCHANGED systems
          /\ \/ /\ HasPlugin(contract.name[p])
                /\ stack' = Continued /\ UNCHANGED <<plugins, built>>
             \/ /\ ~HasPlugin(contract.name[p])
                /\ plugins' = Append(plugins, contract.name[p])
                /\ built' = Append(built, p)
                /\ stack' = Append(Continued, contract.build[p])
    \/ \E s \in SystemNames :
          /\ item = SystemItem(s) /\ systems' = Append(systems, s)
          /\ stack' = Continued /\ UNCHANGED <<plugins, built>>
    \/ /\ item.adds = "hook"
       /\ stack' = Continued /\ UNCHANGED <<plugins, systems, built>>

\* A plugin item names a plugin, a system item a system.
LEMMA ItemTypes ==
    ASSUME NEW item \in Items
    PROVE  /\ item.adds = "plugin" => \E p \in Plugin : item = PluginItem(p)
           /\ item.adds = "system" => \E s \in SystemNames : item = SystemItem(s)
<1>1. CASE item \in [adds : {"system"}, what : SystemNames]
  <2>1. item = SystemItem(item.what) /\ item.adds = "system" /\ item.what \in SystemNames
    BY <1>1 DEF SystemItem
  <2> QED BY <2>1
<1>2. CASE item \in [adds : {"plugin"}, what : Plugin]
  <2>1. item = PluginItem(item.what) /\ item.adds = "plugin" /\ item.what \in Plugin
    BY <1>2 DEF PluginItem
  <2> QED BY <2>1
<1>3. CASE item \in [adds : {"hook"}]
  <2>1. item.adds = "hook"
    BY <1>3
  <2> QED BY <2>1
<1> QED
  BY <1>1, <1>2, <1>3 DEF Items, SystemNames

\* The stack and the item at its top, when there is an item to do.
LEMMA BuildStepShape ==
    ASSUME BuildTypes, BuildStep
    PROVE  /\ stack # <<>> /\ Len(stack) \in Nat \ {0}
           /\ Innermost \in Seq(Items) /\ Innermost # <<>>
           /\ Tail(Innermost) \in Seq(Items)
           /\ Continued \in Seq(Seq(Items)) /\ Len(Continued) = Len(stack)
           /\ Continued[Len(stack)] = Tail(Innermost)
           /\ \A k \in 1..(Len(stack) - 1) : Continued[k] = stack[k]
           /\ UNCHANGED <<contract, phase>>
           /\ phase = "building"
           /\ Outcome(Head(Innermost))
<1>1. /\ stack # <<>> /\ stack \in Seq(Seq(Items)) /\ Innermost # <<>>
      /\ phase = "building" /\ UNCHANGED <<contract, phase>>
  BY DEF BuildTypes, BuildStep
<1>2. Len(stack) \in Nat \ {0}
  BY <1>1
<1>3. Innermost \in Seq(Items)
  BY <1>1, <1>2 DEF Innermost
<1>4. Head(Innermost) \in Items /\ Tail(Innermost) \in Seq(Items)
  BY <1>1, <1>3, HeadTailProperties
<1>5. /\ Continued \in Seq(Seq(Items)) /\ Len(Continued) = Len(stack)
      /\ \A k \in 1..Len(stack) :
           Continued[k] = IF k = Len(stack) THEN Tail(Innermost) ELSE stack[k]
  <2> DEFINE l == Tail(Innermost)
  <2> HIDE DEF l
  <2>1. /\ [stack EXCEPT ![Len(stack)] = l] \in Seq(Seq(Items))
        /\ Len([stack EXCEPT ![Len(stack)] = l]) = Len(stack)
        /\ \A j \in 1..Len(stack) : [stack EXCEPT ![Len(stack)] = l][j] =
                                      IF j = Len(stack) THEN l ELSE stack[j]
    BY <1>1, <1>2, <1>4, ExceptSeq DEF l
  <2> QED BY <2>1 DEF Continued, l
<1>6. Outcome(Head(Innermost))
  <2> DEFINE item == Head(Innermost)
  <2>1. \/ item.adds = "plugin" /\ AddPlugin(item.what)
        \/ item.adds = "system" /\ AddSystem(item.what)
        \/ item.adds = "hook"   /\ AddHook
    BY DEF BuildStep
  <2> HIDE DEF item
  <2>2. CASE item.adds = "plugin" /\ AddPlugin(item.what)
    <3>1. PICK p \in Plugin : item = PluginItem(p)
      BY <1>4, <2>2, ItemTypes DEF item
    <3>2. item.what = p
      BY <3>1 DEF PluginItem
    <3> QED BY <2>2, <3>1, <3>2 DEF AddPlugin, Outcome, item
  <2>3. CASE item.adds = "system" /\ AddSystem(item.what)
    <3>1. PICK s \in SystemNames : item = SystemItem(s)
      BY <1>4, <2>3, ItemTypes DEF item
    <3>2. item.what = s
      BY <3>1 DEF SystemItem
    <3> QED BY <2>3, <3>1, <3>2 DEF AddSystem, Outcome, item
  <2>4. CASE item.adds = "hook" /\ AddHook
    BY <2>4 DEF AddHook, Outcome, item
  <2> QED BY <2>1, <2>2, <2>3, <2>4
<1>7. /\ Continued[Len(stack)] = Tail(Innermost)
      /\ \A k \in 1..(Len(stack) - 1) : Continued[k] = stack[k]
  <2> DEFINE l == Tail(Innermost)
             c == Continued
             n == Len(stack)
  <2> HIDE DEF l, c, n
  <2>1. n \in Nat \ {0} /\ \A k \in 1..n : c[k] = IF k = n THEN l ELSE stack[k]
    BY <1>2, <1>5 DEF l, c, n
  <2>2. c[n] = l /\ \A k \in 1..(n - 1) : c[k] = stack[k]
    BY <2>1
  <2> QED BY <2>2 DEF l, c, n
<1> QED
  BY <1>1, <1>2, <1>3, <1>4, <1>5, <1>6, <1>7

\* What a contract says of a plugin.
LEMMA ContractTypes ==
    ASSUME NEW c \in Contracts, NEW p \in Plugin
    PROVE  c.name[p] \in Name /\ c.build[p] \in Seq(Items) /\ c.main \in Seq(Items)
  BY LoopAssumption

\* An item keeps the types of the app.
LEMMA ItemTyped ==
    ASSUME BuildTypes, BuildStep
    PROVE  BuildTypes'
<1>1. /\ Continued \in Seq(Seq(Items)) /\ UNCHANGED <<contract, phase>>
      /\ phase = "building" /\ Outcome(Head(Innermost))
  BY BuildStepShape
<1>2. /\ contract \in Contracts /\ built \in Seq(Plugin) /\ plugins \in Seq(Name)
      /\ systems \in Seq(SystemNames)
  BY DEF BuildTypes
<1>3. CASE stack' = Continued /\ UNCHANGED <<plugins, built, systems>>
  BY <1>1, <1>2, <1>3 DEF BuildTypes
<1>4. ASSUME NEW s \in SystemNames, systems' = Append(systems, s),
             stack' = Continued, UNCHANGED <<plugins, built>>
      PROVE  BuildTypes'
  BY <1>1, <1>2, <1>4 DEF BuildTypes
<1>5. ASSUME NEW p \in Plugin, plugins' = Append(plugins, contract.name[p]),
             built' = Append(built, p), stack' = Append(Continued, contract.build[p]),
             UNCHANGED systems
      PROVE  BuildTypes'
  <2>1. contract.name[p] \in Name /\ contract.build[p] \in Seq(Items)
    BY <1>2, ContractTypes
  <2>2. /\ plugins' \in Seq(Name) /\ built' \in Seq(Plugin)
        /\ stack' \in Seq(Seq(Items))
    BY <1>1, <1>2, <1>5, <2>1
  <2> QED BY <1>1, <1>2, <1>5, <2>2 DEF BuildTypes
<1> QED
  BY <1>1, <1>3, <1>4, <1>5 DEF Outcome

\* A name is registered once, with the plugin that is built for it.
LEMMA ItemNames ==
    ASSUME BuildTypes, OneEachName, BuildStep
    PROVE  OneEachName'
<1>1. UNCHANGED contract /\ Outcome(Head(Innermost))
  BY BuildStepShape
<1>2. CASE UNCHANGED <<plugins, built>>
  BY <1>1, <1>2 DEF OneEachName
<1>3. ASSUME NEW p \in Plugin, ~HasPlugin(contract.name[p]),
             plugins' = Append(plugins, contract.name[p]), built' = Append(built, p)
      PROVE  OneEachName'
  <2> DEFINE n == Len(built)
  <2>1. /\ plugins \in Seq(Name) /\ built \in Seq(Plugin)
        /\ n \in Nat /\ Len(plugins) = n
        /\ \A i \in 1..n : plugins[i] = contract.name[built[i]]
        /\ \A i, j \in 1..n : plugins[i] = plugins[j] => i = j
    BY DEF BuildTypes, OneEachName
  <2>2. /\ Len(plugins') = n + 1 /\ Len(built') = n + 1
        /\ plugins'[n + 1] = contract.name[p] /\ built'[n + 1] = p
        /\ \A i \in 1..n : plugins'[i] = plugins[i] /\ built'[i] = built[i]
    BY <1>3, <2>1
  <2>3. \A i \in 1..n : plugins[i] # contract.name[p]
    BY <1>3, <2>1 DEF HasPlugin, Elements
  <2> HIDE DEF n
  <2>4. \A i \in 1..(n + 1) : i \in 1..n \/ i = n + 1
    BY <2>1
  <2>5. \A i \in 1..(n + 1) : plugins'[i] = contract.name[built'[i]]
    BY <2>1, <2>2, <2>4
  <2>6. \A i, j \in 1..(n + 1) : plugins'[i] = plugins'[j] => i = j
    BY <2>1, <2>2, <2>3, <2>4
  <2> QED BY <1>1, <2>2, <2>5, <2>6 DEF OneEachName
<1> QED
  BY <1>1, <1>2, <1>3 DEF Outcome

\* A plugin that is asked for is registered, or still to be added.
LEMMA ItemKnown ==
    ASSUME BuildTypes, AskedAreKnown, BuildStep
    PROVE  AskedAreKnown'
<1> DEFINE n == Len(stack)
<1>1. /\ n \in Nat \ {0} /\ stack # <<>>
      /\ Innermost \in Seq(Items) /\ Innermost # <<>> /\ Innermost = stack[n]
      /\ Continued \in Seq(Seq(Items)) /\ Len(Continued) = n
      /\ Continued[n] = Tail(Innermost)
      /\ \A k \in 1..(n - 1) : Continued[k] = stack[k]
      /\ UNCHANGED contract
      /\ Outcome(Head(Innermost))
  BY BuildStepShape DEF Innermost
<1>2. /\ contract \in Contracts /\ built \in Seq(Plugin) /\ plugins \in Seq(Name)
  BY DEF BuildTypes
<1> DEFINE known(q) == \/ contract.name[q] \in Elements(plugins')
                       \/ \E k \in 1..Len(stack') : PluginItem(q) \in Elements(stack'[k])
<1> SUFFICES ASSUME NEW list \in Lists', NEW q \in Plugin,
                    PluginItem(q) \in Elements(list)
             PROVE  known(q)
  BY <1>1 DEF AskedAreKnown, Known, HasPlugin
<1>3. \/ /\ stack' = Continued /\ UNCHANGED <<plugins, built>>
         /\ PluginItem(q) = Head(Innermost) => contract.name[q] \in Elements(plugins)
      \/ \E p \in Plugin :
           /\ plugins' = Append(plugins, contract.name[p]) /\ built' = Append(built, p)
           /\ stack' = Append(Continued, contract.build[p])
           /\ PluginItem(q) = Head(Innermost) => q = p
  <2>1. \A p : PluginItem(q) = PluginItem(p) => q = p
    BY DEF PluginItem
  <2>2. \A s : PluginItem(q) # SystemItem(s)
    BY DEF PluginItem, SystemItem
  <2>3. PluginItem(q).adds # "hook"
    BY DEF PluginItem
  <2> HIDE DEF known
  <2> QED BY <1>1, <2>1, <2>2, <2>3 DEF Outcome, HasPlugin
<1>4. /\ \A k \in 1..n : k \in 1..Len(stack') /\ stack'[k] = Continued[k]
      /\ Elements(plugins) \subseteq Elements(plugins')
  <2>1. CASE stack' = Continued /\ UNCHANGED <<plugins, built>>
    BY <1>1, <2>1
  <2>2. ASSUME NEW p \in Plugin, plugins' = Append(plugins, contract.name[p]),
               stack' = Append(Continued, contract.build[p])
        PROVE  /\ \A k \in 1..n : k \in 1..Len(stack') /\ stack'[k] = Continued[k]
               /\ Elements(plugins) \subseteq Elements(plugins')
    <3>1. \A k \in 1..n : k \in 1..Len(stack') /\ stack'[k] = Continued[k]
      BY <1>1, <2>2
    <3>2. \A i \in DOMAIN plugins : i \in DOMAIN plugins' /\ plugins'[i] = plugins[i]
      BY <1>2, <2>2
    <3> QED BY <3>1, <3>2 DEF Elements
  <2> QED BY <1>3, <2>1, <2>2
<1>5. ASSUME list \in Lists
      PROVE  known(q)
  <2>1. Known(q)
    BY <1>5 DEF AskedAreKnown
  <2>2. CASE contract.name[q] \in Elements(plugins)
    BY <1>4, <2>2
  <2>3. ASSUME NEW k \in 1..n, PluginItem(q) \in Elements(stack[k]), k # n
        PROVE  known(q)
    <3>1. k \in 1..(n - 1) /\ k \in 1..n
      BY <1>1, <2>3
    <3>2. PluginItem(q) \in Elements(stack'[k]) /\ k \in 1..Len(stack')
      BY <1>1, <1>4, <2>3, <3>1
    <3> QED BY <3>2
  <2>4. ASSUME PluginItem(q) \in Elements(Innermost), PluginItem(q) # Head(Innermost)
        PROVE  known(q)
    <3>1. PluginItem(q) \in Elements(Tail(Innermost))
      BY <1>1, <2>4, ElementsTail
    <3>2. n \in 1..n
      BY <1>1
    <3>3. PluginItem(q) \in Elements(stack'[n]) /\ n \in 1..Len(stack')
      BY <1>1, <1>4, <3>1, <3>2
    <3> QED BY <3>3
  <2>5. ASSUME PluginItem(q) = Head(Innermost)
        PROVE  known(q)
    <3>1. CASE contract.name[q] \in Elements(plugins)
      BY <1>4, <3>1
    <3>2. CASE plugins' = Append(plugins, contract.name[q])
      <4>1. Len(plugins) + 1 \in DOMAIN plugins'
            /\ plugins'[Len(plugins) + 1] = contract.name[q]
        BY <1>2, <3>2
      <4> QED BY <4>1 DEF Elements
    <3> QED BY <1>3, <2>5, <3>1, <3>2
  <2> HIDE DEF known, n
  <2> QED BY <1>1, <2>1, <2>2, <2>3, <2>4, <2>5 DEF Known, HasPlugin, n
<1>6. ASSUME list \notin Lists
      PROVE  known(q)
  <2>1. PICK p \in Plugin : /\ built' = Append(built, p)
                            /\ stack' = Append(Continued, contract.build[p])
    BY <1>1, <1>3, <1>6 DEF Lists
  <2>2. Elements(built') \subseteq Elements(built) \cup {p}
    BY <1>2, <2>1 DEF Elements
  <2>3. list = contract.build[p]
    BY <1>1, <1>6, <2>2 DEF Lists
  <2>4. n + 1 \in 1..Len(stack') /\ stack'[n + 1] = contract.build[p]
    BY <1>1, <2>1
  <2> QED BY <2>3, <2>4
<1> QED
  BY <1>5, <1>6

\* Which items count for a system.
LEMMA ItemsDiffer ==
    /\ \A s, x : SystemItem(s) = SystemItem(x) <=> s = x
    /\ \A p, s : PluginItem(p) # SystemItem(s)
    /\ \A item, s : item.adds = "hook" => item # SystemItem(s)
  BY DEF SystemItem, PluginItem

\* The first item of the innermost list leaves what is still to be added.
LEMMA PendingContinued ==
    ASSUME BuildTypes, BuildStep, NEW s, NEW u, Pending(u, stack, s)
    PROVE  \E v : /\ Pending(v, Continued, s)
                  /\ u[Len(stack)] = v[Len(Continued)] +
                       (IF Head(Innermost) = SystemItem(s) THEN 1 ELSE 0)
<1> DEFINE n == Len(stack)
           x == SystemItem(s)
<1>1. /\ stack \in Seq(Seq(Items)) /\ stack # <<>> /\ n \in Nat \ {0}
      /\ Innermost \in Seq(Items) /\ Innermost # <<>> /\ Innermost = stack[n]
      /\ Tail(Innermost) \in Seq(Items) /\ Len(Continued) = n
  BY BuildStepShape DEF BuildTypes, Innermost
<1> DEFINE l == Tail(Innermost)
<1>2. PICK v : /\ Pending(v, Continued, s)
               /\ v[n] = u[n] - CountIn(stack[n], x) + CountIn(l, x)
  <2>1. /\ Continued \in Seq(Seq(Items)) /\ Len(Continued) = n /\ Continued[n] = l
        /\ \A k \in 1..(n - 1) : Continued[k] = stack[k]
    BY BuildStepShape
  <2> HIDE DEF l
  <2>2. l \in Seq(Items)
    BY <1>1 DEF l
  <2> QED BY <1>1, <2>1, <2>2, PendingReplaced
<1>3. CountIn(Innermost, x) = CountIn(Tail(Innermost), x) +
                                (IF Head(Innermost) = x THEN 1 ELSE 0)
  BY <1>1, CountTail
<1>4. CountIn(Innermost, x) \in Nat /\ CountIn(Tail(Innermost), x) \in Nat
  BY <1>1, CountType
<1>5. u[n] \in Nat
  BY <1>1 DEF Pending
<1> HIDE DEF n, x
<1>6. u[n] = v[n] + (IF Head(Innermost) = x THEN 1 ELSE 0)
  BY <1>1, <1>2, <1>3, <1>4, <1>5
<1> QED
  BY <1>1, <1>2, <1>6 DEF n, x

\* An item moves what is asked for from a list to the scheduler or the stack.
LEMMA ItemBalanced ==
    ASSUME BuildTypes, BuildStep, NEW s \in SystemNames, Balanced(s)
    PROVE  Balanced(s)'
<1>1. PICK t, u : /\ AskedUpTo(t, contract, built, s)
                  /\ Pending(u, stack, s)
                  /\ t[Len(built)] = CountIn(systems, s) + u[Len(stack)]
  BY DEF Balanced
<1>2. PICK v : /\ Pending(v, Continued, s)
               /\ u[Len(stack)] = v[Len(Continued)] +
                    (IF Head(Innermost) = SystemItem(s) THEN 1 ELSE 0)
  BY <1>1, PendingContinued
<1>3. /\ contract \in Contracts /\ built \in Seq(Plugin)
      /\ systems \in Seq(SystemNames) /\ UNCHANGED contract
      /\ Continued \in Seq(Seq(Items))
      /\ Outcome(Head(Innermost))
  BY BuildStepShape DEF BuildTypes
<1>4. /\ t[Len(built)] \in Nat /\ CountIn(systems, s) \in Nat
      /\ v[Len(Continued)] \in Nat /\ Len(Continued) \in Nat /\ Len(built) \in Nat
  <2>1. Len(Continued) \in Nat /\ Len(built) \in Nat
    BY <1>3
  <2>2. t \in [0..Len(built) -> Nat] /\ v \in [0..Len(Continued) -> Nat]
    BY <1>1, <1>2 DEF AskedUpTo, Pending
  <2>3. CountIn(systems, s) \in Nat
    BY <1>3, CountType
  <2> QED BY <2>1, <2>2, <2>3
<1>5. CASE stack' = Continued /\ UNCHANGED <<built, systems>>
           /\ Head(Innermost) # SystemItem(s)
  <2>1. t[Len(built)] = CountIn(systems, s) + v[Len(Continued)]
    BY <1>1, <1>2, <1>4, <1>5
  <2> QED BY <1>1, <1>2, <1>3, <1>5, <2>1 DEF Balanced
<1>6. ASSUME NEW x \in SystemNames, Head(Innermost) = SystemItem(x),
             systems' = Append(systems, x), stack' = Continued, UNCHANGED built
      PROVE  Balanced(s)'
  <2>1. CountIn(systems', s) = CountIn(systems, s) + (IF x = s THEN 1 ELSE 0)
    BY <1>3, <1>6, CountAppend
  <2>2. t[Len(built)] = CountIn(systems', s) + v[Len(Continued)]
    BY <1>1, <1>2, <1>4, <1>6, <2>1, ItemsDiffer
  <2> QED BY <1>1, <1>2, <1>3, <1>6, <2>2 DEF Balanced
<1>7. ASSUME NEW p \in Plugin, Head(Innermost) = PluginItem(p), UNCHANGED systems,
             built' = Append(built, p), stack' = Append(Continued, contract.build[p])
      PROVE  Balanced(s)'
  <2> DEFINE more == CountIn(contract.build[p], SystemItem(s))
  <2>1. contract.build[p] \in Seq(Items)
    BY <1>3, ContractTypes
  <2>2. PICK a : /\ AskedUpTo(a, contract, Append(built, p), s)
                 /\ a[Len(built) + 1] = t[Len(built)] + more
    BY <1>1, <1>3, AskedPushed
  <2>3. PICK b : /\ Pending(b, Append(Continued, contract.build[p]), s)
                 /\ b[Len(Continued) + 1] = v[Len(Continued)] + more
    BY <1>2, <1>3, <2>1, PendingPushed
  <2>4. Len(built') = Len(built) + 1 /\ Len(stack') = Len(Continued) + 1
    BY <1>3, <1>7, <2>1
  <2>5. more \in Nat
    BY <2>1, CountType
  <2>6. Head(Innermost) # SystemItem(s)
    BY <1>7, ItemsDiffer
  <2> HIDE DEF more
  <2>7. a[Len(built')] = CountIn(systems', s) + b[Len(stack')]
    BY <1>1, <1>2, <1>4, <1>7, <2>2, <2>3, <2>4, <2>5, <2>6
  <2>8. AskedUpTo(a, contract', built', s) /\ Pending(b, stack', s)
    BY <1>3, <1>7, <2>2, <2>3
  <2> QED BY <2>7, <2>8 DEF Balanced
<1> QED
  BY <1>3, <1>5, <1>6, <1>7, ItemsDiffer DEF Outcome

\* A build returns when its list is empty, so nothing is forgotten.
LEMMA ReturnBuilt ==
    ASSUME BuildInv, BuildReturn
    PROVE  BuildInv'
<1> DEFINE n == Len(stack)
<1>1. /\ stack \in Seq(Seq(Items)) /\ stack # <<>> /\ n \in Nat \ {0}
      /\ Innermost = stack[n] /\ stack[n] = <<>>
      /\ stack' = SubSeq(stack, 1, n - 1)
      /\ phase = "building"
      /\ phase' = IF n = 1 THEN "running" ELSE phase
      /\ UNCHANGED <<contract, plugins, systems, built>>
  BY DEF BuildInv, BuildTypes, BuildReturn, Innermost
<1>2. /\ stack' \in Seq(Seq(Items)) /\ Len(stack') = n - 1
      /\ \A k \in 1..(n - 1) : stack'[k] = stack[k]
  <2> DEFINE d == SubSeq(stack, 1, n - 1)
  <2>1. /\ n \in Nat \ {0} /\ 1 \in Int /\ n - 1 \in Int
        /\ \A i \in 1..(n - 1) : stack[i] \in Seq(Items)
    BY <1>1
  <2>2. /\ d \in Seq(Seq(Items))
        /\ Len(d) = IF 1 =< n - 1 THEN (n - 1) - 1 + 1 ELSE 0
        /\ \A i \in 1..((n - 1) - 1 + 1) : d[i] = stack[1 + i - 1]
    BY <2>1, SubSeqProperties
  <2> HIDE DEF n, d
  <2>3. Len(d) = n - 1
    BY <2>1, <2>2
  <2>4. \A i \in 1..(n - 1) : i \in 1..((n - 1) - 1 + 1) /\ 1 + i - 1 = i
    BY <2>1
  <2>5. stack' = d
    BY <1>1 DEF d
  <2> QED BY <2>1, <2>2, <2>3, <2>4, <2>5
<1>3. BuildTypes'
  <2>1. n = 1 => stack' = <<>>
    BY <1>2, EmptySeq
  <2> QED BY <1>1, <1>2, <2>1 DEF BuildInv, BuildTypes
<1>4. OneEachName'
  BY <1>1 DEF BuildInv, OneEachName
<1>5. AskedAreKnown'
  <2>1. AskedAreKnown
    BY <1>1 DEF BuildInv
  <2>2. Elements(stack[n]) = {}
    <3>1. DOMAIN <<>> = {}
      OBVIOUS
    <3> QED BY <1>1, <3>1 DEF Elements
  <2> HIDE DEF n
  <2>3. ASSUME NEW q \in Plugin, Known(q)
        PROVE  Known(q)'
    <3>1. CASE HasPlugin(contract.name[q])
      BY <1>1, <3>1 DEF Known, HasPlugin
    <3>2. ASSUME NEW k \in 1..n, PluginItem(q) \in Elements(stack[k])
          PROVE  Known(q)'
      <4>1. k # n
        BY <2>2, <3>2
      <4>2. k \in 1..(n - 1)
        BY <1>1, <4>1
      <4>3. k \in 1..Len(stack') /\ stack'[k] = stack[k]
        BY <1>2, <4>2
      <4> QED BY <3>2, <4>3 DEF Known
    <3> QED BY <2>3, <3>1, <3>2 DEF Known, n
  <2>4. Lists' = Lists
    BY <1>1 DEF Lists
  <2> QED BY <2>1, <2>3, <2>4 DEF AskedAreKnown
<1>6. ASSUME NEW s \in SystemNames
      PROVE  Balanced(s)'
  <2>1. Balanced(s)
    BY <1>1 DEF BuildInv
  <2>2. PICK t, u : /\ AskedUpTo(t, contract, built, s)
                    /\ Pending(u, stack, s)
                    /\ t[Len(built)] = CountIn(systems, s) + u[Len(stack)]
    BY <2>1 DEF Balanced
  <2>3. PICK v : Pending(v, SubSeq(stack, 1, n - 1), s) /\ v[n - 1] = u[n]
    BY <1>1, <2>2, PendingPopped
  <2>4. Pending(v, stack', s) /\ v[Len(stack')] = u[Len(stack)]
    BY <1>1, <1>2, <2>3
  <2> QED BY <1>1, <2>2, <2>4 DEF Balanced
<1> QED
  BY <1>3, <1>4, <1>5, <1>6 DEF BuildInv

\* A build begins with the contract's own list, all of which is still to be
\* added.
LEMMA StartBuilt ==
    ASSUME BuildInv, StartInvocation
    PROVE  BuildInv'
<1>1. /\ contract \in Contracts /\ UNCHANGED contract
      /\ built' = <<>> /\ plugins' = <<>> /\ systems' = <<>>
      /\ stack' = <<contract.main>> /\ phase' = "building"
  BY DEF BuildInv, BuildTypes, StartInvocation
<1> DEFINE main == contract.main
<1>2. main \in Seq(Items)
  BY <1>1, LoopAssumption
<1>3. stack' \in Seq(Seq(Items)) /\ Len(stack') = 1 /\ stack'[1] = main
  <2> HIDE DEF main
  <2>1. stack' = <<main>>
    BY <1>1 DEF main
  <2> QED BY <1>2, <2>1
<1>4. /\ <<>> \in Seq(Plugin) /\ <<>> \in Seq(Name) /\ <<>> \in Seq(SystemNames)
      /\ Len(built') = 0 /\ Len(plugins') = 0
  BY <1>1, EmptySeq
<1>5. BuildTypes'
  BY <1>1, <1>3, <1>4 DEF BuildTypes
<1>6. OneEachName'
  BY <1>4 DEF OneEachName
<1>7. AskedAreKnown'
  <2>1. Elements(built') = {}
    <3>1. DOMAIN <<>> = {}
      OBVIOUS
    <3> QED BY <1>1, <3>1 DEF Elements
  <2>2. Lists' = {main}
    BY <1>1, <2>1 DEF Lists
  <2>3. \A p : PluginItem(p) \in Elements(main) => Known(p)'
    BY <1>3 DEF Known
  <2> HIDE DEF main
  <2> QED BY <2>2, <2>3 DEF AskedAreKnown
<1>8. ASSUME NEW s \in SystemNames
      PROVE  Balanced(s)'
  <2> DEFINE c == CountIn(main, SystemItem(s))
             t == [i \in 0..0 |-> c]
             u == [i \in 0..1 |-> IF i = 0 THEN 0 ELSE c]
  <2>1. c \in Nat
    BY <1>2, CountType
  <2>2. CountIn(systems', s) = 0
    BY <1>1, CountEmpty
  <2>3. AskedUpTo(t, contract', built', s)
    <3> HIDE DEF c
    <3>1. t \in [0..0 -> Nat] /\ t[0] = c /\ 1..0 = {}
      BY <2>1
    <3> QED BY <1>1, <1>4, <3>1 DEF AskedUpTo, c
  <2>4. Pending(u, stack', s)
    <3> HIDE DEF main
    <3>1. c = CountIn(stack'[1], SystemItem(s))
      BY <1>3
    <3> HIDE DEF c
    <3>2. /\ u \in [0..1 -> Nat] /\ u[0] = 0 /\ u[1] = u[1 - 1] + c
          /\ \A k \in 1..1 : k = 1
      BY <2>1
    <3> HIDE DEF u
    <3> QED BY <1>3, <3>1, <3>2 DEF Pending
  <2>5. t[Len(built')] = CountIn(systems', s) + u[Len(stack')]
    <3> HIDE DEF c
    <3> QED BY <1>3, <1>4, <2>1, <2>2
  <2> HIDE DEF t, u
  <2> QED BY <2>3, <2>4, <2>5 DEF Balanced
<1> QED
  BY <1>5, <1>6, <1>7, <1>8 DEF BuildInv

\* Nothing else changes the app, and a run begins only when the build returns.
LEMMA StepBuilt ==
    ASSUME BuildInv, [Next]_vars
    PROVE  BuildInv'
<1>1. CASE BuildStep
  <2>1. BuildTypes /\ OneEachName /\ phase = "building"
    BY <1>1 DEF BuildInv, BuildStep
  <2>2. AskedAreKnown /\ \A s \in SystemNames : Balanced(s)
    BY <2>1 DEF BuildInv
  <2>3. BuildTypes' /\ OneEachName' /\ AskedAreKnown'
    BY <1>1, <2>1, <2>2, ItemTyped, ItemNames, ItemKnown
  <2>4. \A s \in SystemNames : Balanced(s)'
    BY <1>1, <2>1, <2>2, ItemBalanced
  <2> QED BY <2>3, <2>4 DEF BuildInv
<1>2. ASSUME UNCHANGED <<contract, app>>, phase' = phase \/ phase' = "idle"
      PROVE  BuildInv'
  <2>1. /\ UNCHANGED <<contract, built, plugins, systems, stack>>
        /\ phase' = "running" => phase = "running"
        /\ phase' # "idle" => phase # "idle"
    BY <1>2 DEF app
  <2>2. BuildTypes' /\ OneEachName'
    BY <2>1 DEF BuildInv, BuildTypes, OneEachName
  <2>3. AskedAreKnown => AskedAreKnown'
    BY <2>1 DEF AskedAreKnown, Known, HasPlugin, Lists
  <2>4. \A s \in SystemNames : Balanced(s) => Balanced(s)'
    BY <2>1 DEF Balanced
  <2> QED BY <2>1, <2>2, <2>3, <2>4 DEF BuildInv
<1>3. CASE \/ RunSystem
           \/ EndInvocation
           \/ \E e \in EntityId, d \in Deadline : Call(Commit(e, d))
           \/ \E e \in EntityId : Call(Reveal(e))
           \/ \E e \in EntityId : Call(Discard(e))
           \/ \E e \in EntityId : Call(SubmitProof(e))
           \/ Tick
           \/ UNCHANGED vars
  <2>1. UNCHANGED <<contract, app>> /\ (phase' = phase \/ phase' = "idle")
    BY <1>3 DEF RunSystem, EndInvocation, Call, Tick, vars
  <2> QED BY <1>2, <2>1
<1> QED
  BY <1>1, <1>3, StartBuilt, ReturnBuilt DEF Next

\* The empty app is in balance.
LEMMA InitBuilt == Init => BuildInv
<1> SUFFICES ASSUME Init PROVE BuildInv
  OBVIOUS
<1>1. /\ contract \in Contracts /\ phase = "idle"
      /\ built = <<>> /\ plugins = <<>> /\ systems = <<>> /\ stack = <<>>
  BY DEF Init
<1>2. /\ <<>> \in Seq(Plugin) /\ <<>> \in Seq(Name) /\ <<>> \in Seq(SystemNames)
      /\ <<>> \in Seq(Seq(Items)) /\ Len(built) = 0 /\ Len(plugins) = 0
  BY <1>1, EmptySeq
<1> QED
  BY <1>1, <1>2 DEF BuildInv, BuildTypes, OneEachName

\* The balance holds of every reachable state.
LEMMA AlwaysBuilt == Spec => []BuildInv
<1>1. BuildInv /\ [Next]_vars => BuildInv'
  BY StepBuilt
<1> QED
  BY <1>1, InitBuilt, PTL DEF Spec

-----------------------------------------------------------------------------
(* The sum of what is asked for *)

\* The recursion of Asked is well defined, and what it sums is what Balanced
\* keeps the account of.
LEMMA AskedIsSum ==
    ASSUME BuildTypes, NEW s, NEW t, AskedUpTo(t, contract, built, s)
    PROVE  Asked(s) = t[Len(built)]
<1> DEFINE n == Len(built)
           more(i) == CountIn(contract.build[built[i]], SystemItem(s))
           total[i \in 0..n] == IF i = 0 THEN CountIn(contract.main, SystemItem(s))
                                         ELSE total[i - 1] + more(i)
<1>1. n \in Nat
  BY DEF BuildTypes
<1>2. t = [i \in 0..n |-> IF i = 0 THEN CountIn(contract.main, SystemItem(s))
                                   ELSE t[i - 1] + more(i)]
  <2>1. /\ t \in [0..n -> Nat] /\ t[0] = CountIn(contract.main, SystemItem(s))
        /\ \A i \in 1..n : t[i] = t[i - 1] + more(i)
    BY DEF AskedUpTo
  <2>2. \A i \in 0..n : i = 0 \/ i \in 1..n
    BY <1>1
  <2> HIDE DEF n, more
  <2> QED BY <2>1, <2>2
<1>3. total = [i \in 0..n |-> IF i = 0 THEN CountIn(contract.main, SystemItem(s))
                                       ELSE total[i - 1] + more(i)]
  BY <1>2
<1>4. Asked(s) = total[n]
  BY DEF Asked, SystemItem
<1> HIDE DEF total, n, more
<1> DEFINE S == {i \in Nat : i \in 0..n => total[i] = t[i]}
<1>5. 0 \in S
  BY <1>1, <1>2, <1>3
<1>6. \A i \in Nat : i \in S => i + 1 \in S
  BY <1>1, <1>2, <1>3
<1> HIDE DEF S
<1>7. \A i \in Nat : i \in S
  BY <1>5, <1>6, NumberInduction
<1> QED
  BY <1>1, <1>4, <1>7 DEF S, n

-----------------------------------------------------------------------------
(* The app when the systems run *)

\* Of every name somebody asked for exactly one plugin was built, once, and
\* every system of those plugins is in the scheduler as often as they added it,
\* however the plugins add each other.
THEOREM TheAppIsWhole == Spec => []AppIsWhole
<1>1. ASSUME BuildInv, phase = "running"
      PROVE  /\ \A i, j \in DOMAIN plugins : plugins[i] = plugins[j] => i = j
             /\ \A list \in Lists, p \in Plugin :
                   [adds |-> "plugin", what |-> p] \in Elements(list) =>
                       contract.name[p] \in {contract.name[q] : q \in Elements(built)}
             /\ \A s \in {"deadline", "cleanup", "game"} :
                   CountIn(systems, s) = Asked(s)
  <2>1. BuildTypes /\ OneEachName /\ AskedAreKnown /\ stack = <<>> /\ Len(stack) = 0
    BY <1>1, EmptySeq DEF BuildInv, BuildTypes
  <2>2. DOMAIN plugins = 1..Len(plugins) /\ DOMAIN built = 1..Len(built)
    BY <2>1 DEF BuildTypes
  <2>3. \A i, j \in DOMAIN plugins : plugins[i] = plugins[j] => i = j
    BY <2>1, <2>2 DEF OneEachName
  <2>4. ASSUME NEW list \in Lists, NEW p \in Plugin,
               [adds |-> "plugin", what |-> p] \in Elements(list)
        PROVE  contract.name[p] \in {contract.name[q] : q \in Elements(built)}
    <3>1. Known(p)
      BY <2>1, <2>4 DEF AskedAreKnown, PluginItem
    <3>2. contract.name[p] \in Elements(plugins)
      BY <2>1, <3>1 DEF Known, HasPlugin
    <3>3. PICK i \in 1..Len(plugins) : contract.name[p] = plugins[i]
      BY <2>2, <3>2 DEF Elements
    <3>4. built[i] \in Elements(built) /\ plugins[i] = contract.name[built[i]]
      BY <2>1, <2>2 DEF OneEachName, Elements
    <3> QED BY <3>3, <3>4
  <2>5. ASSUME NEW s \in SystemNames
        PROVE  CountIn(systems, s) = Asked(s)
    <3>1. Balanced(s)
      BY <1>1 DEF BuildInv
    <3>2. PICK t, u : /\ AskedUpTo(t, contract, built, s)
                      /\ Pending(u, stack, s)
                      /\ t[Len(built)] = CountIn(systems, s) + u[Len(stack)]
      BY <3>1 DEF Balanced
    <3>3. u[0] = 0 /\ CountIn(systems, s) \in Nat
      BY <2>1, <3>2, CountType DEF Pending, BuildTypes
    <3>4. Asked(s) = t[Len(built)]
      BY <2>1, <3>2, AskedIsSum
    <3> QED BY <2>1, <3>2, <3>3, <3>4
  <2> QED BY <2>3, <2>4, <2>5 DEF SystemNames
<1>2. BuildInv => AppIsWhole
  BY <1>1 DEF AppIsWhole
<1> QED
  BY <1>2, AlwaysBuilt, PTL

-----------------------------------------------------------------------------
(* Invocations come nearer to their end *)

\* Names that no plugin of the app has yet.
FreeNames == Cardinality(Name) - Len(plugins)

\* What the steps of an invocation use up, in the order of importance: names, the
\* builds under way and the items of the innermost one; then systems.
Bounded ==
    /\ FreeNames \in Nat
    /\ phase = "building" => Len(stack) \in Nat \ {0} /\ Len(Innermost) \in Nat
    /\ phase = "running" => Len(systems) + 1 - position \in Nat

NearerTheEnd ==
    \/ phase' = "idle"
    \/ phase = "building" /\ phase' = "running"
    \/ /\ phase = "building" /\ phase' = "building"
       /\ \/ FreeNames' < FreeNames
          \/ /\ FreeNames' = FreeNames
             /\ \/ Len(stack') < Len(stack)
                \/ Len(stack') = Len(stack) /\ Len(Innermost)' < Len(Innermost)
    \/ /\ phase = "running" /\ phase' = "running"
       /\ Len(systems') + 1 - position' < Len(systems) + 1 - position

\* Every step of an invocation uses up some of what is bounded, if the contracts
\* have finitely many names.
StepsNearTheEnd ==
    [][IsFiniteSet(Name) /\ phase # "idle" => Bounded /\ NearerTheEnd]_vars

\* The phases of an invocation.
PhaseInv ==
    /\ phase \in {"idle", "building", "running"}
    /\ phase = "building" => stack # <<>>
    /\ phase = "running" => position =< Len(systems) + 1

\* What an item does to the stack.
LEMMA BuildStepNearer ==
    ASSUME BuildInv, BuildStep
    PROVE  /\ stack' # <<>>
           /\ \/ Len(plugins') = Len(plugins) + 1
              \/ /\ plugins' = plugins /\ Len(stack') = Len(stack)
                 /\ Len(Innermost)' < Len(Innermost)
<1>1. /\ Len(stack) \in Nat \ {0} /\ Innermost \in Seq(Items) /\ Innermost # <<>>
      /\ Continued \in Seq(Seq(Items)) /\ Len(Continued) = Len(stack)
      /\ Continued[Len(stack)] = Tail(Innermost)
      /\ Outcome(Head(Innermost))
  BY BuildStepShape DEF BuildInv
<1>2. plugins \in Seq(Name) /\ contract \in Contracts
  BY DEF BuildInv, BuildTypes
<1>3. CASE stack' = Continued /\ plugins' = plugins
  <2>1. Len(stack') = Len(stack) /\ stack'[Len(stack')] = Tail(Innermost)
    BY <1>1, <1>3
  <2>2. Innermost' = Tail(Innermost)
    BY <2>1 DEF Innermost
  <2>3. Len(Tail(Innermost)) = Len(Innermost) - 1 /\ Len(Innermost) \in Nat
    BY <1>1, HeadTailProperties, LenProperties
  <2>4. stack' # <<>>
    BY <1>1, <2>1, EmptySeq
  <2>5. Len(Innermost)' = Len(Innermost) - 1
    <3>1. Len(Innermost)' = Len(Innermost')
      OBVIOUS
    <3> QED
      BY <2>2, <2>3, <3>1
  <2>6. Len(Innermost)' < Len(Innermost)
    BY <2>3, <2>5
  <2> QED
    BY <1>3, <2>1, <2>4, <2>6
<1>4. ASSUME NEW p \in Plugin, plugins' = Append(plugins, contract.name[p]),
             stack' = Append(Continued, contract.build[p])
      PROVE  stack' # <<>> /\ Len(plugins') = Len(plugins) + 1
  <2>1. contract.name[p] \in Name /\ contract.build[p] \in Seq(Items)
    BY <1>2, ContractTypes
  <2>2. Len(plugins') = Len(plugins) + 1
    BY <1>2, <1>4, <2>1, AppendProperties
  <2>3. Len(stack') = Len(Continued) + 1
    BY <1>1, <1>4, <2>1, AppendProperties
  <2> QED
    BY <1>1, <2>2, <2>3, EmptySeq
<1> QED
  BY <1>1, <1>3, <1>4 DEF Outcome

\* What a return does to it.
LEMMA BuildReturnNearer ==
    ASSUME BuildInv, BuildReturn
    PROVE  /\ Len(stack) \in Nat \ {0} /\ Len(stack') = Len(stack) - 1
           /\ phase' = "building" => stack' # <<>>
<1>1. /\ stack \in Seq(Seq(Items)) /\ stack # <<>>
      /\ stack' = SubSeq(stack, 1, Len(stack) - 1)
      /\ phase' = IF Len(stack) = 1 THEN "running" ELSE phase
  BY DEF BuildInv, BuildTypes, BuildReturn
<1> DEFINE n == Len(stack)
<1>2. n \in Nat \ {0} /\ \A i \in 1..(n - 1) : stack[i] \in Seq(Items)
  BY <1>1
<1>3. Len(stack') = IF 1 =< n - 1 THEN (n - 1) - 1 + 1 ELSE 0
  BY <1>1, <1>2, SubSeqProperties
<1> HIDE DEF n
<1>4. Len(stack') = n - 1
  BY <1>2, <1>3
<1>5. phase' = "building" => n - 1 # 0
  BY <1>1, <1>2 DEF n
<1>6. stack' = <<>> => Len(stack') = 0
  BY EmptySeq
<1> QED
  BY <1>2, <1>4, <1>5, <1>6 DEF n

\* The phases follow one another.
LEMMA StepPhase ==
    BuildInv /\ RunStartsAtOne /\ PhaseInv /\ [Next]_vars => PhaseInv'
<1> SUFFICES ASSUME BuildInv, RunStartsAtOne, PhaseInv, [Next]_vars PROVE PhaseInv'
  OBVIOUS
<1>0. Len(systems) \in Nat /\ position \in Nat \ {0}
  BY DEF BuildInv, BuildTypes, RunStartsAtOne
<1>1. CASE StartInvocation
  BY <1>1 DEF StartInvocation, PhaseInv
<1>2. CASE BuildStep
  <2>1. phase = "building" /\ phase' = phase
    BY <1>2 DEF BuildStep
  <2> QED
    BY <1>2, <2>1, BuildStepNearer DEF PhaseInv
<1>3. CASE BuildReturn
  <2>1. /\ phase = "building" /\ phase' \in {"building", "running"}
        /\ systems' = systems /\ position' = position
    BY <1>3 DEF BuildReturn
  <2>2. position = 1
    BY <2>1 DEF RunStartsAtOne
  <2> QED
    BY <1>0, <1>3, <2>1, <2>2, BuildReturnNearer DEF PhaseInv
<1>4. CASE RunSystem
  <2>1. /\ phase = "running" /\ phase' = phase /\ systems' = systems
        /\ position =< Len(systems) /\ position' = position + 1
    BY <1>4 DEF RunSystem, Advance, app
  <2> QED
    BY <1>0, <2>1 DEF PhaseInv
<1>5. ASSUME stack' = stack, systems' = systems,
             phase' = "idle" \/ (phase' = phase /\ position' = position)
      PROVE  PhaseInv'
  BY <1>5 DEF PhaseInv
<1>6. CASE \/ EndInvocation
           \/ \E e \in EntityId, d \in Deadline : Call(Commit(e, d))
           \/ \E e \in EntityId : Call(Reveal(e))
           \/ \E e \in EntityId : Call(Discard(e))
           \/ \E e \in EntityId : Call(SubmitProof(e))
           \/ Tick
           \/ UNCHANGED vars
  <2>1. /\ stack' = stack /\ systems' = systems
        /\ phase' = "idle" \/ (phase' = phase /\ position' = position)
    BY <1>6 DEF EndInvocation, Call, Tick, vars, app
  <2> QED
    BY <1>5, <2>1
<1> QED
  BY <1>1, <1>2, <1>3, <1>4, <1>6 DEF Next

\* A plugin has a name of its own, so no more are built than there are names.
LEMMA NamesSuffice ==
    ASSUME IsFiniteSet(Name), BuildInv
    PROVE  Cardinality(Name) \in Nat /\ Len(plugins) \in Nat /\ FreeNames \in Nat
<1> DEFINE n == Len(plugins)
<1>1. /\ plugins \in Seq(Name) /\ n \in Nat
      /\ \A i, j \in 1..n : plugins[i] = plugins[j] => i = j
  BY DEF BuildInv, BuildTypes, OneEachName
<1>2. plugins \in [1..n -> Name]
  BY <1>1, LenProperties
<1>3. plugins \in Injection(1..n, Name)
  BY <1>1, <1>2 DEF Injection, IsInjective
<1>4. Cardinality(1..n) =< Cardinality(Name)
  BY <1>3, FS_Injection
<1>5. Cardinality(1..n) = IF 1 > n THEN 0 ELSE n - 1 + 1
  BY <1>1, FS_Interval
<1>6. Cardinality(Name) \in Nat
  BY FS_CardinalityType
<1> QED
  BY <1>1, <1>4, <1>5, <1>6 DEF FreeNames

\* Each step of an invocation uses something up.
LEMMA NearerStep ==
    ASSUME IsFiniteSet(Name), BuildInv, RunStartsAtOne, PhaseInv, [Next]_vars,
           phase # "idle", ~UNCHANGED vars
    PROVE  Bounded /\ NearerTheEnd
<1>0. /\ Len(systems) \in Nat /\ position \in Nat \ {0}
      /\ stack \in Seq(Seq(Items))
  BY DEF BuildInv, BuildTypes, RunStartsAtOne
<1>1. Bounded
  <2>1. FreeNames \in Nat
    BY NamesSuffice
  <2>2. ASSUME phase = "building"
        PROVE  Len(stack) \in Nat \ {0} /\ Len(Innermost) \in Nat
    <3>1. Len(stack) \in Nat \ {0}
      BY <1>0, <2>2, EmptySeq DEF PhaseInv
    <3>2. Innermost \in Seq(Items)
      BY <1>0, <3>1, ElementOfSeq DEF Innermost
    <3> QED
      BY <3>1, <3>2
  <2>3. phase = "running" => Len(systems) + 1 - position \in Nat
    BY <1>0 DEF PhaseInv
  <2> QED
    BY <2>1, <2>2, <2>3 DEF Bounded
<1>2. CASE BuildStep
  <2>1. phase = "building" /\ phase' = "building"
    BY <1>2 DEF BuildStep
  <2>2. CASE Len(plugins') = Len(plugins) + 1
    <3>1. FreeNames' < FreeNames
      BY <2>2, NamesSuffice DEF FreeNames
    <3> QED
      BY <1>1, <2>1, <3>1 DEF NearerTheEnd
  <2>3. CASE /\ plugins' = plugins /\ Len(stack') = Len(stack)
             /\ Len(Innermost)' < Len(Innermost)
    <3>1. FreeNames' = FreeNames
      BY <2>3 DEF FreeNames
    <3> QED
      BY <1>1, <2>1, <2>3, <3>1 DEF NearerTheEnd
  <2> QED
    BY <1>2, <2>2, <2>3, BuildStepNearer
<1>3. CASE BuildReturn
  <2>1. phase = "building" /\ phase' \in {"building", "running"} /\ plugins' = plugins
    BY <1>3 DEF BuildReturn
  <2>2. FreeNames' = FreeNames
    BY <2>1 DEF FreeNames
  <2>3. Len(stack') < Len(stack)
    BY <1>3, BuildReturnNearer
  <2> QED
    BY <1>1, <2>1, <2>2, <2>3 DEF NearerTheEnd
<1>4. CASE RunSystem
  <2>1. /\ phase = "running" /\ phase' = "running" /\ systems' = systems
        /\ position' = position + 1
    BY <1>4 DEF RunSystem, Advance, app
  <2>2. Len(systems') + 1 - position' < Len(systems) + 1 - position
    BY <1>0, <2>1
  <2> QED
    BY <1>1, <2>1, <2>2 DEF NearerTheEnd
<1>5. CASE EndInvocation
  BY <1>1, <1>5 DEF EndInvocation, NearerTheEnd
<1> QED
  BY <1>2, <1>3, <1>4, <1>5 DEF Next, StartInvocation, Call, Tick

\* Builds that add each other in a circle return, and the loop over the systems is
\* finite (plugin.rs:73, scheduler.rs:105): with finitely many names, each step of an
\* invocation lowers a measure that cannot be lowered for ever.
THEOREM InvocationsComeToAnEnd == Spec => StepsNearTheEnd
<1>1. Init => PhaseInv
  BY DEF Init, PhaseInv
<1>2. LoopInv => RunStartsAtOne
  BY DEF LoopInv
<1>3. BuildInv /\ RunStartsAtOne /\ PhaseInv /\ [Next]_vars =>
         [IsFiniteSet(Name) /\ phase # "idle" => Bounded /\ NearerTheEnd]_vars
  BY NearerStep
<1> QED
  BY <1>1, <1>2, <1>3, StepPhase, Invariance, AlwaysBuilt, PTL DEF Spec, StepsNearTheEnd

-----------------------------------------------------------------------------
(* The loops of MerkleTrees *)

\* What an iteration of a loop makes of the value x before it: those of PowerOf2,
\* At, Default, LayersOver, Climb and Packed; Path's is that of Climb.
Iteration(loop, i, x) ==
    CASE loop.of = "PowerOf2" -> 2 * x
      [] loop.of = "At" -> x \div 2
      [] loop.of = "Default" -> HashPair(x, x)
      [] loop.of = "Layers" ->
           [j \in 0..(PowerOf2[loop.depth - i] - 1) |->
               HashPair(x[2 * j], x[2 * j + 1])]
      [] loop.of = "Climb" ->
           IF loop.onRight[i] THEN HashPair(loop.siblings[i], x)
                              ELSE HashPair(x, loop.siblings[i])
      [] loop.of = "Packed" -> x + (IF loop.path[i] THEN PowerOf2[i - 1] ELSE 0)

\* The values that a loop of n iterations passes through.
Iterated(g, loop, start, n) ==
    g = [i \in 0..n |-> IF i = 0 THEN start ELSE Iteration(loop, i, g[i - 1])]

\* A loop passes through some values.
LEMMA IteratedExists ==
    ASSUME NEW loop, NEW start
    PROVE  \A n \in Nat : \E g : Iterated(g, loop, start, n)
<1> DEFINE S == {n \in Nat : \E g : Iterated(g, loop, start, n)}
<1>1. 0 \in S
  <2> DEFINE g == [i \in 0..0 |-> start]
  <2>1. Iterated(g, loop, start, 0)
    BY DEF Iterated
  <2> QED
    BY <2>1
<1>2. ASSUME NEW n \in Nat, n \in S
      PROVE  n + 1 \in S
  <2>1. PICK g : Iterated(g, loop, start, n)
    BY <1>2
  <2> DEFINE h == [i \in 0..(n + 1) |-> IF i = n + 1 THEN Iteration(loop, n + 1, g[n])
                                                     ELSE g[i]]
  <2>2. \A i \in 0..n : g[i] = IF i = 0 THEN start ELSE Iteration(loop, i, g[i - 1])
    BY <2>1 DEF Iterated
  <2>3. \A i \in 0..(n + 1) :
          h[i] = IF i = 0 THEN start ELSE Iteration(loop, i, h[i - 1])
    <3> SUFFICES ASSUME NEW i \in 0..(n + 1)
                 PROVE  h[i] = IF i = 0 THEN start ELSE Iteration(loop, i, h[i - 1])
      OBVIOUS
    <3>1. CASE i = n + 1
      <4>1. h[i] = Iteration(loop, n + 1, g[n]) /\ h[n] = g[n] /\ n = i - 1 /\ i # 0
        BY <3>1
      <4> HIDE DEF h
      <4> QED
        BY <3>1, <4>1
    <3>2. CASE i # n + 1
      <4>1. i \in 0..n /\ h[i] = g[i] /\ (i # 0 => h[i - 1] = g[i - 1])
        BY <3>2
      <4> HIDE DEF h
      <4> QED
        BY <2>2, <4>1
    <3> QED
      BY <3>1, <3>2
  <2>4. h = [i \in 0..(n + 1) |-> h[i]]
    OBVIOUS
  <2> HIDE DEF h
  <2>5. Iterated(h, loop, start, n + 1)
    BY <2>3, <2>4 DEF Iterated
  <2> QED
    BY <2>5
<1> HIDE DEF S
<1>3. \A n \in Nat : n \in S
  BY <1>1, <1>2, NumberInduction
<1> QED
  BY <1>3 DEF S

\* A longer loop passes through the same values first.
LEMMA IteratedAgree ==
    ASSUME NEW loop, NEW start, NEW n \in Nat, NEW g, NEW h,
           Iterated(g, loop, start, n), Iterated(h, loop, start, n + 1)
    PROVE  g[n] = h[n]
<1> DEFINE S == {i \in Nat : i \in 0..n => g[i] = h[i]}
<1>1. \A i \in 0..n : g[i] = IF i = 0 THEN start ELSE Iteration(loop, i, g[i - 1])
  BY DEF Iterated
<1>2. \A i \in 0..(n + 1) : h[i] = IF i = 0 THEN start ELSE Iteration(loop, i, h[i - 1])
  BY DEF Iterated
<1>3. 0 \in S
  BY <1>1, <1>2
<1>4. ASSUME NEW i \in Nat, i \in S
      PROVE  i + 1 \in S
  <2> SUFFICES ASSUME i + 1 \in 0..n PROVE g[i + 1] = h[i + 1]
    OBVIOUS
  <2>1. i \in 0..n /\ i + 1 \in 0..(n + 1) /\ i + 1 # 0 /\ (i + 1) - 1 = i
    OBVIOUS
  <2>2. g[i] = h[i]
    BY <1>4, <2>1
  <2> QED
    BY <1>1, <1>2, <2>1, <2>2
<1> HIDE DEF S
<1>5. n \in S
  BY <1>3, <1>4, NumberInduction
<1> QED
  BY <1>5 DEF S

\* The values that it passes through when nothing ends it.
Endless(g, loop, start) ==
    g = [i \in Nat |-> IF i = 0 THEN start ELSE Iteration(loop, i, g[i - 1])]

\* There are such values too.
LEMMA LoopExists ==
    ASSUME NEW loop, NEW start
    PROVE  \E g : Endless(g, loop, start)
<1> DEFINE upTo(n) == CHOOSE g : Iterated(g, loop, start, n)
           G == [n \in Nat |-> upTo(n)[n]]
<1>1. \A n \in Nat : Iterated(upTo(n), loop, start, n)
  BY IteratedExists
<1> HIDE DEF upTo
<1>2. ASSUME NEW n \in Nat
      PROVE  G[n] = IF n = 0 THEN start ELSE Iteration(loop, n, G[n - 1])
  <2>1. upTo(n)[n] = IF n = 0 THEN start ELSE Iteration(loop, n, upTo(n)[n - 1])
    BY <1>1 DEF Iterated
  <2>2. CASE n # 0
    <3>1. n - 1 \in Nat /\ n - 1 + 1 = n
      BY <2>2
    <3>2. upTo(n - 1)[n - 1] = upTo(n)[n - 1]
      BY <1>1, <3>1, IteratedAgree
    <3> QED
      BY <2>1, <2>2, <3>1, <3>2
  <2> QED
    BY <2>1, <2>2
<1>3. G = [n \in Nat |-> G[n]]
  OBVIOUS
<1> HIDE DEF G
<1>4. Endless(G, loop, start)
  BY <1>2, <1>3 DEF Endless
<1> QED
  BY <1>4

-----------------------------------------------------------------------------
(* Powers of 2 *)

\* The numbers that size passes through in from_leaves.
LEMMA PowerSteps ==
    /\ PowerOf2[0] = 1
    /\ \A n \in Nat : PowerOf2[n + 1] = 2 * PowerOf2[n]
<1> DEFINE loop == [of |-> "PowerOf2"]
<1>1. \A i, x : Iteration(loop, i, x) = 2 * x
  BY DEF Iteration
<1> HIDE DEF loop
<1>2. PICK g : Endless(g, loop, 1)
  BY LoopExists
<1>3. g = [n \in Nat |-> IF n = 0 THEN 1 ELSE 2 * g[n - 1]]
  BY <1>1, <1>2 DEF Endless
<1>4. PowerOf2 = [n \in Nat |-> IF n = 0 THEN 1 ELSE 2 * PowerOf2[n - 1]]
  BY <1>3 DEF PowerOf2
<1>5. \A n \in Nat : n + 1 \in Nat /\ n + 1 # 0 /\ (n + 1) - 1 = n
  OBVIOUS
<1> QED
  BY <1>4, <1>5

\* Powers are positive.
LEMMA PowerType == \A n \in Nat : PowerOf2[n] \in Nat /\ PowerOf2[n] >= 1
<1> DEFINE S == {n \in Nat : PowerOf2[n] \in Nat /\ PowerOf2[n] >= 1}
<1>1. 0 \in S
  BY PowerSteps
<1>2. ASSUME NEW n \in Nat, n \in S PROVE n + 1 \in S
  <2>1. PowerOf2[n + 1] = 2 * PowerOf2[n]
    BY PowerSteps
  <2> QED
    BY <1>2, <2>1
<1> HIDE DEF S
<1>3. \A n \in Nat : n \in S
  BY <1>1, <1>2, NumberInduction
<1> QED
  BY <1>3 DEF S

\* Every number is less than its power, so some depth has room for any list.
LEMMA PowerGrows == \A n \in Nat : n < PowerOf2[n]
<1> DEFINE S == {n \in Nat : n < PowerOf2[n]}
<1>1. 0 \in S
  BY PowerSteps
<1>2. ASSUME NEW n \in Nat, n \in S PROVE n + 1 \in S
  <2>1. PowerOf2[n + 1] = 2 * PowerOf2[n] /\ PowerOf2[n] \in Nat /\ PowerOf2[n] >= 1
    BY PowerSteps, PowerType
  <2> QED
    BY <1>2, <2>1
<1> HIDE DEF S
<1>3. \A n \in Nat : n \in S
  BY <1>1, <1>2, NumberInduction
<1> QED
  BY <1>3 DEF S

\* The depth has room for the list and no smaller one has.
LEMMA DepthFits ==
    ASSUME NEW n \in Nat \ {0}
    PROVE  /\ DepthFor(n) \in Nat
           /\ n =< PowerOf2[DepthFor(n)]
           /\ \A c \in 0..(DepthFor(n) - 1) : PowerOf2[c] < n
<1> DEFINE S == {d \in Nat : n =< PowerOf2[d]}
<1>1. n \in S
  BY PowerGrows, PowerType
<1>2. PICK d \in S : \A c \in S : d =< c
  BY <1>1, LeastNumber
<1>3. d \in 0..n
  BY <1>1, <1>2
<1>4. \A c \in 0..(d - 1) : c \in Nat /\ ~(d =< c) /\ PowerOf2[c] \in Nat
  BY <1>3, PowerType
<1>5. d \in 0..n /\ n =< PowerOf2[d] /\ \A c \in 0..(d - 1) : PowerOf2[c] < n
  BY <1>2, <1>3, <1>4
<1>6. DepthFor(n) \in 0..n /\ n =< PowerOf2[DepthFor(n)]
      /\ \A c \in 0..(DepthFor(n) - 1) : PowerOf2[c] < n
  BY <1>5 DEF DepthFor
<1> QED
  BY <1>6

-----------------------------------------------------------------------------
(* The way up from a leaf *)

\* idx is halved from level to level.
LEMMA AtSteps ==
    ASSUME NEW i
    PROVE  /\ At(i, 0) = i
           /\ \A l \in Nat : At(i, l + 1) = At(i, l) \div 2
<1> DEFINE halved[l \in Nat] == IF l = 0 THEN i ELSE halved[l - 1] \div 2
           loop == [of |-> "At"]
<1>1. \A l, x : Iteration(loop, l, x) = x \div 2
  BY DEF Iteration
<1>2. \A l : At(i, l) = halved[l]
  BY DEF At
<1> HIDE DEF loop
<1>3. PICK g : Endless(g, loop, i)
  BY LoopExists
<1>4. g = [l \in Nat |-> IF l = 0 THEN i ELSE g[l - 1] \div 2]
  BY <1>1, <1>3 DEF Endless
<1>5. halved = [l \in Nat |-> IF l = 0 THEN i ELSE halved[l - 1] \div 2]
  BY <1>4
<1> HIDE DEF halved
<1>6. halved[0] = i
  BY <1>5
<1>7. ASSUME NEW l \in Nat PROVE halved[l + 1] = halved[l] \div 2
  <2>1. l + 1 \in Nat /\ l + 1 # 0 /\ (l + 1) - 1 = l
    OBVIOUS
  <2> QED
    BY <1>5, <2>1
<1> QED
  BY <1>2, <1>6, <1>7

\* It stays an index.
LEMMA AtType ==
    ASSUME NEW i \in Nat
    PROVE  \A l \in Nat : At(i, l) \in Nat
<1> DEFINE S == {l \in Nat : At(i, l) \in Nat}
<1>1. 0 \in S
  BY AtSteps
<1>2. ASSUME NEW l \in Nat, l \in S PROVE l + 1 \in S
  <2>1. At(i, l + 1) = At(i, l) \div 2
    BY AtSteps
  <2> QED
    BY <1>2, <2>1
<1> HIDE DEF S
<1>3. \A l \in Nat : l \in S
  BY <1>1, <1>2, NumberInduction
<1> QED
  BY <1>3 DEF S

\* At each level it is one of the nodes there.
LEMMA AtBound ==
    ASSUME NEW d \in Nat, NEW i \in 0..(PowerOf2[d] - 1)
    PROVE  \A l \in 0..d : At(i, l) \in 0..(PowerOf2[d - l] - 1)
<1> DEFINE S == {l \in Nat : l \in 0..d => At(i, l) < PowerOf2[d - l]}
<1>1. 0 \in S /\ i \in Nat
  BY AtSteps, PowerType
<1>2. ASSUME NEW l \in Nat, l \in S PROVE l + 1 \in S
  <2> SUFFICES ASSUME l + 1 \in 0..d PROVE At(i, l + 1) < PowerOf2[d - (l + 1)]
    OBVIOUS
  <2>1. d - (l + 1) \in Nat /\ (d - (l + 1)) + 1 = d - l /\ d - l \in Nat
    OBVIOUS
  <2>2. /\ PowerOf2[d - l] = 2 * PowerOf2[d - (l + 1)]
        /\ PowerOf2[d - l] \in Nat /\ PowerOf2[d - (l + 1)] \in Nat
    BY <2>1, PowerSteps, PowerType
  <2>3. At(i, l + 1) = At(i, l) \div 2 /\ At(i, l) \in Nat
    BY <1>1, AtSteps, AtType
  <2>4. At(i, l) < PowerOf2[d - l]
    BY <1>2
  <2> QED
    BY <2>2, <2>3, <2>4
<1> HIDE DEF S
<1>3. \A l \in Nat : l \in S
  BY <1>1, <1>2, NumberInduction
<1> SUFFICES ASSUME NEW l \in 0..d PROVE At(i, l) \in 0..(PowerOf2[d - l] - 1)
  OBVIOUS
<1>4. At(i, l) < PowerOf2[d - l]
  BY <1>3 DEF S
<1>5. l \in Nat /\ At(i, l) \in Nat
  <2>1. l \in Nat /\ i \in Nat
    BY <1>1
  <2> QED
    BY <2>1, AtType
<1>6. PowerOf2[d - l] \in Nat
  BY PowerType
<1> QED
  BY <1>4, <1>5, <1>6

\* A node and its sibling are the two children of the node above.
LEMMA Children ==
    ASSUME NEW i \in Nat, NEW l \in Nat
    PROVE  /\ IsRight(At(i, l)) => /\ At(i, l) = 2 * At(i, l + 1) + 1
                                   /\ Sibling(At(i, l)) = 2 * At(i, l + 1)
           /\ ~IsRight(At(i, l)) => /\ At(i, l) = 2 * At(i, l + 1)
                                    /\ Sibling(At(i, l)) = 2 * At(i, l + 1) + 1
<1>1. At(i, l + 1) = At(i, l) \div 2 /\ At(i, l) \in Nat
  BY AtSteps, AtType
<1> QED
  BY <1>1 DEF IsRight, Sibling

\* Both numbers of children lie in the layer below.
LEMMA BelowBound ==
    ASSUME NEW d \in Nat, NEW l \in 1..d, NEW q \in 0..(PowerOf2[d - l] - 1)
    PROVE  /\ 2 * q \in 0..(PowerOf2[d - (l - 1)] - 1)
           /\ 2 * q + 1 \in 0..(PowerOf2[d - (l - 1)] - 1)
<1>1. d - l \in Nat /\ (d - l) + 1 = d - (l - 1)
  OBVIOUS
<1>2. /\ PowerOf2[d - (l - 1)] = 2 * PowerOf2[d - l]
      /\ PowerOf2[d - l] \in Nat
  BY <1>1, PowerSteps, PowerType
<1> QED
  BY <1>2

\* A function from 1 to n is a list of n elements.
LEMMA ListLength ==
    ASSUME NEW n \in Nat, NEW f, f = [i \in 1..n |-> f[i]]
    PROVE  Len(f) = n
<1> DEFINE T == {f[i] : i \in 1..n}
<1>1. f \in [1..n -> T]
  OBVIOUS
<1>2. f \in Seq(T) /\ DOMAIN f = 1..n
  BY <1>1
<1> QED
  BY <1>2

-----------------------------------------------------------------------------
(* Hashes *)

\* What hashes are computed from can be read off them.
LEMMA PairBinds ==
    /\ \A a, b, c, d : HashPair(a, b) = HashPair(c, d) => a = c /\ b = d
    /\ \A a, b : HashPair(a, b) # Zero /\ HashPair(a, b) # Absent
    /\ Zero # Absent
<1>1. \A a, b, c, d : HashPair(a, b) = HashPair(c, d) => a = c /\ b = d
  BY DEF HashPair
<1>2. \A a, b : HashPair(a, b) # Zero /\ HashPair(a, b) # Absent
  <2> SUFFICES ASSUME NEW a, NEW b PROVE HashPair(a, b) # Zero /\ HashPair(a, b) # Absent
    OBVIOUS
  <2>1. Len(HashPair(a, b)) = 3 /\ Len(Zero) = 1 /\ Len(Absent) = 1
    BY DEF HashPair, Zero, Absent
  <2> QED
    BY <2>1
<1>3. Zero # Absent
  <2>1. Zero[1] = "zero" /\ Absent[1] = "absent"
    BY DEF Zero, Absent
  <2> QED
    BY <2>1
<1> QED
  BY <1>1, <1>2, <1>3

HashTypes == hash \in {"sha256", "poseidon2"}

\* Leaves too, but only SHA256 tells them from pairs.
LEMMA LeafBinds ==
    ASSUME HashTypes
    PROVE  /\ \A d, e : HashLeaf(d) = HashLeaf(e) => d = e
           /\ \A d : HashLeaf(d) # Zero /\ HashLeaf(d) # Absent
           /\ hash = "sha256" => \A d, a, b : HashLeaf(d) # HashPair(a, b)
           /\ hash = "poseidon2" => \A d : HashLeaf(d) = HashPair(d, Zero)
<1>1. CASE hash = "sha256"
  <2>1. \A d : HashLeaf(d) = <<"leaf", d>>
    BY <1>1 DEF HashLeaf
  <2>2. \A d, e : HashLeaf(d) = HashLeaf(e) => d = e
    BY <2>1
  <2>3. ASSUME NEW d, NEW a, NEW b
        PROVE  HashLeaf(d) # Zero /\ HashLeaf(d) # Absent /\ HashLeaf(d) # HashPair(a, b)
    <3>1. Len(HashLeaf(d)) = 2
      BY <2>1
    <3>2. Len(HashPair(a, b)) = 3 /\ Len(Zero) = 1 /\ Len(Absent) = 1
      BY DEF HashPair, Zero, Absent
    <3> QED
      BY <3>1, <3>2
  <2> QED
    BY <1>1, <2>2, <2>3
<1>2. CASE hash = "poseidon2"
  <2>1. \A d : HashLeaf(d) = HashPair(d, Zero)
    BY <1>2 DEF HashLeaf
  <2> QED
    BY <1>2, <2>1, PairBinds
<1> QED
  BY <1>1, <1>2 DEF HashTypes

-----------------------------------------------------------------------------
(* Trees *)

\* t[l][q], up to the root t[depth][0], is the hash of the two nodes below it.
TreeOf(t, depth) ==
    \A l \in 1..depth : \A q \in 0..(PowerOf2[depth - l] - 1) :
        t[l][q] = HashPair(t[l - 1][2 * q], t[l - 1][2 * q + 1])

\* The layers of from_leaves are such a tree.
LEMMA LayersAreTree ==
    ASSUME NEW bottom, NEW depth \in Nat
    PROVE  /\ LayersOver(bottom, depth)[0] = bottom
           /\ TreeOf(LayersOver(bottom, depth), depth)
           /\ DOMAIN LayersOver(bottom, depth) = 0..depth
           /\ \A l \in 1..depth :
                 DOMAIN LayersOver(bottom, depth)[l] = 0..(PowerOf2[depth - l] - 1)
<1> DEFINE layer[l \in 0..depth] ==
               IF l = 0 THEN bottom
               ELSE [i \in 0..(PowerOf2[depth - l] - 1) |->
                       HashPair(layer[l - 1][2 * i], layer[l - 1][2 * i + 1])]
           above(l, x) == [i \in 0..(PowerOf2[depth - l] - 1) |->
                             HashPair(x[2 * i], x[2 * i + 1])]
           loop == [of |-> "Layers", depth |-> depth]
<1>1. \A l, x : Iteration(loop, l, x) = above(l, x)
  BY DEF Iteration
<1>2. LayersOver(bottom, depth) = layer
  BY DEF LayersOver
<1> HIDE DEF loop, above
<1>3. PICK g : Iterated(g, loop, bottom, depth)
  BY IteratedExists
<1>4. g = [l \in 0..depth |-> IF l = 0 THEN bottom ELSE above(l, g[l - 1])]
  BY <1>1, <1>3 DEF Iterated
<1>5. layer = [l \in 0..depth |-> IF l = 0 THEN bottom ELSE above(l, layer[l - 1])]
  BY <1>4 DEF above
<1> HIDE DEF layer
<1>6. layer[0] = bottom /\ DOMAIN layer = 0..depth
  BY <1>5
<1>7. ASSUME NEW l \in 1..depth
      PROVE  layer[l] = [i \in 0..(PowerOf2[depth - l] - 1) |->
                           HashPair(layer[l - 1][2 * i], layer[l - 1][2 * i + 1])]
  <2>1. l \in 0..depth /\ l # 0
    OBVIOUS
  <2>2. layer[l] = above(l, layer[l - 1])
    BY <1>5, <2>1
  <2> QED
    BY <2>2 DEF above
<1> QED
  BY <1>2, <1>6, <1>7 DEF TreeOf

\* The hashes that verify_proof passes through.
Climbed(c, leaf, siblings, onRight) ==
    /\ c[0] = leaf
    /\ \A l \in 1..Len(siblings) :
          c[l] = IF onRight[l] THEN HashPair(siblings[l], c[l - 1])
                               ELSE HashPair(c[l - 1], siblings[l])
    /\ Climb(leaf, siblings, onRight) = c[Len(siblings)]

\* There are such hashes.
LEMMA ClimbSteps ==
    ASSUME NEW leaf, NEW siblings, NEW onRight, Len(siblings) \in Nat
    PROVE  \E c : Climbed(c, leaf, siblings, onRight)
<1> DEFINE current[l \in 0..Len(siblings)] ==
               IF l = 0 THEN leaf
               ELSE IF onRight[l] THEN HashPair(siblings[l], current[l - 1])
                                  ELSE HashPair(current[l - 1], siblings[l])
           loop == [of |-> "Climb", siblings |-> siblings, onRight |-> onRight]
<1>1. \A l, x : Iteration(loop, l, x) = IF onRight[l] THEN HashPair(siblings[l], x)
                                                      ELSE HashPair(x, siblings[l])
  BY DEF Iteration
<1>2. Climb(leaf, siblings, onRight) = current[Len(siblings)]
  BY DEF Climb
<1> HIDE DEF loop
<1>3. PICK g : Iterated(g, loop, leaf, Len(siblings))
  BY IteratedExists
<1>4. g = [l \in 0..Len(siblings) |->
             IF l = 0 THEN leaf
             ELSE IF onRight[l] THEN HashPair(siblings[l], g[l - 1])
                                ELSE HashPair(g[l - 1], siblings[l])]
  BY <1>1, <1>3 DEF Iterated
<1>5. current = [l \in 0..Len(siblings) |->
             IF l = 0 THEN leaf
             ELSE IF onRight[l] THEN HashPair(siblings[l], current[l - 1])
                                ELSE HashPair(current[l - 1], siblings[l])]
  BY <1>4
<1> HIDE DEF current
<1>6. current[0] = leaf
  BY <1>5
<1>7. ASSUME NEW l \in 1..Len(siblings)
      PROVE  current[l] = IF onRight[l] THEN HashPair(siblings[l], current[l - 1])
                                        ELSE HashPair(current[l - 1], siblings[l])
  <2>1. l \in 0..Len(siblings) /\ l # 0
    OBVIOUS
  <2> QED
    BY <1>5, <2>1
<1>8. Climbed(current, leaf, siblings, onRight)
  BY <1>2, <1>6, <1>7 DEF Climbed
<1> QED
  BY <1>8

\* The siblings of the way up, and on which side they are, lead to the root.
LEMMA ClimbUp ==
    ASSUME NEW t, NEW depth \in Nat, TreeOf(t, depth), NEW i \in 0..(PowerOf2[depth] - 1),
           NEW siblings, NEW onRight, Len(siblings) = depth,
           \A l \in 1..depth : siblings[l] = t[l - 1][Sibling(At(i, l - 1))],
           \A l \in 1..depth : onRight[l] <=> IsRight(At(i, l - 1))
    PROVE  Climb(t[0][i], siblings, onRight) = t[depth][0]
<1>1. PICK c : Climbed(c, t[0][i], siblings, onRight)
  BY ClimbSteps
<1> DEFINE S == {l \in Nat : l \in 0..depth => c[l] = t[l][At(i, l)]}
<1>2. i \in Nat
  BY PowerType
<1>3. 0 \in S
  BY <1>1, AtSteps DEF Climbed
<1>4. ASSUME NEW l \in Nat, l \in S PROVE l + 1 \in S
  <2> SUFFICES ASSUME l + 1 \in 0..depth PROVE c[l + 1] = t[l + 1][At(i, l + 1)]
    OBVIOUS
  <2> DEFINE q == At(i, l + 1)
  <2>1. /\ l + 1 \in 1..depth /\ l + 1 \in 0..depth /\ (l + 1) - 1 = l
        /\ c[l] = t[l][At(i, l)]
    BY <1>4
  <2>2. c[l + 1] = IF onRight[l + 1] THEN HashPair(siblings[l + 1], c[l])
                                     ELSE HashPair(c[l], siblings[l + 1])
    BY <1>1, <2>1 DEF Climbed
  <2>3. /\ siblings[l + 1] = t[l][Sibling(At(i, l))]
        /\ onRight[l + 1] <=> IsRight(At(i, l))
    BY <2>1
  <2>4. q \in 0..(PowerOf2[depth - (l + 1)] - 1)
    BY <2>1, AtBound
  <2>5. t[l + 1][q] = HashPair(t[l][2 * q], t[l][2 * q + 1])
    BY <2>1, <2>4 DEF TreeOf
  <2> HIDE DEF q
  <2>6. /\ IsRight(At(i, l)) => At(i, l) = 2 * q + 1 /\ Sibling(At(i, l)) = 2 * q
        /\ ~IsRight(At(i, l)) => At(i, l) = 2 * q /\ Sibling(At(i, l)) = 2 * q + 1
    BY <1>2, Children DEF q
  <2>7. c[l + 1] = t[l + 1][q]
    BY <2>1, <2>2, <2>3, <2>5, <2>6
  <2> QED
    BY <2>7 DEF q
<1> HIDE DEF S
<1>5. depth \in S
  BY <1>3, <1>4, NumberInduction
<1>6. c[depth] = t[depth][At(i, depth)]
  BY <1>5 DEF S
<1>7. At(i, depth) = 0
  <2>1. depth - depth = 0 /\ depth \in 0..depth
    OBVIOUS
  <2>2. At(i, depth) \in 0..(PowerOf2[0] - 1)
    BY <2>1, AtBound
  <2> QED
    BY <2>2, PowerSteps
<1> QED
  BY <1>1, <1>6, <1>7 DEF Climbed

\* Conversely, what leads to the root runs through nodes of the tree, as far down
\* as the tree has layers and the climb has siblings.
LEMMA ClimbInto ==
    ASSUME NEW t, NEW depth \in Nat, TreeOf(t, depth), NEW n \in 0..depth,
           NEW leaf, NEW siblings, NEW onRight, Len(siblings) \in Nat, n =< Len(siblings),
           NEW c, Climbed(c, leaf, siblings, onRight),
           Climb(leaf, siblings, onRight) = t[depth][0]
    PROVE  \E j \in 0..(PowerOf2[n] - 1) : c[Len(siblings) - n] = t[depth - n][j]
<1> DEFINE len == Len(siblings)
           S == {k \in Nat : k \in 0..n =>
                    \E j \in 0..(PowerOf2[k] - 1) : c[len - k] = t[depth - k][j]}
<1>1. 0 \in S
  <2>1. c[len] = t[depth][0] /\ 0 \in 0..(PowerOf2[0] - 1)
    BY PowerSteps DEF Climbed
  <2>2. len - 0 = len /\ depth - 0 = depth
    OBVIOUS
  <2> QED
    BY <2>1, <2>2
<1>2. ASSUME NEW k \in Nat, k \in S PROVE k + 1 \in S
  <2> SUFFICES ASSUME k + 1 \in 0..n
               PROVE  \E j \in 0..(PowerOf2[k + 1] - 1) :
                         c[len - (k + 1)] = t[depth - (k + 1)][j]
    OBVIOUS
  <2> DEFINE l == len - k
             m == depth - k
  <2>1. /\ l \in 1..len /\ m \in 1..depth /\ k \in 0..n
        /\ l - 1 = len - (k + 1) /\ m - 1 = depth - (k + 1) /\ depth - m = k
    OBVIOUS
  <2>2. PICK q \in 0..(PowerOf2[k] - 1) : c[l] = t[m][q]
    BY <1>2, <2>1
  <2> HIDE DEF l, m
  <2>3. t[m][q] = HashPair(t[m - 1][2 * q], t[m - 1][2 * q + 1])
    BY <2>1, <2>2 DEF TreeOf
  <2>4. c[l] = IF onRight[l] THEN HashPair(siblings[l], c[l - 1])
                             ELSE HashPair(c[l - 1], siblings[l])
    BY <2>1 DEF Climbed
  <2>5. c[l - 1] = t[m - 1][2 * q] \/ c[l - 1] = t[m - 1][2 * q + 1]
    BY <2>2, <2>3, <2>4, PairBinds
  <2>6. 2 * q \in 0..(PowerOf2[k + 1] - 1) /\ 2 * q + 1 \in 0..(PowerOf2[k + 1] - 1)
    <3>1. PowerOf2[k + 1] = 2 * PowerOf2[k] /\ PowerOf2[k] \in Nat
      BY PowerSteps, PowerType
    <3> QED
      BY <2>2, <3>1
  <2> QED
    BY <2>1, <2>5, <2>6
<1> HIDE DEF S
<1>3. n \in S
  BY <1>1, <1>2, NumberInduction
<1> QED
  BY <1>3 DEF S

\* A climb no longer than the tree is deep starts at a node of the tree.
LEMMA ClimbDown ==
    ASSUME NEW t, NEW depth \in Nat, TreeOf(t, depth), NEW n \in 0..depth,
           NEW leaf, NEW siblings, NEW onRight, Len(siblings) = n,
           Climb(leaf, siblings, onRight) = t[depth][0]
    PROVE  \E j \in 0..(PowerOf2[n] - 1) : leaf = t[depth - n][j]
<1>1. PICK c : Climbed(c, leaf, siblings, onRight)
  BY ClimbSteps
<1>2. PICK j \in 0..(PowerOf2[n] - 1) : c[n - n] = t[depth - n][j]
  <2>1. Len(siblings) \in Nat /\ n =< Len(siblings)
    OBVIOUS
  <2>2. \E j \in 0..(PowerOf2[n] - 1) : c[Len(siblings) - n] = t[depth - n][j]
    BY <1>1, <2>1, ClimbInto
  <2> QED
    BY <2>2
<1>3. c[n - n] = leaf
  BY <1>1 DEF Climbed
<1> QED
  BY <1>2, <1>3

\* With the sides of the way up from i, it is leaf i.
LEMMA ClimbBack ==
    ASSUME NEW t, NEW depth \in Nat, TreeOf(t, depth), NEW i \in 0..(PowerOf2[depth] - 1),
           NEW leaf, NEW siblings, NEW onRight, Len(siblings) = depth,
           \A l \in 1..depth : onRight[l] <=> IsRight(At(i, l - 1)),
           Climb(leaf, siblings, onRight) = t[depth][0]
    PROVE  leaf = t[0][i]
<1>1. PICK c : Climbed(c, leaf, siblings, onRight)
  BY ClimbSteps
<1> DEFINE S == {k \in Nat : k \in 0..depth =>
                    c[depth - k] = t[depth - k][At(i, depth - k)]}
<1>2. i \in Nat
  BY PowerType
<1>3. 0 \in S
  <2>1. depth - depth = 0 /\ depth - 0 = depth /\ depth \in 0..depth
    OBVIOUS
  <2>2. At(i, depth) \in 0..(PowerOf2[0] - 1)
    BY <2>1, AtBound
  <2>3. At(i, depth) = 0
    BY <2>2, PowerSteps
  <2>4. c[depth] = t[depth][0]
    BY <1>1 DEF Climbed
  <2> QED
    BY <2>1, <2>3, <2>4
<1>4. ASSUME NEW k \in Nat, k \in S PROVE k + 1 \in S
  <2> SUFFICES ASSUME k + 1 \in 0..depth
               PROVE  c[depth - (k + 1)] = t[depth - (k + 1)][At(i, depth - (k + 1))]
    OBVIOUS
  <2> DEFINE l == depth - (k + 1)
             q == At(i, l + 1)
  <2>1. /\ l \in Nat /\ l + 1 = depth - k /\ l + 1 \in 1..depth /\ l + 1 \in 0..depth
        /\ (l + 1) - 1 = l
    OBVIOUS
  <2>2. c[l + 1] = t[l + 1][q]
    BY <1>4, <2>1
  <2>3. q \in 0..(PowerOf2[depth - (l + 1)] - 1)
    BY <2>1, AtBound
  <2> HIDE DEF l
  <2>4. t[l + 1][q] = HashPair(t[l][2 * q], t[l][2 * q + 1])
    BY <2>1, <2>3 DEF TreeOf
  <2>5. c[l + 1] = IF onRight[l + 1] THEN HashPair(siblings[l + 1], c[l])
                                     ELSE HashPair(c[l], siblings[l + 1])
    BY <1>1, <2>1 DEF Climbed
  <2>6. onRight[l + 1] <=> IsRight(At(i, l))
    BY <2>1
  <2> HIDE DEF q
  <2>7. /\ IsRight(At(i, l)) => At(i, l) = 2 * q + 1
        /\ ~IsRight(At(i, l)) => At(i, l) = 2 * q
    BY <1>2, <2>1, Children DEF q
  <2>8. c[l] = t[l][At(i, l)]
    BY <2>2, <2>4, <2>5, <2>6, <2>7, PairBinds
  <2> QED
    BY <2>8 DEF l
<1> HIDE DEF S
<1>5. depth \in S
  BY <1>3, <1>4, NumberInduction
<1>6. c[depth - depth] = t[depth - depth][At(i, depth - depth)] /\ depth - depth = 0
  BY <1>5 DEF S
<1> QED
  BY <1>1, <1>6, AtSteps DEF Climbed

-----------------------------------------------------------------------------
(* Proofs on chain *)

\* Halving a number halves the power that was added to it.
LEMMA AtAdded ==
    ASSUME NEW x \in Nat, NEW d \in Nat
    PROVE  \A j \in 0..d : At(x + PowerOf2[d], j) = At(x, j) + PowerOf2[d - j]
<1> DEFINE S == {j \in Nat : j \in 0..d =>
                    At(x + PowerOf2[d], j) = At(x, j) + PowerOf2[d - j]}
<1>1. 0 \in S
  <2>1. d - 0 = d
    OBVIOUS
  <2> QED
    BY <2>1, AtSteps
<1>2. ASSUME NEW j \in Nat, j \in S PROVE j + 1 \in S
  <2> SUFFICES ASSUME j + 1 \in 0..d
               PROVE  At(x + PowerOf2[d], j + 1) = At(x, j + 1) + PowerOf2[d - (j + 1)]
    OBVIOUS
  <2>1. d - (j + 1) \in Nat /\ (d - (j + 1)) + 1 = d - j /\ j \in 0..d
    OBVIOUS
  <2>2. PowerOf2[d - j] = 2 * PowerOf2[d - (j + 1)] /\ PowerOf2[d - (j + 1)] \in Nat
    BY <2>1, PowerSteps, PowerType
  <2>3. At(x + PowerOf2[d], j) = At(x, j) + PowerOf2[d - j]
    BY <1>2, <2>1
  <2>4. At(x + PowerOf2[d], j + 1) = At(x + PowerOf2[d], j) \div 2
    BY AtSteps
  <2>5. At(x, j + 1) = At(x, j) \div 2 /\ At(x, j) \in Nat
    BY AtSteps, AtType
  <2> QED
    BY <2>2, <2>3, <2>4, <2>5
<1> HIDE DEF S
<1>3. \A j \in Nat : j \in S
  BY <1>1, <1>2, NumberInduction
<1> QED
  BY <1>3 DEF S

\* The numbers that path_bits passes through.
PackedUp(b, path, n) ==
    /\ b[0] = 0
    /\ \A l \in 1..n : b[l] = b[l - 1] + (IF path[l] THEN PowerOf2[l - 1] ELSE 0)
    /\ Packed(path) = b[n]

\* There are such numbers.
LEMMA PackedSteps ==
    ASSUME NEW path, Len(path) \in Nat
    PROVE  \E b : PackedUp(b, path, Len(path))
<1> DEFINE bits[l \in 0..Len(path)] ==
               IF l = 0 THEN 0
               ELSE bits[l - 1] + (IF path[l] THEN PowerOf2[l - 1] ELSE 0)
           loop == [of |-> "Packed", path |-> path]
<1>1. \A l, x : Iteration(loop, l, x) = x + (IF path[l] THEN PowerOf2[l - 1] ELSE 0)
  BY DEF Iteration
<1>2. Packed(path) = bits[Len(path)]
  BY DEF Packed
<1> HIDE DEF loop
<1>3. PICK g : Iterated(g, loop, 0, Len(path))
  BY IteratedExists
<1>4. g = [l \in 0..Len(path) |->
             IF l = 0 THEN 0
             ELSE g[l - 1] + (IF path[l] THEN PowerOf2[l - 1] ELSE 0)]
  BY <1>1, <1>3 DEF Iterated
<1>5. bits = [l \in 0..Len(path) |->
             IF l = 0 THEN 0
             ELSE bits[l - 1] + (IF path[l] THEN PowerOf2[l - 1] ELSE 0)]
  BY <1>4
<1> HIDE DEF bits
<1>6. bits[0] = 0
  BY <1>5
<1>7. ASSUME NEW l \in 1..Len(path)
      PROVE  bits[l] = bits[l - 1] + (IF path[l] THEN PowerOf2[l - 1] ELSE 0)
  <2>1. l \in 0..Len(path) /\ l # 0
    OBVIOUS
  <2> QED
    BY <1>5, <2>1
<1>8. PackedUp(bits, path, Len(path))
  BY <1>2, <1>6, <1>7 DEF PackedUp
<1> QED
  BY <1>8

\* verify_inclusion reads the directions off path_bits that to_on_chain_proof
\* packed there.
LEMMA Unpacked ==
    ASSUME NEW path, Len(path) \in Nat
    PROVE  \A l \in 1..Len(path) : At(Packed(path), l - 1) % 2 = 1 <=> path[l]
<1> DEFINE n == Len(path)
<1>1. PICK b : PackedUp(b, path, n)
  BY PackedSteps
<1> DEFINE bit(x, k) == At(x, k - 1) % 2 = 1
           S == {l \in Nat : l \in 0..n =>
                    /\ b[l] \in 0..(PowerOf2[l] - 1)
                    /\ \A k \in 1..l : bit(b[l], k) <=> path[k]}
<1>2. 0 \in S
  <2>1. b[0] = 0 /\ PowerOf2[0] = 1
    BY <1>1, PowerSteps DEF PackedUp
  <2> QED
    BY <2>1
<1>3. ASSUME NEW l \in Nat, l \in S PROVE l + 1 \in S
  <2> SUFFICES ASSUME l + 1 \in 0..n
               PROVE  /\ b[l + 1] \in 0..(PowerOf2[l + 1] - 1)
                      /\ \A k \in 1..(l + 1) : bit(b[l + 1], k) <=> path[k]
    OBVIOUS
  <2> HIDE DEF bit
  <2>1. l + 1 \in 1..n /\ (l + 1) - 1 = l /\ l \in 0..n
    OBVIOUS
  <2>2. b[l + 1] = b[l] + (IF path[l + 1] THEN PowerOf2[l] ELSE 0)
    BY <1>1, <2>1 DEF PackedUp
  <2>3. b[l] \in 0..(PowerOf2[l] - 1) /\ \A k \in 1..l : bit(b[l], k) <=> path[k]
    BY <1>3, <2>1
  <2>4. PowerOf2[l + 1] = 2 * PowerOf2[l] /\ PowerOf2[l] \in Nat /\ b[l] \in Nat
    <3>1. b[l] \in Nat
      BY <2>3
    <3> QED
      BY <3>1, PowerSteps, PowerType
  <2>5. b[l + 1] \in 0..(PowerOf2[l + 1] - 1)
    BY <2>2, <2>3, <2>4
  <2>6. At(b[l], l) = 0
    <3>1. l - l = 0 /\ l \in 0..l
      OBVIOUS
    <3>2. At(b[l], l) \in 0..(PowerOf2[0] - 1)
      BY <2>3, <3>1, AtBound
    <3> QED
      BY <3>2, PowerSteps
  <2>7. ASSUME NEW k \in 1..(l + 1)
        PROVE  bit(b[l + 1], k) <=> path[k]
    <3>1. k - 1 \in 0..l /\ k - 1 \in Nat
      OBVIOUS
    <3>2. At(b[l], k - 1) \in Nat
      BY <2>4, <3>1, AtType
    <3>3. CASE path[l + 1]
      <4>1. At(b[l + 1], k - 1) = At(b[l], k - 1) + PowerOf2[l - (k - 1)]
        <5>1. b[l + 1] = b[l] + PowerOf2[l]
          BY <2>2, <3>3
        <5>2. At(b[l] + PowerOf2[l], k - 1) = At(b[l], k - 1) + PowerOf2[l - (k - 1)]
          BY <2>4, <3>1, AtAdded
        <5> QED
          BY <5>1, <5>2
      <4>2. CASE k = l + 1
        <5>1. k - 1 = l /\ l - (k - 1) = 0
          BY <4>2
        <5>2. At(b[l], k - 1) = 0 /\ PowerOf2[l - (k - 1)] = 1
          BY <2>6, <5>1, PowerSteps
        <5>3. At(b[l + 1], k - 1) = 1
          BY <4>1, <5>2
        <5> QED
          BY <3>3, <4>2, <5>3 DEF bit
      <4>3. CASE k # l + 1
        <5>1. k \in 1..l /\ l - k \in Nat /\ (l - k) + 1 = l - (k - 1)
          BY <4>3
        <5>2. PowerOf2[l - (k - 1)] = 2 * PowerOf2[l - k] /\ PowerOf2[l - k] \in Nat
          BY <5>1, PowerSteps, PowerType
        <5>3. At(b[l + 1], k - 1) % 2 = At(b[l], k - 1) % 2
          BY <3>2, <4>1, <5>2
        <5>4. bit(b[l], k) <=> path[k]
          BY <2>3, <5>1
        <5> QED
          BY <5>3, <5>4 DEF bit
      <4> QED
        BY <4>2, <4>3
    <3>4. CASE ~path[l + 1]
      <4>1. b[l + 1] = b[l]
        BY <2>2, <2>4, <3>4
      <4>2. CASE k = l + 1
        <5>1. At(b[l + 1], k - 1) = 0
          BY <2>6, <4>1, <4>2
        <5> QED
          BY <3>4, <4>2, <5>1 DEF bit
      <4>3. CASE k # l + 1
        <5>1. k \in 1..l
          BY <4>3
        <5> QED
          BY <2>3, <4>1, <5>1
      <4> QED
        BY <4>2, <4>3
    <3> QED
      BY <3>3, <3>4
  <2> QED
    BY <2>5, <2>7
<1> HIDE DEF S
<1>4. n \in S
  BY <1>2, <1>3, NumberInduction
<1>5. \A k \in 1..n : bit(b[n], k) <=> path[k]
  BY <1>4 DEF S
<1>6. Packed(path) = b[n]
  BY <1>1 DEF PackedUp
<1> QED
  BY <1>5, <1>6

-----------------------------------------------------------------------------
(* MerkleTree *)

\* The depth of the tree over a list.
DepthOf(list) == DepthFor(Len(list))

\* from_leaves: the leaves, filled up with zeros, and the tree over them.
LEMMA ListTree ==
    ASSUME NEW list \in Seq(Data), list # <<>>
    PROVE  /\ DepthOf(list) \in Nat /\ Len(list) \in Nat \ {0}
           /\ Len(list) =< PowerOf2[DepthOf(list)] /\ PowerOf2[DepthOf(list)] \in Nat
           /\ \A c \in 0..(DepthOf(list) - 1) : PowerOf2[c] < Len(list)
           /\ TreeOf(Layers(list), DepthOf(list))
           /\ \A i \in 0..(PowerOf2[DepthOf(list)] - 1) :
                 Layers(list)[0][i] = Padded(list, i)
           /\ RootOf(list) = Layers(list)[DepthOf(list)][0]
<1> DEFINE depth == DepthOf(list)
           bottom == [i \in 0..(PowerOf2[depth] - 1) |-> Padded(list, i)]
<1>1. Len(list) \in Nat \ {0}
  BY EmptySeq, LenProperties
<1>2. depth \in Nat /\ Len(list) =< PowerOf2[depth] /\ PowerOf2[depth] \in Nat
      /\ \A c \in 0..(depth - 1) : PowerOf2[c] < Len(list)
  BY <1>1, DepthFits, PowerType DEF DepthOf
<1>3. Layers(list) = LayersOver(bottom, depth) /\ RootOf(list) = Layers(list)[depth][0]
  BY DEF Layers, RootOf, DepthOf
<1> HIDE DEF depth
<1>4. Layers(list)[0] = bottom /\ TreeOf(Layers(list), depth)
  BY <1>2, <1>3, LayersAreTree
<1> QED
  BY <1>1, <1>2, <1>3, <1>4 DEF depth

\* The leaf of a list that a node of the bottom layer stands for.
LEMMA LeafOfNode ==
    ASSUME NEW list \in Seq(Data), HashTypes, NEW i \in Nat
    PROVE  /\ i < Len(list) => Padded(list, i) = HashLeaf(list[i + 1])
           /\ ~(i < Len(list)) => Padded(list, i) = Zero
           /\ Padded(list, i) # Zero => i < Len(list)
BY DEF Padded

\* get_proof goes up the tree that verify_proof and verify_inclusion climb.
LEMMA ProofOfVerifies ==
    ASSUME NEW list \in Seq(Data), NEW i \in 0..(Len(list) - 1)
    PROVE  /\ VerifyProof(ProofOf(list, i), RootOf(list))
           /\ VerifyInclusion(ToOnChainProof(ProofOf(list, i)), RootOf(list))
<1> DEFINE depth == DepthOf(list)
           t == Layers(list)
           siblings == [l \in 1..depth |-> t[l - 1][Sibling(At(i, l - 1))]]
           path == [l \in 1..depth |-> IsRight(At(i, l - 1))]
           proof == ProofOf(list, i)
           onRight == [l \in 1..depth |-> At(Packed(path), l - 1) % 2 = 1]
<1>1. list # <<>> /\ Len(list) \in Nat
  BY LenProperties
<1>2. /\ depth \in Nat /\ TreeOf(t, depth) /\ RootOf(list) = t[depth][0]
      /\ Len(list) =< PowerOf2[depth] /\ PowerOf2[depth] \in Nat
  BY <1>1, ListTree
<1>3. i \in 0..(PowerOf2[depth] - 1)
  BY <1>1, <1>2
<1>4. proof = [siblings |-> siblings, path_indices |-> path, leaf |-> t[0][i]]
  BY DEF ProofOf, DepthOf
<1> HIDE DEF depth, t, proof
<1>5. Len(siblings) = depth /\ Len(path) = depth
  BY <1>2, ListLength
<1>6. \A l \in 1..depth : /\ siblings[l] = t[l - 1][Sibling(At(i, l - 1))]
                          /\ path[l] <=> IsRight(At(i, l - 1))
  OBVIOUS
<1>7. \A l \in 1..depth : onRight[l] <=> (At(Packed(path), l - 1) % 2 = 1)
  OBVIOUS
<1>8. ToOnChainProof(proof) = [siblings |-> siblings, path_bits |-> Packed(path),
                               leaf |-> t[0][i], depth |-> depth]
  BY <1>4, <1>5 DEF ToOnChainProof
<1>10. VerifyProof(proof, RootOf(list)) <=> Climb(t[0][i], siblings, path) = RootOf(list)
  BY <1>4 DEF VerifyProof
<1> HIDE DEF siblings, path
<1>9. VerifyInclusion(ToOnChainProof(proof), RootOf(list)) <=>
         Climb(t[0][i], siblings, onRight) = RootOf(list)
  <2> DEFINE short == ToOnChainProof(proof)
  <2>1. /\ short.siblings = siblings /\ short.path_bits = Packed(path)
        /\ short.leaf = t[0][i] /\ short.depth = depth
    BY <1>8
  <2> HIDE DEF short
  <2>2. VerifyInclusion(short, RootOf(list)) <=>
           Climb(t[0][i], siblings, onRight) = RootOf(list)
    BY <1>5, <2>1 DEF VerifyInclusion
  <2> QED
    BY <2>2 DEF short
<1> HIDE DEF onRight
<1>11. \A l \in 1..depth : onRight[l] <=> IsRight(At(i, l - 1))
  BY <1>2, <1>5, <1>6, <1>7, Unpacked
<1>12. Climb(t[0][i], siblings, path) = t[depth][0]
  <2>1. \A l \in 1..depth : path[l] <=> IsRight(At(i, l - 1))
    BY <1>6
  <2>2. \A l \in 1..depth : siblings[l] = t[l - 1][Sibling(At(i, l - 1))]
    BY <1>6
  <2> QED
    BY <1>2, <1>3, <1>5, <2>1, <2>2, ClimbUp, SMTT(60)
<1>13. Climb(t[0][i], siblings, onRight) = t[depth][0]
  BY <1>2, <1>3, <1>5, <1>6, <1>11, ClimbUp
<1> QED
  BY <1>2, <1>9, <1>10, <1>12, <1>13 DEF proof

\* Trees with the same root agree from the root down.
LEMMA Descend ==
    ASSUME NEW t, NEW d \in Nat, TreeOf(t, d), NEW u, NEW e \in Nat, TreeOf(u, e),
           t[d][0] = u[e][0]
    PROVE  \A k \in Nat : k =< d /\ k =< e =>
              \A q \in 0..(PowerOf2[k] - 1) : t[d - k][q] = u[e - k][q]
<1> DEFINE S == {k \in Nat : k =< d /\ k =< e =>
                    \A q \in 0..(PowerOf2[k] - 1) : t[d - k][q] = u[e - k][q]}
<1>1. 0 \in S
  <2>1. d - 0 = d /\ e - 0 = e /\ PowerOf2[0] = 1
    BY PowerSteps
  <2>2. \A q \in 0..(PowerOf2[0] - 1) : q = 0
    BY <2>1
  <2> QED
    BY <2>1, <2>2
<1>2. ASSUME NEW k \in Nat, k \in S PROVE k + 1 \in S
  <2> SUFFICES ASSUME k + 1 =< d, k + 1 =< e, NEW q \in 0..(PowerOf2[k + 1] - 1)
               PROVE  t[d - (k + 1)][q] = u[e - (k + 1)][q]
    OBVIOUS
  <2> DEFINE l == d - k
             m == e - k
             p == q \div 2
  <2>1. /\ l \in 1..d /\ m \in 1..e /\ l - 1 = d - (k + 1) /\ m - 1 = e - (k + 1)
        /\ d - l = k /\ e - m = k
    OBVIOUS
  <2>2. PowerOf2[k + 1] = 2 * PowerOf2[k] /\ PowerOf2[k] \in Nat
    BY PowerSteps, PowerType
  <2>3. p \in 0..(PowerOf2[k] - 1) /\ (q = 2 * p \/ q = 2 * p + 1)
    BY <2>2
  <2>4. t[l][p] = u[m][p]
    BY <1>2, <2>3
  <2> HIDE DEF l, m, p
  <2>5. /\ t[l][p] = HashPair(t[l - 1][2 * p], t[l - 1][2 * p + 1])
        /\ u[m][p] = HashPair(u[m - 1][2 * p], u[m - 1][2 * p + 1])
    BY <2>1, <2>3 DEF TreeOf
  <2>6. /\ t[l - 1][2 * p] = u[m - 1][2 * p]
        /\ t[l - 1][2 * p + 1] = u[m - 1][2 * p + 1]
    <3> DEFINE tl == t[l - 1][2 * p]
               tr == t[l - 1][2 * p + 1]
               ul == u[m - 1][2 * p]
               ur == u[m - 1][2 * p + 1]
    <3>1. HashPair(tl, tr) = HashPair(ul, ur)
      BY <2>4, <2>5
    <3> HIDE DEF tl, tr, ul, ur
    <3>2. tl = ul /\ tr = ur
      BY <3>1 DEF HashPair
    <3> QED
      BY <3>2 DEF tl, tr, ul, ur
  <2>7. t[l - 1][q] = u[m - 1][q]
    BY <2>3, <2>6
  <2> QED
    BY <2>1, <2>7
<1> HIDE DEF S
<1>3. \A k \in Nat : k \in S
  BY <1>1, <1>2, NumberInduction
<1> QED
  BY <1>3 DEF S

\* No root is that of a shallower tree too.
LEMMA SameDepth ==
    ASSUME HashTypes, NEW a \in Seq(Data), a # <<>>, NEW b \in Seq(Data), b # <<>>,
           RootOf(a) = RootOf(b)
    PROVE  ~(DepthOf(a) < DepthOf(b))
<1> DEFINE d == DepthOf(a)
           e == DepthOf(b)
           t == Layers(a)
           u == Layers(b)
           m == e - d
<1> SUFFICES ASSUME d < e PROVE FALSE
  OBVIOUS
<1>1. /\ d \in Nat /\ TreeOf(t, d) /\ RootOf(a) = t[d][0] /\ Len(a) \in Nat \ {0}
      /\ \A i \in 0..(PowerOf2[d] - 1) : t[0][i] = Padded(a, i)
  BY ListTree
<1>2. /\ e \in Nat /\ TreeOf(u, e) /\ RootOf(b) = u[e][0] /\ Len(b) \in Nat \ {0}
      /\ \A i \in 0..(PowerOf2[e] - 1) : u[0][i] = Padded(b, i)
      /\ \A c \in 0..(e - 1) : PowerOf2[c] < Len(b)
  BY ListTree
<1> HIDE DEF d, e, t, u
<1>3. m \in 1..e /\ d - d = 0 /\ e - m = d /\ m - 1 \in Nat
  BY <1>1, <1>2
<1>4. PowerOf2[d] \in Nat /\ 0 \in 0..(PowerOf2[d] - 1)
  BY <1>1, PowerType
<1>5. t[d - d][0] = u[e - d][0]
  <2>1. d =< d /\ d =< e
    BY <1>1, <1>2
  <2>3. t[d][0] = u[e][0]
    BY <1>1, <1>2, Zenon
  <2>2. \A k \in Nat : k =< d /\ k =< e =>
           \A q \in 0..(PowerOf2[k] - 1) : t[d - k][q] = u[e - k][q]
    BY <1>1, <1>2, <2>3, Descend
  <2> QED
    BY <1>1, <1>4, <2>1, <2>2
<1>6. u[m][0] = HashLeaf(a[1])
  <2>1. t[0][0] = Padded(a, 0) /\ 0 < Len(a) /\ 0 + 1 = 1
    BY <1>1, <1>4
  <2>2. Padded(a, 0) = HashLeaf(a[1])
    BY <2>1, LeafOfNode
  <2> QED
    BY <1>3, <1>5, <2>1, <2>2
<1>7. u[m][0] = HashPair(u[m - 1][0], u[m - 1][1])
  <2>1. u[m][0] = HashPair(u[m - 1][2 * 0], u[m - 1][2 * 0 + 1])
    BY <1>2, <1>3, <1>4 DEF TreeOf
  <2> QED
    BY <2>1
<1>8. hash = "poseidon2" /\ u[m - 1][1] = Zero
  <2> DEFINE left == u[m - 1][0]
             right == u[m - 1][1]
  <2>1. HashLeaf(a[1]) = HashPair(left, right)
    BY <1>6, <1>7
  <2> HIDE DEF left, right
  <2>2. hash # "sha256"
    BY <2>1, LeafBinds, Zenon
  <2>3. HashPair(a[1], Zero) = HashPair(left, right) /\ hash = "poseidon2"
    BY <2>1, <2>2, LeafBinds DEF HashTypes
  <2>4. right = Zero
    BY <2>3, PairBinds, Zenon
  <2> QED
    BY <2>3, <2>4 DEF right
<1>9. CASE m = 1
  <2>1. m - 1 = 0 /\ e = d + 1 /\ 0 \in 0..(e - 1)
    BY <1>1, <1>2, <1>9
  <2>2. PowerOf2[e] = 2 * PowerOf2[d] /\ PowerOf2[d] >= 1
    BY <1>1, <2>1, PowerSteps, PowerType
  <2>3. 1 \in 0..(PowerOf2[e] - 1)
    BY <1>4, <2>2
  <2>4. PowerOf2[0] < Len(b) /\ PowerOf2[0] = 1
    BY <1>2, <2>1, PowerSteps
  <2>5. u[0][1] = Padded(b, 1)
    BY <1>2, <2>3
  <2>6. Padded(b, 1) = HashLeaf(b[1 + 1])
    BY <2>4, LeafOfNode
  <2> QED
    BY <1>8, <2>1, <2>5, <2>6, LeafBinds
<1>10. CASE m # 1
  <2>1. m - 1 \in 1..e /\ e - (m - 1) = d + 1
    BY <1>1, <1>2, <1>10
  <2>2. PowerOf2[d + 1] = 2 * PowerOf2[d] /\ PowerOf2[d] >= 1
    BY <1>1, PowerSteps, PowerType
  <2>3. 1 \in 0..(PowerOf2[d + 1] - 1)
    BY <1>4, <2>2
  <2> DEFINE n == m - 1
  <2>4. u[n][1] = HashPair(u[n - 1][2 * 1], u[n - 1][2 * 1 + 1])
    BY <1>2, <2>1, <2>3 DEF TreeOf
  <2> QED
    BY <1>8, <2>4, PairBinds
<1> QED
  BY <1>9, <1>10

\* A root has one list of leaves.
LEMMA RootsBind ==
    ASSUME HashTypes, NEW a \in Seq(Data), a # <<>>, NEW b \in Seq(Data), b # <<>>,
           RootOf(a) = RootOf(b)
    PROVE  a = b
<1> DEFINE d == DepthOf(a)
           t == Layers(a)
           u == Layers(b)
<1>1. /\ d \in Nat /\ TreeOf(t, d) /\ RootOf(a) = t[d][0] /\ Len(a) \in Nat
      /\ \A i \in 0..(PowerOf2[d] - 1) : t[0][i] = Padded(a, i)
      /\ Len(a) =< PowerOf2[d] /\ PowerOf2[d] \in Nat
  BY ListTree
<1>2. /\ DepthOf(b) \in Nat /\ TreeOf(u, DepthOf(b)) /\ RootOf(b) = u[DepthOf(b)][0]
      /\ \A i \in 0..(PowerOf2[DepthOf(b)] - 1) : u[0][i] = Padded(b, i)
      /\ Len(b) =< PowerOf2[DepthOf(b)] /\ Len(b) \in Nat
  BY ListTree
<1>3. DepthOf(b) = d
  <2>1. ~(d < DepthOf(b)) /\ ~(DepthOf(b) < d)
    BY SameDepth
  <2> QED
    BY <1>1, <1>2, <2>1
<1> HIDE DEF d, t, u
<1>4. ASSUME NEW q \in 0..(PowerOf2[d] - 1)
      PROVE  Padded(a, q) = Padded(b, q)
  <2>1. d - d = 0
    BY <1>1
  <2>2. t[d][0] = u[d][0]
    BY <1>1, <1>2, <1>3, Zenon
  <2>5. d =< d
    BY <1>1
  <2>3. \A k \in Nat : k =< d /\ k =< d =>
           \A p \in 0..(PowerOf2[k] - 1) : t[d - k][p] = u[d - k][p]
    BY <1>1, <1>2, <1>3, <2>2, Descend
  <2>4. t[d - d][q] = u[d - d][q]
    BY <1>1, <2>5, <2>3
  <2> QED
    BY <1>1, <1>2, <1>3, <2>1, <2>4
<1>5. ~(Len(a) < Len(b))
  <2> SUFFICES ASSUME Len(a) < Len(b) PROVE FALSE
    OBVIOUS
  <2>1. Len(a) \in 0..(PowerOf2[d] - 1) /\ ~(Len(a) < Len(a))
    BY <1>1, <1>2, <1>3
  <2>2. Padded(a, Len(a)) = Zero /\ Padded(b, Len(a)) = HashLeaf(b[Len(a) + 1])
    BY <1>1, <2>1, LeafOfNode
  <2> QED
    BY <1>4, <2>1, <2>2, LeafBinds
<1>6. ~(Len(b) < Len(a))
  <2> SUFFICES ASSUME Len(b) < Len(a) PROVE FALSE
    OBVIOUS
  <2>1. Len(b) \in 0..(PowerOf2[d] - 1) /\ ~(Len(b) < Len(b))
    BY <1>1, <1>2, <1>3
  <2>2. Padded(b, Len(b)) = Zero /\ Padded(a, Len(b)) = HashLeaf(a[Len(b) + 1])
    BY <1>2, <2>1, LeafOfNode
  <2> QED
    BY <1>4, <2>1, <2>2, LeafBinds
<1>7. Len(a) = Len(b)
  BY <1>1, <1>2, <1>5, <1>6
<1>8. ASSUME NEW i \in 1..Len(a) PROVE a[i] = b[i]
  <2>1. i - 1 \in Nat /\ i - 1 \in 0..(PowerOf2[d] - 1) /\ i - 1 < Len(a) /\ (i - 1) + 1 = i
    BY <1>1
  <2>2. Padded(a, i - 1) = HashLeaf(a[i]) /\ Padded(b, i - 1) = HashLeaf(b[i])
    BY <1>7, <2>1, LeafOfNode
  <2> QED
    BY <1>4, <2>1, <2>2, LeafBinds
<1> QED
  BY <1>7, <1>8, SeqEqual

\* With SHA256 no climb that is longer than the tree is deep leads to the root:
\* the layer of the leaves holds no pair.
LEMMA ClimbsAreShort ==
    ASSUME hash = "sha256", NEW list \in Seq(Data), list # <<>>,
           NEW leaf, NEW siblings, Len(siblings) \in Nat, Len(siblings) > DepthOf(list),
           NEW path
    PROVE  Climb(leaf, siblings, path) # RootOf(list)
<1> DEFINE depth == DepthOf(list)
           t == Layers(list)
           l == Len(siblings) - depth
<1> SUFFICES ASSUME Climb(leaf, siblings, path) = RootOf(list) PROVE FALSE
  OBVIOUS
<1>1. /\ depth \in Nat /\ TreeOf(t, depth) /\ RootOf(list) = t[depth][0]
      /\ \A i \in 0..(PowerOf2[depth] - 1) : t[0][i] = Padded(list, i)
      /\ Len(list) \in Nat
  BY ListTree
<1>2. PICK c : Climbed(c, leaf, siblings, path)
  BY ClimbSteps
<1> HIDE DEF t
<1>3. depth \in 0..depth /\ depth =< Len(siblings) /\ depth - depth = 0
  BY <1>1
<1> HIDE DEF depth
<1>4. PICK j \in 0..(PowerOf2[depth] - 1) : c[Len(siblings) - depth] = t[depth - depth][j]
  BY <1>1, <1>2, <1>3, ClimbInto
<1>5. c[l] = Padded(list, j)
  BY <1>1, <1>3, <1>4
<1>6. l \in 1..Len(siblings)
  BY <1>1 DEF depth
<1>7. c[l] = IF path[l] THEN HashPair(siblings[l], c[l - 1]) ELSE HashPair(c[l - 1], siblings[l])
  BY <1>2, <1>6 DEF Climbed
<1>8. PICK a, b : c[l] = HashPair(a, b)
  BY <1>7
<1>9. Padded(list, j) = Zero \/ Padded(list, j) = HashLeaf(list[j + 1])
  BY DEF Padded
<1>10. HashTypes
  BY DEF HashTypes
<1> QED
  BY <1>5, <1>8, <1>9, <1>10, LeafBinds, PairBinds

\* A climb from a leaf's hash to a list's root starts at one of its leaves.
LEMMA ClimbsBind ==
    ASSUME HashTypes, NEW list \in Seq(Data), list # <<>>,
           NEW n \in 0..DepthOf(list), hash = "poseidon2" => n = DepthOf(list),
           NEW d, NEW siblings, Len(siblings) = n, NEW path,
           Climb(HashLeaf(d), siblings, path) = RootOf(list)
    PROVE  \E i \in DOMAIN list : d = list[i]
<1> DEFINE depth == DepthOf(list)
           t == Layers(list)
<1>1. /\ depth \in Nat /\ TreeOf(t, depth) /\ RootOf(list) = t[depth][0]
      /\ \A i \in 0..(PowerOf2[depth] - 1) : t[0][i] = Padded(list, i)
      /\ Len(list) \in Nat
  BY ListTree
<1> HIDE DEF depth, t
<1>2. n \in 0..depth /\ (hash = "poseidon2" => n = depth)
  BY DEF depth
<1>3. PICK j \in 0..(PowerOf2[n] - 1) : HashLeaf(d) = t[depth - n][j]
  BY <1>1, <1>2, ClimbDown
<1>4. n = depth
  <2> SUFFICES ASSUME n # depth PROVE FALSE
    OBVIOUS
  <2> DEFINE l == depth - n
  <2>1. l \in 1..depth /\ depth - l = n
    BY <1>1, <1>2
  <2>2. t[l][j] = HashPair(t[l - 1][2 * j], t[l - 1][2 * j + 1])
    BY <1>1, <1>3, <2>1 DEF TreeOf
  <2>3. hash = "sha256"
    BY <1>2 DEF HashTypes
  <2> QED
    BY <1>3, <2>2, <2>3, LeafBinds
<1>5. depth - n = 0 /\ PowerOf2[n] \in Nat
  BY <1>1, <1>4, PowerType
<1>6. HashLeaf(d) = Padded(list, j) /\ j \in Nat
  BY <1>1, <1>3, <1>4, <1>5
<1>7. j < Len(list) /\ Padded(list, j) = HashLeaf(list[j + 1])
  BY <1>6, LeafBinds, LeafOfNode
<1>8. d = list[j + 1] /\ j + 1 \in DOMAIN list
  BY <1>1, <1>6, <1>7, LeafBinds
<1> QED
  BY <1>8

-----------------------------------------------------------------------------
(* SparseMerkleTree *)

\* precompute_defaults hashes the default of a level with itself.
LEMMA DefaultSteps ==
    /\ Default[0] = Zero
    /\ \A l \in 1..SMT_DEPTH : Default[l] = HashPair(Default[l - 1], Default[l - 1])
<1> DEFINE loop == [of |-> "Default"]
<1>1. \A i, x : Iteration(loop, i, x) = HashPair(x, x)
  BY DEF Iteration
<1>2. SMT_DEPTH \in Nat
  BY MerkleAssumption
<1> HIDE DEF loop
<1>3. PICK g : Iterated(g, loop, Zero, SMT_DEPTH)
  BY <1>2, IteratedExists
<1>4. g = [l \in 0..SMT_DEPTH |-> IF l = 0 THEN Zero ELSE HashPair(g[l - 1], g[l - 1])]
  BY <1>1, <1>3 DEF Iterated
<1>5. Default = [l \in 0..SMT_DEPTH |->
                   IF l = 0 THEN Zero ELSE HashPair(Default[l - 1], Default[l - 1])]
  BY <1>4 DEF Default
<1>6. Default[0] = Zero
  BY <1>2, <1>5
<1>7. ASSUME NEW l \in 1..SMT_DEPTH
      PROVE  Default[l] = HashPair(Default[l - 1], Default[l - 1])
  <2>1. l \in 0..SMT_DEPTH /\ l # 0
    BY <1>2
  <2> QED
    BY <1>5, <2>1
<1> QED
  BY <1>6, <1>7

\* The nodes beside the way up from a slot, and the sides the way is on.
Beside(slot) == [l \in 1..SMT_DEPTH |-> GetNode(l - 1, Sibling(At(slot, l - 1)))]
OnRight(slot) == [l \in 1..SMT_DEPTH |-> IsRight(At(slot, l - 1))]

\* insert goes up the way that verify_inclusion climbs.
LEMMA PathSteps ==
    ASSUME NEW slot, NEW leaf
    PROVE  /\ Path(slot, leaf)[0] = leaf
           /\ \A l \in 1..SMT_DEPTH :
                 LET beside == GetNode(l - 1, Sibling(At(slot, l - 1)))
                 IN  Path(slot, leaf)[l] =
                        IF IsRight(At(slot, l - 1))
                        THEN HashPair(beside, Path(slot, leaf)[l - 1])
                        ELSE HashPair(Path(slot, leaf)[l - 1], beside)
<1> DEFINE up(l, x) == IF IsRight(At(slot, l - 1))
                       THEN HashPair(GetNode(l - 1, Sibling(At(slot, l - 1))), x)
                       ELSE HashPair(x, GetNode(l - 1, Sibling(At(slot, l - 1))))
           node[l \in 0..SMT_DEPTH] ==
               IF l = 0 THEN leaf
               ELSE LET beside == GetNode(l - 1, Sibling(At(slot, l - 1)))
                    IN  IF IsRight(At(slot, l - 1)) THEN HashPair(beside, node[l - 1])
                                                    ELSE HashPair(node[l - 1], beside)
           loop == [of |-> "Climb", siblings |-> Beside(slot), onRight |-> OnRight(slot)]
<1>1. \A l \in 1..SMT_DEPTH : \A x : Iteration(loop, l, x) = up(l, x)
  BY DEF Iteration, Beside, OnRight
<1>2. Path(slot, leaf) = node
  BY DEF Path
<1>3. SMT_DEPTH \in Nat
  BY MerkleAssumption
<1> HIDE DEF loop, up
<1>4. PICK g : Iterated(g, loop, leaf, SMT_DEPTH)
  BY <1>3, IteratedExists
<1>5. g = [l \in 0..SMT_DEPTH |-> IF l = 0 THEN leaf ELSE up(l, g[l - 1])]
  <2>1. \A l \in 0..SMT_DEPTH : l # 0 => l \in 1..SMT_DEPTH
    BY <1>3
  <2> QED
    BY <1>1, <1>4, <2>1 DEF Iterated
<1>6. node = [l \in 0..SMT_DEPTH |-> IF l = 0 THEN leaf ELSE up(l, node[l - 1])]
  BY <1>5 DEF up
<1> HIDE DEF node
<1>7. node[0] = leaf
  BY <1>3, <1>6
<1>8. ASSUME NEW l \in 1..SMT_DEPTH
      PROVE  node[l] = up(l, node[l - 1])
  <2>1. l \in 0..SMT_DEPTH /\ l # 0
    BY <1>3
  <2> QED
    BY <1>6, <2>1
<1> QED
  BY <1>2, <1>7, <1>8 DEF up

\* Products of bytes.
LEMMA Products ==
    ASSUME NEW b \in Nat, NEW x \in Nat, NEW y \in Nat, x < y
    PROVE  b * x \in Nat /\ b * y \in Nat /\ b * x + b =< b * y
<1>1. y - x - 1 \in Nat
  OBVIOUS
<1>2. b * (y - x - 1) \in Nat /\ b * x \in Nat /\ b * y \in Nat
  BY <1>1
<1>3. b * (y - x - 1) = b * y - b * x - b
  OBVIOUS
<1> QED
  BY <1>2, <1>3

\* key_to_index tells keys apart by their first two bytes, which fit the tree.
LEMMA SlotOfKey ==
    /\ \A key \in Keys : KeyToIndex(key) \in Slots(0)
    /\ \A k1, k2 \in Keys : KeyToIndex(k1) = KeyToIndex(k2) <=> SameSlot(k1, k2)
<1> DEFINE B == ByteBase
           number(key) == key[1] + B * key[2]
<1>1. B \in Nat /\ B * B = PowerOf2[SMT_DEPTH] /\ SMT_DEPTH \in Nat
  BY MerkleAssumption
<1>2. ASSUME NEW key \in Keys PROVE key[1] \in 0..(B - 1) /\ key[2] \in 0..(B - 1)
  <2>1. key \in Seq(0..(B - 1)) /\ Len(key) >= 2
    BY MerkleAssumption
  <2>2. Len(key) \in Nat
    BY <2>1, LenProperties
  <2>3. 1 \in 1..Len(key) /\ 2 \in 1..Len(key)
    BY <2>1, <2>2
  <2>4. \A n \in 1..Len(key) : key[n] \in 0..(B - 1)
    BY <2>1, ElementOfSeq
  <2> QED
    BY <2>3, <2>4
<1>3. ASSUME NEW key \in Keys
      PROVE  /\ number(key) \in 0..(PowerOf2[SMT_DEPTH] - 1)
             /\ KeyToIndex(key) = number(key)
  <2>1. key[1] \in Nat /\ key[1] < B /\ key[2] \in Nat /\ key[2] < B
    BY <1>1, <1>2
  <2>2. B * key[2] \in Nat /\ B * B \in Nat /\ B * key[2] + B =< B * B
    BY <1>1, <2>1, Products
  <2> DEFINE n == B * key[2]
             m == B * B
  <2>3. m = PowerOf2[SMT_DEPTH]
    BY <1>1
  <2>4. n \in Nat /\ m \in Nat /\ n + B =< m
    BY <2>2
  <2> HIDE DEF n, m
  <2>5. key[1] + n \in 0..(m - 1) /\ (key[1] + n) % m = key[1] + n
    <3>1. key[1] + n \in 0..(m - 1)
      BY <1>1, <2>1, <2>4
    <3>2. \A a, c \in Nat : a < c => a % c = a
      OBVIOUS
    <3> QED
      BY <2>4, <3>1, <3>2
  <2>6. number(key) = key[1] + n
    BY DEF n
  <2>7. KeyToIndex(key) = number(key) % PowerOf2[SMT_DEPTH]
    BY DEF KeyToIndex
  <2> QED
    BY <2>3, <2>5, <2>6, <2>7
<1>4. ASSUME NEW k1 \in Keys, NEW k2 \in Keys, number(k1) = number(k2)
      PROVE  ~(k1[2] < k2[2])
  <2> SUFFICES ASSUME k1[2] < k2[2] PROVE FALSE
    OBVIOUS
  <2>1. /\ k1[1] \in Nat /\ k1[1] < B /\ k2[1] \in Nat /\ k2[1] < B
        /\ k1[2] \in Nat /\ k2[2] \in Nat
    BY <1>1, <1>2
  <2>2. B * k1[2] \in Nat /\ B * k2[2] \in Nat /\ B * k1[2] + B =< B * k2[2]
    BY <1>1, <2>1, Products
  <2> DEFINE n == B * k1[2]
             m == B * k2[2]
  <2>3. k1[1] + n = k2[1] + m /\ n \in Nat /\ m \in Nat /\ n + B =< m
    BY <1>4, <2>2
  <2> HIDE DEF n, m
  <2> QED
    BY <1>1, <2>1, <2>3
<1>5. ASSUME NEW k1 \in Keys, NEW k2 \in Keys
      PROVE  number(k1) = number(k2) <=> k1[1] = k2[1] /\ k1[2] = k2[2]
  <2>1. k1[1] \in Nat /\ k2[1] \in Nat /\ k1[2] \in Nat /\ k2[2] \in Nat
    BY <1>1, <1>2
  <2>2. ASSUME number(k1) = number(k2) PROVE k1[2] = k2[2]
    <3>1. ~(k1[2] < k2[2]) /\ ~(k2[2] < k1[2])
      BY <1>4, <2>2
    <3> QED
      BY <2>1, <3>1
  <2>3. ASSUME number(k1) = number(k2) PROVE k1[1] = k2[1]
    <3> DEFINE n == B * k2[2]
    <3>1. k1[1] + n = k2[1] + n /\ n \in Nat
      BY <1>1, <2>1, <2>2, <2>3
    <3> HIDE DEF n
    <3> QED
      BY <2>1, <3>1
  <2> QED
    BY <2>2, <2>3
<1> HIDE DEF number
<1>6. SMT_DEPTH - 0 = SMT_DEPTH
  BY <1>1
<1> QED
  BY <1>3, <1>5, <1>6 DEF Slots, SameSlot

\* A slot is free or holds the hash of a value.
SlotsHoldLeaves ==
    \A i \in Slots(0) : nodes[0][i] = Absent \/ \E d \in Data : nodes[0][i] = HashLeaf(d)

\* Every node is the hash of what get_node finds below it.
NodesAgree ==
    \A l \in 1..SMT_DEPTH : \A i \in Slots(l) :
        GetNode(l, i) = HashPair(GetNode(l - 1, 2 * i), GetNode(l - 1, 2 * i + 1))

\* The slot of every key holds what was last inserted into it.
SlotsAnswer ==
    \A key \in Keys :
        Get(key) = IF written[key] = Absent THEN Absent ELSE HashLeaf(written[key])

\* The inductive invariant.
TreesInv ==
    /\ HashTypes
    /\ leaves \in Seq(Data)
    /\ SlotsHoldLeaves
    /\ NodesAgree
    /\ root = GetNode(SMT_DEPTH, 0)
    /\ SlotsAnswer

\* The way up from a slot runs through the nodes of the tree.
LEMMA SlotsOnWay ==
    ASSUME NEW slot \in Slots(0)
    PROVE  /\ slot \in Nat
           /\ \A l \in 0..SMT_DEPTH : At(slot, l) \in Slots(l)
           /\ At(slot, 0) = slot /\ At(slot, SMT_DEPTH) = 0 /\ 0 \in Slots(SMT_DEPTH)
           /\ slot \in 0..(PowerOf2[SMT_DEPTH] - 1)
<1>1. SMT_DEPTH \in Nat /\ SMT_DEPTH - 0 = SMT_DEPTH /\ SMT_DEPTH - SMT_DEPTH = 0
  BY MerkleAssumption
<1>2. slot \in 0..(PowerOf2[SMT_DEPTH] - 1) /\ PowerOf2[SMT_DEPTH] \in Nat
  BY <1>1, PowerType DEF Slots
<1>3. \A l \in 0..SMT_DEPTH : At(slot, l) \in Slots(l)
  BY <1>1, <1>2, AtBound DEF Slots
<1>4. Slots(SMT_DEPTH) = 0..0
  BY <1>1, PowerSteps DEF Slots
<1>5. At(slot, SMT_DEPTH) \in Slots(SMT_DEPTH)
  BY <1>1, <1>3
<1> QED
  BY <1>2, <1>3, <1>4, <1>5, AtSteps

\* The children of a node of the sparse tree are nodes of it.
LEMMA SlotsBelow ==
    ASSUME NEW l \in 1..SMT_DEPTH, NEW i \in Slots(l)
    PROVE  /\ i \in Nat /\ l - 1 \in 0..SMT_DEPTH /\ l \in 0..SMT_DEPTH
           /\ 2 * i \in Slots(l - 1) /\ 2 * i + 1 \in Slots(l - 1)
<1>1. SMT_DEPTH \in Nat
  BY MerkleAssumption
<1>2. SMT_DEPTH - l \in Nat
  BY <1>1
<1>3. PowerOf2[SMT_DEPTH - l] \in Nat /\ i \in 0..(PowerOf2[SMT_DEPTH - l] - 1)
  BY <1>2, PowerType DEF Slots
<1>4. /\ 2 * i \in 0..(PowerOf2[SMT_DEPTH - (l - 1)] - 1)
      /\ 2 * i + 1 \in 0..(PowerOf2[SMT_DEPTH - (l - 1)] - 1)
  BY <1>1, <1>3, BelowBound
<1> QED
  BY <1>1, <1>3, <1>4 DEF Slots

\* The trees of new are empty.
LEMMA InitTrees == NoTrees => TreesInv
<1> SUFFICES ASSUME NoTrees PROVE TreesInv
  OBVIOUS
<1> USE DEF NoTrees
<1>1. SMT_DEPTH \in Nat
  BY MerkleAssumption
<1>2. ASSUME NEW l \in 0..SMT_DEPTH, NEW i \in Slots(l)
      PROVE  nodes[l][i] = Absent /\ GetNode(l, i) = Default[l]
  BY DEF GetNode
<1>3. 0 \in 0..SMT_DEPTH /\ SMT_DEPTH \in 0..SMT_DEPTH
  BY <1>1
<1>4. SlotsHoldLeaves
  BY <1>2, <1>3 DEF SlotsHoldLeaves
<1>5. NodesAgree
  <2> SUFFICES ASSUME NEW l \in 1..SMT_DEPTH, NEW i \in Slots(l)
               PROVE  GetNode(l, i) =
                         HashPair(GetNode(l - 1, 2 * i), GetNode(l - 1, 2 * i + 1))
    BY DEF NodesAgree
  <2>1. /\ l - 1 \in 0..SMT_DEPTH /\ l \in 0..SMT_DEPTH
        /\ 2 * i \in Slots(l - 1) /\ 2 * i + 1 \in Slots(l - 1)
    BY SlotsBelow
  <2>2. /\ GetNode(l, i) = Default[l]
        /\ GetNode(l - 1, 2 * i) = Default[l - 1]
        /\ GetNode(l - 1, 2 * i + 1) = Default[l - 1]
    BY <1>2, <2>1
  <2> QED
    BY <2>2, DefaultSteps
<1>6. root = GetNode(SMT_DEPTH, 0)
  <2>1. 0 \in Slots(SMT_DEPTH)
    <3>1. SMT_DEPTH - SMT_DEPTH = 0
      BY <1>1
    <3> QED
      BY <3>1, PowerSteps DEF Slots
  <2> QED
    BY <1>2, <1>3, <2>1
<1>7. SlotsAnswer
  BY <1>2, <1>3, SlotOfKey DEF SlotsAnswer, Get
<1>8. HashTypes /\ leaves \in Seq(Data)
  BY DEF HashTypes
<1> QED
  BY <1>4, <1>5, <1>6, <1>7, <1>8 DEF TreesInv

\* What get_node finds after an insertion.
LEMMA InsertedNodes ==
    ASSUME HashTypes, NEW key \in Keys, NEW value \in Data, Insert(key, value)
    PROVE  LET slot == KeyToIndex(key)
               path == Path(slot, HashLeaf(value))
           IN  /\ \A l \in 0..SMT_DEPTH : \A i \in Slots(l) :
                     GetNode(l, i)' = IF i = At(slot, l) THEN path[l] ELSE GetNode(l, i)
               /\ \A i \in Slots(0) :
                     nodes'[0][i] = IF i = slot THEN HashLeaf(value) ELSE nodes[0][i]
<1> DEFINE slot == KeyToIndex(key)
           path == Path(slot, HashLeaf(value))
<1>1. SMT_DEPTH \in Nat /\ slot \in Slots(0)
  BY MerkleAssumption, SlotOfKey
<1>2. nodes' = [level \in 0..SMT_DEPTH |->
                  [i \in Slots(level) |->
                     IF i = At(slot, level) THEN path[level] ELSE nodes[level][i]]]
  BY DEF Insert
<1>3. /\ path[0] = HashLeaf(value)
      /\ \A l \in 1..SMT_DEPTH :
            LET beside == GetNode(l - 1, Sibling(At(slot, l - 1)))
            IN  path[l] = IF IsRight(At(slot, l - 1)) THEN HashPair(beside, path[l - 1])
                                                      ELSE HashPair(path[l - 1], beside)
  BY PathSteps
<1> HIDE DEF path, slot
<1>4. ASSUME NEW l \in 0..SMT_DEPTH
      PROVE  path[l] # Absent
  <2>1. CASE l = 0
    BY <1>3, <2>1, LeafBinds
  <2>2. CASE l # 0
    <3>1. l \in 1..SMT_DEPTH
      BY <1>1, <2>2
    <3> QED
      BY <1>3, <3>1, PairBinds
  <2> QED
    BY <2>1, <2>2
<1>5. ASSUME NEW l \in 0..SMT_DEPTH, NEW i \in Slots(l)
      PROVE  GetNode(l, i)' = IF i = At(slot, l) THEN path[l] ELSE GetNode(l, i)
  <2>1. nodes'[l][i] = IF i = At(slot, l) THEN path[l] ELSE nodes[l][i]
    BY <1>2
  <2>2. GetNode(l, i)' = IF nodes'[l][i] = Absent THEN Default[l] ELSE nodes'[l][i]
    BY DEF GetNode
  <2> QED
    BY <1>4, <2>1, <2>2 DEF GetNode
<1>6. ASSUME NEW i \in Slots(0)
      PROVE  nodes'[0][i] = IF i = slot THEN HashLeaf(value) ELSE nodes[0][i]
  <2>1. 0 \in 0..SMT_DEPTH /\ At(slot, 0) = slot
    BY <1>1, AtSteps
  <2> QED
    BY <1>2, <1>3, <2>1
<1> QED
  BY <1>5, <1>6 DEF path, slot

\* A node on the way is the hash of a node beside the way and of the next one
\* on it; the others keep the nodes below them.
LEMMA StepTrees == TreesInv /\ [Grow]_trees => TreesInv'
<1> SUFFICES ASSUME TreesInv, [Grow]_trees PROVE TreesInv'
  OBVIOUS
<1>0. HashTypes /\ SMT_DEPTH \in Nat
  BY MerkleAssumption DEF TreesInv
<1>1. ASSUME NEW key \in Keys, NEW value \in Data, Insert(key, value)
      PROVE  TreesInv'
  <2> DEFINE slot == KeyToIndex(key)
             path == Path(slot, HashLeaf(value))
  <2>1. slot \in Slots(0)
    BY SlotOfKey
  <2>2. /\ path[0] = HashLeaf(value)
        /\ \A l \in 1..SMT_DEPTH :
              LET beside == GetNode(l - 1, Sibling(At(slot, l - 1)))
              IN  path[l] = IF IsRight(At(slot, l - 1)) THEN HashPair(beside, path[l - 1])
                                                        ELSE HashPair(path[l - 1], beside)
    BY PathSteps
  <2>3. \A l \in 0..SMT_DEPTH : \A i \in Slots(l) :
           GetNode(l, i)' = IF i = At(slot, l) THEN path[l] ELSE GetNode(l, i)
    BY <1>0, <1>1, InsertedNodes
  <2>4. \A i \in Slots(0) :
           nodes'[0][i] = IF i = slot THEN HashLeaf(value) ELSE nodes[0][i]
    BY <1>0, <1>1, InsertedNodes
  <2>5. /\ hash' = hash /\ leaves' = Append(leaves, value) /\ root' = path[SMT_DEPTH]
        /\ written' = [k \in Keys |-> IF SameSlot(k, key) THEN value ELSE written[k]]
    BY <1>1 DEF Insert, NewRoot
  <2>6. \A d : HashLeaf(d)' = HashLeaf(d)
    BY <2>5 DEF HashLeaf
  <2>7. /\ \A k \in Keys : KeyToIndex(k) \in Slots(0)
        /\ \A k \in Keys : KeyToIndex(k) = slot <=> SameSlot(k, key)
    BY <1>1, SlotOfKey
  <2> HIDE DEF slot, path
  <2>8. HashTypes'
    BY <1>0, <2>5 DEF HashTypes
  <2>9. (leaves \in Seq(Data))'
    BY <1>1, <2>5, AppendProperties DEF TreesInv
  <2>10. SlotsHoldLeaves'
    <3> SUFFICES ASSUME NEW i \in Slots(0)
                 PROVE  nodes'[0][i] = Absent \/ \E d \in Data : nodes'[0][i] = HashLeaf(d)'
      BY DEF SlotsHoldLeaves, Slots
    <3>1. nodes[0][i] = Absent \/ \E d \in Data : nodes[0][i] = HashLeaf(d)
      BY DEF TreesInv, SlotsHoldLeaves
    <3> QED
      BY <1>1, <2>4, <2>6, <3>1
  <2>11. NodesAgree'
    <3> SUFFICES ASSUME NEW l \in 1..SMT_DEPTH, NEW i \in Slots(l)
                 PROVE  GetNode(l, i)' =
                           HashPair(GetNode(l - 1, 2 * i)', GetNode(l - 1, 2 * i + 1)')
      BY DEF NodesAgree, HashPair, Slots
    <3> DEFINE on == At(slot, l - 1)
    <3>1. /\ l - 1 \in 0..SMT_DEPTH /\ l \in 0..SMT_DEPTH /\ i \in Nat
          /\ 2 * i \in Slots(l - 1) /\ 2 * i + 1 \in Slots(l - 1)
      BY SlotsBelow
    <3>2. GetNode(l, i) = HashPair(GetNode(l - 1, 2 * i), GetNode(l - 1, 2 * i + 1))
      BY DEF TreesInv, NodesAgree
    <3>3. /\ IsRight(on) => on = 2 * At(slot, l) + 1 /\ Sibling(on) = 2 * At(slot, l)
          /\ ~IsRight(on) => on = 2 * At(slot, l) /\ Sibling(on) = 2 * At(slot, l) + 1
      <4>1. slot \in Nat /\ l - 1 \in Nat /\ (l - 1) + 1 = l
        BY <1>0, <2>1, SlotsOnWay
      <4> QED
        BY <4>1, Children
    <3>4. At(slot, l) \in Nat
      BY <1>0, <2>1, SlotsOnWay, AtType
    <3>5. GetNode(l, i)' = IF i = At(slot, l) THEN path[l] ELSE GetNode(l, i)
      BY <2>3, <3>1
    <3>6. /\ GetNode(l - 1, 2 * i)' =
                IF 2 * i = on THEN path[l - 1] ELSE GetNode(l - 1, 2 * i)
          /\ GetNode(l - 1, 2 * i + 1)' =
                IF 2 * i + 1 = on THEN path[l - 1] ELSE GetNode(l - 1, 2 * i + 1)
      BY <2>3, <3>1
    <3>7. path[l] = IF IsRight(on) THEN HashPair(GetNode(l - 1, Sibling(on)), path[l - 1])
                                   ELSE HashPair(path[l - 1], GetNode(l - 1, Sibling(on)))
      BY <2>2
    <3> HIDE DEF on
    <3>8. CASE i = At(slot, l) /\ IsRight(on)
      <4>1. 2 * i + 1 = on /\ 2 * i # on /\ Sibling(on) = 2 * i
        BY <3>1, <3>3, <3>8
      <4>2. GetNode(l, i)' = HashPair(GetNode(l - 1, 2 * i), path[l - 1])
        BY <3>5, <3>7, <3>8, <4>1
      <4>3. GetNode(l - 1, 2 * i)' = GetNode(l - 1, 2 * i)
            /\ GetNode(l - 1, 2 * i + 1)' = path[l - 1]
        BY <3>6, <4>1
      <4> QED
        BY <4>2, <4>3, Zenon
    <3>9. CASE i = At(slot, l) /\ ~IsRight(on)
      <4>1. 2 * i = on /\ 2 * i + 1 # on /\ Sibling(on) = 2 * i + 1
        BY <3>1, <3>3, <3>9
      <4>2. GetNode(l, i)' = HashPair(path[l - 1], GetNode(l - 1, 2 * i + 1))
        BY <3>5, <3>7, <3>9, <4>1
      <4>3. GetNode(l - 1, 2 * i)' = path[l - 1]
            /\ GetNode(l - 1, 2 * i + 1)' = GetNode(l - 1, 2 * i + 1)
        BY <3>6, <4>1
      <4> QED
        BY <4>2, <4>3, Zenon
    <3>10. CASE i # At(slot, l)
      <4>1. 2 * i # on /\ 2 * i + 1 # on
        BY <3>1, <3>3, <3>4, <3>10
      <4>2. GetNode(l - 1, 2 * i)' = GetNode(l - 1, 2 * i)
            /\ GetNode(l - 1, 2 * i + 1)' = GetNode(l - 1, 2 * i + 1)
        BY <3>6, <4>1
      <4>3. GetNode(l, i)' = GetNode(l, i)
        BY <3>5, <3>10
      <4> QED
        BY <3>2, <4>2, <4>3, Zenon
    <3> QED
      BY <3>8, <3>9, <3>10
  <2>12. root' = GetNode(SMT_DEPTH, 0)'
    <3>1. 0 \in Slots(SMT_DEPTH) /\ At(slot, SMT_DEPTH) = 0 /\ SMT_DEPTH \in 0..SMT_DEPTH
      BY <1>0, <2>1, SlotsOnWay
    <3>2. GetNode(SMT_DEPTH, 0)' = path[SMT_DEPTH]
      BY <2>3, <3>1
    <3> QED
      BY <2>5, <3>2
  <2>13. SlotsAnswer'
    <3> SUFFICES ASSUME NEW k \in Keys
                 PROVE  nodes'[0][KeyToIndex(k)] =
                           IF written'[k] = Absent THEN Absent ELSE HashLeaf(written[k])'
      BY DEF SlotsAnswer, Get, KeyToIndex, Absent
    <3>1. nodes[0][KeyToIndex(k)] =
             IF written[k] = Absent THEN Absent ELSE HashLeaf(written[k])
      BY DEF TreesInv, SlotsAnswer, Get
    <3>2. written'[k] = IF SameSlot(k, key) THEN value ELSE written[k]
      BY <2>5
    <3>3. nodes'[0][KeyToIndex(k)] =
             IF SameSlot(k, key) THEN HashLeaf(value) ELSE nodes[0][KeyToIndex(k)]
      BY <2>4, <2>7
    <3>4. value # Absent
      BY <1>1, MerkleAssumption
    <3>5. HashLeaf(written[k])' = HashLeaf(written'[k])
      BY <2>5 DEF HashLeaf, HashPair, Zero
    <3> QED
      BY <3>1, <3>2, <3>3, <3>4, <3>5
  <2> QED
    BY <2>8, <2>9, <2>10, <2>11, <2>12, <2>13 DEF TreesInv
<1>2. ASSUME UNCHANGED trees
      PROVE  TreesInv'
  <2>1. /\ hash' = hash /\ leaves' = leaves /\ nodes' = nodes /\ root' = root
        /\ written' = written
    BY <1>2 DEF trees
  <2> QED
    BY <2>1 DEF TreesInv, HashTypes, SlotsHoldLeaves, NodesAgree, GetNode, HashLeaf,
                HashPair, SlotsAnswer, Get, Slots, KeyToIndex
<1> QED
  BY <1>1, <1>2 DEF Grow

\* The invariant holds at every moment.
LEMMA AlwaysTrees == TreesSpec => []TreesInv
<1> QED
  BY InitTrees, StepTrees, PTL DEF TreesSpec

\* Trees over the same leaves have the same root.
LEMMA Ascend ==
    ASSUME NEW depth \in Nat, NEW t, TreeOf(t, depth), NEW u, TreeOf(u, depth),
           \A i \in 0..(PowerOf2[depth] - 1) : t[0][i] = u[0][i]
    PROVE  t[depth][0] = u[depth][0]
<1> DEFINE S == {l \in Nat : l =< depth =>
                    \A i \in 0..(PowerOf2[depth - l] - 1) : t[l][i] = u[l][i]}
<1>1. 0 \in S
  <2>1. depth - 0 = depth
    OBVIOUS
  <2> QED
    BY <2>1
<1>2. ASSUME NEW l \in Nat, l \in S PROVE l + 1 \in S
  <2> SUFFICES ASSUME l + 1 =< depth, NEW i \in 0..(PowerOf2[depth - (l + 1)] - 1)
               PROVE  t[l + 1][i] = u[l + 1][i]
    OBVIOUS
  <2>1. l + 1 \in 1..depth /\ (l + 1) - 1 = l /\ l =< depth
    OBVIOUS
  <2>2. 2 * i \in 0..(PowerOf2[depth - l] - 1) /\ 2 * i + 1 \in 0..(PowerOf2[depth - l] - 1)
    BY <2>1, BelowBound
  <2>3. t[l][2 * i] = u[l][2 * i] /\ t[l][2 * i + 1] = u[l][2 * i + 1]
    BY <1>2, <2>1, <2>2
  <2>4. /\ t[l + 1][i] = HashPair(t[l][2 * i], t[l][2 * i + 1])
        /\ u[l + 1][i] = HashPair(u[l][2 * i], u[l][2 * i + 1])
    BY <2>1 DEF TreeOf
  <2> QED
    BY <2>3, <2>4
<1> HIDE DEF S
<1>3. depth \in S
  BY <1>1, <1>2, NumberInduction
<1>4. depth - depth = 0 /\ depth =< depth /\ 0 \in 0..(PowerOf2[0] - 1)
  BY PowerSteps
<1> QED
  BY <1>3, <1>4 DEF S

\* The tree of all the nodes that get_node finds.
SparseTree == [l \in 0..SMT_DEPTH |-> [i \in Slots(l) |-> GetNode(l, i)]]

\* It is a tree, and root is its root.
LEMMA SparseIsTree ==
    TreesInv =>
        /\ TreeOf(SparseTree, SMT_DEPTH)
        /\ root = SparseTree[SMT_DEPTH][0]
        /\ \A i \in Slots(0) : SparseTree[0][i] = GetNode(0, i)
<1> SUFFICES ASSUME TreesInv
             PROVE  /\ TreeOf(SparseTree, SMT_DEPTH)
                    /\ root = SparseTree[SMT_DEPTH][0]
                    /\ \A i \in Slots(0) : SparseTree[0][i] = GetNode(0, i)
  OBVIOUS
<1>1. SMT_DEPTH \in Nat /\ 0 \in 0..SMT_DEPTH /\ SMT_DEPTH \in 0..SMT_DEPTH
  BY MerkleAssumption
<1>2. \A l \in 0..SMT_DEPTH : \A i \in Slots(l) : SparseTree[l][i] = GetNode(l, i)
  BY DEF SparseTree
<1>3. TreeOf(SparseTree, SMT_DEPTH)
  <2> SUFFICES ASSUME NEW l \in 1..SMT_DEPTH, NEW q \in Slots(l)
               PROVE  SparseTree[l][q] =
                         HashPair(SparseTree[l - 1][2 * q], SparseTree[l - 1][2 * q + 1])
    BY DEF TreeOf, Slots
  <2>1. /\ l - 1 \in 0..SMT_DEPTH /\ l \in 0..SMT_DEPTH
        /\ 2 * q \in Slots(l - 1) /\ 2 * q + 1 \in Slots(l - 1)
    BY SlotsBelow
  <2>2. GetNode(l, q) = HashPair(GetNode(l - 1, 2 * q), GetNode(l - 1, 2 * q + 1))
    BY DEF TreesInv, NodesAgree
  <2> QED
    BY <1>2, <2>1, <2>2
<1>4. root = SparseTree[SMT_DEPTH][0]
  <2>1. 0 \in Slots(SMT_DEPTH)
    <3>1. SMT_DEPTH - SMT_DEPTH = 0
      BY <1>1
    <3> QED
      BY <3>1, PowerSteps DEF Slots
  <2> QED
    BY <1>1, <1>2, <2>1 DEF TreesInv
<1> QED
  BY <1>1, <1>2, <1>3, <1>4

\* Building the whole tree over the slots comes to the root.
LEMMA RootIsBuilt == TreesInv => SparseRootIsCanonical
<1> SUFFICES ASSUME TreesInv PROVE SparseRootIsCanonical
  OBVIOUS
<1> DEFINE bottom == [i \in Slots(0) |-> GetNode(0, i)]
           whole == LayersOver(bottom, SMT_DEPTH)
<1>1. SMT_DEPTH \in Nat /\ Slots(0) = 0..(PowerOf2[SMT_DEPTH] - 1)
  <2>1. SMT_DEPTH \in Nat
    BY MerkleAssumption
  <2>2. SMT_DEPTH - 0 = SMT_DEPTH
    BY <2>1
  <2> QED
    BY <2>1, <2>2 DEF Slots
<1>2. \A i \in Slots(0) : bottom[i] = GetNode(0, i)
  OBVIOUS
<1> HIDE DEF bottom
<1>3. whole[0] = bottom /\ TreeOf(whole, SMT_DEPTH)
  BY <1>1, LayersAreTree
<1> HIDE DEF whole
<1>4. whole[SMT_DEPTH][0] = SparseTree[SMT_DEPTH][0]
  <2>1. \A i \in 0..(PowerOf2[SMT_DEPTH] - 1) : whole[0][i] = SparseTree[0][i]
    BY <1>1, <1>2, <1>3, SparseIsTree
  <2> QED
    BY <1>1, <1>3, <2>1, SparseIsTree, Ascend
<1> QED
  BY <1>4, SparseIsTree DEF SparseRootIsCanonical, whole, bottom

\* A proof for a key: the directions of prove with any siblings and leaf.
ProofFor(key, siblings, leaf) ==
    [siblings |-> siblings, path_bits |-> Prove(key).path_bits, leaf |-> leaf,
     depth |-> SMT_DEPTH]

\* verify_inclusion climbs from the slot of the key.
LEMMA ProofForKey ==
    ASSUME NEW key \in Keys, NEW siblings, Len(siblings) = SMT_DEPTH, NEW leaf, NEW expected
    PROVE  \E onRight :
              /\ \A l \in 1..SMT_DEPTH : onRight[l] <=> IsRight(At(KeyToIndex(key), l - 1))
              /\ VerifyInclusion(ProofFor(key, siblings, leaf), expected) <=>
                    Climb(leaf, siblings, onRight) = expected
<1> DEFINE slot == KeyToIndex(key)
           path == [l \in 1..SMT_DEPTH |-> IsRight(At(slot, l - 1))]
           onRight == [l \in 1..SMT_DEPTH |-> At(Packed(path), l - 1) % 2 = 1]
           proof == ProofFor(key, siblings, leaf)
<1>1. SMT_DEPTH \in Nat
  BY MerkleAssumption
<1>2. Prove(key).path_bits = Packed(path)
  BY DEF Prove
<1>3. Len(path) = SMT_DEPTH
  BY <1>1, ListLength
<1>4. \A l \in 1..SMT_DEPTH : path[l] <=> IsRight(At(slot, l - 1))
  OBVIOUS
<1>5. \A l \in 1..SMT_DEPTH : onRight[l] <=> (At(Packed(path), l - 1) % 2 = 1)
  OBVIOUS
<1> HIDE DEF slot, path
<1>6. VerifyInclusion(proof, expected) <=> Climb(leaf, siblings, onRight) = expected
  <2>1. /\ proof.siblings = siblings /\ proof.path_bits = Packed(path)
        /\ proof.leaf = leaf /\ proof.depth = SMT_DEPTH
    BY <1>2 DEF ProofFor
  <2> HIDE DEF proof
  <2> QED
    BY <2>1 DEF VerifyInclusion
<1> HIDE DEF onRight
<1>7. \A l \in 1..SMT_DEPTH : onRight[l] <=> IsRight(At(slot, l - 1))
  BY <1>1, <1>3, <1>4, <1>5, Unpacked
<1> QED
  BY <1>6, <1>7 DEF slot

\* The proof of prove is one, from the key's leaf past the nodes beside its way.
LEMMA ProofOfKey ==
    ASSUME NEW key \in Keys
    PROVE  LET slot == KeyToIndex(key)
           IN  /\ Prove(key) = ProofFor(key, Beside(slot), GetNode(0, slot))
               /\ Len(Beside(slot)) = SMT_DEPTH
<1>1. SMT_DEPTH \in Nat
  BY MerkleAssumption
<1>2. Len(Beside(KeyToIndex(key))) = SMT_DEPTH
  BY <1>1, ListLength DEF Beside
<1>3. Prove(key) = ProofFor(key, Beside(KeyToIndex(key)), GetNode(0, KeyToIndex(key)))
  BY DEF Prove, ProofFor, Beside
<1> QED
  BY <1>2, <1>3

\* A proof for a key verifies against the root of a tree from one leaf only: the
\* one in the key's slot.
LEMMA ClimbOfKey ==
    ASSUME NEW key \in Keys, NEW siblings, NEW leaf, NEW t, TreeOf(t, SMT_DEPTH),
           VerifyInclusion(ProofFor(key, siblings, leaf), t[SMT_DEPTH][0])
    PROVE  leaf = t[0][KeyToIndex(key)]
<1> DEFINE slot == KeyToIndex(key)
<1>1. SMT_DEPTH \in Nat /\ slot \in 0..(PowerOf2[SMT_DEPTH] - 1)
  BY MerkleAssumption, SlotOfKey, SlotsOnWay
<1>2. Len(siblings) = SMT_DEPTH
  BY DEF VerifyInclusion, ProofFor
<1>3. PICK onRight :
         /\ \A l \in 1..SMT_DEPTH : onRight[l] <=> IsRight(At(slot, l - 1))
         /\ VerifyInclusion(ProofFor(key, siblings, leaf), t[SMT_DEPTH][0]) <=>
               Climb(leaf, siblings, onRight) = t[SMT_DEPTH][0]
  BY <1>2, ProofForKey
<1> HIDE DEF slot
<1>4. \A l \in 1..SMT_DEPTH : onRight[l] <=> IsRight(At(slot, l - 1))
  BY <1>3
<1>5. Climb(leaf, siblings, onRight) = t[SMT_DEPTH][0]
  BY <1>3
<1>6. leaf = t[0][slot]
  BY <1>1, <1>2, <1>4, <1>5, ClimbBack
<1> QED
  BY <1>6 DEF slot

\* No slot holds what get_node returns for a free one.
LEMMA ZeroIsNoLeaf ==
    TreesInv => \A i \in Slots(0) : nodes[0][i] = Absent \/ nodes[0][i] # Zero
BY LeafBinds DEF TreesInv, SlotsHoldLeaves

\* A proof that verifies against the next root starts at the next leaf.
LEMMA StaleStep ==
    TreesInv /\ TreesInv' /\ [Grow]_trees =>
        \A key \in Keys : VerifyInclusion(Prove(key), root') => Get(key)' = Get(key)
<1> SUFFICES ASSUME TreesInv, TreesInv', [Grow]_trees, NEW key \in Keys,
                    VerifyInclusion(Prove(key), root')
             PROVE  Get(key)' = Get(key)
  OBVIOUS
<1> DEFINE slot == KeyToIndex(key)
<1>1. /\ slot \in Slots(0)
      /\ VerifyInclusion(ProofFor(key, Beside(slot), GetNode(0, slot)), root')
  BY SlotOfKey, ProofOfKey
<1>2. slot = KeyToIndex(key)
  OBVIOUS
<1> HIDE DEF slot
<1>3. /\ TreeOf(SparseTree', SMT_DEPTH)
      /\ root' = SparseTree'[SMT_DEPTH][0]
      /\ SparseTree'[0][slot] = GetNode(0, slot)'
  <2>1. (/\ TreeOf(SparseTree, SMT_DEPTH)
         /\ root = SparseTree[SMT_DEPTH][0]
         /\ \A i \in Slots(0) : SparseTree[0][i] = GetNode(0, i))'
    BY SparseIsTree, PTL
  <2> QED
    BY <1>1, <2>1 DEF TreeOf, HashPair, Slots
<1>4. GetNode(0, slot) = GetNode(0, slot)'
  <2> DEFINE t == SparseTree'
             leaf == GetNode(0, slot)
  <2>1. /\ TreeOf(t, SMT_DEPTH)
        /\ VerifyInclusion(ProofFor(key, Beside(slot), leaf), t[SMT_DEPTH][0])
    BY <1>1, <1>3
  <2> HIDE DEF t, leaf
  <2>2. leaf = t[0][slot]
    BY <1>2, <2>1, ClimbOfKey
  <2> QED
    BY <1>3, <2>2 DEF leaf, t
<1>5. /\ Default[0] = Zero /\ HashTypes
      /\ nodes[0][slot] = Absent \/ \E d \in Data : nodes[0][slot] = HashLeaf(d)
  BY <1>1, DefaultSteps DEF TreesInv, SlotsHoldLeaves
<1>6. /\ nodes'[0][slot] = Absent \/ nodes'[0][slot] # Zero
      /\ nodes[0][slot] = Absent \/ nodes[0][slot] # Zero
  <2>1. (\A i \in Slots(0) : nodes[0][i] = Absent \/ nodes[0][i] # Zero)'
    BY ZeroIsNoLeaf, PTL
  <2> QED
    BY <1>1, <1>5, <2>1, LeafBinds DEF Slots, Zero, Absent
<1>7. /\ GetNode(0, slot) = IF nodes[0][slot] = Absent THEN Zero ELSE nodes[0][slot]
      /\ GetNode(0, slot)' = IF nodes'[0][slot] = Absent THEN Zero ELSE nodes'[0][slot]
  BY <1>5 DEF GetNode
<1>8. nodes'[0][slot] = nodes[0][slot]
  BY <1>4, <1>6, <1>7
<1> QED
  BY <1>8 DEF Get, slot, KeyToIndex

-----------------------------------------------------------------------------
(* The properties *)

\* A list of LeafLists is a list of values that is not empty.
LEMMA ListsOfLeaves ==
    ASSUME NEW list \in LeafLists
    PROVE  list \in Seq(Data) /\ list # <<>>
<1>1. PICK n \in 1..MaxInserts : list \in [1..n -> Data]
  BY DEF LeafLists
<1>2. n \in Nat \ {0}
  BY <1>1, MerkleAssumption
<1>3. list \in Seq(Data) /\ Len(list) = n
  BY <1>1, <1>2
<1> QED
  BY <1>2, <1>3

\* Every proof that get_proof returns is accepted by verify_proof and, with SHA256,
\* by verify_inclusion after to_on_chain_proof, for every list of leaves
\* (tree.rs:104, proof.rs:25, :50).
THEOREM EveryLeafHasAProof == TreesSpec => []EveryLeafProves
<1>1. TreesInv => EveryLeafProves
  BY ProofOfVerifies DEF TreesInv, EveryLeafProves
<1> QED
  BY <1>1, AlwaysTrees, PTL

\* A root stands for one list of leaves: the zeros that from_leaves pads with
\* and the depth it chooses are told from every leaf (tree.rs:65).
THEOREM RootsBindTheirLeaves == TreesSpec => []RootBindsLeaves
<1>1. TreesInv => RootBindsLeaves
  <2> SUFFICES ASSUME TreesInv, leaves # <<>>, NEW list \in LeafLists,
                      RootOf(list) = RootOf(leaves)
               PROVE  list = leaves
    BY DEF RootBindsLeaves
  <2> QED
    BY ListsOfLeaves, RootsBind DEF TreesInv
<1> QED
  BY <1>1, AlwaysTrees, PTL

\* A proof that starts at the hash of a value: any siblings and sides, of the length
\* the tree has with Poseidon2, of any with SHA256.
AnyProofBinds ==
    leaves # <<>> =>
        \A n \in Nat : hash = "sha256" \/ n = DepthFor(Len(leaves)) =>
            \A siblings, path, d :
                /\ Len(siblings) = n
                /\ VerifyProof([siblings |-> siblings, path_indices |-> path,
                                leaf |-> HashLeaf(d)], RootOf(leaves))
                => \E i \in DOMAIN leaves : d = leaves[i]

\* The invariant of the trees is enough for it.
LEMMA AnyProofBindsIts == TreesInv => AnyProofBinds
<1> DEFINE depth == DepthFor(Len(leaves))
<1> SUFFICES ASSUME TreesInv, leaves # <<>>, NEW n \in Nat, hash = "sha256" \/ n = depth,
                    NEW siblings, NEW path, NEW d, Len(siblings) = n,
                    VerifyProof([siblings |-> siblings, path_indices |-> path,
                                 leaf |-> HashLeaf(d)], RootOf(leaves))
             PROVE  \E i \in DOMAIN leaves : d = leaves[i]
  BY DEF AnyProofBinds
<1>1. leaves \in Seq(Data) /\ HashTypes
  BY DEF TreesInv
<1>2. depth = DepthOf(leaves) /\ depth \in Nat
  BY <1>1, ListTree DEF DepthOf
<1> HIDE DEF depth
<1>3. Climb(HashLeaf(d), siblings, path) = RootOf(leaves)
  BY DEF VerifyProof
<1>4. CASE n > depth
  <2>1. hash = "sha256" /\ Len(siblings) \in Nat /\ Len(siblings) > DepthOf(leaves)
    BY <1>2, <1>4
  <2> QED
    BY <1>1, <1>3, <2>1, ClimbsAreShort
<1>5. CASE n \in 0..depth
  <2>1. n \in 0..DepthOf(leaves) /\ (hash = "poseidon2" => n = DepthOf(leaves))
    BY <1>2, <1>5
  <2> QED
    BY <1>1, <1>3, <2>1, ClimbsBind
<1> QED
  BY <1>2, <1>4, <1>5

\* verify_proof accepts no proof that starts at the hash of a value which is not a
\* leaf, whatever its siblings and sides: with SHA256 of any length, with Poseidon2
\* of the tree's depth (tree.rs:141, :231).
THEOREM ForgedProofsFail == TreesSpec => []AnyProofBinds
BY AnyProofBindsIts, AlwaysTrees, PTL

\* In particular none put together from hashes of the tree itself.
THEOREM ProofsBindTheirLeaves == TreesSpec => []ProofsBindLeaves
<1>1. AnyProofBinds /\ TreesInv => ProofsBindLeaves
  <2> DEFINE depth == DepthFor(Len(leaves))
  <2> SUFFICES ASSUME AnyProofBinds, TreesInv, leaves # <<>>,
                      NEW n \in IF hash = "sha256" THEN 0..depth ELSE {depth},
                      NEW siblings \in [1..n -> Hashes], NEW path \in [1..n -> BOOLEAN],
                      NEW d \in Data \cup Hashes,
                      VerifyProof([siblings |-> siblings, path_indices |-> path,
                                   leaf |-> HashLeaf(d)], RootOf(leaves))
               PROVE  \E i \in DOMAIN leaves : d = leaves[i]
    BY DEF ProofsBindLeaves
  <2>1. depth \in Nat
    BY ListTree DEF DepthOf, TreesInv
  <2> HIDE DEF depth
  <2>2. n \in Nat /\ (hash = "sha256" \/ n = depth)
    BY <2>1
  <2>3. Len(siblings) = n
    BY <2>2, ListLength
  <2> QED
    BY <2>2, <2>3 DEF AnyProofBinds, depth
<1> QED
  BY <1>1, ForgedProofsFail, AlwaysTrees, PTL

\* get returns the hash of the value last inserted with the key, or with
\* another key of the same two first bytes (sparse.rs:47, :100).
THEOREM GetFindsTheLastInsert == TreesSpec => []GetAnswersLastInsert
<1>1. TreesInv => GetAnswersLastInsert
  BY DEF TreesInv, SlotsAnswer, GetAnswersLastInsert
<1> QED
  BY <1>1, AlwaysTrees, PTL

\* The root that the insertions leave, one path at a time, is the one that
\* hashing the whole tree over the slots gives (sparse.rs:55).
THEOREM TheSparseRootIsCanonical == TreesSpec => []SparseRootIsCanonical
BY RootIsBuilt, AlwaysTrees, PTL

\* verify_inclusion accepts what prove returns for any key, written or not.
EveryKeyProves ==
    hash = "sha256" => \A key \in Keys : VerifyInclusion(Prove(key), root)

\* A proof that prove returns verifies against the root of that moment, for keys
\* without a value too (sparse.rs:88, proof.rs:50).
THEOREM EveryKeyHasAProof == TreesSpec => []EveryKeyProves
<1>1. TreesInv => EveryKeyProves
  <2> SUFFICES ASSUME TreesInv, NEW key \in Keys
               PROVE  VerifyInclusion(Prove(key), root)
    BY DEF EveryKeyProves
  <2> DEFINE slot == KeyToIndex(key)
             t == SparseTree
             siblings == Beside(slot)
  <2>1. /\ SMT_DEPTH \in Nat /\ slot \in Slots(0) /\ slot \in Nat
        /\ slot \in 0..(PowerOf2[SMT_DEPTH] - 1)
    BY MerkleAssumption, SlotOfKey, SlotsOnWay
  <2>2. PICK onRight :
           /\ \A l \in 1..SMT_DEPTH : onRight[l] <=> IsRight(At(slot, l - 1))
           /\ VerifyInclusion(ProofFor(key, siblings, GetNode(0, slot)), root) <=>
                 Climb(GetNode(0, slot), siblings, onRight) = root
    BY ProofForKey, ProofOfKey
  <2>3. Prove(key) = ProofFor(key, siblings, GetNode(0, slot)) /\ Len(siblings) = SMT_DEPTH
    BY ProofOfKey
  <2>4. TreeOf(t, SMT_DEPTH) /\ root = t[SMT_DEPTH][0] /\ t[0][slot] = GetNode(0, slot)
    BY <2>1, SparseIsTree
  <2> HIDE DEF slot
  <2>5. ASSUME NEW l \in 1..SMT_DEPTH
        PROVE  siblings[l] = t[l - 1][Sibling(At(slot, l - 1))]
    <3> DEFINE q == At(slot, l)
    <3>1. l \in 0..SMT_DEPTH /\ l - 1 \in Nat /\ l - 1 \in 0..SMT_DEPTH /\ (l - 1) + 1 = l
      BY <2>1
    <3>2. q \in Slots(l)
      BY <2>1, <3>1, SlotsOnWay
    <3> HIDE DEF q
    <3>3. 2 * q \in Slots(l - 1) /\ 2 * q + 1 \in Slots(l - 1)
      BY <3>2, SlotsBelow
    <3>4. Sibling(At(slot, l - 1)) = 2 * q \/ Sibling(At(slot, l - 1)) = 2 * q + 1
      BY <2>1, <3>1, Children DEF q
    <3>5. siblings[l] = GetNode(l - 1, Sibling(At(slot, l - 1)))
      BY DEF Beside
    <3> QED
      BY <3>1, <3>3, <3>4, <3>5 DEF SparseTree
  <2> HIDE DEF t, siblings
  <2>6. \A l \in 1..SMT_DEPTH : onRight[l] <=> IsRight(At(slot, l - 1))
    BY <2>2
  <2>7. Climb(t[0][slot], siblings, onRight) = t[SMT_DEPTH][0]
    BY <2>1, <2>3, <2>4, <2>5, <2>6, ClimbUp, SMTT(60)
  <2> QED
    BY <2>2, <2>3, <2>4, <2>7
<1> QED
  BY <1>1, AlwaysTrees, PTL

\* No other leaf than the one in a key's slot has a proof for the key.
OnlyTheSlotProves ==
    hash = "sha256" =>
        \A key \in Keys : \A siblings, leaf :
            VerifyInclusion(ProofFor(key, siblings, leaf), root) =>
                leaf = GetNode(0, KeyToIndex(key))

\* With the directions of a key, verify_inclusion accepts no leaf but the one that
\* the tree holds for the key, the empty leaf of a free slot included, whatever the
\* siblings (sparse.rs:88, proof.rs:50).
THEOREM ProofsBindTheSlot == TreesSpec => []OnlyTheSlotProves
<1>1. TreesInv => OnlyTheSlotProves
  <2> SUFFICES ASSUME TreesInv, NEW key \in Keys, NEW siblings, NEW leaf,
                      VerifyInclusion(ProofFor(key, siblings, leaf), root)
               PROVE  leaf = GetNode(0, KeyToIndex(key))
    BY DEF OnlyTheSlotProves
  <2> QED
    BY SparseIsTree, SlotOfKey, ClimbOfKey
<1> QED
  BY <1>1, AlwaysTrees, PTL

\* A proof taken before an insertion verifies against the root after it only if
\* the insertion left the key's leaf as it was (sparse.rs:116).
THEOREM StaleProofsAreRefused == TreesSpec => StaleProofsFail
<1>1. TreesInv /\ TreesInv' /\ [Grow]_trees =>
         [hash = "sha256" =>
             \A key \in Keys : VerifyInclusion(Prove(key), root') => Get(key)' = Get(key)]_trees
  BY StaleStep
<1> QED
  BY <1>1, AlwaysTrees, PTL DEF TreesSpec, StaleProofsFail
=============================================================================
