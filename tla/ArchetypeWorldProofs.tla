------------------------ MODULE ArchetypeWorldProofs ------------------------
(***************************************************************************)
(* Proofs about ArchetypeWorld: the archetypes and the map from entities   *)
(* to archetypes always agree, so queries are exact, the query cache is    *)
(* never stale, and the world is the plain store that EcsStore describes.  *)
(***************************************************************************)
EXTENDS ArchetypeWorld, FiniteSetTheorems, SequenceTheorems, WellFoundedInduction,
        TLAPS

-----------------------------------------------------------------------------
(* Induction along a loop *)

\* A set that contains 0 and with a number its successor contains all numbers.
LEMMA NumberInduction ==
  ASSUME NEW S, 0 \in S, \A n \in Nat : n \in S => n + 1 \in S
  PROVE  \A n \in Nat : n \in S
<1> DEFINE less == OpToRel(<, Nat)
           T == Nat \ S
<1> SUFFICES ASSUME T # {} PROVE FALSE
  OBVIOUS
<1>1. T \subseteq Nat
  OBVIOUS
<1> HIDE DEF T
<1>2. PICK n \in T : \A m \in T : <<m, n>> \notin less
  BY <1>1, NatLessThanWellFounded, WFMin, Zenon
<1>3. n \in Nat /\ n # 0 /\ n - 1 \in Nat
  BY <1>1 DEF T
<1>4. n - 1 \in T
  BY <1>3 DEF T
<1>5. <<n - 1, n>> \in less
  BY <1>3 DEF OpToRel
<1> QED
  BY <1>2, <1>4, <1>5, Zenon

\* What an iteration of one of the four loops makes of the value x before it:
\* those of Filtered, Query, Refilling and Rebuilding.
Iteration(loop, i, x) ==
    CASE loop.of = "Filtered" ->
           IF loop.list[i] \in loop.keep THEN Append(x, loop.list[i]) ELSE x
      [] loop.of = "Query" ->
           IF Matches(loop.world.archetypes[i - 1], loop.required)
           THEN x \o loop.world.archetypes[i - 1].entities ELSE x
      [] loop.of = "Refilling" ->
           IF loop.simple[<<loop.entity, SymbolOrder[i]>>] = None THEN x
           ELSE Added(x, loop.entity, SymbolOrder[i],
                      loop.simple[<<loop.entity, SymbolOrder[i]>>])
      [] loop.of = "Rebuilding" ->
           Refilling(x, i, loop.simple)[Len(SymbolOrder)]

\* The values that a loop of n iterations passes through.
Iterated(g, loop, start, n) ==
    g = [i \in 0..n |-> IF i = 0 THEN start ELSE Iteration(loop, i, g[i - 1])]

\* The loops are well defined.
LEMMA IteratedExists ==
  ASSUME NEW loop, NEW start
  PROVE  \A n \in Nat : \E g : Iterated(g, loop, start, n)
<1> DEFINE S == {n \in Nat : \E g : Iterated(g, loop, start, n)}
<1>1. 0 \in S
  <2> DEFINE g == [i \in 0..0 |-> start]
  <2>1. Iterated(g, loop, start, 0)
    BY DEF Iterated
  <2> QED
    BY <2>1
<1>2. ASSUME NEW n \in Nat, n \in S
      PROVE  n + 1 \in S
  <2>1. PICK g : Iterated(g, loop, start, n)
    BY <1>2
  <2> DEFINE h == [i \in 0..(n + 1) |-> IF i = n + 1 THEN Iteration(loop, n + 1, g[n])
                                                     ELSE g[i]]
  <2>2. \A i \in 0..n : g[i] = IF i = 0 THEN start ELSE Iteration(loop, i, g[i - 1])
    BY <2>1 DEF Iterated
  <2>3. \A i \in 0..(n + 1) :
          h[i] = IF i = 0 THEN start ELSE Iteration(loop, i, h[i - 1])
    <3> SUFFICES ASSUME NEW i \in 0..(n + 1)
                 PROVE  h[i] = IF i = 0 THEN start ELSE Iteration(loop, i, h[i - 1])
      OBVIOUS
    <3>1. CASE i = n + 1
      <4>1. h[i] = Iteration(loop, n + 1, g[n]) /\ h[n] = g[n] /\ n = i - 1 /\ i # 0
        BY <3>1
      <4> HIDE DEF h
      <4> QED
        BY <3>1, <4>1
    <3>2. CASE i # n + 1
      <4>1. i \in 0..n /\ h[i] = g[i] /\ (i # 0 => h[i - 1] = g[i - 1])
        BY <3>2
      <4> HIDE DEF h
      <4> QED
        BY <2>2, <4>1
    <3> QED
      BY <3>1, <3>2
  <2>4. h = [i \in 0..(n + 1) |-> h[i]]
    OBVIOUS
  <2> HIDE DEF h
  <2>5. Iterated(h, loop, start, n + 1)
    BY <2>3, <2>4 DEF Iterated
  <2> QED
    BY <2>5
<1> HIDE DEF S
<1>3. \A n \in Nat : n \in S
  BY <1>1, <1>2, NumberInduction
<1> QED
  BY <1>3 DEF S

-----------------------------------------------------------------------------
(* Lists *)

NoRepeats(s) == \A i, j \in DOMAIN s : s[i] = s[j] => i = j

\* A list with a further element has that element and those it had.
LEMMA AppendElements ==
  ASSUME NEW T, NEW s \in Seq(T), NEW x \in T
  PROVE  LET a == Append(s, x) IN
         /\ a \in Seq(T)
         /\ Elements(a) = Elements(s) \cup {x}
         /\ NoRepeats(s) /\ x \notin Elements(s) => NoRepeats(a)
<1> DEFINE a == Append(s, x)
           n == Len(s)
<1>1. /\ n \in Nat /\ DOMAIN s = 1..n
      /\ a \in Seq(T) /\ DOMAIN a = 1..(n + 1)
      /\ \A i \in 1..n : a[i] = s[i]
      /\ a[n + 1] = x
  OBVIOUS
<1> HIDE DEF a, n
<1>2. \A i \in 1..(n + 1) : i \in 1..n \/ i = n + 1
  BY <1>1
<1>3. n + 1 \in 1..(n + 1) /\ \A i \in 1..n : i \in 1..(n + 1)
  BY <1>1
<1>4. Elements(a) = Elements(s) \cup {x}
  BY <1>1, <1>2, <1>3 DEF Elements
<1>5. NoRepeats(s) /\ x \notin Elements(s) => NoRepeats(a)
  BY <1>1, <1>2 DEF Elements, NoRepeats
<1> QED
  BY <1>1, <1>4, <1>5 DEF a

\* A list followed by another has the elements of both.
LEMMA ConcatElements ==
  ASSUME NEW T, NEW s \in Seq(T), NEW u \in Seq(T)
  PROVE  LET c == s \o u IN
         /\ c \in Seq(T)
         /\ Elements(c) = Elements(s) \cup Elements(u)
         /\ NoRepeats(s) /\ NoRepeats(u) /\ Elements(s) \cap Elements(u) = {} =>
              NoRepeats(c)
<1> DEFINE c == s \o u
           m == Len(s)
           n == Len(u)
<1>1. /\ m \in Nat /\ DOMAIN s = 1..m
      /\ n \in Nat /\ DOMAIN u = 1..n
      /\ c \in Seq(T) /\ DOMAIN c = 1..(m + n)
  <2>1. c \in Seq(T) /\ Len(c) = m + n
    BY ConcatProperties
  <2> HIDE DEF c
  <2> QED
    BY <2>1
<1>2. \A i \in 1..m : c[i] = s[i]
  BY ConcatProperties
<1>3. \A i \in 1..(m + n) : i \notin 1..m => i - m \in 1..n /\ c[i] = u[i - m]
  BY ConcatProperties
<1>4. \A j \in 1..n : m + j \in 1..(m + n) /\ m + j \notin 1..m /\ (m + j) - m = j
  BY <1>1
<1>5. \A i \in 1..m : i \in 1..(m + n)
  BY <1>1
<1> HIDE DEF c, m, n
<1>6. Elements(c) = Elements(s) \cup Elements(u)
  <2>1. \A j \in 1..n : c[m + j] = u[j]
    BY <1>3, <1>4
  <2>2. Elements(c) \subseteq Elements(s) \cup Elements(u)
    BY <1>1, <1>2, <1>3 DEF Elements
  <2>3. Elements(s) \subseteq Elements(c)
    BY <1>1, <1>2, <1>5 DEF Elements
  <2>4. Elements(u) \subseteq Elements(c)
    BY <1>1, <1>4, <2>1 DEF Elements
  <2> QED
    BY <2>2, <2>3, <2>4
<1>7. ASSUME NoRepeats(s), NoRepeats(u), Elements(s) \cap Elements(u) = {}
      PROVE  NoRepeats(c)
  <2> SUFFICES ASSUME NEW i \in 1..(m + n), NEW j \in 1..(m + n), c[i] = c[j]
               PROVE  i = j
    BY <1>1 DEF NoRepeats
  <2>1. CASE i \in 1..m /\ j \in 1..m
    BY <1>1, <1>2, <1>7, <2>1 DEF NoRepeats
  <2>2. CASE i \notin 1..m /\ j \notin 1..m
    <3>1. i - m \in 1..n /\ j - m \in 1..n /\ u[i - m] = u[j - m]
      BY <1>3, <2>2
    <3>2. i - m = j - m
      BY <1>1, <1>7, <3>1 DEF NoRepeats
    <3> QED
      BY <1>1, <3>2
  <2>3. CASE i \in 1..m <=> j \notin 1..m
    <3>1. c[i] \in Elements(s) /\ c[i] \in Elements(u)
      BY <1>1, <1>2, <1>3, <2>3 DEF Elements
    <3> QED
      BY <1>7, <3>1
  <2> QED
    BY <2>1, <2>2, <2>3
<1> QED
  BY <1>1, <1>6, <1>7 DEF c

\* As many as there are elements: two lists without repetitions that have the
\* same elements are equally long.
LEMMA SameLength ==
  ASSUME NEW T, NEW s \in Seq(T), NEW u \in Seq(T), NoRepeats(s), NoRepeats(u),
         Elements(s) = Elements(u)
  PROVE  Len(s) = Len(u)
<1>1. ASSUME NEW r \in Seq(T), NoRepeats(r)
      PROVE  Cardinality(Elements(r)) = Len(r)
  <2>1. Len(r) \in Nat /\ DOMAIN r = 1..Len(r)
    OBVIOUS
  <2>2. r \in Bijection(1..Len(r), Elements(r))
    <3>1. r \in [1..Len(r) -> Elements(r)]
      BY <2>1 DEF Elements
    <3> QED
      BY <1>1, <2>1, <3>1 DEF Bijection, Injection, Surjection, IsInjective, Elements, NoRepeats
  <2> DEFINE n == Len(r)
  <2>3. n \in Nat /\ n \in Int /\ 1 \in Int
    BY <2>1
  <2> HIDE DEF n
  <2>4. IsFiniteSet(1..n) /\ Cardinality(1..n) = IF 1 > n THEN 0 ELSE n - 1 + 1
    BY <2>3, FS_Interval
  <2>5. Cardinality(1..n) = n
    BY <2>3, <2>4
  <2>6. ExistsBijection(1..n, Elements(r))
    BY <2>2 DEF ExistsBijection, n
  <2>7. Cardinality(Elements(r)) = Cardinality(1..n)
    BY <2>4, <2>6, FS_Bijection
  <2> QED
    BY <2>5, <2>7 DEF n
<1> QED
  BY <1>1

\* The copying loop takes over the elements of s that are to be kept, and no
\* element twice.
LEMMA FilteredKeeps ==
  ASSUME NEW T, NEW s \in Seq(T), NEW keep
  PROVE  /\ Filtered(s, keep) \in Seq(T)
         /\ Elements(Filtered(s, keep)) = Elements(s) \cap keep
         /\ NoRepeats(s) => NoRepeats(Filtered(s, keep))
<1> DEFINE m == Len(s)
           copied[i \in 0..Len(s)] ==
               IF i = 0 THEN <<>>
               ELSE IF s[i] \in keep THEN Append(copied[i - 1], s[i])
               ELSE copied[i - 1]
           First(n) == {s[j] : j \in 1..n}
           S == {n \in Nat : n \in 0..m =>
                    /\ copied[n] \in Seq(T)
                    /\ Elements(copied[n]) = First(n) \cap keep
                    /\ NoRepeats(s) => NoRepeats(copied[n])}
<1>1. m \in Nat /\ DOMAIN s = 1..m /\ \A i \in 1..m : s[i] \in T
  OBVIOUS
<1>2. copied = [i \in 0..Len(s) |->
                  IF i = 0 THEN <<>>
                  ELSE IF s[i] \in keep THEN Append(copied[i - 1], s[i])
                  ELSE copied[i - 1]]
  <2> DEFINE loop == [of |-> "Filtered", list |-> s, keep |-> keep]
  <2>1. PICK g : Iterated(g, loop, <<>>, Len(s))
    BY <1>1, IteratedExists
  <2>2. \A i, x : Iteration(loop, i, x) = IF s[i] \in keep THEN Append(x, s[i]) ELSE x
    BY DEF Iteration
  <2> HIDE DEF loop
  <2>3. g = [i \in 0..Len(s) |->
               IF i = 0 THEN <<>>
               ELSE IF s[i] \in keep THEN Append(g[i - 1], s[i]) ELSE g[i - 1]]
    BY <2>1, <2>2 DEF Iterated
  <2> QED
    BY <2>3
<1>3. Filtered(s, keep) = copied[m]
  BY DEF Filtered
<1>4. /\ copied[0] = <<>>
      /\ \A n \in 1..m : copied[n] = IF s[n] \in keep THEN Append(copied[n - 1], s[n])
                                                      ELSE copied[n - 1]
  <2> HIDE DEF copied
  <2>1. 0 \in 0..m /\ \A n \in 1..m : n \in 0..m /\ n # 0
    BY <1>1
  <2> QED
    BY <1>2, <2>1
<1> HIDE DEF copied, m
<1>5. 0 \in S
  <2>1. <<>> \in Seq(T) /\ Elements(<<>>) = {} /\ First(0) = {} /\ NoRepeats(<<>>)
    BY DEF Elements, NoRepeats
  <2> QED
    BY <1>4, <2>1
<1>6. ASSUME NEW n \in Nat, n \in S
      PROVE  n + 1 \in S
  <2> SUFFICES ASSUME n + 1 \in 0..m
               PROVE  /\ copied[n + 1] \in Seq(T)
                      /\ Elements(copied[n + 1]) = First(n + 1) \cap keep
                      /\ NoRepeats(s) => NoRepeats(copied[n + 1])
    OBVIOUS
  <2> DEFINE c == copied[n]
             x == s[n + 1]
  <2>1. /\ c \in Seq(T) /\ Elements(c) = First(n) \cap keep
        /\ NoRepeats(s) => NoRepeats(c)
        /\ x \in T
        /\ copied[n + 1] = IF x \in keep THEN Append(c, x) ELSE c
    BY <1>1, <1>4, <1>6
  <2>2. First(n + 1) = First(n) \cup {x}
    <3>1. \A j \in 1..(n + 1) : j \in 1..n \/ j = n + 1
      BY <1>6
    <3>2. n + 1 \in 1..(n + 1) /\ \A j \in 1..n : j \in 1..(n + 1)
      BY <1>6
    <3> QED
      BY <3>1, <3>2
  <2>3. NoRepeats(s) => x \notin First(n)
    <3>1. n + 1 \in 1..m /\ \A j \in 1..n : j \in 1..m /\ j # n + 1
      BY <1>1
    <3> QED
      BY <1>1, <3>1 DEF NoRepeats
  <2> HIDE DEF c, x, First
  <2>4. CASE x \in keep
    <3>1. LET a == Append(c, x) IN
          /\ a \in Seq(T)
          /\ Elements(a) = Elements(c) \cup {x}
          /\ NoRepeats(c) /\ x \notin Elements(c) => NoRepeats(a)
      BY <2>1, AppendElements
    <3> QED
      BY <2>1, <2>2, <2>3, <2>4, <3>1
  <2>5. CASE x \notin keep
    BY <2>1, <2>2, <2>5
  <2> QED
    BY <2>4, <2>5
<1> HIDE DEF S
<1>7. m \in S
  BY <1>1, <1>5, <1>6, NumberInduction
<1>8. First(m) = Elements(s)
  BY <1>1 DEF Elements
<1> QED
  BY <1>1, <1>3, <1>7, <1>8 DEF S

-----------------------------------------------------------------------------
(* Worlds whose parts agree *)

Archetypes ==
    [component_types : TypeSets,
     entities        : Seq(EntityId),
     data            : [Key -> Bytes \cup {None}]]

Worlds ==
    [next_entity_id    : 1..U32Max,
     next_archetype_id : 0..U32Max,
     archetypes        : [ArchetypeId -> Archetypes \cup {None}],
     archetype_index   : [TypeSets -> ArchetypeId \cup {None}],
     entity_archetype  : [EntityId -> ArchetypeId \cup {None}],
     version           : Nat]

Used(w) == 0..(w.next_archetype_id - 1)

\* The archetypes and their index agree.
Indexed(w) ==
    /\ \A id \in Used(w) : w.archetypes[id] \in Archetypes
    /\ \A types \in TypeSets : w.archetype_index[types] # None =>
          /\ w.archetype_index[types] \in Used(w)
          /\ w.archetypes[w.archetype_index[types]].component_types = types

\* The archetype holds the entity, once, with data for each of its types, or it
\* holds neither the entity nor any data of it.
Holds(arch, e) ==
    /\ e \in Elements(arch.entities)
    /\ \A t \in ComponentType : arch.data[<<e, t>>] # None <=> t \in arch.component_types

Lacks(arch, e) ==
    /\ e \notin Elements(arch.entities)
    /\ \A t \in ComponentType : arch.data[<<e, t>>] = None

\* Entities are where the world says, and nowhere else; entity x is nowhere.
SoundBut(w, x) ==
    /\ w \in Worlds
    /\ Indexed(w)
    /\ \A id \in Used(w) : NoRepeats(w.archetypes[id].entities)
    /\ \A e \in EntityId : e # x /\ w.entity_archetype[e] # None =>
          w.entity_archetype[e] \in Used(w)
    /\ \A e \in EntityId, id \in Used(w) :
          IF e # x /\ w.entity_archetype[e] = id THEN Holds(w.archetypes[id], e)
                                                 ELSE Lacks(w.archetypes[id], e)

\* There is no entity 0.
Sound(w) == SoundBut(w, 0)

\* What the assumptions say of the constants.
LEMMA Ids ==
  /\ 0 \notin EntityId /\ U32Max \in Nat /\ U32Max # 0
  /\ None \notin ArchetypeId /\ None \notin Bytes
  /\ ArchetypeId = 0..(U32Max - 1)
  BY ArchetypeAssumption DEF EntityId, ArchetypeId

\* Ids in use are ids.
LEMMA UsedIds ==
  ASSUME NEW w \in Worlds
  PROVE  /\ Used(w) \subseteq ArchetypeId
         /\ None \notin Used(w)
         /\ w.next_archetype_id \in Nat
<1>1. w.next_archetype_id \in 0..U32Max
  BY DEF Worlds
<1>2. U32Max \in Nat
  BY Ids
<1> QED
  BY <1>1, <1>2, Ids DEF Used, ArchetypeId

\* A world is what its fields are.
LEMMA WorldFields ==
  ASSUME NEW w \in Worlds
  PROVE  /\ w.next_entity_id \in 1..U32Max
         /\ w.next_archetype_id \in 0..U32Max
         /\ w.archetypes \in [ArchetypeId -> Archetypes \cup {None}]
         /\ w.archetype_index \in [TypeSets -> ArchetypeId \cup {None}]
         /\ w.entity_archetype \in [EntityId -> ArchetypeId \cup {None}]
         /\ w.version \in Nat
  BY DEF Worlds

\* An archetype is what its fields are.
LEMMA ArchetypeFields ==
  ASSUME NEW arch \in Archetypes
  PROVE  /\ arch.component_types \in TypeSets
         /\ arch.component_types \subseteq ComponentType
         /\ arch.component_types # {}
         /\ arch.entities \in Seq(EntityId)
         /\ arch.data \in [Key -> Bytes \cup {None}]
  BY DEF Archetypes, TypeSets

\* The empty world is sound.
LEMMA EmptySound == ASSUME NEW n \in 1..U32Max
                    PROVE  Sound([EmptyWorld EXCEPT !.next_entity_id = n])
<1> DEFINE w == [EmptyWorld EXCEPT !.next_entity_id = n]
<1>1. /\ w.next_entity_id = n /\ w.next_archetype_id = 0 /\ w.version = 0
      /\ w.archetypes = [id \in ArchetypeId |-> None]
      /\ w.archetype_index = [types \in TypeSets |-> None]
      /\ w.entity_archetype = [e \in EntityId |-> None]
      /\ w = [next_entity_id |-> n, next_archetype_id |-> 0,
              archetypes |-> [id \in ArchetypeId |-> None],
              archetype_index |-> [types \in TypeSets |-> None],
              entity_archetype |-> [e \in EntityId |-> None], version |-> 0]
  BY DEF EmptyWorld
<1>2. w \in Worlds
  BY <1>1, Ids DEF Worlds
<1>3. Used(w) = {}
  BY <1>1 DEF Used
<1> HIDE DEF w
<1>4. /\ \A types \in TypeSets : w.archetype_index[types] = None
      /\ \A e \in EntityId : w.entity_archetype[e] = None
  BY <1>1
<1> QED
  BY <1>2, <1>3, <1>4 DEF Sound, SoundBut, Indexed, w

-----------------------------------------------------------------------------
(* Archetypes *)

\* remove_entity takes the entity out of the list, and its data with it.
LEMMA RemovedFields ==
  ASSUME NEW arch \in Archetypes, NEW e \in EntityId
  PROVE  LET r == RemovedEntity(arch, e) IN
         /\ r \in Archetypes
         /\ r.component_types = arch.component_types
         /\ NoRepeats(arch.entities) => NoRepeats(r.entities)
         /\ Holds(arch, e) => Lacks(r, e)
         /\ \A f \in EntityId \ {e} :
               /\ f \in Elements(r.entities) <=> f \in Elements(arch.entities)
               /\ \A t \in ComponentType : r.data[<<f, t>>] = arch.data[<<f, t>>]
<1> DEFINE entities == Filtered(arch.entities, EntityId \ {e})
           data == [k \in Key |-> IF k[1] = e /\ k[2] \in arch.component_types
                                  THEN None ELSE arch.data[k]]
           r == RemovedEntity(arch, e)
<1>1. /\ arch.component_types \in TypeSets
      /\ arch.entities \in Seq(EntityId)
      /\ arch.data \in [Key -> Bytes \cup {None}]
  BY ArchetypeFields
<1>2. /\ entities \in Seq(EntityId)
      /\ Elements(entities) = Elements(arch.entities) \cap (EntityId \ {e})
      /\ NoRepeats(arch.entities) => NoRepeats(entities)
  BY <1>1, FilteredKeeps
<1>3. data \in [Key -> Bytes \cup {None}]
  BY <1>1
<1>4. r = [arch EXCEPT !.entities = entities, !.data = data]
  BY DEF RemovedEntity
<1> HIDE DEF entities, r
<1>5. /\ r \in Archetypes
      /\ r.component_types = arch.component_types /\ r.entities = entities
      /\ r.data = data
  <2> HIDE DEF data
  <2> QED BY <1>1, <1>2, <1>3, <1>4 DEF Archetypes
<1>7. \A f \in EntityId, t \in ComponentType :
        data[<<f, t>>] = IF f = e /\ t \in arch.component_types
                         THEN None ELSE arch.data[<<f, t>>]
  BY DEF Key
<1> HIDE DEF data
<1>8. Holds(arch, e) => Lacks(r, e)
  BY <1>2, <1>5, <1>7 DEF Holds, Lacks
<1>9. \A f \in EntityId \ {e} :
        /\ f \in Elements(r.entities) <=> f \in Elements(arch.entities)
        /\ \A t \in ComponentType : r.data[<<f, t>>] = arch.data[<<f, t>>]
  BY <1>2, <1>5, <1>7
<1> QED
  BY <1>2, <1>5, <1>8, <1>9 DEF r

\* add_entity and set_component of what was extracted for exactly the types of
\* the archetype.
LEMMA ReceivedFields ==
  ASSUME NEW arch \in Archetypes, NEW e \in EntityId,
         NEW extracted \in [ComponentType -> Bytes \cup {None}], Lacks(arch, e),
         \A t \in ComponentType : extracted[t] # None <=> t \in arch.component_types
  PROVE  LET r == ReceivedEntity(arch, e, extracted) IN
         /\ r \in Archetypes
         /\ r.component_types = arch.component_types
         /\ NoRepeats(arch.entities) => NoRepeats(r.entities)
         /\ Holds(r, e)
         /\ \A t \in ComponentType : r.data[<<e, t>>] = extracted[t]
         /\ \A f \in EntityId \ {e} :
               /\ f \in Elements(r.entities) <=> f \in Elements(arch.entities)
               /\ \A t \in ComponentType : r.data[<<f, t>>] = arch.data[<<f, t>>]
<1> DEFINE entities == Append(arch.entities, e)
           data == [k \in Key |-> IF k[1] = e /\ extracted[k[2]] # None
                                  THEN extracted[k[2]] ELSE arch.data[k]]
           r == ReceivedEntity(arch, e, extracted)
<1>1. /\ arch.component_types \in TypeSets
      /\ arch.entities \in Seq(EntityId)
      /\ arch.data \in [Key -> Bytes \cup {None}]
  BY ArchetypeFields
<1>2. /\ entities \in Seq(EntityId)
      /\ Elements(entities) = Elements(arch.entities) \cup {e}
      /\ NoRepeats(arch.entities) => NoRepeats(entities)
  BY <1>1, AppendElements DEF Lacks
<1>3. data \in [Key -> Bytes \cup {None}]
  BY <1>1 DEF Key
<1>4. r = [arch EXCEPT !.entities = entities, !.data = data]
  BY DEF ReceivedEntity
<1> HIDE DEF entities, r
<1>5. /\ r \in Archetypes
      /\ r.component_types = arch.component_types /\ r.entities = entities
      /\ r.data = data
  <2> HIDE DEF data
  <2> QED BY <1>1, <1>2, <1>3, <1>4 DEF Archetypes
<1>7. \A f \in EntityId, t \in ComponentType :
        data[<<f, t>>] = IF f = e /\ extracted[t] # None
                         THEN extracted[t] ELSE arch.data[<<f, t>>]
  BY DEF Key
<1> HIDE DEF data
<1>8. \A t \in ComponentType : r.data[<<e, t>>] = extracted[t]
  BY <1>5, <1>7 DEF Lacks
<1>9. Holds(r, e)
  BY <1>2, <1>5, <1>8 DEF Holds
<1>10. \A f \in EntityId \ {e} :
        /\ f \in Elements(r.entities) <=> f \in Elements(arch.entities)
        /\ \A t \in ComponentType : r.data[<<f, t>>] = arch.data[<<f, t>>]
  BY <1>2, <1>5, <1>7
<1> QED
  BY <1>2, <1>5, <1>8, <1>9, <1>10 DEF r

-----------------------------------------------------------------------------
(* What a sound world answers *)

\* Entities other than x read the same in both worlds.
SameBut(v, w, x) ==
    \A e \in EntityId, t \in ComponentType :
        e # x => GetComponent(v, e, t) = GetComponent(w, e, t)

\* The counters that moves between archetypes leave alone.
SameCounters(v, w) ==
    v.next_entity_id = w.next_entity_id /\ v.version = w.version

\* An entity has the components that can be read, which are those of its archetype.
LEMMA SoundReads ==
  ASSUME NEW w, Sound(w), NEW e \in EntityId
  PROVE  /\ TypesOf(w, e) \subseteq ComponentType
         /\ \A t \in ComponentType :
               /\ t \in TypesOf(w, e) <=> GetComponent(w, e, t) # None
               /\ HasComponent(w, e, t) <=> GetComponent(w, e, t) # None
               /\ GetComponent(w, e, t) \in Bytes \cup {None}
         /\ w.entity_archetype[e] # None =>
               /\ w.entity_archetype[e] \in Used(w)
               /\ ArchetypeOf(w, e) \in Archetypes
               /\ Holds(ArchetypeOf(w, e), e)
               /\ TypesOf(w, e) = ArchetypeOf(w, e).component_types
               /\ TypesOf(w, e) # {}
         /\ w.entity_archetype[e] = None => TypesOf(w, e) = {}
<1>1. e # 0
  BY Ids
<1>2. CASE w.entity_archetype[e] = None
  BY <1>2 DEF TypesOf, GetComponent, HasComponent
<1>3. CASE w.entity_archetype[e] # None
  <2> DEFINE arch == ArchetypeOf(w, e)
  <2>1. w.entity_archetype[e] \in Used(w)
    BY <1>1, <1>3 DEF Sound, SoundBut
  <2>2. arch \in Archetypes /\ Holds(arch, e)
    BY <1>1, <2>1 DEF Sound, SoundBut, Indexed, ArchetypeOf
  <2>3. /\ TypesOf(w, e) = arch.component_types
        /\ \A t \in ComponentType :
              /\ GetComponent(w, e, t) = arch.data[<<e, t>>]
              /\ HasComponent(w, e, t) <=> t \in arch.component_types
    BY <1>3 DEF TypesOf, GetComponent, HasComponent
  <2> HIDE DEF arch
  <2>4. \A t \in ComponentType : arch.data[<<e, t>>] \in Bytes \cup {None}
    BY <2>2, ArchetypeFields DEF Key
  <2>5. arch.component_types \subseteq ComponentType /\ arch.component_types # {}
    BY <2>2, ArchetypeFields
  <2> QED
    BY <1>3, <2>1, <2>2, <2>3, <2>4, <2>5 DEF Holds, arch
<1> QED
  BY <1>2, <1>3

\* An entity without components is nowhere.
LEMMA NowhereIsSound ==
  ASSUME NEW w, Sound(w), NEW e \in EntityId, w.entity_archetype[e] = None
  PROVE  SoundBut(w, e)
<1>1. w \in Worlds
  BY DEF Sound, SoundBut
<1>2. \A id \in Used(w) : id # w.entity_archetype[e]
  BY <1>1, UsedIds
<1> QED
  BY <1>2, Ids DEF Sound, SoundBut

\* Steps that read the same compose.
LEMMA SameTransitive ==
  ASSUME NEW u, NEW v, NEW w, NEW x, SameBut(u, v, x), SameBut(v, w, x)
  PROVE  SameBut(u, w, x)
  BY DEF SameBut

\* The version does not matter to the reads.
LEMMA BumpedSound ==
  ASSUME NEW w, NEW x, SoundBut(w, x)
  PROVE  LET v == Bumped(w) IN
         /\ SoundBut(v, x)
         /\ v.version = w.version + 1
         /\ v.next_entity_id = w.next_entity_id
         /\ v.next_archetype_id = w.next_archetype_id
         /\ v.archetypes = w.archetypes
         /\ v.archetype_index = w.archetype_index
         /\ v.entity_archetype = w.entity_archetype
<1> DEFINE v == Bumped(w)
<1>1. w \in Worlds
  BY DEF SoundBut
<1>2. w.version + 1 \in Nat
  BY <1>1, WorldFields
<1>3. /\ v \in Worlds
      /\ v.version = w.version + 1
      /\ v.next_entity_id = w.next_entity_id
      /\ v.next_archetype_id = w.next_archetype_id
      /\ v.archetypes = w.archetypes
      /\ v.archetype_index = w.archetype_index
      /\ v.entity_archetype = w.entity_archetype
  BY <1>1, <1>2 DEF Bumped, Worlds
<1> HIDE DEF v
<1>4. Used(v) = Used(w)
  BY <1>3 DEF Used
<1>5. SoundBut(v, x)
  BY <1>3, <1>4 DEF SoundBut, Indexed
<1> QED
  BY <1>3, <1>5 DEF v

\* The entity that is nowhere has no archetype any more.
LEMMA ForgottenSound ==
  ASSUME NEW w, NEW e \in EntityId, SoundBut(w, e)
  PROVE  LET v == [w EXCEPT !.entity_archetype[e] = None] IN
         /\ Sound(v)
         /\ SameBut(v, w, e)
         /\ SameCounters(v, w)
         /\ \A t \in ComponentType : GetComponent(v, e, t) = None
<1> DEFINE v == [w EXCEPT !.entity_archetype[e] = None]
<1>1. w \in Worlds
  BY DEF SoundBut
<1>2. /\ v \in Worlds
      /\ SameCounters(v, w)
      /\ v.next_archetype_id = w.next_archetype_id
      /\ v.archetypes = w.archetypes
      /\ v.archetype_index = w.archetype_index
      /\ \A f \in EntityId :
            v.entity_archetype[f] = IF f = e THEN None ELSE w.entity_archetype[f]
  BY <1>1 DEF Worlds, SameCounters
<1> HIDE DEF v
<1>3. Used(v) = Used(w) /\ None \notin Used(w)
  BY <1>1, <1>2, UsedIds DEF Used
<1>4. Sound(v)
  BY <1>2, <1>3, Ids DEF Sound, SoundBut, Indexed
<1>5. SameBut(v, w, e) /\ \A t \in ComponentType : GetComponent(v, e, t) = None
  BY <1>2 DEF SameBut, GetComponent, ArchetypeOf
<1> QED
  BY <1>2, <1>4, <1>5 DEF v

\* Taking an entity out of its archetype, data and all, leaves it nowhere.
LEMMA WithoutSound ==
  ASSUME NEW w, Sound(w), NEW e \in EntityId, w.entity_archetype[e] # None
  PROVE  LET v == WithoutEntity(w, e) IN
         /\ SoundBut(v, e)
         /\ SameBut(v, w, e)
         /\ SameCounters(v, w)
         /\ v.next_archetype_id = w.next_archetype_id
         /\ v.archetype_index = w.archetype_index
<1> DEFINE id == w.entity_archetype[e]
           r == RemovedEntity(w.archetypes[id], e)
           v == WithoutEntity(w, e)
<1>1. w \in Worlds /\ Indexed(w)
  BY DEF Sound, SoundBut
<1>2. /\ id \in Used(w) /\ id \in ArchetypeId
      /\ w.archetypes[id] \in Archetypes /\ Holds(w.archetypes[id], e)
  BY <1>1, SoundReads, UsedIds DEF ArchetypeOf
<1>3. /\ r \in Archetypes
      /\ r.component_types = w.archetypes[id].component_types
      /\ NoRepeats(w.archetypes[id].entities) => NoRepeats(r.entities)
      /\ Lacks(r, e)
      /\ \A f \in EntityId \ {e} :
            /\ f \in Elements(r.entities) <=> f \in Elements(w.archetypes[id].entities)
            /\ \A t \in ComponentType : r.data[<<f, t>>] = w.archetypes[id].data[<<f, t>>]
  BY <1>2, RemovedFields
<1>4. v = [w EXCEPT !.archetypes[id] = r]
  BY DEF WithoutEntity
<1> HIDE DEF r, id, v
<1>5. /\ v \in Worlds
      /\ SameCounters(v, w)
      /\ v.next_archetype_id = w.next_archetype_id
      /\ v.archetype_index = w.archetype_index
      /\ v.entity_archetype = w.entity_archetype
      /\ \A i \in ArchetypeId : v.archetypes[i] = IF i = id THEN r ELSE w.archetypes[i]
  BY <1>1, <1>2, <1>3, <1>4 DEF Worlds, SameCounters
<1>6. Used(v) = Used(w) /\ Used(w) \subseteq ArchetypeId
  BY <1>1, <1>5, UsedIds DEF Used
<1>7. Indexed(v)
  BY <1>1, <1>3, <1>5, <1>6 DEF Indexed
<1>8. \A f \in EntityId, i \in Used(v) :
        IF f # e /\ v.entity_archetype[f] = i THEN Holds(v.archetypes[i], f)
                                              ELSE Lacks(v.archetypes[i], f)
  <2> SUFFICES ASSUME NEW f \in EntityId, NEW i \in Used(v)
               PROVE  IF f # e /\ v.entity_archetype[f] = i THEN Holds(v.archetypes[i], f)
                                                            ELSE Lacks(v.archetypes[i], f)
    OBVIOUS
  <2>1. i \in ArchetypeId /\ f # 0
    BY <1>6, Ids
  <2>2. IF w.entity_archetype[f] = i THEN Holds(w.archetypes[i], f)
                                     ELSE Lacks(w.archetypes[i], f)
    BY <1>6, <2>1 DEF Sound, SoundBut
  <2>3. CASE i # id
    BY <1>5, <2>1, <2>2, <2>3 DEF id
  <2>4. CASE i = id /\ f = e
    BY <1>3, <1>5, <2>1, <2>4
  <2>5. CASE i = id /\ f # e
    <3>1. v.archetypes[i] = r /\ v.entity_archetype = w.entity_archetype
      BY <1>5, <2>1, <2>5
    <3>2. /\ Holds(w.archetypes[i], f) => Holds(r, f)
          /\ Lacks(w.archetypes[i], f) => Lacks(r, f)
      BY <1>3, <2>5 DEF Holds, Lacks
    <3> QED
      BY <2>2, <2>5, <3>1, <3>2
  <2> QED
    BY <2>3, <2>4, <2>5
<1>9. SoundBut(v, e)
  <2>1. \A i \in Used(v) : NoRepeats(v.archetypes[i].entities)
    BY <1>3, <1>5, <1>6 DEF Sound, SoundBut
  <2>2. \A f \in EntityId : f # e /\ v.entity_archetype[f] # None =>
          v.entity_archetype[f] \in Used(v)
    BY <1>5, <1>6, Ids DEF Sound, SoundBut
  <2> QED
    BY <1>5, <1>7, <1>8, <2>1, <2>2 DEF SoundBut
<1>10. SameBut(v, w, e)
  <2> SUFFICES ASSUME NEW f \in EntityId, NEW t \in ComponentType, f # e
               PROVE  GetComponent(v, f, t) = GetComponent(w, f, t)
    BY DEF SameBut
  <2>1. w.entity_archetype[f] # None => w.entity_archetype[f] \in ArchetypeId
    BY <1>6, Ids DEF Sound, SoundBut
  <2> QED
    BY <1>3, <1>5, <2>1 DEF GetComponent, ArchetypeOf
<1> QED
  BY <1>5, <1>9, <1>10 DEF v

-----------------------------------------------------------------------------
(* Moves between archetypes *)

\* get_or_create_archetype finds the archetype of these types, or makes an
\* empty one with an id that no other has.
LEMMA WithArchetypeSound ==
  ASSUME NEW w, NEW e \in EntityId, SoundBut(w, e),
         NEW types \in TypeSets, CanMoveTo(w, types)
  PROVE  LET v == WithArchetype(w, types) IN
         /\ SoundBut(v, e)
         /\ SameBut(v, w, e)
         /\ SameCounters(v, w)
         /\ v.archetype_index[types] \in Used(v)
<1> DEFINE new == NewArchetype(types)
           id == w.next_archetype_id
           v == WithArchetype(w, types)
<1>1. w \in Worlds /\ Indexed(w)
  BY DEF SoundBut
<1>2. CASE w.archetype_index[types] # None
  <2>1. v = w
    BY <1>2 DEF WithArchetype
  <2>2. w.archetype_index[types] \in Used(w)
    BY <1>1, <1>2 DEF Indexed
  <2> QED
    BY <2>1, <2>2 DEF SameBut, SameCounters
<1>3. CASE w.archetype_index[types] = None
  <2>1. id \in ArchetypeId /\ id \in Nat /\ id + 1 \in 0..U32Max
    BY <1>1, <1>3, WorldFields, Ids DEF CanMoveTo
  <2>2. new \in Archetypes /\ new.component_types = types
    BY DEF NewArchetype, Archetypes
  <2>3. NoRepeats(new.entities) /\ \A f \in EntityId : Lacks(new, f)
    BY DEF NewArchetype, NoRepeats, Lacks, Elements, Key
  <2>4. v = [w EXCEPT !.next_archetype_id = id + 1,
                      !.archetypes[id] = new,
                      !.archetype_index[types] = id]
    BY <1>3 DEF WithArchetype
  <2> HIDE DEF new, v
  <2>5. /\ v \in Worlds
        /\ SameCounters(v, w)
        /\ v.next_archetype_id = id + 1
        /\ v.entity_archetype = w.entity_archetype
        /\ \A i \in ArchetypeId : v.archetypes[i] = IF i = id THEN new ELSE w.archetypes[i]
        /\ \A s \in TypeSets :
              v.archetype_index[s] = IF s = types THEN id ELSE w.archetype_index[s]
    BY <1>1, <2>1, <2>2, <2>4 DEF Worlds, SameCounters
  <2> HIDE DEF id
  <2>6. /\ Used(v) = Used(w) \cup {id} /\ id \notin Used(w)
        /\ Used(v) \subseteq ArchetypeId
    <3>1. Used(w) = 0..(id - 1) /\ Used(v) = 0..id
      BY <2>1, <2>5 DEF Used, id
    <3> QED
      BY <1>1, <2>1, <2>5, <3>1, UsedIds
  <2>7. Indexed(v)
    BY <1>1, <2>2, <2>5, <2>6 DEF Indexed
  <2>8. \A i \in Used(v) : NoRepeats(v.archetypes[i].entities)
    BY <2>3, <2>5, <2>6 DEF SoundBut
  <2>9. \A f \in EntityId : f # e /\ v.entity_archetype[f] # None =>
          v.entity_archetype[f] \in Used(w)
    BY <2>5, <2>6 DEF SoundBut
  <2>10. \A f \in EntityId, i \in Used(v) :
          IF f # e /\ v.entity_archetype[f] = i THEN Holds(v.archetypes[i], f)
                                                ELSE Lacks(v.archetypes[i], f)
    <3> SUFFICES ASSUME NEW f \in EntityId, NEW i \in Used(v)
                 PROVE  IF f # e /\ v.entity_archetype[f] = i
                        THEN Holds(v.archetypes[i], f) ELSE Lacks(v.archetypes[i], f)
      OBVIOUS
    <3>1. CASE i = id
      <4>1. v.archetypes[i] = new /\ ~(f # e /\ v.entity_archetype[f] = i)
        BY <2>5, <2>6, <2>9, <3>1, Ids
      <4> QED
        BY <2>3, <4>1
    <3>2. CASE i # id
      <4>1. i \in Used(w) /\ v.archetypes[i] = w.archetypes[i]
        BY <2>5, <2>6, <3>2
      <4> QED
        BY <2>5, <4>1 DEF SoundBut
    <3> QED
      BY <3>1, <3>2
  <2>11. SoundBut(v, e)
    BY <2>5, <2>6, <2>7, <2>8, <2>9, <2>10 DEF SoundBut
  <2>12. SameBut(v, w, e)
    <3> SUFFICES ASSUME NEW f \in EntityId, NEW t \in ComponentType, f # e
                 PROVE  GetComponent(v, f, t) = GetComponent(w, f, t)
      BY DEF SameBut
    <3>1. w.entity_archetype[f] # None =>
             w.entity_archetype[f] \in ArchetypeId /\ w.entity_archetype[f] # id
      BY <2>5, <2>6, <2>9
    <3> QED
      BY <2>5, <3>1 DEF GetComponent, ArchetypeOf
  <2>13. v.archetype_index[types] \in Used(v)
    BY <2>5, <2>6
  <2> QED
    BY <2>5, <2>11, <2>12, <2>13 DEF v
<1> QED
  BY <1>2, <1>3

\* An entity that is nowhere goes into the archetype of its types with the
\* data that was extracted for them.
LEMMA MovedSound ==
  ASSUME NEW w, NEW e \in EntityId, SoundBut(w, e),
         NEW types \in TypeSets, CanMoveTo(w, types),
         NEW extracted \in [ComponentType -> Bytes \cup {None}],
         \A t \in ComponentType : extracted[t] # None <=> t \in types
  PROVE  LET m == Moved(w, e, types, extracted) IN
         /\ Sound(m)
         /\ SameBut(m, w, e)
         /\ SameCounters(m, w)
         /\ \A t \in ComponentType : GetComponent(m, e, t) = extracted[t]
<1> DEFINE v == WithArchetype(w, types)
           id == v.archetype_index[types]
           r == ReceivedEntity(v.archetypes[id], e, extracted)
           m == Moved(w, e, types, extracted)
<1>1. /\ SoundBut(v, e)
      /\ SameBut(v, w, e)
      /\ SameCounters(v, w)
      /\ id \in Used(v)
  BY WithArchetypeSound
<1>2. m = [v EXCEPT !.archetypes[id] = r, !.entity_archetype[e] = id]
  BY DEF Moved
<1> HIDE DEF v, m
<1>3. v \in Worlds /\ Indexed(v)
  BY <1>1 DEF SoundBut
<1>4. /\ id \in ArchetypeId /\ id # None /\ Used(v) \subseteq ArchetypeId
      /\ v.archetypes[id] \in Archetypes
      /\ v.archetypes[id].component_types = types
      /\ Lacks(v.archetypes[id], e)
  <2>1. id \in ArchetypeId /\ id # None /\ Used(v) \subseteq ArchetypeId
    BY <1>1, <1>3, UsedIds
  <2> QED
    BY <1>1, <1>3, <2>1 DEF Indexed, SoundBut
<1>5. /\ r \in Archetypes
      /\ r.component_types = types
      /\ NoRepeats(v.archetypes[id].entities) => NoRepeats(r.entities)
      /\ Holds(r, e)
      /\ \A t \in ComponentType : r.data[<<e, t>>] = extracted[t]
      /\ \A f \in EntityId \ {e} :
            /\ f \in Elements(r.entities) <=> f \in Elements(v.archetypes[id].entities)
            /\ \A t \in ComponentType : r.data[<<f, t>>] = v.archetypes[id].data[<<f, t>>]
  BY <1>4, ReceivedFields
<1> HIDE DEF r, id
<1>6. /\ m \in Worlds
      /\ SameCounters(m, v)
      /\ m.next_archetype_id = v.next_archetype_id
      /\ m.archetype_index = v.archetype_index
      /\ \A f \in EntityId :
            m.entity_archetype[f] = IF f = e THEN id ELSE v.entity_archetype[f]
      /\ \A i \in ArchetypeId : m.archetypes[i] = IF i = id THEN r ELSE v.archetypes[i]
  BY <1>2, <1>3, <1>4, <1>5 DEF Worlds, SameCounters
<1>7. Used(m) = Used(v)
  BY <1>6 DEF Used
<1>8. Indexed(m)
  BY <1>3, <1>4, <1>5, <1>6, <1>7 DEF Indexed
<1>9. \A f \in EntityId, i \in Used(m) :
        IF m.entity_archetype[f] = i THEN Holds(m.archetypes[i], f)
                                     ELSE Lacks(m.archetypes[i], f)
  <2> SUFFICES ASSUME NEW f \in EntityId, NEW i \in Used(m)
               PROVE  IF m.entity_archetype[f] = i THEN Holds(m.archetypes[i], f)
                                                   ELSE Lacks(m.archetypes[i], f)
    OBVIOUS
  <2>1. i \in ArchetypeId /\ i \in Used(v)
    BY <1>4, <1>7
  <2>2. IF f # e /\ v.entity_archetype[f] = i THEN Holds(v.archetypes[i], f)
                                              ELSE Lacks(v.archetypes[i], f)
    BY <1>1, <2>1 DEF SoundBut
  <2>3. CASE i # id
    BY <1>6, <2>1, <2>2, <2>3
  <2>4. CASE i = id /\ f = e
    BY <1>5, <1>6, <2>1, <2>4
  <2>5. CASE i = id /\ f # e
    <3>1. m.archetypes[i] = r /\ m.entity_archetype[f] = v.entity_archetype[f]
      BY <1>6, <2>1, <2>5
    <3>2. /\ Holds(v.archetypes[i], f) => Holds(r, f)
          /\ Lacks(v.archetypes[i], f) => Lacks(r, f)
      BY <1>4, <1>5, <2>5 DEF Holds, Lacks
    <3> QED
      BY <2>2, <2>5, <3>1, <3>2
  <2> QED
    BY <2>3, <2>4, <2>5
<1>10. Sound(m)
  <2>1. \A i \in Used(m) : NoRepeats(m.archetypes[i].entities)
    BY <1>1, <1>4, <1>5, <1>6, <1>7 DEF SoundBut
  <2>2. \A f \in EntityId : m.entity_archetype[f] # None =>
          m.entity_archetype[f] \in Used(m)
    BY <1>1, <1>6, <1>7 DEF SoundBut
  <2>3. 0 \notin EntityId
    BY Ids
  <2> QED
    BY <1>6, <1>8, <1>9, <2>1, <2>2, <2>3 DEF Sound, SoundBut
<1>11. SameBut(m, v, e)
  <2> SUFFICES ASSUME NEW f \in EntityId, NEW t \in ComponentType, f # e
               PROVE  GetComponent(m, f, t) = GetComponent(v, f, t)
    BY DEF SameBut
  <2>1. v.entity_archetype[f] # None => v.entity_archetype[f] \in ArchetypeId
    BY <1>1, <1>4 DEF SoundBut
  <2> QED
    BY <1>5, <1>6, <2>1 DEF GetComponent, ArchetypeOf
<1>12. \A t \in ComponentType : GetComponent(m, e, t) = extracted[t]
  BY <1>4, <1>5, <1>6 DEF GetComponent, ArchetypeOf
<1>13. SameBut(m, w, e) /\ SameCounters(m, w)
  BY <1>1, <1>6, <1>11 DEF SameBut, SameCounters
<1> QED
  BY <1>10, <1>12, <1>13 DEF m

-----------------------------------------------------------------------------
(* The methods of the world *)

\* remove_entity returns what can be read of the entity.
LEMMA ExtractedReads ==
  ASSUME NEW w, Sound(w), NEW e \in EntityId, w.entity_archetype[e] # None
  PROVE  LET x == Extracted(ArchetypeOf(w, e), e) IN
         /\ x \in [ComponentType -> Bytes \cup {None}]
         /\ \A t \in ComponentType : x[t] = GetComponent(w, e, t)
<1> DEFINE arch == ArchetypeOf(w, e)
           x == Extracted(arch, e)
<1>1. /\ Holds(arch, e)
      /\ \A t \in ComponentType : GetComponent(w, e, t) \in Bytes \cup {None}
  BY SoundReads
<1>2. \A t \in ComponentType : GetComponent(w, e, t) = arch.data[<<e, t>>]
  BY DEF GetComponent
<1> HIDE DEF arch
<1>3. x = [t \in ComponentType |->
             IF t \in arch.component_types THEN arch.data[<<e, t>>] ELSE None]
  BY DEF Extracted
<1>4. \A t \in ComponentType : x[t] = GetComponent(w, e, t)
  BY <1>1, <1>2, <1>3 DEF Holds
<1> HIDE DEF x
<1>5. x = [t \in ComponentType |-> x[t]]
  BY <1>3
<1>6. x \in [ComponentType -> Bytes \cup {None}]
  BY <1>1, <1>4, <1>5
<1> QED
  BY <1>4, <1>6 DEF x, arch

\* The three ways of add_component all leave the entity with the data, and
\* everything else as it was.
LEMMA AddedSound ==
  ASSUME NEW w, Sound(w), NEW e \in EntityId, NEW t \in ComponentType, NEW data \in Bytes,
         t \notin TypesOf(w, e) => CanMoveTo(w, TypesOf(w, e) \cup {t})
  PROVE  LET v == Added(w, e, t, data) IN
         /\ Sound(v)
         /\ SameBut(v, w, e)
         /\ v.version = w.version + 1
         /\ v.next_entity_id = w.next_entity_id
         /\ \A u \in ComponentType :
               GetComponent(v, e, u) = IF u = t THEN data ELSE GetComponent(w, e, u)
<1> DEFINE b == Bumped(w)
           v == Added(w, e, t, data)
<1>1. /\ Sound(b)
      /\ b.version = w.version + 1
      /\ b.next_entity_id = w.next_entity_id
      /\ b.next_archetype_id = w.next_archetype_id
      /\ b.archetypes = w.archetypes
      /\ b.archetype_index = w.archetype_index
      /\ b.entity_archetype = w.entity_archetype
  BY BumpedSound DEF Sound
<1> HIDE DEF b
<1>2. /\ \A f \in EntityId, u \in ComponentType : GetComponent(b, f, u) = GetComponent(w, f, u)
      /\ TypesOf(b, e) = TypesOf(w, e) /\ ArchetypeOf(b, e) = ArchetypeOf(w, e)
      /\ \A u \in TypeSets : CanMoveTo(b, u) <=> CanMoveTo(w, u)
  BY <1>1 DEF GetComponent, TypesOf, ArchetypeOf, CanMoveTo
<1>3. data # None
  BY Ids
<1>4. CASE w.entity_archetype[e] = None
  <2> DEFINE x == [u \in ComponentType |-> IF u = t THEN data ELSE None]
  <2>1. v = Moved(b, e, {t}, x)
    BY <1>4 DEF Added, b
  <2>2. /\ x \in [ComponentType -> Bytes \cup {None}]
        /\ \A u \in ComponentType : x[u] = IF u = t THEN data ELSE None
        /\ {t} \in TypeSets
        /\ \A u \in ComponentType : x[u] # None <=> u \in {t}
    BY <1>3 DEF TypeSets
  <2>3. TypesOf(w, e) = {} /\ \A u \in ComponentType : GetComponent(w, e, u) = None
    BY <1>4 DEF TypesOf, GetComponent
  <2>4. SoundBut(b, e) /\ CanMoveTo(b, {t})
    BY <1>1, <1>2, <1>4, <2>2, <2>3, NowhereIsSound
  <2> HIDE DEF x, v
  <2>5. /\ Sound(v) /\ SameBut(v, b, e) /\ SameCounters(v, b)
        /\ \A u \in ComponentType : GetComponent(v, e, u) = x[u]
    <3> DEFINE types == {t}
    <3>1. /\ v = Moved(b, e, types, x) /\ types \in TypeSets /\ CanMoveTo(b, types)
          /\ \A u \in ComponentType : x[u] # None <=> u \in types
      BY <2>1, <2>2, <2>4
    <3> HIDE DEF types
    <3> QED
      BY <2>2, <2>4, <3>1, MovedSound
  <2> QED
    BY <1>1, <1>2, <2>2, <2>3, <2>5 DEF SameBut, SameCounters, v
<1>5. CASE w.entity_archetype[e] # None /\ t \in ArchetypeOf(w, e).component_types
  <2> DEFINE id == w.entity_archetype[e]
             arch == w.archetypes[id]
             d == [arch.data EXCEPT ![<<e, t>>] = data]
             r == [arch EXCEPT !.data = d]
  <2>1. b \in Worlds /\ Indexed(b) /\ Used(b) = Used(w)
    BY <1>1 DEF Sound, SoundBut, Used
  <2>2. /\ id \in Used(b) /\ id \in ArchetypeId /\ Used(b) \subseteq ArchetypeId
        /\ arch \in Archetypes /\ Holds(arch, e) /\ t \in arch.component_types
    BY <1>5, <2>1, SoundReads, UsedIds DEF ArchetypeOf
  <2>3. v = [b EXCEPT !.archetypes[id] = r]
    BY <1>1, <1>5 DEF Added, ArchetypeOf, b
  <2> HIDE DEF arch
  <2>4. d \in [Key -> Bytes \cup {None}] /\
        \A f \in EntityId, u \in ComponentType :
           d[<<f, u>>] = IF f = e /\ u = t THEN data ELSE arch.data[<<f, u>>]
    <3>1. arch.data \in [Key -> Bytes \cup {None}] /\ <<e, t>> \in Key
      BY <2>2, ArchetypeFields DEF Key
    <3> QED
      BY <3>1 DEF Key
  <2> HIDE DEF d
  <2>5. /\ r \in Archetypes /\ r.data = d
        /\ r.component_types = arch.component_types /\ r.entities = arch.entities
    BY <2>2, <2>4 DEF Archetypes
  <2> HIDE DEF r, v, id
  <2>6. /\ v \in Worlds
        /\ SameCounters(v, b)
        /\ v.next_archetype_id = b.next_archetype_id
        /\ v.archetype_index = b.archetype_index
        /\ v.entity_archetype = b.entity_archetype
        /\ \A i \in ArchetypeId : v.archetypes[i] = IF i = id THEN r ELSE b.archetypes[i]
    BY <2>1, <2>2, <2>3, <2>5 DEF Worlds, SameCounters
  <2>7. Used(v) = Used(b)
    BY <2>6 DEF Used
  <2>8. arch = b.archetypes[id]
    BY <1>1 DEF arch
  <2>9. Indexed(v)
    BY <2>1, <2>2, <2>5, <2>6, <2>7, <2>8 DEF Indexed
  <2>10. \A f \in EntityId : /\ Holds(arch, f) => Holds(r, f)
                             /\ Lacks(arch, f) => Lacks(r, f)
    BY <1>3, <2>2, <2>4, <2>5 DEF Holds, Lacks
  <2>11. \A f \in EntityId, i \in Used(v) :
          IF f # 0 /\ v.entity_archetype[f] = i THEN Holds(v.archetypes[i], f)
                                                ELSE Lacks(v.archetypes[i], f)
    <3> SUFFICES ASSUME NEW f \in EntityId, NEW i \in Used(v)
                 PROVE  IF f # 0 /\ v.entity_archetype[f] = i
                        THEN Holds(v.archetypes[i], f) ELSE Lacks(v.archetypes[i], f)
      OBVIOUS
    <3>1. i \in ArchetypeId /\ i \in Used(b)
      BY <2>2, <2>7
    <3>2. IF f # 0 /\ b.entity_archetype[f] = i THEN Holds(b.archetypes[i], f)
                                                ELSE Lacks(b.archetypes[i], f)
      BY <1>1, <3>1 DEF Sound, SoundBut
    <3>3. CASE i # id
      BY <2>6, <3>1, <3>2, <3>3
    <3>4. CASE i = id
      <4>1. v.archetypes[i] = r /\ b.archetypes[i] = arch
        BY <2>6, <2>8, <3>1, <3>4
      <4> QED
        BY <2>6, <2>10, <3>2, <4>1
    <3> QED
      BY <3>3, <3>4
  <2>12. Sound(v)
    <3>1. \A i \in Used(v) : NoRepeats(v.archetypes[i].entities)
      BY <1>1, <2>2, <2>5, <2>6, <2>7, <2>8 DEF Sound, SoundBut
    <3>2. \A f \in EntityId : f # 0 /\ v.entity_archetype[f] # None =>
            v.entity_archetype[f] \in Used(v)
      BY <1>1, <2>6, <2>7 DEF Sound, SoundBut
    <3> QED
      BY <2>6, <2>9, <2>11, <3>1, <3>2 DEF Sound, SoundBut
  <2>13. \A f \in EntityId, u \in ComponentType :
           GetComponent(v, f, u) = IF f = e /\ u = t THEN data ELSE GetComponent(w, f, u)
    <3> SUFFICES ASSUME NEW f \in EntityId, NEW u \in ComponentType
                 PROVE  GetComponent(v, f, u) =
                          IF f = e /\ u = t THEN data ELSE GetComponent(w, f, u)
      OBVIOUS
    <3>1. /\ w.entity_archetype[f] # None => w.entity_archetype[f] \in ArchetypeId
          /\ w.entity_archetype[e] = id /\ id # None
      BY <1>5, <2>1, <2>2, Ids DEF Sound, SoundBut, id
    <3>2. /\ v.entity_archetype = w.entity_archetype
          /\ \A i \in ArchetypeId : v.archetypes[i] = IF i = id THEN r ELSE w.archetypes[i]
          /\ arch = w.archetypes[id]
      BY <1>1, <2>6, <2>8
    <3> QED
      BY <2>4, <2>5, <3>1, <3>2 DEF GetComponent, ArchetypeOf
  <2> QED
    BY <1>1, <2>6, <2>12, <2>13 DEF SameBut, SameCounters, v
<1>6. CASE w.entity_archetype[e] # None /\ t \notin ArchetypeOf(w, e).component_types
  <2> DEFINE types == TypesOf(w, e) \cup {t}
             x == Extracted(ArchetypeOf(w, e), e)
             y == [x EXCEPT ![t] = data]
             o == WithoutEntity(b, e)
  <2>1. /\ TypesOf(w, e) = ArchetypeOf(w, e).component_types
        /\ TypesOf(w, e) \subseteq ComponentType
        /\ t \notin TypesOf(w, e)
        /\ \A u \in ComponentType : u \in TypesOf(w, e) <=> GetComponent(w, e, u) # None
    BY <1>6, SoundReads
  <2>2. v = Moved(o, e, types, y)
    BY <1>6, <2>1 DEF Added, b
  <2>3. /\ SoundBut(o, e) /\ SameBut(o, b, e) /\ SameCounters(o, b)
        /\ o.next_archetype_id = b.next_archetype_id
        /\ o.archetype_index = b.archetype_index
    BY <1>1, <1>6, WithoutSound
  <2> HIDE DEF o
  <2>4. types \in TypeSets /\ CanMoveTo(o, types)
    <3>1. types \in TypeSets
      BY <2>1 DEF TypeSets
    <3> QED
      BY <1>2, <2>1, <2>3, <3>1 DEF CanMoveTo
  <2>5. /\ x \in [ComponentType -> Bytes \cup {None}]
        /\ \A u \in ComponentType : x[u] = GetComponent(w, e, u)
    BY <1>6, ExtractedReads
  <2> HIDE DEF x
  <2>6. /\ y \in [ComponentType -> Bytes \cup {None}]
        /\ \A u \in ComponentType : y[u] = IF u = t THEN data ELSE GetComponent(w, e, u)
    BY <2>5
  <2> HIDE DEF y
  <2>7. \A u \in ComponentType : y[u] # None <=> u \in types
    BY <1>3, <2>1, <2>6
  <2> HIDE DEF types, v
  <2>8. /\ Sound(v) /\ SameBut(v, o, e) /\ SameCounters(v, o)
        /\ \A u \in ComponentType : GetComponent(v, e, u) = y[u]
    BY <2>2, <2>3, <2>4, <2>6, <2>7, MovedSound
  <2> QED
    BY <1>1, <1>2, <2>3, <2>6, <2>8 DEF SameBut, SameCounters, v
<1> QED
  BY <1>4, <1>5, <1>6

\* remove_component moves the entity to the archetype of its other types, with
\* their data, or nowhere when there are none.
LEMMA RemovedSound ==
  ASSUME NEW w, Sound(w), NEW e \in EntityId, NEW t \in ComponentType,
         t \in TypesOf(w, e),
         TypesOf(w, e) # {t} => CanMoveTo(w, TypesOf(w, e) \ {t})
  PROVE  LET v == Removed(w, e, t) IN
         /\ Sound(v)
         /\ SameBut(v, w, e)
         /\ SameCounters(v, w)
         /\ \A u \in ComponentType :
               GetComponent(v, e, u) = IF u = t THEN None ELSE GetComponent(w, e, u)
<1> DEFINE types == TypesOf(w, e) \ {t}
           x == Extracted(ArchetypeOf(w, e), e)
           y == [x EXCEPT ![t] = None]
           o == WithoutEntity(w, e)
           v == Removed(w, e, t)
<1>1. /\ w.entity_archetype[e] # None
      /\ TypesOf(w, e) = ArchetypeOf(w, e).component_types
      /\ TypesOf(w, e) \subseteq ComponentType
      /\ \A u \in ComponentType : u \in TypesOf(w, e) <=> GetComponent(w, e, u) # None
  BY SoundReads
<1>2. /\ SoundBut(o, e) /\ SameBut(o, w, e) /\ SameCounters(o, w)
      /\ o.next_archetype_id = w.next_archetype_id
      /\ o.archetype_index = w.archetype_index
  BY <1>1, WithoutSound
<1>3. v = IF types = {} THEN [o EXCEPT !.entity_archetype[e] = None]
                        ELSE Moved(o, e, types, y)
  BY <1>1 DEF Removed
<1> HIDE DEF o, v
<1>4. CASE types = {}
  <2> DEFINE f == [o EXCEPT !.entity_archetype[e] = None]
  <2>1. v = f
    BY <1>3, <1>4
  <2>2. /\ Sound(f) /\ SameBut(f, o, e) /\ SameCounters(f, o)
        /\ \A u \in ComponentType : GetComponent(f, e, u) = None
    BY <1>2, ForgottenSound
  <2> HIDE DEF f
  <2>3. \A u \in ComponentType : u # t => GetComponent(w, e, u) = None
    BY <1>1, <1>4
  <2> QED
    BY <1>2, <2>1, <2>2, <2>3 DEF SameBut, SameCounters, v
<1>5. CASE types # {}
  <2>1. types \in TypeSets /\ TypesOf(w, e) # {t}
    BY <1>1, <1>5 DEF TypeSets
  <2>2. CanMoveTo(o, types)
    BY <1>2, <2>1 DEF CanMoveTo
  <2>3. /\ x \in [ComponentType -> Bytes \cup {None}]
        /\ \A u \in ComponentType : x[u] = GetComponent(w, e, u)
    BY <1>1, ExtractedReads
  <2> HIDE DEF x
  <2>4. /\ y \in [ComponentType -> Bytes \cup {None}]
        /\ \A u \in ComponentType : y[u] = IF u = t THEN None ELSE GetComponent(w, e, u)
    BY <2>3
  <2>5. v = Moved(o, e, types, y)
    BY <1>3, <1>5
  <2> HIDE DEF y
  <2>6. \A u \in ComponentType : y[u] # None <=> u \in types
    BY <1>1, <2>4
  <2> HIDE DEF types
  <2>7. /\ Sound(v) /\ SameBut(v, o, e) /\ SameCounters(v, o)
        /\ \A u \in ComponentType : GetComponent(v, e, u) = y[u]
    BY <1>2, <2>1, <2>2, <2>4, <2>5, <2>6, MovedSound
  <2> QED
    BY <1>2, <2>4, <2>7 DEF SameBut, SameCounters, v
<1> QED
  BY <1>4, <1>5

\* After despawn_entity nothing can be read of the entity.
LEMMA DespawnedSound ==
  ASSUME NEW w, Sound(w), NEW e \in EntityId
  PROVE  LET v == IF w.entity_archetype[e] = None THEN Bumped(w)
                  ELSE [WithoutEntity(Bumped(w), e) EXCEPT !.entity_archetype[e] = None] IN
         /\ Sound(v)
         /\ SameBut(v, w, e)
         /\ v.version = w.version + 1
         /\ v.next_entity_id = w.next_entity_id
         /\ \A t \in ComponentType : GetComponent(v, e, t) = None
<1> DEFINE b == Bumped(w)
           o == WithoutEntity(b, e)
           f == [o EXCEPT !.entity_archetype[e] = None]
<1>1. /\ Sound(b)
      /\ b.version = w.version + 1
      /\ b.next_entity_id = w.next_entity_id
      /\ b.archetypes = w.archetypes
      /\ b.entity_archetype = w.entity_archetype
  BY BumpedSound DEF Sound
<1> HIDE DEF b
<1>2. \A g \in EntityId, t \in ComponentType : GetComponent(b, g, t) = GetComponent(w, g, t)
  BY <1>1 DEF GetComponent, ArchetypeOf
<1>3. CASE w.entity_archetype[e] = None
  <2>1. \A t \in ComponentType : GetComponent(b, e, t) = None
    BY <1>1, <1>3 DEF GetComponent
  <2> QED
    BY <1>1, <1>2, <1>3, <2>1 DEF SameBut, b
<1>4. CASE w.entity_archetype[e] # None
  <2>1. SoundBut(o, e) /\ SameBut(o, b, e) /\ SameCounters(o, b)
    BY <1>1, <1>4, WithoutSound
  <2> HIDE DEF o
  <2>2. /\ Sound(f) /\ SameBut(f, o, e) /\ SameCounters(f, o)
        /\ \A t \in ComponentType : GetComponent(f, e, t) = None
    BY <2>1, ForgottenSound
  <2> HIDE DEF f
  <2> QED
    BY <1>1, <1>2, <1>4, <2>1, <2>2 DEF SameBut, SameCounters, f, o, b
<1> QED
  BY <1>3, <1>4

\* spawn_entity only counts.
LEMMA SpawnedSound ==
  ASSUME NEW w, Sound(w), NEW n \in 1..U32Max
  PROVE  LET v == [w EXCEPT !.next_entity_id = n] IN
         /\ Sound(v)
         /\ v.version = w.version
         /\ v.archetypes = w.archetypes
         /\ v.entity_archetype = w.entity_archetype
         /\ v.next_archetype_id = w.next_archetype_id
<1> DEFINE v == [w EXCEPT !.next_entity_id = n]
<1>1. /\ v \in Worlds
      /\ v.version = w.version
      /\ v.next_archetype_id = w.next_archetype_id
      /\ v.archetypes = w.archetypes
      /\ v.archetype_index = w.archetype_index
      /\ v.entity_archetype = w.entity_archetype
  BY DEF Sound, SoundBut, Worlds
<1> HIDE DEF v
<1>2. Used(v) = Used(w)
  BY <1>1 DEF Used
<1> QED
  BY <1>1, <1>2 DEF Sound, SoundBut, Indexed, v

\* The version can be set back, as from_simple_world does.
LEMMA VersionedSound ==
  ASSUME NEW w, Sound(w), NEW n \in Nat
  PROVE  LET v == [w EXCEPT !.version = n] IN
         /\ Sound(v)
         /\ v.version = n
         /\ v.next_entity_id = w.next_entity_id
         /\ \A e \in EntityId, t \in ComponentType :
               GetComponent(v, e, t) = GetComponent(w, e, t)
<1> DEFINE v == [w EXCEPT !.version = n]
<1>1. /\ v \in Worlds
      /\ v.version = n
      /\ v.next_entity_id = w.next_entity_id
      /\ v.next_archetype_id = w.next_archetype_id
      /\ v.archetypes = w.archetypes
      /\ v.archetype_index = w.archetype_index
      /\ v.entity_archetype = w.entity_archetype
  BY DEF Sound, SoundBut, Worlds
<1> HIDE DEF v
<1>2. Used(v) = Used(w)
  BY <1>1 DEF Used
<1>3. Sound(v)
  BY <1>1, <1>2 DEF Sound, SoundBut, Indexed
<1>4. \A e \in EntityId, t \in ComponentType : GetComponent(v, e, t) = GetComponent(w, e, t)
  BY <1>1 DEF GetComponent, ArchetypeOf
<1> QED
  BY <1>1, <1>3, <1>4 DEF v

-----------------------------------------------------------------------------
(* To a SimpleWorld and back *)

\* to_simple_world writes what can be read, no more and no less.
LEMMA ConvertedReads ==
  ASSUME NEW w, Sound(w)
  PROVE  /\ ToSimpleWorld(w) \in [Key -> Bytes \cup {None}]
         /\ \A e \in EntityId, t \in ComponentType :
               ToSimpleWorld(w)[<<e, t>>] = GetComponent(w, e, t)
<1> DEFINE holders(k) == {id \in 0..(w.next_archetype_id - 1) :
                            /\ k[1] \in Elements(w.archetypes[id].entities)
                            /\ k[2] \in w.archetypes[id].component_types
                            /\ w.archetypes[id].data[k] # None}
           at(k) == CHOOSE id \in holders(k) : \A i \in holders(k) : i =< id
           read(k) == IF holders(k) = {} THEN None ELSE w.archetypes[at(k)].data[k]
<1>1. ToSimpleWorld(w) = [k \in Key |-> read(k)]
  BY DEF ToSimpleWorld
<1>2. ASSUME NEW e \in EntityId, NEW t \in ComponentType
      PROVE  read(<<e, t>>) = GetComponent(w, e, t)
  <2> DEFINE k == <<e, t>>
             own == w.entity_archetype[e]
  <2>1. /\ k[1] = e /\ k[2] = t
    OBVIOUS
  <2>2. \A id \in Used(w) : IF own = id THEN Holds(w.archetypes[id], e)
                                        ELSE Lacks(w.archetypes[id], e)
    BY Ids DEF Sound, SoundBut
  <2>3. \A id \in holders(k) : id = own /\ id \in Used(w)
    BY <2>1, <2>2 DEF Lacks, Used
  <2>4. own # None => own \in Used(w) /\ Holds(w.archetypes[own], e)
    BY SoundReads DEF ArchetypeOf
  <2>5. own \in holders(k) <=> own # None /\ w.archetypes[own].data[k] # None
    <3>1. own \in Used(w) => own # None
      BY UsedIds DEF Sound, SoundBut
    <3> QED
      BY <2>1, <2>4, <3>1 DEF Holds, Used
  <2>6. GetComponent(w, e, t) = IF own = None THEN None ELSE w.archetypes[own].data[k]
    BY DEF GetComponent, ArchetypeOf
  <2>7. CASE own \in holders(k)
    <3>1. \A i \in holders(k) : i =< own
      <4>1. own \in Nat
        BY <2>3, <2>7, UsedIds DEF Sound, SoundBut, Used
      <4> QED
        BY <2>3, <4>1
    <3>2. at(k) \in holders(k)
      BY <2>7, <3>1
    <3>3. at(k) = own
      BY <2>3, <3>2
    <3> HIDE DEF holders, at
    <3> QED
      BY <2>5, <2>6, <2>7, <3>3
  <2>8. CASE own \notin holders(k)
    <3>1. holders(k) = {}
      BY <2>3, <2>8
    <3> HIDE DEF holders, at
    <3> QED
      BY <2>5, <2>6, <2>8, <3>1
  <2> QED
    BY <2>7, <2>8
<1> HIDE DEF read
<1>3. \A e \in EntityId, t \in ComponentType : ToSimpleWorld(w)[<<e, t>>] = read(<<e, t>>)
  BY <1>1 DEF Key
<1>4. \A k \in Key : read(k) \in Bytes \cup {None}
  <2> SUFFICES ASSUME NEW e \in EntityId, NEW t \in ComponentType
               PROVE  read(<<e, t>>) \in Bytes \cup {None}
    BY DEF Key
  <2> QED
    BY <1>2, SoundReads
<1> QED
  BY <1>1, <1>2, <1>3, <1>4

\* What the loop over the components of an entity computes.
LEMMA RefillingSteps ==
  ASSUME NEW w, NEW e, NEW simple
  PROVE  /\ Refilling(w, e, simple)[0] = w
         /\ \A i \in 1..Len(SymbolOrder) :
               Refilling(w, e, simple)[i] =
                 LET u == Refilling(w, e, simple)[i - 1]
                     data == simple[<<e, SymbolOrder[i]>>]
                 IN  IF data = None THEN u ELSE Added(u, e, SymbolOrder[i], data)
<1> DEFINE worlds[i \in 0..Len(SymbolOrder)] ==
             IF i = 0 THEN w
             ELSE IF simple[<<e, SymbolOrder[i]>>] = None THEN worlds[i - 1]
             ELSE Added(worlds[i - 1], e, SymbolOrder[i], simple[<<e, SymbolOrder[i]>>])
<1>1. Len(SymbolOrder) \in Nat
  BY ArchetypeAssumption
<1>2. worlds = [i \in 0..Len(SymbolOrder) |->
             IF i = 0 THEN w
             ELSE IF simple[<<e, SymbolOrder[i]>>] = None THEN worlds[i - 1]
             ELSE Added(worlds[i - 1], e, SymbolOrder[i], simple[<<e, SymbolOrder[i]>>])]
  <2> DEFINE loop == [of |-> "Refilling", entity |-> e, simple |-> simple]
  <2>1. PICK g : Iterated(g, loop, w, Len(SymbolOrder))
    BY <1>1, IteratedExists
  <2>2. \A i, x : Iteration(loop, i, x) =
                    IF simple[<<e, SymbolOrder[i]>>] = None THEN x
                    ELSE Added(x, e, SymbolOrder[i], simple[<<e, SymbolOrder[i]>>])
    BY DEF Iteration
  <2> HIDE DEF loop
  <2>3. g = [i \in 0..Len(SymbolOrder) |->
               IF i = 0 THEN w
               ELSE IF simple[<<e, SymbolOrder[i]>>] = None THEN g[i - 1]
               ELSE Added(g[i - 1], e, SymbolOrder[i], simple[<<e, SymbolOrder[i]>>])]
    BY <2>1, <2>2 DEF Iterated
  <2> QED
    BY <2>3
<1>3. Refilling(w, e, simple) = worlds
  BY DEF Refilling
<1> HIDE DEF worlds
<1>4. 0 \in 0..Len(SymbolOrder) /\
      \A i \in 1..Len(SymbolOrder) : i \in 0..Len(SymbolOrder) /\ i # 0
  BY <1>1
<1> QED
  BY <1>2, <1>3, <1>4

\* What the loop over the entities computes.
LEMMA RebuildingSteps ==
  ASSUME NEW simple, NEW n
  PROVE  /\ Rebuilding(simple, n)[0] = [EmptyWorld EXCEPT !.next_entity_id = n]
         /\ \A e \in EntityId :
               Rebuilding(simple, n)[e] =
                 Refilling(Rebuilding(simple, n)[e - 1], e, simple)[Len(SymbolOrder)]
<1> DEFINE start == [EmptyWorld EXCEPT !.next_entity_id = n]
           worlds[e \in 0..U32Max] ==
             IF e = 0 THEN [EmptyWorld EXCEPT !.next_entity_id = n]
             ELSE Refilling(worlds[e - 1], e, simple)[Len(SymbolOrder)]
<1>1. U32Max \in Nat
  BY ArchetypeAssumption
<1>2. worlds = [e \in 0..U32Max |->
             IF e = 0 THEN start
             ELSE Refilling(worlds[e - 1], e, simple)[Len(SymbolOrder)]]
  <2> DEFINE loop == [of |-> "Rebuilding", simple |-> simple]
  <2>1. PICK g : Iterated(g, loop, start, U32Max)
    BY <1>1, IteratedExists
  <2>2. \A i, x : Iteration(loop, i, x) = Refilling(x, i, simple)[Len(SymbolOrder)]
    BY DEF Iteration
  <2> HIDE DEF loop
  <2>3. g = [e \in 0..U32Max |->
               IF e = 0 THEN start
               ELSE Refilling(g[e - 1], e, simple)[Len(SymbolOrder)]]
    BY <2>1, <2>2 DEF Iterated
  <2> QED
    BY <2>3
<1>3. Rebuilding(simple, n) = worlds
  BY DEF Rebuilding
<1> HIDE DEF worlds, start
<1>4. 0 \in 0..U32Max /\ \A e \in EntityId : e \in 0..U32Max /\ e # 0
  BY <1>1 DEF EntityId
<1> QED
  BY <1>2, <1>3, <1>4 DEF start

\* No add_component of the loop over an entity runs out of archetype ids.
CanRefill(w, e, simple) ==
    \A i \in 1..Len(SymbolOrder) :
        LET u == Refilling(w, e, simple)[i - 1]
            t == SymbolOrder[i]
        IN  simple[<<e, t>>] # None /\ t \notin TypesOf(u, e) =>
                CanMoveTo(u, TypesOf(u, e) \cup {t})

\* The loop over its components gives an entity what the SimpleWorld has of it.
LEMMA RefillingSound ==
  ASSUME NEW w, Sound(w), NEW e \in EntityId, NEW simple \in [Key -> Bytes \cup {None}],
         CanRefill(w, e, simple), \A t \in ComponentType : GetComponent(w, e, t) = None
  PROVE  LET v == Refilling(w, e, simple)[Len(SymbolOrder)] IN
         /\ Sound(v)
         /\ SameBut(v, w, e)
         /\ v.next_entity_id = w.next_entity_id
         /\ \A t \in ComponentType : GetComponent(v, e, t) = simple[<<e, t>>]
<1> DEFINE R == Refilling(w, e, simple)
           m == Len(SymbolOrder)
           Seen(n) == {SymbolOrder[j] : j \in 1..n}
           Filled(v, n) ==
             /\ Sound(v)
             /\ SameBut(v, w, e)
             /\ v.next_entity_id = w.next_entity_id
             /\ \A s \in ComponentType :
                   GetComponent(v, e, s) = IF s \in Seen(n) THEN simple[<<e, s>>] ELSE None
           S == {n \in Nat : n \in 0..m => Filled(R[n], n)}
<1>1. /\ m \in Nat /\ \A i \in 1..m : SymbolOrder[i] \in ComponentType
      /\ Seen(m) = ComponentType
  BY ArchetypeAssumption
<1>2. /\ R[0] = w
      /\ \A i \in 1..m : R[i] = IF simple[<<e, SymbolOrder[i]>>] = None THEN R[i - 1]
                                ELSE Added(R[i - 1], e, SymbolOrder[i],
                                           simple[<<e, SymbolOrder[i]>>])
  BY RefillingSteps
<1>3. \A i \in 1..m :
        LET t == SymbolOrder[i] IN
        simple[<<e, t>>] # None /\ t \notin TypesOf(R[i - 1], e) =>
          CanMoveTo(R[i - 1], TypesOf(R[i - 1], e) \cup {t})
  BY DEF CanRefill
<1> HIDE DEF R, m
<1>4. 0 \in S
  <2>1. Seen(0) = {}
    OBVIOUS
  <2> HIDE DEF Seen
  <2> QED
    BY <1>2, <2>1 DEF SameBut
<1>5. ASSUME NEW n \in Nat, n \in S
      PROVE  n + 1 \in S
  <2> SUFFICES ASSUME n + 1 \in 0..m
               PROVE  Filled(R[n + 1], n + 1)
    OBVIOUS
  <2> DEFINE u == R[n]
             v == R[n + 1]
             t == SymbolOrder[n + 1]
             data == simple[<<e, t>>]
  <2>1. n + 1 \in 1..m /\ n \in 0..m /\ (n + 1) - 1 = n
    BY <1>1
  <2>2. /\ Filled(u, n)
        /\ t \in ComponentType
        /\ v = IF data = None THEN u ELSE Added(u, e, t, data)
        /\ data # None /\ t \notin TypesOf(u, e) => CanMoveTo(u, TypesOf(u, e) \cup {t})
    <3> HIDE DEF Filled
    <3> QED
      BY <1>1, <1>2, <1>3, <1>5, <2>1
  <2>3. Seen(n + 1) = Seen(n) \cup {t}
    <3>1. \A j \in 1..(n + 1) : j \in 1..n \/ j = n + 1
      BY <1>5
    <3>2. n + 1 \in 1..(n + 1) /\ \A j \in 1..n : j \in 1..(n + 1)
      BY <1>5
    <3> QED
      BY <3>1, <3>2
  <2>4. \A s \in ComponentType :
          GetComponent(u, e, s) = IF s \in Seen(n) THEN simple[<<e, s>>] ELSE None
    BY <2>2
  <2>5. data = simple[<<e, t>>]
    OBVIOUS
  <2> SUFFICES Filled(v, n + 1)
    OBVIOUS
  <2> HIDE DEF u, v, t, data, Seen
  <2>6. \A s \in ComponentType :
          \/ s = t /\ simple[<<e, s>>] = data /\ s \in Seen(n + 1)
          \/ s # t /\ (s \in Seen(n + 1) <=> s \in Seen(n))
    BY <2>3, <2>5
  <2>7. CASE data = None
    <3>1. \A s \in ComponentType :
            GetComponent(v, e, s) = IF s \in Seen(n + 1) THEN simple[<<e, s>>] ELSE None
      BY <2>2, <2>4, <2>6, <2>7
    <3> QED
      BY <2>2, <2>7, <3>1
  <2>8. CASE data # None
    <3>1. data \in Bytes
      BY <2>2, <2>8 DEF Key, data
    <3>2. v = Added(u, e, t, data)
      BY <2>2, <2>8
    <3>3. /\ Sound(v) /\ SameBut(v, u, e)
          /\ v.next_entity_id = u.next_entity_id
          /\ \A s \in ComponentType :
                GetComponent(v, e, s) = IF s = t THEN data ELSE GetComponent(u, e, s)
      BY <2>2, <2>8, <3>1, <3>2, AddedSound
    <3>4. \A s \in ComponentType :
            GetComponent(v, e, s) = IF s \in Seen(n + 1) THEN simple[<<e, s>>] ELSE None
      BY <2>4, <2>6, <3>3
    <3> QED
      BY <2>2, <3>3, <3>4 DEF SameBut
  <2> QED
    BY <2>7, <2>8
<1> HIDE DEF S, Filled
<1>6. m \in S
  BY <1>1, <1>4, <1>5, NumberInduction
<1>7. Filled(R[m], m)
  BY <1>1, <1>6 DEF S
<1> QED
  BY <1>1, <1>7 DEF Filled, R, m

\* The loop over the entities gives each of them what the SimpleWorld has.
LEMMA RebuildingSound ==
  ASSUME NEW simple \in [Key -> Bytes \cup {None}], NEW n \in 1..U32Max,
         CanRebuild(simple, n)
  PROVE  LET v == Rebuilding(simple, n)[U32Max] IN
         /\ Sound(v)
         /\ v.next_entity_id = n
         /\ \A e \in EntityId, t \in ComponentType :
               GetComponent(v, e, t) = simple[<<e, t>>]
<1> DEFINE R == Rebuilding(simple, n)
           start == [EmptyWorld EXCEPT !.next_entity_id = n]
           Filled(v, i) ==
             /\ Sound(v)
             /\ v.next_entity_id = n
             /\ \A e \in EntityId, t \in ComponentType :
                   GetComponent(v, e, t) = IF e =< i THEN simple[<<e, t>>] ELSE None
           S == {i \in Nat : i \in 0..U32Max => Filled(R[i], i)}
<1>1. U32Max \in Nat /\ EntityId = 1..U32Max
  BY ArchetypeAssumption DEF EntityId
<1>2. /\ R[0] = start
      /\ \A e \in EntityId : R[e] = Refilling(R[e - 1], e, simple)[Len(SymbolOrder)]
      /\ \A e \in EntityId : CanRefill(R[e - 1], e, simple)
  BY RebuildingSteps DEF CanRebuild, CanRefill
<1> HIDE DEF R
<1>3. 0 \in S
  <2>1. Sound(start)
    BY EmptySound
  <2>2. /\ start.next_entity_id = n
        /\ \A e \in EntityId : start.entity_archetype[e] = None
    BY DEF EmptyWorld
  <2> HIDE DEF start
  <2>3. \A e \in EntityId : ~(e =< 0)
    BY <1>1
  <2> QED
    BY <1>2, <2>1, <2>2, <2>3 DEF GetComponent
<1>4. ASSUME NEW i \in Nat, i \in S
      PROVE  i + 1 \in S
  <2> SUFFICES ASSUME i + 1 \in 0..U32Max
               PROVE  Filled(R[i + 1], i + 1)
    OBVIOUS
  <2> DEFINE e == i + 1
             u == R[i]
             v == R[e]
  <2>1. e \in EntityId /\ e - 1 = i /\ i \in 0..U32Max /\ ~(e =< i)
    BY <1>1
  <2>2. /\ Filled(u, i)
        /\ v = Refilling(u, e, simple)[Len(SymbolOrder)]
        /\ CanRefill(u, e, simple)
    <3> HIDE DEF Filled, e
    <3> QED
      BY <1>2, <1>4, <2>1
  <2>3. \A f \in EntityId : f =< e <=> f = e \/ f =< i
    BY <1>1
  <2> HIDE DEF e, u, v
  <2>4. \A t \in ComponentType : GetComponent(u, e, t) = None
    BY <2>1, <2>2
  <2>5. /\ Sound(v) /\ SameBut(v, u, e)
        /\ v.next_entity_id = u.next_entity_id
        /\ \A t \in ComponentType : GetComponent(v, e, t) = simple[<<e, t>>]
    BY <2>1, <2>2, <2>4, RefillingSound
  <2>6. Filled(v, e)
    BY <2>1, <2>2, <2>3, <2>5 DEF SameBut
  <2> HIDE DEF Filled
  <2> QED
    BY <2>6 DEF e, v
<1> HIDE DEF S, Filled
<1>5. U32Max \in S
  BY <1>1, <1>3, <1>4, NumberInduction
<1>6. Filled(R[U32Max], U32Max)
  BY <1>1, <1>5 DEF S
<1>7. \A e \in EntityId : e =< U32Max
  BY <1>1
<1> QED
  BY <1>6, <1>7 DEF Filled, R

\* A world that comes back from a SimpleWorld reads as it did.
LEMMA MigratedSound ==
  ASSUME NEW w, Sound(w), CanRebuild(ToSimpleWorld(w), w.next_entity_id)
  PROVE  LET v == FromSimpleWorld(ToSimpleWorld(w), w.next_entity_id, w.version) IN
         /\ Sound(v)
         /\ v.version = w.version
         /\ \A e \in EntityId, t \in ComponentType :
               GetComponent(v, e, t) = GetComponent(w, e, t)
<1> DEFINE simple == ToSimpleWorld(w)
           n == w.next_entity_id
           r == Rebuilding(simple, n)[U32Max]
<1>1. n \in 1..U32Max /\ w.version \in Nat
  BY WorldFields DEF Sound, SoundBut
<1>2. /\ simple \in [Key -> Bytes \cup {None}]
      /\ \A e \in EntityId, t \in ComponentType : simple[<<e, t>>] = GetComponent(w, e, t)
  BY ConvertedReads
<1> HIDE DEF simple, n
<1>3. /\ Sound(r)
      /\ \A e \in EntityId, t \in ComponentType : GetComponent(r, e, t) = simple[<<e, t>>]
  BY <1>1, <1>2, RebuildingSound DEF simple, n
<1> HIDE DEF r
<1>4. FromSimpleWorld(simple, n, w.version) = [r EXCEPT !.version = w.version]
  BY DEF FromSimpleWorld, r
<1> DEFINE v == [r EXCEPT !.version = w.version]
<1>5. /\ Sound(v)
      /\ v.version = w.version
      /\ \A e \in EntityId, t \in ComponentType : GetComponent(v, e, t) = GetComponent(r, e, t)
  BY <1>1, <1>3, VersionedSound
<1> HIDE DEF v
<1> QED
  BY <1>2, <1>3, <1>4, <1>5 DEF v, simple, n

-----------------------------------------------------------------------------
(* Queries *)

\* What the loop over the archetypes computes.
LEMMA QuerySteps ==
  ASSUME NEW w \in Worlds, NEW required
  PROVE  \E results :
            /\ Query(w, required) = results[w.next_archetype_id]
            /\ results[0] = <<>>
            /\ \A n \in Used(w) :
                  results[n + 1] = IF Matches(w.archetypes[n], required)
                                   THEN results[n] \o w.archetypes[n].entities
                                   ELSE results[n]
<1> DEFINE m == w.next_archetype_id
           results[n \in 0..w.next_archetype_id] ==
             IF n = 0 THEN <<>>
             ELSE IF Matches(w.archetypes[n - 1], required)
             THEN results[n - 1] \o w.archetypes[n - 1].entities
             ELSE results[n - 1]
<1>1. m \in Nat
  BY UsedIds
<1>2. results = [n \in 0..w.next_archetype_id |->
             IF n = 0 THEN <<>>
             ELSE IF Matches(w.archetypes[n - 1], required)
             THEN results[n - 1] \o w.archetypes[n - 1].entities
             ELSE results[n - 1]]
  <2> DEFINE loop == [of |-> "Query", world |-> w, required |-> required]
  <2>1. PICK g : Iterated(g, loop, <<>>, w.next_archetype_id)
    BY <1>1, IteratedExists
  <2>2. \A i, x : Iteration(loop, i, x) =
                    IF Matches(w.archetypes[i - 1], required)
                    THEN x \o w.archetypes[i - 1].entities ELSE x
    BY DEF Iteration
  <2> HIDE DEF loop
  <2>3. g = [n \in 0..w.next_archetype_id |->
             IF n = 0 THEN <<>>
             ELSE IF Matches(w.archetypes[n - 1], required)
             THEN g[n - 1] \o w.archetypes[n - 1].entities
             ELSE g[n - 1]]
    BY <2>1, <2>2 DEF Iterated
  <2> QED
    BY <2>3
<1>3. Query(w, required) = results[m]
  BY DEF Query
<1> HIDE DEF results
<1>4. results[0] = <<>>
  BY <1>1, <1>2
<1>5. \A n \in Used(w) :
        results[n + 1] = IF Matches(w.archetypes[n], required)
                         THEN results[n] \o w.archetypes[n].entities
                         ELSE results[n]
  <2> SUFFICES ASSUME NEW n \in Used(w)
               PROVE  results[n + 1] = IF Matches(w.archetypes[n], required)
                                       THEN results[n] \o w.archetypes[n].entities
                                       ELSE results[n]
    OBVIOUS
  <2>1. n + 1 \in 0..w.next_archetype_id /\ n + 1 # 0 /\ (n + 1) - 1 = n
    BY <1>1 DEF Used
  <2> QED
    BY <1>2, <2>1
<1> QED
  BY <1>3, <1>4, <1>5

\* A query finds the entities of the matching archetypes, each of them once.
LEMMA QueryFinds ==
  ASSUME NEW w, Sound(w), NEW required
  PROVE  /\ Query(w, required) \in Seq(EntityId)
         /\ NoRepeats(Query(w, required))
         /\ Elements(Query(w, required)) =
              {e \in EntityId : /\ w.entity_archetype[e] # None
                                /\ required \subseteq TypesOf(w, e)}
<1>1. w \in Worlds /\ w.next_archetype_id \in Nat
  BY UsedIds DEF Sound, SoundBut
<1>2. PICK results :
        /\ Query(w, required) = results[w.next_archetype_id]
        /\ results[0] = <<>>
        /\ \A n \in Used(w) :
              results[n + 1] = IF Matches(w.archetypes[n], required)
                               THEN results[n] \o w.archetypes[n].entities
                               ELSE results[n]
  BY <1>1, QuerySteps
<1> DEFINE m == w.next_archetype_id
           Found(n) == {e \in EntityId : /\ w.entity_archetype[e] \in 0..(n - 1)
                                         /\ Matches(ArchetypeOf(w, e), required)}
           Exact(s, n) == /\ s \in Seq(EntityId)
                          /\ NoRepeats(s)
                          /\ Elements(s) = Found(n)
           S == {n \in Nat : n \in 0..m => Exact(results[n], n)}
<1>3. 0 \in S
  <2>1. <<>> \in Seq(EntityId) /\ NoRepeats(<<>>) /\ Elements(<<>>) = {}
    BY DEF NoRepeats, Elements
  <2>2. Found(0) = {}
    OBVIOUS
  <2> HIDE DEF Found
  <2> QED
    BY <1>2, <2>1, <2>2
<1>4. ASSUME NEW n \in Nat, n \in S
      PROVE  n + 1 \in S
  <2> SUFFICES ASSUME n + 1 \in 0..m
               PROVE  Exact(results[n + 1], n + 1)
    OBVIOUS
  <2> DEFINE arch == w.archetypes[n]
             s == results[n]
             c == s \o arch.entities
  <2>1. n \in Used(w) /\ n \in 0..m /\ (n + 1) - 1 = n
    BY <1>1 DEF Used
  <2>2. Exact(s, n) /\ results[n + 1] = IF Matches(arch, required) THEN c ELSE s
    <3> HIDE DEF Exact
    <3> QED
      BY <1>2, <1>4, <2>1
  <2>3. /\ arch \in Archetypes /\ arch.entities \in Seq(EntityId)
        /\ NoRepeats(arch.entities)
    BY <2>1, ArchetypeFields DEF Sound, SoundBut, Indexed
  <2>4. \A e \in EntityId : e \in Elements(arch.entities) <=> w.entity_archetype[e] = n
    BY <2>1, Ids DEF Sound, SoundBut, Holds, Lacks
  <2>5. Elements(arch.entities) = {e \in EntityId : w.entity_archetype[e] = n}
    BY <2>3, <2>4 DEF Elements
  <2>6. Found(n + 1) = Found(n) \cup {e \in EntityId : /\ w.entity_archetype[e] = n
                                                       /\ Matches(arch, required)}
    <3>1. \A x : x \in 0..n <=> x \in 0..(n - 1) \/ x = n
      BY <1>4
    <3>2. \A e \in EntityId : w.entity_archetype[e] = n => ArchetypeOf(w, e) = arch
      BY DEF ArchetypeOf
    <3>3. Found(n + 1) = {e \in EntityId : /\ w.entity_archetype[e] \in 0..n
                                           /\ Matches(ArchetypeOf(w, e), required)}
      BY <2>1
    <3> QED
      BY <3>1, <3>2, <3>3
  <2>7. CASE Matches(arch, required)
    <3>1. Elements(s) \cap Elements(arch.entities) = {}
      <4>1. n \notin 0..(n - 1)
        BY <1>4
      <4> QED
        BY <2>2, <2>5, <4>1
    <3> HIDE DEF s, arch
    <3>2. /\ c \in Seq(EntityId)
          /\ Elements(c) = Elements(s) \cup Elements(arch.entities)
          /\ NoRepeats(s) /\ NoRepeats(arch.entities)
               /\ Elements(s) \cap Elements(arch.entities) = {} => NoRepeats(c)
      BY <2>2, <2>3, ConcatElements
    <3> HIDE DEF c, Found
    <3> QED
      BY <2>2, <2>3, <2>5, <2>6, <2>7, <3>1, <3>2
  <2>8. CASE ~Matches(arch, required)
    <3>1. Found(n + 1) = Found(n)
      BY <2>6, <2>8
    <3> HIDE DEF Found, s, arch
    <3> QED
      BY <2>2, <2>8, <3>1
  <2> QED
    BY <2>7, <2>8
<1> HIDE DEF S, Exact
<1>5. m \in S
  BY <1>1, <1>3, <1>4, NumberInduction
<1>6. Exact(Query(w, required), m)
  BY <1>1, <1>2, <1>5 DEF S
<1>7. Found(m) = {e \in EntityId : /\ w.entity_archetype[e] # None
                                   /\ required \subseteq TypesOf(w, e)}
  <2>1. \A e \in EntityId : w.entity_archetype[e] # None <=> w.entity_archetype[e] \in 0..(m - 1)
    BY <1>1, SoundReads, UsedIds DEF Used
  <2>2. \A e \in EntityId : w.entity_archetype[e] # None =>
          (Matches(ArchetypeOf(w, e), required) <=> required \subseteq TypesOf(w, e))
    BY DEF Matches, TypesOf
  <2> QED
    BY <2>1, <2>2
<1> QED
  BY <1>6, <1>7 DEF Exact

\* So the result is that of a scan of all entities.
LEMMA QueryScans ==
  ASSUME NEW w, Sound(w), NEW required, required \subseteq ComponentType
  PROVE  Elements(Query(w, required)) =
           {e \in EntityId :
              /\ \E t \in ComponentType : GetComponent(w, e, t) # None
              /\ \A t \in required : GetComponent(w, e, t) # None}
<1>1. \A e \in EntityId :
        /\ w.entity_archetype[e] # None <=> \E t \in ComponentType : GetComponent(w, e, t) # None
        /\ required \subseteq TypesOf(w, e) <=> \A t \in required : GetComponent(w, e, t) # None
  <2> SUFFICES ASSUME NEW e \in EntityId
               PROVE  /\ w.entity_archetype[e] # None <=>
                           \E t \in ComponentType : GetComponent(w, e, t) # None
                      /\ required \subseteq TypesOf(w, e) <=>
                           \A t \in required : GetComponent(w, e, t) # None
    OBVIOUS
  <2>1. /\ TypesOf(w, e) \subseteq ComponentType
        /\ \A t \in ComponentType : t \in TypesOf(w, e) <=> GetComponent(w, e, t) # None
        /\ w.entity_archetype[e] # None <=> TypesOf(w, e) # {}
    BY SoundReads
  <2> QED
    BY <2>1
<1> QED
  BY <1>1, QueryFinds

\* Worlds that read the same answer the same queries.
LEMMA SameReadsSameQuery ==
  ASSUME NEW v, NEW w, Sound(v), Sound(w), NEW required, required \subseteq ComponentType,
         \A e \in EntityId, t \in ComponentType : GetComponent(v, e, t) = GetComponent(w, e, t)
  PROVE  Elements(Query(v, required)) = Elements(Query(w, required))
<1>1. \A e \in EntityId :
        /\ (\E t \in ComponentType : GetComponent(v, e, t) # None) <=>
              (\E t \in ComponentType : GetComponent(w, e, t) # None)
        /\ (\A t \in required : GetComponent(v, e, t) # None) <=>
              (\A t \in required : GetComponent(w, e, t) # None)
  OBVIOUS
<1> QED
  BY <1>1, QueryScans

-----------------------------------------------------------------------------
(* The steps *)

\* The world reads as before.
SameWorld ==
    /\ world'.version = world.version
    /\ \A e \in EntityId, t \in ComponentType :
          GetComponent(world', e, t) = GetComponent(world, e, t)

\* One component of one entity has another value, or none.
ComponentWritten(e, t, data) ==
    /\ world'.version = world.version + 1
    /\ \A f \in EntityId, u \in ComponentType :
          GetComponent(world', f, u) = IF f = e /\ u = t THEN data
                                                         ELSE GetComponent(world, f, u)

\* One entity has no components any more.
EntityEmptied(e) ==
    /\ world'.version = world.version + 1
    /\ \A f \in EntityId, u \in ComponentType :
          GetComponent(world', f, u) = IF f = e THEN None ELSE GetComponent(world, f, u)

\* Every call leaves a sound world with one of these four outcomes.
LEMMA StepSound ==
  ASSUME Sound(world), [Next]_vars
  PROVE  /\ Sound(world')
         /\ \/ SameWorld
            \/ /\ \E e \in EntityId, t \in ComponentType, data \in Bytes :
                     ComponentWritten(e, t, data)
               /\ cache' = cache
            \/ /\ \E e \in EntityId, t \in ComponentType : ComponentWritten(e, t, None)
               /\ cache' = cache
            \/ /\ \E e \in EntityId : EntityEmptied(e)
               /\ cache' = cache
<1>1. CASE SpawnEntity
  <2> DEFINE n == world.next_entity_id + 1
  <2>1. world.next_entity_id \in 1..U32Max
    BY WorldFields DEF Sound, SoundBut
  <2>2. n \in 1..U32Max /\ world' = [world EXCEPT !.next_entity_id = n]
    BY <1>1, <2>1, Ids DEF SpawnEntity
  <2> HIDE DEF n
  <2>3. /\ Sound(world')
        /\ world'.version = world.version
        /\ world'.archetypes = world.archetypes
        /\ world'.entity_archetype = world.entity_archetype
    BY <2>2, SpawnedSound
  <2> QED
    BY <2>3 DEF SameWorld, GetComponent, ArchetypeOf
<1>2. ASSUME NEW e \in EntityId, DespawnEntity(e)
      PROVE  Sound(world') /\ EntityEmptied(e) /\ cache' = cache
  <2>1. /\ world' = IF world.entity_archetype[e] = None THEN Bumped(world)
                    ELSE [WithoutEntity(Bumped(world), e) EXCEPT
                            !.entity_archetype[e] = None]
        /\ cache' = cache
    BY <1>2 DEF DespawnEntity
  <2>2. /\ Sound(world')
        /\ SameBut(world', world, e)
        /\ world'.version = world.version + 1
        /\ \A t \in ComponentType : GetComponent(world', e, t) = None
    BY <2>1, DespawnedSound
  <2> QED
    BY <2>1, <2>2 DEF EntityEmptied, SameBut
<1>3. ASSUME NEW e \in EntityId, NEW t \in ComponentType, RemoveComponent(e, t)
      PROVE  Sound(world') /\ ComponentWritten(e, t, None) /\ cache' = cache
  <2> DEFINE b == Bumped(world)
  <2>1. /\ Sound(b)
        /\ b.version = world.version + 1
        /\ b.next_archetype_id = world.next_archetype_id
        /\ b.archetypes = world.archetypes
        /\ b.archetype_index = world.archetype_index
        /\ b.entity_archetype = world.entity_archetype
    BY BumpedSound DEF Sound
  <2>2. /\ world.entity_archetype[e] # None
        /\ t \in ArchetypeOf(world, e).component_types
        /\ ArchetypeOf(world, e).component_types # {t} =>
              CanMoveTo(world, ArchetypeOf(world, e).component_types \ {t})
        /\ world' = Removed(b, e, t) /\ cache' = cache
    BY <1>3 DEF RemoveComponent
  <2> HIDE DEF b
  <2>3. /\ t \in TypesOf(b, e)
        /\ TypesOf(b, e) # {t} => CanMoveTo(b, TypesOf(b, e) \ {t})
    BY <2>1, <2>2 DEF TypesOf, ArchetypeOf, CanMoveTo
  <2>4. /\ Sound(world') /\ SameBut(world', b, e) /\ SameCounters(world', b)
        /\ \A u \in ComponentType :
              GetComponent(world', e, u) = IF u = t THEN None ELSE GetComponent(b, e, u)
    BY <2>1, <2>2, <2>3, RemovedSound
  <2>5. \A f \in EntityId, u \in ComponentType :
          GetComponent(b, f, u) = GetComponent(world, f, u)
    BY <2>1 DEF GetComponent, ArchetypeOf
  <2> QED
    BY <2>1, <2>2, <2>4, <2>5 DEF ComponentWritten, SameBut, SameCounters
<1>4. ASSUME NEW e \in EntityId, NEW t \in ComponentType, NEW data \in Bytes,
             AddComponent(e, t, data)
      PROVE  Sound(world') /\ ComponentWritten(e, t, data) /\ cache' = cache
  <2>1. /\ t \notin TypesOf(world, e) => CanMoveTo(world, TypesOf(world, e) \cup {t})
        /\ world' = Added(world, e, t, data) /\ cache' = cache
    BY <1>4 DEF AddComponent
  <2>2. /\ Sound(world')
        /\ SameBut(world', world, e)
        /\ world'.version = world.version + 1
        /\ \A u \in ComponentType :
              GetComponent(world', e, u) = IF u = t THEN data ELSE GetComponent(world, e, u)
    BY <2>1, AddedSound
  <2> QED
    BY <2>1, <2>2 DEF ComponentWritten, SameBut
<1>5. CASE Migrate
  <2>1. /\ CanRebuild(ToSimpleWorld(world), world.next_entity_id)
        /\ world' = FromSimpleWorld(ToSimpleWorld(world), world.next_entity_id, world.version)
    BY <1>5 DEF Migrate
  <2> QED
    BY <2>1, MigratedSound DEF SameWorld
<1>6. CASE world' = world
  BY <1>6 DEF SameWorld
<1>7. \/ SpawnEntity
      \/ \E e \in EntityId : DespawnEntity(e)
      \/ \E e \in EntityId, t \in ComponentType : RemoveComponent(e, t)
      \/ \E e \in EntityId, t \in ComponentType, data \in Bytes : AddComponent(e, t, data)
      \/ Migrate
      \/ world' = world
  BY DEF Next, vars, ExecuteQuery, Invalidate
<1> QED
  BY <1>1, <1>2, <1>3, <1>4, <1>5, <1>6, <1>7

-----------------------------------------------------------------------------
(* Invariants *)

\* The results in the cache were found at no later version than the world's,
\* and at this version a query would find the same entities, each once.
CacheInv ==
    cache.cached_results # None =>
        /\ cache.cached_version \in Nat
        /\ cache.cached_version =< world.version
        /\ cache.cached_version = world.version =>
              /\ cache.cached_results \in Seq(EntityId)
              /\ NoRepeats(cache.cached_results)
              /\ Elements(cache.cached_results) = Elements(Query(world, Required))

IInv == Sound(world) /\ CacheInv

\* The new world, and a new cache without results, satisfy the invariant.
LEMMA InitInv == Init => IInv
<1> SUFFICES ASSUME Init PROVE IInv
  OBVIOUS
<1>1. 1 \in 1..U32Max
  BY Ids
<1>2. world = [EmptyWorld EXCEPT !.next_entity_id = 1]
  BY DEF Init, EmptyWorld
<1>3. Sound(world)
  BY <1>1, <1>2, EmptySound
<1>4. cache.cached_results = None
  BY DEF Init, NewCache
<1> QED
  BY <1>3, <1>4 DEF IInv, CacheInv

\* A call that changes what can be read moves the version, and the cache is not
\* asked again before it has the results of that version.
LEMMA StepInv == IInv /\ [Next]_vars => IInv'
<1> SUFFICES ASSUME IInv, [Next]_vars PROVE IInv'
  OBVIOUS
<1> USE DEF IInv
<1>1. Sound(world) /\ Sound(world') /\ world.version \in Nat /\ world'.version \in Nat
  BY StepSound, WorldFields DEF Sound, SoundBut
<1>2. Required \subseteq ComponentType
  BY ArchetypeAssumption
<1>3. CASE cache' = cache /\ world'.version = world.version + 1
  BY <1>1, <1>3 DEF CacheInv
<1>4. CASE cache' = cache /\ SameWorld
  <2>1. Elements(Query(world', Required)) = Elements(Query(world, Required))
    BY <1>1, <1>2, <1>4, SameReadsSameQuery DEF SameWorld
  <2> QED
    BY <1>1, <1>4, <2>1 DEF CacheInv, SameWorld
<1>5. CASE ExecuteQuery
  <2>1. world' = world
    BY <1>5 DEF ExecuteQuery
  <2>2. CASE IsValid
    BY <1>1, <1>5, <2>1, <2>2 DEF ExecuteQuery, CacheInv
  <2>3. CASE ~IsValid
    <3>1. /\ cache'.cached_version = world.version
          /\ cache'.cached_results = Query(world, Required)
      BY <1>5, <2>3 DEF ExecuteQuery
    <3>2. /\ Query(world, Required) \in Seq(EntityId)
          /\ NoRepeats(Query(world, Required))
      BY <1>1, QueryFinds
    <3> QED
      BY <1>1, <2>1, <3>1, <3>2 DEF CacheInv
  <2> QED
    BY <2>2, <2>3
<1>6. CASE Invalidate
  <2>1. cache'.cached_results = None
    BY <1>6 DEF Invalidate, NewCache
  <2> QED
    BY <1>1, <2>1 DEF CacheInv
<1>7. SameWorld => cache' = cache \/ ExecuteQuery \/ Invalidate
  BY DEF Next, vars, SpawnEntity, DespawnEntity, RemoveComponent, AddComponent, Migrate
<1> QED
  BY <1>3, <1>4, <1>5, <1>6, <1>7, StepSound DEF ComponentWritten, EntityEmptied

\* The invariant holds of every reachable state.
LEMMA Invariance == Spec => []IInv
  BY InitInv, StepInv, PTL DEF Spec

-----------------------------------------------------------------------------
(* Theorems *)

\* Queries with required and excluded types return each entity that fits
\* exactly once, whatever moves between archetypes came before.
THEOREM QueriesFindEachOnce == Spec => []QueriesAreExact
<1>1. ASSUME IInv, NEW required \in SUBSET ComponentType,
             NEW excluded \in SUBSET ComponentType
      PROVE  LET found == ExcludingQuery(world, required, excluded)
             IN  /\ \A i, j \in DOMAIN found : found[i] = found[j] => i = j
                 /\ Elements(found) =
                      {e \in EntityId :
                         /\ \E t \in ComponentType : GetComponent(world, e, t) # None
                         /\ \A t \in required : GetComponent(world, e, t) # None
                         /\ \A t \in excluded : GetComponent(world, e, t) = None}
  <2> DEFINE keep == {e \in EntityId : \A t \in excluded : ~HasComponent(world, e, t)}
             candidates == Query(world, required)
             found == ExcludingQuery(world, required, excluded)
  <2>1. Sound(world)
    BY <1>1 DEF IInv
  <2>2. candidates \in Seq(EntityId) /\ NoRepeats(candidates)
    BY <2>1, QueryFinds
  <2>3. found = Filtered(candidates, keep)
    BY DEF ExcludingQuery
  <2> HIDE DEF keep, candidates, found
  <2>4. NoRepeats(found) /\ Elements(found) = Elements(candidates) \cap keep
    BY <2>2, <2>3, FilteredKeeps
  <2>5. keep = {e \in EntityId : \A t \in excluded : GetComponent(world, e, t) = None}
    <3>1. \A e \in EntityId, t \in ComponentType :
            HasComponent(world, e, t) <=> GetComponent(world, e, t) # None
      BY <2>1, SoundReads
    <3> QED
      BY <3>1 DEF keep
  <2>6. Elements(candidates) =
          {e \in EntityId :
             /\ \E t \in ComponentType : GetComponent(world, e, t) # None
             /\ \A t \in required : GetComponent(world, e, t) # None}
    BY <2>1, QueryScans DEF candidates
  <2>7. Elements(found) =
          {e \in EntityId :
             /\ \E t \in ComponentType : GetComponent(world, e, t) # None
             /\ \A t \in required : GetComponent(world, e, t) # None
             /\ \A t \in excluded : GetComponent(world, e, t) = None}
    BY <2>4, <2>5, <2>6
  <2> QED
    BY <2>4, <2>7 DEF NoRepeats, found
<1>2. IInv => QueriesAreExact
  BY <1>1 DEF QueriesAreExact
<1> QED
  BY <1>2, Invariance, PTL

\* A cached answer finds what the query would find now, each entity once, even
\* when the world was rebuilt under its old version.
THEOREM CachedAnswersAreCurrent == Spec => []CacheCoherent
<1>1. IInv => CacheCoherent
  <2> SUFFICES ASSUME IInv, IsValid
               PROVE  /\ Elements(cache.cached_results) = Elements(Query(world, Required))
                      /\ Len(cache.cached_results) = Len(Query(world, Required))
    BY DEF CacheCoherent
  <2>1. /\ cache.cached_results \in Seq(EntityId)
        /\ NoRepeats(cache.cached_results)
        /\ Elements(cache.cached_results) = Elements(Query(world, Required))
    BY DEF IInv, CacheInv, IsValid
  <2>2. Query(world, Required) \in Seq(EntityId) /\ NoRepeats(Query(world, Required))
    BY QueryFinds DEF IInv
  <2> QED
    BY <2>1, <2>2, SameLength
<1> QED
  BY <1>1, Invariance, PTL

View(w) == [e \in EntityId |-> [t \in ComponentType |-> GetComponent(w, e, t)]]

Finds(w) == [t \in ComponentType |-> Elements(Query(w, {t}))]

\* What queries for one type find is what matches in the store.
LEMMA FindsMatching ==
  ASSUME NEW w, Sound(w)
  PROVE  Finds(w) = Abstract!Matching(View(w))
<1>1. ASSUME NEW t \in ComponentType
      PROVE  Elements(Query(w, {t})) = {e \in EntityId : View(w)[e][t] # None}
  <2> DEFINE required == {t}
  <2>1. required \subseteq ComponentType
    OBVIOUS
  <2>2. \A u : u \in required <=> u = t
    OBVIOUS
  <2> HIDE DEF required
  <2>3. Elements(Query(w, required)) =
          {e \in EntityId :
             /\ \E u \in ComponentType : GetComponent(w, e, u) # None
             /\ \A u \in required : GetComponent(w, e, u) # None}
    BY <2>1, QueryScans
  <2>4. \A e \in EntityId : View(w)[e][t] = GetComponent(w, e, t)
    BY DEF View
  <2>5. Elements(Query(w, required)) = {e \in EntityId : View(w)[e][t] # None}
    BY <2>2, <2>3, <2>4
  <2> QED
    BY <2>5 DEF required
<1> QED
  BY <1>1 DEF Finds, Abstract!Matching

\* Every step is a step of EcsStore or changes nothing EcsStore sees.
LEMMA StepRefines == IInv /\ [Next]_vars => [Abstract!Next]_(Abstract!svars)
<1> SUFFICES ASSUME IInv, [Next]_vars PROVE [Abstract!Next]_(Abstract!svars)
  OBVIOUS
<1>1. Sound(world) /\ Sound(world')
  BY StepSound DEF IInv
<1>2. /\ Finds(world) = Abstract!Matching(View(world))
      /\ Finds(world') = Abstract!Matching(View(world'))
  BY <1>1, FindsMatching
<1>3. CASE SameWorld
  <2>1. View(world') = View(world)
    BY <1>3 DEF SameWorld, View
  <2> QED
    BY <1>2, <2>1 DEF Abstract!svars, View, Finds
<1>4. ASSUME NEW e \in EntityId, NEW t \in ComponentType, NEW data \in Bytes,
             ComponentWritten(e, t, data)
      PROVE  Abstract!Next
  <2>1. View(world') = [View(world) EXCEPT ![e][t] = data]
    BY <1>4 DEF ComponentWritten, View
  <2>2. Abstract!Set(e, t, data)
    BY <2>1 DEF Abstract!Set, View
  <2> QED
    BY <1>2, <2>2 DEF Abstract!Next, View, Finds
<1>5. ASSUME NEW e \in EntityId, NEW t \in ComponentType, ComponentWritten(e, t, None)
      PROVE  Abstract!Next
  <2>1. View(world') = [View(world) EXCEPT ![e][t] = None]
    BY <1>5 DEF ComponentWritten, View
  <2>2. Abstract!Remove(e, t)
    BY <2>1 DEF Abstract!Remove, View
  <2> QED
    BY <1>2, <2>2 DEF Abstract!Next, View, Finds
<1>6. ASSUME NEW e \in EntityId, EntityEmptied(e)
      PROVE  Abstract!Next
  <2>1. View(world') = [View(world) EXCEPT ![e] = [t \in ComponentType |-> None]]
    BY <1>6 DEF EntityEmptied, View
  <2>2. Abstract!Despawn(e)
    BY <2>1 DEF Abstract!Despawn, View
  <2> QED
    BY <1>2, <2>2 DEF Abstract!Next, View, Finds
<1> QED
  BY <1>3, <1>4, <1>5, <1>6, StepSound DEF IInv

\* The empty world is the empty store.
LEMMA InitRefines == Init => Abstract!Init
<1> SUFFICES ASSUME Init PROVE Abstract!Init
  OBVIOUS
<1>1. Sound(world)
  BY InitInv DEF IInv
<1>2. \A e \in EntityId : world.entity_archetype[e] = None
  BY DEF Init, EmptyWorld
<1>3. View(world) = [e \in EntityId |-> [t \in ComponentType |-> None]]
  BY <1>2 DEF View, GetComponent
<1>4. Finds(world) = Abstract!Matching(View(world))
  BY <1>1, FindsMatching
<1> QED
  BY <1>3, <1>4 DEF Abstract!Init, View, Finds

\* Archetypes, their index and the moves between them are invisible: the world
\* is the plain store that SimpleWorld is with typed calls.
THEOREM ArchetypesAreInvisible == Spec => ImplementsEcsStore
<1> QED
  BY InitRefines, StepRefines, Invariance, PTL DEF Spec, ImplementsEcsStore, Abstract!Spec
=============================================================================
