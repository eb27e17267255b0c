----------------------------- MODULE NotesProofs -----------------------------
(***************************************************************************)
(* What the notes keep, for any devices, any order of fingerprints and any  *)
(* bounds: the type invariant, the bodies that were written, the deletions  *)
(* and the versions.                                                        *)
(***************************************************************************)
EXTENDS Notes, TLAPS, FiniteSetTheorems, WellFoundedInduction

USE LimitAssumption, BackupAssumption, BoundAssumption

-----------------------------------------------------------------------------
(* Induction on the length of a batch, as a fact about a set of numbers.    *)

(* A set of numbers that is not empty has a least one.                      *)
LEMMA Least ==
    ASSUME NEW S, S \subseteq Nat, S # {}
    PROVE  \E x \in S : \A y \in S : x <= y
<1> DEFINE R == OpToRel(<, Nat)
<1>1. IsWellFoundedOn(R, Nat)
  BY NatLessThanWellFounded
<1>2. \A x, y \in Nat : <<y, x>> \in R <=> y < x
  BY DEF OpToRel
<1> HIDE DEF R
<1>3. PICK x \in S : \A y \in S : ~(<<y, x>> \in R)
  BY <1>1, WFMin
<1>4. ASSUME NEW y \in S PROVE x <= y
  <2>1. x \in Nat /\ y \in Nat /\ ~(y < x)
    BY <1>2, <1>3
  <2>2. QED
    BY <2>1
<1>5. QED
  BY <1>4

(* A set with 0 and with the successor of each of its numbers has them all. *)
LEMMA SetInduction ==
    ASSUME NEW G, 0 \in G, \A n \in Nat : n \in G => n + 1 \in G
    PROVE  Nat \subseteq G
<1> SUFFICES ASSUME ~(Nat \subseteq G) PROVE FALSE
  OBVIOUS
<1> DEFINE S == {n \in Nat : n \notin G}
<1>1. S \subseteq Nat /\ S # {}
  OBVIOUS
<1>2. PICK x \in S : \A y \in S : x <= y
  <2> HIDE DEF S
  <2>1. QED
    BY <1>1, Least
<1>3. x # 0 /\ x \in Nat
  OBVIOUS
<1>4. x - 1 \in Nat /\ x - 1 \notin S
  BY <1>2, <1>3
<1>5. QED
  BY <1>3, <1>4

-----------------------------------------------------------------------------
(* The definition equations of the two loops over a list.                   *)

(* The workspace after the first k notes of a batch.                        *)
LEMMA MergedIs ==
    ASSUME NEW N, NEW S, NEW batch \in Seq(S)
    PROVE  /\ MergedUpTo(N, batch)[0] = [notes |-> N, full |-> FALSE]
           /\ \A k \in 1 .. Len(batch) :
                 MergedUpTo(N, batch)[k] = MergeOne(MergedUpTo(N, batch)[k - 1], batch[k])
<1> DEFINE w == [notes |-> N, full |-> FALSE]
           Is(g, n) == g = [k \in 0 .. n |->
                IF k = 0 THEN w ELSE MergeOne(g[k - 1], batch[k])]
           G == {n \in Nat : \E g : Is(g, n)}
<1>1. 0 \in G
  <2> DEFINE g == [k \in 0 .. 0 |-> w]
  <2>1. Is(g, 0)
    OBVIOUS
  <2> HIDE DEF g, Is
  <2>2. QED
    BY <2>1
<1>2. ASSUME NEW n \in Nat, n \in G PROVE n + 1 \in G
  <2> HIDE DEF w
  <2>1. PICK g : Is(g, n)
    BY <1>2
  <2>2. \A k \in 0 .. n : g[k] = IF k = 0 THEN w
                                 ELSE MergeOne(g[k - 1], batch[k])
    BY <2>1
  <2> DEFINE f == [k \in 0 .. n + 1 |-> IF k <= n THEN g[k] ELSE MergeOne(g[n], batch[k])]
  <2>3. ASSUME NEW k \in 0 .. n + 1
        PROVE  f[k] = IF k = 0 THEN w
                      ELSE MergeOne(f[k - 1], batch[k])
    <3>1. CASE k = n + 1
      <4>1. f[k] = MergeOne(g[n], batch[k]) /\ k # 0 /\ k - 1 = n /\ f[n] = g[n]
        BY <3>1
      <4>2. QED
        BY <4>1
    <3>2. CASE k <= n
      <4>1. f[k] = g[k] /\ (k # 0 => f[k - 1] = g[k - 1])
        BY <3>2
      <4>2. QED
        BY <2>2, <3>2, <4>1
    <3>3. QED
      BY <3>1, <3>2
  <2>4. f = [k \in 0 .. n + 1 |-> f[k]]
    OBVIOUS
  <2>5. Is(f, n + 1)
    <3> HIDE DEF f
    <3>1. QED
      BY <2>3, <2>4
  <2> HIDE DEF f, Is
  <2>6. QED
    BY <2>5
<1>3. Nat \subseteq G
  <2> HIDE DEF G
  <2>1. QED
    BY <1>1, <1>2, SetInduction
<1>4. Len(batch) \in Nat
  OBVIOUS
<1>5. MergedUpTo(N, batch) = CHOOSE g : Is(g, Len(batch))
  BY DEF MergedUpTo
<1>6. Is(MergedUpTo(N, batch), Len(batch))
  <2>1. \E g : Is(g, Len(batch))
    BY <1>3, <1>4
  <2> HIDE DEF Is
  <2>2. QED
    BY <1>5, <2>1
<1>7. /\ MergedUpTo(N, batch)[0] = w
      /\ \A k \in 1 .. Len(batch) :
            MergedUpTo(N, batch)[k] = MergeOne(MergedUpTo(N, batch)[k - 1], batch[k])
  <2> HIDE DEF w
  <2>1. QED
    BY <1>4, <1>6
<1>8. QED
  BY <1>7

(* The workspace after the first k notes of a new order.                    *)
LEMMA MovedIs ==
    ASSUME NEW d, NEW S, NEW q \in Seq(S)
    PROVE  /\ MovedUpTo(d, q)[0] = [counter |-> counter[d], notes |-> notes[d]]
           /\ \A k \in 1 .. Len(q) :
                 MovedUpTo(d, q)[k] = Move(d, MovedUpTo(d, q)[k - 1], q[k].id, k)
<1> DEFINE w == [counter |-> counter[d], notes |-> notes[d]]
           Is(g, n) == g = [k \in 0 .. n |->
                IF k = 0 THEN w ELSE Move(d, g[k - 1], q[k].id, k)]
           G == {n \in Nat : \E g : Is(g, n)}
<1>1. 0 \in G
  <2> DEFINE g == [k \in 0 .. 0 |-> w]
  <2>1. Is(g, 0)
    OBVIOUS
  <2> HIDE DEF g, Is
  <2>2. QED
    BY <2>1
<1>2. ASSUME NEW n \in Nat, n \in G PROVE n + 1 \in G
  <2> HIDE DEF w
  <2>1. PICK g : Is(g, n)
    BY <1>2
  <2>2. \A k \in 0 .. n : g[k] = IF k = 0 THEN w ELSE Move(d, g[k - 1], q[k].id, k)
    BY <2>1
  <2> DEFINE f == [k \in 0 .. n + 1 |-> IF k <= n THEN g[k] ELSE Move(d, g[n], q[k].id, k)]
  <2>3. ASSUME NEW k \in 0 .. n + 1
        PROVE  f[k] = IF k = 0 THEN w ELSE Move(d, f[k - 1], q[k].id, k)
    <3>1. CASE k = n + 1
      <4>1. f[k] = Move(d, g[n], q[k].id, k) /\ k # 0 /\ k - 1 = n /\ f[n] = g[n]
        BY <3>1
      <4>2. QED
        BY <4>1
    <3>2. CASE k <= n
      <4>1. f[k] = g[k] /\ (k # 0 => f[k - 1] = g[k - 1])
        BY <3>2
      <4>2. QED
        BY <2>2, <3>2, <4>1
    <3>3. QED
      BY <3>1, <3>2
  <2>4. f = [k \in 0 .. n + 1 |-> f[k]]
    OBVIOUS
  <2>5. Is(f, n + 1)
    <3> HIDE DEF f
    <3>1. QED
      BY <2>3, <2>4
  <2> HIDE DEF f, Is
  <2>6. QED
    BY <2>5
<1>3. Nat \subseteq G
  <2> HIDE DEF G
  <2>1. QED
    BY <1>1, <1>2, SetInduction
<1>4. Len(q) \in Nat
  OBVIOUS
<1>5. MovedUpTo(d, q) = CHOOSE g : Is(g, Len(q))
  BY DEF MovedUpTo
<1>6. Is(MovedUpTo(d, q), Len(q))
  <2>1. \E g : Is(g, Len(q))
    BY <1>3, <1>4
  <2> HIDE DEF Is
  <2>2. QED
    BY <1>5, <2>1
<1>7. /\ MovedUpTo(d, q)[0] = w
      /\ \A k \in 1 .. Len(q) : MovedUpTo(d, q)[k] = Move(d, MovedUpTo(d, q)[k - 1], q[k].id, k)
  <2> HIDE DEF w
  <2>1. QED
    BY <1>4, <1>6
<1>8. QED
  BY <1>7

(* A finite set in some order is a sequence of its elements.                *)
LEMMA SequenceOfSet ==
    ASSUME NEW S, IsFiniteSet(S)
    PROVE  SetToSeq(S) \in Seq(S) /\ SetToSeqs(S) \subseteq Seq(S)
<1>1. PICK n \in Nat : n = Cardinality(S)
  BY FS_CardinalityType
<1>2. PICK f \in Bijection(1 .. n, S) : TRUE
  BY <1>1, FS_CardinalityType DEF ExistsBijection
<1>3. f \in [1 .. n -> S] /\ IsInjective(f)
  BY <1>2 DEF Bijection, Injection, IsInjective
<1>4. SetToSeq(S) \in [1 .. n -> S]
  BY <1>1, <1>3 DEF SetToSeq
<1>5. SetToSeqs(S) \subseteq [1 .. n -> S]
  BY <1>1 DEF SetToSeqs
<1>6. QED
  BY <1>4, <1>5

-----------------------------------------------------------------------------
(* The invariant.  It speaks of all the versions A that have been anywhere: *)
(* in a workspace, in an editor, in a backup or in a batch under way; ns    *)
(* are the workspaces, and the history h says what has been written.        *)

History == [written |-> written, replaced |-> replaced, copied |-> copied, counter |-> counter]

Unique(N) == \A n, m \in N : n.id = m.id => n = m

(* The fields of a version; its id is one that has been given, and its      *)
(* vector names no version its devices have not issued.                     *)
WellFormed(n, h) ==
    /\ n \in [id : {n.id}, body : 0 .. h.written, order : Nat, clock : Clock,
              deleted : BOOLEAN]
    /\ IsCopy(n) \/ n.id \in {"note"} \X (1 .. h.written)
    /\ n.deleted <=> n.body = 0
    /\ \A d \in Device : n.clock[d] <= h.counter[d]

(* A conflict copy has the body of the version it was made of, or a user    *)
(* has replaced that body in it.                                            *)
CopyMakesSense(n, h) ==
    \/ n.body = n.id[2].body
    \/ n.id[2].body \in h.replaced /\ (n.body = 0 \/ n.body \in h.copied)

(* The body was replaced by a user, or went into a conflict copy.           *)
Held(ns, h, b) ==
    \/ b \in h.replaced
    \/ \E d \in Device : \E n \in ns[d] : IsCopy(n) /\ n.id[2].body = b

(* m may take the place of n: nothing that was written is lost by it, and   *)
(* no deletion.                                                             *)
Follows(ns, h, m, n) ==
    /\ n.deleted => m.deleted
    /\ ~n.deleted => m.body = n.body \/ Held(ns, h, n.body)

(* The k-th version of d is in n, and any version that has it follows n.    *)
Marked(ns, h, A, n, d, k) ==
    /\ 0 < k /\ k <= n.clock[d]
    /\ \A m \in A : m.id = n.id /\ m.clock[d] >= k => Follows(ns, h, m, n)

(* What a device has written into n, it has itself.                         *)
Issued(ns, n) ==
    \A d \in Device : n.clock[d] > 0 =>
        \E m \in ns[d] : m.id = n.id /\ m.clock[d] >= n.clock[d]

Sound(ns, h, A) ==
    /\ ns \in [Device -> SUBSET A]
    /\ \A d \in Device :
          IsFiniteSet(ns[d]) /\ Cardinality(ns[d]) <= MaxNotes /\ Unique(ns[d])
    /\ \A n \in A :
          /\ WellFormed(n, h)
          /\ IsCopy(n) => CopyMakesSense(n, h)
          /\ ~IsCopy(n) => Issued(ns, n)
          /\ ~IsCopy(n) => \E d \in Device, k \in Nat : Marked(ns, h, A, n, d, k)

(* A body that was written into a note is in the note, or it is held.       *)
Carried(ns, h, b) ==
    Held(ns, h, b) \/ \E d \in Device : \E n \in ns[d] : ~IsCopy(n) /\ n.body = b

AllCarried(ns, h) == \A b \in (1 .. h.written) \ h.copied : Carried(ns, h, b)

(* No note of a workspace goes back to an older version, or is deleted no   *)
(* more.                                                                    *)
Advances(N, N2) ==
    \A n \in N : ~IsCopy(n) =>
        \E m \in N2 : m.id = n.id /\ dominates(m.clock, n.clock) /\ (n.deleted => m.deleted)

-----------------------------------------------------------------------------
(* One note put into one workspace.                                         *)

At(ns, d, N) == [ns EXCEPT ![d] = N]

PutAt(ns, d, n) == At(ns, d, Put(ns[d], n))

(* There is room for a note that replaces another, or when Room says so.    *)
LEMMA PutRoom ==
    ASSUME NEW N, NEW n, IsFiniteSet(N), Unique(N), Cardinality(N) <= MaxNotes,
           Has(N, n.id) \/ Room(N)
    PROVE  /\ IsFiniteSet(Put(N, n)) /\ Unique(Put(N, n))
           /\ Cardinality(Put(N, n)) <= MaxNotes
<1> DEFINE M == {m \in N : m.id # n.id}
<1>1. Put(N, n) = M \cup {n} /\ n \notin M
  BY DEF Put
<1>2. Unique(Put(N, n))
  BY <1>1 DEF Unique
<1>3. /\ Cardinality(N) \in Nat
      /\ IsFiniteSet(M) /\ Cardinality(M) \in Nat /\ Cardinality(M) <= Cardinality(N)
  BY FS_CardinalityType, FS_Subset, M \in SUBSET N
<1>4. IsFiniteSet(M \cup {n}) /\ Cardinality(M \cup {n}) = Cardinality(M) + 1
  BY <1>1, <1>3, FS_AddElement
<1>5. CASE Has(N, n.id)
  <2>1. PICK m \in N : m.id = n.id
    BY <1>5 DEF Has
  <2>2. M \in SUBSET (N \ {m})
    BY <2>1
  <2>3. IsFiniteSet(N \ {m}) /\ Cardinality(N \ {m}) = Cardinality(N) - 1
    BY <2>1, FS_RemoveElement
  <2>4. Cardinality(M) <= Cardinality(N) - 1
    BY <2>2, <2>3, FS_Subset
  <2> HIDE DEF M
  <2>5. QED
    BY <1>1, <1>2, <1>3, <1>4, <2>4
<1>6. CASE Room(N)
  <2> HIDE DEF M
  <2>1. QED
    BY <1>1, <1>2, <1>3, <1>4, <1>6 DEF Room
<1>7. QED
  BY <1>5, <1>6

(* No id disappears, so what is held stays held.                            *)
LEMMA PutHeld ==
    ASSUME NEW A, NEW h, NEW ns \in [Device -> SUBSET A], NEW d \in Device, NEW n,
           NEW b, Held(ns, h, b)
    PROVE  Held(PutAt(ns, d, n), h, b)
<1> DEFINE ms == PutAt(ns, d, n)
<1> USE DEF At, PutAt
<1>1. CASE b \in h.replaced
  BY <1>1 DEF Held
<1>2. CASE \E e \in Device : \E m \in ns[e] : IsCopy(m) /\ m.id[2].body = b
  <2>1. PICK e \in Device : \E m \in ns[e] : IsCopy(m) /\ m.id[2].body = b
    BY <1>2
  <2>2. PICK m \in ns[e] : IsCopy(m) /\ m.id[2].body = b
    BY <2>1
  <2>3. \E x \in ms[e] : x.id = m.id
    BY DEF Put
  <2>4. QED
    BY <2>2, <2>3 DEF Held, IsCopy
<1>3. QED
  BY <1>1, <1>2 DEF Held

(* What makes n, put into the workspace of d, a version like any other.     *)
Successor(ns, ms, h, A, d, n) ==
    /\ \A e \in Device \ {d} : n.clock[e] > 0 =>
          \E m \in ns[e] : m.id = n.id /\ m.clock[e] >= n.clock[e]
    /\ \A m \in ns[d] : m.id = n.id => n.clock[d] >= m.clock[d] /\ Follows(ms, h, n, m)
    /\ \E e \in Device, k \in Nat : Marked(ms, h, A \cup {n}, n, e, k)
    /\ \A m \in A, e \in Device, k \in Nat :
          m.id = n.id /\ Marked(ns, h, A, m, e, k) /\ n.clock[e] >= k => Follows(ms, h, n, m)

(* The invariant after one note has been put into one workspace.            *)
LEMMA PutSound ==
    ASSUME NEW ns, NEW h, NEW A, Sound(ns, h, A), NEW d \in Device, NEW n,
           NEW ms, ms = PutAt(ns, d, n),
           Has(ns[d], n.id) \/ Room(ns[d]),
           WellFormed(n, h),
           IsCopy(n) => CopyMakesSense(n, h),
           ~IsCopy(n) => Successor(ns, ms, h, A, d, n)
    PROVE  /\ Sound(ms, h, A \cup {n})
           /\ \A b : Carried(ns, h, b) => Carried(ms, h, b) \/ b = 0
<1> DEFINE B == A \cup {n}
<1>1. /\ ns \in [Device -> SUBSET A]
      /\ ms \in [Device -> SUBSET B]
      /\ ms[d] = Put(ns[d], n) /\ n \in ms[d]
      /\ \A e \in Device \ {d} : ms[e] = ns[e]
      /\ \A m \in ns[d] : m.id # n.id => m \in ms[d]
  BY DEF Sound, Put, At, PutAt
<1>2. ASSUME NEW e \in Device
      PROVE  IsFiniteSet(ms[e]) /\ Cardinality(ms[e]) <= MaxNotes /\ Unique(ms[e])
  BY <1>1, PutRoom DEF Sound
<1>3. \A b : Held(ns, h, b) => Held(ms, h, b)
  BY <1>1, PutHeld
<1>4. \A m, x : Follows(ns, h, m, x) => Follows(ms, h, m, x)
  BY <1>3 DEF Follows
<1>5. ASSUME NEW m \in B, ~IsCopy(m) PROVE Issued(ms, m)
  <2> SUFFICES ASSUME NEW e \in Device, m.clock[e] > 0
               PROVE  \E x \in ms[e] : x.id = m.id /\ x.clock[e] >= m.clock[e]
    BY DEF Issued
  <2>1. CASE m \in A
    <3>1. PICK x \in ns[e] : x.id = m.id /\ x.clock[e] >= m.clock[e]
      BY <1>5, <2>1 DEF Sound, Issued
    <3>2. CASE x \in ms[e]
      BY <3>1, <3>2
    <3>3. CASE x \notin ms[e]
      <4>1. e = d /\ x.id = n.id
        BY <1>1, <3>1, <3>3
      <4>2. ~IsCopy(n)
        BY <1>5, <3>1, <4>1 DEF IsCopy
      <4>3. n.clock[d] >= x.clock[d]
        BY <3>1, <4>1, <4>2 DEF Successor
      <4>4. n.clock[d] \in Nat /\ x.clock[d] \in Nat /\ m.clock[d] \in Nat
        BY <1>1, <2>1, <3>1, <4>1 DEF Sound, WellFormed, Clock
      <4>5. QED
        BY <1>1, <3>1, <4>1, <4>3, <4>4
    <3>4. QED
      BY <3>2, <3>3
  <2>2. CASE m = n
    <3>1. CASE e = d
      <4>1. n.clock[d] \in Nat
        BY DEF WellFormed, Clock
      <4>2. QED
        BY <1>1, <2>2, <3>1, <4>1
    <3>2. CASE e # d
      BY <1>1, <1>5, <2>2, <3>2 DEF Successor
    <3>3. QED
      BY <3>1, <3>2
  <2>3. QED
    BY <2>1, <2>2
<1>6. ASSUME NEW m \in B, ~IsCopy(m)
      PROVE  \E e \in Device, k \in Nat : Marked(ms, h, B, m, e, k)
  <2>1. CASE m \in A
    <3>1. PICK e \in Device, k \in Nat : Marked(ns, h, A, m, e, k)
      BY <1>6, <2>1 DEF Sound
    <3>2. ASSUME NEW x \in B, x.id = m.id, x.clock[e] >= k PROVE Follows(ms, h, x, m)
      <4>1. CASE x \in A
        BY <1>4, <3>1, <3>2, <4>1 DEF Marked
      <4>2. CASE x = n
        <5>1. ~IsCopy(n)
          BY <1>6, <3>2, <4>2 DEF IsCopy
        <5>2. QED
          BY <2>1, <3>1, <3>2, <4>2, <5>1 DEF Successor
      <4>3. QED
        BY <4>1, <4>2
    <3>3. Marked(ms, h, B, m, e, k)
      BY <3>1, <3>2 DEF Marked
    <3>4. QED
      BY <3>3
  <2>2. CASE m = n
    BY <1>6, <2>2 DEF Successor
  <2>3. QED
    BY <2>1, <2>2
<1>7. Sound(ms, h, B)
  <2>1. \A m \in B : WellFormed(m, h) /\ (IsCopy(m) => CopyMakesSense(m, h))
    BY DEF Sound
  <2>2. QED
    BY <1>1, <1>2, <1>5, <1>6, <2>1 DEF Sound
<1>8. ASSUME NEW b, b # 0, Carried(ns, h, b) PROVE Carried(ms, h, b)
  <2>1. CASE Held(ns, h, b)
    BY <1>3, <2>1 DEF Carried
  <2>2. CASE \E e \in Device : \E m \in ns[e] : ~IsCopy(m) /\ m.body = b
    <3>1. PICK e \in Device : \E m \in ns[e] : ~IsCopy(m) /\ m.body = b
      BY <2>2
    <3>2. PICK m \in ns[e] : ~IsCopy(m) /\ m.body = b
      BY <3>1
    <3>3. CASE m \in ms[e]
      BY <3>2, <3>3 DEF Carried
    <3>4. CASE m \notin ms[e]
      <4>1. e = d /\ m.id = n.id
        BY <1>1, <3>2, <3>4
      <4>2. ~IsCopy(n)
        BY <3>2, <4>1 DEF IsCopy
      <4>3. Follows(ms, h, n, m)
        BY <3>2, <4>1, <4>2 DEF Successor
      <4>4. ~m.deleted
        BY <1>1, <1>8, <3>2 DEF Sound, WellFormed
      <4>5. n.body = b \/ Held(ms, h, b)
        BY <3>2, <4>3, <4>4 DEF Follows
      <4>6. QED
        BY <1>1, <4>2, <4>5 DEF Carried
    <3>5. QED
      BY <3>3, <3>4
  <2>3. QED
    BY <1>8, <2>1, <2>2 DEF Carried
<1>9. QED
  BY <1>7, <1>8

-----------------------------------------------------------------------------
(* Facts about Follows and the history.                                     *)

(* What follows a version follows those it followed.                        *)
LEMMA FollowsTrans ==
    ASSUME NEW ns, NEW h, NEW x, NEW m, NEW n, WellFormed(x, h), WellFormed(m, h),
           Follows(ns, h, m, x), Follows(ns, h, n, m)
    PROVE  Follows(ns, h, n, x)
<1>1. x.deleted \in BOOLEAN /\ m.deleted \in BOOLEAN
  BY DEF WellFormed
<1>2. CASE x.deleted
  BY <1>1, <1>2 DEF Follows
<1>3. CASE ~x.deleted /\ m.body = x.body
  BY <1>1, <1>3 DEF Follows, WellFormed
<1>4. CASE ~x.deleted /\ Held(ns, h, x.body)
  BY <1>4 DEF Follows
<1>5. QED
  BY <1>1, <1>2, <1>3, <1>4 DEF Follows

(* More written, replaced and issued takes nothing back.                    *)
LEMMA HistoryGrows ==
    ASSUME NEW ns, NEW h, NEW A, NEW k, Sound(ns, h, A),
           h.written \in Nat, k.written \in Nat, h.written <= k.written,
           h.replaced \subseteq k.replaced, h.copied \subseteq k.copied,
           h.counter \in [Device -> Nat], k.counter \in [Device -> Nat],
           \A d \in Device : h.counter[d] <= k.counter[d]
    PROVE  /\ Sound(ns, k, A)
           /\ \A b : Carried(ns, h, b) => Carried(ns, k, b)
<1>1. ASSUME NEW n, WellFormed(n, h) PROVE WellFormed(n, k)
  <2>1. /\ n \in [id : {n.id}, body : 0 .. h.written, order : Nat, clock : Clock,
                  deleted : BOOLEAN]
        /\ IsCopy(n) \/ n.id \in {"note"} \X (1 .. h.written)
        /\ n.deleted <=> n.body = 0
        /\ \A d \in Device : n.clock[d] <= h.counter[d]
    BY <1>1 DEF WellFormed
  <2>2. 0 .. h.written \subseteq 0 .. k.written /\ 1 .. h.written \subseteq 1 .. k.written
    OBVIOUS
  <2>3. n.clock \in [Device -> Nat]
    BY <2>1 DEF Clock
  <2>4. \A d \in Device : n.clock[d] <= k.counter[d]
    BY <2>1, <2>3
  <2>5. n \in [id : {n.id}, body : 0 .. k.written, order : Nat, clock : Clock,
               deleted : BOOLEAN]
    BY <2>1, <2>2
  <2>6. QED
    BY <2>1, <2>2, <2>4, <2>5 DEF WellFormed
<1>2. \A b : Held(ns, h, b) => Held(ns, k, b)
  BY DEF Held
<1>3. \A m, n : Follows(ns, h, m, n) => Follows(ns, k, m, n)
  BY <1>2 DEF Follows
<1>4. \A n \in A, d \in Device, j \in Nat : Marked(ns, h, A, n, d, j) => Marked(ns, k, A, n, d, j)
  BY <1>3 DEF Marked
<1>5. \A n \in A : CopyMakesSense(n, h) => CopyMakesSense(n, k)
  BY DEF CopyMakesSense
<1>6. Sound(ns, k, A)
  BY <1>1, <1>4, <1>5 DEF Sound
<1>7. QED
  BY <1>2, <1>6 DEF Carried

-----------------------------------------------------------------------------
(* The operations put notes in three ways.                                  *)

(* A version of a peer that is newer, or of a note the device does not have. *)
LEMMA TakenSound ==
    ASSUME NEW ns, NEW h, NEW A, Sound(ns, h, A), NEW d \in Device, NEW n \in A,
           NEW ms, ms = PutAt(ns, d, n),
           Has(ns[d], n.id) \/ Room(ns[d]),
           \A m \in ns[d] : m.id = n.id => dominates(n.clock, m.clock)
    PROVE  /\ Sound(ms, h, A)
           /\ \A b : Carried(ns, h, b) => Carried(ms, h, b) \/ b = 0
           /\ Advances(ns[d], ms[d])
<1>1. /\ ns \in [Device -> SUBSET A]
      /\ \A m \in A : WellFormed(m, h) /\ m.clock \in [Device -> Nat]
  BY DEF Sound, WellFormed, Clock
<1>2. \A b : Held(ns, h, b) => Held(ms, h, b)
  BY <1>1, PutHeld
<1>3. \A m, x : Follows(ns, h, m, x) => Follows(ms, h, m, x)
  BY <1>2 DEF Follows
<1>4. ASSUME NEW m \in A, NEW e \in Device, NEW k \in Nat, m.id = n.id,
             Marked(ns, h, A, m, e, k), n.clock[e] >= k
      PROVE  Follows(ms, h, n, m)
  BY <1>3, <1>4 DEF Marked
<1>5. ASSUME ~IsCopy(n), NEW m \in ns[d], m.id = n.id
      PROVE  n.clock[d] >= m.clock[d] /\ Follows(ms, h, n, m)
  <2>1. m \in A /\ ~IsCopy(m)
    BY <1>1, <1>5 DEF IsCopy
  <2>2. PICK e \in Device, k \in Nat : Marked(ns, h, A, m, e, k)
    BY <2>1 DEF Sound
  <2>3. dominates(n.clock, m.clock)
    BY <1>5
  <2>4. n.clock[e] >= m.clock[e] /\ n.clock[d] >= m.clock[d]
    BY <2>3 DEF dominates
  <2>5. n.clock[e] >= k
    BY <1>1, <2>1, <2>2, <2>4 DEF Marked
  <2>6. QED
    BY <1>4, <1>5, <2>1, <2>2, <2>4, <2>5
<1>6. ASSUME ~IsCopy(n)
      PROVE  \E e \in Device, k \in Nat : Marked(ms, h, A \cup {n}, n, e, k)
  <2>1. PICK e \in Device, k \in Nat : Marked(ns, h, A, n, e, k)
    BY <1>6 DEF Sound
  <2>2. A \cup {n} = A
    OBVIOUS
  <2>3. Marked(ms, h, A \cup {n}, n, e, k)
    BY <1>3, <2>1, <2>2 DEF Marked
  <2>4. QED
    BY <2>3
<1>7. ASSUME ~IsCopy(n), NEW e \in Device \ {d}, n.clock[e] > 0
      PROVE  \E m \in ns[e] : m.id = n.id /\ m.clock[e] >= n.clock[e]
  BY <1>7 DEF Sound, Issued
<1>8. WellFormed(n, h) /\ (IsCopy(n) => CopyMakesSense(n, h)) /\ A \cup {n} = A
  BY DEF Sound
<1>9. Sound(ms, h, A \cup {n}) /\ \A b : Carried(ns, h, b) => Carried(ms, h, b) \/ b = 0
  <2>1. ~IsCopy(n) => Successor(ns, ms, h, A, d, n)
    BY <1>4, <1>5, <1>6, <1>7, <1>8 DEF Successor
  <2>2. QED
    BY <1>8, <2>1, PutSound
<1>10. Advances(ns[d], ms[d])
  <2> SUFFICES ASSUME NEW m \in ns[d], ~IsCopy(m)
               PROVE  \E x \in ms[d] : /\ x.id = m.id /\ dominates(x.clock, m.clock)
                                       /\ m.deleted => x.deleted
    BY DEF Advances
  <2>1. m \in A
    BY <1>1
  <2>2. CASE m.id # n.id
    <3>1. m \in ms[d] /\ dominates(m.clock, m.clock)
      BY <1>1, <2>1, <2>2 DEF Put, At, PutAt, dominates
    <3>2. QED
      BY <3>1
  <2>3. CASE m.id = n.id
    <3>1. ~IsCopy(n) /\ n \in ms[d]
      BY <1>1, <2>3 DEF IsCopy, Put, At, PutAt
    <3>2. Follows(ms, h, n, m)
      BY <1>5, <2>3, <3>1
    <3>3. QED
      BY <2>3, <3>1, <3>2 DEF Follows
  <2>4. QED
    BY <2>2, <2>3
<1>11. QED
  BY <1>8, <1>9, <1>10

(* The winner of a conflict is to get the joined version; the loser is      *)
(* deleted, with the winner, or held.                                       *)
Joins(ns, h, A, d, winner, loser, clock) ==
    /\ Sound(ns, h, A)
    /\ winner \in A /\ loser \in A /\ winner.id = loser.id /\ clock \in Clock
    /\ \A e \in Device : /\ clock[e] >= winner.clock[e] /\ clock[e] >= loser.clock[e]
                          /\ clock[e] \in {winner.clock[e], loser.clock[e]}
    /\ Has(ns[d], winner.id)
    /\ ~IsCopy(winner) =>
          /\ \A m \in ns[d] : m.id = winner.id => m \in {winner, loser}
          /\ loser.deleted => winner.deleted
          /\ ~loser.deleted => Held(ns, h, loser.body)

WithClock(n, clock) == [n EXCEPT !.clock = clock]

(* The invariant after the winner of a conflict has been stored.            *)
LEMMA JoinedSound ==
    ASSUME NEW ns, NEW h, NEW A, NEW d \in Device, NEW winner, NEW loser, NEW clock,
           Joins(ns, h, A, d, winner, loser, clock),
           NEW n, n = WithClock(winner, clock),
           NEW ms, ms = PutAt(ns, d, n)
    PROVE  /\ Sound(ms, h, A \cup {n})
           /\ \A b : Carried(ns, h, b) => Carried(ms, h, b) \/ b = 0
           /\ Advances(ns[d], ms[d])
<1> USE DEF Joins
<1>1. /\ ns \in [Device -> SUBSET A]
      /\ \A m \in A : WellFormed(m, h) /\ m.clock \in [Device -> Nat]
  BY DEF Sound, WellFormed, Clock
<1>2. /\ n.id = winner.id /\ n.body = winner.body /\ n.deleted = winner.deleted
      /\ n.clock = clock /\ clock \in [Device -> Nat]
      /\ WellFormed(n, h)
      /\ IsCopy(n) <=> IsCopy(winner)
  <2>1. winner \in [id : {winner.id}, body : 0 .. h.written, order : Nat, clock : Clock,
                    deleted : BOOLEAN]
    BY <1>1 DEF WellFormed
  <2>2. /\ n \in [id : {winner.id}, body : 0 .. h.written, order : Nat, clock : Clock,
                  deleted : BOOLEAN]
        /\ n.id = winner.id /\ n.body = winner.body /\ n.deleted = winner.deleted
        /\ n.clock = clock
    BY <2>1 DEF WithClock
  <2>3. ASSUME NEW e \in Device PROVE n.clock[e] <= h.counter[e]
    BY <1>1, <2>2 DEF WellFormed
  <2>4. QED
    BY <1>1, <2>2, <2>3 DEF WellFormed, Clock, IsCopy
<1>3. \A b : Held(ns, h, b) => Held(ms, h, b)
  BY <1>1, PutHeld
<1>4. \A m, x : Follows(ns, h, m, x) => Follows(ms, h, m, x)
  BY <1>3 DEF Follows
<1>5. \A x : Follows(ms, h, winner, x) <=> Follows(ms, h, n, x)
  BY <1>2 DEF Follows
<1>6. \A m : Follows(ms, h, m, winner) <=> Follows(ms, h, m, n)
  BY <1>2 DEF Follows
<1>7. ~IsCopy(n) => Follows(ms, h, n, loser) /\ Follows(ms, h, n, winner)
  BY <1>2, <1>3 DEF Follows
<1>8. ASSUME ~IsCopy(n), NEW m \in A, NEW e \in Device, NEW k \in Nat, m.id = n.id,
             Marked(ns, h, A, m, e, k), n.clock[e] >= k
      PROVE  Follows(ms, h, n, m)
  <2>1. winner.clock[e] >= k \/ loser.clock[e] >= k
    BY <1>2, <1>8
  <2>2. CASE winner.clock[e] >= k
    BY <1>2, <1>4, <1>5, <1>8, <2>2 DEF Marked
  <2>3. CASE loser.clock[e] >= k
    <3>1. Follows(ms, h, loser, m)
      BY <1>2, <1>4, <1>8, <2>3 DEF Marked
    <3>2. QED
      BY <1>1, <1>7, <1>8, <3>1, FollowsTrans
  <2>4. QED
    BY <2>1, <2>2, <2>3
<1>9. ASSUME ~IsCopy(n), NEW m \in ns[d], m.id = n.id
      PROVE  n.clock[d] >= m.clock[d] /\ Follows(ms, h, n, m)
  BY <1>2, <1>7, <1>9
<1>10. ASSUME ~IsCopy(n)
       PROVE  \E e \in Device, k \in Nat : Marked(ms, h, A \cup {n}, n, e, k)
  <2>1. PICK e \in Device, k \in Nat : Marked(ns, h, A, winner, e, k)
    BY <1>2, <1>10 DEF Sound
  <2>2. k <= n.clock[e]
    BY <1>1, <1>2, <2>1 DEF Marked
  <2>3. ASSUME NEW m \in A \cup {n}, m.id = n.id, m.clock[e] >= k
        PROVE  Follows(ms, h, m, n)
    <3>1. CASE m \in A
      BY <1>2, <1>4, <1>6, <2>1, <2>3, <3>1 DEF Marked
    <3>2. CASE m = n
      BY <3>2 DEF Follows
    <3>3. QED
      BY <3>1, <3>2
  <2>4. Marked(ms, h, A \cup {n}, n, e, k)
    BY <2>1, <2>2, <2>3 DEF Marked
  <2>5. QED
    BY <2>4
<1>11. ASSUME ~IsCopy(n), NEW e \in Device \ {d}, n.clock[e] > 0
       PROVE  \E m \in ns[e] : m.id = n.id /\ m.clock[e] >= n.clock[e]
  <2>1. Issued(ns, winner) /\ Issued(ns, loser)
    BY <1>2, <1>11 DEF Sound, IsCopy
  <2>2. QED
    BY <1>2, <1>11, <2>1 DEF Issued
<1>12. IsCopy(n) => CopyMakesSense(n, h)
  BY <1>2 DEF Sound, CopyMakesSense
<1>13. Sound(ms, h, A \cup {n}) /\ \A b : Carried(ns, h, b) => Carried(ms, h, b) \/ b = 0
  <2>1. ~IsCopy(n) => Successor(ns, ms, h, A, d, n)
    BY <1>2, <1>8, <1>9, <1>10, <1>11, <1>12 DEF Successor
  <2>2. Has(ns[d], n.id) \/ Room(ns[d])
    BY <1>2
  <2>3. WellFormed(n, h)
    BY <1>2
  <2>4. QED
    BY <1>12, <2>1, <2>2, <2>3, PutSound
<1>14. Advances(ns[d], ms[d])
  <2> SUFFICES ASSUME NEW m \in ns[d], ~IsCopy(m)
               PROVE  \E x \in ms[d] : /\ x.id = m.id /\ dominates(x.clock, m.clock)
                                       /\ m.deleted => x.deleted
    BY DEF Advances
  <2>1. m \in A
    BY <1>1
  <2>2. CASE m.id # n.id
    <3>1. m \in ms[d] /\ dominates(m.clock, m.clock)
      BY <1>1, <2>1, <2>2 DEF Put, At, PutAt, dominates
    <3>2. QED
      BY <3>1
  <2>3. CASE m.id = n.id
    <3>1. ~IsCopy(n) /\ n \in ms[d] /\ m \in {winner, loser}
      BY <1>1, <1>2, <2>3 DEF IsCopy, Put, At, PutAt
    <3>2. m.deleted => n.deleted
      BY <1>2, <3>1
    <3>3. dominates(n.clock, m.clock)
      BY <1>2, <3>1 DEF dominates
    <3>4. QED
      BY <2>3, <3>1, <3>2, <3>3
  <2>4. QED
    BY <2>2, <2>3
<1>15. QED
  BY <1>13, <1>14

(* n is what the user of d makes of the note old of the workspace, which    *)
(* the editor showed in the same version; it is newer than all of A.        *)
Writes(ns, h, A, d, old, shown, n, t) ==
    /\ Sound(ns, h, A)
    /\ old \in ns[d] /\ ~old.deleted
    /\ shown \in A /\ shown.id = old.id /\ shown.clock = old.clock
    /\ n.id = old.id /\ WellFormed(n, h) /\ (IsCopy(n) => CopyMakesSense(n, h))
    /\ Follows(ns, h, n, shown)
    /\ t \in Nat /\ n.clock = [shown.clock EXCEPT ![d] = t]
    /\ \A m \in A : m.clock[d] < t

(* The invariant after a user has edited or deleted a note.                 *)
LEMMA WrittenSound ==
    ASSUME NEW ns, NEW h, NEW A, NEW d \in Device, NEW old, NEW shown, NEW n, NEW t,
           Writes(ns, h, A, d, old, shown, n, t),
           NEW ms, ms = PutAt(ns, d, n)
    PROVE  /\ Sound(ms, h, A \cup {n})
           /\ \A b : Carried(ns, h, b) => Carried(ms, h, b) \/ b = 0
           /\ Advances(ns[d], ms[d])
<1> USE DEF Writes
<1>1. /\ ns \in [Device -> SUBSET A]
      /\ \A m \in A : WellFormed(m, h) /\ m.clock \in [Device -> Nat]
      /\ \A m \in ns[d] : m.id = old.id => m = old
      /\ old \in A
  BY DEF Sound, WellFormed, Clock, Unique
<1>2. /\ n.clock \in [Device -> Nat] /\ n.clock[d] = t
      /\ \A e \in Device \ {d} : n.clock[e] = shown.clock[e] /\ n.clock[e] = old.clock[e]
      /\ IsCopy(n) <=> IsCopy(shown)
      /\ IsCopy(n) <=> IsCopy(old)
  BY <1>1 DEF WellFormed, Clock, IsCopy
<1>3. \A b : Held(ns, h, b) => Held(ms, h, b)
  BY <1>1, PutHeld
<1>4. \A m, x : Follows(ns, h, m, x) => Follows(ms, h, m, x)
  BY <1>3 DEF Follows
<1>5. ASSUME NEW m \in A, Follows(ns, h, shown, m) PROVE Follows(ms, h, n, m)
  BY <1>1, <1>4, <1>5, FollowsTrans
<1>6. ASSUME ~IsCopy(n), NEW m \in A, NEW e \in Device, NEW k \in Nat, m.id = n.id,
             Marked(ns, h, A, m, e, k), n.clock[e] >= k
      PROVE  Follows(ms, h, n, m)
  <2>1. shown.clock[e] >= k
    <3>1. CASE e # d
      BY <1>2, <1>6, <3>1
    <3>2. CASE e = d
      <4>1. m.clock[d] >= k /\ m.clock[d] > 0 /\ ~IsCopy(m)
        BY <1>1, <1>6, <3>2 DEF Marked, IsCopy
      <4>2. PICK x \in ns[d] : x.id = m.id /\ x.clock[d] >= m.clock[d]
        BY <4>1 DEF Sound, Issued
      <4>3. x = old
        BY <1>1, <1>6, <4>2
      <4>4. QED
        BY <1>1, <1>6, <3>2, <4>1, <4>2, <4>3
    <3>3. QED
      BY <3>1, <3>2
  <2>2. Follows(ns, h, shown, m)
    BY <1>6, <2>1 DEF Marked
  <2>3. QED
    BY <1>5, <2>2
<1>7. ASSUME ~IsCopy(n), NEW m \in ns[d], m.id = n.id
      PROVE  n.clock[d] >= m.clock[d] /\ Follows(ms, h, n, m)
  <2>1. m = old
    BY <1>1, <1>7
  <2>2. n.clock[d] >= m.clock[d]
    BY <1>1, <1>2, <2>1
  <2>3. PICK e \in Device, k \in Nat : Marked(ns, h, A, old, e, k)
    BY <1>1, <1>2, <1>7 DEF Sound
  <2>4. Follows(ns, h, shown, old)
    BY <2>3 DEF Marked
  <2>5. QED
    BY <1>1, <1>5, <2>1, <2>2, <2>4
<1>8. ASSUME ~IsCopy(n)
      PROVE  \E e \in Device, k \in Nat : Marked(ms, h, A \cup {n}, n, e, k)
  <2>1. ASSUME NEW m \in A \cup {n}, m.id = n.id, m.clock[d] >= t PROVE Follows(ms, h, m, n)
    <3>1. CASE m \in A
      BY <1>1, <2>1, <3>1
    <3>2. CASE m = n
      BY <3>2 DEF Follows
    <3>3. QED
      BY <2>1, <3>1, <3>2
  <2>2. 0 < t
    BY <1>1
  <2>3. Marked(ms, h, A \cup {n}, n, d, t)
    BY <1>2, <2>1, <2>2 DEF Marked
  <2>4. QED
    BY <2>3
<1>9. ASSUME ~IsCopy(n), NEW e \in Device \ {d}, n.clock[e] > 0
      PROVE  \E m \in ns[e] : m.id = n.id /\ m.clock[e] >= n.clock[e]
  BY <1>1, <1>2, <1>9 DEF Sound, Issued
<1>10. Has(ns[d], n.id) \/ Room(ns[d])
  BY DEF Has
<1>11. Sound(ms, h, A \cup {n}) /\ \A b : Carried(ns, h, b) => Carried(ms, h, b) \/ b = 0
  <2>1. ~IsCopy(n) => Successor(ns, ms, h, A, d, n)
    BY <1>6, <1>7, <1>8, <1>9 DEF Successor
  <2>2. QED
    BY <1>10, <2>1, PutSound
<1>12. Advances(ns[d], ms[d])
  <2> SUFFICES ASSUME NEW m \in ns[d], ~IsCopy(m)
               PROVE  \E x \in ms[d] : /\ x.id = m.id /\ dominates(x.clock, m.clock)
                                       /\ m.deleted => x.deleted
    BY DEF Advances
  <2>1. CASE m.id # n.id
    <3>1. m \in ms[d] /\ dominates(m.clock, m.clock)
      BY <1>1, <2>1 DEF Put, At, PutAt, dominates
    <3>2. QED
      BY <3>1
  <2>2. CASE m.id = n.id
    <3>1. m = old /\ n \in ms[d]
      BY <1>1, <2>2 DEF Put, At, PutAt
    <3>2. \A e \in Device : n.clock[e] >= old.clock[e]
      BY <1>1, <1>2
    <3>3. QED
      BY <2>2, <3>1, <3>2 DEF dominates
  <2>3. QED
    BY <2>1, <2>2
<1>13. QED
  BY <1>11, <1>12

(* n is the first version of a note of d, under an id of its own.           *)
Creates(ns, h, A, d, n, t) ==
    /\ Sound(ns, h, A) /\ Room(ns[d])
    /\ WellFormed(n, h) /\ ~IsCopy(n) /\ \A m \in A : m.id # n.id
    /\ t \in Nat /\ 0 < t /\ n.clock = [NoClock EXCEPT ![d] = t]

(* A new note.                                                              *)
LEMMA CreatedSound ==
    ASSUME NEW ns, NEW h, NEW A, NEW d \in Device, NEW n, NEW t,
           Creates(ns, h, A, d, n, t),
           NEW ms, ms = PutAt(ns, d, n)
    PROVE  /\ Sound(ms, h, A \cup {n})
           /\ \A b : Carried(ns, h, b) => Carried(ms, h, b) \/ b = 0
           /\ Advances(ns[d], ms[d])
<1> USE DEF Creates
<1>1. /\ ns \in [Device -> SUBSET A]
      /\ \A m \in A : WellFormed(m, h) /\ m.clock \in [Device -> Nat]
  BY DEF Sound, WellFormed, Clock
<1>2. n.clock[d] = t /\ \A e \in Device \ {d} : n.clock[e] = 0
  BY DEF NoClock
<1>3. Marked(ms, h, A \cup {n}, n, d, t)
  BY <1>2 DEF Marked, Follows
<1>4. Successor(ns, ms, h, A, d, n)
  <2>1. \E e \in Device, k \in Nat : Marked(ms, h, A \cup {n}, n, e, k)
    BY <1>3
  <2>2. \A e \in Device \ {d} : ~(n.clock[e] > 0)
    BY <1>2
  <2>3. QED
    BY <1>1, <2>1, <2>2 DEF Successor
<1>5. Sound(ms, h, A \cup {n}) /\ \A b : Carried(ns, h, b) => Carried(ms, h, b) \/ b = 0
  BY <1>4, PutSound
<1>6. \A m \in ns[d] : m \in ms[d] /\ dominates(m.clock, m.clock)
  BY <1>1 DEF Put, At, PutAt, dominates
<1>7. QED
  BY <1>5, <1>6 DEF Advances

-----------------------------------------------------------------------------
(* The merge of one note, and of a batch.                                   *)

(* What a step makes of the workspaces, and of the history: they stay       *)
(* sound, with more versions, and lose nothing.                             *)
Better(ns, h, ms, g, A, d) ==
    /\ \E B : A \subseteq B /\ Sound(ms, g, B)
    /\ \A b : Carried(ns, h, b) => Carried(ms, g, b) \/ b = 0
    /\ Advances(ns[d], ms[d])

(* The invariant after a conflict: the copy of the loser, then the winner.  *)
LEMMA ResolvedSound ==
    ASSUME NEW ns, NEW h, NEW A, Sound(ns, h, A), NEW d \in Device,
           NEW local \in ns[d], NEW incoming \in A, incoming.id = local.id,
           (IF RemoteWins(local, incoming) THEN local ELSE incoming).deleted \/ Room(ns[d]),
           NEW ms, ms = At(ns, d, Resolved(ns[d], local, incoming))
    PROVE  Better(ns, h, ms, h, A, d)
<1> DEFINE winner == IF RemoteWins(local, incoming) THEN incoming ELSE local
           loser == IF RemoteWins(local, incoming) THEN local ELSE incoming
           clock == Join(local.clock, incoming.clock)
           copy == ConflictCopy(loser, clock)
           n == WithClock(winner, clock)
           ls == IF loser.deleted THEN ns ELSE PutAt(ns, d, copy)
           C == IF loser.deleted THEN A ELSE A \cup {copy}
<1>1. /\ ns \in [Device -> SUBSET A]
      /\ local \in A /\ winner \in A /\ loser \in A /\ winner.id = loser.id
      /\ winner.id = local.id
      /\ \A m \in A : WellFormed(m, h) /\ m.clock \in [Device -> Nat]
      /\ \A m \in ns[d] : m.id = local.id => m = local
      /\ local \in {winner, loser}
  BY DEF Sound, WellFormed, Clock, Unique
<1>2. /\ clock \in [Device -> Nat]
      /\ \A e \in Device : /\ clock[e] >= winner.clock[e] /\ clock[e] >= loser.clock[e]
                           /\ clock[e] \in {winner.clock[e], loser.clock[e]}
  BY <1>1 DEF Join
<1>3. loser.deleted => winner.deleted
  BY <1>1 DEF RemoteWins, WellFormed
<1>4. ms = PutAt(ls, d, n)
  BY <1>1 DEF Resolved, At, PutAt, WithClock
<1> HIDE DEF winner, loser, clock
<1>5. /\ copy.id = <<"conflict", loser>> /\ copy.body = loser.body
      /\ copy.deleted = loser.deleted /\ copy.clock = clock
      /\ copy \in [id : {copy.id}, body : 0 .. h.written, order : Nat, clock : Clock,
                   deleted : BOOLEAN]
      /\ IsCopy(copy) /\ copy.id[2] = loser
  <2>1. loser \in [id : {loser.id}, body : 0 .. h.written, order : Nat, clock : Clock,
                   deleted : BOOLEAN]
    BY <1>1 DEF WellFormed
  <2>2. QED
    BY <1>2, <2>1 DEF ConflictCopy, IsCopy, Clock
<1>6. ASSUME ~loser.deleted
      PROVE  /\ Sound(PutAt(ns, d, copy), h, A \cup {copy})
             /\ \A b : Carried(ns, h, b) => Carried(PutAt(ns, d, copy), h, b) \/ b = 0
             /\ Held(PutAt(ns, d, copy), h, loser.body)
  <2>1. \A e \in Device : clock[e] <= h.counter[e]
    BY <1>1, <1>2 DEF WellFormed
  <2>2. WellFormed(copy, h) /\ CopyMakesSense(copy, h)
    <3>1. copy.deleted <=> copy.body = 0
      BY <1>1, <1>5 DEF WellFormed
    <3>2. QED
      BY <1>5, <2>1, <3>1 DEF WellFormed, CopyMakesSense
  <2>3. Has(ns[d], copy.id) \/ Room(ns[d])
    BY <1>6 DEF loser
  <2>4. copy \in PutAt(ns, d, copy)[d]
    BY <1>1 DEF At, PutAt, Put
  <2>5. Held(PutAt(ns, d, copy), h, loser.body)
    BY <1>5, <2>4 DEF Held
  <2> HIDE DEF copy
  <2>6. QED
    BY <1>5, <2>2, <2>3, <2>5, PutSound
<1>7. /\ Sound(ls, h, C) /\ A \subseteq C
      /\ \A b : Carried(ns, h, b) => Carried(ls, h, b) \/ b = 0
      /\ ~loser.deleted => Held(ls, h, loser.body)
  BY <1>6
<1>8. Has(ls[d], winner.id)
  BY <1>1 DEF Has, At, PutAt, Put
<1>9. ASSUME ~IsCopy(winner), NEW m \in ls[d], m.id = winner.id PROVE m \in {winner, loser}
  BY <1>1, <1>5, <1>9 DEF At, PutAt, Put, IsCopy
<1>10. /\ Sound(ms, h, C \cup {n})
       /\ \A b : Carried(ls, h, b) => Carried(ms, h, b) \/ b = 0
       /\ Advances(ls[d], ms[d])
  <2>1. winner \in C /\ loser \in C /\ clock \in Clock
    BY <1>1, <1>2, <1>7 DEF Clock
  <2> HIDE DEF n, ls, C
  <2>2. n = WithClock(winner, clock)
    BY DEF n
  <2>3. Joins(ls, h, C, d, winner, loser, clock)
    BY <1>1, <1>2, <1>3, <1>7, <1>8, <1>9, <2>1 DEF Joins
  <2>4. QED
    BY <1>4, <2>2, <2>3, JoinedSound
<1>11. Advances(ns[d], ms[d])
  <2>1. ASSUME NEW m \in ns[d], ~IsCopy(m) PROVE m \in ls[d]
    BY <1>1, <1>5, <2>1 DEF At, PutAt, Put, IsCopy
  <2>2. QED
    BY <1>10, <2>1 DEF Advances
<1>12. \E B : A \subseteq B /\ Sound(ms, h, B)
  <2>1. A \subseteq C \cup {n}
    BY <1>7
  <2>2. QED
    BY <1>10, <2>1
<1>13. \A b : Carried(ns, h, b) => Carried(ms, h, b) \/ b = 0
  BY <1>7, <1>10
<1>14. QED
  BY <1>11, <1>12, <1>13 DEF Better

(* Two steps, one after the other.                                          *)
LEMMA BetterTrans ==
    ASSUME NEW ns, NEW h, NEW A, Sound(ns, h, A), NEW d \in Device,
           NEW ls, NEW k, Better(ns, h, ls, k, A, d),
           NEW ms, NEW g, \A B : A \subseteq B /\ Sound(ls, k, B) => Better(ls, k, ms, g, B, d)
    PROVE  Better(ns, h, ms, g, A, d)
<1>1. PICK B : A \subseteq B /\ Sound(ls, k, B)
  BY DEF Better
<1>2. Better(ls, k, ms, g, B, d)
  BY <1>1
<1>3. PICK C : B \subseteq C /\ Sound(ms, g, C)
  BY <1>2 DEF Better
<1>4. \A b : Carried(ns, h, b) => Carried(ms, g, b) \/ b = 0
  BY <1>2 DEF Better
<1>5. Advances(ns[d], ms[d])
  <2> SUFFICES ASSUME NEW n \in ns[d], ~IsCopy(n)
               PROVE  \E x \in ms[d] : /\ x.id = n.id /\ dominates(x.clock, n.clock)
                                       /\ n.deleted => x.deleted
    BY DEF Advances
  <2>1. PICK m \in ls[d] : m.id = n.id /\ dominates(m.clock, n.clock) /\ (n.deleted => m.deleted)
    BY DEF Better, Advances
  <2>2. ~IsCopy(m)
    BY <2>1 DEF IsCopy
  <2>3. PICK x \in ms[d] : x.id = m.id /\ dominates(x.clock, m.clock) /\ (m.deleted => x.deleted)
    BY <1>2, <2>2 DEF Better, Advances
  <2>4. n \in A /\ m \in B /\ x \in C
    BY <1>1, <1>3 DEF Sound
  <2>5. /\ n.clock \in [Device -> Nat] /\ m.clock \in [Device -> Nat]
        /\ x.clock \in [Device -> Nat]
    BY <1>1, <1>3, <2>4 DEF Sound, WellFormed, Clock
  <2>6. dominates(x.clock, n.clock)
    BY <2>1, <2>3, <2>5 DEF dominates
  <2>7. QED
    BY <2>1, <2>3, <2>6
<1>6. \E D : A \subseteq D /\ Sound(ms, g, D)
  BY <1>1, <1>3
<1>7. QED
  BY <1>4, <1>5, <1>6 DEF Better

(* No step.                                                                 *)
LEMMA BetterSame ==
    ASSUME NEW ns, NEW h, NEW A, Sound(ns, h, A), NEW d \in Device
    PROVE  Better(ns, h, ns, h, A, d)
<1>1. \A n \in ns[d] : n.clock \in [Device -> Nat]
  BY DEF Sound, WellFormed, Clock
<1>2. \A n \in ns[d] : dominates(n.clock, n.clock)
  BY <1>1 DEF dominates
<1>3. QED
  BY <1>2 DEF Better, Advances

(* The workspaces when d has N.                                             *)
LEMMA AtTwice ==
    ASSUME NEW ns, NEW h, NEW A, Sound(ns, h, A), NEW d \in Device, NEW N, NEW M
    PROVE  /\ At(At(ns, d, N), d, M) = At(ns, d, M)
           /\ At(ns, d, ns[d]) = ns
           /\ At(ns, d, N)[d] = N
           /\ \A e \in Device \ {d} : At(ns, d, N)[e] = ns[e]
  BY DEF At, Sound

(* The invariant after one note of a batch, whatever case of the merge.     *)
LEMMA MergeOneSound ==
    ASSUME NEW ns, NEW h, NEW A, Sound(ns, h, A), NEW d \in Device,
           NEW w, w = [notes |-> ns[d], full |-> w.full], NEW incoming \in A
    PROVE  /\ Better(ns, h, At(ns, d, MergeOne(w, incoming).notes), h, A, d)
           /\ MergeOne(w, incoming) = [notes |-> MergeOne(w, incoming).notes,
                                       full |-> MergeOne(w, incoming).full]
<1> DEFINE x == MergeOne(w, incoming)
           local == Get(ns[d], incoming.id)
           localAfter == dominates(local.clock, incoming.clock)
           remoteAfter == dominates(incoming.clock, local.clock)
           loser == IF RemoteWins(local, incoming) THEN local ELSE incoming
<1>1. ns \in [Device -> SUBSET A] /\ Unique(ns[d]) /\ w.notes = ns[d]
  BY DEF Sound
<1>2. x = [notes |-> x.notes, full |-> x.full]
  BY DEF MergeOne
<1>3. ASSUME x.notes = ns[d] PROVE Better(ns, h, At(ns, d, x.notes), h, A, d)
  <2>1. At(ns, d, ns[d]) = ns
    BY AtTwice
  <2>2. QED
    BY <1>3, <2>1, BetterSame
<1>4. ASSUME x.notes = Put(ns[d], incoming), Has(ns[d], incoming.id) \/ Room(ns[d]),
             \A m \in ns[d] : m.id = incoming.id => dominates(incoming.clock, m.clock)
      PROVE  Better(ns, h, At(ns, d, x.notes), h, A, d)
  <2>1. At(ns, d, x.notes) = PutAt(ns, d, incoming)
    BY <1>4 DEF PutAt
  <2>2. /\ Sound(PutAt(ns, d, incoming), h, A)
        /\ \A b : Carried(ns, h, b) => Carried(PutAt(ns, d, incoming), h, b) \/ b = 0
        /\ Advances(ns[d], PutAt(ns, d, incoming)[d])
    BY <1>4, TakenSound
  <2>3. QED
    BY <2>1, <2>2 DEF Better
<1>5. CASE ~Has(ns[d], incoming.id)
  <2>1. CASE Room(ns[d])
    <3>1. x.notes = ns[d] \cup {incoming}
      BY <1>1, <1>5, <2>1 DEF MergeOne
    <3>2. x.notes = Put(ns[d], incoming)
      BY <1>5, <3>1 DEF Put, Has
    <3>3. QED
      BY <1>2, <1>4, <1>5, <2>1, <3>2 DEF Has
  <2>2. CASE ~Room(ns[d])
    <3>1. x.notes = ns[d]
      BY <1>1, <1>5, <2>2 DEF MergeOne
    <3>2. QED
      BY <1>2, <1>3, <3>1
  <2>3. QED
    BY <2>1, <2>2
<1>6. CASE Has(ns[d], incoming.id)
  <2>1. /\ local \in ns[d] /\ local.id = incoming.id
        /\ \A m \in ns[d] : m.id = incoming.id => m = local
    BY <1>1, <1>6 DEF Has, Get, Unique
  <2>2. CASE local = incoming \/ (localAfter /\ ~remoteAfter)
    <3>1. x.notes = ns[d]
      BY <1>1, <1>6, <2>2 DEF MergeOne
    <3>2. QED
      BY <1>2, <1>3, <3>1
  <2>3. CASE local # incoming /\ remoteAfter /\ ~localAfter
    <3>1. x.notes = Put(ns[d], incoming)
      BY <1>1, <1>6, <2>3 DEF MergeOne
    <3>2. QED
      BY <1>2, <1>4, <1>6, <2>1, <2>3, <3>1
  <2>4. CASE /\ local # incoming /\ (localAfter <=> remoteAfter)
             /\ ~(loser.deleted \/ Room(ns[d]))
    <3>1. x.notes = ns[d]
      BY <1>1, <1>6, <2>4 DEF MergeOne
    <3>2. QED
      BY <1>2, <1>3, <3>1
  <2>5. CASE /\ local # incoming /\ (localAfter <=> remoteAfter)
             /\ loser.deleted \/ Room(ns[d])
    <3>1. x.notes = Resolved(ns[d], local, incoming)
      BY <1>1, <1>6, <2>5 DEF MergeOne
    <3>2. Better(ns, h, At(ns, d, Resolved(ns[d], local, incoming)), h, A, d)
      <4> HIDE DEF local
      <4>1. QED
        BY <2>1, <2>5, ResolvedSound
    <3>3. QED
      BY <1>2, <3>1, <3>2
  <2>6. QED
    BY <2>2, <2>3, <2>4, <2>5
<1>7. QED
  BY <1>5, <1>6

(* A batch, merged up to any of its notes.                                  *)
LEMMA MergedSound ==
    ASSUME NEW ns, NEW h, NEW A, Sound(ns, h, A), NEW d \in Device, NEW batch \in Seq(A)
    PROVE  Better(ns, h, At(ns, d, Merged(ns[d], batch).notes), h, A, d)
<1> DEFINE W == MergedUpTo(ns[d], batch)
           G == {k \in Nat : k <= Len(batch) =>
                    /\ Better(ns, h, At(ns, d, W[k].notes), h, A, d)
                    /\ W[k] = [notes |-> W[k].notes, full |-> W[k].full]}
<1>1. ns \in [Device -> SUBSET A] /\ Len(batch) \in Nat
  BY DEF Sound
<1>2. /\ W[0] = [notes |-> ns[d], full |-> FALSE]
      /\ \A k \in 1 .. Len(batch) : W[k] = MergeOne(W[k - 1], batch[k])
  BY MergedIs
<1> HIDE DEF W
<1>3. 0 \in G
  <2>1. At(ns, d, ns[d]) = ns
    BY AtTwice
  <2>2. Better(ns, h, At(ns, d, W[0].notes), h, A, d)
    BY <1>2, <2>1, BetterSame
  <2>3. QED
    BY <1>2, <2>2
<1>4. ASSUME NEW k \in Nat, k \in G PROVE k + 1 \in G
  <2> SUFFICES ASSUME k + 1 <= Len(batch)
               PROVE  /\ Better(ns, h, At(ns, d, W[k + 1].notes), h, A, d)
                      /\ W[k + 1] = [notes |-> W[k + 1].notes, full |-> W[k + 1].full]
    OBVIOUS
  <2> DEFINE ls == At(ns, d, W[k].notes)
             ms == At(ns, d, W[k + 1].notes)
  <2>1. /\ Better(ns, h, ls, h, A, d)
        /\ W[k] = [notes |-> W[k].notes, full |-> W[k].full]
    BY <1>1, <1>4
  <2>2. k + 1 \in 1 .. Len(batch) /\ (k + 1) - 1 = k /\ batch[k + 1] \in A
    BY <1>1
  <2>3. W[k + 1] = MergeOne(W[k], batch[k + 1])
    BY <1>2, <2>2
  <2>4. /\ ls[d] = W[k].notes
        /\ At(ls, d, W[k + 1].notes) = ms
    BY <1>1, AtTwice
  <2>5. W[k] = [notes |-> ls[d], full |-> W[k].full]
    BY <2>1, <2>4
  <2> HIDE DEF ls, ms
  <2>6. PICK B : A \subseteq B /\ Sound(ls, h, B)
    BY <2>1 DEF Better
  <2>7. W[k + 1] = [notes |-> W[k + 1].notes, full |-> W[k + 1].full]
    BY <2>2, <2>3, <2>5, <2>6, MergeOneSound
  <2>8. ASSUME NEW C, A \subseteq C, Sound(ls, h, C) PROVE Better(ls, h, ms, h, C, d)
    <3>1. batch[k + 1] \in C
      BY <2>2, <2>8
    <3>2. QED
      BY <2>3, <2>4, <2>5, <2>8, <3>1, MergeOneSound
  <2>9. Better(ns, h, ms, h, A, d)
    BY <2>1, <2>8, BetterTrans
  <2>10. QED
    BY <2>7, <2>9 DEF ms
<1>5. Nat \subseteq G
  <2> HIDE DEF G
  <2>1. QED
    BY <1>3, <1>4, SetInduction
<1>6. Merged(ns[d], batch) = W[Len(batch)]
  BY DEF Merged, W
<1>7. Len(batch) \in G
  <2> HIDE DEF G
  <2>1. QED
    BY <1>1, <1>5
<1>8. Better(ns, h, At(ns, d, W[Len(batch)].notes), h, A, d)
  BY <1>1, <1>7
<1>9. QED
  BY <1>6, <1>8

-----------------------------------------------------------------------------
(* A list in a new order.                                                   *)

Ticked(h, d, t) ==
    [written |-> h.written, replaced |-> h.replaced, copied |-> h.copied,
     counter |-> [h.counter EXCEPT ![d] = t]]

HistoryOK(h) == h.written \in Nat /\ h.counter \in [Device -> Nat]

(* The ids of the list, all of notes that are not deleted.                  *)
Alive(N, ids) == \A i \in ids : \E m \in N : m.id = i /\ ~m.deleted

(* The invariant after one note of the list has got its place.              *)
LEMMA MoveSound ==
    ASSUME NEW ns, NEW h, NEW A, Sound(ns, h, A), HistoryOK(h), NEW d \in Device,
           NEW w, w = [counter |-> h.counter[d], notes |-> ns[d]],
           NEW ids, Alive(ns[d], ids), NEW id \in ids, NEW k \in Nat,
           NEW x, x = Move(d, w, id, k)
    PROVE  /\ Better(ns, h, At(ns, d, x.notes), Ticked(h, d, x.counter), A, d)
           /\ x = [counter |-> x.counter, notes |-> x.notes]
           /\ x.counter \in Nat
           /\ Alive(x.notes, ids)
<1> DEFINE old == Get(ns[d], id)
           t == (IF h.counter[d] >= old.clock[d] THEN h.counter[d] ELSE old.clock[d]) + 1
           n == [old EXCEPT !.order = k, !.clock[d] = t]
           g == Ticked(h, d, t)
<1>1. /\ ns \in [Device -> SUBSET A] /\ Unique(ns[d])
      /\ \A m \in A : WellFormed(m, h) /\ m.clock \in [Device -> Nat]
      /\ h.counter \in [Device -> Nat] /\ h.written \in Nat
      /\ w.notes = ns[d] /\ w.counter = h.counter[d]
  BY DEF Sound, WellFormed, Clock, HistoryOK
<1>2. /\ old \in ns[d] /\ old \in A /\ old.id = id /\ ~old.deleted
      /\ \A m \in ns[d] : m.id = id => m = old
  BY <1>1 DEF Alive, Get, Unique
<1>3. CASE old.order = k
  <2>1. x = w
    BY <1>1, <1>3 DEF Move
  <2>2. At(ns, d, x.notes) = ns
    <3>1. At(ns, d, ns[d]) = ns
      BY AtTwice
    <3>2. QED
      BY <1>1, <2>1, <3>1
  <2>3. [h.counter EXCEPT ![d] = h.counter[d]] = h.counter
    BY <1>1
  <2>4. \A b : Held(ns, Ticked(h, d, x.counter), b) <=> Held(ns, h, b)
    BY DEF Held, Ticked
  <2>5. Ticked(h, d, x.counter).counter = h.counter
    BY <1>1, <2>1, <2>3 DEF Ticked
  <2>6. Sound(ns, Ticked(h, d, x.counter), A)
    <3> DEFINE f == Ticked(h, d, x.counter)
    <3>1. HistoryOK(f)
      BY <1>1, <2>5 DEF HistoryOK, Ticked
    <3>2. /\ h.written = f.written /\ h.replaced = f.replaced /\ h.copied = f.copied
          /\ h.counter = f.counter
      BY <2>5 DEF Ticked
    <3> HIDE DEF f
    <3>3. /\ h.written <= f.written /\ h.replaced \subseteq f.replaced
          /\ h.copied \subseteq f.copied
          /\ \A e \in Device : h.counter[e] <= f.counter[e]
      BY <1>1, <3>2
    <3>4. Sound(ns, f, A)
      BY <1>1, <3>1, <3>2, <3>3, HistoryGrows DEF HistoryOK
    <3>5. QED
      BY <3>4 DEF f
  <2>7. Better(ns, h, ns, Ticked(h, d, x.counter), A, d)
    <3>1. Better(ns, h, ns, h, A, d)
      BY BetterSame
    <3>2. QED
      BY <2>4, <2>6, <3>1 DEF Better, Carried
  <2>8. QED
    BY <1>1, <2>1, <2>2, <2>7
<1>4. CASE old.order # k
  <2>1. x = [counter |-> t, notes |-> Put(ns[d], n)]
    BY <1>1, <1>4 DEF Move
  <2>2. t \in Nat /\ t > h.counter[d]
    BY <1>1, <1>2
  <2>3. /\ g.written = h.written /\ g.replaced = h.replaced /\ g.copied = h.copied
        /\ g.counter \in [Device -> Nat]
        /\ g.counter[d] = t /\ \A e \in Device \ {d} : g.counter[e] = h.counter[e]
    BY <1>1, <2>2 DEF Ticked
  <2>4. /\ old \in [id : {old.id}, body : 0 .. h.written, order : Nat, clock : Clock,
                    deleted : BOOLEAN]
        /\ \A e \in Device : old.clock[e] <= h.counter[e]
    BY <1>1, <1>2 DEF WellFormed
  <2> HIDE DEF g, t
  <2>5. Sound(ns, g, A) /\ \A b : Carried(ns, h, b) => Carried(ns, g, b)
    <3>1. h.written <= g.written /\ \A e \in Device : h.counter[e] <= g.counter[e]
      BY <1>1, <2>2, <2>3
    <3>2. QED
      BY <1>1, <2>3, <3>1, HistoryGrows
  <2>6. /\ n.id = old.id /\ n.body = old.body /\ n.deleted = old.deleted
        /\ n.clock = [old.clock EXCEPT ![d] = t]
        /\ n \in [id : {old.id}, body : 0 .. g.written, order : Nat, clock : Clock,
                  deleted : BOOLEAN]
    BY <2>2, <2>3, <2>4 DEF Clock
  <2>7. WellFormed(n, g)
    <3>1. \A e \in Device : n.clock[e] <= g.counter[e]
      BY <1>1, <2>2, <2>3, <2>4, <2>6 DEF Clock
    <3>2. IsCopy(n) <=> IsCopy(old)
      BY <2>6 DEF IsCopy
    <3> HIDE DEF n
    <3>3. QED
      BY <1>1, <1>2, <2>3, <2>6, <3>1, <3>2 DEF WellFormed
  <2>8. IsCopy(n) => CopyMakesSense(n, g)
    BY <1>2, <2>3, <2>6 DEF Sound, IsCopy, CopyMakesSense
  <2>9. Follows(ns, g, n, old)
    BY <2>6 DEF Follows
  <2>10. \A m \in A : m.clock[d] < t
    BY <1>1, <2>2 DEF WellFormed
  <2> HIDE DEF n
  <2>11. /\ Sound(PutAt(ns, d, n), g, A \cup {n})
         /\ \A b : Carried(ns, g, b) => Carried(PutAt(ns, d, n), g, b) \/ b = 0
         /\ Advances(ns[d], PutAt(ns, d, n)[d])
    <3>1. Writes(ns, g, A, d, old, old, n, t)
      BY <1>2, <2>2, <2>5, <2>6, <2>7, <2>8, <2>9, <2>10 DEF Writes
    <3> HIDE DEF old
    <3>2. QED
      BY <3>1, WrittenSound
  <2>12. x.notes = Put(ns[d], n) /\ x.counter = t
    BY <2>1
  <2>13. Better(ns, h, At(ns, d, x.notes), Ticked(h, d, x.counter), A, d)
    BY <2>5, <2>11, <2>12 DEF Better, PutAt, g
  <2>14. Alive(x.notes, ids)
    BY <1>2, <2>6, <2>12 DEF Alive, Put
  <2>15. QED
    BY <2>1, <2>2, <2>12, <2>13, <2>14
<1>5. QED
  BY <1>3, <1>4

(* The invariant after the list has been put in a new order.                *)
LEMMA MovedSound ==
    ASSUME NEW A, Sound(notes, History, A), HistoryOK(History), NEW d \in Device,
           NEW q \in Seq({n \in notes[d] : ~n.deleted}),
           NEW w, w = MovedUpTo(d, q)[Len(q)]
    PROVE  /\ Better(notes, History, At(notes, d, w.notes), Ticked(History, d, w.counter), A, d)
           /\ w.counter \in Nat
<1> DEFINE W == MovedUpTo(d, q)
           ids == {n.id : n \in {m \in notes[d] : ~m.deleted}}
           H(k) == Ticked(History, d, W[k].counter)
           G == {k \in Nat : k <= Len(q) =>
                    /\ Better(notes, History, At(notes, d, W[k].notes), H(k), A, d)
                    /\ W[k] = [counter |-> W[k].counter, notes |-> W[k].notes]
                    /\ W[k].counter \in Nat
                    /\ Alive(W[k].notes, ids)}
<1>1. /\ Len(q) \in Nat /\ \A k \in 1 .. Len(q) : q[k].id \in ids
      /\ counter \in [Device -> Nat] /\ History.counter = counter
  BY DEF HistoryOK, History
<1>2. /\ W[0] = [counter |-> counter[d], notes |-> notes[d]]
      /\ \A k \in 1 .. Len(q) : W[k] = Move(d, W[k - 1], q[k].id, k)
  BY MovedIs
<1> HIDE DEF W
<1>3. 0 \in G
  <2>1. At(notes, d, notes[d]) = notes
    BY AtTwice
  <2>2. H(0) = History
    BY <1>1, <1>2 DEF Ticked, History
  <2>3. Better(notes, History, At(notes, d, W[0].notes), H(0), A, d)
    BY <1>2, <2>1, <2>2, BetterSame
  <2>4. Alive(notes[d], ids)
    BY DEF Alive
  <2> HIDE DEF ids, H
  <2>5. QED
    BY <1>1, <1>2, <2>3, <2>4
<1> HIDE DEF ids
<1>4. ASSUME NEW k \in Nat, k \in G PROVE k + 1 \in G
  <2> SUFFICES ASSUME k + 1 <= Len(q)
               PROVE  /\ Better(notes, History, At(notes, d, W[k + 1].notes), H(k + 1), A, d)
                      /\ W[k + 1] = [counter |-> W[k + 1].counter, notes |-> W[k + 1].notes]
                      /\ W[k + 1].counter \in Nat
                      /\ Alive(W[k + 1].notes, ids)
    OBVIOUS
  <2> DEFINE ls == At(notes, d, W[k].notes)
             ms == At(notes, d, W[k + 1].notes)
             h == H(k)
             g == H(k + 1)
  <2>1. /\ Better(notes, History, ls, h, A, d)
        /\ W[k] = [counter |-> W[k].counter, notes |-> W[k].notes]
        /\ W[k].counter \in Nat
        /\ Alive(W[k].notes, ids)
    BY <1>1, <1>4
  <2>2. k + 1 \in 1 .. Len(q) /\ (k + 1) - 1 = k /\ q[k + 1].id \in ids /\ k + 1 \in Nat
    BY <1>1
  <2>3. W[k + 1] = Move(d, W[k], q[k + 1].id, k + 1)
    BY <1>2, <2>2
  <2>4. /\ ls[d] = W[k].notes
        /\ At(ls, d, W[k + 1].notes) = ms
    BY AtTwice
  <2>5. /\ HistoryOK(h) /\ h.counter[d] = W[k].counter
        /\ Ticked(h, d, W[k + 1].counter) = g
    BY <1>1, <2>1 DEF HistoryOK, Ticked, History
  <2>6. W[k] = [counter |-> h.counter[d], notes |-> ls[d]]
    BY <2>1, <2>4, <2>5
  <2>7. Alive(ls[d], ids)
    BY <2>1, <2>4
  <2> HIDE DEF ls, ms, h, g
  <2>8. PICK B : A \subseteq B /\ Sound(ls, h, B)
    BY <2>1 DEF Better
  <2>9. ASSUME NEW C, Sound(ls, h, C)
        PROVE  /\ Better(ls, h, ms, g, C, d)
               /\ W[k + 1] = [counter |-> W[k + 1].counter, notes |-> W[k + 1].notes]
               /\ W[k + 1].counter \in Nat
               /\ Alive(W[k + 1].notes, ids)
    BY <2>2, <2>3, <2>4, <2>5, <2>6, <2>7, <2>9, MoveSound
  <2>10. Better(notes, History, ms, g, A, d)
    BY <2>1, <2>9, BetterTrans
  <2>11. QED
    BY <2>8, <2>9, <2>10 DEF ms, g
<1>5. Nat \subseteq G
  <2> HIDE DEF G
  <2>1. QED
    BY <1>3, <1>4, SetInduction
<1>6. w = W[Len(q)]
  BY DEF W
<1>7. Len(q) \in G
  <2> HIDE DEF G
  <2>1. QED
    BY <1>1, <1>5
<1>8. QED
  BY <1>1, <1>6, <1>7


-----------------------------------------------------------------------------
(* The invariant of the specification.                                      *)

(* What a frame under way says, A being the versions there have been.       *)
Legal(f, A) ==
    /\ f.kind = "note_batch" => f.batch \in Seq(A)
    /\ f.kind = "note_index" => IsFiniteSet(f.versions)

(* A holds every version that is in a workspace, an editor, a backup or a   *)
(* frame; F holds every frame.                                              *)
Traced(A, F) ==
    /\ Sound(notes, History, A)
    /\ backup \subseteq A /\ IsFiniteSet(backup)
    /\ \A d \in Device : editor[d] # NoNote => editor[d] \in A /\ ~editor[d].deleted
    /\ wire \in [Device -> [Device -> Seq(F)]]
    /\ \A f \in F : Legal(f, A)

Bookkeeping ==
    /\ DOMAIN editor = Device
    /\ counter \in [Device -> Nat]
    /\ peers \in [Device -> SUBSET Device] /\ \A d \in Device : d \notin peers[d]
    /\ session \in [Pair -> BOOLEAN]
    /\ written \in 0 .. MaxSaves
    /\ replaced \subseteq 0 .. written
    /\ copied \subseteq 1 .. written

Inv ==
    /\ Bookkeeping
    /\ \E A, F : Traced(A, F)
    /\ AllCarried(notes, History)

(* What every step does to the workspaces.                                  *)
Forward == \A d \in Device : Advances(notes[d], notes'[d])

(* A workspace is as new as itself.                                         *)
LEMMA AdvancesSame ==
    ASSUME NEW ns, NEW h, NEW A, Sound(ns, h, A), NEW d \in Device
    PROVE  Advances(ns[d], ns[d])
<1>1. \A n \in ns[d] : n.clock \in [Device -> Nat]
  BY DEF Sound, WellFormed, Clock
<1>2. \A n \in ns[d] : dominates(n.clock, n.clock)
  BY <1>1 DEF dominates
<1>3. QED
  BY <1>2 DEF Advances

(* Frames stay legal when there are more versions.                          *)
LEMMA LegalGrows ==
    ASSUME NEW A, NEW B, A \subseteq B, NEW f, Legal(f, A)
    PROVE  Legal(f, B)
<1>1. \A q \in Seq(A) : q \in Seq(B)
  OBVIOUS
<1>2. QED
  BY <1>1 DEF Legal

(* A step that writes into the workspace of d only, and sends nothing that  *)
(* has not been sent.                                                       *)
LEMMA WorkspaceStep ==
    ASSUME NEW A, NEW F, Traced(A, F), AllCarried(notes, History),
           NEW d \in Device, Better(notes, History, notes', History', A, d),
           \A e \in Device \ {d} : notes'[e] = notes[e],
           \A b \in (1 .. written') \ copied' :
              b \in (1 .. written) \ copied \/ Carried(notes', History', b),
           \A e \in Device : editor'[e] \in {editor[e], NoNote},
           backup' = backup,
           wire' \in [Device -> [Device -> Seq(F)]]
    PROVE  /\ \E B, G : Traced(B, G)'
           /\ AllCarried(notes, History)'
           /\ Forward
<1>1. PICK B : A \subseteq B /\ Sound(notes', History', B)
  BY DEF Better
<1>2. \A f \in F : Legal(f, B)
  BY <1>1, LegalGrows DEF Traced
<1>3. Traced(B, F)'
  BY <1>1, <1>2 DEF Traced
<1>4. AllCarried(notes, History)'
  <2>1. ASSUME NEW b \in (1 .. written') \ copied' PROVE Carried(notes', History', b)
    <3>1. CASE b \in (1 .. written) \ copied
      <4>1. Carried(notes, History, b)
        BY <3>1 DEF AllCarried, History
      <4>2. b # 0
        BY <2>1
      <4>3. QED
        BY <4>1, <4>2 DEF Better
    <3>2. QED
      BY <2>1, <3>1
  <2>2. QED
    BY <2>1 DEF AllCarried, History
<1>5. Forward
  <2>1. Advances(notes[d], notes'[d])
    BY DEF Better
  <2>2. \A e \in Device : Advances(notes[e], notes[e])
    BY AdvancesSame DEF Traced
  <2>3. QED
    BY <2>1, <2>2 DEF Forward
<1>6. QED
  BY <1>3, <1>4, <1>5

(* A step that leaves the workspaces and their history alone.               *)
LEMMA QuietStep ==
    ASSUME NEW A, NEW F, NEW G, Traced(A, F), AllCarried(notes, History),
           UNCHANGED <<notes, counter, written, replaced, copied>>,
           \A e \in Device : editor'[e] # NoNote => editor'[e] \in A /\ ~editor'[e].deleted,
           backup' \subseteq A, IsFiniteSet(backup'),
           wire' \in [Device -> [Device -> Seq(G)]], \A f \in G : Legal(f, A)
    PROVE  /\ \E B, H : Traced(B, H)'
           /\ AllCarried(notes, History)'
           /\ Forward
<1>1. History' = History
  BY DEF History
<1>2. Traced(A, G)'
  BY <1>1 DEF Traced
<1>3. AllCarried(notes, History)'
  BY <1>1
<1>4. Forward
  BY AdvancesSame DEF Traced, Forward
<1>5. QED
  BY <1>2, <1>3, <1>4

-----------------------------------------------------------------------------
(* The commands of the user.                                                *)

(* The first version of a note.                                             *)
LEMMA CreateStep ==
    ASSUME Inv, NEW d \in Device, CreateNote(d)
    PROVE  (\E B, G : Traced(B, G)') /\ AllCarried(notes, History)' /\ Forward
<1> DEFINE k == Tick(d, NoClock)
           n == Note(<<"note", written'>>, written', [NoClock EXCEPT ![d] = k])
<1>1. PICK A, F : Traced(A, F)
  BY DEF Inv
<1>2. /\ counter \in [Device -> Nat] /\ written \in Nat /\ written' = written + 1
      /\ k \in Nat /\ 0 < k /\ counter[d] <= k
      /\ counter' = [counter EXCEPT ![d] = k]
      /\ Room(notes[d])
      /\ replaced' = replaced /\ copied' = copied
      /\ editor' = editor /\ backup' = backup /\ wire' = wire
  BY DEF Inv, Bookkeeping, CreateNote, Tick, NoClock, net
<1>3. counter' \in [Device -> Nat] /\ counter'[d] = k
      /\ \A e \in Device : counter[e] <= counter'[e]
  BY <1>2
<1>4. /\ Sound(notes, History', A)
      /\ \A b : Carried(notes, History, b) => Carried(notes, History', b)
  <2>1. /\ Sound(notes, History, A)
        /\ History.written \in Nat /\ History'.written \in Nat
        /\ History.written <= History'.written
        /\ History.replaced \subseteq History'.replaced
        /\ History.copied \subseteq History'.copied
        /\ History.counter \in [Device -> Nat] /\ History'.counter \in [Device -> Nat]
        /\ \A e \in Device : History.counter[e] <= History'.counter[e]
    BY <1>1, <1>2, <1>3 DEF History, Traced
  <2>2. QED
    BY <2>1, HistoryGrows
<1> HIDE DEF k
<1>5. /\ n = [id |-> <<"note", written'>>, body |-> written', order |-> 1,
              clock |-> [NoClock EXCEPT ![d] = k], deleted |-> FALSE]
      /\ ~IsCopy(n)
  BY DEF Note, IsCopy
<1> HIDE DEF n
<1>6. /\ n.clock \in [Device -> Nat]
      /\ \A e \in Device : n.clock[e] <= counter'[e]
  BY <1>2, <1>3, <1>5 DEF NoClock
<1>7. WellFormed(n, History')
  <2>1. n \in [id : {n.id}, body : 0 .. written', order : Nat, clock : Clock, deleted : BOOLEAN]
    BY <1>2, <1>5, <1>6 DEF Clock
  <2>2. n.deleted = FALSE /\ n.body = written'
    BY <1>5
  <2>3. n.id \in {"note"} \X (1 .. written')
    BY <1>2, <1>5
  <2>4. QED
    BY <1>2, <1>5, <1>6, <2>1, <2>2, <2>3 DEF WellFormed, History
<1>8. ASSUME NEW m \in A PROVE m.id # n.id
  <2>1. IsCopy(m) \/ m.id \in {"note"} \X (1 .. written)
    BY <1>1 DEF Traced, Sound, WellFormed, History
  <2>2. n.id[1] = "note" /\ n.id[2] = written + 1
    BY <1>2, <1>5
  <2>3. QED
    BY <1>2, <2>1, <2>2 DEF IsCopy
<1>9. notes' = PutAt(notes, d, n)
  <2>1. notes \in [Device -> SUBSET A]
    BY <1>1 DEF Traced, Sound
  <2>2. Put(notes[d], n) = notes[d] \cup {n}
    BY <1>8, <2>1 DEF Put
  <2>3. notes' = [notes EXCEPT ![d] = @ \cup {n}]
    BY DEF CreateNote, n, k
  <2>4. QED
    BY <2>2, <2>3 DEF PutAt, At
<1>10. /\ Sound(notes', History', A \cup {n})
       /\ \A b : Carried(notes, History', b) => Carried(notes', History', b) \/ b = 0
       /\ Advances(notes[d], notes'[d])
  <2>1. n.clock = [NoClock EXCEPT ![d] = k]
    BY <1>5
  <2>2. Creates(notes, History', A, d, n, k)
    BY <1>2, <1>4, <1>5, <1>7, <1>8, <2>1 DEF Creates
  <2>3. QED
    BY <1>9, <2>2, CreatedSound
<1>11. Better(notes, History, notes', History', A, d)
  BY <1>4, <1>10 DEF Better
<1>12. /\ \A e \in Device \ {d} : notes'[e] = notes[e]
       /\ n \in notes'[d]
  BY <1>1, <1>9 DEF PutAt, At, Put, Traced, Sound
<1>13. \A b \in (1 .. written') \ copied' :
          b \in (1 .. written) \ copied \/ Carried(notes', History', b)
  BY <1>2, <1>5, <1>12 DEF Carried
<1>14. QED
  <2>1. /\ \A e \in Device : editor'[e] \in {editor[e], NoNote}
        /\ wire' \in [Device -> [Device -> Seq(F)]]
        /\ AllCarried(notes, History)
    BY <1>1, <1>2 DEF Traced, Inv
  <2>2. QED
    BY <1>1, <1>2, <1>11, <1>12, <1>13, <2>1, WorkspaceStep

(* The note in the workspace that the editor may write over.                *)
LEMMA CurrentIs ==
    ASSUME NEW A, NEW F, Traced(A, F), NEW d \in Device, NEW shown \in Shown(d),
           Current(d, shown)
    PROVE  /\ shown \in A /\ ~shown.deleted
           /\ \E old \in notes[d] : /\ old.id = shown.id /\ ~old.deleted
                                    /\ old.clock = shown.clock
<1> DEFINE old == Get(notes[d], shown.id)
<1>1. old \in notes[d] /\ old.id = shown.id
  BY DEF Current, Has, Get
<1>2. ~old.deleted /\ old.clock = shown.clock
  BY DEF Current
<1>3. /\ notes[d] \subseteq A
      /\ \A m \in notes[d] : m.id = old.id => m = old
  BY <1>1 DEF Traced, Sound, Unique
<1> HIDE DEF old
<1>4. shown \in A /\ ~shown.deleted
  <2>1. CASE shown \in notes[d]
    BY <1>1, <1>2, <1>3, <2>1
  <2>2. CASE shown = editor[d] /\ shown # NoNote
    BY <2>2 DEF Traced
  <2>3. QED
    BY <2>1, <2>2 DEF Shown
<1>5. QED
  BY <1>1, <1>2, <1>4

(* n is what the user makes of the note the editor showed.                  *)
LEMMA StoreStep ==
    ASSUME Inv, NEW d \in Device, NEW shown \in Shown(d), Current(d, shown),
           NEW n, Store(d, shown, n),
           n \in [id : {n.id}, body : 0 .. written', order : Nat, clock : Clock,
                  deleted : BOOLEAN],
           n.id = shown.id, n.clock = shown.clock, n.deleted <=> n.body = 0,
           written' \in Nat, written <= written', copied \subseteq copied',
           IsCopy(n) => n.body = 0 \/ n.body \in copied',
           \A b \in (1 .. written') \ copied' :
              b \in (1 .. written) \ copied \/ (~IsCopy(n) /\ b = n.body),
           backup' = backup, wire' = wire
    PROVE  (\E B, G : Traced(B, G)') /\ AllCarried(notes, History)' /\ Forward
<1> DEFINE k == Tick(d, shown.clock)
           x == [n EXCEPT !.clock[d] = k]
<1>1. PICK A, F : Traced(A, F)
  BY DEF Inv
<1>2. shown \in A /\ ~shown.deleted
  BY <1>1, CurrentIs
<1>3. PICK old \in notes[d] : old.id = shown.id /\ ~old.deleted /\ old.clock = shown.clock
  BY <1>1, CurrentIs
<1>4. /\ WellFormed(shown, History)
      /\ IsCopy(shown) => CopyMakesSense(shown, History)
      /\ \A m \in A : m.clock \in [Device -> Nat] /\ \A e \in Device : m.clock[e] <= counter[e]
  BY <1>1, <1>2 DEF Traced, Sound, WellFormed, Clock, History
<1>5. /\ counter \in [Device -> Nat] /\ written \in Nat
      /\ k \in Nat /\ counter[d] < k /\ shown.clock[d] < k
  BY <1>2, <1>4 DEF Inv, Bookkeeping, Tick
<1>6. /\ counter' = [counter EXCEPT ![d] = k]
      /\ notes' = [notes EXCEPT ![d] = Put(@, x)]
      /\ replaced' = replaced \cup {shown.body}
      /\ \A e \in Device : editor'[e] \in {editor[e], NoNote}
  <2>1. DOMAIN editor = Device
    BY DEF Inv, Bookkeeping
  <2>2. editor' = [editor EXCEPT ![d] = IF @ = shown THEN NoNote ELSE @]
    BY <1>4 DEF Store
  <2>3. \A e \in Device : editor'[e] \in {editor[e], NoNote}
    BY <2>1, <2>2
  <2>4. QED
    BY <2>3 DEF Store
<1> HIDE DEF k
<1>7. /\ counter' \in [Device -> Nat] /\ counter'[d] = k
      /\ \A e \in Device : counter[e] <= counter'[e]
  BY <1>5, <1>6
<1>8. /\ Sound(notes, History', A)
      /\ \A b : Carried(notes, History, b) => Carried(notes, History', b)
  <2>1. /\ Sound(notes, History, A)
        /\ History.written \in Nat /\ History'.written \in Nat
        /\ History.written <= History'.written
        /\ History.replaced \subseteq History'.replaced
        /\ History.copied \subseteq History'.copied
        /\ History.counter \in [Device -> Nat] /\ History'.counter \in [Device -> Nat]
        /\ \A e \in Device : History.counter[e] <= History'.counter[e]
    BY <1>1, <1>5, <1>6, <1>7 DEF History, Traced
  <2>2. QED
    BY <2>1, HistoryGrows
<1>9. /\ x.id = shown.id /\ x.body = n.body /\ x.deleted = n.deleted /\ x.order = n.order
      /\ x.clock = [shown.clock EXCEPT ![d] = k]
      /\ x.clock \in [Device -> Nat]
      /\ x = [id |-> x.id, body |-> x.body, order |-> x.order, clock |-> x.clock,
              deleted |-> x.deleted]
  <2>1. shown.clock \in [Device -> Nat]
    BY <1>2, <1>4
  <2>2. x.clock = [shown.clock EXCEPT ![d] = k]
    OBVIOUS
  <2>3. [shown.clock EXCEPT ![d] = k] \in [Device -> Nat]
    BY <1>5, <2>1
  <2>4. x.id = n.id /\ x.body = n.body /\ x.deleted = n.deleted /\ x.order = n.order
    OBVIOUS
  <2>5. x = [id |-> x.id, body |-> x.body, order |-> x.order, clock |-> x.clock,
             deleted |-> x.deleted]
    OBVIOUS
  <2> HIDE DEF x
  <2>6. QED
    BY <2>2, <2>3, <2>4, <2>5
<1> HIDE DEF x
<1>10. \A e \in Device : x.clock[e] <= counter'[e]
  BY <1>2, <1>4, <1>5, <1>7, <1>9
<1>11. WellFormed(x, History')
  <2>1. x \in [id : {x.id}, body : 0 .. written', order : Nat, clock : Clock, deleted : BOOLEAN]
    BY <1>9 DEF Clock
  <2>2. IsCopy(x) \/ x.id \in {"note"} \X (1 .. written')
    BY <1>4, <1>5, <1>9 DEF WellFormed, IsCopy, History
  <2>3. QED
    BY <1>9, <1>10, <2>1, <2>2 DEF WellFormed, History
<1>12. IsCopy(x) => CopyMakesSense(x, History')
  BY <1>4, <1>6, <1>9 DEF IsCopy, CopyMakesSense, History
<1>13. Follows(notes, History', x, shown)
  BY <1>2, <1>6 DEF Follows, Held, History
<1>14. Writes(notes, History', A, d, old, shown, x, k)
  <2>1. \A m \in A : m.clock[d] < k
    BY <1>4, <1>5
  <2>2. QED
    BY <1>2, <1>3, <1>5, <1>8, <1>9, <1>11, <1>12, <1>13, <2>1 DEF Writes
<1>15. notes' = PutAt(notes, d, x)
  BY <1>6 DEF PutAt, At
<1>16. /\ Sound(notes', History', A \cup {x})
       /\ \A b : Carried(notes, History', b) => Carried(notes', History', b) \/ b = 0
       /\ Advances(notes[d], notes'[d])
  BY <1>14, <1>15, WrittenSound
<1>17. Better(notes, History, notes', History', A, d)
  BY <1>8, <1>16 DEF Better
<1>18. /\ \A e \in Device \ {d} : notes'[e] = notes[e]
       /\ x \in notes'[d]
  BY <1>1, <1>15 DEF PutAt, At, Put, Traced, Sound
<1>19. \A b \in (1 .. written') \ copied' :
          b \in (1 .. written) \ copied \/ Carried(notes', History', b)
  BY <1>9, <1>18 DEF Carried, IsCopy
<1>20. QED
  <2>1. wire' \in [Device -> [Device -> Seq(F)]] /\ AllCarried(notes, History)
    BY <1>1 DEF Traced, Inv
  <2>2. QED
    BY <1>1, <1>6, <1>17, <1>18, <1>19, <2>1, WorkspaceStep

(* An edit, and a deletion.                                                 *)
LEMMA EditStep ==
    ASSUME Inv, NEW d \in Device, NEW shown \in Shown(d), Save(d, shown) \/ Delete(d, shown)
    PROVE  (\E B, G : Traced(B, G)') /\ AllCarried(notes, History)' /\ Forward
<1>1. PICK A, F : Traced(A, F)
  BY DEF Inv
<1>2. Current(d, shown)
  BY DEF Save, Delete
<1>3. shown \in A /\ ~shown.deleted
  BY <1>1, <1>2, CurrentIs
<1>4. /\ shown \in [id : {shown.id}, body : 0 .. written, order : Nat, clock : Clock,
                    deleted : BOOLEAN]
      /\ written \in Nat
  BY <1>1, <1>3 DEF Traced, Sound, WellFormed, History, Inv, Bookkeeping
<1>5. CASE Save(d, shown)
  <2> DEFINE n == [shown EXCEPT !.body = written']
  <2>1. /\ written' = written + 1 /\ Store(d, shown, n)
        /\ copied' = IF IsCopy(shown) THEN copied \cup {written'} ELSE copied
        /\ backup' = backup /\ wire' = wire
    BY <1>5 DEF Save, net
  <2>2. /\ n \in [id : {n.id}, body : 0 .. written', order : Nat, clock : Clock,
                  deleted : BOOLEAN]
        /\ n.id = shown.id /\ n.clock = shown.clock /\ n.body = written' /\ ~n.deleted
    BY <1>3, <1>4, <2>1
  <2>3. /\ IsCopy(n) <=> IsCopy(shown)
        /\ n.deleted <=> n.body = 0
        /\ IsCopy(n) => n.body \in copied'
        /\ written' \in Nat /\ written <= written' /\ copied \subseteq copied'
        /\ \A b \in (1 .. written') \ copied' :
              b \in (1 .. written) \ copied \/ (~IsCopy(n) /\ b = n.body)
    <3> HIDE DEF n
    <3>1. IsCopy(n) <=> IsCopy(shown)
      BY <2>2 DEF IsCopy
    <3>2. QED
      BY <1>4, <2>1, <2>2, <3>1
  <2> HIDE DEF n
  <2>4. QED
    BY <1>2, <2>1, <2>2, <2>3, StoreStep
<1>6. CASE Delete(d, shown)
  <2> DEFINE n == [shown EXCEPT !.body = 0, !.deleted = TRUE]
  <2>1. /\ written' = written /\ Store(d, shown, n) /\ copied' = copied
        /\ backup' = backup /\ wire' = wire
    BY <1>6 DEF Delete, net
  <2>2. /\ n \in [id : {n.id}, body : 0 .. written', order : Nat, clock : Clock,
                  deleted : BOOLEAN]
        /\ n.id = shown.id /\ n.clock = shown.clock /\ n.body = 0 /\ n.deleted = TRUE
    <3>1. 0 \in 0 .. written'
      BY <1>4, <2>1
    <3>2. QED
      BY <1>4, <2>1, <3>1
  <2> HIDE DEF n
  <2>3. QED
    BY <1>2, <1>4, <2>1, <2>2, StoreStep
<1>7. QED
  BY <1>5, <1>6

(* The list in a new order.                                                 *)
LEMMA ReorderStep ==
    ASSUME Inv, NEW d \in Device, NEW S \in SUBSET {n \in notes[d] : ~n.deleted},
           NEW q \in SetToSeqs(S), Reorder(d, q)
    PROVE  (\E B, G : Traced(B, G)') /\ AllCarried(notes, History)' /\ Forward
<1> DEFINE w == MovedUpTo(d, q)[Len(q)]
<1>1. PICK A, F : Traced(A, F)
  BY DEF Inv
<1>2. /\ Sound(notes, History, A) /\ HistoryOK(History)
      /\ notes \in [Device -> SUBSET A] /\ IsFiniteSet(notes[d])
      /\ counter \in [Device -> Nat]
  BY <1>1 DEF Traced, Sound, Inv, Bookkeeping, HistoryOK, History
<1>3. q \in Seq({n \in notes[d] : ~n.deleted})
  <2>1. IsFiniteSet(S)
    BY <1>2, FS_Subset, S \in SUBSET notes[d]
  <2>2. q \in Seq(S)
    BY <2>1, SequenceOfSet
  <2>3. QED
    BY <2>2
<1>4. /\ counter' = [counter EXCEPT ![d] = w.counter]
      /\ notes' = At(notes, d, w.notes)
      /\ written' = written /\ replaced' = replaced /\ copied' = copied
      /\ editor' = editor /\ backup' = backup /\ wire' = wire
  BY DEF Reorder, At, net
<1> HIDE DEF w
<1>5. Better(notes, History, At(notes, d, w.notes), Ticked(History, d, w.counter), A, d)
  BY <1>2, <1>3, MovedSound DEF w
<1>6. History' = Ticked(History, d, w.counter)
  BY <1>4 DEF History, Ticked
<1>7. Better(notes, History, notes', History', A, d)
  BY <1>4, <1>5, <1>6
<1>8. \A e \in Device \ {d} : notes'[e] = notes[e]
  BY <1>2, <1>4 DEF At
<1>9. QED
  <2>1. wire' \in [Device -> [Device -> Seq(F)]] /\ AllCarried(notes, History)
    BY <1>1, <1>4 DEF Traced, Inv
  <2>2. QED
    BY <1>1, <1>4, <1>7, <1>8, <2>1, WorkspaceStep

(* A batch that is merged into the workspace of d, as a whole.              *)
LEMMA MergeStep ==
    ASSUME Inv, NEW A, NEW F, Traced(A, F), NEW d \in Device, NEW batch \in Seq(A),
           notes' = [notes EXCEPT ![d] = Merged(notes[d], batch).notes],
           UNCHANGED <<counter, editor, backup, written, replaced, copied>>,
           wire' \in [Device -> [Device -> Seq(F)]]
    PROVE  (\E B, G : Traced(B, G)') /\ AllCarried(notes, History)' /\ Forward
<1>1. Sound(notes, History, A) /\ notes \in [Device -> SUBSET A]
  BY DEF Traced, Sound
<1>2. Better(notes, History, At(notes, d, Merged(notes[d], batch).notes), History, A, d)
  BY <1>1, MergedSound
<1>3. History' = History /\ notes' = At(notes, d, Merged(notes[d], batch).notes)
  BY DEF History, At
<1>4. Better(notes, History, notes', History', A, d)
  BY <1>2, <1>3
<1>5. \A e \in Device \ {d} : notes'[e] = notes[e]
  BY <1>1
<1>6. AllCarried(notes, History)
  BY DEF Inv
<1>7. QED
  BY <1>4, <1>5, <1>6, WorkspaceStep

(* An exported file that is merged.                                         *)
LEMMA ImportStep ==
    ASSUME Inv, NEW d \in Device, Import(d)
    PROVE  (\E B, G : Traced(B, G)') /\ AllCarried(notes, History)' /\ Forward
<1>1. PICK A, F : Traced(A, F)
  BY DEF Inv
<1>2. SetToSeq(backup) \in Seq(A)
  <2>1. SetToSeq(backup) \in Seq(backup) /\ backup \subseteq A
    BY <1>1, SequenceOfSet DEF Traced
  <2>2. QED
    BY <2>1
<1>3. /\ notes' = [notes EXCEPT ![d] = Merged(notes[d], SetToSeq(backup)).notes]
      /\ UNCHANGED <<counter, editor, backup, written, replaced, copied>>
      /\ wire' = wire
  BY DEF Import, net, history
<1>4. wire' \in [Device -> [Device -> Seq(F)]]
  BY <1>1, <1>3 DEF Traced
<1>5. QED
  BY <1>1, <1>2, <1>3, <1>4, MergeStep

(* The notes are copied into a file, or one of them into an editor.         *)
LEMMA ReadStep ==
    ASSUME Inv, NEW d \in Device,
           \/ Export(d) \/ (\E n \in notes[d] : Open(d, n))
           \/ (\E P \in SUBSET Device : select_peers(d, P))
    PROVE  (\E B, G : Traced(B, G)') /\ AllCarried(notes, History)' /\ Forward
<1>1. PICK A, F : Traced(A, F)
  BY DEF Inv
<1>2. /\ notes \in [Device -> SUBSET A] /\ IsFiniteSet(notes[d])
      /\ AllCarried(notes, History)
  BY <1>1 DEF Traced, Sound, Inv
<1>3. /\ UNCHANGED <<notes, counter, written, replaced, copied>> /\ wire' = wire
      /\ backup' \in {backup, notes[d]}
  BY DEF Export, Open, select_peers, Fault, net, history
<1>4. wire' \in [Device -> [Device -> Seq(F)]] /\ \A f \in F : Legal(f, A)
  BY <1>1, <1>3 DEF Traced
<1>5. backup' \subseteq A /\ IsFiniteSet(backup')
  BY <1>1, <1>2, <1>3 DEF Traced
<1>6. ASSUME NEW e \in Device, editor'[e] # NoNote
      PROVE  editor'[e] \in A /\ ~editor'[e].deleted
  <2>1. CASE editor' = editor
    BY <1>1, <1>6, <2>1 DEF Traced
  <2>2. CASE \E n \in notes[d] : Open(d, n)
    <3>1. PICK n \in notes[d] : ~n.deleted /\ editor' = [editor EXCEPT ![d] = n]
      BY <2>2 DEF Open
    <3>2. editor'[e] \in {editor[e], n}
      BY <3>1 DEF Inv, Bookkeeping
    <3>3. QED
      BY <1>1, <1>2, <1>6, <3>1, <3>2 DEF Traced
  <2>3. QED
    BY <2>1, <2>2 DEF Export, select_peers
<1>7. QED
  BY <1>1, <1>2, <1>3, <1>4, <1>5, <1>6, QuietStep

-----------------------------------------------------------------------------
(* The synchronisation.                                                     *)

(* The image of a finite set is finite.                                     *)
LEMMA ImageFinite ==
    ASSUME NEW S, IsFiniteSet(S), NEW f
    PROVE  IsFiniteSet({f[x] : x \in S})
<1> DEFINE T == {f[x] : x \in S}
           g == [x \in S |-> f[x]]
<1>1. g \in Surjection(S, T)
  BY DEF Surjection
<1>2. QED
  BY <1>1, FS_Surjection DEF ExistsSurjection

(* The frame that is handled is one that was sent.                          *)
LEMMA FrameKnown ==
    ASSUME NEW A, NEW F, Traced(A, F), NEW d \in Device, NEW e \in Device, NEW kind,
           Incoming(e, d, kind)
    PROVE  /\ Frame(e, d) \in F /\ Frame(e, d).kind = kind /\ Legal(Frame(e, d), A)
           /\ wire[e][d] # <<>>
  BY DEF Traced, Incoming, Frame

(* What is under way after a frame has been answered.                       *)
LEMMA AnsweredFrames ==
    ASSUME NEW F, NEW G, wire \in [Device -> [Device -> Seq(F)]], F \subseteq G,
           NEW d \in Device, NEW e \in Device \ {d}, wire[e][d] # <<>>,
           NEW frames \in Seq(G), Answered(e, d, frames)
    PROVE  wire' \in [Device -> [Device -> Seq(G)]]
<1>1. \A q \in Seq(F) : q \in Seq(G)
  OBVIOUS
<1>2. wire \in [Device -> [Device -> Seq(G)]]
  BY <1>1
<1>3. Tail(wire[e][d]) \in Seq(G)
  BY <1>2
<1>4. wire[d][e] \in Seq(G) /\ wire[d][e] \o frames \in Seq(G)
  BY <1>2
<1> DEFINE a == Tail(wire[e][d])
           b == IF e \in peers[d] THEN wire[d][e] \o frames ELSE wire[d][e]
<1>5. a \in Seq(G) /\ b \in Seq(G)
  BY <1>3, <1>4
<1>6. wire' = [wire EXCEPT ![e][d] = a, ![d][e] = b]
  BY <1>2 DEF Answered
<1> HIDE DEF a, b
<1>7. QED
  BY <1>2, <1>5, <1>6

(* The notes that are asked for, in portions.                               *)
LEMMA RequestsAre ==
    ASSUME NEW ids, IsFiniteSet(ids)
    PROVE  \E G : Requests(ids) \in Seq(G) /\ \A f \in G : f.kind = "note_request"
<1> DEFINE q == SetToSeq(ids)
           n == (Len(q) + BatchSize - 1) \div BatchSize
           R(k) == NoteRequest(ToSet(SubSeq(q, (k - 1) * BatchSize + 1,
                       IF k * BatchSize < Len(q) THEN k * BatchSize ELSE Len(q))))
           G == {R(k) : k \in 1 .. n}
<1>1. Len(q) \in Nat
  BY SequenceOfSet
<1>2. n \in Int
  <2> HIDE DEF q
  <2>1. QED
    BY <1>1
<1>3. Requests(ids) = [k \in 1 .. n |-> R(k)]
  BY DEF Requests
<1>4. \A f \in G : f.kind = "note_request"
  BY DEF NoteRequest
<1> HIDE DEF R, n
<1>5. [k \in 1 .. n |-> R(k)] \in Seq(G)
  <2>1. CASE n \in Nat
    BY <2>1
  <2>2. CASE n < 0
    <3>1. 1 .. n = {}
      BY <1>2, <2>2
    <3>2. 1 .. 0 = {}
      OBVIOUS
    <3>3. [k \in 1 .. n |-> R(k)] = [k \in 1 .. 0 |-> R(k)]
      BY <3>1, <3>2
    <3>4. [k \in 1 .. 0 |-> R(k)] \in Seq(G)
      BY <3>2
    <3>5. QED
      BY <3>3, <3>4
  <2>3. QED
    BY <1>2, <2>1, <2>2
<1> HIDE DEF G
<1>6. QED
  BY <1>3, <1>4, <1>5

(* A step that only sends, answers or drops frames.                         *)
LEMMA FramesStep ==
    ASSUME Inv, NEW A, NEW F, NEW G, Traced(A, F),
           UNCHANGED <<notes, counter, editor, backup, written, replaced, copied>>,
           wire' \in [Device -> [Device -> Seq(F \cup G)]], \A f \in G : Legal(f, A)
    PROVE  (\E B, H : Traced(B, H)') /\ AllCarried(notes, History)' /\ Forward
<1>1. \A f \in F \cup G : Legal(f, A)
  BY DEF Traced
<1>2. /\ \A e \in Device : editor'[e] # NoNote => editor'[e] \in A /\ ~editor'[e].deleted
      /\ backup' \subseteq A /\ IsFiniteSet(backup')
      /\ AllCarried(notes, History)
  BY DEF Traced, Inv
<1>3. QED
  BY <1>1, <1>2, QuietStep

(* An index is sent.                                                        *)
LEMMA SendStep ==
    ASSUME Inv, NEW d \in Device, NEW e \in Device \ {d}, SendIndex(d, e)
    PROVE  (\E B, H : Traced(B, H)') /\ AllCarried(notes, History)' /\ Forward
<1> DEFINE f == NoteIndex(Versions(notes[d]))
           G == {f}
<1>1. PICK A, F : Traced(A, F)
  BY DEF Inv
<1>2. IsFiniteSet(Versions(notes[d]))
  <2>1. IsFiniteSet(notes[d])
    BY <1>1 DEF Traced, Sound
  <2> DEFINE v == [n \in notes[d] |-> [id |-> n.id, clock |-> n.clock]]
  <2>2. Versions(notes[d]) = {v[n] : n \in notes[d]}
    BY DEF Versions
  <2> HIDE DEF v
  <2>3. QED
    BY <2>1, <2>2, ImageFinite
<1>3. Legal(f, A)
  BY <1>2 DEF Legal, NoteIndex
<1>4. /\ UNCHANGED <<notes, counter, editor, backup, written, replaced, copied>>
      /\ wire' = [wire EXCEPT ![d][e] = Append(@, f)]
  BY DEF SendIndex, history
<1> HIDE DEF f
<1>5. wire' \in [Device -> [Device -> Seq(F \cup G)]]
  <2>1. wire \in [Device -> [Device -> Seq(F \cup G)]]
    BY <1>1 DEF Traced
  <2>2. Append(wire[d][e], f) \in Seq(F \cup G)
    BY <2>1
  <2>3. QED
    BY <1>4, <2>1, <2>2
<1>6. \A g \in G : Legal(g, A)
  BY <1>3
<1> HIDE DEF G
<1>7. QED
  BY <1>1, <1>4, <1>5, <1>6, FramesStep

(* The versions that are needed are asked for.                              *)
LEMMA IndexStep ==
    ASSUME Inv, NEW d \in Device, NEW e \in Device \ {d}, HandleIndex(e, d)
    PROVE  (\E B, H : Traced(B, H)') /\ AllCarried(notes, History)' /\ Forward
<1> DEFINE ids == needed(notes[d], Frame(e, d).versions)
<1>1. PICK A, F : Traced(A, F)
  BY DEF Inv
<1>2. Legal(Frame(e, d), A) /\ Frame(e, d).kind = "note_index" /\ wire[e][d] # <<>>
  BY <1>1, FrameKnown DEF HandleIndex
<1>3. IsFiniteSet(ids)
  <2> DEFINE V == Frame(e, d).versions
             W == {x \in V : Has(notes[d], x.id) => ~dominates(Get(notes[d], x.id).clock, x.clock)}
  <2>1. IsFiniteSet(V)
    BY <1>2 DEF Legal
  <2>2. IsFiniteSet(W)
    <3> HIDE DEF V
    <3>1. QED
      BY <2>1, FS_Subset, W \in SUBSET V
  <2> DEFINE i == [v \in W |-> v.id]
  <2>3. ids = {i[v] : v \in W}
    BY DEF needed
  <2> HIDE DEF W, ids, i
  <2>4. QED
    BY <2>2, <2>3, ImageFinite
<1>4. /\ UNCHANGED <<notes, counter, editor, backup, written, replaced, copied>>
      /\ Answered(e, d, Requests(ids))
  BY DEF HandleIndex, history
<1> HIDE DEF ids
<1>5. PICK G : Requests(ids) \in Seq(G) /\ \A f \in G : f.kind = "note_request"
  BY <1>3, RequestsAre
<1>6. \A f \in G : Legal(f, A)
  BY <1>5 DEF Legal
<1>7. wire' \in [Device -> [Device -> Seq(F \cup G)]]
  <2>1. Requests(ids) \in Seq(F \cup G)
    BY <1>5
  <2>2. wire \in [Device -> [Device -> Seq(F)]] /\ F \subseteq F \cup G
    BY <1>1 DEF Traced
  <2>3. QED
    BY <1>2, <1>4, <2>1, <2>2, AnsweredFrames
<1>8. QED
  BY <1>1, <1>4, <1>6, <1>7, FramesStep

(* The notes that were asked for are sent.                                  *)
LEMMA RequestStep ==
    ASSUME Inv, NEW d \in Device, NEW e \in Device \ {d}, HandleRequest(e, d)
    PROVE  (\E B, H : Traced(B, H)') /\ AllCarried(notes, History)' /\ Forward
<1> DEFINE S == {n \in notes[d] : n.id \in Frame(e, d).ids}
           f == NoteBatch(SetToSeq(S))
           G == {f}
<1>1. PICK A, F : Traced(A, F)
  BY DEF Inv
<1>2. wire[e][d] # <<>>
  BY <1>1, FrameKnown DEF HandleRequest
<1>3. IsFiniteSet(S) /\ S \subseteq A
  <2>1. IsFiniteSet(notes[d]) /\ notes[d] \subseteq A
    BY <1>1 DEF Traced, Sound
  <2>2. QED
    BY <2>1, FS_Subset, S \in SUBSET notes[d]
<1>4. /\ UNCHANGED <<notes, counter, editor, backup, written, replaced, copied>>
      /\ Answered(e, d, <<f>>)
  BY DEF HandleRequest, history
<1>5. Legal(f, A)
  <2> HIDE DEF S
  <2>1. SetToSeq(S) \in Seq(A)
    <3>1. SetToSeq(S) \in Seq(S)
      BY <1>3, SequenceOfSet
    <3>2. QED
      BY <1>3, <3>1
  <2>2. QED
    BY <2>1 DEF Legal, NoteBatch
<1> HIDE DEF f
<1>6. wire' \in [Device -> [Device -> Seq(F \cup G)]]
  <2>1. <<f>> \in Seq(F \cup G)
    OBVIOUS
  <2>2. wire \in [Device -> [Device -> Seq(F)]] /\ F \subseteq F \cup G
    BY <1>1 DEF Traced
  <2>3. QED
    BY <1>2, <1>4, <2>1, <2>2, AnsweredFrames
<1>7. \A g \in G : Legal(g, A)
  BY <1>5
<1> HIDE DEF G
<1>8. QED
  BY <1>1, <1>4, <1>6, <1>7, FramesStep

(* A batch is merged; one from a peer that is not selected is dropped.      *)
LEMMA BatchStep ==
    ASSUME Inv, NEW d \in Device, NEW e \in Device \ {d}, HandleBatch(e, d)
    PROVE  (\E B, H : Traced(B, H)') /\ AllCarried(notes, History)' /\ Forward
<1> DEFINE batch == Frame(e, d).batch
<1>1. PICK A, F : Traced(A, F)
  BY DEF Inv
<1>2. Legal(Frame(e, d), A) /\ Frame(e, d).kind = "note_batch" /\ wire[e][d] # <<>>
  BY <1>1, FrameKnown DEF HandleBatch
<1>3. batch \in Seq(A)
  BY <1>2 DEF Legal
<1>4. /\ UNCHANGED <<counter, editor, backup, written, replaced, copied>>
      /\ wire' = [wire EXCEPT ![e][d] = Tail(@)]
      /\ notes' = IF e \in peers[d] THEN [notes EXCEPT ![d] = Merged(notes[d], batch).notes]
                  ELSE notes
  BY DEF HandleBatch, history
<1> HIDE DEF batch
<1>5. wire' \in [Device -> [Device -> Seq(F)]]
  <2>1. wire \in [Device -> [Device -> Seq(F)]]
    BY <1>1 DEF Traced
  <2>2. Tail(wire[e][d]) \in Seq(F)
    BY <1>2, <2>1
  <2>3. QED
    BY <1>4, <2>1, <2>2
<1>6. CASE e \in peers[d]
  BY <1>1, <1>3, <1>4, <1>5, <1>6, MergeStep
<1>7. CASE e \notin peers[d]
  <2> DEFINE G == {}
  <2>1. wire' \in [Device -> [Device -> Seq(F \cup G)]]
    BY <1>5
  <2>2. /\ UNCHANGED <<notes, counter, editor, backup, written, replaced, copied>>
        /\ \A f \in G : Legal(f, A)
    BY <1>4, <1>7
  <2> HIDE DEF G
  <2>3. QED
    BY <1>1, <2>1, <2>2, FramesStep
<1>8. QED
  BY <1>6, <1>7

(* A session ends or begins; what was under way is lost with it.            *)
LEMMA SessionStep ==
    ASSUME Inv,
           \/ \E d, e \in Device : RefuseBatch(e, d)
           \/ \E p \in Pair : Connect(p) \/ Disconnect(p)
    PROVE  (\E B, H : Traced(B, H)') /\ AllCarried(notes, History)' /\ Forward
<1>1. PICK A, F : Traced(A, F)
  BY DEF Inv
<1>2. UNCHANGED <<notes, counter, editor, backup, written, replaced, copied>>
  BY DEF RefuseBatch, Connect, Disconnect, Fault, history
<1>3. wire \in [Device -> [Device -> Seq(F)]]
  BY <1>1 DEF Traced
<1>4. wire' \in [Device -> [Device -> Seq(F)]]
  <2>1. CASE \E p \in Pair : Connect(p)
    BY <1>3, <2>1 DEF Connect
  <2>2. ASSUME NEW p, Close(p) PROVE wire' \in [Device -> [Device -> Seq(F)]]
    BY <1>3, <2>2 DEF Close
  <2>3. QED
    BY <2>1, <2>2 DEF RefuseBatch, Disconnect
<1> DEFINE G == {}
<1>5. wire' \in [Device -> [Device -> Seq(F \cup G)]]
  BY <1>4
<1>6. \A f \in G : Legal(f, A)
  OBVIOUS
<1> HIDE DEF G
<1>7. QED
  BY <1>1, <1>2, <1>5, <1>6, FramesStep

-----------------------------------------------------------------------------
(* The theorems.                                                            *)

(* The invariant holds when nothing has been written.                       *)
LEMMA InvariantInit ==
    Init => Inv
<1> SUFFICES ASSUME Init PROVE Inv
  OBVIOUS
<1>1. Bookkeeping
  BY DEF Init, Bookkeeping
<1>2. Sound(notes, History, {})
  BY FS_EmptySet DEF Init, Sound, Unique
<1>3. IsFiniteSet({})
  BY FS_EmptySet
<1>4. wire \in [Device -> [Device -> Seq({})]]
  BY DEF Init
<1>5. Traced({}, {})
  BY <1>2, <1>3, <1>4 DEF Init, Traced
<1>6. AllCarried(notes, History)
  BY DEF Init, AllCarried, History
<1>7. QED
  BY <1>1, <1>5, <1>6 DEF Inv

(* The counters and the record of what users did.                           *)
LEMMA BookkeepingStep ==
    ASSUME Inv, Next
    PROVE  Bookkeeping'
<1>1. PICK A, F : Traced(A, F)
  BY DEF Inv
<1>2. Bookkeeping
  BY DEF Inv
<1>3. /\ notes \in [Device -> SUBSET A]
      /\ \A m \in A : m.clock \in [Device -> Nat] /\ m.body \in 0 .. written
  BY <1>1 DEF Traced, Sound, WellFormed, Clock, History
<1>4. ASSUME NEW d \in Device, NEW clock \in [Device -> Nat]
      PROVE  [counter EXCEPT ![d] = Tick(d, clock)] \in [Device -> Nat]
  BY <1>2 DEF Bookkeeping, Tick
<1>5. ASSUME NEW d \in Device, CreateNote(d) PROVE Bookkeeping'
  <2>1. NoClock \in [Device -> Nat]
    BY DEF NoClock
  <2>2. counter' \in [Device -> Nat]
    BY <1>4, <1>5, <2>1 DEF CreateNote
  <2>3. written' \in 0 .. MaxSaves /\ written \in Nat /\ written' = written + 1
    BY <1>2, <1>5 DEF CreateNote, Bookkeeping
  <2>4. /\ editor' = editor /\ peers' = peers /\ session' = session
        /\ replaced' = replaced /\ copied' = copied
    BY <1>5 DEF CreateNote, net
  <2>5. QED
    BY <1>2, <2>2, <2>3, <2>4 DEF Bookkeeping
<1>6. ASSUME NEW d \in Device, NEW n \in Shown(d), NEW m, Current(d, n), Store(d, n, m),
             m.clock = n.clock, written' \in {written, written + 1}, written' <= MaxSaves,
             copied' \subseteq copied \cup {written'}, written' # written \/ copied' = copied,
             UNCHANGED <<peers, session>>
      PROVE  Bookkeeping'
  <2>1. n \in A
    BY <1>1, <1>6, CurrentIs
  <2>2. counter' \in [Device -> Nat]
    BY <1>3, <1>4, <1>6, <2>1 DEF Store
  <2>3. /\ written \in Nat /\ written' \in 0 .. MaxSaves /\ written <= written'
        /\ written' # written => written' \in 1 .. written'
    BY <1>2, <1>6 DEF Bookkeeping
  <2>4. replaced' \subseteq 0 .. written' /\ copied' \subseteq 1 .. written'
    BY <1>2, <1>3, <1>6, <2>1, <2>3 DEF Bookkeeping, Store
  <2>5. DOMAIN editor' = Device
    BY <1>2, <1>6 DEF Bookkeeping, Store
  <2>6. QED
    BY <1>2, <1>6, <2>2, <2>3, <2>4, <2>5 DEF Bookkeeping
<1>7. ASSUME NEW d \in Device, NEW n \in Shown(d), Save(d, n) PROVE Bookkeeping'
  <2> DEFINE m == [n EXCEPT !.body = written']
  <2>1. /\ Current(d, n) /\ Store(d, n, m) /\ m.clock = n.clock
        /\ written' = written + 1 /\ written < MaxSaves
        /\ copied' \in {copied, copied \cup {written'}}
        /\ UNCHANGED <<peers, session>>
    BY <1>7 DEF Save, net
  <2>2. written' # written /\ written' <= MaxSaves
    BY <1>2, <2>1 DEF Bookkeeping
  <2> HIDE DEF m
  <2>3. QED
    BY <1>6, <2>1, <2>2
<1>8. ASSUME NEW d \in Device, NEW n \in Shown(d), Delete(d, n) PROVE Bookkeeping'
  <2> DEFINE m == [n EXCEPT !.body = 0, !.deleted = TRUE]
  <2>1. /\ Current(d, n) /\ Store(d, n, m) /\ m.clock = n.clock
        /\ written' = written /\ copied' = copied
        /\ UNCHANGED <<peers, session>>
    BY <1>8 DEF Delete, net
  <2>2. written' <= MaxSaves
    BY <1>2, <2>1 DEF Bookkeeping
  <2> HIDE DEF m
  <2>3. QED
    BY <1>6, <2>1, <2>2
<1>9. ASSUME NEW d \in Device, NEW S \in SUBSET {n \in notes[d] : ~n.deleted},
             NEW q \in SetToSeqs(S), Reorder(d, q)
      PROVE  Bookkeeping'
  <2> DEFINE w == MovedUpTo(d, q)[Len(q)]
  <2>1. Sound(notes, History, A) /\ HistoryOK(History) /\ IsFiniteSet(notes[d])
    BY <1>1, <1>2 DEF Traced, Sound, Bookkeeping, HistoryOK, History
  <2>2. q \in Seq({n \in notes[d] : ~n.deleted})
    <3>1. IsFiniteSet(S)
      BY <2>1, FS_Subset, S \in SUBSET notes[d]
    <3>2. q \in Seq(S)
      BY <3>1, SequenceOfSet
    <3>3. QED
      BY <3>2
  <2>3. w.counter \in Nat
    BY <2>1, <2>2, MovedSound
  <2>4. counter' = [counter EXCEPT ![d] = w.counter]
    BY <1>9 DEF Reorder
  <2>5. UNCHANGED <<editor, peers, session, written, replaced, copied>>
    BY <1>9 DEF Reorder, net
  <2> HIDE DEF w
  <2>6. QED
    BY <1>2, <2>3, <2>4, <2>5 DEF Bookkeeping
<1>10. ASSUME NEW d \in Device,
              \/ Export(d) \/ Import(d)
              \/ \E n \in notes[d] : Open(d, n)
              \/ \E P \in SUBSET Device : select_peers(d, P)
       PROVE  Bookkeeping'
  <2>1. UNCHANGED <<counter, session, written, replaced, copied>>
    BY <1>10 DEF Export, Import, Open, select_peers, net, history
  <2>2. DOMAIN editor' = Device
    BY <1>2, <1>10 DEF Export, Import, Open, select_peers, Bookkeeping
  <2>3. peers' \in [Device -> SUBSET Device] /\ \A e \in Device : e \notin peers'[e]
    <3>1. CASE peers' = peers
      BY <1>2, <3>1 DEF Bookkeeping
    <3>2. CASE \E P \in SUBSET Device : select_peers(d, P)
      <4>1. PICK P \in SUBSET Device : d \notin P /\ peers' = [peers EXCEPT ![d] = P]
        BY <3>2 DEF select_peers
      <4>2. QED
        BY <1>2, <4>1 DEF Bookkeeping
    <3>3. QED
      BY <1>10, <3>1, <3>2 DEF Export, Import, Open
  <2>4. QED
    BY <1>2, <2>1, <2>2, <2>3 DEF Bookkeeping
<1>11. ASSUME NEW d \in Device, NEW e \in Device \ {d},
              SendIndex(d, e) \/ HandleIndex(e, d) \/ HandleRequest(e, d) \/ HandleBatch(e, d)
       PROVE  Bookkeeping'
  <2>1. UNCHANGED <<counter, peers, editor, session, written, replaced, copied>>
    BY <1>11 DEF SendIndex, HandleIndex, HandleRequest, HandleBatch, history
  <2>2. QED
    BY <1>2, <2>1 DEF Bookkeeping
<1>12. ASSUME \/ \E d, e \in Device : RefuseBatch(e, d)
              \/ \E p \in Pair : Connect(p) \/ Disconnect(p)
       PROVE  Bookkeeping'
  <2>1. UNCHANGED <<counter, peers, editor, written, replaced, copied>>
    BY <1>12 DEF RefuseBatch, Connect, Disconnect, history
  <2>2. session' \in [Pair -> BOOLEAN]
    <3>1. \A p : Close(p) => session' \in [Pair -> BOOLEAN]
      BY <1>2 DEF Close, Bookkeeping
    <3>2. \A p : Connect(p) => session' \in [Pair -> BOOLEAN]
      BY <1>2 DEF Connect, Bookkeeping
    <3>3. QED
      BY <1>12, <3>1, <3>2 DEF RefuseBatch, Disconnect
  <2>3. QED
    BY <1>2, <2>1, <2>2 DEF Bookkeeping
<1>13. QED
  BY <1>5, <1>7, <1>8, <1>9, <1>10, <1>11, <1>12 DEF Next, UserCommand, Handle

(* Every step keeps the invariant, and takes no note back.                  *)
LEMMA InvariantStep ==
    Inv /\ [Next]_vars => Inv' /\ Forward
<1> SUFFICES ASSUME Inv, [Next]_vars PROVE Inv' /\ Forward
  OBVIOUS
<1> DEFINE Goal == (\E B, G : Traced(B, G)') /\ AllCarried(notes, History)' /\ Forward
<1>1. ASSUME Next PROVE Goal
  <2>1. ASSUME NEW d \in Device, CreateNote(d) PROVE Goal
    BY <2>1, CreateStep
  <2>2. ASSUME NEW d \in Device, NEW n \in Shown(d), Save(d, n) \/ Delete(d, n) PROVE Goal
    BY <2>2, EditStep
  <2>3. ASSUME NEW d \in Device, NEW S \in SUBSET {n \in notes[d] : ~n.deleted},
               NEW q \in SetToSeqs(S), Reorder(d, q)
        PROVE  Goal
    BY <2>3, ReorderStep
  <2>4. ASSUME NEW d \in Device, Import(d) PROVE Goal
    BY <2>4, ImportStep
  <2>5. ASSUME NEW d \in Device,
               \/ Export(d) \/ (\E n \in notes[d] : Open(d, n))
               \/ (\E P \in SUBSET Device : select_peers(d, P))
        PROVE  Goal
    BY <2>5, ReadStep
  <2>6. ASSUME NEW d \in Device, NEW e \in Device \ {d}, SendIndex(d, e) PROVE Goal
    BY <2>6, SendStep
  <2>7. ASSUME NEW d \in Device, NEW e \in Device \ {d}, HandleIndex(e, d) PROVE Goal
    BY <2>7, IndexStep
  <2>8. ASSUME NEW d \in Device, NEW e \in Device \ {d}, HandleRequest(e, d) PROVE Goal
    BY <2>8, RequestStep
  <2>9. ASSUME NEW d \in Device, NEW e \in Device \ {d}, HandleBatch(e, d) PROVE Goal
    BY <2>9, BatchStep
  <2>10. ASSUME \/ \E d, e \in Device : RefuseBatch(e, d)
                \/ \E p \in Pair : Connect(p) \/ Disconnect(p)
         PROVE  Goal
    BY <2>10, SessionStep
  <2> HIDE DEF Goal
  <2>11. QED
    BY <1>1, <2>1, <2>2, <2>3, <2>4, <2>5, <2>6, <2>7, <2>8, <2>9, <2>10
       DEF Next, UserCommand, Handle
<1>2. CASE Next
  <2>1. Bookkeeping'
    BY <1>2, BookkeepingStep
  <2>2. QED
    BY <1>1, <1>2, <2>1 DEF Inv
<1>3. CASE UNCHANGED vars
  <2>1. UNCHANGED <<notes, counter, peers, editor, backup, session, wire, written, replaced,
                    copied>>
    BY <1>3 DEF vars, net, history
  <2>2. History' = History
    BY <2>1 DEF History
  <2>3. Forward
    BY <2>1, AdvancesSame DEF Inv, Traced, Forward
  <2>4. Bookkeeping'
    BY <2>1 DEF Inv, Bookkeeping
  <2>5. \E B, G : Traced(B, G)'
    BY <2>1, <2>2 DEF Inv, Traced
  <2>6. AllCarried(notes, History)'
    BY <2>1, <2>2 DEF Inv
  <2>7. QED
    BY <2>3, <2>4, <2>5, <2>6 DEF Inv
<1>4. QED
  BY <1>2, <1>3

(* The invariant holds in every reachable state.                            *)
LEMMA Invariant ==
    Spec => []Inv
  BY InvariantInit, InvariantStep, PTL DEF Spec

(* The type invariant.                                                      *)
THEOREM TypeCorrect ==
    Spec => []TypeOK
<1>1. Inv => TypeOK
  <2> SUFFICES ASSUME Inv PROVE TypeOK
    OBVIOUS
  <2>1. PICK A, F : Traced(A, F)
    BY DEF Inv
  <2>2. /\ notes \in [Device -> SUBSET A]
        /\ \A d \in Device : Cardinality(notes[d]) <= MaxNotes /\ Unique(notes[d])
        /\ \A n \in A : WellFormed(n, History)
    BY <2>1 DEF Traced, Sound
  <2>3. AllNotes \subseteq A
    BY <2>2 DEF AllNotes
  <2>4. \A n \in AllNotes : /\ n.clock \in Clock /\ n.body \in 0 .. written
                            /\ \A d \in Device : n.clock[d] <= counter[d]
    BY <2>2, <2>3 DEF WellFormed, History
  <2>5. /\ \A d \in Device : peers[d] \subseteq Device \ {d}
        /\ written \in 0 .. MaxSaves /\ replaced \subseteq 0 .. written
        /\ copied \subseteq 1 .. written /\ session \in [Pair -> BOOLEAN]
    BY DEF Inv, Bookkeeping
  <2>6. QED
    BY <2>2, <2>4, <2>5 DEF TypeOK, Unique
<1>2. QED
  BY <1>1, Invariant, PTL

(* What a user writes into a note stays on some device until a user         *)
(* replaces or deletes it, whatever is merged, in whatever order.           *)
THEOREM OriginalsAreKept ==
    Spec => []OriginalsKept
<1>1. Inv => OriginalsKept
  <2> SUFFICES ASSUME Inv, NEW b \in (1 .. written) \ copied PROVE Kept(b)
    BY DEF OriginalsKept
  <2>1. PICK A, F : Traced(A, F)
    BY DEF Inv
  <2>2. /\ notes \in [Device -> SUBSET A]
        /\ \A n \in A : IsCopy(n) => CopyMakesSense(n, History)
    BY <2>1 DEF Traced, Sound
  <2>3. \A d \in Device : notes[d] \subseteq AllNotes /\ notes[d] \subseteq A
    BY <2>2 DEF AllNotes
  <2>4. Carried(notes, History, b)
    BY DEF Inv, AllCarried, History
  <2>5. CASE \E d \in Device : \E n \in notes[d] : ~IsCopy(n) /\ n.body = b
    BY <2>3, <2>5 DEF Kept
  <2>6. CASE b \in replaced
    BY <2>6 DEF Kept
  <2>7. CASE \E d \in Device : \E n \in notes[d] : IsCopy(n) /\ n.id[2].body = b
    <3>1. PICK d \in Device : \E n \in notes[d] : IsCopy(n) /\ n.id[2].body = b
      BY <2>7
    <3>2. PICK n \in notes[d] : IsCopy(n) /\ n.id[2].body = b
      BY <3>1
    <3>3. CopyMakesSense(n, History)
      BY <2>2, <3>2
    <3>4. n.body = b \/ b \in replaced
      BY <3>2, <3>3 DEF CopyMakesSense, History
    <3>5. QED
      BY <2>3, <3>2, <3>4 DEF Kept
  <2>8. QED
    BY <2>4, <2>5, <2>6, <2>7 DEF Carried, Held, History
<1>2. QED
  BY <1>1, Invariant, PTL

(* No merge brings a deleted note back, and no reordering does.             *)
THEOREM DeletionsStay ==
    Spec => DeletedStaysDeleted
<1>1. Inv /\ [Next]_vars =>
         [\A d \in Device : \A n \in notes[d] :
            n.deleted /\ ~IsCopy(n) => \E m \in notes'[d] : m.id = n.id /\ m.deleted]_vars
  BY InvariantStep DEF Forward, Advances
<1>2. QED
  BY <1>1, Invariant, PTL DEF Spec, DeletedStaysDeleted

(* No merge takes a note of a device back to an older version.              *)
THEOREM VersionsOnlyGrow ==
    Spec => VersionsGrow
<1>1. Inv /\ [Next]_vars =>
         [\A d \in Device : \A n \in {m \in notes[d] : ~IsCopy(m)} :
            \E m \in notes'[d] : m.id = n.id /\ dominates(m.clock, n.clock)]_vars
  BY InvariantStep DEF Forward, Advances
<1>2. QED
  BY <1>1, Invariant, PTL DEF Spec, VersionsGrow
=============================================================================
