----------------------- MODULE ConversationStoreProofs -----------------------
(***************************************************************************)
(* Proofs about ConversationStore for every set of sessions, callers and   *)
(* blobs and every bound.  IInv is an inductive invariant whose parts say  *)
(* what a caller knows at each point of its write, what a pin, the lock    *)
(* and the eviction order mean, and what keeps a checkpoint that was       *)
(* answered Saved on disk, whatever clock each call has read.  The         *)
(* eviction order is a recursive function of a sequence: facts about it    *)
(* are proved by induction over its length (SetInduction).                 *)
(***************************************************************************)
EXTENDS ConversationStore, FiniteSetTheorems, WellFoundedInduction, TLAPS

-----------------------------------------------------------------------------
(* The inductive invariant.                                                 *)

Before == {"flush", "flushing", "lookup", "normalize", "reread", "pin"}
Running == {"driving", "ending", "merging", "leaving", "rollback"}
Persisting == {"persist", "locked", "writing", "rollback"}
Locking == {"flushing", "locked", "writing"}

\* What a caller k knows, of the first n checkpoints.  Only a driver holds a
\* lease, and only its own writes are conditional; the checkpoints it handles
\* are those of its binding.
Knows(k, n) ==
  /\ k.at = "idle" => k = Idle(k.since)
  /\ k.at # "idle" => k.session \in Sessions
  /\ k.at \in Before => ~k.leased /\ k.checkpoint = NoCheckpoint
  /\ k.at \in Running => k.leased
  /\ k.at \in Persisting =>
       /\ k.op \in Unconditional \cup Conditional
       /\ k.op \in Conditional => k.leased
       /\ k.op \in Conditional \ {"merge"} => k.previous.of \in {0, k.id}
       /\ k.op \in {"create", "rotate"} => ~k.leased
       /\ k.op \in Saves => k.checkpoint # NoCheckpoint
  /\ k.at = "rollback" => k.op \in Conditional
  /\ k.checkpoint.of \in {0, k.id} /\ k.checkpoint.n <= n
  /\ k.snap # NoEntry <=> k.at = "writing"
  /\ k.at = "writing" /\ k.op \in Conditional => k.snap.id = k.id
CallerSound(c) == Knows(caller[c], nextSave)

\* No two callers hold the same checkpoint.
CheckpointsDistinct ==
  \A b, c \in Callers :
    b # c /\ caller[b].checkpoint # NoCheckpoint => caller[b].checkpoint.n # caller[c].checkpoint.n

\* A pin counts the leases of its session.
Holders(s) == {c \in Callers : caller[c].leased /\ caller[c].session = s}
PinsCount == \A s \in Sessions : pins[s] = Cardinality(Holders(s))

\* PERSIST_WRITE_LOCK excludes.
LockExcludes == \A c \in Callers : caller[c].at \in Locking => lock = c

\* Sequence o names nothing twice.
Once(o) == \A i, j \in 1..Len(o) : o[i] = o[j] => i = j

\* Sequence o lists the resident sessions of m, each once.
Lists(o, m) ==
  /\ o \in Seq(Sessions)
  /\ \A s \in Sessions : m[s] # NoEntry <=> \E i \in 1..Len(o) : o[i] = s
  /\ Once(o)

\* The bindings of session s outside the map: its file and the snapshots
\* under way.
Copies(s) ==
  ({disk[s]} \cup {caller[c].snap : c \in {d \in Callers : caller[d].session = s}}) \ {NoEntry}
Bindings(s) == Copies(s) \cup ({map[s]} \ {NoEntry})

\* A conversation id was given out and belongs to one session, and a binding
\* has a checkpoint of its own id.
BindingsSound ==
  /\ \A s \in Sessions : \A e \in Bindings(s) : e.id <= nextId /\ e.checkpoint.of \in {0, e.id}
  /\ \A s, t \in Sessions : \A e \in Bindings(s), f \in Bindings(t) : e.id = f.id => s = t

\* What a write has put in the map, and what its rollback would restore.
Written(k) == IF k.op \in Saves THEN k.checkpoint ELSE NoCheckpoint
Restoring(k) == k.at \in Persisting /\ k.op \in Conditional \ {"merge"}

\* The checkpoints R that the binding of s has or that rollbacks can bring
\* back are not older than checkpoint n.
Restorable(s, n, R) ==
  /\ map[s].checkpoint \in R
  /\ \A v \in R : v.n >= n
  /\ \A c \in Callers :
       Restoring(caller[c]) /\ caller[c].session = s /\ Written(caller[c]) \in R =>
         caller[c].previous \in R

\* The deletes that are still to be looked at.
Owed == pending \cup UNION {caller[c].todo : c \in Callers}

\* A binding or snapshot that has the checkpoint v, or a newer one.
Carries(e, v) == e # NoEntry /\ e.id = v.of /\ e.checkpoint.n >= v.n

\* Why a checkpoint that was answered Saved stays on disk.
ClaimSound(s) ==
  saved[s] # NoCheckpoint =>
    /\ Carries(disk[s], saved[s])
    /\ \A c \in Callers : caller[c].snap # NoEntry /\ caller[c].session = s =>
         Carries(caller[c].snap, saved[s])
    /\ map[s] = NoEntry =>
         \A d \in Owed : d.session = s => d.id \notin {0, saved[s].of}
    /\ map[s] # NoEntry =>
         map[s].id = saved[s].of /\ \E R \in SUBSET Checkpoint : Restorable(s, saved[s].n, R)

IInv ==
  /\ TypeOK
  /\ \A c \in Callers : CallerSound(c)
  /\ CheckpointsDistinct
  /\ PinsCount
  /\ LockExcludes
  /\ Lists(order, map)
  /\ PinnedStays
  /\ BindingsSound
  /\ \A s \in Sessions : ClaimSound(s)

-----------------------------------------------------------------------------
(* Induction, and the sessions kept of a sequence.                          *)

\* A set of naturals that holds 0 and the successor of each of its members.
LEMMA SetInduction ==
  ASSUME NEW T \in SUBSET Nat, 0 \in T, \A n \in T : n + 1 \in T
  PROVE  T = Nat
<1> DEFINE R == OpToRel(<, Nat)
<1>1. SUFFICES ASSUME Nat \ T # {} PROVE FALSE
  OBVIOUS
<1>2. IsWellFoundedOn(R, Nat)
  BY NatLessThanWellFounded
<1>3. \A a, b \in Nat : <<a, b>> \in R <=> a < b
  BY DEF OpToRel
<1> HIDE DEF R
<1>4. PICK x \in Nat \ T : \A y \in Nat \ T : ~(<<y, x>> \in R)
  BY <1>1, <1>2, WFMin, Zenon
<1>5. x # 0 /\ x - 1 \in Nat /\ x - 1 < x
  OBVIOUS
<1>6. x - 1 \in T
  BY <1>3, <1>4, <1>5
<1> QED
  BY <1>4, <1>5, <1>6

\* f filters the first n places of o.
Filters(f, o, S, n) ==
  /\ DOMAIN f = 0..n
  /\ f[0] = <<>>
  /\ \A k \in 1..n : f[k] = IF o[k] \in S THEN Append(f[k - 1], o[k]) ELSE f[k - 1]

\* Such a function exists for every prefix.
LEMMA FilterExists ==
  ASSUME NEW o, NEW S
  PROVE  \A n \in Nat : \E f : Filters(f, o, S, n)
<1> DEFINE T == {n \in Nat : \E f : Filters(f, o, S, n)}
<1>1. 0 \in T
  <2> DEFINE f == [k \in 0..0 |-> <<>>]
  <2>1. Filters(f, o, S, 0)
    BY DEF Filters
  <2> QED
    BY <2>1
<1>2. ASSUME NEW n \in T PROVE n + 1 \in T
  <2>1. PICK f : Filters(f, o, S, n)
    OBVIOUS
  <2> DEFINE last == IF o[n + 1] \in S THEN Append(f[n], o[n + 1]) ELSE f[n]
             g == [k \in 0..(n + 1) |-> IF k <= n THEN f[k] ELSE last]
  <2> HIDE DEF last
  <2>2. /\ DOMAIN g = 0..(n + 1) /\ g[n + 1] = last
        /\ \A k \in 0..n : g[k] = f[k]
    OBVIOUS
  <2> HIDE DEF g
  <2>3. g[0] = <<>>
    BY <2>1, <2>2 DEF Filters
  <2>4. \A k \in 1..n : g[k] = IF o[k] \in S THEN Append(g[k - 1], o[k]) ELSE g[k - 1]
    <3> TAKE k \in 1..n
    <3>1. k \in 0..n /\ k - 1 \in 0..n /\ g[k] = f[k] /\ g[k - 1] = f[k - 1]
      BY <2>2
    <3>2. f[k] = IF o[k] \in S THEN Append(f[k - 1], o[k]) ELSE f[k - 1]
      BY <2>1 DEF Filters
    <3> QED
      BY <3>1, <3>2
  <2>5. g[n + 1] = IF o[n + 1] \in S THEN Append(g[(n + 1) - 1], o[n + 1]) ELSE g[(n + 1) - 1]
    BY <2>2 DEF last
  <2>6. Filters(g, o, S, n + 1)
    BY <2>2, <2>3, <2>4, <2>5 DEF Filters
  <2> QED
    BY <2>6
<1> HIDE DEF T
<1>3. T = Nat
  BY <1>1, <1>2, SetInduction DEF T
<1> QED
  BY <1>3 DEF T

\* a names the members of S among the first n places of o.
Collects(a, o, S, n) ==
  \A x : (\E i \in 1..Len(a) : a[i] = x) <=> x \in S /\ \E j \in 1..n : o[j] = x

\* One place more.
LEMMA CollectsNext ==
  ASSUME NEW X, NEW o \in Seq(X), NEW S, NEW n \in Nat, n + 1 <= Len(o), NEW a \in Seq(X),
         Collects(a, o, S, n), Once(o) => Once(a)
  PROVE  LET b == IF o[n + 1] \in S THEN Append(a, o[n + 1]) ELSE a
         IN  b \in Seq(X) /\ Collects(b, o, S, n + 1) /\ (Once(o) => Once(b))
<1> DEFINE y == o[n + 1]
           b == IF y \in S THEN Append(a, y) ELSE a
<1>0. y \in X /\ Len(a) \in Nat /\ Len(o) \in Nat /\ n + 1 \in 1..Len(o)
  OBVIOUS
<1>y. \A x : (\E j \in 1..(n + 1) : o[j] = x) <=> (x = y \/ \E j \in 1..n : o[j] = x)
  <2>1. \A j : j \in 1..(n + 1) <=> j = n + 1 \/ j \in 1..n
    OBVIOUS
  <2> QED
    BY <2>1
<1>1. CASE y \notin S
  <2>1. b = a
    BY <1>1
  <2>2. Collects(b, o, S, n + 1)
    BY <2>1, <1>y, <1>1 DEF Collects
  <2> QED
    BY <2>1, <2>2
<1>2. CASE y \in S
  <2>1. b = Append(a, y)
    BY <1>2
  <2>2. /\ b \in Seq(X) /\ Len(b) = Len(a) + 1 /\ b[Len(a) + 1] = y
        /\ \A i \in 1..Len(a) : b[i] = a[i]
    BY <2>1, <1>0
  <2> HIDE DEF b
  <2>3. \A i : i \in 1..Len(b) <=> i = Len(a) + 1 \/ i \in 1..Len(a)
    BY <2>2, <1>0
  <2>4. \A x : (\E i \in 1..Len(b) : b[i] = x) <=> (x = y \/ \E i \in 1..Len(a) : a[i] = x)
    BY <2>2, <2>3
  <2>5. Collects(b, o, S, n + 1)
    BY <2>4, <1>y, <1>2 DEF Collects
  <2>6. ASSUME Once(o) PROVE Once(b)
    <3>1. \A k \in 1..Len(a) : a[k] # y
      <4> SUFFICES ASSUME NEW k \in 1..Len(a), a[k] = y PROVE FALSE
        OBVIOUS
      <4>1. PICK l \in 1..n : o[l] = y
        BY DEF Collects
      <4>2. l \in 1..Len(o) /\ l # n + 1
        BY <1>0
      <4> QED
        BY <4>1, <4>2, <1>0, <2>6 DEF Once
    <3>2. \A i, j \in 1..Len(a) : a[i] = a[j] => i = j
      BY <2>6 DEF Once
    <3> QED
      BY <2>2, <2>3, <3>1, <3>2 DEF Once
  <2> QED
    BY <2>2, <2>5, <2>6 DEF b
<1> QED
  BY <1>1, <1>2

\* What such a function has collected after n places.
LEMMA FilterCollects ==
  ASSUME NEW X, NEW o \in Seq(X), NEW S, NEW f, Filters(f, o, S, Len(o))
  PROVE  f[Len(o)] \in Seq(X) /\ Collects(f[Len(o)], o, S, Len(o)) /\ (Once(o) => Once(f[Len(o)]))
<1> DEFINE Good(n) == f[n] \in Seq(X) /\ Collects(f[n], o, S, n) /\ (Once(o) => Once(f[n]))
           T == {n \in Nat : n <= Len(o) => Good(n)}
<1>1. 0 \in T
  <2>1. f[0] = <<>>
    BY DEF Filters
  <2>2. \A x : ~(\E j \in 1..0 : o[j] = x) /\ ~(\E i \in 1..Len(f[0]) : f[0][i] = x)
    BY <2>1
  <2>3. Collects(f[0], o, S, 0)
    BY <2>2 DEF Collects
  <2>4. Once(f[0])
    BY <2>1 DEF Once
  <2>5. f[0] \in Seq(X)
    BY <2>1
  <2> QED
    BY <2>3, <2>4, <2>5
<1>2. ASSUME NEW n \in T PROVE n + 1 \in T
  <2>1. CASE n + 1 <= Len(o)
    <3>0. n \in Nat
      OBVIOUS
    <3>1. n <= Len(o) /\ n + 1 \in 1..Len(o) /\ (n + 1) - 1 = n
      BY <2>1, <3>0
    <3>2. Good(n)
      BY <3>1
    <3>3. f[n + 1] = IF o[n + 1] \in S THEN Append(f[n], o[n + 1]) ELSE f[n]
      BY <3>1 DEF Filters
    <3>4. Good(n + 1)
      BY <2>1, <3>0, <3>2, <3>3, CollectsNext
    <3> QED
      BY <3>4
  <2>2. CASE ~(n + 1 <= Len(o))
    BY <2>2
  <2> QED
    BY <2>1, <2>2
<1> HIDE DEF T
<1>3. T \in SUBSET Nat
  BY DEF T
<1>4. T = Nat
  BY <1>1, <1>2, <1>3, SetInduction
<1>5. Len(o) \in T
  BY <1>4
<1> QED
  BY <1>5 DEF T

\* Kept is the last value of the function it is defined by.
LEMMA KeptFilters ==
  ASSUME NEW X, NEW o \in Seq(X), NEW S
  PROVE  \E f : Filters(f, o, S, Len(o)) /\ Kept(o, S) = f[Len(o)]
<1> DEFINE E(n, g) == IF n = 0 THEN <<>>
                      ELSE IF o[n] \in S THEN Append(g[n - 1], o[n]) ELSE g[n - 1]
           f == CHOOSE g : g = [n \in 0..Len(o) |-> E(n, g)]
<1>0. Len(o) \in Nat
  OBVIOUS
<1>1. PICK h : Filters(h, o, S, Len(o))
  BY <1>0, FilterExists
<1>2. \A g : Filters(g, o, S, Len(o)) <=> g = [n \in 0..Len(o) |-> E(n, g)]
  <2> TAKE g
  <2>1. ASSUME Filters(g, o, S, Len(o)) PROVE g = [n \in 0..Len(o) |-> E(n, g)]
    <3>1. \A n \in 0..Len(o) : g[n] = E(n, g)
      <4> TAKE n \in 0..Len(o)
      <4>1. n = 0 \/ n \in 1..Len(o)
        BY <1>0
      <4> QED
        BY <2>1, <4>1 DEF Filters
    <3>2. DOMAIN g = 0..Len(o) /\ g = [n \in DOMAIN g |-> g[n]]
      BY <2>1 DEF Filters
    <3> HIDE DEF E
    <3> QED
      BY <3>1, <3>2, Zenon
  <2>2. ASSUME g = [n \in 0..Len(o) |-> E(n, g)] PROVE Filters(g, o, S, Len(o))
    <3>1. DOMAIN g = 0..Len(o) /\ \A n \in 0..Len(o) : g[n] = E(n, g)
      <4> HIDE DEF E
      <4> QED
        BY <2>2
    <3>2. 0 \in 0..Len(o) /\ \A n \in 1..Len(o) : n \in 0..Len(o) /\ n # 0
      BY <1>0
    <3> QED
      BY <3>1, <3>2 DEF Filters
  <2> QED
    BY <2>1, <2>2
<1> HIDE DEF E
<1>3. f = [n \in 0..Len(o) |-> E(n, f)]
  BY <1>1, <1>2, Zenon
<1>4. Filters(f, o, S, Len(o))
  BY <1>2, <1>3
<1>5. Kept(o, S) = f[Len(o)]
  BY DEF Kept, E
<1> QED
  BY <1>4, <1>5

\* Kept(o, S) names the members of S that o names, each once if o does.
LEMMA KeptFacts ==
  ASSUME NEW X, NEW o \in Seq(X), NEW S
  PROVE  /\ Kept(o, S) \in Seq(X)
         /\ Collects(Kept(o, S), o, S, Len(o))
         /\ (Once(o) => Once(Kept(o, S)))
<1>1. PICK f : Filters(f, o, S, Len(o)) /\ Kept(o, S) = f[Len(o)]
  BY KeptFilters
<1> QED
  BY <1>1, FilterCollects

-----------------------------------------------------------------------------
(* The eviction order.                                                      *)

\* The types the proofs about the map rest on.
LEMMA Types ==
  ASSUME TypeOK
  PROVE  /\ map \in [Sessions -> Entry \cup {NoEntry}]
         /\ disk \in [Sessions -> Entry \cup {NoEntry}]
         /\ now \in 0..MaxTime /\ nextId \in 0..MaxIds /\ nextSave \in 0..MaxSaves
         /\ now \in Nat /\ nextId \in Nat /\ nextSave \in Nat
         /\ pending \subseteq Delete /\ expired \subseteq Ids /\ rebound \subseteq Ids
         /\ caller \in [Callers -> Caller] /\ saved \in [Sessions -> Checkpoint]
         /\ pins \in [Sessions -> 0..Cardinality(Callers)]
         /\ restarts \in 0..MaxRestarts /\ lock \in Callers \cup {Nobody}
         /\ {IdleTTL, MaxIds, MaxSaves, MaxTime, MaxRestarts} \subseteq Nat
  BY ConversationStoreAssumption DEF TypeOK

\* The first n places of a sequence are n.
LEMMA FirstPlaces ==
  ASSUME NEW n \in Nat
  PROVE  IsFiniteSet(1..n) /\ Cardinality(1..n) = n
<1>1. IsFiniteSet(1..n) /\ Cardinality(1..n) = IF 1 > n THEN 0 ELSE n - 1 + 1
  BY FS_Interval
<1> QED
  BY <1>1

\* A sequence has at most as many places popped as it has.
LEMMA PoppedRange ==
  ASSUME NEW m, NEW o \in Seq(Sessions)
  PROVE  Popped(m, o) \in 0..Len(o)
<1> DEFINE P == {j \in 1..Len(o) : Cardinality({i \in 1..(j - 1) : ~Pinned(o[i])}) < Excess(m)}
<1>1. IsFiniteSet(1..Len(o)) /\ Cardinality(1..Len(o)) = Len(o)
  <2>1. Len(o) \in Nat
    OBVIOUS
  <2> QED
    BY <2>1, FirstPlaces
<1>2. P \subseteq 1..Len(o)
  OBVIOUS
<1> HIDE DEF P
<1>3. IsFiniteSet(P) /\ Cardinality(P) <= Len(o)
  BY <1>1, <1>2, FS_Subset
<1>4. Cardinality(P) \in Nat
  BY <1>3, FS_CardinalityType
<1> QED
  BY <1>3, <1>4 DEF Popped, P

\* Where a concatenation has its elements.
LEMMA ConcatFacts ==
  ASSUME NEW X, NEW a \in Seq(X), NEW b \in Seq(X)
  PROVE  /\ a \o b \in Seq(X) /\ Len(a \o b) = Len(a) + Len(b)
         /\ \A i \in 1..Len(a) : (a \o b)[i] = a[i]
         /\ \A i \in 1..Len(b) : (a \o b)[Len(a) + i] = b[i]
         /\ Len(a) \in Nat /\ Len(b) \in Nat
  OBVIOUS

\* The loop reorders the sessions; only unpinned ones drop out.
LEMMA RotatedFacts ==
  ASSUME NEW m, NEW o \in Seq(Sessions), Once(o)
  PROVE  /\ Rotated(m, o) \in Seq(Sessions) /\ Once(Rotated(m, o))
         /\ \A s \in Sessions : (\E i \in 1..Len(Rotated(m, o)) : Rotated(m, o)[i] = s)
              <=> s \notin Overflow(m, o) /\ \E i \in 1..Len(o) : o[i] = s
<1> DEFINE k == Popped(m, o)
           P == {s \in Sessions : Pinned(s)}
           front == SubSeq(o, 1, k)
           back == SubSeq(o, k + 1, Len(o))
           kept == Kept(front, P)
           r == back \o kept
<1>0. k \in 0..Len(o) /\ Len(o) \in Nat /\ k \in Nat
  BY PoppedRange
<1>r. Rotated(m, o) = r
  BY DEF Rotated
<1>v. Overflow(m, o) = {s \in Sessions : ~Pinned(s) /\ \E i \in 1..k : o[i] = s}
  BY DEF Overflow
<1> HIDE DEF k
<1>1. /\ front \in Seq(Sessions) /\ Len(front) = k /\ \A i \in 1..k : front[i] = o[i]
  BY <1>0
<1>2. /\ back \in Seq(Sessions) /\ Len(back) = Len(o) - k
      /\ \A i \in 1..(Len(o) - k) : back[i] = o[k + i]
  BY <1>0
<1> HIDE DEF front, back
<1>3. Once(front)
  BY <1>0, <1>1 DEF Once
<1>4. kept \in Seq(Sessions) /\ Collects(kept, front, P, Len(front)) /\ Once(kept)
  BY <1>1, <1>3, KeptFacts
<1> HIDE DEF kept
<1>5. \A s : (\E i \in 1..Len(kept) : kept[i] = s) <=> s \in P /\ \E j \in 1..k : o[j] = s
  BY <1>1, <1>4 DEF Collects
<1>6. /\ r \in Seq(Sessions) /\ Len(r) = Len(back) + Len(kept)
      /\ \A i \in 1..Len(back) : r[i] = back[i]
      /\ \A i \in 1..Len(kept) : r[Len(back) + i] = kept[i]
      /\ Len(back) \in Nat /\ Len(kept) \in Nat
  BY <1>2, <1>4, ConcatFacts
<1> HIDE DEF r
<1>7. \A i \in 1..Len(r) : i \in 1..Len(back) \/ (i - Len(back) \in 1..Len(kept)
                                                   /\ Len(back) + (i - Len(back)) = i)
  BY <1>6
<1>8. \A s : (\E i \in 1..Len(r) : r[i] = s)
             <=> (\E i \in 1..Len(back) : back[i] = s) \/ (\E i \in 1..Len(kept) : kept[i] = s)
  <2> TAKE s
  <2>1. ASSUME NEW i \in 1..Len(r), r[i] = s
        PROVE  (\E j \in 1..Len(back) : back[j] = s) \/ (\E j \in 1..Len(kept) : kept[j] = s)
    BY <1>6, <1>7, <2>1
  <2>2. ASSUME NEW i \in 1..Len(back), back[i] = s PROVE \E j \in 1..Len(r) : r[j] = s
    <3>1. i \in 1..Len(r) /\ r[i] = s
      BY <1>6, <2>2
    <3> QED
      BY <3>1
  <2>3. ASSUME NEW i \in 1..Len(kept), kept[i] = s PROVE \E j \in 1..Len(r) : r[j] = s
    <3>1. Len(back) + i \in 1..Len(r) /\ r[Len(back) + i] = s
      BY <1>6, <2>3
    <3> QED
      BY <3>1
  <2> QED
    BY <2>1, <2>2, <2>3
<1>9. \A s : (\E i \in 1..Len(back) : back[i] = s) <=> \E j \in (k + 1)..Len(o) : o[j] = s
  <2> TAKE s
  <2>1. ASSUME NEW i \in 1..Len(back), back[i] = s PROVE \E j \in (k + 1)..Len(o) : o[j] = s
    <3>1. k + i \in (k + 1)..Len(o) /\ o[k + i] = s
      BY <1>0, <1>2, <2>1
    <3> QED
      BY <3>1
  <2>2. ASSUME NEW j \in (k + 1)..Len(o), o[j] = s PROVE \E i \in 1..Len(back) : back[i] = s
    <3>1. j - k \in 1..(Len(o) - k) /\ k + (j - k) = j
      BY <1>0
    <3>2. back[j - k] = s
      BY <1>2, <2>2, <3>1
    <3> QED
      BY <1>2, <3>1, <3>2
  <2> QED
    BY <2>1, <2>2
<1>10. \A i : i \in 1..Len(o) <=> i \in 1..k \/ i \in (k + 1)..Len(o)
  BY <1>0
<1>11. ASSUME NEW s \in Sessions
       PROVE  (\E i \in 1..Len(r) : r[i] = s)
              <=> s \notin Overflow(m, o) /\ \E i \in 1..Len(o) : o[i] = s
  <2>1. s \in P <=> Pinned(s)
    OBVIOUS
  <2>2. s \in Overflow(m, o) <=> ~Pinned(s) /\ \E i \in 1..k : o[i] = s
    BY <1>v
  <2>3. (\E i \in 1..k : o[i] = s) => ~(\E j \in (k + 1)..Len(o) : o[j] = s)
    <3> SUFFICES ASSUME NEW i \in 1..k, NEW j \in (k + 1)..Len(o), o[i] = o[j] PROVE FALSE
      OBVIOUS
    <3>1. i \in 1..Len(o) /\ j \in 1..Len(o) /\ i # j
      BY <1>0
    <3> QED
      BY <3>1 DEF Once
  <2>4. (\E i \in 1..Len(o) : o[i] = s)
        <=> (\E i \in 1..k : o[i] = s) \/ (\E j \in (k + 1)..Len(o) : o[j] = s)
    BY <1>10
  <2> HIDE DEF P
  <2> QED
    BY <1>5, <1>8, <1>9, <2>1, <2>2, <2>3, <2>4
<1>12. Once(r)
  <2> SUFFICES ASSUME NEW i \in 1..Len(r), NEW j \in 1..Len(r), r[i] = r[j] PROVE i = j
    BY DEF Once
  <2> DEFINE a == i - Len(back)
             b == j - Len(back)
  <2>1. CASE i \in 1..Len(back) /\ j \in 1..Len(back)
    <3>1. o[k + i] = o[k + j] /\ k + i \in 1..Len(o) /\ k + j \in 1..Len(o)
      BY <1>0, <1>2, <1>6, <2>1
    <3>2. k + i = k + j
      BY <3>1 DEF Once
    <3> QED
      BY <1>0, <1>2, <2>1, <3>2
  <2>2. CASE a \in 1..Len(kept) /\ Len(back) + a = i /\ b \in 1..Len(kept) /\ Len(back) + b = j
    <3>1. kept[a] = kept[b]
      BY <1>6, <2>2
    <3>2. a = b
      BY <1>4, <2>2, <3>1 DEF Once
    <3> QED
      BY <2>2, <3>2
  <2>3. ASSUME NEW x \in 1..Len(back), NEW y \in 1..Len(kept), back[x] = kept[y] PROVE FALSE
    <3>1. PICK l \in 1..k : o[l] = kept[y]
      BY <1>5
    <3>2. o[k + x] = o[l] /\ k + x \in 1..Len(o) /\ l \in 1..Len(o) /\ k + x # l
      BY <1>0, <1>2, <2>3, <3>1
    <3> QED
      BY <3>2 DEF Once
  <2>4. CASE i \in 1..Len(back) /\ b \in 1..Len(kept) /\ Len(back) + b = j
    <3>1. back[i] = kept[b]
      BY <1>6, <2>4
    <3> QED
      BY <2>3, <2>4, <3>1
  <2>5. CASE a \in 1..Len(kept) /\ Len(back) + a = i /\ j \in 1..Len(back)
    <3>1. back[j] = kept[a]
      BY <1>6, <2>5
    <3> QED
      BY <2>3, <2>5, <3>1
  <2> HIDE DEF a, b
  <2> QED
    BY <1>7, <2>1, <2>2, <2>4, <2>5 DEF a, b
<1> QED
  BY <1>r, <1>6, <1>11, <1>12

\* Taking sessions out of the map and of the order.
LEMMA WithoutLists ==
  ASSUME NEW o \in Seq(Sessions), Once(o), NEW S
  PROVE  /\ Without(o, S) \in Seq(Sessions) /\ Once(Without(o, S))
         /\ \A s \in Sessions : (\E i \in 1..Len(Without(o, S)) : Without(o, S)[i] = s)
              <=> s \notin S /\ \E i \in 1..Len(o) : o[i] = s
<1> DEFINE T == Sessions \ S
<1>1. Kept(o, T) \in Seq(Sessions) /\ Collects(Kept(o, T), o, T, Len(o)) /\ Once(Kept(o, T))
  BY KeptFacts
<1> QED
  BY <1>1 DEF Without, Collects

\* A new binding at the end of the order.
LEMMA AppendLists ==
  ASSUME NEW o, NEW m, Lists(o, m), NEW s \in Sessions, m[s] = NoEntry, NEW n,
         n[s] # NoEntry, \A t \in Sessions \ {s} : n[t] = m[t]
  PROVE  Lists(Append(o, s), n)
<1> DEFINE p == Append(o, s)
<1>1. /\ p \in Seq(Sessions) /\ Len(p) = Len(o) + 1 /\ p[Len(o) + 1] = s /\ Len(o) \in Nat
      /\ \A i \in 1..Len(o) : p[i] = o[i]
  BY DEF Lists
<1> HIDE DEF p
<1>2. \A i : i \in 1..Len(p) <=> i = Len(o) + 1 \/ i \in 1..Len(o)
  BY <1>1
<1>3. \A i \in 1..Len(o) : o[i] # s
  BY DEF Lists
<1>4. Once(p)
  BY <1>1, <1>2, <1>3 DEF Once, Lists
<1>5. \A t \in Sessions : n[t] # NoEntry <=> \E i \in 1..Len(p) : p[i] = t
  <2> TAKE t \in Sessions
  <2>1. (\E i \in 1..Len(p) : p[i] = t) <=> t = s \/ \E i \in 1..Len(o) : o[i] = t
    BY <1>1, <1>2
  <2> QED
    BY <2>1 DEF Lists
<1> QED
  BY <1>1, <1>4, <1>5 DEF Lists, p

\* The order lists the residents of a map with the same sessions.
LEMMA SameLists ==
  ASSUME NEW o, NEW m, Lists(o, m), NEW n, \A t \in Sessions : n[t] = NoEntry <=> m[t] = NoEntry
  PROVE  Lists(o, n)
  BY DEF Lists

-----------------------------------------------------------------------------
(* The map.                                                                 *)

\* What TouchAndEvict does to a map m whose residents o lists: unpinned
\* sessions leave, session s has been seen, and the others stay as they are.
Evicts(m, s, queued, gone) ==
  /\ \A t \in gone : ~Pinned(t) /\ m[t] # NoEntry
  /\ map' \in [Sessions -> Entry \cup {NoEntry}]
  /\ \A t \in gone : map'[t] = NoEntry
  /\ \A t \in Sessions \ gone : t # s => map'[t] = m[t]
  /\ s \notin gone =>
       /\ map'[s] # NoEntry /\ map'[s].id = m[s].id /\ map'[s].checkpoint = m[s].checkpoint
  /\ Lists(order', map')
  /\ pending' \subseteq Delete /\ \A d \in pending' : d \in queued \/ d.session \in gone
  /\ expired' \subseteq Ids

\* TouchAndEvict does no more than that.
LEMMA TouchAndEvictFacts ==
  ASSUME TypeOK, NEW m \in [Sessions -> Entry \cup {NoEntry}], NEW o, Lists(o, m),
         NEW s \in Sessions, m[s] # NoEntry, NEW queued \in SUBSET Delete, NEW dead \in SUBSET Ids,
         NEW clock \in 0..MaxTime, TouchAndEvict(m, o, s, queued, dead, clock)
  PROVE  \E gone \in SUBSET Sessions : Evicts(m, s, queued, gone)
<1> DEFINE e == [m[s] EXCEPT !.seen = clock]
           touched == [m EXCEPT ![s] = [@ EXCEPT !.seen = clock]]
           full == Overflow(touched, o)
           left == [r \in Sessions |-> IF r \in full THEN NoEntry ELSE touched[r]]
           gone == Evicted(touched, o, s, clock)
           lapsed == {touched[r].id : r \in Stale(touched, s, clock) \ full}
<1>0. m[s] \in Entry /\ s \in Sessions
  BY Types
<1>1. e \in Entry /\ e.id = m[s].id /\ e.checkpoint = m[s].checkpoint
  BY <1>0 DEF Entry
<1>2. touched = [m EXCEPT ![s] = e]
  OBVIOUS
<1> HIDE DEF e
<1>3. /\ touched \in [Sessions -> Entry \cup {NoEntry}] /\ touched[s] = e
      /\ \A t \in Sessions \ {s} : touched[t] = m[t]
  BY <1>1, <1>2
<1>e. e # NoEntry
  BY <1>1, NoEntryAssumption
<1>4. /\ map' = [r \in Sessions |-> IF r \in gone THEN NoEntry ELSE touched[r]]
      /\ order' = Without(Rotated(touched, o), gone)
      /\ pending' = queued \cup {[session |-> r, id |-> touched[r].id] : r \in gone}
      /\ expired' = dead \cup lapsed
  BY DEF TouchAndEvict
<1>g. gone = full \cup Stale(left, s, clock)
  BY DEF Evicted
<1> HIDE DEF touched
<1>5. Lists(o, touched)
  BY <1>3, <1>e, SameLists
<1>6. /\ Rotated(touched, o) \in Seq(Sessions) /\ Once(Rotated(touched, o))
      /\ \A t \in Sessions : (\E i \in 1..Len(Rotated(touched, o)) : Rotated(touched, o)[i] = t)
           <=> t \notin full /\ \E i \in 1..Len(o) : o[i] = t
  BY <1>5, RotatedFacts DEF Lists
<1>7. \A t \in full : t \in Sessions /\ ~Pinned(t) /\ touched[t] # NoEntry
  <2> TAKE t \in full
  <2>1. t \in Sessions /\ ~Pinned(t) /\ \E i \in 1..Popped(touched, o) : o[i] = t
    BY DEF Overflow
  <2>2. Popped(touched, o) \in 0..Len(o) /\ Len(o) \in Nat
    BY <1>5, PoppedRange DEF Lists
  <2>3. \E i \in 1..Len(o) : o[i] = t
    BY <2>1, <2>2
  <2> QED
    BY <2>1, <2>3, <1>5 DEF Lists
<1> HIDE DEF full
<1>8. \A t \in Stale(left, s, clock) : t \in Sessions /\ t # s /\ ~Pinned(t) /\ touched[t] # NoEntry
                                        /\ t \notin full
  BY DEF Stale, Resident
<1>9. \A t \in Stale(touched, s, clock) \ full : t \in Stale(left, s, clock)
  BY DEF Stale, Resident
<1>10. \A t \in gone : t \in Sessions /\ ~Pinned(t) /\ touched[t] # NoEntry
  BY <1>g, <1>7, <1>8
<1>11. \A t \in Stale(touched, s, clock) \ full : t \in gone \ {s}
  BY <1>g, <1>8, <1>9
<1> HIDE DEF gone, left
<1>12. \A t \in Sessions : touched[t] # NoEntry <=> m[t] # NoEntry
  BY <1>3, <1>e
<1>13. map' \in [Sessions -> Entry \cup {NoEntry}]
  BY <1>3, <1>4
<1>14. \A t \in Sessions : map'[t] = IF t \in gone THEN NoEntry ELSE touched[t]
  BY <1>4
<1>15. Lists(order', map')
  <2>1. /\ order' \in Seq(Sessions) /\ Once(order')
        /\ \A t \in Sessions : (\E i \in 1..Len(order') : order'[i] = t)
              <=> t \notin gone /\ \E i \in 1..Len(Rotated(touched, o)) : Rotated(touched, o)[i] = t
    BY <1>4, <1>6, WithoutLists
  <2>2. \A t \in Sessions : t \notin gone => t \notin full
    BY <1>g
  <2>3. \A t \in Sessions : (\E i \in 1..Len(order') : order'[i] = t)
                            <=> t \notin gone /\ touched[t] # NoEntry
    BY <1>5, <1>6, <2>1, <2>2 DEF Lists
  <2> QED
    BY <1>14, <2>1, <2>3 DEF Lists
<1>16. /\ pending' \subseteq Delete /\ \A d \in pending' : d \in queued \/ d.session \in gone
  <2>1. \A t \in gone : touched[t] \in Entry /\ touched[t].id \in 0..MaxIds
    BY <1>3, <1>10, ConversationStoreAssumption DEF Entry, Ids
  <2>2. \A t \in gone : [session |-> t, id |-> touched[t].id] \in Delete
                        /\ [session |-> t, id |-> touched[t].id].session = t
    BY <1>10, <2>1 DEF Delete
  <2> QED
    BY <1>4, <2>2
<1>17. expired' \subseteq Ids
  <2>1. \A t \in Stale(touched, s, clock) \ full : touched[t] \in Entry /\ touched[t].id \in Ids
    BY <1>3, <1>10, <1>11 DEF Entry
  <2>2. \A i \in lapsed : i \in Ids
    BY <2>1
  <2> HIDE DEF lapsed
  <2> QED
    BY <1>4, <2>2
<1>18. s \notin gone => map'[s] = e
  BY <1>3, <1>14
<1>19. \A t \in Sessions \ gone : t # s => map'[t] = m[t]
  BY <1>3, <1>14
<1>20. gone \in SUBSET Sessions /\ Evicts(m, s, queued, gone)
  BY <1>1, <1>e, <1>10, <1>12, <1>13, <1>14, <1>15, <1>16, <1>17, <1>18, <1>19 DEF Evicts
<1> QED
  BY <1>20

-----------------------------------------------------------------------------
(* Callers.                                                                 *)

\* The fields of a caller have their types.
LEMMA CallerFields ==
  ASSUME TypeOK, NEW c \in Callers
  PROVE  /\ caller[c] \in Caller /\ caller[c].at \in Places /\ caller[c].id \in 0..MaxIds
         /\ caller[c].session \in Sessions \cup {NoEntry} /\ caller[c].todo \subseteq Delete
         /\ caller[c].checkpoint \in Checkpoint /\ caller[c].previous \in Checkpoint
         /\ caller[c].snap \in Entry \cup {NoEntry} /\ caller[c].leased \in BOOLEAN
         /\ caller[c].again \in BOOLEAN /\ caller[c].added \in SUBSET Blobs
         /\ caller[c].op \in Unconditional \cup Conditional \cup Flushes \cup {"none"}
         /\ caller[c].since \in 0..MaxTime
  BY Types DEF Caller

\* The clock a call has read.
LEMMA ClockType ==
  ASSUME TypeOK, NEW c \in Callers
  PROVE  /\ Clock(c) \subseteq 0..MaxTime /\ caller[c].since \in 0..MaxTime
         /\ now \in 0..MaxTime /\ 0 \in 0..MaxTime
<1>1. caller[c].since \in 0..MaxTime /\ now \in 0..MaxTime /\ MaxTime \in Nat
  BY Types, CallerFields, ConversationStoreAssumption
<1> QED
  BY <1>1 DEF Clock

\* What a checkpoint is.
LEMMA CheckpointFields ==
  /\ NoCheckpoint \in Checkpoint /\ NoCheckpoint.of = 0 /\ NoCheckpoint.n = 0
  /\ \A v \in Checkpoint : /\ v.of \in 0..MaxIds /\ v.n \in Nat
                           /\ v # NoCheckpoint => v.of \in Ids /\ v.n \in 1..MaxSaves
<1>1. MaxIds \in Nat /\ MaxSaves \in Nat
  BY ConversationStoreAssumption
<1>2. NoCheckpoint \in Checkpoint /\ NoCheckpoint.of = 0 /\ NoCheckpoint.n = 0
  BY DEF Checkpoint, NoCheckpoint
<1>3. \A v \in Checkpoint : v # NoCheckpoint => v.of \in Ids /\ v.n \in 1..MaxSaves
  BY DEF Checkpoint
<1> QED
  BY <1>1, <1>2, <1>3 DEF Ids

\* An idle caller is a caller.
LEMMA IdleType == \A t \in 0..MaxTime : Idle(t) \in Caller
  BY CheckpointFields, ConversationStoreAssumption DEF Idle, Caller, Places

\* One caller moves.
LEMMA MovesFacts ==
  ASSUME TypeOK, NEW c \in Callers, NEW r \in Caller, Moves(c, r)
  PROVE  /\ caller' \in [Callers -> Caller] /\ caller'[c] = r
         /\ \A b \in Callers \ {c} : caller'[b] = caller[b]
  BY Types DEF Moves

\* A later count of checkpoints changes nothing.
LEMMA KnowsLater ==
  ASSUME NEW k, NEW n \in Nat, NEW m \in Nat, n <= m, k.checkpoint.n \in Nat, Knows(k, n)
  PROVE  Knows(k, m)
  BY DEF Knows

\* A step of caller c, as far as the callers and the lock are concerned.
CallerStep(c) ==
  /\ caller' \in [Callers -> Caller]
  /\ \A b \in Callers \ {c} : caller'[b] = caller[b]
  /\ CallerSound(c)'
  /\ nextSave' \in {nextSave, nextSave + 1} /\ nextSave' \in 0..MaxSaves
  /\ \/ caller'[c].checkpoint \in {NoCheckpoint, caller[c].checkpoint}
     \/ caller'[c].checkpoint.n = nextSave + 1
  /\ lock' \in Callers \cup {Nobody}
  /\ caller'[c].at \in Locking => lock' = c
  /\ \A b \in Callers \ {c} : lock = b => lock' = b

\* After such a step every caller still knows what it should, no two hold the
\* same checkpoint, and the write lock excludes.
LEMMA CallersStaySound ==
  ASSUME TypeOK, \A b \in Callers : CallerSound(b), CheckpointsDistinct, LockExcludes,
         NEW c \in Callers, CallerStep(c)
  PROVE  (\A b \in Callers : CallerSound(b))' /\ CheckpointsDistinct' /\ LockExcludes'
<1>1. ASSUME NEW b \in Callers PROVE CallerSound(b)'
  <2>1. CASE b = c
    BY <2>1 DEF CallerStep
  <2>2. CASE b # c
    <3>1. caller'[b] = caller[b] /\ nextSave \in Nat /\ nextSave' >= nextSave
          /\ caller[b].checkpoint.n \in Nat
      BY <2>2, Types, CallerFields, CheckpointFields DEF CallerStep
    <3>2. Knows(caller[b], nextSave)
      BY DEF CallerSound
    <3>3. nextSave' \in Nat
      BY <3>1, Types DEF CallerStep
    <3>4. Knows(caller[b], nextSave')
      BY <3>1, <3>2, <3>3, KnowsLater
    <3> QED
      BY <3>1, <3>4 DEF CallerSound
  <2> QED
    BY <2>1, <2>2
<1>2. CheckpointsDistinct'
  <2>1. \A b \in Callers : caller[b].checkpoint.n \in Nat /\ caller[b].checkpoint.n <= nextSave
                           /\ caller[b].checkpoint \in Checkpoint
    BY CallerFields, CheckpointFields DEF CallerSound, Knows
  <2>2. nextSave \in Nat /\ NoCheckpoint.n = 0 /\ caller'[c].checkpoint \in Checkpoint
        /\ \A v \in Checkpoint : v # NoCheckpoint => v.n # 0
    BY Types, CheckpointFields DEF CallerStep, Caller
  <2>3. \A b \in Callers \ {c} : caller'[b] = caller[b]
    BY DEF CallerStep
  <2>4. CASE caller'[c].checkpoint \in {NoCheckpoint, caller[c].checkpoint}
    BY <2>1, <2>2, <2>3, <2>4 DEF CheckpointsDistinct
  <2>5. CASE caller'[c].checkpoint.n = nextSave + 1
    BY <2>1, <2>2, <2>3, <2>5 DEF CheckpointsDistinct
  <2> QED
    BY <2>4, <2>5 DEF CallerStep
<1>3. LockExcludes'
  BY DEF LockExcludes, CallerStep
<1> QED
  BY <1>1, <1>2, <1>3

\* No lease is taken, dropped or moved.
LeasesKept ==
  /\ pins' = pins
  /\ \A b \in Callers :
       /\ caller'[b].leased = caller[b].leased
       /\ caller[b].leased => caller'[b].session = caller[b].session /\ caller'[b].id = caller[b].id

\* The counts stay right while no lease moves.
LEMMA PinsStayCounted ==
  ASSUME PinsCount, LeasesKept
  PROVE  PinsCount'
<1>1. \A s \in Sessions : Holders(s)' = Holders(s)
  BY DEF Holders, LeasesKept
<1> QED
  BY <1>1 DEF PinsCount, LeasesKept

\* The holders of a session are finitely many.
LEMMA HoldersFinite ==
  ASSUME NEW s
  PROVE  /\ IsFiniteSet(Holders(s)) /\ Cardinality(Holders(s)) \in 0..Cardinality(Callers)
         /\ Cardinality(Callers) \in Nat
<1>1. Holders(s) \subseteq Callers
  BY DEF Holders
<1>2. IsFiniteSet(Callers)
  BY ConversationStoreAssumption
<1>3. IsFiniteSet(Holders(s)) /\ Cardinality(Holders(s)) <= Cardinality(Callers)
  BY <1>1, <1>2, FS_Subset
<1>4. Cardinality(Holders(s)) \in Nat /\ Cardinality(Callers) \in Nat
  BY <1>2, <1>3, FS_CardinalityType
<1> QED
  BY <1>3, <1>4

\* The session of a lease is pinned.
LEMMA HolderPins ==
  ASSUME PinsCount, NEW c \in Callers, caller[c].leased, caller[c].session \in Sessions
  PROVE  Pinned(caller[c].session)
<1> DEFINE s == caller[c].session
<1>1. c \in Holders(s)
  BY DEF Holders
<1>2. IsFiniteSet(Holders(s)) /\ Cardinality(Holders(s)) \in Nat
  BY HoldersFinite
<1>3. Cardinality(Holders(s)) # 0
  BY <1>1, <1>2, FS_EmptySet
<1> QED
  BY <1>2, <1>3 DEF PinsCount, Pinned

\* A driver has a session.
LEMMA DriverSession ==
  ASSUME TypeOK, NEW c \in Callers, CallerSound(c), caller[c].leased
  PROVE  caller[c].session \in Sessions /\ caller[c].at # "idle" /\ caller[c].at \notin Before
  BY DEF CallerSound, Knows, Idle

\* Pinned bindings stay in the map unless a reset replaces them.
LEMMA PinnedKept ==
  ASSUME TypeOK, \A b \in Callers : CallerSound(b), PinsCount, PinnedStays, LeasesKept,
         rebound \subseteq rebound',
         \A s \in Sessions : Pinned(s) /\ map[s] # NoEntry =>
           map'[s] # NoEntry /\ (map'[s].id = map[s].id \/ map[s].id \in rebound')
  PROVE  PinnedStays'
<1> SUFFICES ASSUME NEW c \in Callers, caller'[c].leased
             PROVE  LET s == caller'[c].session IN
                    map'[s] # NoEntry /\ (map'[s].id = caller'[c].id \/ caller'[c].id \in rebound')
  BY DEF PinnedStays
<1>1. caller[c].leased /\ caller'[c].session = caller[c].session /\ caller'[c].id = caller[c].id
  BY DEF LeasesKept
<1>2. caller[c].session \in Sessions /\ Pinned(caller[c].session)
  BY <1>1, DriverSession, HolderPins
<1>3. map[caller[c].session] # NoEntry
      /\ (map[caller[c].session].id = caller[c].id \/ caller[c].id \in rebound)
  BY <1>1 DEF PinnedStays
<1> QED
  BY <1>1, <1>2, <1>3

-----------------------------------------------------------------------------
(* Bindings and claims.                                                     *)

\* The members of Bindings and Copies are entries.
LEMMA BindingTypes ==
  ASSUME TypeOK, NEW s \in Sessions, NEW e \in Bindings(s)
  PROVE  /\ e \in Entry /\ e.id \in Nat /\ e.id # 0
         /\ e \in Copies(s) \/ (e = map[s] /\ map[s] # NoEntry)
<1>1. e \in Entry
  BY Types, CallerFields DEF Bindings, Copies
<1>2. e.id \in Ids
  BY <1>1 DEF Entry
<1>3. MaxIds \in Nat
  BY ConversationStoreAssumption
<1> QED
  BY <1>1, <1>2, <1>3 DEF Bindings, Ids

\* How a step may change the map: only the binding of x may be loaded from its
\* file or be fresh.
MapStep(x) ==
  /\ nextId' \in {nextId, nextId + 1}
  /\ map' \in [Sessions -> Entry \cup {NoEntry}]
  /\ \A s \in Sessions : map'[s] # NoEntry =>
       /\ map'[s].checkpoint.of \in {0, map'[s].id}
       /\ \/ map[s] # NoEntry /\ map'[s].id = map[s].id
          \/ s = x /\ map[s] = NoEntry /\ disk[s] # NoEntry /\ map'[s].id = disk[s].id
          \/ s = x /\ map'[s].id = nextId + 1 /\ nextId' = nextId + 1

\* Copies are made of bindings only.
CopiesFollow == \A s \in Sessions : Copies(s)' \subseteq Bindings(s)

\* A step of the map and its copies brings no other session's id.
LEMMA BindingsStaySound ==
  ASSUME TypeOK, BindingsSound, CopiesFollow, NEW x, MapStep(x)
  PROVE  BindingsSound'
<1>0. nextId \in Nat /\ nextId' \in Nat /\ nextId <= nextId'
  BY Types DEF MapStep
<1>m. \A s \in Sessions : map[s] # NoEntry => map[s] \in Bindings(s)
  BY DEF Bindings
<1>d. \A s \in Sessions : disk[s] # NoEntry => disk[s] \in Bindings(s)
  BY DEF Bindings, Copies
<1>t. \A s \in Sessions : \A e \in Bindings(s) : e.id \in Nat
  BY BindingTypes
<1>b. \A s \in Sessions : \A e \in Bindings(s)' :
        e \in Bindings(s) \/ (e = map'[s] /\ map'[s] # NoEntry)
  BY DEF Bindings, CopiesFollow
<1>1. \A s \in Sessions : \A e \in Bindings(s)' : e.id <= nextId' /\ e.checkpoint.of \in {0, e.id}
  <2> TAKE s \in Sessions
  <2> TAKE e \in Bindings(s)'
  <2>1. CASE e \in Bindings(s)
    BY <2>1, <1>0, <1>t DEF BindingsSound
  <2>2. CASE e = map'[s] /\ map'[s] # NoEntry
    BY <2>2, <1>0, <1>m, <1>d, <1>t DEF MapStep, BindingsSound
  <2> QED
    BY <2>1, <2>2, <1>b
<1>2. \A s \in Sessions : \A e \in Bindings(s)' :
        (\E f \in Bindings(s) : f.id = e.id) \/ (s = x /\ e.id = nextId + 1)
  <2> TAKE s \in Sessions
  <2> TAKE e \in Bindings(s)'
  <2>1. CASE e \in Bindings(s)
    BY <2>1
  <2>2. CASE e = map'[s] /\ map'[s] # NoEntry
    BY <2>2, <1>m, <1>d DEF MapStep
  <2> QED
    BY <2>1, <2>2, <1>b
<1>3. \A s, t \in Sessions : \A e \in Bindings(s)', f \in Bindings(t)' : e.id = f.id => s = t
  BY <1>0, <1>2, <1>t DEF BindingsSound
<1> QED
  BY <1>1, <1>3 DEF BindingsSound

\* Snapshots under way are kept, except that of c, which may be new, or none.
SnapsKept ==
  \A b \in Callers : caller'[b].snap # NoEntry =>
    /\ caller'[b].session \in Sessions
    /\ \/ caller'[b].snap = caller[b].snap /\ caller'[b].session = caller[b].session
       \/ caller'[b].snap = map[caller'[b].session]

\* Files are kept, removed, or replaced by a snapshot under way.
FilesKept ==
  \A s \in Sessions : disk'[s] # NoEntry =>
    disk'[s] = disk[s] \/ \E b \in Callers : caller[b].session = s /\ disk'[s] = caller[b].snap

\* Kept snapshots and files are copies of bindings.
LEMMA CopiesAreKept ==
  ASSUME SnapsKept, FilesKept
  PROVE  CopiesFollow
  BY DEF SnapsKept, FilesKept, CopiesFollow, Copies, Bindings

\* A claim that stands as before, on whatever can still be restored.
LEMMA ClaimStays ==
  ASSUME NEW s \in Sessions, ClaimSound(s), SnapsKept, saved'[s] \in {saved[s], NoCheckpoint},
         saved'[s] # NoCheckpoint =>
           /\ Carries(disk'[s], saved[s])
           /\ map'[s] = NoEntry => map[s] = NoEntry /\ \A d \in Owed' : d.session = s => d \in Owed
           /\ map'[s] # NoEntry => map'[s].id = saved[s].of
                /\ \E R \in SUBSET Checkpoint : Restorable(s, saved[s].n, R)'
  PROVE  ClaimSound(s)'
<1> SUFFICES ASSUME saved'[s] # NoCheckpoint PROVE ClaimSound(s)'
  BY DEF ClaimSound
<1>1. saved'[s] = saved[s] /\ saved[s] # NoCheckpoint
  OBVIOUS
<1>2. ASSUME NEW c \in Callers, caller'[c].snap # NoEntry, caller'[c].session = s
      PROVE  Carries(caller'[c].snap, saved[s])
  <2>1. CASE caller'[c].snap = caller[c].snap /\ caller'[c].session = caller[c].session
    BY <1>1, <1>2, <2>1 DEF ClaimSound
  <2>2. CASE caller'[c].snap = map[s]
    <3>1. map[s] # NoEntry /\ map[s].id = saved[s].of
      BY <1>1, <1>2, <2>2 DEF ClaimSound
    <3>2. PICK R \in SUBSET Checkpoint : Restorable(s, saved[s].n, R)
      BY <1>1, <3>1 DEF ClaimSound
    <3> QED
      BY <2>2, <3>1, <3>2 DEF Restorable, Carries
  <2> QED
    BY <1>2, <2>1, <2>2 DEF SnapsKept
<1>3. ASSUME map'[s] = NoEntry, NEW d \in Owed', d.session = s
      PROVE  d.id \notin {0, saved[s].of}
  BY <1>1, <1>3 DEF ClaimSound
<1> QED
  BY <1>1, <1>2, <1>3 DEF ClaimSound, Carries

\* The rollbacks of session s are those of before.
RestoresKept(s) ==
  \A b \in Callers : Restoring(caller'[b]) /\ caller'[b].session = s =>
    /\ Restoring(caller[b]) /\ caller[b].session = s /\ Written(caller'[b]) = Written(caller[b])
    /\ caller'[b].previous = caller[b].previous

\* The binding of session s, if it has one, keeps its id and its checkpoint.
BindingKept(s) ==
  /\ map'[s] = NoEntry <=> map[s] = NoEntry
  /\ map[s] # NoEntry => map'[s].id = map[s].id /\ map'[s].checkpoint = map[s].checkpoint

\* A claim stands while its file, its binding and the rollbacks of its session do.
LEMMA ClaimKept ==
  ASSUME NEW s \in Sessions, ClaimSound(s), SnapsKept, saved'[s] \in {saved[s], NoCheckpoint},
         saved'[s] # NoCheckpoint =>
           /\ Carries(disk'[s], saved[s]) /\ BindingKept(s) /\ RestoresKept(s)
           /\ \A d \in Owed' : d.session = s => d \in Owed
  PROVE  ClaimSound(s)'
<1>1. ASSUME saved'[s] # NoCheckpoint, map'[s] # NoEntry
      PROVE  map'[s].id = saved[s].of /\ \E R \in SUBSET Checkpoint : Restorable(s, saved[s].n, R)'
  <2>1. map[s] # NoEntry /\ saved[s] # NoCheckpoint
    BY <1>1 DEF BindingKept
  <2>2. PICK R \in SUBSET Checkpoint : Restorable(s, saved[s].n, R)
    BY <2>1 DEF ClaimSound
  <2>3. Restorable(s, saved[s].n, R)'
    BY <1>1, <2>1, <2>2 DEF Restorable, BindingKept, RestoresKept
  <2>4. map'[s].id = saved[s].of
    BY <1>1, <2>1 DEF ClaimSound, BindingKept
  <2> QED
    BY <2>3, <2>4
<1>2. saved'[s] # NoCheckpoint /\ map'[s] = NoEntry => map[s] = NoEntry
  BY DEF BindingKept
<1> QED
  BY <1>1, <1>2, ClaimStays

-----------------------------------------------------------------------------
(* Steps that leave the map alone.                                          *)

Outside(c) ==
  /\ CallerStep(c) /\ SnapsKept /\ FilesKept /\ \A s \in Sessions : RestoresKept(s)
  /\ pending' \subseteq Delete /\ Owed' \subseteq Owed
  /\ disk' \in [Sessions -> Entry \cup {NoEntry}] /\ saved' \in [Sessions -> Checkpoint]
  /\ UNCHANGED <<map, order, now, nextId, restarts, rebound, expired>>

\* Such a step keeps the invariant when pins and claims are sound after it.
LEMMA OutsideKeeps ==
  ASSUME IInv, NEW c \in Callers, Outside(c), PinsCount', PinnedStays',
         pins' \in [Sessions -> 0..Cardinality(Callers)], \A s \in Sessions : ClaimSound(s)'
  PROVE  IInv'
<1>1. (\A b \in Callers : CallerSound(b))' /\ CheckpointsDistinct' /\ LockExcludes'
  BY CallersStaySound DEF IInv, Outside
<1>2. BindingsSound'
  <2>1. \A s \in Sessions : map[s] # NoEntry => map[s].checkpoint.of \in {0, map[s].id}
    BY DEF IInv, BindingsSound, Bindings
  <2>2. MapStep(NoEntry)
    BY <2>1, Types DEF MapStep, Outside, IInv
  <2>3. CopiesFollow
    BY CopiesAreKept DEF Outside
  <2> QED
    BY <2>2, <2>3, BindingsStaySound DEF IInv
<1>3. TypeOK'
  BY DEF IInv, TypeOK, Outside, CallerStep
<1>4. Lists(order, map)'
  BY DEF IInv, Outside, Lists, Once
<1> QED
  BY <1>1, <1>2, <1>3, <1>4 DEF IInv

\* The usual such step keeps the leases, and the claims or their files.
LEMMA OutsideStep ==
  ASSUME IInv, NEW c \in Callers, Outside(c), LeasesKept,
         \A s \in Sessions : saved'[s] # NoCheckpoint =>
           saved'[s] = saved[s] /\ Carries(disk'[s], saved[s])
  PROVE  IInv'
<1>1. PinsCount' /\ pins' \in [Sessions -> 0..Cardinality(Callers)]
  BY PinsStayCounted, Types DEF IInv, LeasesKept
<1>2. PinnedStays'
  BY PinnedKept DEF IInv, Outside
<1>3. ASSUME NEW s \in Sessions PROVE ClaimSound(s)'
  <2>1. ClaimSound(s) /\ saved'[s] \in {saved[s], NoCheckpoint} /\ BindingKept(s)
    BY DEF IInv, Outside, BindingKept
  <2> QED
    BY <2>1, ClaimKept DEF Outside
<1> QED
  BY <1>1, <1>2, <1>3, OutsideKeeps

\* Where a caller may go when its write is behind it.
Lands(c, at) ==
  /\ at \in Places \ (Persisting \cup Locking)
  /\ at \in Before \cup {"idle"} => ~caller[c].leased
  /\ at \in Running => caller[c].leased

\* Where a persist ends, the caller may go.
LEMMA AfterLands ==
  ASSUME TypeOK, NEW c \in Callers, CallerSound(c), NEW ok \in BOOLEAN, caller[c].at \in Persisting
  PROVE  Lands(c, After(c, ok))
<1>1. /\ caller[c].op \in Unconditional \cup Conditional /\ caller[c].leased \in BOOLEAN
      /\ caller[c].op \in Conditional => caller[c].leased
      /\ caller[c].op \in {"create", "rotate"} => ~caller[c].leased
  BY CallerFields DEF CallerSound, Knows
<1> QED
  BY <1>1 DEF After, Got, Return, Lands, Places, Persisting, Locking, Before, Running,
     Unconditional, Conditional

\* Where a flush ends, the caller may go.
LEMMA AfterFlushLands ==
  ASSUME NEW c \in Callers, CallerSound(c), caller[c].at \in {"flush", "flushing"}
  PROVE  Lands(c, AfterFlush(c))
<1>1. ~caller[c].leased
  BY DEF CallerSound, Knows, Before
<1> QED
  BY <1>1 DEF AfterFlush, Got, Lands, Places, Persisting, Locking, Before, Running

\* The lock of others stays with them.
LockKept(c) ==
  /\ lock' \in Callers \cup {Nobody}
  /\ \A b \in Callers \ {c} : lock = b => lock' = b

\* What c takes along when it lands.
LEMMA AnsweredFields ==
  ASSUME TypeOK, NEW c \in Callers, NEW at, Lands(c, at), Answered(c, at)
  PROVE  /\ caller' \in [Callers -> Caller]
         /\ \A b \in Callers \ {c} : caller'[b] = caller[b]
         /\ at = "idle" => caller'[c] = Idle(now)
         /\ at # "idle" =>
              /\ caller'[c].at = at /\ caller'[c].snap = NoEntry
              /\ caller'[c].id = caller[c].id /\ caller'[c].session = caller[c].session
              /\ caller'[c].leased = caller[c].leased /\ caller'[c].todo = caller[c].todo
              /\ caller'[c].checkpoint = IF at \in {"driving", "ending"} THEN caller[c].checkpoint
                                         ELSE NoCheckpoint
<1>1. at \in Places /\ caller[c] \in Caller /\ NoCheckpoint \in Checkpoint
  BY CallerFields, CheckpointFields DEF Lands
<1>2. CASE at = "idle"
  BY <1>2, ClockType, IdleType, MovesFacts DEF Answered
<1>3. CASE at # "idle"
  <2> DEFINE p == IF at \in {"driving", "ending"} THEN caller[c].checkpoint ELSE NoCheckpoint
             t == IF at = "lookup" THEN caller[c].since ELSE now
             r == [caller[c] EXCEPT !.at = at, !.op = "none", !.snap = NoEntry, !.added = {},
                     !.previous = NoCheckpoint, !.since = t, !.checkpoint = p]
  <2>1. p \in Checkpoint /\ t \in 0..MaxTime
    BY <1>1, CallerFields, ClockType
  <2>2. Moves(c, r)
    BY <1>3 DEF Answered
  <2> HIDE DEF p, t
  <2>3. /\ r \in Caller /\ r.at = at /\ r.snap = NoEntry /\ r.id = caller[c].id
        /\ r.session = caller[c].session /\ r.leased = caller[c].leased
        /\ r.todo = caller[c].todo /\ r.checkpoint = p
    BY <1>1, <2>1 DEF Caller
  <2> HIDE DEF r
  <2>4. /\ caller' \in [Callers -> Caller] /\ caller'[c] = r
        /\ \A b \in Callers \ {c} : caller'[b] = caller[b]
    BY <2>2, <2>3, MovesFacts
  <2> QED
    BY <1>3, <2>3, <2>4 DEF p
<1> QED
  BY <1>2, <1>3

\* A caller that lands leaves no snapshot, no rollback and no lock behind.
LEMMA AnsweredStep ==
  ASSUME IInv, NEW c \in Callers, NEW at, Lands(c, at), caller[c].at # "idle", Answered(c, at),
         LockKept(c), nextSave' = nextSave
  PROVE  /\ CallerStep(c) /\ SnapsKept /\ \A s \in Sessions : RestoresKept(s)
         /\ pins' = pins => LeasesKept
         /\ \A b \in Callers : caller'[b].todo \subseteq caller[b].todo
         /\ caller'[c].at = at
<1>1. /\ caller' \in [Callers -> Caller]
      /\ \A b \in Callers \ {c} : caller'[b] = caller[b]
      /\ at = "idle" => caller'[c] = Idle(now)
      /\ at # "idle" =>
           /\ caller'[c].at = at /\ caller'[c].snap = NoEntry
           /\ caller'[c].id = caller[c].id /\ caller'[c].session = caller[c].session
           /\ caller'[c].leased = caller[c].leased /\ caller'[c].todo = caller[c].todo
           /\ caller'[c].checkpoint = IF at \in {"driving", "ending"} THEN caller[c].checkpoint
                                      ELSE NoCheckpoint
  BY AnsweredFields DEF IInv
<1>2. LET i == Idle(now) IN
        /\ i.at = "idle" /\ i.snap = NoEntry /\ i.leased = FALSE /\ i.todo = {}
        /\ i.checkpoint = NoCheckpoint /\ i = Idle(i.since)
  BY DEF Idle
<1>3. /\ caller'[c].snap = NoEntry /\ caller'[c].at = at /\ caller[c].leased \in BOOLEAN
      /\ caller'[c].leased = caller[c].leased
      /\ caller'[c].checkpoint \in {NoCheckpoint, caller[c].checkpoint}
      /\ caller'[c].todo \subseteq caller[c].todo
  BY <1>1, <1>2, CallerFields DEF Lands, IInv
<1>4. /\ at \notin Persisting /\ at \notin Locking /\ at # "writing" /\ at # "rollback"
  BY DEF Lands, Persisting, Locking
<1>5. nextSave \in Nat /\ nextSave \in 0..MaxSaves /\ NoCheckpoint.of = 0 /\ NoCheckpoint.n = 0
      /\ CallerSound(c)
  BY Types, CheckpointFields DEF IInv
<1>6. CallerSound(c)'
  <2>1. CASE at = "idle"
    BY <1>1, <1>2, <1>4, <1>5, <2>1 DEF CallerSound, Knows, Before, Running, Persisting
  <2>2. CASE at # "idle"
    BY <1>1, <1>3, <1>4, <1>5, <2>2 DEF CallerSound, Knows, Lands, Before, Running
  <2> QED
    BY <2>1, <2>2
<1>7. CallerStep(c)
  BY <1>1, <1>3, <1>4, <1>5, <1>6 DEF CallerStep, LockKept
<1>8. SnapsKept
  <2>1. \A b \in Callers : caller[b].snap # NoEntry => caller[b].session \in Sessions
    BY DEF IInv, CallerSound, Knows
  <2> QED
    BY <1>1, <1>3, <2>1 DEF SnapsKept
<1>9. \A s \in Sessions : RestoresKept(s)
  BY <1>1, <1>3, <1>4 DEF RestoresKept, Restoring
<1>10. pins' = pins => LeasesKept
  BY <1>1, <1>3 DEF LeasesKept, Lands
<1>11. \A b \in Callers : caller'[b].todo \subseteq caller[b].todo
  BY <1>1, <1>3
<1> QED
  BY <1>3, <1>7, <1>8, <1>9, <1>10, <1>11

\* The deletes owed shrink with the queues.
LEMMA OwedShrinks ==
  ASSUME pending' \subseteq Owed, \A b \in Callers : caller'[b].todo \subseteq Owed
  PROVE  Owed' \subseteq Owed
  BY DEF Owed

\* What a caller owes is owed.
LEMMA TodoOwed ==
  ASSUME NEW b \in Callers
  PROVE  caller[b].todo \subseteq Owed /\ pending \subseteq Owed
  BY DEF Owed

\* A caller whose next record is r.
LEMMA MovesStep ==
  ASSUME IInv, NEW c \in Callers, NEW r \in Caller, Moves(c, r), Knows(r, nextSave'),
         nextSave' \in {nextSave, nextSave + 1}, nextSave' \in 0..MaxSaves,
         r.checkpoint \in {NoCheckpoint, caller[c].checkpoint} \/ r.checkpoint.n = nextSave + 1,
         LockKept(c), r.at \in Locking => lock' = c
  PROVE  /\ CallerStep(c) /\ caller'[c] = r /\ \A b \in Callers \ {c} : caller'[b] = caller[b]
         /\ r.snap \in {NoEntry, map[r.session]} => SnapsKept
         /\ \A s \in Sessions : (r.session = s => ~Restoring(r)) => RestoresKept(s)
         /\ /\ pins' = pins /\ r.leased = caller[c].leased
            /\ r.leased => r.session = caller[c].session /\ r.id = caller[c].id
            => LeasesKept
         /\ pending' \subseteq Owed /\ r.todo \subseteq Owed => Owed' \subseteq Owed
<1>1. /\ caller' \in [Callers -> Caller] /\ caller'[c] = r
      /\ \A b \in Callers \ {c} : caller'[b] = caller[b]
  BY MovesFacts DEF IInv
<1>2. CallerStep(c)
  BY <1>1 DEF CallerStep, CallerSound, LockKept
<1>3. ASSUME r.snap \in {NoEntry, map[r.session]} PROVE SnapsKept
  <2>1. \A b \in Callers : caller[b].snap # NoEntry => caller[b].session \in Sessions
    BY DEF IInv, CallerSound, Knows
  <2>2. r.snap # NoEntry => r.session \in Sessions
    BY DEF Knows
  <2> QED
    BY <1>1, <1>3, <2>1, <2>2 DEF SnapsKept
<1>4. \A s \in Sessions : (r.session = s => ~Restoring(r)) => RestoresKept(s)
  BY <1>1 DEF RestoresKept
<1>5. ASSUME pins' = pins, r.leased = caller[c].leased,
             r.leased => r.session = caller[c].session /\ r.id = caller[c].id
      PROVE  LeasesKept
  BY <1>1, <1>5 DEF LeasesKept
<1>6. ASSUME pending' \subseteq Owed, r.todo \subseteq Owed PROVE Owed' \subseteq Owed
  BY <1>1, <1>6, TodoOwed, OwedShrinks
<1> QED
  BY <1>1, <1>2, <1>3, <1>4, <1>5, <1>6

\* Nothing happens to the files and the claims.
LEMMA FilesStay ==
  ASSUME IInv, disk' = disk, saved' = saved
  PROVE  /\ FilesKept /\ disk' \in [Sessions -> Entry \cup {NoEntry}]
         /\ saved' \in [Sessions -> Checkpoint]
         /\ \A s \in Sessions : saved'[s] # NoCheckpoint =>
              saved'[s] = saved[s] /\ Carries(disk'[s], saved[s])
  BY Types DEF IInv, FilesKept, ClaimSound

\* A caller answers without touching the map, a file or a claim.
LEMMA AnswersOutside ==
  ASSUME IInv, NEW c \in Callers, NEW at, Lands(c, at), caller[c].at # "idle", Answered(c, at),
         LockKept(c),
         UNCHANGED <<map, order, pins, pending, disk, now, nextId, nextSave, restarts, history>>
  PROVE  IInv'
<1>1. /\ CallerStep(c) /\ SnapsKept /\ \A s \in Sessions : RestoresKept(s)
      /\ LeasesKept /\ \A b \in Callers : caller'[b].todo \subseteq caller[b].todo
  BY AnsweredStep
<1>2. Owed' \subseteq Owed /\ pending' \subseteq Delete
  BY <1>1, TodoOwed, OwedShrinks, Types DEF IInv
<1>3. Outside(c)
  BY <1>1, <1>2, FilesStay DEF Outside, history
<1> QED
  BY <1>1, <1>3, FilesStay, OutsideStep DEF history

\* Another caller has drained the queue of deletes.
LEMMA SkipFlushKeeps ==
  ASSUME IInv, NEW c \in Callers, SkipFlush(c)
  PROVE  IInv'
<1>1. caller[c].at = "flush" /\ Answered(c, AfterFlush(c)) /\ CallerSound(c)
      /\ UNCHANGED <<store, lock, disk, now, nextId, nextSave, restarts, history>>
  BY DEF SkipFlush, IInv
<1>2. Lands(c, AfterFlush(c))
  BY <1>1, AfterFlushLands
<1>3. LockKept(c)
  BY <1>1, Types DEF LockKept, IInv
<1> QED
  BY <1>1, <1>2, <1>3, AnswersOutside DEF store

\* The queue is taken under the write lock: its deletes stay owed.
LEMMA TakeLockKeeps ==
  ASSUME IInv, NEW c \in Callers, TakeLock(c)
  PROVE  IInv'
<1> DEFINE at == IF caller[c].at = "flush" THEN "flushing" ELSE "locked"
           r == [caller[c] EXCEPT !.todo = pending, !.at = at]
<1>1. /\ caller[c].at \in {"flush", "persist"} /\ lock = Nobody /\ lock' = c /\ pending' = {}
      /\ Moves(c, r)
      /\ UNCHANGED <<map, order, pins, disk, now, nextId, nextSave, restarts, history>>
  BY DEF TakeLock
<1>2. caller[c] \in Caller /\ pending \subseteq Delete /\ at \in Places
      /\ Knows(caller[c], nextSave)
  BY Types, CallerFields DEF Places, IInv, CallerSound
<1>a. at = IF caller[c].at = "flush" THEN "flushing" ELSE "locked"
  OBVIOUS
<1> HIDE DEF at
<1>3. /\ r \in Caller /\ r.at = at /\ r.todo = pending /\ r.op = caller[c].op
      /\ r.session = caller[c].session /\ r.id = caller[c].id /\ r.checkpoint = caller[c].checkpoint
      /\ r.previous = caller[c].previous /\ r.snap = caller[c].snap /\ r.leased = caller[c].leased
  BY <1>2 DEF Caller
<1> HIDE DEF r
<1>4. Knows(r, nextSave') /\ r.snap = NoEntry
  BY <1>1, <1>2, <1>3, <1>a DEF Knows, Before, Running, Persisting
<1>5. LockKept(c) /\ nextSave' \in {nextSave, nextSave + 1} /\ nextSave' \in 0..MaxSaves
  BY <1>1, Types, ConversationStoreAssumption DEF LockKept, IInv
<1>6. /\ CallerStep(c) /\ caller'[c] = r /\ \A b \in Callers \ {c} : caller'[b] = caller[b]
      /\ SnapsKept /\ LeasesKept /\ Owed' \subseteq Owed
  BY <1>1, <1>3, <1>4, <1>5, TodoOwed, MovesStep
<1>7. \A s \in Sessions : RestoresKept(s)
  <2>1. Restoring(r) => Restoring(caller[c])
    BY <1>1, <1>3, <1>a DEF Restoring, Persisting
  <2>2. Written(r) = Written(caller[c])
    BY <1>3 DEF Written
  <2> QED
    BY <1>3, <1>6, <2>1, <2>2 DEF RestoresKept
<1>8. Outside(c)
  BY <1>1, <1>6, <1>7, FilesStay DEF Outside, history
<1> QED
  BY <1>1, <1>6, <1>8, FilesStay, OutsideStep DEF history

\* A deferred delete never removes the file of a claim: while the binding is in
\* the map its id protects it, and else no delete of it is owed.
LEMMA FlushOneKeeps ==
  ASSUME IInv, NEW c \in Callers, NEW d \in caller[c].todo, FlushOne(c, d)
  PROVE  IInv'
<1> DEFINE r == [caller[c] EXCEPT !.todo = @ \ {d}]
<1>1. /\ caller[c].at \in {"flushing", "locked"} /\ Moves(c, r)
      /\ disk' = IF MayUnlink(d) THEN [disk EXCEPT ![d.session] = NoEntry] ELSE disk
      /\ UNCHANGED <<store, lock, now, nextId, nextSave, restarts, history>>
  BY DEF FlushOne
<1>2. caller[c] \in Caller /\ caller[c].todo \subseteq Delete /\ Knows(caller[c], nextSave)
  BY CallerFields DEF IInv, CallerSound
<1>3. /\ r \in Caller /\ r.at = caller[c].at /\ r.todo \subseteq caller[c].todo
      /\ r.op = caller[c].op
      /\ r.session = caller[c].session /\ r.id = caller[c].id /\ r.checkpoint = caller[c].checkpoint
      /\ r.previous = caller[c].previous /\ r.snap = caller[c].snap /\ r.leased = caller[c].leased
  BY <1>2 DEF Caller
<1> HIDE DEF r
<1>4. Knows(r, nextSave') /\ r.snap = NoEntry
  BY <1>1, <1>2, <1>3 DEF Knows, Before, Running, Persisting
<1>5. /\ LockKept(c) /\ nextSave' \in {nextSave, nextSave + 1} /\ nextSave' \in 0..MaxSaves
      /\ r.at \in Locking => lock' = c
  BY <1>1, <1>3, Types, ConversationStoreAssumption DEF LockKept, IInv, LockExcludes, Locking
<1>6. /\ CallerStep(c) /\ caller'[c] = r /\ \A b \in Callers \ {c} : caller'[b] = caller[b]
      /\ SnapsKept /\ LeasesKept /\ Owed' \subseteq Owed
  BY <1>1, <1>3, <1>4, <1>5, TodoOwed, MovesStep DEF store
<1>7. \A s \in Sessions : RestoresKept(s)
  <2>1. Restoring(r) => Restoring(caller[c])
    BY <1>3 DEF Restoring
  <2>2. Written(r) = Written(caller[c])
    BY <1>3 DEF Written
  <2> QED
    BY <1>3, <1>6, <2>1, <2>2 DEF RestoresKept
<1>8. d.session \in Sessions /\ disk \in [Sessions -> Entry \cup {NoEntry}]
  BY <1>2, Types DEF Delete, IInv
<1>9. FilesKept /\ disk' \in [Sessions -> Entry \cup {NoEntry}]
  BY <1>1, <1>8 DEF FilesKept
<1>10. saved' = saved /\ saved \in [Sessions -> Checkpoint] /\ pending' \subseteq Delete
       /\ UNCHANGED <<map, order, now, nextId, restarts, rebound, expired>>
  BY <1>1, Types DEF store, history, IInv
<1>11. Outside(c)
  BY <1>6, <1>7, <1>9, <1>10 DEF Outside
<1>12. ASSUME NEW s \in Sessions, saved[s] # NoCheckpoint PROVE Carries(disk'[s], saved[s])
  <2>1. ClaimSound(s) /\ Carries(disk[s], saved[s])
    BY <1>12 DEF IInv, ClaimSound
  <2>2. MayUnlink(d) => d.session # s
    <3> SUFFICES ASSUME MayUnlink(d), d.session = s PROVE FALSE
      OBVIOUS
    <3>1. disk[s].id = saved[s].of /\ d \in Owed
      BY <2>1, TodoOwed DEF Carries
    <3>2. CASE map[s] = NoEntry
      BY <1>12, <2>1, <3>1, <3>2 DEF ClaimSound, MayUnlink
    <3>3. CASE map[s] # NoEntry
      BY <1>12, <2>1, <3>1, <3>3 DEF ClaimSound, MayUnlink
    <3> QED
      BY <3>2, <3>3
  <2> QED
    BY <1>1, <1>8, <2>1, <2>2
<1> QED
  BY <1>6, <1>10, <1>11, <1>12, OutsideStep

\* The lock is released when the queue is done.
LEMMA EndFlushKeeps ==
  ASSUME IInv, NEW c \in Callers, EndFlush(c)
  PROVE  IInv'
<1>1. caller[c].at = "flushing" /\ Answered(c, AfterFlush(c)) /\ CallerSound(c) /\ lock' = Nobody
      /\ UNCHANGED <<store, disk, now, nextId, nextSave, restarts, history>>
  BY DEF EndFlush, IInv
<1>2. Lands(c, AfterFlush(c))
  BY <1>1, AfterFlushLands
<1>3. LockKept(c)
  <2>1. lock = c
    BY <1>1 DEF IInv, LockExcludes, Locking
  <2> QED
    BY <1>1, <2>1 DEF LockKept
<1> QED
  BY <1>1, <1>2, <1>3, AnswersOutside DEF store

\* The binding has gone or was replaced.
LEMMA NothingToWriteKeeps ==
  ASSUME IInv, NEW c \in Callers, NothingToWrite(c)
  PROVE  IInv'
<1>1. caller[c].at = "locked" /\ Answered(c, After(c, FALSE)) /\ CallerSound(c) /\ lock' = Nobody
      /\ UNCHANGED <<store, disk, now, nextId, nextSave, restarts, history>>
  BY DEF NothingToWrite, IInv
<1>2. Lands(c, After(c, FALSE))
  BY <1>1, AfterLands DEF IInv, Persisting
<1>3. LockKept(c)
  <2>1. lock = c
    BY <1>1 DEF IInv, LockExcludes, Locking
  <2> QED
    BY <1>1, <2>1 DEF LockKept
<1> QED
  BY <1>1, <1>2, <1>3, AnswersOutside DEF store

\* The snapshot is the binding of the moment.
LEMMA SnapshotKeeps ==
  ASSUME IInv, NEW c \in Callers, Snapshot(c)
  PROVE  IInv'
<1> DEFINE s == caller[c].session
           r == [caller[c] EXCEPT !.at = "writing", !.snap = map[s]]
<1>1. /\ caller[c].at = "locked" /\ Current(c) /\ Moves(c, r)
      /\ UNCHANGED <<store, lock, disk, now, nextId, nextSave, restarts, history>>
  BY DEF Snapshot
<1>2. /\ caller[c] \in Caller /\ Knows(caller[c], nextSave) /\ s \in Sessions
      /\ map[s] \in Entry /\ map[s] # NoEntry /\ "writing" \in Places
      /\ caller[c].op \in Conditional => map[s].id = caller[c].id
  BY <1>1, Types, CallerFields DEF IInv, CallerSound, Knows, Current, Expected, Places
<1> HIDE DEF s
<1>3. /\ r \in Caller /\ r.at = "writing" /\ r.todo = caller[c].todo /\ r.op = caller[c].op
      /\ r.session = caller[c].session /\ r.id = caller[c].id /\ r.checkpoint = caller[c].checkpoint
      /\ r.previous = caller[c].previous /\ r.snap = map[s] /\ r.leased = caller[c].leased
  BY <1>2 DEF Caller
<1> HIDE DEF r
<1>4. Knows(r, nextSave')
  BY <1>1, <1>2, <1>3 DEF Knows, Before, Running, Persisting
<1>5. /\ LockKept(c) /\ nextSave' \in {nextSave, nextSave + 1} /\ nextSave' \in 0..MaxSaves
      /\ r.at \in Locking => lock' = c
  BY <1>1, <1>3, Types, ConversationStoreAssumption DEF LockKept, IInv, LockExcludes, Locking
<1>6. /\ CallerStep(c) /\ caller'[c] = r /\ \A b \in Callers \ {c} : caller'[b] = caller[b]
      /\ SnapsKept /\ LeasesKept /\ Owed' \subseteq Owed
  BY <1>1, <1>3, <1>4, <1>5, TodoOwed, MovesStep DEF store, s
<1>7. \A t \in Sessions : RestoresKept(t)
  <2>1. Restoring(r) => Restoring(caller[c])
    BY <1>1, <1>3 DEF Restoring, Persisting
  <2>2. Written(r) = Written(caller[c])
    BY <1>3 DEF Written
  <2> QED
    BY <1>3, <1>6, <2>1, <2>2 DEF RestoresKept
<1>8. Outside(c)
  BY <1>1, <1>6, <1>7, FilesStay, Types DEF Outside, history, store, IInv
<1> QED
  BY <1>1, <1>6, <1>8, FilesStay, OutsideStep DEF history

\* A writer holds the lock, and its snapshot is one of its binding.
LEMMA WriterHolds ==
  ASSUME IInv, NEW c \in Callers, caller[c].at = "writing"
  PROVE  /\ lock = c /\ \A b \in Callers \ {c} : caller[b].at # "writing"
                                                         /\ caller[b].snap = NoEntry
         /\ caller[c].snap \in Entry /\ caller[c].snap # NoEntry /\ caller[c].session \in Sessions
         /\ Knows(caller[c], nextSave)
<1>1. \A b \in Callers : caller[b].at = "writing" => lock = b
  BY DEF IInv, LockExcludes, Locking
<1>2. \A b \in Callers : caller[b].snap # NoEntry <=> caller[b].at = "writing"
  BY DEF IInv, CallerSound, Knows
<1>3. caller[c].snap \in Entry /\ caller[c].session \in Sessions /\ Knows(caller[c], nextSave)
  BY <1>2, CallerFields DEF IInv, CallerSound, Knows
<1> QED
  BY <1>1, <1>2, <1>3

\* The file becomes the snapshot, and what the driver is told is true of it: its
\* checkpoint is in the file and in the map, and no rollback can replace it.
LEMMA WriteSucceedsKeeps ==
  ASSUME IInv, NEW c \in Callers, WriteSucceeds(c)
  PROVE  IInv'
<1>v. PICK s, v : s = caller[c].session /\ v = caller[c].checkpoint
  OBVIOUS
<1> DEFINE claims == /\ caller[c].op \in Saves /\ Expected(c)
                     /\ {map[s].checkpoint, caller[c].snap.checkpoint} = {v}
<1>1. /\ caller[c].at = "writing" /\ Answered(c, After(c, TRUE)) /\ lock' = Nobody
      /\ disk' = [disk EXCEPT ![s] = caller[c].snap]
      /\ saved' = IF claims THEN [saved EXCEPT ![s] = v] ELSE saved
      /\ UNCHANGED <<store, now, nextId, nextSave, restarts, rebound, expired>>
  BY <1>v DEF WriteSucceeds
<1>2. /\ lock = c /\ \A b \in Callers \ {c} : caller[b].at # "writing" /\ caller[b].snap = NoEntry
      /\ caller[c].snap \in Entry /\ caller[c].snap # NoEntry /\ s \in Sessions
      /\ Knows(caller[c], nextSave) /\ v \in Checkpoint /\ CallerSound(c)
  BY <1>1, <1>v, WriterHolds, CallerFields DEF IInv
<1>3. claims => /\ map[s] # NoEntry /\ map[s].id = caller[c].id /\ caller[c].snap.id = caller[c].id
                /\ map[s].checkpoint = v /\ caller[c].snap.checkpoint = v /\ v # NoCheckpoint
                /\ v.of = caller[c].id /\ v.n \in Nat
  <2> SUFFICES ASSUME claims
               PROVE  /\ map[s] # NoEntry /\ map[s].id = caller[c].id
                      /\ caller[c].snap.id = caller[c].id
                      /\ map[s].checkpoint = v /\ caller[c].snap.checkpoint = v /\ v # NoCheckpoint
                      /\ v.of = caller[c].id /\ v.n \in Nat
    OBVIOUS
  <2>1. map[s] # NoEntry /\ map[s].id = caller[c].id
    BY <1>v DEF Expected
  <2>2. caller[c].op \in Conditional /\ v # NoCheckpoint /\ v.of \in {0, caller[c].id}
        /\ caller[c].snap.id = caller[c].id
    BY <1>1, <1>2, <1>v DEF Knows, Saves, Conditional, Persisting
  <2>3. v.of \in Ids /\ v.n \in Nat /\ 0 \notin Ids
    BY <1>2, <2>2, CheckpointFields DEF Ids
  <2>4. map[s].checkpoint = v /\ caller[c].snap.checkpoint = v
    OBVIOUS
  <2> QED
    BY <2>1, <2>2, <2>3, <2>4
<1> HIDE DEF claims
<1>4. Lands(c, After(c, TRUE)) /\ LockKept(c)
  BY <1>1, <1>2, AfterLands DEF IInv, Persisting, LockKept
<1>5. /\ CallerStep(c) /\ SnapsKept /\ \A t \in Sessions : RestoresKept(t)
      /\ LeasesKept /\ \A b \in Callers : caller'[b].todo \subseteq caller[b].todo
      /\ caller'[c].at = After(c, TRUE)
  BY <1>1, <1>4, AnsweredStep DEF store
<1>a. caller'[c].at \notin Persisting
  BY <1>4, <1>5 DEF Lands
<1>6. Owed' \subseteq Owed /\ pending' \subseteq Delete
  BY <1>1, <1>5, TodoOwed, OwedShrinks, Types DEF IInv, store
<1>7. disk \in [Sessions -> Entry \cup {NoEntry}] /\ saved \in [Sessions -> Checkpoint]
  BY Types DEF IInv
<1>8. FilesKept /\ disk' \in [Sessions -> Entry \cup {NoEntry}]
      /\ saved' \in [Sessions -> Checkpoint]
  BY <1>1, <1>2, <1>7, <1>v DEF FilesKept
<1>9. Outside(c)
  BY <1>1, <1>5, <1>6, <1>8 DEF Outside, store
<1>10. PinsCount' /\ pins' \in [Sessions -> 0..Cardinality(Callers)]
  BY <1>5, PinsStayCounted, Types DEF IInv, LeasesKept
<1>11. PinnedStays'
  BY <1>5, <1>9, PinnedKept DEF IInv, Outside
<1>12. ASSUME NEW t \in Sessions PROVE ClaimSound(t)'
  <2>0. ClaimSound(t) /\ BindingKept(t)
    BY <1>1 DEF IInv, BindingKept, store
  <2>1. CASE saved'[t] = saved[t]
    <3>1. ASSUME saved[t] # NoCheckpoint PROVE Carries(disk'[t], saved[t])
      <4>1. CASE t = s
        BY <1>1, <1>2, <1>7, <2>0, <3>1, <4>1, <1>v DEF ClaimSound
      <4>2. CASE t # s
        BY <1>1, <1>7, <2>0, <3>1, <4>2 DEF ClaimSound
      <4> QED
        BY <4>1, <4>2
    <3> QED
      BY <1>5, <1>6, <2>0, <2>1, <3>1, ClaimKept
  <2>2. CASE claims /\ t = s
    <3>1. saved'[t] = v /\ disk'[t] = caller[c].snap /\ map' = map
      BY <1>1, <1>2, <1>7, <2>2 DEF store
    <3>2. Carries(disk'[t], v)
      BY <1>2, <1>3, <2>2, <3>1 DEF Carries
    <3>3. \A b \in Callers : caller'[b].snap = NoEntry
      <4>1. caller'[c].at # "writing"
        BY <1>a DEF Persisting
      <4>2. \A b \in Callers : caller'[b].at # "writing" => caller'[b].snap = NoEntry
        BY <1>9, CallersStaySound DEF IInv, Outside, CallerSound, Knows
      <4> QED
        BY <1>2, <1>5, <4>1, <4>2 DEF CallerStep
    <3>4. Restorable(t, v.n, {v})'
      <4>1. ASSUME NEW b \in Callers, Restoring(caller'[b]), Written(caller'[b]) = v PROVE FALSE
        <5>1. caller'[b].checkpoint = v /\ caller'[b].at \in Persisting
          BY <1>3, <2>2, <4>1 DEF Written, Restoring
        <5>2. b # c
          BY <1>a, <5>1
        <5>3. caller[b].checkpoint = v
          BY <1>5, <5>1, <5>2 DEF CallerStep
        <5> QED
          BY <1>3, <1>v, <2>2, <5>2, <5>3 DEF IInv, CheckpointsDistinct
      <4>2. v.n >= v.n /\ map'[t].checkpoint = v
        BY <1>3, <2>2, <3>1
      <4> QED
        BY <4>1, <4>2 DEF Restorable
    <3>5. {v} \in SUBSET Checkpoint
      BY <1>2
    <3>6. map'[t] # NoEntry /\ map'[t].id = v.of
      BY <1>3, <2>2, <3>1
    <3>7. \E R \in SUBSET Checkpoint : Restorable(t, v.n, R)'
      BY <3>4, <3>5
    <3> QED
      BY <3>1, <3>2, <3>3, <3>6, <3>7 DEF ClaimSound, Carries
  <2> QED
    BY <1>1, <1>2, <1>7, <2>1, <2>2
<1> QED
  BY <1>9, <1>10, <1>11, <1>12, OutsideKeeps

\* A failed write leaves the old file or the snapshot; either carries the claim.
LEMMA WriteFailsKeeps ==
  ASSUME IInv, NEW c \in Callers, WriteFails(c)
  PROVE  IInv'
<1> DEFINE s == caller[c].session
           r == [caller[c] EXCEPT !.snap = NoEntry, !.at = "rollback"]
<1>1. /\ caller[c].at = "writing" /\ lock' = Nobody
      /\ \E f \in {disk[s], caller[c].snap} : disk' = [disk EXCEPT ![s] = f]
      /\ \/ caller[c].op \in Conditional /\ Moves(c, r)
         \/ caller[c].op \notin Conditional /\ Answered(c, After(c, FALSE))
      /\ UNCHANGED <<store, now, nextId, nextSave, restarts, history>>
  BY DEF WriteFails
<1>2. /\ lock = c /\ caller[c].snap \in Entry /\ s \in Sessions
      /\ caller[c].snap # NoEntry /\ Knows(caller[c], nextSave) /\ CallerSound(c)
  BY <1>1, WriterHolds DEF IInv
<1> HIDE DEF s
<1>3. LockKept(c) /\ nextSave' \in {nextSave, nextSave + 1} /\ nextSave' \in 0..MaxSaves
  BY <1>1, <1>2, Types, ConversationStoreAssumption DEF LockKept, IInv
<1>4. /\ CallerStep(c) /\ SnapsKept /\ \A t \in Sessions : RestoresKept(t)
      /\ LeasesKept /\ Owed' \subseteq Owed
  <2>1. CASE caller[c].op \in Conditional /\ Moves(c, r)
    <3>1. caller[c] \in Caller /\ "rollback" \in Places
      BY CallerFields DEF IInv, Places
    <3>2. /\ r \in Caller /\ r.at = "rollback" /\ r.todo = caller[c].todo /\ r.op = caller[c].op
          /\ r.session = caller[c].session /\ r.id = caller[c].id
          /\ r.checkpoint = caller[c].checkpoint
          /\ r.previous = caller[c].previous /\ r.snap = NoEntry /\ r.leased = caller[c].leased
      BY <3>1 DEF Caller
    <3> HIDE DEF r
    <3>3. Knows(r, nextSave') /\ r.at \notin Locking
      BY <1>1, <1>2, <2>1, <3>2 DEF Knows, Before, Running, Persisting, Locking
    <3>4. /\ CallerStep(c) /\ caller'[c] = r /\ \A b \in Callers \ {c} : caller'[b] = caller[b]
          /\ SnapsKept /\ LeasesKept /\ Owed' \subseteq Owed
      BY <1>1, <1>3, <2>1, <3>2, <3>3, TodoOwed, MovesStep DEF store
    <3>5. \A t \in Sessions : RestoresKept(t)
      <4>1. Restoring(r) => Restoring(caller[c])
        BY <1>1, <3>2 DEF Restoring, Persisting
      <4>2. Written(r) = Written(caller[c])
        BY <3>2 DEF Written
      <4> QED
        BY <3>2, <3>4, <4>1, <4>2 DEF RestoresKept
    <3> QED
      BY <3>4, <3>5
  <2>2. CASE Answered(c, After(c, FALSE))
    <3>1. Lands(c, After(c, FALSE))
      BY <1>1, <1>2, AfterLands DEF IInv, Persisting
    <3>2. /\ CallerStep(c) /\ SnapsKept /\ \A t \in Sessions : RestoresKept(t)
          /\ LeasesKept /\ \A b \in Callers : caller'[b].todo \subseteq caller[b].todo
      BY <1>1, <1>3, <2>2, <3>1, AnsweredStep DEF store
    <3> QED
      BY <1>1, <3>2, TodoOwed, OwedShrinks DEF store
  <2> QED
    BY <1>1, <2>1, <2>2
<1>5. disk \in [Sessions -> Entry \cup {NoEntry}] /\ saved \in [Sessions -> Checkpoint]
      /\ saved' = saved /\ pending' \subseteq Delete
      /\ UNCHANGED <<map, order, now, nextId, restarts, rebound, expired>>
  BY <1>1, Types DEF IInv, history, store
<1>6. FilesKept /\ disk' \in [Sessions -> Entry \cup {NoEntry}]
  BY <1>1, <1>2, <1>5 DEF FilesKept, s
<1>7. Outside(c)
  BY <1>4, <1>5, <1>6 DEF Outside
<1>8. ASSUME NEW t \in Sessions, saved[t] # NoCheckpoint PROVE Carries(disk'[t], saved[t])
  <2>1. ClaimSound(t)
    BY DEF IInv
  <2>2. Carries(disk[t], saved[t]) /\ (t = s => Carries(caller[c].snap, saved[t]))
    BY <1>2, <1>8, <2>1 DEF ClaimSound, s
  <2> QED
    BY <1>1, <1>2, <1>5, <2>2
<1> QED
  BY <1>4, <1>5, <1>7, <1>8, OutsideStep

\* A request starts.
LEMMA BeginKeeps ==
  ASSUME IInv, NEW c \in Callers, NEW s \in Sessions, Begin(c, s)
  PROVE  IInv'
<1> DEFINE i == Idle(now)
           r == [i EXCEPT !.at = "flush", !.op = "start", !.session = s]
<1>1. /\ caller[c].at = "idle" /\ Moves(c, r)
      /\ UNCHANGED <<store, lock, disk, now, nextId, nextSave, restarts, history>>
  BY DEF Begin
<1>2. caller[c] = Idle(caller[c].since) /\ i \in Caller /\ "flush" \in Places /\ "start" \in Flushes
  BY <1>1, ClockType, IdleType DEF IInv, CallerSound, Knows, Places, Flushes
<1>i. /\ i.todo = {} /\ i.checkpoint = NoCheckpoint /\ i.snap = NoEntry /\ i.leased = FALSE
      /\ caller[c].todo = {} /\ caller[c].checkpoint = NoCheckpoint /\ caller[c].snap = NoEntry
      /\ caller[c].leased = FALSE
  BY <1>2 DEF Idle
<1> HIDE DEF i
<1>3. /\ r \in Caller /\ r.at = "flush" /\ r.todo = i.todo /\ r.session = s
      /\ r.id = i.id /\ r.checkpoint = i.checkpoint /\ r.snap = i.snap
      /\ r.leased = i.leased
  BY <1>2 DEF Caller
<1> HIDE DEF r
<1>4. nextSave \in Nat /\ NoCheckpoint.of = 0 /\ NoCheckpoint.n = 0 /\ nextSave \in 0..MaxSaves
  BY Types, CheckpointFields DEF IInv
<1>5. Knows(r, nextSave') /\ r.at \notin Locking /\ ~Restoring(r)
  BY <1>1, <1>3, <1>i, <1>4 DEF Knows, Before, Running, Persisting, Locking, Restoring
<1>6. LockKept(c)
  BY <1>1, Types DEF LockKept, IInv
<1>7. /\ CallerStep(c) /\ SnapsKept /\ LeasesKept /\ Owed' \subseteq Owed
      /\ \A t \in Sessions : RestoresKept(t)
  BY <1>1, <1>2, <1>3, <1>i, <1>4, <1>5, <1>6, TodoOwed, MovesStep DEF store
<1>8. Outside(c)
  BY <1>1, <1>7, FilesStay, Types DEF Outside, history, store, IInv
<1> QED
  BY <1>1, <1>7, <1>8, FilesStay, OutsideStep DEF history

\* The sweep of an idle file ends its claim.
LEMMA SweepFileKeeps ==
  ASSUME IInv, NEW c \in Callers, NEW t \in Sessions, SweepFile(c, t)
  PROVE  IInv'
<1>1. /\ disk' = [disk EXCEPT ![t] = NoEntry] /\ saved' = [saved EXCEPT ![t] = NoCheckpoint]
      /\ UNCHANGED <<store, lock, now, nextId, nextSave, restarts, caller, rebound, expired>>
  BY DEF SweepFile
<1>2. /\ disk \in [Sessions -> Entry \cup {NoEntry}] /\ saved \in [Sessions -> Checkpoint]
      /\ NoCheckpoint \in Checkpoint /\ caller \in [Callers -> Caller] /\ CallerSound(c)
      /\ lock \in Callers \cup {Nobody} /\ nextSave \in 0..MaxSaves /\ pending \subseteq Delete
      /\ pins \in [Sessions -> 0..Cardinality(Callers)]
  BY Types, CheckpointFields DEF IInv
<1>3. CallerStep(c)
  <2>1. CallerSound(c)'
    BY <1>1, <1>2 DEF CallerSound
  <2> QED
    BY <1>1, <1>2, <2>1 DEF CallerStep, IInv, LockExcludes
<1>4. SnapsKept /\ FilesKept /\ \A s \in Sessions : RestoresKept(s)
  <2>1. \A b \in Callers : caller[b].snap # NoEntry => caller[b].session \in Sessions
    BY DEF IInv, CallerSound, Knows
  <2> QED
    BY <1>1, <1>2, <2>1 DEF SnapsKept, FilesKept, RestoresKept
<1>5. LeasesKept /\ Owed' = Owed
  BY <1>1 DEF LeasesKept, Owed, store
<1>6. Outside(c)
  BY <1>1, <1>2, <1>3, <1>4, <1>5 DEF Outside, store
<1>7. ASSUME NEW s \in Sessions, saved'[s] # NoCheckpoint
      PROVE  saved'[s] = saved[s] /\ Carries(disk'[s], saved[s])
  <2>1. s # t /\ saved'[s] = saved[s] /\ disk'[s] = disk[s]
    BY <1>1, <1>2, <1>7
  <2> QED
    BY <1>7, <2>1 DEF IInv, ClaimSound
<1> QED
  BY <1>5, <1>6, <1>7, OutsideStep

\* A caller with no write under way goes from r to another point.
LEMMA GoesOutside ==
  ASSUME IInv, NEW c \in Callers, NEW r \in Caller, Moves(c, r), Knows(r, nextSave),
         r.at \notin Locking, ~Restoring(r), r.snap = NoEntry, r.todo \subseteq caller[c].todo,
         r.checkpoint \in {NoCheckpoint, caller[c].checkpoint},
         UNCHANGED <<map, order, pending, lock, disk, now, nextId, nextSave, restarts, history>>
  PROVE  /\ Outside(c) /\ caller'[c] = r /\ \A b \in Callers \ {c} : caller'[b] = caller[b]
         /\ /\ pins' = pins /\ r.leased = caller[c].leased
            /\ r.leased => r.session = caller[c].session /\ r.id = caller[c].id
            => LeasesKept
<1>1. nextSave' = nextSave /\ nextSave \in 0..MaxSaves /\ LockKept(c) /\ pending' \subseteq Delete
      /\ pending' \subseteq Owed /\ r.todo \subseteq Owed
  BY Types, TodoOwed DEF IInv, LockKept
<1>2. /\ CallerStep(c) /\ SnapsKept /\ Owed' \subseteq Owed /\ \A s \in Sessions : RestoresKept(s)
      /\ caller'[c] = r /\ \A b \in Callers \ {c} : caller'[b] = caller[b]
      /\ /\ pins' = pins /\ r.leased = caller[c].leased
         /\ r.leased => r.session = caller[c].session /\ r.id = caller[c].id
         => LeasesKept
  BY <1>1, MovesStep
<1>3. FilesKept /\ disk' \in [Sessions -> Entry \cup {NoEntry}]
      /\ saved' \in [Sessions -> Checkpoint]
  BY FilesStay DEF history
<1> QED
  BY <1>1, <1>2, <1>3 DEF Outside, history

\* Such a move that takes and drops no lease.
LEMMA GoesOn ==
  ASSUME IInv, NEW c \in Callers, NEW r \in Caller, Moves(c, r), Knows(r, nextSave),
         r.at \notin Locking, ~Restoring(r), r.snap = NoEntry, r.todo \subseteq caller[c].todo,
         r.checkpoint \in {NoCheckpoint, caller[c].checkpoint}, r.leased = caller[c].leased,
         r.leased => r.session = caller[c].session /\ r.id = caller[c].id,
         UNCHANGED <<store, lock, disk, now, nextId, nextSave, restarts, history>>
  PROVE  IInv'
<1>1. UNCHANGED <<map, order, pending, lock, disk, now, nextId, nextSave, restarts, history>>
      /\ pins' = pins
  BY DEF store
<1>2. Outside(c) /\ LeasesKept
  BY <1>1, GoesOutside
<1> QED
  BY <1>2, FilesStay, OutsideStep DEF history

\* A continuation is looked up once more.
LEMMA GetAgainKeeps ==
  ASSUME IInv, NEW c \in Callers, caller[c].at \in {"normalize", "reread"}, GetAgain(c),
         UNCHANGED <<store, lock, disk, now, nextId, nextSave, restarts, history>>
  PROVE  IInv'
<1> DEFINE r == [caller[c] EXCEPT !.at = "flush", !.op = "start", !.id = 0, !.again = TRUE,
                                  !.since = now]
<1>1. Moves(c, r)
  BY DEF GetAgain
<1>2. /\ caller[c] \in Caller /\ Knows(caller[c], nextSave) /\ "flush" \in Places
      /\ "start" \in Flushes /\ 0 \in 0..MaxIds /\ now \in 0..MaxTime
  BY CallerFields, ClockType, ConversationStoreAssumption DEF IInv, CallerSound, Places, Flushes
<1>3. /\ r \in Caller /\ r.at = "flush" /\ r.todo = caller[c].todo /\ r.session = caller[c].session
      /\ r.id = 0 /\ r.checkpoint = caller[c].checkpoint /\ r.snap = caller[c].snap
      /\ r.leased = caller[c].leased
  BY <1>2 DEF Caller
<1> HIDE DEF r
<1>4. ~caller[c].leased /\ caller[c].snap = NoEntry /\ caller[c].checkpoint = NoCheckpoint
      /\ NoCheckpoint.of = 0
  BY <1>2, CheckpointFields DEF Knows, Before
<1>5. Knows(r, nextSave) /\ r.at \notin Locking /\ ~Restoring(r)
  BY <1>2, <1>3, <1>4 DEF Knows, Before, Running, Persisting, Locking, Restoring
<1> QED
  BY <1>1, <1>3, <1>4, <1>5, GoesOn

\* A continuation has found the binding it will pin.
LEMMA ToPinKeeps ==
  ASSUME IInv, NEW c \in Callers, caller[c].at \in {"normalize", "reread"}, NEW id \in Ids,
         Moves(c, [caller[c] EXCEPT !.at = "pin", !.id = id, !.since = now]),
         UNCHANGED <<store, lock, disk, now, nextId, nextSave, restarts, history>>
  PROVE  IInv'
<1> DEFINE r == [caller[c] EXCEPT !.at = "pin", !.id = id, !.since = now]
<1>1. Moves(c, r)
  OBVIOUS
<1>2. /\ caller[c] \in Caller /\ Knows(caller[c], nextSave) /\ "pin" \in Places /\ id \in 0..MaxIds
      /\ now \in 0..MaxTime
  BY CallerFields, ClockType, ConversationStoreAssumption DEF IInv, CallerSound, Places, Ids
<1>3. /\ r \in Caller /\ r.at = "pin" /\ r.todo = caller[c].todo /\ r.session = caller[c].session
      /\ r.id = id /\ r.checkpoint = caller[c].checkpoint /\ r.snap = caller[c].snap
      /\ r.leased = caller[c].leased
  BY <1>2 DEF Caller
<1> HIDE DEF r
<1>4. ~caller[c].leased /\ caller[c].snap = NoEntry /\ caller[c].checkpoint = NoCheckpoint
      /\ NoCheckpoint.of = 0
  BY <1>2, CheckpointFields DEF Knows, Before
<1>5. Knows(r, nextSave) /\ r.at \notin Locking /\ ~Restoring(r)
  BY <1>2, <1>3, <1>4 DEF Knows, Before, Running, Persisting, Locking, Restoring
<1> QED
  BY <1>1, <1>3, <1>4, <1>5, GoesOn

\* normalize_kv_store finds nothing to rotate, or the binding is read again.
LEMMA NormalizeKeeps ==
  ASSUME IInv, NEW c \in Callers, Normalize(c) \/ Reread(c)
  PROVE  IInv'
<1> DEFINE s == caller[c].session
<1>1. /\ caller[c].at \in {"normalize", "reread"}
      /\ \/ GetAgain(c)
         \/ /\ map[s] # NoEntry
            /\ Moves(c, [caller[c] EXCEPT !.at = "pin", !.id = map[s].id, !.since = now])
      /\ UNCHANGED <<store, lock, disk, now, nextId, nextSave, restarts, history>>
  BY DEF Normalize, Reread
<1>2. CASE GetAgain(c)
  BY <1>1, <1>2, GetAgainKeeps
<1>3. CASE /\ map[s] # NoEntry
           /\ Moves(c, [caller[c] EXCEPT !.at = "pin", !.id = map[s].id, !.since = now])
  <2>1. s \in Sessions
    BY <1>1 DEF IInv, CallerSound, Knows
  <2>2. map[s].id \in Ids
    BY <1>3, <2>1, Types DEF IInv, Entry
  <2> QED
    BY <1>1, <1>3, <2>2, ToPinKeeps
<1> QED
  BY <1>1, <1>2, <1>3

\* A stale binding ends what the driver persists.
LEMMA GiveUpKeeps ==
  ASSUME IInv, NEW c \in Callers, NEW op, GiveUp(c, op),
         caller[c].at \in {"driving", "ending", "merging"}
  PROVE  IInv'
<1> DEFINE at == IF op = "save" THEN "ending" ELSE "leaving"
<1>1. Answered(c, at) /\ UNCHANGED <<store, lock, disk, now, nextId, nextSave, restarts, history>>
  BY DEF GiveUp
<1>2. caller[c].leased
  BY DEF IInv, CallerSound, Knows, Running
<1>3. Lands(c, at)
  BY <1>2 DEF Lands, Places, Persisting, Locking, Before, Running
<1>4. LockKept(c) /\ caller[c].at # "idle"
  BY <1>1, Types DEF LockKept, IInv
<1> HIDE DEF at
<1> QED
  BY <1>1, <1>3, <1>4, AnswersOutside DEF store

\* The lease of a Run is dropped, and its pin with it.
LEMMA UnpinKeeps ==
  ASSUME IInv, NEW c \in Callers, Unpin(c)
  PROVE  IInv'
<1> DEFINE i == Idle(now)
<1>s. PICK s : s = caller[c].session
  OBVIOUS
<1>1. /\ caller[c].at \in {"driving", "ending", "merging", "leaving"}
      /\ pins' = [pins EXCEPT ![s] = @ - 1] /\ Moves(c, i)
      /\ UNCHANGED <<map, order, pending, lock, disk, now, nextId, nextSave, restarts, history>>
  BY <1>s DEF Unpin
<1>2. caller[c].leased /\ s \in Sessions
  BY <1>1, <1>s DEF IInv, CallerSound, Knows, Running
<1>i. /\ i \in Caller /\ i.at = "idle" /\ i.todo = {} /\ i.checkpoint = NoCheckpoint
      /\ i.snap = NoEntry /\ i.leased = FALSE
  BY ClockType, IdleType DEF IInv, Idle
<1>k. i = Idle(i.since)
  BY DEF Idle
<1> HIDE DEF i
<1>3. Knows(i, nextSave) /\ i.at \notin Locking /\ ~Restoring(i)
  <2>1. nextSave \in Nat /\ NoCheckpoint.of = 0 /\ NoCheckpoint.n = 0
    BY Types, CheckpointFields DEF IInv
  <2> QED
    BY <1>i, <1>k, <2>1 DEF Knows, Before, Running, Persisting, Locking, Restoring
<1>4. /\ Outside(c) /\ caller'[c] = i /\ \A b \in Callers \ {c} : caller'[b] = caller[b]
  BY <1>1, <1>i, <1>3, GoesOutside
<1>5. Holders(s)' = Holders(s) \ {c} /\ c \in Holders(s)
      /\ \A t \in Sessions \ {s} : Holders(t)' = Holders(t)
  BY <1>2, <1>4, <1>i, <1>s DEF Holders
<1>6. IsFiniteSet(Holders(s)) /\ Cardinality(Holders(s)) \in Nat
      /\ pins[s] = Cardinality(Holders(s))
  BY <1>2, HoldersFinite DEF IInv, PinsCount
<1>7. Cardinality(Holders(s)') = Cardinality(Holders(s)) - 1
  BY <1>5, <1>6, FS_RemoveElement
<1>8. PinsCount'
  <2>1. \A t \in Sessions : pins'[t] = IF t = s THEN pins[t] - 1 ELSE pins[t]
    BY <1>1, Types DEF IInv
  <2> QED
    BY <1>5, <1>6, <1>7, <2>1 DEF PinsCount, IInv
<1>9. pins' \in [Sessions -> 0..Cardinality(Callers)]
  <2>1. \A t \in Sessions : pins'[t] \in 0..Cardinality(Callers)
    <3> TAKE t \in Sessions
    <3>1. pins'[t] = Cardinality(Holders(t)')
      BY <1>8 DEF PinsCount
    <3>2. Holders(t)' = Holders(t)
                           \/ (t = s /\ Cardinality(Holders(t)') = Cardinality(Holders(t)) - 1)
      BY <1>5, <1>7
    <3>3. Cardinality(Holders(t)) \in 0..Cardinality(Callers) /\ Cardinality(Callers) \in Nat
      BY HoldersFinite
    <3>4. t = s => Cardinality(Holders(t)) # 0
      BY <1>5, <1>6, FS_EmptySet
    <3> QED
      BY <3>1, <3>2, <3>3, <3>4
  <2> QED
    BY <1>1, <2>1, Types DEF IInv
<1>10. PinnedStays'
  <2>1. \A b \in Callers : caller'[b].leased => caller[b].leased /\ caller'[b] = caller[b]
    BY <1>4, <1>i
  <2> QED
    BY <1>1, <2>1 DEF IInv, PinnedStays, history
<1>11. ASSUME NEW t \in Sessions PROVE ClaimSound(t)'
  <2>1. ClaimSound(t) /\ BindingKept(t) /\ saved'[t] = saved[t] /\ disk' = disk
    BY <1>1 DEF IInv, BindingKept, history
  <2>2. saved[t] # NoCheckpoint => Carries(disk[t], saved[t])
    BY <2>1 DEF ClaimSound
  <2> QED
    BY <1>4, <2>1, <2>2, ClaimKept DEF Outside
<1> QED
  BY <1>4, <1>8, <1>9, <1>10, <1>11, OutsideKeeps

-----------------------------------------------------------------------------
(* Steps that change the map.                                               *)

\* The other sessions of a step on session s keep their bindings, or lose
\* their claims with them; only deletes of their own are queued for those.
OthersStay(s) ==
  \A t \in Sessions \ {s} : saved'[t] # NoCheckpoint =>
    /\ saved'[t] = saved[t] /\ map'[t] = map[t]
    /\ \A d \in Owed' : d.session = t => d \in Owed

\* A step of c under STORE on the binding of session s.
Within(c, s) ==
  /\ CallerStep(c) /\ SnapsKept /\ \A t \in Sessions \ {s} : RestoresKept(t)
  /\ MapStep(s) /\ Lists(order', map') /\ OthersStay(s)
  /\ pending' \subseteq Delete /\ nextId' \in 0..MaxIds /\ expired' \subseteq Ids
  /\ saved' \in [Sessions -> Checkpoint]
  /\ rebound \subseteq rebound' /\ rebound' \subseteq Ids
  /\ UNCHANGED <<disk, now, restarts>>

\* The files do not change, so the claims of the other sessions stand.
LEMMA OtherClaims ==
  ASSUME IInv, NEW s, OthersStay(s), SnapsKept, disk' = disk, NEW t \in Sessions \ {s},
         RestoresKept(t)
  PROVE  ClaimSound(t)'
<1>1. ClaimSound(t) /\ saved'[t] \in {saved[t], NoCheckpoint}
  BY DEF IInv, OthersStay
<1>2. saved'[t] # NoCheckpoint =>
        /\ Carries(disk'[t], saved[t]) /\ BindingKept(t)
        /\ \A d \in Owed' : d.session = t => d \in Owed
  BY <1>1 DEF OthersStay, BindingKept, ClaimSound
<1> QED
  BY <1>1, <1>2, ClaimKept

\* Such a step keeps the invariant when the pins and the claim on s are sound
\* after it.
LEMMA WithinKeeps ==
  ASSUME IInv, NEW c \in Callers, NEW s \in Sessions, Within(c, s), ClaimSound(s)',
         PinsCount', pins' \in [Sessions -> 0..Cardinality(Callers)], PinnedStays'
  PROVE  IInv'
<1>1. (\A b \in Callers : CallerSound(b))' /\ CheckpointsDistinct' /\ LockExcludes'
  BY CallersStaySound DEF IInv, Within
<1>2. CopiesFollow
  <2>1. FilesKept
    BY DEF FilesKept, Within
  <2> QED
    BY <2>1, CopiesAreKept DEF Within
<1>3. BindingsSound'
  BY <1>2, BindingsStaySound DEF IInv, Within
<1>6. \A t \in Sessions : ClaimSound(t)'
  BY OtherClaims DEF Within
<1>7. TypeOK'
  <2>1. /\ disk' \in [Sessions -> Entry \cup {NoEntry}] /\ restarts' \in 0..MaxRestarts
        /\ now' \in 0..MaxTime
    BY Types DEF IInv, Within, MapStep
  <2>2. map' \in [Sessions -> Entry \cup {NoEntry}]
    BY DEF Within, MapStep
  <2>3. order' \in Seq(Sessions)
    BY DEF Within, Lists
  <2>4. caller' \in [Callers -> Caller] /\ lock' \in Callers \cup {Nobody}
        /\ nextSave' \in 0..MaxSaves
    BY DEF Within, CallerStep
  <2>5. /\ pending' \subseteq Delete /\ nextId' \in 0..MaxIds /\ expired' \subseteq Ids
        /\ saved' \in [Sessions -> Checkpoint] /\ rebound' \subseteq Ids
    BY DEF Within
  <2> QED
    BY <2>1, <2>2, <2>3, <2>4, <2>5 DEF TypeOK
<1>8. Lists(order, map)'
  BY DEF Within, Lists, Once
<1> QED
  BY <1>1, <1>3, <1>6, <1>7, <1>8 DEF IInv

\* The usual such step keeps the leases and what they pin.
LEMMA WithinStep ==
  ASSUME IInv, NEW c \in Callers, NEW s \in Sessions, Within(c, s), ClaimSound(s)', LeasesKept,
         \A t \in Sessions : Pinned(t) /\ map[t] # NoEntry =>
           map'[t] # NoEntry /\ (map'[t].id = map[t].id \/ map[t].id \in rebound')
  PROVE  IInv'
<1>1. PinsCount' /\ pins' \in [Sessions -> 0..Cardinality(Callers)]
  BY PinsStayCounted, Types DEF IInv, LeasesKept
<1>2. PinnedStays'
  BY PinnedKept DEF IInv, Within
<1> QED
  BY <1>1, <1>2, WithinKeeps

\* The claims that ClaimsWithout leaves.
LEMMA ClaimsLeft ==
  ASSUME TypeOK, NEW given, ClaimsWithout(given)
  PROVE  /\ saved' \in [Sessions -> Checkpoint]
         /\ \A t \in Sessions : saved'[t] # NoCheckpoint =>
              /\ saved'[t] = saved[t] /\ t \notin given
              /\ map[t] # NoEntry => map'[t] # NoEntry /\ map'[t].id = map[t].id
<1>1. saved \in [Sessions -> Checkpoint] /\ NoCheckpoint \in Checkpoint
  BY Types, CheckpointFields
<1> QED
  BY <1>1 DEF ClaimsWithout

\* The deletes owed after a step: queued by it, or owed before.
LEMMA OwedLater ==
  ASSUME \A b \in Callers : caller'[b].todo \subseteq caller[b].todo
  PROVE  \A d \in Owed' : d \in pending' \/ d \in Owed
  BY DEF Owed

\* An entry in the map is a binding.
LEMMA ResidentFacts ==
  ASSUME IInv, NEW t \in Sessions, map[t] # NoEntry
  PROVE  /\ map[t] \in Entry /\ map[t].id \in Ids /\ map[t].id \in Nat /\ map[t].id <= nextId
         /\ map[t].checkpoint \in Checkpoint
         /\ map[t].checkpoint.of \in {0, map[t].id} /\ map[t].blobs \in SUBSET Blobs
<1>1. map[t] \in Entry
  BY Types DEF IInv
<1>2. map[t] \in Bindings(t)
  BY DEF Bindings
<1>3. map[t].id <= nextId /\ map[t].checkpoint.of \in {0, map[t].id}
  BY <1>2 DEF IInv, BindingsSound
<1>4. MaxIds \in Nat
  BY ConversationStoreAssumption
<1> QED
  BY <1>1, <1>3, <1>4 DEF Entry, Ids

\* A touch of session s, whose binding has id and checkpoint v if it stays.
Touched(s, id, v, queued) ==
  /\ MapStep(s) /\ Lists(order', map') /\ pending' \subseteq Delete /\ expired' \subseteq Ids
  /\ \A t \in Sessions \ {s} :
       \/ map'[t] = map[t] /\ \A d \in pending' : d.session = t => d \in pending
       \/ map'[t] = NoEntry /\ map[t] # NoEntry /\ ~Pinned(t)
  /\ map'[s] = NoEntry => ~Pinned(s)
  /\ map'[s] # NoEntry => /\ map'[s].id = id /\ map'[s].checkpoint = v
                          /\ \A d \in pending' : d.session = s => d \in queued

\* What TouchAndEvict does to the map when m is the map with another binding
\* of session s: the one it has, its file, or a fresh one.
LEMMA TouchStep ==
  ASSUME IInv, NEW s \in Sessions, NEW m \in [Sessions -> Entry \cup {NoEntry}], NEW o,
         Lists(o, m), m[s] # NoEntry, \A t \in Sessions \ {s} : m[t] = map[t],
         NEW queued \in SUBSET Delete, \A d \in queued : d \in pending \/ d.session = s,
         NEW dead \in SUBSET Ids, NEW clock \in 0..MaxTime,
         TouchAndEvict(m, o, s, queued, dead, clock),
         nextId' \in {nextId, nextId + 1}, m[s].checkpoint.of \in {0, m[s].id},
         \/ map[s] # NoEntry /\ m[s].id = map[s].id
         \/ map[s] = NoEntry /\ disk[s] # NoEntry /\ m[s].id = disk[s].id
         \/ m[s].id = nextId + 1 /\ nextId' = nextId + 1
  PROVE  Touched(s, m[s].id, m[s].checkpoint, queued)
<1>1. PICK gone \in SUBSET Sessions : Evicts(m, s, queued, gone)
  BY TouchAndEvictFacts DEF IInv
<1>2. \A t \in gone : map'[t] = NoEntry /\ ~Pinned(t) /\ m[t] # NoEntry
  BY <1>1 DEF Evicts
<1>3. \A t \in Sessions \ gone : t # s => map'[t] = m[t]
  BY <1>1 DEF Evicts
<1>4. s \notin gone => /\ map'[s] # NoEntry /\ map'[s].id = m[s].id
                       /\ map'[s].checkpoint = m[s].checkpoint
  BY <1>1 DEF Evicts
<1>5. \A d \in pending' : d \in queued \/ d.session \in gone
  BY <1>1 DEF Evicts
<1>6. \A t \in Sessions \ {s} : \/ t \notin gone /\ map'[t] = map[t]
                                   /\ \A d \in pending' : d.session = t => d \in pending
                                \/ map'[t] = NoEntry /\ map[t] # NoEntry /\ ~Pinned(t)
  BY <1>2, <1>3, <1>5
<1>7. \A t \in Sessions : map[t] # NoEntry => map[t].checkpoint.of \in {0, map[t].id}
  BY ResidentFacts
<1>8. map' \in [Sessions -> Entry \cup {NoEntry}]
  BY <1>1 DEF Evicts
<1>9. \A t \in Sessions : map'[t] # NoEntry =>
       /\ map'[t].checkpoint.of \in {0, map'[t].id}
       /\ \/ map[t] # NoEntry /\ map'[t].id = map[t].id
          \/ t = s /\ map[t] = NoEntry /\ disk[t] # NoEntry /\ map'[t].id = disk[t].id
          \/ t = s /\ map'[t].id = nextId + 1 /\ nextId' = nextId + 1
  <2> TAKE t \in Sessions
  <2>1. CASE t # s
    BY <1>6, <1>7, <2>1
  <2>2. CASE t = s
    BY <1>2, <1>4, <1>7, <2>2
  <2> QED
    BY <2>1, <2>2
<1>11. MapStep(s)
  BY <1>8, <1>9 DEF MapStep
<1>12. Lists(order', map') /\ pending' \subseteq Delete /\ expired' \subseteq Ids
  BY <1>1 DEF Evicts
<1>13. map'[s] = NoEntry => ~Pinned(s)
  BY <1>2, <1>4
<1>14. map'[s] # NoEntry => /\ map'[s].id = m[s].id /\ map'[s].checkpoint = m[s].checkpoint
                            /\ \A d \in pending' : d.session = s => d \in queued
  BY <1>2, <1>4, <1>5
<1> QED
  BY <1>6, <1>11, <1>12, <1>13, <1>14 DEF Touched

\* A caller goes on with record r while the binding of its session changes.
LEMMA StoreMove ==
  ASSUME IInv, NEW c \in Callers, NEW r \in Caller, Moves(c, r), Knows(r, nextSave'),
         nextSave' \in {nextSave, nextSave + 1}, nextSave' \in 0..MaxSaves,
         r.checkpoint \in {NoCheckpoint, caller[c].checkpoint} \/ r.checkpoint.n = nextSave + 1,
         r.at \notin Locking, r.snap = NoEntry, r.todo = caller[c].todo, lock' = lock
  PROVE  /\ CallerStep(c) /\ SnapsKept /\ \A t \in Sessions \ {r.session} : RestoresKept(t)
         /\ ~Restoring(r) => \A t \in Sessions : RestoresKept(t)
         /\ caller'[c] = r /\ \A b \in Callers \ {c} : caller'[b] = caller[b]
         /\ \A b \in Callers : caller'[b].todo \subseteq caller[b].todo
         /\ /\ pins' = pins /\ r.leased = caller[c].leased
            /\ r.leased => r.session = caller[c].session /\ r.id = caller[c].id
            => LeasesKept
<1>1. LockKept(c)
  BY Types DEF IInv, LockKept
<1>2. /\ CallerStep(c) /\ caller'[c] = r /\ \A b \in Callers \ {c} : caller'[b] = caller[b]
      /\ SnapsKept
      /\ \A t \in Sessions : (r.session = t => ~Restoring(r)) => RestoresKept(t)
      /\ /\ pins' = pins /\ r.leased = caller[c].leased
         /\ r.leased => r.session = caller[c].session /\ r.id = caller[c].id
         => LeasesKept
  BY <1>1, MovesStep
<1> QED
  BY <1>2

\* A touch is a step within the store that unpins nothing.
LEMMA TouchWithin ==
  ASSUME IInv, NEW c \in Callers, NEW s \in Sessions, NEW id, NEW v, NEW queued,
         Touched(s, id, v, queued), CallerStep(c), SnapsKept,
         \A t \in Sessions \ {s} : RestoresKept(t),
         \A b \in Callers : caller'[b].todo \subseteq caller[b].todo,
         NEW given, ClaimsWithout(given), nextId' \in 0..MaxIds,
         Pinned(s) /\ map[s] # NoEntry => id = map[s].id,
         UNCHANGED <<disk, now, restarts, rebound>>
  PROVE  /\ Within(c, s)
         /\ \A t \in Sessions : Pinned(t) /\ map[t] # NoEntry =>
              map'[t] # NoEntry /\ (map'[t].id = map[t].id \/ map[t].id \in rebound')
<1>1. /\ saved' \in [Sessions -> Checkpoint]
      /\ \A t \in Sessions : saved'[t] # NoCheckpoint =>
           /\ saved'[t] = saved[t]
           /\ map[t] # NoEntry => map'[t] # NoEntry /\ map'[t].id = map[t].id
  BY ClaimsLeft DEF IInv
<1>2. \A d \in Owed' : d \in pending' \/ d \in Owed
  BY OwedLater
<1>3. pending \subseteq Owed
  BY TodoOwed
<1>4. OthersStay(s)
  <2> SUFFICES ASSUME NEW t \in Sessions \ {s}, saved'[t] # NoCheckpoint
               PROVE  /\ saved'[t] = saved[t] /\ map'[t] = map[t]
                      /\ \A d \in Owed' : d.session = t => d \in Owed
    BY DEF OthersStay
  <2>1. map'[t] = map[t] /\ \A d \in pending' : d.session = t => d \in pending
    BY <1>1 DEF Touched
  <2> QED
    BY <1>1, <1>2, <2>1, TodoOwed DEF Owed
<1>5. rebound' \subseteq Ids /\ rebound \subseteq rebound'
  BY Types DEF IInv
<1>6. Within(c, s)
  BY <1>1, <1>4, <1>5 DEF Within, Touched
<1> QED
  BY <1>6 DEF Touched

\* A touch that keeps the checkpoint of its binding keeps its claim.
LEMMA TouchKeepsClaim ==
  ASSUME IInv, NEW s \in Sessions, map[s] # NoEntry,
         Touched(s, map[s].id, map[s].checkpoint, pending), SnapsKept, RestoresKept(s),
         \A b \in Callers : caller'[b].todo \subseteq caller[b].todo,
         NEW given, ClaimsWithout(given), disk' = disk
  PROVE  ClaimSound(s)'
<1>1. ClaimSound(s) /\ saved'[s] \in {saved[s], NoCheckpoint}
  BY ClaimsLeft DEF IInv
<1>2. ASSUME saved'[s] # NoCheckpoint
      PROVE  /\ Carries(disk'[s], saved[s]) /\ BindingKept(s)
             /\ \A d \in Owed' : d.session = s => d \in Owed
  <2>1. saved'[s] = saved[s] /\ map'[s] # NoEntry
    BY <1>2, ClaimsLeft DEF IInv
  <2>2. BindingKept(s)
    BY <2>1 DEF BindingKept, Touched
  <2>3. \A d \in Owed' : d.session = s => d \in Owed
    <3>1. \A d \in Owed' : d \in pending' \/ d \in Owed
      BY OwedLater
    <3>2. \A d \in pending' : d.session = s => d \in pending
      BY <2>1 DEF Touched
    <3> QED
      BY <3>1, <3>2 DEF Owed
  <2> QED
    BY <1>1, <1>2, <2>1, <2>2, <2>3 DEF ClaimSound
<1> QED
  BY <1>1, <1>2, ClaimKept

\* A claim that ends is sound.
LEMMA ClaimEnds ==
  ASSUME IInv, NEW s \in Sessions, NEW given, s \in given, ClaimsWithout(given)
  PROVE  ClaimSound(s)'
<1>1. saved'[s] = NoCheckpoint
  BY ClaimsLeft DEF IInv
<1> QED
  BY <1>1 DEF ClaimSound

\* The binding of a session, changed.
LEMMA ChangedMap ==
  ASSUME IInv, NEW s \in Sessions, NEW e \in Entry
  PROVE  /\ [map EXCEPT ![s] = e] \in [Sessions -> Entry \cup {NoEntry}]
         /\ [map EXCEPT ![s] = e][s] = e /\ e # NoEntry
         /\ \A t \in Sessions \ {s} : [map EXCEPT ![s] = e][t] = map[t]
         /\ map[s] # NoEntry => Lists(order, [map EXCEPT ![s] = e])
<1>1. map \in [Sessions -> Entry \cup {NoEntry}] /\ e # NoEntry
  BY Types, NoEntryAssumption DEF IInv
<1>2. /\ [map EXCEPT ![s] = e] \in [Sessions -> Entry \cup {NoEntry}]
      /\ [map EXCEPT ![s] = e][s] = e
      /\ \A t \in Sessions \ {s} : [map EXCEPT ![s] = e][t] = map[t]
  BY <1>1
<1>3. map[s] # NoEntry => Lists(order, [map EXCEPT ![s] = e])
  <2> DEFINE m == [map EXCEPT ![s] = e]
  <2>1. m[s] # NoEntry /\ \A t \in Sessions \ {s} : m[t] = map[t]
    BY <1>1, <1>2
  <2> HIDE DEF m
  <2>2. Lists(order, map)
    BY DEF IInv
  <2>3. map[s] # NoEntry => \A t \in Sessions : m[t] = NoEntry <=> map[t] = NoEntry
    BY <2>1
  <2>4. map[s] # NoEntry => Lists(order, m)
    BY <2>2, <2>3, SameLists
  <2> QED
    BY <2>4 DEF m
<1> QED
  BY <1>1, <1>2, <1>3

\* get_or_create finds the binding in memory.
LEMMA LookupHitKeeps ==
  ASSUME IInv, NEW c \in Callers, LookupHit(c)
  PROVE  IInv'
<1>s. PICK s : s = caller[c].session
  OBVIOUS
<1> DEFINE r == [caller[c] EXCEPT !.at = "flush", !.op = "found", !.id = map[s].id]
           t0 == caller[c].since
<1>1. /\ caller[c].at = "lookup" /\ InMemory(s, t0)
      /\ TouchAndEvict(map, order, s, pending, expired, t0)
      /\ ClaimsWithout({}) /\ Moves(c, r)
      /\ UNCHANGED <<pins, lock, disk, now, nextId, nextSave, restarts, rebound>>
  BY <1>s DEF LookupHit, Found
<1>2. /\ caller[c] \in Caller /\ Knows(caller[c], nextSave) /\ s \in Sessions /\ map[s] # NoEntry
      /\ "flush" \in Places /\ "found" \in Flushes /\ map[s].id \in 0..MaxIds
  BY <1>1, <1>s, CallerFields, ResidentFacts, ConversationStoreAssumption
     DEF IInv, CallerSound, Knows, InMemory, Places, Flushes, Ids
<1>3. /\ r \in Caller /\ r.at = "flush" /\ r.todo = caller[c].todo /\ r.session = s
      /\ r.checkpoint = caller[c].checkpoint /\ r.snap = caller[c].snap
      /\ r.leased = caller[c].leased
  BY <1>2, <1>s DEF Caller
<1> HIDE DEF r
<1>4. ~caller[c].leased /\ caller[c].snap = NoEntry /\ caller[c].checkpoint = NoCheckpoint
      /\ NoCheckpoint.of = 0
  BY <1>1, <1>2, CheckpointFields DEF Knows, Before
<1>5. Knows(r, nextSave') /\ r.at \notin Locking /\ ~Restoring(r)
  BY <1>1, <1>2, <1>3, <1>4 DEF Knows, Before, Running, Persisting, Locking, Restoring
<1>6. /\ CallerStep(c) /\ SnapsKept /\ \A t \in Sessions : RestoresKept(t)
      /\ \A b \in Callers : caller'[b].todo \subseteq caller[b].todo
      /\ LeasesKept
  BY <1>1, <1>3, <1>4, <1>5, Types, StoreMove DEF IInv
<1>7. Touched(s, map[s].id, map[s].checkpoint, pending)
  BY <1>1, <1>2, ClockType, ResidentFacts, Types, TouchStep DEF IInv
<1>8. /\ Within(c, s)
      /\ \A t \in Sessions : Pinned(t) /\ map[t] # NoEntry =>
           map'[t] # NoEntry /\ (map'[t].id = map[t].id \/ map[t].id \in rebound')
  BY <1>1, <1>2, <1>6, <1>7, Types, TouchWithin DEF IInv
<1>9. ClaimSound(s)'
  BY <1>1, <1>2, <1>6, <1>7, TouchKeepsClaim
<1> QED
  BY <1>2, <1>6, <1>8, <1>9, WithinStep

\* A driver touches the binding of its Run and goes on to persist it; blobs
\* and checkpoint are the new ones.
LEMMA DriverTouch ==
  ASSUME IInv, NEW c \in Callers, NEW s \in Sessions, NEW r \in Caller, Moves(c, r),
         r.session = s, Knows(r, nextSave'),
         nextSave' \in {nextSave, nextSave + 1}, nextSave' \in 0..MaxSaves,
         r.checkpoint \in {NoCheckpoint, caller[c].checkpoint} \/ r.checkpoint.n = nextSave + 1,
         r.at = "persist", r.snap = NoEntry, r.todo = caller[c].todo,
         r.leased = caller[c].leased,
         r.leased => r.session = caller[c].session /\ r.id = caller[c].id,
         map[s] # NoEntry, NEW e \in Entry, e.id = map[s].id, e.checkpoint.of \in {0, e.id},
         \E t \in Clock(c) : TouchAndEvict([map EXCEPT ![s] = e], order, s, pending, expired, t),
         NEW given, ClaimsWithout(given),
         UNCHANGED <<pins, lock, disk, now, nextId, restarts, rebound>>
  PROVE  /\ Touched(s, map[s].id, e.checkpoint, pending)
         /\ SnapsKept /\ \A b \in Callers : caller'[b].todo \subseteq caller[b].todo
         /\ caller'[c] = r /\ \A b \in Callers \ {c} : caller'[b] = caller[b]
         /\ ~Restoring(r) => RestoresKept(s)
         /\ ClaimSound(s)' => IInv'
<1>1. /\ CallerStep(c) /\ SnapsKept /\ \A t \in Sessions \ {s} : RestoresKept(t)
      /\ ~Restoring(r) => \A t \in Sessions : RestoresKept(t)
      /\ caller'[c] = r /\ \A b \in Callers \ {c} : caller'[b] = caller[b]
      /\ \A b \in Callers : caller'[b].todo \subseteq caller[b].todo
      /\ LeasesKept
  <2>1. r.at \notin Locking
    BY DEF Locking
  <2> QED
    BY <2>1, StoreMove
<1> DEFINE m == [map EXCEPT ![s] = e]
<1>2. /\ m \in [Sessions -> Entry \cup {NoEntry}] /\ m[s] = e /\ m[s] # NoEntry
      /\ \A t \in Sessions \ {s} : m[t] = map[t]
      /\ Lists(order, m)
  BY ChangedMap
<1>3. PICK clock \in 0..MaxTime : TouchAndEvict(m, order, s, pending, expired, clock)
  BY ClockType DEF IInv
<1> HIDE DEF m
<1>4. Touched(s, m[s].id, m[s].checkpoint, pending)
  BY <1>2, <1>3, Types, TouchStep DEF IInv
<1>5. Touched(s, map[s].id, e.checkpoint, pending)
  BY <1>2, <1>4
<1>6. /\ Within(c, s)
      /\ \A t \in Sessions : Pinned(t) /\ map[t] # NoEntry =>
           map'[t] # NoEntry /\ (map'[t].id = map[t].id \/ map[t].id \in rebound')
  BY <1>1, <1>5, Types, TouchWithin DEF IInv
<1> QED
  BY <1>1, <1>5, <1>6, WithinStep

\* What a driver with a binding of its own is like.
LEMMA DriverFacts ==
  ASSUME IInv, NEW c \in Callers, caller[c].at \in {"driving", "ending", "merging"}, Expected(c)
  PROVE  /\ caller[c].session \in Sessions /\ map[caller[c].session] # NoEntry
         /\ map[caller[c].session].id = caller[c].id /\ caller[c].id \in Ids
         /\ caller[c].leased /\ caller[c].snap = NoEntry
         /\ caller[c] \in Caller /\ Knows(caller[c], nextSave) /\ "persist" \in Places
  BY CallerFields, ResidentFacts DEF IInv, CallerSound, Knows, Expected, Running, Places

\* merge_blobs_if_current: the checkpoint stays as it is.
LEMMA MergeKeeps ==
  ASSUME IInv, NEW c \in Callers, NEW blobs \in SUBSET Blobs, Merge(c, blobs)
  PROVE  IInv'
<1>s. PICK s : s = caller[c].session
  OBVIOUS
<1> DEFINE e == [map[s] EXCEPT !.blobs = @ \cup blobs]
           r == [caller[c] EXCEPT !.at = "persist", !.op = "merge", !.added = blobs \ map[s].blobs]
<1>0. caller[c].at \in {"driving", "ending", "merging"}
  BY DEF Merge
<1>1. CASE GiveUp(c, "merge")
  BY <1>0, <1>1, GiveUpKeeps
<1>2. CASE ~GiveUp(c, "merge")
  <2>1. /\ Expected(c) /\ ClaimsWithout({}) /\ Moves(c, r)
        /\ \E t \in Clock(c) :
             TouchAndEvict([map EXCEPT ![s].blobs = @ \cup blobs], order, s, pending, expired, t)
        /\ UNCHANGED <<pins, lock, disk, now, nextId, nextSave, restarts, rebound>>
    BY <1>2, <1>s DEF Merge
  <2>2. [map EXCEPT ![s].blobs = @ \cup blobs] = [map EXCEPT ![s] = e]
    OBVIOUS
  <2>3. /\ s \in Sessions /\ map[s] # NoEntry /\ map[s].id = caller[c].id /\ caller[c].leased
        /\ caller[c].snap = NoEntry /\ caller[c] \in Caller /\ Knows(caller[c], nextSave)
        /\ "persist" \in Places /\ "merge" \in Conditional
    BY <1>0, <1>s, <2>1, DriverFacts DEF Conditional
  <2>4. /\ e \in Entry /\ e.id = map[s].id /\ e.checkpoint = map[s].checkpoint
        /\ e.checkpoint.of \in {0, e.id}
    BY <2>3, ResidentFacts DEF Entry
  <2>5. \E t \in Clock(c) :
          TouchAndEvict([map EXCEPT ![s] = e], order, s, pending, expired, t)
    BY <2>1, <2>2
  <2> HIDE DEF e
  <2>6. /\ r \in Caller /\ r.at = "persist" /\ r.op = "merge" /\ r.todo = caller[c].todo
        /\ r.session = s /\ r.id = caller[c].id /\ r.checkpoint = caller[c].checkpoint
        /\ r.snap = NoEntry /\ r.leased /\ r.previous = caller[c].previous
    BY <1>s, <2>3 DEF Caller
  <2> HIDE DEF r
  <2>7. ~Restoring(r) /\ r.op \notin Saves
    BY <2>6 DEF Restoring, Saves
  <2>8. Knows(r, nextSave')
    BY <2>1, <2>3, <2>6 DEF Knows, Before, Running, Persisting, Unconditional, Conditional, Saves
  <2>9. /\ Touched(s, map[s].id, e.checkpoint, pending) /\ SnapsKept /\ RestoresKept(s)
        /\ \A b \in Callers : caller'[b].todo \subseteq caller[b].todo
        /\ ClaimSound(s)' => IInv'
    BY <1>s, <2>1, <2>3, <2>4, <2>5, <2>6, <2>7, <2>8, Types, DriverTouch DEF IInv
  <2>10. ClaimSound(s)'
    BY <2>1, <2>3, <2>4, <2>9, TouchKeepsClaim
  <2> QED
    BY <2>9, <2>10
<1> QED
  BY <1>1, <1>2

\* clear_checkpoint_if_current: the claim ends with the checkpoint.
LEMMA ClearKeeps ==
  ASSUME IInv, NEW c \in Callers, Clear(c)
  PROVE  IInv'
<1>s. PICK s : s = caller[c].session
  OBVIOUS
<1> DEFINE e == [map[s] EXCEPT !.checkpoint = NoCheckpoint]
           r == [caller[c] EXCEPT !.at = "persist", !.op = "clear", !.previous = map[s].checkpoint]
<1>0. caller[c].at \in {"driving", "ending", "merging"}
  BY DEF Clear
<1>1. CASE GiveUp(c, "clear")
  BY <1>0, <1>1, GiveUpKeeps
<1>2. CASE ~GiveUp(c, "clear")
  <2>1. /\ Expected(c) /\ ClaimsWithout({s}) /\ Moves(c, r)
        /\ \E t \in Clock(c) :
             TouchAndEvict([map EXCEPT ![s].checkpoint = NoCheckpoint], order, s, pending, expired, t)
        /\ UNCHANGED <<pins, lock, disk, now, nextId, nextSave, restarts, rebound>>
    BY <1>2, <1>s DEF Clear
  <2>2. [map EXCEPT ![s].checkpoint = NoCheckpoint] = [map EXCEPT ![s] = e]
    OBVIOUS
  <2>3. /\ s \in Sessions /\ map[s] # NoEntry /\ map[s].id = caller[c].id /\ caller[c].leased
        /\ caller[c].snap = NoEntry /\ caller[c] \in Caller /\ Knows(caller[c], nextSave)
        /\ "persist" \in Places /\ "clear" \in Conditional
    BY <1>0, <1>s, <2>1, DriverFacts DEF Conditional
  <2>4. /\ e \in Entry /\ e.id = map[s].id /\ e.checkpoint = NoCheckpoint
        /\ e.checkpoint.of \in {0, e.id}
    BY <2>3, ResidentFacts, CheckpointFields DEF Entry
  <2>5. \E t \in Clock(c) :
          TouchAndEvict([map EXCEPT ![s] = e], order, s, pending, expired, t)
    BY <2>1, <2>2
  <2> HIDE DEF e
  <2>6. map[s].checkpoint \in Checkpoint /\ map[s].checkpoint.of \in {0, map[s].id}
    BY <2>3, ResidentFacts
  <2>7. /\ r \in Caller /\ r.at = "persist" /\ r.op = "clear" /\ r.todo = caller[c].todo
        /\ r.session = s /\ r.id = caller[c].id /\ r.checkpoint = caller[c].checkpoint
        /\ r.snap = NoEntry /\ r.leased /\ r.previous = map[s].checkpoint
    BY <1>s, <2>3, <2>6 DEF Caller
  <2> HIDE DEF r
  <2>8. Knows(r, nextSave')
    BY <2>1, <2>3, <2>6, <2>7
       DEF Knows, Before, Running, Persisting, Unconditional, Conditional, Saves
  <2>9. ClaimSound(s)' => IInv'
    BY <1>s, <2>1, <2>3, <2>4, <2>5, <2>7, <2>8, Types, DriverTouch DEF IInv
  <2>10. ClaimSound(s)'
    BY <2>1, <2>3, ClaimEnds
  <2> QED
    BY <2>9, <2>10
<1> QED
  BY <1>1, <1>2

\* What a caller that resets a binding or clears its checkpoint is like: an
\* error path, or the driver of that binding.
LEMMA ErrorPathFacts ==
  ASSUME IInv, NEW c \in Callers, NEW s \in Sessions,
         caller[c].at = "idle" \/ (caller[c].at = "driving" /\ caller[c].session = s)
  PROVE  /\ caller[c] \in Caller /\ Knows(caller[c], nextSave) /\ "persist" \in Places
         /\ {"reset", "discard"} \subseteq Unconditional /\ NoCheckpoint \in Checkpoint
         /\ NoCheckpoint.of = 0 /\ NoCheckpoint.n = 0 /\ nextSave \in Nat
         /\ caller[c].snap = NoEntry /\ caller[c].leased \in BOOLEAN
         /\ caller[c].leased => caller[c].session = s
  BY CallerFields, CheckpointFields, Types
     DEF IInv, CallerSound, Knows, Idle, Places, Unconditional

\* The record of such a caller, once it goes on to persist.
ErrorPath(c, s, op) ==
  [caller[c] EXCEPT !.at = "persist", !.op = op, !.session = s, !.checkpoint = NoCheckpoint]

\* Such a record claims no image and restores none.
LEMMA ErrorPathMoves ==
  ASSUME IInv, NEW c \in Callers, NEW s \in Sessions, NEW op \in {"reset", "discard"},
         caller[c].at = "idle" \/ (caller[c].at = "driving" /\ caller[c].session = s)
  PROVE  LET r == ErrorPath(c, s, op)
         IN  /\ r \in Caller /\ r.at = "persist" /\ r.todo = caller[c].todo /\ r.session = s
             /\ r.id = caller[c].id /\ r.checkpoint = NoCheckpoint /\ r.snap = NoEntry
             /\ r.leased = caller[c].leased
             /\ r.leased => r.session = caller[c].session /\ r.id = caller[c].id
             /\ Knows(r, nextSave) /\ ~Restoring(r)
<1> DEFINE r == ErrorPath(c, s, op)
<1>1. /\ caller[c] \in Caller /\ Knows(caller[c], nextSave) /\ "persist" \in Places
      /\ op \in Unconditional /\ NoCheckpoint \in Checkpoint
      /\ NoCheckpoint.of = 0 /\ NoCheckpoint.n = 0 /\ nextSave \in Nat
      /\ caller[c].snap = NoEntry /\ caller[c].leased \in BOOLEAN
      /\ caller[c].leased => caller[c].session = s
  BY ErrorPathFacts
<1>2. r = [caller[c] EXCEPT !.at = "persist", !.op = op, !.session = s,
                            !.checkpoint = NoCheckpoint]
  BY DEF ErrorPath
<1> HIDE DEF r
<1>3. /\ r \in Caller /\ r.at = "persist" /\ r.todo = caller[c].todo /\ r.session = s
      /\ r.id = caller[c].id /\ r.checkpoint = NoCheckpoint /\ r.snap = NoEntry
      /\ r.leased = caller[c].leased /\ r.op = op
  BY <1>1, <1>2 DEF Caller
<1>4. Knows(r, nextSave) /\ ~Restoring(r)
  BY <1>1, <1>3
     DEF Knows, Before, Running, Persisting, Unconditional, Conditional, Saves, Restoring
<1>5. r.leased => r.session = caller[c].session /\ r.id = caller[c].id
  BY <1>1, <1>3
<1> QED
  BY <1>3, <1>4, <1>5 DEF r

\* clear_checkpoint: an image Cursor no longer has.
LEMMA DiscardKeeps ==
  ASSUME IInv, NEW c \in Callers, NEW s \in Sessions, Discard(c, s)
  PROVE  IInv'
<1> DEFINE e == [map[s] EXCEPT !.checkpoint = NoCheckpoint]
           r == ErrorPath(c, s, "discard")
<1>1. /\ caller[c].at = "idle" \/ (caller[c].at = "driving" /\ caller[c].session = s)
      /\ map[s] # NoEntry /\ ClaimsWithout({s}) /\ Moves(c, r)
      /\ \E t \in Clock(c) :
           TouchAndEvict([map EXCEPT ![s].checkpoint = NoCheckpoint], order, s, pending, expired, t)
      /\ UNCHANGED <<pins, lock, disk, now, nextId, nextSave, restarts, rebound>>
  BY DEF Discard, ErrorPath
<1>2. [map EXCEPT ![s].checkpoint = NoCheckpoint] = [map EXCEPT ![s] = e]
  OBVIOUS
<1>3. /\ e \in Entry /\ e.id = map[s].id /\ e.checkpoint = NoCheckpoint
      /\ e.checkpoint.of \in {0, e.id}
  BY <1>1, ResidentFacts, CheckpointFields DEF Entry
<1>4. \E t \in Clock(c) :
        TouchAndEvict([map EXCEPT ![s] = e], order, s, pending, expired, t)
  BY <1>1, <1>2
<1>5. /\ r \in Caller /\ r.at = "persist" /\ r.todo = caller[c].todo /\ r.session = s
      /\ r.id = caller[c].id /\ r.checkpoint = NoCheckpoint /\ r.snap = NoEntry
      /\ r.leased = caller[c].leased
      /\ r.leased => r.session = caller[c].session /\ r.id = caller[c].id
      /\ Knows(r, nextSave')
  <2>1. "discard" \in {"reset", "discard"}
    OBVIOUS
  <2>2. caller[c].at = "idle" \/ (caller[c].at = "driving" /\ caller[c].session = s)
    BY <1>1
  <2>3. /\ r \in Caller /\ r.at = "persist" /\ r.todo = caller[c].todo /\ r.session = s
        /\ r.id = caller[c].id /\ r.checkpoint = NoCheckpoint /\ r.snap = NoEntry
        /\ r.leased = caller[c].leased
        /\ r.leased => r.session = caller[c].session /\ r.id = caller[c].id
        /\ Knows(r, nextSave) /\ ~Restoring(r)
    BY <2>1, <2>2, ErrorPathMoves
  <2> QED
    BY <1>1, <2>3
<1> HIDE DEF e, r
<1>6. ClaimSound(s)' => IInv'
  BY <1>1, <1>3, <1>4, <1>5, Types, DriverTouch DEF IInv
<1>7. ClaimSound(s)'
  BY <1>1, ClaimEnds
<1> QED
  BY <1>6, <1>7

\* A checkpoint added to those that can be restored: no rollback under way
\* would replace it, and its own restores the checkpoint it replaced.
LEMMA SaveKeepsClaim ==
  ASSUME IInv, NEW c \in Callers, NEW s \in Sessions, NEW w \in Checkpoint, map[s] # NoEntry,
         w # NoCheckpoint, w.n = nextSave + 1 \/ w = caller[c].checkpoint,
         Touched(s, map[s].id, w, pending), SnapsKept, disk' = disk,
         \A b \in Callers \ {c} : caller'[b] = caller[b],
         caller'[c].previous = map[s].checkpoint, caller[c].session = s,
         ClaimsWithout({t \in {s} : saved[t].n > w.n})
  PROVE  ClaimSound(s)'
<1>1. /\ ClaimSound(s) /\ saved'[s] \in {saved[s], NoCheckpoint}
      /\ saved'[s] # NoCheckpoint => saved'[s] = saved[s] /\ map'[s] # NoEntry
                                /\ ~(saved[s].n > w.n)
  BY ClaimsLeft DEF IInv
<1>2. ASSUME saved'[s] # NoCheckpoint
      PROVE  /\ Carries(disk'[s], saved[s])
             /\ map'[s] # NoEntry /\ map'[s].id = saved[s].of
             /\ \E R \in SUBSET Checkpoint : Restorable(s, saved[s].n, R)'
  <2>1. /\ saved[s] # NoCheckpoint /\ map'[s] # NoEntry /\ saved[s].n <= w.n
        /\ map'[s].id = map[s].id /\ map'[s].checkpoint = w
    <3>1. saved[s] \in Checkpoint
      BY Types DEF IInv
    <3>2. saved[s].n \in Nat /\ w.n \in Nat
      BY <3>1, CheckpointFields
    <3> QED
      BY <1>1, <1>2, <3>2 DEF Touched
  <2>2. PICK R \in SUBSET Checkpoint : Restorable(s, saved[s].n, R)
    BY <1>1, <2>1 DEF ClaimSound
  <2>3. \A b \in Callers \ {c} : caller[b].checkpoint # w
    <3> SUFFICES ASSUME NEW b \in Callers \ {c}, caller[b].checkpoint = w PROVE FALSE
      OBVIOUS
    <3>1. CASE w = caller[c].checkpoint
      BY <3>1 DEF IInv, CheckpointsDistinct
    <3>2. CASE w.n = nextSave + 1
      <4>1. w.n <= nextSave /\ nextSave \in Nat
        BY Types DEF IInv, CallerSound, Knows
      <4> QED
        BY <3>2, <4>1
    <3> QED
      BY <3>1, <3>2
  <2> DEFINE Q == R \cup {w}
  <2>4. Q \in SUBSET Checkpoint /\ map'[s].checkpoint \in Q
    BY <2>1
  <2>5. \A v \in Q : v.n >= saved[s].n
    BY <2>1, <2>2 DEF Restorable
  <2>6. \A b \in Callers :
          Restoring(caller'[b]) /\ caller'[b].session = s /\ Written(caller'[b]) \in Q =>
            caller'[b].previous \in Q
    <3> SUFFICES ASSUME NEW b \in Callers, Restoring(caller'[b]), caller'[b].session = s,
                        Written(caller'[b]) \in Q
                 PROVE  caller'[b].previous \in Q
      OBVIOUS
    <3>1. CASE b = c
      BY <2>2, <3>1 DEF Restorable
    <3>2. CASE b # c
      <4>1. caller'[b] = caller[b]
        BY <3>2
      <4>2. Written(caller[b]) # w
        BY <2>3, <3>2 DEF Written
      <4> QED
        BY <2>2, <4>1, <4>2 DEF Restorable
    <3> QED
      BY <3>1, <3>2
  <2> HIDE DEF Q
  <2>7. Restorable(s, saved[s].n, Q)'
    BY <1>1, <1>2, <2>4, <2>5, <2>6 DEF Restorable
  <2>8. Carries(disk'[s], saved[s]) /\ map'[s].id = saved[s].of
    BY <1>1, <2>1 DEF ClaimSound
  <2> QED
    BY <2>1, <2>4, <2>7, <2>8
<1> QED
  BY <1>1, <1>2, ClaimStays

\* save_checkpoint_if_current: a new checkpoint, or the last one again.
LEMMA SaveKeeps ==
  ASSUME IInv, NEW c \in Callers, NEW op \in Saves, Save(c, op)
  PROVE  IInv'
<1>s. PICK s : s = caller[c].session
  OBVIOUS
<1>w. PICK w : w = IF op = "final" /\ caller[c].checkpoint # NoCheckpoint THEN caller[c].checkpoint
                   ELSE [of |-> caller[c].id, n |-> nextSave + 1]
  OBVIOUS
<1> DEFINE last == op = "final" /\ caller[c].checkpoint # NoCheckpoint
           e == [map[s] EXCEPT !.checkpoint = w]
           r == [caller[c] EXCEPT !.at = "persist", !.op = op, !.checkpoint = w,
                                  !.previous = map[s].checkpoint]
<1>0. caller[c].at \in {"driving", "ending", "merging"} /\ (last \/ nextSave < MaxSaves)
  BY DEF Save
<1>1. CASE GiveUp(c, op)
  BY <1>0, <1>1, GiveUpKeeps
<1>2. CASE ~GiveUp(c, op)
  <2>1. /\ Expected(c) /\ ClaimsWithout({t \in {s} : saved[t].n > w.n}) /\ Moves(c, r)
        /\ \E t \in Clock(c) :
             TouchAndEvict([map EXCEPT ![s].checkpoint = w], order, s, pending, expired, t)
        /\ nextSave' = IF last THEN nextSave ELSE nextSave + 1
        /\ UNCHANGED <<pins, lock, disk, now, nextId, restarts, rebound>>
    BY <1>2, <1>s, <1>w DEF Save
  <2>2. [map EXCEPT ![s].checkpoint = w] = [map EXCEPT ![s] = e]
    OBVIOUS
  <2>3. /\ s \in Sessions /\ map[s] # NoEntry /\ map[s].id = caller[c].id /\ caller[c].leased
        /\ caller[c].snap = NoEntry /\ caller[c] \in Caller /\ Knows(caller[c], nextSave)
        /\ "persist" \in Places /\ op \in Conditional /\ caller[c].id \in Ids
    BY <1>0, <1>s, <2>1, DriverFacts DEF Conditional, Saves
  <2>n. /\ nextSave' \in {nextSave, nextSave + 1} /\ nextSave' \in 0..MaxSaves /\ nextSave \in Nat
        /\ nextSave' \in Nat /\ MaxSaves \in Nat
    BY <1>0, <2>1, Types DEF IInv
  <2>4. /\ w \in Checkpoint /\ w # NoCheckpoint /\ w.of = caller[c].id /\ w.n <= nextSave'
        /\ \/ last /\ w = caller[c].checkpoint
           \/ ~last /\ w.n = nextSave + 1
    <3>1. CASE last
      <4>1. w = caller[c].checkpoint /\ w \in Checkpoint /\ w # NoCheckpoint
        BY <1>w, <2>3, <3>1 DEF Caller
      <4>2. w.of \in Ids /\ 0 \notin Ids
        BY <4>1, CheckpointFields DEF Ids
      <4> QED
        BY <2>1, <2>3, <3>1, <4>1, <4>2 DEF Knows
    <3>2. CASE ~last
      <4>1. w = [of |-> caller[c].id, n |-> nextSave + 1] /\ nextSave + 1 \in 1..MaxSaves
        BY <1>0, <1>w, <2>n, <3>2
      <4>2. w.of # 0
        BY <2>3, <4>1 DEF Ids
      <4> QED
        BY <2>1, <2>3, <2>n, <3>2, <4>1, <4>2 DEF Checkpoint, NoCheckpoint
    <3> QED
      BY <3>1, <3>2
  <2>5. e \in Entry /\ e.id = map[s].id /\ e.checkpoint = w /\ e.checkpoint.of \in {0, e.id}
    BY <2>3, <2>4, ResidentFacts DEF Entry
  <2>6. \E t \in Clock(c) :
          TouchAndEvict([map EXCEPT ![s] = e], order, s, pending, expired, t)
    BY <2>1, <2>2
  <2> HIDE DEF e
  <2>7. map[s].checkpoint \in Checkpoint /\ map[s].checkpoint.of \in {0, map[s].id}
    BY <2>3, ResidentFacts
  <2>8. /\ r \in Caller /\ r.at = "persist" /\ r.op = op /\ r.todo = caller[c].todo
        /\ r.session = s /\ r.id = caller[c].id /\ r.checkpoint = w
        /\ r.snap = NoEntry /\ r.leased /\ r.previous = map[s].checkpoint
    BY <1>s, <2>3, <2>4, <2>7 DEF Caller
  <2> HIDE DEF r
  <2>9. Knows(r, nextSave')
    BY <2>3, <2>4, <2>7, <2>8
       DEF Knows, Before, Running, Persisting, Unconditional, Conditional, Saves
  <2>m. /\ r.checkpoint \in {NoCheckpoint, caller[c].checkpoint} \/ r.checkpoint.n = nextSave + 1
        /\ r.leased = caller[c].leased /\ r.session = caller[c].session /\ r.id = caller[c].id
        /\ r.snap = NoEntry /\ r.at = "persist" /\ r.todo = caller[c].todo /\ Moves(c, r)
        /\ UNCHANGED <<pins, lock, disk, now, nextId, restarts, rebound>>
    BY <1>s, <2>1, <2>3, <2>4, <2>8
  <2>c. ClaimsWithout({t \in {s} : saved[t].n > w.n})
    BY <2>1
  <2>10. /\ Touched(s, map[s].id, w, pending) /\ SnapsKept
         /\ caller'[c] = r /\ \A b \in Callers \ {c} : caller'[b] = caller[b]
         /\ ClaimSound(s)' => IInv'
    BY <2>3, <2>5, <2>6, <2>c, <2>m, <2>n, <2>8, <2>9, DriverTouch, ZenonT(60)
  <2>11. ClaimSound(s)'
    BY <1>s, <2>1, <2>3, <2>4, <2>8, <2>10, SaveKeepsClaim
  <2> QED
    BY <2>10, <2>11
<1> QED
  BY <1>1, <1>2

\* An entry for a fresh conversation.
LEMMA FreshFacts ==
  ASSUME IInv, nextId < MaxIds
  PROVE  /\ nextId + 1 \in Ids /\ nextId + 1 \in 0..MaxIds
         /\ \A t \in 0..MaxTime : /\ Fresh(nextId + 1, t) \in Entry
                                  /\ Fresh(nextId + 1, t).id = nextId + 1
                                  /\ Fresh(nextId + 1, t).checkpoint = NoCheckpoint
         /\ NoCheckpoint.of = 0 /\ NoCheckpoint.n = 0
<1>1. nextId + 1 \in Ids /\ nextId + 1 \in 0..MaxIds
  BY Types DEF IInv, Ids
<1> QED
  BY <1>1, CheckpointFields DEF Fresh, Entry

\* The binding of s alone is replaced by a fresh one.
LEMMA ReplacedWithin ==
  ASSUME IInv, NEW c \in Callers, NEW s \in Sessions, nextId < MaxIds, nextId' = nextId + 1,
         NEW clock \in 0..MaxTime,
         map' = [map EXCEPT ![s] = Fresh(nextId + 1, clock)], Lists(order', map'),
         CallerStep(c), SnapsKept, \A t \in Sessions \ {s} : RestoresKept(t),
         \A b \in Callers : caller'[b].todo \subseteq caller[b].todo,
         NEW given, ClaimsWithout(given), rebound \subseteq rebound', rebound' \subseteq Ids,
         UNCHANGED <<pending, disk, now, restarts, expired>>
  PROVE  /\ Within(c, s)
         /\ \A t \in Sessions \ {s} : map'[t] = map[t]
         /\ map'[s] # NoEntry /\ map'[s].id = nextId + 1
<1>1. /\ nextId + 1 \in Ids /\ nextId + 1 \in 0..MaxIds /\ Fresh(nextId + 1, clock) \in Entry
      /\ Fresh(nextId + 1, clock).id = nextId + 1
      /\ Fresh(nextId + 1, clock).checkpoint = NoCheckpoint /\ NoCheckpoint.of = 0
  BY FreshFacts
<1>2. /\ map' \in [Sessions -> Entry \cup {NoEntry}] /\ map'[s] = Fresh(nextId + 1, clock)
      /\ map'[s] # NoEntry /\ \A t \in Sessions \ {s} : map'[t] = map[t]
  BY <1>1, ChangedMap
<1>3. pending \subseteq Delete /\ expired \subseteq Ids
      /\ \A t \in Sessions : map[t] # NoEntry => map[t].checkpoint.of \in {0, map[t].id}
  BY ResidentFacts, Types DEF IInv
<1>4. MapStep(s)
  <2>1. \A t \in Sessions : map'[t] # NoEntry =>
         /\ map'[t].checkpoint.of \in {0, map'[t].id}
         /\ \/ map[t] # NoEntry /\ map'[t].id = map[t].id
            \/ t = s /\ map'[t].id = nextId + 1 /\ nextId' = nextId + 1
    <3> TAKE t \in Sessions
    <3>1. CASE t = s
      BY <1>1, <1>2, <1>3, <3>1
    <3>2. CASE t # s
      BY <1>2, <1>3, <3>2
    <3> QED
      BY <3>1, <3>2
  <2> QED
    BY <1>2, <2>1 DEF MapStep
<1>5. /\ saved' \in [Sessions -> Checkpoint]
      /\ \A t \in Sessions : saved'[t] # NoCheckpoint => saved'[t] = saved[t]
  BY ClaimsLeft DEF IInv
<1>6. \A d \in Owed' : d \in Owed
  BY OwedLater, TodoOwed DEF Owed
<1>7. OthersStay(s)
  BY <1>2, <1>5, <1>6 DEF OthersStay
<1>8. Within(c, s)
  BY <1>1, <1>3, <1>4, <1>5, <1>7 DEF Within
<1> QED
  BY <1>1, <1>2, <1>8

\* normalize_kv_store replaces a binding that nobody has pinned.
LEMMA RotateKeeps ==
  ASSUME IInv, NEW c \in Callers, Rotate(c)
  PROVE  IInv'
<1>s. PICK s : s = caller[c].session
  OBVIOUS
<1> DEFINE r == [caller[c] EXCEPT !.at = "persist", !.op = "rotate"]
<1>1. /\ caller[c].at = "normalize" /\ map[s] # NoEntry /\ ~Pinned(s)
      /\ nextId < MaxIds /\ nextId' = nextId + 1
      /\ \E t \in Clock(c) : map' = [map EXCEPT ![s] = Fresh(nextId + 1, t)]
      /\ ClaimsWithout({}) /\ Moves(c, r)
      /\ UNCHANGED <<order, pins, pending, lock, disk, now, nextSave, restarts, rebound, expired>>
  BY <1>s DEF Rotate, MayRotate
<1>t. PICK clock \in 0..MaxTime : map' = [map EXCEPT ![s] = Fresh(nextId + 1, clock)]
  BY <1>1, ClockType DEF IInv
<1>2. /\ caller[c] \in Caller /\ Knows(caller[c], nextSave) /\ s \in Sessions
      /\ "persist" \in Places /\ "rotate" \in Unconditional
  BY <1>1, <1>s, CallerFields DEF IInv, CallerSound, Knows, Places, Unconditional
<1>3. /\ r \in Caller /\ r.at = "persist" /\ r.op = "rotate" /\ r.todo = caller[c].todo
      /\ r.session = s /\ r.id = caller[c].id /\ r.checkpoint = caller[c].checkpoint
      /\ r.snap = caller[c].snap /\ r.leased = caller[c].leased
  BY <1>2, <1>s DEF Caller
<1> HIDE DEF r
<1>4. ~caller[c].leased /\ caller[c].snap = NoEntry /\ caller[c].checkpoint = NoCheckpoint
      /\ NoCheckpoint.of = 0
  BY <1>1, <1>2, CheckpointFields DEF Knows, Before
<1>5. Knows(r, nextSave') /\ r.at \notin Locking
  BY <1>1, <1>2, <1>3, <1>4
     DEF Knows, Before, Running, Persisting, Locking, Unconditional, Conditional, Saves
<1>6. /\ CallerStep(c) /\ SnapsKept /\ \A t \in Sessions \ {s} : RestoresKept(t)
      /\ \A b \in Callers : caller'[b].todo \subseteq caller[b].todo
      /\ LeasesKept
  BY <1>1, <1>3, <1>4, <1>5, Types, StoreMove DEF IInv
<1>7. Lists(order', map')
  BY <1>1, <1>2, <1>t, FreshFacts, ChangedMap
<1>8. /\ Within(c, s) /\ map'[s] # NoEntry /\ map'[s].id = nextId + 1
      /\ \A t \in Sessions \ {s} : map'[t] = map[t]
  BY <1>1, <1>2, <1>6, <1>7, <1>t, Types, ReplacedWithin DEF IInv
<1>9. \A t \in Sessions : Pinned(t) /\ map[t] # NoEntry =>
        map'[t] # NoEntry /\ (map'[t].id = map[t].id \/ map[t].id \in rebound')
  BY <1>1, <1>8
<1>10. ClaimSound(s)'
  <2>1. map[s].id <= nextId /\ map[s].id \in Nat /\ nextId \in Nat
    BY <1>1, <1>2, ResidentFacts, Types DEF IInv
  <2>2. saved'[s] = NoCheckpoint
    BY <1>1, <1>2, <1>8, <2>1, ClaimsLeft DEF IInv
  <2> QED
    BY <2>2 DEF ClaimSound
<1> QED
  BY <1>2, <1>6, <1>8, <1>9, <1>10, WithinStep

\* reset replaces a binding, pinned or not, and records its id.
LEMMA ResetKeeps ==
  ASSUME IInv, NEW c \in Callers, NEW s \in Sessions, Reset(c, s)
  PROVE  IInv'
<1> DEFINE r == ErrorPath(c, s, "reset")
<1>1. /\ caller[c].at = "idle" \/ (caller[c].at = "driving" /\ caller[c].session = s)
      /\ nextId < MaxIds /\ nextId' = nextId + 1
      /\ \E t \in Clock(c) : map' = [map EXCEPT ![s] = Fresh(nextId + 1, t)]
      /\ order' = IF \E i \in 1..Len(order) : order[i] = s THEN order ELSE Append(order, s)
      /\ rebound' = IF map[s] = NoEntry THEN rebound ELSE rebound \cup {map[s].id}
      /\ ClaimsWithout({s}) /\ Moves(c, r)
      /\ UNCHANGED <<pins, pending, lock, disk, now, nextSave, restarts, expired>>
  BY DEF Reset, ErrorPath
<1>t. PICK clock \in 0..MaxTime : map' = [map EXCEPT ![s] = Fresh(nextId + 1, clock)]
  BY <1>1, ClockType DEF IInv
<1>2. /\ r \in Caller /\ r.at = "persist" /\ r.todo = caller[c].todo /\ r.session = s
      /\ r.checkpoint = NoCheckpoint /\ r.snap = NoEntry
      /\ r.leased = caller[c].leased
      /\ r.leased => r.session = caller[c].session /\ r.id = caller[c].id
      /\ Knows(r, nextSave) /\ r.at \notin Locking
  <2>1. "reset" \in {"reset", "discard"}
    OBVIOUS
  <2>2. caller[c].at = "idle" \/ (caller[c].at = "driving" /\ caller[c].session = s)
    BY <1>1
  <2>3. /\ r \in Caller /\ r.at = "persist" /\ r.todo = caller[c].todo /\ r.session = s
        /\ r.id = caller[c].id /\ r.checkpoint = NoCheckpoint /\ r.snap = NoEntry
        /\ r.leased = caller[c].leased
        /\ r.leased => r.session = caller[c].session /\ r.id = caller[c].id
        /\ Knows(r, nextSave) /\ ~Restoring(r)
    BY <2>1, <2>2, ErrorPathMoves
  <2> QED
    BY <2>3 DEF Locking
<1> HIDE DEF r
<1>3. /\ CallerStep(c) /\ SnapsKept /\ \A t \in Sessions \ {s} : RestoresKept(t)
      /\ \A b \in Callers : caller'[b].todo \subseteq caller[b].todo
      /\ LeasesKept
  BY <1>1, <1>2, Types, StoreMove DEF IInv
<1>4. /\ Fresh(nextId + 1, clock) \in Entry /\ map'[s] # NoEntry
      /\ \A t \in Sessions \ {s} : map'[t] = map[t]
  BY <1>1, <1>t, FreshFacts, ChangedMap
<1>5. Lists(order', map')
  <2>1. CASE \E i \in 1..Len(order) : order[i] = s
    <3>1. map[s] # NoEntry
      BY <2>1 DEF IInv, Lists
    <3> QED
      BY <1>1, <1>t, <1>4, <2>1, <3>1, ChangedMap
  <2>2. CASE ~ \E i \in 1..Len(order) : order[i] = s
    <3>1. map[s] = NoEntry
      BY <2>2 DEF IInv, Lists
    <3>2. Lists(Append(order, s), map')
      BY <1>4, <3>1, AppendLists DEF IInv
    <3> QED
      BY <1>1, <2>2, <3>2
  <2> QED
    BY <2>1, <2>2
<1>6. rebound \subseteq rebound' /\ rebound' \subseteq Ids
      /\ (map[s] # NoEntry => map[s].id \in rebound')
  BY <1>1, ResidentFacts, Types DEF IInv
<1>7. Within(c, s)
  BY <1>1, <1>t, <1>3, <1>5, <1>6, ReplacedWithin
<1>8. \A t \in Sessions : Pinned(t) /\ map[t] # NoEntry =>
        map'[t] # NoEntry /\ (map'[t].id = map[t].id \/ map[t].id \in rebound')
  BY <1>4, <1>6
<1>9. ClaimSound(s)'
  BY <1>1, ClaimEnds
<1> QED
  BY <1>3, <1>7, <1>8, <1>9, WithinStep

\* A file is a copy of its session's binding.
LEMMA FileFacts ==
  ASSUME IInv, NEW s \in Sessions, disk[s] # NoEntry
  PROVE  /\ disk[s] \in Entry /\ disk[s].id \in Ids /\ disk[s].id \in 0..MaxIds
         /\ disk[s].checkpoint \in Checkpoint /\ disk[s].checkpoint.of \in {0, disk[s].id}
<1>1. disk[s] \in Entry
  BY Types DEF IInv
<1>2. disk[s] \in Bindings(s)
  BY DEF Bindings, Copies
<1>3. disk[s].checkpoint.of \in {0, disk[s].id}
  BY <1>2 DEF IInv, BindingsSound
<1> QED
  BY <1>1, <1>3, ConversationStoreAssumption DEF Entry, Ids

\* get_or_create loads the binding from its file.
LEMMA LookupLoadsKeeps ==
  ASSUME IInv, NEW c \in Callers, LookupLoads(c)
  PROVE  IInv'
<1>s. PICK s : s = caller[c].session
  OBVIOUS
<1> DEFINE r == [caller[c] EXCEPT !.at = "flush", !.op = "found", !.id = disk[s].id]
           m == [map EXCEPT ![s] = disk[s]]
           t0 == caller[c].since
<1>1. /\ caller[c].at = "lookup" /\ OnDisk(s, t0)
      /\ TouchAndEvict(m, Append(order, s), s, pending, expired, t0)
      /\ ClaimsWithout({s} \ Resident(map')) /\ Moves(c, r)
      /\ UNCHANGED <<pins, lock, disk, now, nextId, nextSave, restarts, rebound>>
  BY <1>s DEF LookupLoads, Found
<1>2. /\ caller[c] \in Caller /\ Knows(caller[c], nextSave) /\ s \in Sessions /\ map[s] = NoEntry
      /\ disk[s] # NoEntry /\ "flush" \in Places /\ "found" \in Flushes
  BY <1>1, <1>s, CallerFields DEF IInv, CallerSound, Knows, OnDisk, Places, Flushes
<1>f. /\ disk[s] \in Entry /\ disk[s].id \in Ids /\ disk[s].id \in 0..MaxIds
      /\ disk[s].checkpoint \in Checkpoint /\ disk[s].checkpoint.of \in {0, disk[s].id}
  BY <1>2, FileFacts
<1>3. /\ r \in Caller /\ r.at = "flush" /\ r.todo = caller[c].todo /\ r.session = s
      /\ r.checkpoint = caller[c].checkpoint /\ r.snap = caller[c].snap
      /\ r.leased = caller[c].leased
  BY <1>2, <1>f, <1>s DEF Caller
<1> HIDE DEF r
<1>4. ~caller[c].leased /\ caller[c].snap = NoEntry /\ caller[c].checkpoint = NoCheckpoint
      /\ NoCheckpoint.of = 0
  BY <1>1, <1>2, CheckpointFields DEF Knows, Before
<1>5. Knows(r, nextSave') /\ r.at \notin Locking /\ ~Restoring(r)
  BY <1>1, <1>2, <1>3, <1>4 DEF Knows, Before, Running, Persisting, Locking, Restoring
<1>6. /\ CallerStep(c) /\ SnapsKept /\ \A t \in Sessions : RestoresKept(t)
      /\ \A b \in Callers : caller'[b].todo \subseteq caller[b].todo
      /\ LeasesKept
  BY <1>1, <1>3, <1>4, <1>5, Types, StoreMove DEF IInv
<1>m. /\ m \in [Sessions -> Entry \cup {NoEntry}] /\ m[s] = disk[s] /\ m[s] # NoEntry
      /\ \A t \in Sessions \ {s} : m[t] = map[t]
  BY <1>2, <1>f, ChangedMap
<1> HIDE DEF m
<1>l. Lists(Append(order, s), m)
  BY <1>2, <1>m, AppendLists DEF IInv
<1>7. Touched(s, m[s].id, m[s].checkpoint, pending)
  BY <1>1, <1>2, <1>f, <1>m, <1>l, ClockType, Types, TouchStep DEF IInv
<1>8. /\ Within(c, s)
      /\ \A t \in Sessions : Pinned(t) /\ map[t] # NoEntry =>
           map'[t] # NoEntry /\ (map'[t].id = map[t].id \/ map[t].id \in rebound')
  BY <1>1, <1>2, <1>6, <1>7, Types, TouchWithin DEF IInv
<1>9. ClaimSound(s)'
  <2>1. /\ ClaimSound(s) /\ saved'[s] \in {saved[s], NoCheckpoint}
        /\ saved'[s] # NoCheckpoint => saved'[s] = saved[s] /\ map'[s] # NoEntry
    BY <1>1, <1>2, ClaimsLeft DEF IInv, Resident
  <2>2. ASSUME saved'[s] # NoCheckpoint
        PROVE  /\ Carries(disk'[s], saved[s])
               /\ map'[s] # NoEntry /\ map'[s].id = saved[s].of
               /\ \E R \in SUBSET Checkpoint : Restorable(s, saved[s].n, R)'
    <3>1. /\ saved[s] # NoCheckpoint /\ map'[s] # NoEntry
          /\ map'[s].id = disk[s].id /\ map'[s].checkpoint = disk[s].checkpoint
      BY <1>7, <1>m, <2>1, <2>2 DEF Touched
    <3>2. Carries(disk[s], saved[s]) /\ disk[s].id = saved[s].of
          /\ disk[s].checkpoint.n >= saved[s].n
      BY <2>1, <3>1 DEF ClaimSound, Carries
    <3>3. \A b \in Callers : ~(Restoring(caller[b]) /\ caller[b].session = s)
      <4> SUFFICES ASSUME NEW b \in Callers, Restoring(caller[b]), caller[b].session = s
                   PROVE  FALSE
        OBVIOUS
      <4>1. caller[b].leased
        BY DEF IInv, CallerSound, Knows, Restoring
      <4> QED
        BY <1>2, <4>1 DEF IInv, PinnedStays
    <3>r. PICK R : R = {disk[s].checkpoint}
      OBVIOUS
    <3>4. R \in SUBSET Checkpoint
      BY <1>f, <3>r
    <3>5. Restorable(s, saved[s].n, R)'
      <4>1. \A b \in Callers : ~(Restoring(caller'[b]) /\ caller'[b].session = s)
        BY <1>2, <1>6, <3>3 DEF RestoresKept
      <4> QED
        BY <1>1, <2>1, <2>2, <3>r, <3>1, <3>2, <4>1 DEF Restorable
    <3> QED
      BY <1>1, <3>1, <3>2, <3>4, <3>5
  <2> QED
    BY <1>2, <1>6, <2>1, <2>2, ClaimStays
<1> QED
  BY <1>2, <1>6, <1>8, <1>9, WithinStep

\* A session moved to the end of the order, with a fresh binding.
LEMMA MovedToEnd ==
  ASSUME IInv, NEW s \in Sessions, NEW e \in Entry
  PROVE  Lists(Append(Without(order, {s}), s), [map EXCEPT ![s] = e])
<1> DEFINE m == [map EXCEPT ![s] = e]
           left == [t \in Sessions |-> IF t = s THEN NoEntry ELSE map[t]]
<1>1. /\ m[s] = e /\ m[s] # NoEntry /\ \A t \in Sessions \ {s} : m[t] = map[t]
  BY ChangedMap
<1>2. /\ order \in Seq(Sessions) /\ Once(order)
      /\ \A t \in Sessions : map[t] # NoEntry <=> \E i \in 1..Len(order) : order[i] = t
  BY DEF IInv, Lists
<1>3. /\ Without(order, {s}) \in Seq(Sessions) /\ Once(Without(order, {s}))
      /\ \A t \in Sessions : (\E i \in 1..Len(Without(order, {s})) : Without(order, {s})[i] = t)
           <=> t \notin {s} /\ \E i \in 1..Len(order) : order[i] = t
  BY <1>2, WithoutLists
<1>4. Lists(Without(order, {s}), left)
  BY <1>2, <1>3 DEF Lists
<1>5. left[s] = NoEntry /\ \A t \in Sessions \ {s} : m[t] = left[t]
  BY <1>1
<1> HIDE DEF m, left
<1>6. Lists(Append(Without(order, {s}), s), m)
  BY <1>1, <1>4, <1>5, AppendLists
<1> QED
  BY <1>6 DEF m

\* get_or_create makes a fresh binding; what it takes the place of expires.
LEMMA LookupCreatesKeeps ==
  ASSUME IInv, NEW c \in Callers, LookupCreates(c)
  PROVE  IInv'
<1>s. PICK s : s = caller[c].session
  OBVIOUS
<1> DEFINE t0 == caller[c].since
           queued == IF Lapsed(s, t0) THEN {[session |-> s, id |-> map[s].id]}
                     ELSE IF disk[s] # NoEntry THEN {[session |-> s, id |-> 0]} ELSE {}
           dead == IF Lapsed(s, t0) THEN {map[s].id} ELSE {}
           m == [map EXCEPT ![s] = Fresh(nextId + 1, t0)]
           o == Append(Without(order, {s}), s)
           r == [caller[c] EXCEPT !.at = "persist", !.op = "create", !.id = nextId + 1]
<1>1. /\ caller[c].at = "lookup" /\ ~InMemory(s, t0) /\ nextId < MaxIds /\ nextId' = nextId + 1
      /\ TouchAndEvict(m, o, s, pending \cup queued, expired \cup dead, t0)
      /\ ClaimsWithout({s}) /\ Moves(c, r)
      /\ UNCHANGED <<pins, lock, disk, now, nextSave, restarts, rebound>>
  BY <1>s DEF LookupCreates
<1>2. /\ caller[c] \in Caller /\ Knows(caller[c], nextSave) /\ s \in Sessions
      /\ "persist" \in Places /\ "create" \in Unconditional
  BY <1>1, <1>s, CallerFields DEF IInv, CallerSound, Knows, Places, Unconditional
<1>f. /\ nextId + 1 \in Ids /\ nextId + 1 \in 0..MaxIds /\ Fresh(nextId + 1, t0) \in Entry
      /\ Fresh(nextId + 1, t0).id = nextId + 1 /\ Fresh(nextId + 1, t0).checkpoint = NoCheckpoint
      /\ NoCheckpoint.of = 0
  BY <1>1, ClockType, FreshFacts DEF IInv
<1>3. /\ r \in Caller /\ r.at = "persist" /\ r.op = "create" /\ r.todo = caller[c].todo
      /\ r.session = s /\ r.checkpoint = caller[c].checkpoint /\ r.snap = caller[c].snap
      /\ r.leased = caller[c].leased
  BY <1>2, <1>f, <1>s DEF Caller
<1> HIDE DEF r
<1>4. ~caller[c].leased /\ caller[c].snap = NoEntry /\ caller[c].checkpoint = NoCheckpoint
  BY <1>1, <1>2 DEF Knows, Before
<1>5. Knows(r, nextSave') /\ r.at \notin Locking
  BY <1>1, <1>2, <1>3, <1>4, <1>f
     DEF Knows, Before, Running, Persisting, Locking, Unconditional, Conditional, Saves
<1>6. /\ CallerStep(c) /\ SnapsKept /\ \A t \in Sessions \ {s} : RestoresKept(t)
      /\ \A b \in Callers : caller'[b].todo \subseteq caller[b].todo
      /\ LeasesKept
  BY <1>1, <1>3, <1>4, <1>5, Types, StoreMove DEF IInv
<1>m. /\ m \in [Sessions -> Entry \cup {NoEntry}] /\ m[s] = Fresh(nextId + 1, t0) /\ m[s] # NoEntry
      /\ \A t \in Sessions \ {s} : m[t] = map[t]
  <2> DEFINE e == Fresh(nextId + 1, t0)
  <2>1. e \in Entry
    BY <1>f
  <2> HIDE DEF e
  <2>2. /\ [map EXCEPT ![s] = e] \in [Sessions -> Entry \cup {NoEntry}]
        /\ [map EXCEPT ![s] = e][s] = e /\ e # NoEntry
        /\ \A t \in Sessions \ {s} : [map EXCEPT ![s] = e][t] = map[t]
    BY <1>2, <2>1, ChangedMap
  <2> QED
    BY <2>2 DEF e
<1>l. Lists(o, m)
  BY <1>2, <1>f, MovedToEnd
<1> HIDE DEF m, o
<1>q. /\ pending \cup queued \in SUBSET Delete
      /\ \A d \in pending \cup queued : d \in pending \/ d.session = s
  <2>1. map[s] # NoEntry => map[s].id \in 0..MaxIds
    BY <1>2, ResidentFacts, ConversationStoreAssumption DEF Ids
  <2>2. \A d \in queued : d \in Delete /\ d.session = s
    BY <1>2, <2>1, ConversationStoreAssumption DEF Delete, Lapsed
  <2>3. pending \subseteq Delete
    BY Types DEF IInv
  <2> HIDE DEF queued
  <2> QED
    BY <2>2, <2>3
<1>d. expired \cup dead \in SUBSET Ids /\ t0 \in 0..MaxTime
  <2>1. map[s] # NoEntry => map[s].id \in Ids
    BY <1>2, ResidentFacts
  <2>2. \A i \in dead : i \in Ids
    BY <2>1 DEF Lapsed
  <2>3. expired \subseteq Ids
    BY Types DEF IInv
  <2> HIDE DEF dead
  <2> QED
    BY <2>2, <2>3, ClockType DEF IInv
<1> HIDE DEF queued, dead
<1>7. Touched(s, m[s].id, m[s].checkpoint, pending \cup queued)
  BY <1>1, <1>2, <1>f, <1>m, <1>l, <1>q, <1>d, TouchStep
<1>p. map[s] # NoEntry => ~Pinned(s)
  BY <1>1 DEF InMemory
<1>8. /\ Within(c, s)
      /\ \A t \in Sessions : Pinned(t) /\ map[t] # NoEntry =>
           map'[t] # NoEntry /\ (map'[t].id = map[t].id \/ map[t].id \in rebound')
  BY <1>1, <1>2, <1>6, <1>7, <1>f, <1>p, TouchWithin
<1>9. ClaimSound(s)'
  BY <1>1, <1>2, ClaimEnds
<1> QED
  BY <1>2, <1>6, <1>8, <1>9, WithinStep

\* The binding of s alone is altered, and keeps its id.
LEMMA AlteredWithin ==
  ASSUME IInv, NEW c \in Callers, NEW s \in Sessions, map[s] # NoEntry, NEW e \in Entry,
         e.id = map[s].id, e.checkpoint.of \in {0, e.id},
         map' = [map EXCEPT ![s] = e], CallerStep(c), SnapsKept,
         \A t \in Sessions \ {s} : RestoresKept(t),
         \A b \in Callers : caller'[b].todo \subseteq caller[b].todo,
         UNCHANGED <<order, pending, disk, now, nextId, restarts, history>>
  PROVE  /\ Within(c, s)
         /\ \A t \in Sessions \ {s} : map'[t] = map[t]
         /\ map'[s] = e /\ map'[s] # NoEntry
         /\ \A d \in Owed' : d \in Owed
<1>1. /\ map' \in [Sessions -> Entry \cup {NoEntry}] /\ map'[s] = e /\ map'[s] # NoEntry
      /\ \A t \in Sessions \ {s} : map'[t] = map[t]
  BY ChangedMap
<1>2. Lists(order', map')
  BY ChangedMap
<1>3. /\ pending \subseteq Delete /\ expired \subseteq Ids /\ rebound \subseteq Ids
      /\ saved \in [Sessions -> Checkpoint] /\ nextId \in 0..MaxIds
      /\ \A t \in Sessions : map[t] # NoEntry => map[t].checkpoint.of \in {0, map[t].id}
  BY ResidentFacts, Types DEF IInv
<1>4. MapStep(s)
  <2>1. \A t \in Sessions : map'[t] # NoEntry =>
         /\ map'[t].checkpoint.of \in {0, map'[t].id}
         /\ map[t] # NoEntry /\ map'[t].id = map[t].id
    <3> TAKE t \in Sessions
    <3>1. CASE t = s
      BY <1>1, <1>3, <3>1
    <3>2. CASE t # s
      BY <1>1, <1>3, <3>2
    <3> QED
      BY <3>1, <3>2
  <2> QED
    BY <1>1, <2>1 DEF MapStep, history
<1>5. \A d \in Owed' : d \in Owed
  BY OwedLater, TodoOwed DEF Owed
<1>6. OthersStay(s)
  BY <1>1, <1>5 DEF OthersStay, history
<1>7. Within(c, s)
  BY <1>2, <1>3, <1>4, <1>6 DEF Within, history
<1> QED
  BY <1>1, <1>5, <1>7

\* The driver of a Run takes its lease.
LEMMA PinKeeps ==
  ASSUME IInv, NEW c \in Callers, Pin(c)
  PROVE  IInv'
<1>s. PICK s : s = caller[c].session
  OBVIOUS
<1>1. /\ caller[c].at = "pin"
      /\ UNCHANGED <<order, pending, lock, disk, now, nextId, nextSave, restarts, history>>
  BY DEF Pin
<1>2. /\ caller[c] \in Caller /\ Knows(caller[c], nextSave) /\ s \in Sessions
      /\ "driving" \in Places /\ ~caller[c].leased /\ caller[c].checkpoint = NoCheckpoint
      /\ caller[c].snap = NoEntry /\ NoCheckpoint.of = 0 /\ NoCheckpoint.n = 0 /\ nextSave \in Nat
      /\ nextSave \in 0..MaxSaves
  BY <1>1, <1>s, CallerFields, CheckpointFields, Types
     DEF IInv, CallerSound, Knows, Before, Places
<1>3. CASE map[s] # NoEntry /\ map[s].id = caller[c].id
  <2> DEFINE r == [caller[c] EXCEPT !.at = "driving", !.op = "none", !.again = FALSE,
                                              !.leased = TRUE, !.since = now]
  <2>t. PICK clock \in 0..MaxTime : map' = [map EXCEPT ![s] = [map[s] EXCEPT !.seen = clock]]
    BY <1>3, <1>s, ClockType DEF Pin, IInv
  <2> DEFINE e == [map[s] EXCEPT !.seen = clock]
  <2>1. /\ Moves(c, r) /\ map' = [map EXCEPT ![s] = e] /\ pins' = [pins EXCEPT ![s] = @ + 1]
    BY <1>3, <1>s, <2>t DEF Pin
  <2>2. /\ r \in Caller /\ r.at = "driving" /\ r.todo = caller[c].todo /\ r.session = s
        /\ r.id = caller[c].id /\ r.checkpoint = NoCheckpoint /\ r.snap = NoEntry /\ r.leased
    BY <1>2, <1>s, ClockType DEF Caller, IInv
  <2> HIDE DEF r
  <2>3. /\ e \in Entry /\ e.id = map[s].id /\ e.checkpoint = map[s].checkpoint
        /\ e.checkpoint.of \in {0, e.id}
    BY <1>2, <1>3, ResidentFacts DEF Entry
  <2> HIDE DEF e
  <2>4. Knows(r, nextSave') /\ r.at \notin Locking /\ ~Restoring(r)
    BY <1>1, <1>2, <2>2 DEF Knows, Before, Running, Persisting, Locking, Restoring
  <2>5. /\ CallerStep(c) /\ SnapsKept /\ \A t \in Sessions : RestoresKept(t)
        /\ caller'[c] = r /\ \A b \in Callers \ {c} : caller'[b] = caller[b]
        /\ \A b \in Callers : caller'[b].todo \subseteq caller[b].todo
    BY <1>1, <1>2, <2>1, <2>2, <2>4, StoreMove
  <2>6. /\ Within(c, s) /\ \A t \in Sessions \ {s} : map'[t] = map[t]
        /\ map'[s] = e /\ map'[s] # NoEntry /\ \A d \in Owed' : d \in Owed
    BY <1>1, <1>2, <1>3, <2>1, <2>3, <2>5, AlteredWithin, ZenonT(40)
  <2>7. ClaimSound(s)'
    <3>1. BindingKept(s) /\ ClaimSound(s) /\ saved'[s] = saved[s] /\ disk' = disk
      BY <1>1, <1>2, <1>3, <2>3, <2>6 DEF BindingKept, IInv, history
    <3>2. saved[s] # NoCheckpoint => Carries(disk[s], saved[s])
      BY <3>1 DEF ClaimSound
    <3> QED
      BY <1>2, <2>5, <2>6, <3>1, <3>2, ClaimKept
  <2>8. /\ Holders(s)' = Holders(s) \cup {c} /\ c \notin Holders(s)
        /\ \A t \in Sessions \ {s} : Holders(t)' = Holders(t)
    BY <1>2, <2>2, <2>5 DEF Holders
  <2>9. /\ IsFiniteSet(Holders(s)) /\ Cardinality(Holders(s)) \in Nat
        /\ pins[s] = Cardinality(Holders(s))
    BY <1>2, HoldersFinite DEF IInv, PinsCount
  <2>10. Cardinality(Holders(s)') = Cardinality(Holders(s)) + 1
    BY <2>8, <2>9, FS_AddElement
  <2>11. PinsCount'
    <3>1. \A t \in Sessions : pins'[t] = IF t = s THEN pins[t] + 1 ELSE pins[t]
      BY <2>1, Types DEF IInv
    <3> QED
      BY <2>8, <2>9, <2>10, <3>1 DEF PinsCount, IInv
  <2>12. pins' \in [Sessions -> 0..Cardinality(Callers)]
    <3>1. \A t \in Sessions : Cardinality(Holders(t)') \in 0..Cardinality(Callers)
      <4> TAKE t \in Sessions
      <4>1. Holders(t)' \subseteq Callers /\ IsFiniteSet(Callers)
        BY ConversationStoreAssumption DEF Holders
      <4>2. /\ IsFiniteSet(Holders(t)') /\ Cardinality(Holders(t)') <= Cardinality(Callers)
        BY <4>1, FS_Subset
      <4>3. Cardinality(Holders(t)') \in Nat /\ Cardinality(Callers) \in Nat
        BY <4>1, <4>2, FS_CardinalityType
      <4> QED
        BY <4>2, <4>3
    <3>2. \A t \in Sessions : pins'[t] \in 0..Cardinality(Callers)
      BY <2>11, <3>1 DEF PinsCount
    <3> QED
      BY <2>1, <3>2, Types DEF IInv
  <2>13. PinnedStays'
    <3> SUFFICES ASSUME NEW b \in Callers, caller'[b].leased
                 PROVE  LET t == caller'[b].session IN
                        map'[t] # NoEntry
                        /\ (map'[t].id = caller'[b].id \/ caller'[b].id \in rebound')
      BY DEF PinnedStays
    <3>1. CASE b = c
      BY <1>3, <2>2, <2>3, <2>5, <2>6, <3>1
    <3>2. CASE b # c
      <4>1. caller'[b] = caller[b] /\ caller[b].leased /\ caller[b].session \in Sessions
        BY <2>5, <3>2, DriverSession DEF IInv
      <4>2. map[caller[b].session] # NoEntry
            /\ (map[caller[b].session].id = caller[b].id \/ caller[b].id \in rebound)
        BY <4>1 DEF IInv, PinnedStays
      <4>3. \A t \in Sessions : map[t] # NoEntry => map'[t] # NoEntry /\ map'[t].id = map[t].id
        BY <2>3, <2>6
      <4> QED
        BY <1>1, <4>1, <4>2, <4>3 DEF history
    <3> QED
      BY <3>1, <3>2
  <2> QED
    BY <1>2, <2>6, <2>7, <2>11, <2>12, <2>13, WithinKeeps
<1>4. CASE ~(map[s] # NoEntry /\ map[s].id = caller[c].id)
  <2> DEFINE i == Idle(now)
  <2>1. Moves(c, i) /\ map' = map /\ pins' = pins
    BY <1>4, <1>s DEF Pin
  <2>2. /\ i \in Caller /\ i.at = "idle" /\ i.todo = {} /\ i.checkpoint = NoCheckpoint
        /\ i.snap = NoEntry /\ i.leased = FALSE
    BY ClockType, IdleType DEF IInv, Idle
  <2>k. i = Idle(i.since)
    BY DEF Idle
  <2> HIDE DEF i
  <2>3. Knows(i, nextSave) /\ i.at \notin Locking /\ ~Restoring(i)
    BY <1>2, <2>2, <2>k DEF Knows, Before, Running, Persisting, Locking, Restoring
  <2>4. caller[c].leased = FALSE
    BY <1>2 DEF Caller
  <2> QED
    BY <1>1, <2>1, <2>2, <2>3, <2>4, GoesOn DEF store
<1> QED
  BY <1>3, <1>4

\* What a rollback makes of a binding its write is still in.
LEMMA RolledBackFacts ==
  ASSUME IInv, NEW c \in Callers, caller[c].at = "rollback",
         NEW s, s = caller[c].session, Current(c)
  PROVE  /\ s \in Sessions /\ map[s] # NoEntry /\ RolledBack(c, map[s]) \in Entry
         /\ RolledBack(c, map[s]).id = map[s].id
         /\ RolledBack(c, map[s]).checkpoint.of \in {0, map[s].id}
         /\ \/ RolledBack(c, map[s]).checkpoint = map[s].checkpoint
            \/ /\ RolledBack(c, map[s]).checkpoint = caller[c].previous
               /\ Restoring(caller[c]) /\ Written(caller[c]) = map[s].checkpoint
<1>1. /\ caller[c].op \in Conditional /\ s \in Sessions /\ caller[c] \in Caller
      /\ caller[c].op # "merge" => caller[c].previous.of \in {0, caller[c].id}
      /\ caller[c].previous \in Checkpoint
  BY CallerFields DEF IInv, CallerSound, Knows, Persisting
<1>2. map[s] # NoEntry /\ map[s].id = caller[c].id
  BY <1>1 DEF Current, Expected
<1>3. /\ map[s] \in Entry /\ map[s].checkpoint \in Checkpoint
      /\ map[s].checkpoint.of \in {0, map[s].id} /\ map[s].blobs \in SUBSET Blobs
  BY <1>1, <1>2, ResidentFacts
<1> DEFINE put == IF caller[c].op # "merge" /\ map[s].checkpoint = Written(caller[c])
                  THEN caller[c].previous ELSE map[s].checkpoint
           left == map[s].blobs \ caller[c].added
<1>4. RolledBack(c, map[s]) = [map[s] EXCEPT !.checkpoint = put, !.blobs = left]
  BY DEF RolledBack, Written
<1>5. put \in Checkpoint /\ left \in SUBSET Blobs /\ put.of \in {0, map[s].id}
      /\ \/ put = map[s].checkpoint
         \/ put = caller[c].previous /\ caller[c].op # "merge"
             /\ Written(caller[c]) = map[s].checkpoint
  BY <1>1, <1>2, <1>3
<1> HIDE DEF put, left
<1>6. /\ RolledBack(c, map[s]) \in Entry /\ RolledBack(c, map[s]).id = map[s].id
      /\ RolledBack(c, map[s]).checkpoint = put
  BY <1>3, <1>4, <1>5 DEF Entry
<1>7. caller[c].op # "merge" => Restoring(caller[c])
  BY <1>1 DEF Restoring, Persisting
<1> QED
  BY <1>1, <1>2, <1>5, <1>6, <1>7

\* roll_back_checkpoint and roll_back_blobs.
LEMMA RollbackKeeps ==
  ASSUME IInv, NEW c \in Callers, Rollback(c)
  PROVE  IInv'
<1>s. PICK s : s = caller[c].session
  OBVIOUS
<1>1. /\ caller[c].at = "rollback" /\ Answered(c, After(c, FALSE)) /\ CallerSound(c)
      /\ UNCHANGED <<order, pins, pending, lock, disk, now, nextId, nextSave, restarts, history>>
  BY DEF Rollback, IInv
<1>2. Lands(c, After(c, FALSE)) /\ LockKept(c)
  BY <1>1, AfterLands, Types DEF IInv, Persisting, LockKept
<1>3. CASE ~Current(c)
  <2>1. map' = map
    BY <1>3 DEF Rollback
  <2> QED
    BY <1>1, <1>2, <2>1, AnswersOutside
<1>4. CASE Current(c)
  <2>e. PICK e : e = RolledBack(c, map[s])
    OBVIOUS
  <2>1. map' = [map EXCEPT ![s] = e]
    BY <1>4, <1>s, <2>e DEF Rollback
  <2>2. /\ s \in Sessions /\ map[s] # NoEntry /\ e \in Entry /\ e.id = map[s].id
        /\ e.checkpoint.of \in {0, e.id}
        /\ \/ e.checkpoint = map[s].checkpoint
           \/ /\ e.checkpoint = caller[c].previous
              /\ Restoring(caller[c]) /\ Written(caller[c]) = map[s].checkpoint
    BY <1>1, <1>4, <1>s, <2>e, RolledBackFacts
  <2>4. /\ CallerStep(c) /\ SnapsKept /\ \A t \in Sessions : RestoresKept(t) /\ LeasesKept
        /\ \A b \in Callers : caller'[b].todo \subseteq caller[b].todo
    BY <1>1, <1>2, AnsweredStep
  <2>5. /\ Within(c, s) /\ \A t \in Sessions \ {s} : map'[t] = map[t]
        /\ map'[s] = e /\ map'[s] # NoEntry /\ \A d \in Owed' : d \in Owed
    BY <1>1, <2>1, <2>2, <2>4, AlteredWithin
  <2>6. \A t \in Sessions : Pinned(t) /\ map[t] # NoEntry =>
          map'[t] # NoEntry /\ (map'[t].id = map[t].id \/ map[t].id \in rebound')
    BY <2>2, <2>5
  <2>7. ClaimSound(s)'
    <3>1. ClaimSound(s) /\ saved' = saved /\ disk' = disk
      BY <1>1, <2>2 DEF IInv, history
    <3>2. ASSUME saved[s] # NoCheckpoint
          PROVE  /\ Carries(disk'[s], saved[s]) /\ map'[s].id = saved[s].of
                 /\ \E R \in SUBSET Checkpoint : Restorable(s, saved[s].n, R)'
      <4>1. PICK R \in SUBSET Checkpoint : Restorable(s, saved[s].n, R)
        BY <2>2, <3>1, <3>2 DEF ClaimSound
      <4>2. e.checkpoint \in R
        BY <1>s, <2>2, <4>1 DEF Restorable
      <4>3. Restorable(s, saved[s].n, R)'
        BY <2>2, <2>4, <2>5, <3>1, <4>1, <4>2 DEF Restorable, RestoresKept
      <4> QED
        BY <2>2, <2>5, <3>1, <3>2, <4>3 DEF ClaimSound
    <3> QED
      BY <2>2, <2>4, <2>5, <3>1, <3>2, ClaimStays
  <2> QED
    BY <2>2, <2>4, <2>5, <2>6, <2>7, WithinStep
<1> QED
  BY <1>3, <1>4

-----------------------------------------------------------------------------
(* Time, restarts and the theorems.                                         *)

\* Time passes, or nothing happens at all.
LEMMA TimeKeeps ==
  ASSUME IInv, now' \in {now, now + 1}, now' \in 0..MaxTime,
         UNCHANGED <<store, lock, disk, nextId, nextSave, restarts, caller, history>>
  PROVE  IInv'
<1>1. UNCHANGED <<map, order, pins, pending, lock, disk, nextId, nextSave, restarts, caller,
                  saved, rebound, expired>>
  BY DEF store, history
<1>2. TypeOK'
  BY <1>1 DEF IInv, TypeOK
<1>3. (\A c \in Callers : CallerSound(c))' /\ CheckpointsDistinct' /\ LockExcludes'
  BY <1>1 DEF IInv, CallerSound, CheckpointsDistinct, LockExcludes
<1>4. PinsCount' /\ PinnedStays'
  BY <1>1 DEF IInv, PinsCount, Holders, PinnedStays
<1>5. Lists(order, map)'
  BY <1>1 DEF IInv, Lists, Once
<1>6. BindingsSound'
  <2>1. \A s \in Sessions : Copies(s)' = Copies(s) /\ Bindings(s)' = Bindings(s)
    BY <1>1 DEF Copies, Bindings
  <2> QED
    BY <1>1, <2>1 DEF IInv, BindingsSound
<1>7. ASSUME NEW s \in Sessions PROVE ClaimSound(s)'
  <2>1. ClaimSound(s)
    BY DEF IInv
  <2>2. Owed' = Owed
    BY <1>1 DEF Owed
  <2>3. \A n, R : Restorable(s, n, R)' <=> Restorable(s, n, R)
    BY <1>1 DEF Restorable
  <2> QED
    BY <1>1, <2>1, <2>2, <2>3 DEF ClaimSound, Carries
<1> QED
  BY <1>2, <1>3, <1>4, <1>5, <1>6, <1>7 DEF IInv

\* With no callers under way nothing is known of them, and nothing is pinned.
LEMMA IdleFacts ==
  ASSUME NEW n \in Nat, NEW t \in 0..MaxTime, NEW i, i = Idle(t)
  PROVE  /\ Knows(i, n) /\ i \in Caller /\ i.snap = NoEntry /\ ~i.leased
         /\ i.todo = {} /\ i.checkpoint = NoCheckpoint /\ i.at \notin Locking
         /\ ~Restoring(i)
<1>1. /\ i.at = "idle" /\ i.snap = NoEntry /\ i.leased = FALSE /\ i.todo = {}
      /\ i.checkpoint = NoCheckpoint /\ NoCheckpoint.of = 0 /\ NoCheckpoint.n = 0
      /\ i = Idle(i.since)
  BY CheckpointFields DEF Idle
<1> QED
  BY <1>1, IdleType DEF Knows, Before, Running, Persisting, Locking, Restoring

\* The process dies: the files keep what they have.
LEMMA CrashKeeps ==
  ASSUME IInv, Crash
  PROVE  IInv'
<1>i. PICK i : i = Idle(now)
  OBVIOUS
<1>1. /\ restarts < MaxRestarts /\ restarts' = restarts + 1
      /\ map' = [s \in Sessions |-> NoEntry] /\ order' = <<>>
      /\ pins' = [s \in Sessions |-> 0] /\ pending' = {} /\ lock' = Nobody
      /\ caller' = [c \in Callers |-> i]
      /\ UNCHANGED <<disk, now, nextId, nextSave, saved, rebound, expired>>
  BY <1>i DEF Crash, history
<1>2. /\ nextSave \in Nat /\ Knows(i, nextSave) /\ i \in Caller /\ i.snap = NoEntry
      /\ ~i.leased /\ i.todo = {} /\ i.checkpoint = NoCheckpoint /\ i.at \notin Locking
  BY <1>i, IdleFacts, Types DEF IInv
<1>3. TypeOK'
  <2>1. IsFiniteSet(Callers) /\ Cardinality(Callers) \in Nat
    BY ConversationStoreAssumption, FS_CardinalityType
  <2> QED
    BY <1>1, <1>2, <2>1, Types DEF IInv, TypeOK
<1>4. (\A c \in Callers : CallerSound(c))' /\ CheckpointsDistinct' /\ LockExcludes'
  BY <1>1, <1>2 DEF CallerSound, CheckpointsDistinct, LockExcludes
<1>5. PinsCount' /\ PinnedStays'
  <2>1. \A s \in Sessions : Holders(s)' = {}
    BY <1>1, <1>2 DEF Holders
  <2> QED
    BY <1>1, <1>2, <2>1, FS_EmptySet DEF PinsCount, PinnedStays
<1>6. Lists(order, map)'
  BY <1>1 DEF Lists, Once
<1>7. BindingsSound'
  <2>1. MapStep(NoEntry)
    BY <1>1, Types DEF MapStep, IInv
  <2>2. CopiesFollow
    BY <1>1, <1>2 DEF CopiesFollow, Copies, Bindings
  <2> QED
    BY <2>1, <2>2, BindingsStaySound DEF IInv
<1>8. ASSUME NEW s \in Sessions PROVE ClaimSound(s)'
  <2>1. Owed' = {}
    BY <1>1, <1>2 DEF Owed
  <2>2. ClaimSound(s)
    BY DEF IInv
  <2> QED
    BY <1>1, <1>2, <2>1, <2>2 DEF ClaimSound
<1> QED
  BY <1>3, <1>4, <1>5, <1>6, <1>7, <1>8 DEF IInv

\* The first state has no bindings, no files and no claims.
LEMMA InitHolds == Init => IInv
<1> SUFFICES ASSUME Init PROVE IInv
  OBVIOUS
<1>i. PICK i : i = Idle(0)
  OBVIOUS
<1>1. /\ map = [s \in Sessions |-> NoEntry] /\ order = <<>> /\ pins = [s \in Sessions |-> 0]
      /\ pending = {} /\ lock = Nobody /\ disk = [s \in Sessions |-> NoEntry]
      /\ now = 0 /\ nextId = 0 /\ nextSave = 0 /\ restarts = 0
      /\ caller = [c \in Callers |-> i] /\ saved = [s \in Sessions |-> NoCheckpoint]
      /\ rebound = {} /\ expired = {}
  BY <1>i DEF Init
<1>2. /\ Knows(i, 0) /\ i \in Caller /\ i.snap = NoEntry /\ ~i.leased
      /\ i.checkpoint = NoCheckpoint /\ i.at \notin Locking
  BY <1>i, IdleFacts, ConversationStoreAssumption
<1>3. TypeOK
  <2>1. IsFiniteSet(Callers) /\ Cardinality(Callers) \in Nat
    BY ConversationStoreAssumption, FS_CardinalityType
  <2> QED
    BY <1>1, <1>2, <2>1, CheckpointFields, ConversationStoreAssumption DEF TypeOK
<1>4. (\A c \in Callers : CallerSound(c)) /\ CheckpointsDistinct /\ LockExcludes
  BY <1>1, <1>2 DEF CallerSound, CheckpointsDistinct, LockExcludes
<1>5. PinsCount /\ PinnedStays
  <2>1. \A s \in Sessions : Holders(s) = {}
    BY <1>1, <1>2 DEF Holders
  <2> QED
    BY <1>1, <1>2, <2>1, FS_EmptySet DEF PinsCount, PinnedStays
<1>6. Lists(order, map)
  BY <1>1 DEF Lists, Once
<1>7. BindingsSound
  <2>1. \A s \in Sessions : Copies(s) = {} /\ Bindings(s) = {}
    BY <1>1, <1>2 DEF Copies, Bindings
  <2> QED
    BY <1>1, <2>1 DEF BindingsSound
<1>8. \A s \in Sessions : ClaimSound(s)
  BY <1>1 DEF ClaimSound
<1> QED
  BY <1>3, <1>4, <1>5, <1>6, <1>7, <1>8 DEF IInv

\* Every step keeps the invariant.
LEMMA NextKeeps ==
  ASSUME IInv, [Next]_vars
  PROVE  IInv'
<1>1. ASSUME NEW c \in Callers, Persist(c) PROVE IInv'
  BY <1>1, SkipFlushKeeps, TakeLockKeeps, FlushOneKeeps, EndFlushKeeps, SnapshotKeeps,
     NothingToWriteKeeps, WriteSucceedsKeeps, WriteFailsKeeps, RollbackKeeps DEF Persist
<1>2. ASSUME NEW c \in Callers, Continue(c) PROVE IInv'
  BY <1>2, SweepFileKeeps, LookupHitKeeps, LookupLoadsKeeps, LookupCreatesKeeps, NormalizeKeeps,
     RotateKeeps, PinKeeps DEF Continue
<1>3. ASSUME NEW c \in Callers, Drive(c) PROVE IInv'
  BY <1>3, SaveKeeps, ClearKeeps, MergeKeeps, UnpinKeeps DEF Drive
<1>4. ASSUME NEW c \in Callers, NEW s \in Sessions, Begin(c, s) \/ Reset(c, s) \/ Discard(c, s)
      PROVE  IInv'
  BY <1>4, BeginKeeps, ResetKeeps, DiscardKeeps
<1>5. CASE Tick
  <2>1. now' \in 0..MaxTime
    BY <1>5, Types DEF Tick, IInv
  <2> QED
    BY <1>5, <2>1, TimeKeeps DEF Tick
<1>6. CASE Crash
  BY <1>6, CrashKeeps
<1>7. CASE UNCHANGED vars
  <2>1. now' = now /\ now \in 0..MaxTime
    BY <1>7, Types DEF vars, IInv
  <2> QED
    BY <1>7, <2>1, TimeKeeps DEF vars
<1> QED
  BY <1>1, <1>2, <1>3, <1>4, <1>5, <1>6, <1>7 DEF Next

\* IInv is an invariant: what every interleaving of continuations, drivers,
\* error paths, deferred deletes and restarts keeps.
THEOREM StoreInvariant == Spec => []IInv
<1>1. Init => IInv
  BY InitHolds
<1>2. IInv /\ [Next]_vars => IInv'
  BY NextKeeps
<1> QED
  BY <1>1, <1>2, PTL DEF Spec

\* The variables keep their types.
THEOREM TypeCorrect == Spec => []TypeOK
<1>1. IInv => TypeOK
  BY DEF IInv
<1> QED
  BY <1>1, StoreInvariant, PTL

\* A checkpoint is attached to the conversation whose Run received it, in the
\* map, in a file and in a snapshot, whoever replaced the binding meanwhile.
THEOREM CheckpointsStayWithTheirRun == Spec => []CheckpointsBelong
<1>1. IInv => CheckpointsBelong
  <2> SUFFICES ASSUME IInv, NEW e \in {map[s] : s \in Sessions} \cup {disk[s] : s \in Sessions}
                                       \cup {caller[c].snap : c \in Callers},
                      e # NoEntry
               PROVE  e.checkpoint.of \in {0, e.id}
    BY DEF CheckpointsBelong
  <2>1. \E s \in Sessions : e \in Bindings(s)
    <3>1. \A c \in Callers : caller[c].snap # NoEntry => caller[c].session \in Sessions
      BY DEF IInv, CallerSound, Knows
    <3> QED
      BY <3>1 DEF Bindings, Copies
  <2> QED
    BY <2>1 DEF IInv, BindingsSound
<1> QED
  BY <1>1, StoreInvariant, PTL

\* A checkpoint that was answered Saved is on disk, or a newer one is.
THEOREM SavedStaysOnDisk == Spec => []SavedSurvives
<1>1. IInv => SavedSurvives
  BY DEF IInv, ClaimSound, Carries, SavedSurvives
<1> QED
  BY <1>1, StoreInvariant, PTL

\* A sequence that lists the residents once has as many places as they are.
LEMMA OrderLength ==
  ASSUME NEW o, NEW m, Lists(o, m)
  PROVE  /\ {o[i] : i \in 1..Len(o)} = Resident(m)
         /\ Len(o) = Cardinality(Resident(m))
<1> DEFINE f == [i \in 1..Len(o) |-> o[i]]
<1>1. Len(o) \in Nat /\ \A i \in 1..Len(o) : o[i] \in Sessions
  BY DEF Lists
<1>2. {o[i] : i \in 1..Len(o)} = Resident(m)
  BY <1>1 DEF Lists, Resident
<1>3. f \in Bijection(1..Len(o), Resident(m))
  <2>1. f \in [1..Len(o) -> Resident(m)]
    BY <1>2
  <2>2. \A i, j \in 1..Len(o) : f[i] = f[j] => i = j
    BY DEF Lists, Once
  <2>3. \A s \in Resident(m) : \E i \in 1..Len(o) : f[i] = s
    BY <1>2
  <2>4. DOMAIN f = 1..Len(o)
    OBVIOUS
  <2> HIDE DEF f
  <2>5. IsInjective(f)
    BY <2>2, <2>4 DEF IsInjective
  <2> QED
    BY <2>1, <2>3, <2>5 DEF Bijection, Injection, Surjection
<1>4. IsFiniteSet(1..Len(o)) /\ Cardinality(1..Len(o)) = Len(o)
  BY <1>1, FirstPlaces
<1>5. Cardinality(1..Len(o)) = Cardinality(Resident(m))
  BY <1>3, <1>4, FS_Bijection DEF ExistsBijection
<1> QED
  BY <1>2, <1>4, <1>5

\* Eviction passes pinned bindings over, and every resident session stays in
\* the order once: none can escape eviction, none is evicted twice.
THEOREM EvictionSound == Spec => []EvictionKeepsPinned
<1>1. IInv => EvictionKeepsPinned
  BY OrderLength DEF IInv, EvictionKeepsPinned, OrderIsResidents
<1> QED
  BY <1>1, StoreInvariant, PTL
=============================================================================
