--------------------------- MODULE HookSpoolProofs ---------------------------
(***************************************************************************)
(* The hook delivery spool keeps what it promised, for any number of        *)
(* handles, events, files and sequences.                                    *)
(*                                                                         *)
(* Every directory entry that a power failure may bring back is a spool     *)
(* that opens and holds the committed records: its frames ascend, those the *)
(* metadata does not know follow it without a gap, and what the metadata    *)
(* knows and has not settled lies in the synced part of the file.  A handle *)
(* between two steps holds what its next step will rely on.                 *)
(***************************************************************************)
EXTENDS HookSpool, FiniteSetTheorems, SequenceTheorems, WellFoundedInduction, TLAPS

-----------------------------------------------------------------------------
(* The inductive invariant, over values so that its lemmas speak of values. *)

Named == ToSet(directory)
Newest == Last(directory)

FramesIn(e, fl) == IF e.records = NoFile THEN <<>> ELSE fl[e.records].frames
SyncedIn(e, fl) == IF e.records = NoFile THEN 0 ELSE fl[e.records].synced

Ascending(F) == \A i, j \in DOMAIN F : i < j => F[i][1] < F[j][1]

\* A frame the metadata does not know is the next one or follows its predecessor.
Follows(F, n) ==
    \A i \in DOMAIN F :
        F[i][1] >= n => F[i][1] = n \/ (i > 1 /\ F[i - 1][1] = F[i][1] - 1)

End(F, n) == IF Len(F) > 0 /\ F[Len(F)][1] >= n THEN F[Len(F)][1] + 1 ELSE n

\* What the metadata knows and has not settled is durable in the file.
Durable(m, F, k) == \A s \in 1 .. m.next - 1 : Settled(m, s) \/ \E i \in 1 .. k : F[i][1] = s

\* Settled frames were asked for.
Asked(m, F, as) == \A i \in DOMAIN F : Settled(m, F[i][1]) => F[i] \in as

EntryOK(e, fl, as) ==
    /\ Ascending(FramesIn(e, fl))
    /\ Follows(FramesIn(e, fl), e.meta.next)
    /\ Durable(e.meta, FramesIn(e, fl), SyncedIn(e, fl))
    /\ Asked(e.meta, FramesIn(e, fl), as)
    /\ e.records = NoFile => e.meta = FreshMeta

\* Entries of one file agree about the sequence the next append will take.
SameEnd(e, l, fl) ==
    e.records = l.records => End(FramesIn(l, fl), e.meta.next) = End(FramesIn(l, fl), l.meta.next)

ExtentOK(x, E, l, fl) ==
    /\ x.id # NoFile => \A e \in E : e.records # NoFile
    /\ x.id # NoFile /\ x.id = l.records => \A e \in E : e.records = l.records
    /\ \A e \in E : e.records = x.id /\ x.id # NoFile => x.synced <= fl[x.id].synced

\* A record that no power failure takes away before it is asked for.
Safe(f, e, fl, as) ==
    \/ Settled(e.meta, f[1]) /\ f \in as
    \/ \E i \in 1 .. SyncedIn(e, fl) : FramesIn(e, fl)[i] = f

\* Frame i of the entry's file will be durable once the handle's commit is.
Reached(h, e, fl, i) ==
    \/ i <= SyncedIn(e, fl)
    \/ h.id = e.records /\ h.step = "data"
    \/ h.id = e.records /\ h.step \in {"open", "sync"} /\ i <= h.end

Held(h, f, e, fl, as) ==
    \/ Settled(e.meta, f[1]) /\ f \in as
    \/ \E i \in DOMAIN FramesIn(e, fl) : FramesIn(e, fl)[i] = f /\ Reached(h, e, fl, i)

Concerns(h, e, l, x) ==
    e.records = l.records \/ (h.step \in {"data", "extent"} /\ x.id = h.id)

WantsOK(h, fl, E, l, x, as) ==
    \A f \in h.wants : \A e \in E : Concerns(h, e, l, x) => Held(h, f, e, fl, as)

ClaimOK(h, fl) ==
    /\ h.step = "data" => h.claim <= Len(fl[h.id].frames)
    /\ h.step = "extent" => h.claim <= fl[h.id].synced

\* An acknowledgement under way; its metadata extends what it was computed from.
Extends(m, b) == b.next <= m.next /\ \A s \in 1 .. MaxSeq : Settled(b, s) => Settled(m, s)

AckBase(h, l, as) ==
    /\ h.acks # {} /\ h.acks \subseteq as
    /\ \A f \in h.acks : ~Settled(h.base, f[1]) /\ Settled(h.next, f[1])
    /\ Extends(h.next, h.base)
    /\ Extends(l.meta, h.base)

\* As long as that metadata stands.
AckStands(h, fl, l) ==
    /\ \A i \in DOMAIN FramesIn(l, fl) :
          Settled(h.next, FramesIn(l, fl)[i][1]) =>
             Settled(h.base, FramesIn(l, fl)[i][1]) \/ FramesIn(l, fl)[i] \in h.acks
    /\ \A s \in 1 .. h.next.next - 1 :
          \/ Settled(h.base, s)
          \/ \E i \in DOMAIN FramesIn(l, fl) : FramesIn(l, fl)[i][1] = s /\ Reached(h, l, fl, i)

AckOK(h, fl, l, as) ==
    h.then = "meta" => AckBase(h, l, as) /\ (h.base = l.meta => AckStands(h, fl, l))

BarrierOK(h, E, l) ==
    /\ h.step = "barrier" => \A f \in h.acks : Settled(l.meta, f[1])
    /\ h.step = "return" => \A f \in h.acks : \A e \in E : Settled(e.meta, f[1])

CopyOK(h, fl, E, x) ==
    h.step = "swap" =>
        /\ h.copy \in Ids
        /\ fl[h.copy] = [frames |-> h.kept, synced |-> Len(h.kept), torn |-> FALSE]
        /\ x.id # h.copy
        /\ \A e \in E : e.records # h.copy

ControlOK(h, p, l, ls, lk) ==
    /\ h.step = "open" => ls = p
    /\ h.step \in {"data", "extent"} => lk = p
    /\ h.step \in {"sync", "data", "extent"} =>
          h.id \in Ids /\ h.then \in {"idle", "meta"} /\ l.records # NoFile
    /\ h.copy # NoFile => h.step = "swap"
    /\ h.wants # {} => h.step \in {"open", "sync", "data", "extent"} /\ h.id \in Ids /\ h.then = "idle"
    /\ h.then = "meta" => h.step \in {"sync", "data", "extent", "meta"}
    /\ h.step = "meta" => h.then = "meta"
    /\ h.step = "idle" => h = Closed
    /\ h.step = "open" => h.then = "idle" /\ h.id \in {NoFile, l.records}

HandleOK(h, p, fl, E, l, x, ls, lk, as) ==
    /\ WantsOK(h, fl, E, l, x, as)
    /\ ClaimOK(h, fl)
    /\ AckOK(h, fl, l, as)
    /\ BarrierOK(h, E, l)
    /\ CopyOK(h, fl, E, x)
    /\ ControlOK(h, p, l, ls, lk)

\* A staged replacement is nobody else's.
Apart(g, h) ==
    g.step = "swap" =>
        g.copy # h.copy /\ ~(h.step \in {"data", "extent"} /\ h.id = g.copy)

EntriesOK == \A e \in Named : EntryOK(e, file, asked) /\ SameEnd(e, Newest, file)
CommittedOK == \A f \in committed : \A e \in Named : Safe(f, e, file, asked)
SettledOK == \A f \in settled : \A e \in Named : Settled(e.meta, f[1])
HandlesOK ==
    \A p \in Procs : HandleOK(handle[p], p, file, Named, Newest, extent, lease, lock, asked)
CopiesApart == \A p, q \in Procs : p # q => Apart(handle[p], handle[q])

SpoolInv ==
    /\ SpoolTypeOK
    /\ EntriesOK
    /\ ExtentOK(extent, Named, Newest, file)
    /\ CommittedOK
    /\ SettledOK
    /\ HandlesOK
    /\ CopiesApart

-----------------------------------------------------------------------------
(* Numbers and positions.                                                  *)

LEMMA BoundsAreNatural == MaxSeq \in Nat \ {0} /\ MaxRecords \in Nat \ {0} /\ MaxBytes \in Nat \ {0}
BY SpoolAssumption

\* Every non-empty set of naturals has a least element.
LEMMA LeastNatural ==
    ASSUME NEW S \in SUBSET Nat, S # {}
    PROVE  \E m \in S : \A n \in S : m <= n
<1>1. PICK m \in S : \A n \in S : ~ (<<n, m>> \in OpToRel(<, Nat))
  BY NatLessThanWellFounded, WFMin
<1>2. \A n \in S : m <= n
  <2> TAKE n \in S
  <2>1. m \in Nat /\ n \in Nat
    OBVIOUS
  <2>2. ~ (<<n, m>> \in OpToRel(<, Nat))
    BY <1>1
  <2> QED
    BY <2>1, <2>2 DEF OpToRel
<1> QED
  BY <1>2

\* Every non-empty bounded set of naturals has a greatest element.
LEMMA GreatestNatural ==
    ASSUME NEW N \in Nat, NEW S \in SUBSET (0 .. N), S # {}
    PROVE  Max(S) \in S
<1> DEFINE Q == {n \in Nat : \E x \in S : n = N - x}
<1>1. Q # {} /\ Q \subseteq Nat
  <2>1. PICK x \in S : TRUE
    OBVIOUS
  <2>2. N - x \in Q
    BY <2>1
  <2> QED
    BY <2>2
<1>2. PICK m \in Q : \A n \in Q : m <= n
  <2> HIDE DEF Q
  <2> QED
    BY <1>1, LeastNatural
<1>3. PICK x \in S : m = N - x
  BY <1>2
<1>4. \A y \in S : x >= y
  BY <1>2, <1>3
<1> QED
  BY <1>4 DEF Max

\* The k-th position of I has k positions of I up to it, and there is one for each k.
LEMMA Ranks ==
    ASSUME NEW n \in Nat, NEW I \in SUBSET (1 .. n)
    PROVE  /\ IsFiniteSet(I) /\ Cardinality(I) \in 0 .. n
           /\ \A i \in I : Cardinality({j \in I : j <= i}) \in 1 .. Cardinality(I)
           /\ \A i, j \in I : i < j => Cardinality({k \in I : k <= i}) < Cardinality({k \in I : k <= j})
           /\ \A k \in 1 .. Cardinality(I) : \E i \in I : Cardinality({j \in I : j <= i}) = k
<1> DEFINE Upto(i) == {j \in I : j <= i}
           rank == [i \in I |-> Cardinality(Upto(i))]
<1>1. IsFiniteSet(1 .. n) /\ Cardinality(1 .. n) = n
  BY FS_Interval
<1>2. IsFiniteSet(I) /\ Cardinality(I) \in 0 .. n
  <2>1. IsFiniteSet(I) /\ Cardinality(I) <= n
    BY <1>1, FS_Subset
  <2>2. Cardinality(I) \in Nat
    BY <2>1, FS_CardinalityType
  <2> QED
    BY <2>1, <2>2
<1>3. \A i \in I : IsFiniteSet(Upto(i)) /\ Cardinality(Upto(i)) \in 1 .. Cardinality(I)
  <2> TAKE i \in I
  <2>1. Upto(i) \in SUBSET I /\ i \in Upto(i)
    OBVIOUS
  <2> HIDE DEF Upto
  <2>2. IsFiniteSet(Upto(i)) /\ Cardinality(Upto(i)) <= Cardinality(I)
    BY <1>2, <2>1, FS_Subset
  <2>3. Cardinality(Upto(i)) \in Nat /\ Cardinality(Upto(i)) # 0
    BY <2>1, <2>2, FS_CardinalityType, FS_EmptySet
  <2> QED
    BY <1>2, <2>2, <2>3
<1>4. \A i, j \in I : i < j => Cardinality(Upto(i)) < Cardinality(Upto(j))
  <2> SUFFICES ASSUME NEW i \in I, NEW j \in I, i < j
               PROVE  Cardinality(Upto(i)) < Cardinality(Upto(j))
    OBVIOUS
  <2>0. i \in Nat /\ j \in Nat /\ \A k \in I : k \in Nat
    OBVIOUS
  <2>1. Upto(i) \in SUBSET Upto(j) /\ j \in Upto(j) /\ j \notin Upto(i)
    <3>1. \A k \in I : k <= i => k <= j
      BY <2>0
    <3>2. j <= j /\ ~(j <= i)
      BY <2>0
    <3> QED
      BY <3>1, <3>2
  <2>2. /\ IsFiniteSet(Upto(j))
        /\ Cardinality(Upto(i)) \in Nat /\ Cardinality(Upto(j)) \in Nat
    BY <1>2, <1>3
  <2> HIDE DEF Upto
  <2> QED
    BY <2>1, <2>2, FS_Subset
<1>5. rank \in Injection(I, 1 .. Cardinality(I))
  <2>1. rank \in [I -> 1 .. Cardinality(I)]
    BY <1>3
  <2>2. \A i, j \in I : rank[i] = rank[j] => i = j
    <3> SUFFICES ASSUME NEW i \in I, NEW j \in I, i # j
                 PROVE  rank[i] # rank[j]
      OBVIOUS
    <3>1. rank[i] = Cardinality(Upto(i)) /\ rank[j] = Cardinality(Upto(j))
      OBVIOUS
    <3>2. i < j \/ j < i
      OBVIOUS
    <3>3. Cardinality(Upto(i)) \in Nat /\ Cardinality(Upto(j)) \in Nat
      BY <1>2, <1>3
    <3> HIDE DEF rank, Upto
    <3> QED
      BY <1>4, <3>1, <3>2, <3>3
  <2> HIDE DEF rank
  <2> QED
    BY <2>1, <2>2 DEF Injection, IsInjective
<1>6. rank \in Surjection(I, 1 .. Cardinality(I))
  <2>1. IsFiniteSet(1 .. Cardinality(I)) /\ Cardinality(1 .. Cardinality(I)) = Cardinality(I)
    BY <1>2, FS_Interval
  <2> HIDE DEF rank
  <2> QED
    BY <1>5, <2>1, FS_Injection
<1>7. \A k \in 1 .. Cardinality(I) : \E i \in I : Cardinality(Upto(i)) = k
  <2> TAKE k \in 1 .. Cardinality(I)
  <2>1. \E i \in I : rank[i] = k
    <3> HIDE DEF rank
    <3> QED
      BY <1>6 DEF Surjection
  <2> QED
    BY <2>1
<1> QED
  BY <1>2, <1>3, <1>4, <1>7

\* What Selected takes from a sequence: the frames at the positions, in their order.
IsSelection(G, T, F, I) ==
    /\ Cardinality(I) \in 0 .. Len(F)
    /\ G \in Seq(T)
    /\ Len(G) = Cardinality(I)
    /\ \E g \in [1 .. Cardinality(I) -> I] :
          /\ \A k \in 1 .. Cardinality(I) : G[k] = F[g[k]]
          /\ \A k, l \in 1 .. Cardinality(I) : k < l => g[k] < g[l]
          /\ \A i \in I : \E k \in 1 .. Cardinality(I) : g[k] = i

LEMMA SelectedFrames ==
    ASSUME NEW T, NEW F \in Seq(T), NEW I \in SUBSET (DOMAIN F)
    PROVE  IsSelection(Selected(F, I), T, F, I)
<1> DEFINE Upto(i) == {j \in I : j <= i}
           c == Cardinality(I)
           g == [k \in 1 .. c |-> CHOOSE i \in I : Cardinality(Upto(i)) = k]
<1>1. Len(F) \in Nat /\ DOMAIN F = 1 .. Len(F) /\ F \in [1 .. Len(F) -> T]
  BY LenProperties
<1>2. /\ c \in 0 .. Len(F)
      /\ \A i \in I : Cardinality(Upto(i)) \in 1 .. c
      /\ \A i, j \in I : i < j => Cardinality(Upto(i)) < Cardinality(Upto(j))
      /\ \A k \in 1 .. c : \E i \in I : Cardinality(Upto(i)) = k
  BY <1>1, Ranks
<1>3. \A k \in 1 .. c : g[k] \in I /\ Cardinality(Upto(g[k])) = k
  <2> TAKE k \in 1 .. c
  <2>1. g[k] = CHOOSE i \in I : Cardinality(Upto(i)) = k
    OBVIOUS
  <2> HIDE DEF c, Upto, g
  <2> QED
    BY <1>2, <2>1
<1>4. g \in [1 .. c -> I]
  BY <1>3
<1>5. \A k, l \in 1 .. c : k < l => g[k] < g[l]
  <2> SUFFICES ASSUME NEW k \in 1 .. c, NEW l \in 1 .. c, k < l
               PROVE  g[k] < g[l]
    OBVIOUS
  <2>1. g[k] \in I /\ g[l] \in I /\ g[k] \in Nat /\ g[l] \in Nat
    <3>1. g[k] \in I /\ g[l] \in I
      BY <1>3
    <3> HIDE DEF g, c
    <3> QED
      BY <1>1, <3>1
  <2>2. Cardinality(Upto(g[k])) = k /\ Cardinality(Upto(g[l])) = l
    BY <1>3
  <2>3. g[l] < g[k] => l < k
    BY <1>2, <2>1, <2>2
  <2>4. c \in Nat
    BY <1>2
  <2> HIDE DEF c, Upto, g
  <2> QED
    BY <2>1, <2>2, <2>3, <2>4
<1>6. \A i \in I : \E k \in 1 .. c : g[k] = i
  <2> TAKE i \in I
  <2> DEFINE k == Cardinality(Upto(i))
  <2>1. k \in 1 .. c /\ c \in Nat
    BY <1>2
  <2>2. g[k] \in I /\ Cardinality(Upto(g[k])) = k
    BY <1>3, <2>1
  <2>3. i \in Nat /\ g[k] \in Nat
    BY <1>1, <2>2
  <2>4. g[k] = i
    <3> HIDE DEF c, Upto, g
    <3> QED
      BY <1>2, <2>1, <2>2, <2>3
  <2> QED
    BY <2>1, <2>4
<1>7. Selected(F, I) = [k \in 1 .. c |-> F[g[k]]]
  BY DEF Selected
<1>8. \A k \in 1 .. c : F[g[k]] \in T
  <2> HIDE DEF c, g
  <2> QED
    BY <1>1, <1>4
<1>9. Selected(F, I) \in Seq(T) /\ Len(Selected(F, I)) = c
  <2>1. c \in Nat
    BY <1>2
  <2> HIDE DEF c, g
  <2> QED
    BY <1>7, <1>8, <2>1
<1>10. \A k \in 1 .. c : Selected(F, I)[k] = F[g[k]]
  <2> HIDE DEF c, g
  <2> QED
    BY <1>7
<1> HIDE DEF g
<1> QED
  BY <1>2, <1>4, <1>5, <1>6, <1>9, <1>10 DEF IsSelection

-----------------------------------------------------------------------------
(* Frames.                                                                 *)

\* A frame is a sequence and an event.
LEMMA FrameTypes ==
    ASSUME NEW F \in Seq(Pairs)
    PROVE  /\ Len(F) \in Nat /\ DOMAIN F = 1 .. Len(F)
           /\ \A i \in DOMAIN F : F[i] \in Pairs /\ F[i][1] \in 1 .. MaxSeq /\ F[i][1] \in Nat
<1>1. Len(F) \in Nat /\ DOMAIN F = 1 .. Len(F) /\ \A i \in 1 .. Len(F) : F[i] \in Pairs
  BY LenProperties
<1>2. \A f \in Pairs : f[1] \in 1 .. MaxSeq
  BY DEF Pairs
<1> QED
  BY <1>1, <1>2, SpoolAssumption

\* Ascending sequences start at one or later.
LEMMA AscendingFromOne ==
    ASSUME NEW F \in Seq(Pairs), Ascending(F)
    PROVE  \A i \in DOMAIN F : F[i][1] >= i
<1> DEFINE Bad == {i \in DOMAIN F : F[i][1] < i}
<1> SUFFICES ASSUME Bad # {}
             PROVE  FALSE
  BY FrameTypes
<1>1. Bad \in SUBSET Nat
  BY FrameTypes
<1>2. PICK m \in Bad : \A n \in Bad : m <= n
  <2> HIDE DEF Bad
  <2> QED
    BY <1>1, LeastNatural
<1>3. m \in 1 .. Len(F) /\ F[m][1] < m /\ F[m][1] \in 1 .. MaxSeq
  BY <1>2, FrameTypes
<1>4. m - 1 \in DOMAIN F /\ m - 1 < m /\ m \in DOMAIN F
  BY <1>3, FrameTypes
<1>5. F[m - 1][1] < F[m][1]
  BY <1>4 DEF Ascending
<1>6. F[m - 1][1] \in Nat
  BY <1>4, FrameTypes
<1>7. m - 1 \in Bad
  BY <1>3, <1>4, <1>5, <1>6
<1> QED
  BY <1>2, <1>3, <1>7

\* The frames the metadata does not know are the last ones, one after the other.
LEMMA UnknownTail ==
    ASSUME NEW F \in Seq(Pairs), NEW n \in Nat, Ascending(F), Follows(F, n)
    PROVE  \E k \in 1 .. Len(F) + 1 :
              /\ \A i \in 1 .. k - 1 : F[i][1] < n
              /\ \A i \in k .. Len(F) : F[i][1] = n + (i - k)
<1> DEFINE U == {i \in DOMAIN F : F[i][1] >= n}
<1>0. /\ Len(F) \in Nat /\ DOMAIN F = 1 .. Len(F)
      /\ \A i \in 1 .. Len(F) : F[i][1] \in Nat
  BY FrameTypes
<1>1. CASE U = {}
  <2>1. \A i \in 1 .. (Len(F) + 1) - 1 : F[i][1] < n
    BY <1>0, <1>1
  <2>2. \A i \in Len(F) + 1 .. Len(F) : F[i][1] = n + (i - (Len(F) + 1))
    BY <1>0
  <2>3. Len(F) + 1 \in 1 .. Len(F) + 1
    BY <1>0
  <2> QED
    BY <2>1, <2>2, <2>3
<1>2. CASE U # {}
  <2>1. U \in SUBSET Nat
    BY <1>0
  <2>2. PICK k \in U : \A i \in U : k <= i
    <3> HIDE DEF U
    <3> QED
      BY <1>2, <2>1, LeastNatural
  <2>3. k \in 1 .. Len(F) /\ F[k][1] >= n
    BY <1>0, <2>2
  <2>4. \A i \in 1 .. k - 1 : F[i][1] < n
    BY <1>0, <2>2, <2>3
  <2>5. F[k][1] = n
    <3>1. F[k][1] = n \/ (k > 1 /\ F[k - 1][1] = F[k][1] - 1)
      BY <1>0, <2>3 DEF Follows
    <3>2. k > 1 => F[k - 1][1] < n /\ F[k - 1][1] \in Nat
      BY <1>0, <2>3, <2>4
    <3>3. F[k][1] \in Nat
      BY <1>0, <2>3
    <3> QED
      BY <2>3, <3>1, <3>2, <3>3
  <2> DEFINE Bad == {i \in k .. Len(F) : F[i][1] # n + (i - k)}
  <2>6. Bad = {}
    <3> SUFFICES ASSUME Bad # {}
                 PROVE  FALSE
      OBVIOUS
    <3>1. Bad \in SUBSET Nat
      BY <1>0, <2>3
    <3>2. PICK m \in Bad : \A i \in Bad : m <= i
      <4> HIDE DEF Bad
      <4> QED
        BY <3>1, LeastNatural
    <3>3. m \in k .. Len(F) /\ F[m][1] # n + (m - k) /\ m # k
      BY <1>0, <2>3, <2>5, <3>2
    <3>4. m - 1 \in k .. Len(F) /\ m - 1 \notin Bad
      BY <1>0, <2>3, <3>2, <3>3
    <3>5. F[m - 1][1] = n + (m - 1 - k)
      BY <3>4
    <3>6. m \in DOMAIN F /\ m - 1 \in DOMAIN F /\ m - 1 < m /\ m > 1
      BY <1>0, <2>3, <3>3, <3>4
    <3>7. F[m - 1][1] < F[m][1]
      BY <3>6 DEF Ascending
    <3>8. F[m][1] \in Nat /\ F[m - 1][1] \in Nat
      BY <1>0, <3>6
    <3>9. F[m][1] > n
      BY <1>0, <2>3, <3>3, <3>4, <3>5, <3>7, <3>8
    <3>10. F[m - 1][1] = F[m][1] - 1
      <4>1. F[m][1] >= n => F[m][1] = n \/ (m > 1 /\ F[m - 1][1] = F[m][1] - 1)
        BY <3>6 DEF Follows
      <4> QED
        BY <3>8, <3>9, <4>1
    <3> QED
      BY <1>0, <2>3, <3>3, <3>5, <3>8, <3>10
  <2>7. k \in 1 .. Len(F) + 1
    BY <1>0, <2>3
  <2> QED
    BY <2>4, <2>6, <2>7
<1> QED
  BY <1>1, <1>2

\* What the scan makes of them: their number leads to the next sequence.
Counted(F, n, U) ==
    /\ n + Cardinality(U) = End(F, n)
    /\ \A i \in U : F[i][1] = n + Cardinality({j \in U : j < i})

LEMMA UnknownFrames ==
    ASSUME NEW F \in Seq(Pairs), NEW n \in Nat \ {0}, Ascending(F), Follows(F, n),
           NEW U, U = {i \in DOMAIN F : F[i][1] >= n}
    PROVE  /\ Counted(F, n, U)
           /\ End(F, n) \in Nat /\ n <= End(F, n) /\ Len(F) < End(F, n)
           /\ \A i \in DOMAIN F : F[i][1] < End(F, n)
           /\ \A s \in n .. End(F, n) - 1 : \E i \in DOMAIN F : F[i][1] = s
<1>0. /\ Len(F) \in Nat /\ DOMAIN F = 1 .. Len(F)
      /\ \A i \in 1 .. Len(F) : F[i][1] \in Nat
  BY FrameTypes
<1>1. PICK k \in 1 .. Len(F) + 1 :
              /\ \A i \in 1 .. k - 1 : F[i][1] < n
              /\ \A i \in k .. Len(F) : F[i][1] = n + (i - k)
  BY UnknownTail
<1>2. U = k .. Len(F)
  <2>1. \A i \in DOMAIN F : F[i][1] >= n <=> i \in k .. Len(F)
    <3> TAKE i \in DOMAIN F
    <3>1. i \in 1 .. k - 1 \/ i \in k .. Len(F)
      BY <1>0, <1>1
    <3>2. i \in 1 .. k - 1 => ~(i \in k .. Len(F)) /\ ~(F[i][1] >= n)
      BY <1>0, <1>1
    <3>3. i \in k .. Len(F) => F[i][1] >= n
      BY <1>0, <1>1
    <3> QED
      BY <3>1, <3>2, <3>3
  <2>2. k .. Len(F) \subseteq DOMAIN F
    BY <1>0, <1>1
  <2> QED
    BY <2>1, <2>2
<1>3. Cardinality(U) = (Len(F) + 1) - k
  <2>0. k \in Int /\ Len(F) \in Int /\ k <= Len(F) + 1
    BY <1>0
  <2>1. Cardinality(k .. Len(F)) = IF k > Len(F) THEN 0 ELSE Len(F) - k + 1
    BY <2>0, FS_Interval
  <2>2. Cardinality(k .. Len(F)) = (Len(F) + 1) - k
    BY <2>0, <2>1
  <2> QED
    BY <1>2, <2>2
<1>4. End(F, n) = n + ((Len(F) + 1) - k)
  <2>1. CASE k = Len(F) + 1
    <3>1. Len(F) > 0 => ~(F[Len(F)][1] >= n)
      BY <1>0, <1>1, <2>1
    <3> QED
      BY <1>0, <2>1, <3>1 DEF End
  <2>2. CASE k # Len(F) + 1
    <3>1. Len(F) \in k .. Len(F) /\ Len(F) > 0
      BY <1>0, <1>1, <2>2
    <3>2. F[Len(F)][1] = n + (Len(F) - k)
      BY <1>1, <3>1
    <3> QED
      BY <1>0, <1>1, <3>1, <3>2 DEF End
  <2> QED
    BY <2>1, <2>2
<1>5. \A i \in U : F[i][1] = n + Cardinality({j \in U : j < i})
  <2> TAKE i \in U
  <2>1. i \in k .. Len(F) /\ F[i][1] = n + (i - k)
    BY <1>1, <1>2
  <2>2. {j \in U : j < i} = k .. i - 1
    BY <1>0, <1>2, <2>1
  <2>3. k \in Int /\ i - 1 \in Int /\ k <= i
    BY <1>0, <2>1
  <2>4. Cardinality(k .. i - 1) = IF k > i - 1 THEN 0 ELSE (i - 1) - k + 1
    BY <2>3, FS_Interval
  <2>5. Cardinality(k .. i - 1) = i - k
    BY <2>3, <2>4
  <2> QED
    BY <2>1, <2>2, <2>5
<1>6. \A i \in DOMAIN F : F[i][1] < End(F, n)
  <2> TAKE i \in DOMAIN F
  <2>1. i \in 1 .. k - 1 \/ i \in k .. Len(F)
    BY <1>0, <1>1
  <2>2. i \in 1 .. k - 1 => F[i][1] < n /\ F[i][1] \in Nat
    BY <1>0, <1>1
  <2>3. i \in k .. Len(F) => F[i][1] = n + (i - k)
    BY <1>1
  <2> QED
    BY <1>0, <1>4, <2>1, <2>2, <2>3
<1>7. \A s \in n .. End(F, n) - 1 : \E i \in DOMAIN F : F[i][1] = s
  <2> TAKE s \in n .. End(F, n) - 1
  <2>1. k + (s - n) \in k .. Len(F) /\ k + (s - n) \in DOMAIN F
    BY <1>0, <1>4
  <2>2. F[k + (s - n)][1] = n + ((k + (s - n)) - k)
    BY <1>1, <2>1
  <2> QED
    BY <1>0, <2>1, <2>2
<1>8. Len(F) < End(F, n)
  <2>1. Len(F) > 0 => F[Len(F)][1] >= Len(F) /\ F[Len(F)][1] < End(F, n)
    BY <1>0, <1>6, AscendingFromOne
  <2>2. Len(F) > 0 => F[Len(F)][1] \in Nat
    BY <1>0
  <2> QED
    BY <1>0, <1>4, <2>1, <2>2
<1> QED
  BY <1>0, <1>3, <1>4, <1>5, <1>6, <1>7, <1>8 DEF Counted

\* Where the next append goes: past every frame, with no gap after the metadata.
LEMMA EndFacts ==
    ASSUME NEW F \in Seq(Pairs), NEW n \in Nat \ {0}, Ascending(F), Follows(F, n)
    PROVE  /\ End(F, n) \in Nat /\ n <= End(F, n) /\ Len(F) < End(F, n)
           /\ \A i \in DOMAIN F : F[i][1] < End(F, n)
           /\ \A s \in n .. End(F, n) - 1 : \E i \in DOMAIN F : F[i][1] = s
<1> DEFINE U == {i \in DOMAIN F : F[i][1] >= n}
<1> HIDE DEF U
<1>1. U = {i \in DOMAIN F : F[i][1] >= n}
  BY DEF U
<1> QED
  BY <1>1, UnknownFrames

-----------------------------------------------------------------------------
(* Entries.                                                                *)

FilesOK(fl) ==
    /\ fl \in [Ids -> Files]
    /\ \A i \in Ids : fl[i].synced <= Len(fl[i].frames) /\ Len(fl[i].frames) <= MaxSeq

\* What metadata holds.
LEMMA MetaTypes ==
    ASSUME NEW m \in Metas
    PROVE  /\ m.next \in 1 .. MaxSeq + 1 /\ m.next \in Nat /\ m.through \in Nat
           /\ m.through < m.next
           /\ m.acked \subseteq 1 .. MaxSeq
           /\ \A s \in Nat : Settled(m, s) => s < m.next
<1>1. /\ m.next \in 1 .. MaxSeq + 1 /\ m.through \in 0 .. MaxSeq
      /\ m.acked \subseteq 1 .. MaxSeq
      /\ m.through < m.next /\ m.acked \subseteq (m.through + 1) .. (m.next - 1)
  BY DEF Metas
<1>2. MaxSeq \in Nat
  BY SpoolAssumption
<1>3. m.next \in Nat /\ m.through \in Nat
  BY <1>1, <1>2
<1>4. \A s \in Nat : Settled(m, s) => s < m.next
  BY <1>1, <1>3 DEF Settled
<1> QED
  BY <1>1, <1>3, <1>4

\* What an entry names.
LEMMA EntryTypes ==
    ASSUME NEW fl, FilesOK(fl), NEW e \in Entries
    PROVE  /\ FramesIn(e, fl) \in Seq(Pairs)
           /\ SyncedIn(e, fl) \in 0 .. Len(FramesIn(e, fl))
           /\ SyncedIn(e, fl) \in Nat
           /\ Len(FramesIn(e, fl)) \in 0 .. MaxSeq
           /\ e.meta \in Metas
           /\ e.records \in Ids \cup {NoFile}
<1>1. e.meta \in Metas /\ e.records \in Ids \cup {NoFile}
  BY DEF Entries
<1>2. MaxSeq \in Nat
  BY SpoolAssumption
<1>3. CASE e.records = NoFile
  <2>1. FramesIn(e, fl) = <<>> /\ SyncedIn(e, fl) = 0
    BY <1>3 DEF FramesIn, SyncedIn
  <2>2. <<>> \in Seq(Pairs) /\ Len(<<>>) = 0
    BY EmptySeq
  <2> QED
    BY <1>1, <1>2, <2>1, <2>2
<1>4. CASE e.records \in Ids /\ e.records # NoFile
  <2>1. FramesIn(e, fl) = fl[e.records].frames /\ SyncedIn(e, fl) = fl[e.records].synced
    BY <1>4 DEF FramesIn, SyncedIn
  <2>2. fl[e.records] \in Files
    BY <1>4 DEF FilesOK
  <2>3. fl[e.records].frames \in Seq(Pairs) /\ fl[e.records].synced \in 0 .. MaxSeq
    BY <2>2 DEF Files
  <2>4. fl[e.records].synced <= Len(fl[e.records].frames) /\ Len(fl[e.records].frames) <= MaxSeq
    BY <1>4 DEF FilesOK
  <2>5. Len(fl[e.records].frames) \in Nat
    BY <2>3, LenProperties
  <2> QED
    BY <1>1, <1>2, <2>1, <2>3, <2>4, <2>5
<1> QED
  BY <1>1, <1>3, <1>4

\* An entry whose file kept its frames, synced as far or further.
Kept(e, fl, fl2) ==
    /\ FramesIn(e, fl2) = FramesIn(e, fl)
    /\ SyncedIn(e, fl) <= SyncedIn(e, fl2)

LEMMA EntryKept ==
    ASSUME NEW fl, FilesOK(fl), NEW fl2, FilesOK(fl2), NEW e \in Entries, Kept(e, fl, fl2),
           NEW as, NEW as2, as \subseteq as2
    PROVE  /\ EntryOK(e, fl, as) => EntryOK(e, fl2, as2)
           /\ \A f : Safe(f, e, fl, as) => Safe(f, e, fl2, as2)
           /\ \A h, f : Held(h, f, e, fl, as) => Held(h, f, e, fl2, as2)
           /\ \A h, i : i \in Nat /\ Reached(h, e, fl, i) => Reached(h, e, fl2, i)
<1>1. /\ SyncedIn(e, fl) \in Nat /\ SyncedIn(e, fl2) \in Nat
      /\ FramesIn(e, fl2) = FramesIn(e, fl) /\ SyncedIn(e, fl) <= SyncedIn(e, fl2)
      /\ \A i \in DOMAIN FramesIn(e, fl) : i \in Nat
  <2>1. FramesIn(e, fl) \in Seq(Pairs)
    BY EntryTypes
  <2>2. DOMAIN FramesIn(e, fl) = 1 .. Len(FramesIn(e, fl)) /\ Len(FramesIn(e, fl)) \in Nat
    BY <2>1, FrameTypes
  <2> QED
    BY <2>2, EntryTypes DEF Kept
<1>2. \A i \in 1 .. SyncedIn(e, fl) : i \in 1 .. SyncedIn(e, fl2)
  BY <1>1
<1>3. ASSUME EntryOK(e, fl, as)
      PROVE  EntryOK(e, fl2, as2)
  <2>1. Durable(e.meta, FramesIn(e, fl2), SyncedIn(e, fl2))
    BY <1>1, <1>2, <1>3 DEF EntryOK, Durable
  <2>2. Asked(e.meta, FramesIn(e, fl2), as2)
    BY <1>1, <1>3 DEF EntryOK, Asked
  <2> QED
    BY <1>1, <1>3, <2>1, <2>2 DEF EntryOK
<1>4. \A f : Safe(f, e, fl, as) => Safe(f, e, fl2, as2)
  BY <1>1, <1>2 DEF Safe
<1>5. \A h, i : i \in Nat /\ Reached(h, e, fl, i) => Reached(h, e, fl2, i)
  BY <1>1 DEF Reached
<1>6. \A h, f : Held(h, f, e, fl, as) => Held(h, f, e, fl2, as2)
  <2> SUFFICES ASSUME NEW h, NEW f, Held(h, f, e, fl, as)
               PROVE  Held(h, f, e, fl2, as2)
    OBVIOUS
  <2>1. CASE Settled(e.meta, f[1]) /\ f \in as
    BY <2>1 DEF Held
  <2>2. CASE \E i \in DOMAIN FramesIn(e, fl) : FramesIn(e, fl)[i] = f /\ Reached(h, e, fl, i)
    <3>1. PICK i \in DOMAIN FramesIn(e, fl) : FramesIn(e, fl)[i] = f /\ Reached(h, e, fl, i)
      BY <2>2
    <3>2. Reached(h, e, fl2, i)
      BY <1>1, <1>5, <3>1
    <3> QED
      BY <1>1, <3>1, <3>2 DEF Held
  <2> QED
    BY <2>1, <2>2 DEF Held
<1> QED
  BY <1>3, <1>4, <1>5, <1>6

\* The same entry of a file that received its next frame.
LEMMA FramesAppended ==
    ASSUME NEW m \in Metas, NEW F \in Seq(Pairs), NEW k \in 0 .. Len(F), NEW as,
           Ascending(F), Follows(F, m.next), Durable(m, F, k), Asked(m, F, as),
           NEW f \in Pairs, f[1] = End(F, m.next),
           NEW G, G = Append(F, f)
    PROVE  /\ Ascending(G) /\ Follows(G, m.next) /\ Durable(m, G, k) /\ Asked(m, G, as)
           /\ End(G, m.next) = f[1] + 1
<1> DEFINE n == Len(F)
<1>1. /\ n \in Nat /\ DOMAIN F = 1 .. n
      /\ \A i \in 1 .. n : F[i][1] \in Nat
  BY FrameTypes
<1>2. /\ G \in Seq(Pairs) /\ Len(G) = n + 1
      /\ \A i \in 1 .. n : G[i] = F[i]
      /\ G[n + 1] = f
  BY AppendProperties
<1>3. DOMAIN G = 1 .. n + 1
  BY <1>2, LenProperties
<1>4. m.next \in Nat \ {0} /\ m.next \in Nat
  BY MetaTypes
<1>5. /\ f[1] \in Nat /\ m.next <= f[1]
      /\ \A i \in 1 .. n : F[i][1] < f[1]
  BY <1>1, <1>4, EndFacts
<1> HIDE DEF n
<1>6. Ascending(G)
  <2> SUFFICES ASSUME NEW i \in 1 .. n + 1, NEW j \in 1 .. n + 1, i < j
               PROVE  G[i][1] < G[j][1]
    BY <1>3 DEF Ascending
  <2>1. i \in 1 .. n /\ G[i] = F[i]
    BY <1>1, <1>2
  <2>2. CASE j = n + 1
    BY <1>2, <1>5, <2>1, <2>2
  <2>3. CASE j \in 1 .. n
    BY <1>1, <1>2, <2>1, <2>3 DEF Ascending
  <2> QED
    BY <1>1, <2>2, <2>3
<1>7. Follows(G, m.next)
  <2> SUFFICES ASSUME NEW i \in 1 .. n + 1, G[i][1] >= m.next
               PROVE  G[i][1] = m.next \/ (i > 1 /\ G[i - 1][1] = G[i][1] - 1)
    BY <1>3 DEF Follows
  <2>1. CASE i \in 1 .. n
    <3>1. F[i][1] = m.next \/ (i > 1 /\ F[i - 1][1] = F[i][1] - 1)
      BY <1>1, <1>2, <2>1 DEF Follows
    <3>2. i > 1 => i - 1 \in 1 .. n
      BY <1>1, <2>1
    <3> QED
      BY <1>2, <2>1, <3>1, <3>2
  <2>2. CASE i = n + 1
    <3>1. CASE n > 0 /\ F[n][1] >= m.next
      <4>1. f[1] = F[n][1] + 1
        BY <3>1 DEF End, n
      <4>2. n \in 1 .. n /\ G[n] = F[n] /\ i - 1 = n
        BY <1>1, <1>2, <2>2, <3>1
      <4> QED
        BY <1>1, <1>2, <2>2, <3>1, <4>1, <4>2
    <3>2. CASE ~(n > 0 /\ F[n][1] >= m.next)
      <4>1. f[1] = m.next
        BY <3>2 DEF End, n
      <4> QED
        BY <1>2, <2>2, <4>1
    <3> QED
      BY <3>1, <3>2
  <2> QED
    BY <1>1, <2>1, <2>2
<1>8. Durable(m, G, k)
  <2>1. \A i \in 1 .. k : i \in 1 .. n
    BY <1>1 DEF n
  <2> QED
    BY <1>2, <2>1 DEF Durable
<1>9. Asked(m, G, as)
  <2> SUFFICES ASSUME NEW i \in 1 .. n + 1, Settled(m, G[i][1])
               PROVE  G[i] \in as
    BY <1>3 DEF Asked
  <2>1. i # n + 1
    <3>1. Settled(m, f[1]) => f[1] < m.next
      BY <1>5, MetaTypes
    <3> QED
      BY <1>2, <1>4, <1>5, <3>1
  <2>2. i \in 1 .. n
    <3>1. n \in Nat
      BY <1>1
    <3> QED
      BY <2>1, <3>1
  <2> QED
    BY <1>1, <1>2, <2>2 DEF Asked
<1>10. End(G, m.next) = f[1] + 1
  BY <1>1, <1>2, <1>5 DEF End
<1> QED
  BY <1>6, <1>7, <1>8, <1>9, <1>10

\* The same entry of a file cut down to at least its synced frames.
Truncates(G, F, n) == G = SubSeq(F, 1, n)

LEMMA FramesTruncated ==
    ASSUME NEW m \in Metas, NEW F \in Seq(Pairs), NEW k \in 0 .. Len(F), NEW as,
           Ascending(F), Follows(F, m.next), Durable(m, F, k), Asked(m, F, as),
           NEW n \in k .. Len(F), NEW G, Truncates(G, F, n)
    PROVE  /\ G \in Seq(Pairs) /\ Len(G) = n /\ \A i \in 1 .. n : G[i] = F[i]
           /\ Ascending(G) /\ Follows(G, m.next) /\ Durable(m, G, n) /\ Asked(m, G, as)
<1> USE DEF Truncates
<1>1. /\ Len(F) \in Nat /\ DOMAIN F = 1 .. Len(F)
      /\ \A i \in 1 .. Len(F) : F[i] \in Pairs
  BY FrameTypes
<1>2. n \in Nat /\ n <= Len(F) /\ k \in Nat /\ k <= n
  BY <1>1
<1>3. /\ G \in Seq(Pairs) /\ Len(G) = IF 1 <= n THEN n - 1 + 1 ELSE 0
      /\ \A i \in 1 .. n - 1 + 1 : G[i] = F[1 + i - 1]
  <2>1. 1 \in Int /\ n \in Int /\ \A i \in 1 .. n : F[i] \in Pairs
    BY <1>1, <1>2
  <2> QED
    BY <2>1, SubSeqProperties
<1>4. Len(G) = n /\ \A i \in 1 .. n : G[i] = F[i]
  BY <1>2, <1>3
<1>5. DOMAIN G = 1 .. n
  BY <1>3, <1>4, LenProperties
<1>6. \A i \in 1 .. n : i \in DOMAIN F
  BY <1>1, <1>2
<1>7. Ascending(G)
  BY <1>4, <1>5, <1>6 DEF Ascending
<1>8. Follows(G, m.next)
  <2> SUFFICES ASSUME NEW i \in 1 .. n, G[i][1] >= m.next
               PROVE  G[i][1] = m.next \/ (i > 1 /\ G[i - 1][1] = G[i][1] - 1)
    BY <1>5 DEF Follows
  <2>1. F[i][1] = m.next \/ (i > 1 /\ F[i - 1][1] = F[i][1] - 1)
    BY <1>4, <1>6 DEF Follows
  <2>2. i > 1 => i - 1 \in 1 .. n
    BY <1>2
  <2> QED
    BY <1>4, <2>1, <2>2
<1>9. Durable(m, G, n)
  <2>1. \A i \in 1 .. k : i \in 1 .. n
    BY <1>2
  <2> QED
    BY <1>4, <2>1 DEF Durable
<1>10. Asked(m, G, as)
  BY <1>4, <1>5, <1>6 DEF Asked
<1> QED
  BY <1>3, <1>4, <1>7, <1>8, <1>9, <1>10

\* The same file under metadata that settles more of it and knows more of it.
Settles(m, m2, F, k, acks) ==
    /\ \A i \in DOMAIN F : Settled(m2, F[i][1]) => Settled(m, F[i][1]) \/ F[i] \in acks
    /\ \A s \in 1 .. m2.next - 1 : Settled(m, s) \/ \E i \in 1 .. k : F[i][1] = s

LEMMA FramesSettled ==
    ASSUME NEW m \in Metas, NEW m2 \in Metas, Extends(m2, m),
           NEW F \in Seq(Pairs), NEW k \in 0 .. Len(F), NEW as, NEW acks, acks \subseteq as,
           Ascending(F), Follows(F, m.next), Asked(m, F, as), Settles(m, m2, F, k, acks)
    PROVE  /\ Follows(F, m2.next) /\ Durable(m2, F, k) /\ Asked(m2, F, as)
           /\ End(F, m2.next) = End(F, m.next)
<1> USE DEF Settles
<1>1. /\ Len(F) \in Nat /\ DOMAIN F = 1 .. Len(F)
      /\ \A i \in 1 .. Len(F) : F[i][1] \in Nat
  BY FrameTypes
<1>2. /\ m.next \in Nat \ {0} /\ m2.next \in Nat \ {0} /\ m.next <= m2.next
      /\ m2.next - 1 \in 0 .. MaxSeq
  BY MetaTypes, SpoolAssumption DEF Extends
<1>3. Follows(F, m2.next)
  <2> SUFFICES ASSUME NEW i \in DOMAIN F, F[i][1] >= m2.next
               PROVE  F[i][1] = m2.next \/ (i > 1 /\ F[i - 1][1] = F[i][1] - 1)
    BY DEF Follows
  <2>1. F[i][1] \in Nat
    BY <1>1
  <2>2. F[i][1] = m.next \/ (i > 1 /\ F[i - 1][1] = F[i][1] - 1)
    BY <1>2, <2>1 DEF Follows
  <2> QED
    BY <1>2, <2>1, <2>2
<1>4. Durable(m2, F, k)
  <2> SUFFICES ASSUME NEW s \in 1 .. m2.next - 1
               PROVE  Settled(m2, s) \/ \E i \in 1 .. k : F[i][1] = s
    BY DEF Durable
  <2>1. s \in 1 .. MaxSeq
    BY <1>2, SpoolAssumption
  <2>2. Settled(m, s) => Settled(m2, s)
    BY <2>1 DEF Extends
  <2> QED
    BY <2>2
<1>5. Asked(m2, F, as)
  BY DEF Asked
<1>6. /\ End(F, m.next) \in Nat /\ m.next <= End(F, m.next)
      /\ \A i \in DOMAIN F : F[i][1] < End(F, m.next)
  BY <1>2, EndFacts
<1>7. m2.next <= End(F, m.next)
  <2>1. CASE m2.next = 1
    BY <1>2, <1>6, <2>1
  <2>2. CASE m2.next # 1
    <3>1. m2.next - 1 \in 1 .. m2.next - 1 /\ m2.next - 1 \in Nat
      BY <1>2, <2>2
    <3>2. CASE Settled(m, m2.next - 1)
      <4>1. m2.next - 1 < m.next
        BY <3>1, <3>2, MetaTypes
      <4> QED
        BY <1>2, <1>6, <4>1
    <3>3. CASE \E i \in 1 .. k : F[i][1] = m2.next - 1
      <4>1. PICK i \in 1 .. k : F[i][1] = m2.next - 1
        BY <3>3
      <4>2. i \in DOMAIN F
        BY <1>1
      <4> QED
        BY <1>2, <1>6, <4>1, <4>2
    <3> QED
      BY <3>1, <3>2, <3>3
  <2> QED
    BY <2>1, <2>2
<1>8. End(F, m2.next) = End(F, m.next)
  <2>1. CASE Len(F) > 0 /\ F[Len(F)][1] >= m2.next
    <3>1. F[Len(F)][1] \in Nat
      BY <1>1, <2>1
    <3> QED
      BY <1>2, <2>1, <3>1 DEF End
  <2>2. CASE ~(Len(F) > 0 /\ F[Len(F)][1] >= m2.next)
    <3>1. Len(F) > 0 => F[Len(F)][1] \in Nat
      BY <1>1
    <3>2. End(F, m2.next) = m2.next
      BY <2>2 DEF End
    <3>3. End(F, m.next) = IF Len(F) > 0 /\ F[Len(F)][1] >= m.next THEN F[Len(F)][1] + 1 ELSE m.next
      BY DEF End
    <3> QED
      BY <1>2, <1>6, <1>7, <2>2, <3>1, <3>2, <3>3
  <2> QED
    BY <2>1, <2>2
<1> QED
  BY <1>3, <1>4, <1>5, <1>8

\* The replacement a reclaim stages: what is pending of the file, in its order.
Compacts(G, F, m, I) ==
    I = {i \in DOMAIN F : ~Settled(m, F[i][1])} /\ G = Selected(F, I)

LEMMA FramesCompacted ==
    ASSUME NEW m \in Metas, NEW F \in Seq(Pairs), NEW k \in 0 .. Len(F), NEW as,
           Ascending(F), Follows(F, m.next), Durable(m, F, k), Asked(m, F, as),
           NEW I, NEW G, Compacts(G, F, m, I)
    PROVE  /\ G \in Seq(Pairs) /\ Len(G) <= Len(F)
           /\ Ascending(G) /\ Follows(G, m.next) /\ Durable(m, G, Len(G)) /\ Asked(m, G, as)
           /\ \A i \in DOMAIN F : ~Settled(m, F[i][1]) => \E j \in DOMAIN G : G[j] = F[i]
           /\ \A j \in DOMAIN G : \E i \in DOMAIN F : G[j] = F[i]
<1> USE DEF Compacts
<1> DEFINE c == Cardinality(I)
<1>1. /\ Len(F) \in Nat /\ DOMAIN F = 1 .. Len(F)
      /\ \A i \in 1 .. Len(F) : F[i][1] \in Nat
  BY FrameTypes
<1>2. I \in SUBSET (DOMAIN F)
  OBVIOUS
<1>3. /\ c \in 0 .. Len(F) /\ G \in Seq(Pairs) /\ Len(G) = c
      /\ \E g \in [1 .. c -> I] :
            /\ \A a \in 1 .. c : G[a] = F[g[a]]
            /\ \A a, b \in 1 .. c : a < b => g[a] < g[b]
            /\ \A i \in I : \E a \in 1 .. c : g[a] = i
  <2>1. IsSelection(G, Pairs, F, I)
    BY <1>2, SelectedFrames
  <2> QED
    BY <2>1 DEF IsSelection
<1> HIDE DEF c
<1>4. PICK g \in [1 .. c -> I] :
            /\ \A a \in 1 .. c : G[a] = F[g[a]]
            /\ \A a, b \in 1 .. c : a < b => g[a] < g[b]
            /\ \A i \in I : \E a \in 1 .. c : g[a] = i
  BY <1>3
<1>5. DOMAIN G = 1 .. c /\ c \in Nat
  BY <1>1, <1>3, LenProperties
<1>6. \A a \in 1 .. c : g[a] \in I /\ g[a] \in DOMAIN F /\ g[a] \in Nat /\ ~Settled(m, F[g[a]][1])
  BY <1>1, <1>4
<1>7. Ascending(G)
  <2> SUFFICES ASSUME NEW a \in 1 .. c, NEW b \in 1 .. c, a < b
               PROVE  G[a][1] < G[b][1]
    BY <1>5 DEF Ascending
  <2>1. g[a] < g[b] /\ g[a] \in DOMAIN F /\ g[b] \in DOMAIN F
    BY <1>4, <1>6
  <2>2. F[g[a]][1] < F[g[b]][1]
    BY <2>1 DEF Ascending
  <2> QED
    BY <1>4, <2>2
<1>8. \A i \in DOMAIN F : ~Settled(m, F[i][1]) => \E j \in 1 .. c : g[j] = i /\ G[j] = F[i]
  <2> SUFFICES ASSUME NEW i \in DOMAIN F, ~Settled(m, F[i][1])
               PROVE  \E j \in 1 .. c : g[j] = i /\ G[j] = F[i]
    OBVIOUS
  <2>1. i \in I
    OBVIOUS
  <2>2. PICK j \in 1 .. c : g[j] = i
    BY <1>4, <2>1
  <2> QED
    BY <1>4, <2>2
<1>9. Follows(G, m.next)
  <2> SUFFICES ASSUME NEW a \in 1 .. c, G[a][1] >= m.next
               PROVE  G[a][1] = m.next \/ (a > 1 /\ G[a - 1][1] = G[a][1] - 1)
    BY <1>5 DEF Follows
  <2> DEFINE i == g[a]
  <2>1. i \in DOMAIN F /\ i \in Nat /\ G[a] = F[i]
    BY <1>4, <1>6
  <2> HIDE DEF i
  <2>2. F[i][1] = m.next \/ (i > 1 /\ F[i - 1][1] = F[i][1] - 1)
    BY <2>1 DEF Follows
  <2> SUFFICES ASSUME F[i][1] # m.next
               PROVE  a > 1 /\ G[a - 1][1] = G[a][1] - 1
    BY <2>1
  <2>3. i > 1 /\ F[i - 1][1] = F[i][1] - 1 /\ i - 1 \in DOMAIN F /\ F[i][1] \in Nat
    BY <1>1, <2>1, <2>2
  <2>4. m.next \in Nat
    BY MetaTypes
  <2>5. F[i - 1][1] \in Nat /\ F[i - 1][1] >= m.next
    BY <2>1, <2>3, <2>4
  <2>6. ~Settled(m, F[i - 1][1])
    <3>1. Settled(m, F[i - 1][1]) => F[i - 1][1] < m.next
      BY <2>5, MetaTypes
    <3> QED
      BY <2>4, <2>5, <3>1
  <2>7. PICK b \in 1 .. c : g[b] = i - 1 /\ G[b] = F[i - 1]
    BY <1>8, <2>3, <2>6
  <2>8. g[a] = i
    BY DEF i
  <2>9. b < a
    <3>1. a \in Nat /\ b \in Nat
      BY <1>5
    <3>2. a < b => i < i - 1
      BY <1>4, <2>7, <2>8
    <3>3. a = b => i = i - 1
      BY <2>7, <2>8
    <3> QED
      BY <2>1, <3>1, <3>2, <3>3
  <2>10. b = a - 1
    <3> SUFFICES ASSUME b # a - 1
                 PROVE  FALSE
      OBVIOUS
    <3>1. b + 1 \in 1 .. c /\ b < b + 1 /\ b + 1 < a
      BY <1>5, <2>9
    <3>2. g[b] < g[b + 1] /\ g[b + 1] < g[a] /\ g[b + 1] \in Nat
      BY <1>4, <1>6, <3>1
    <3> QED
      BY <2>1, <2>7, <2>8, <3>2
  <2>11. a > 1
    BY <1>5, <2>9
  <2> QED
    BY <2>1, <2>3, <2>7, <2>10, <2>11
<1>10. Durable(m, G, Len(G))
  <2> SUFFICES ASSUME NEW s \in 1 .. m.next - 1, ~Settled(m, s)
               PROVE  \E j \in 1 .. Len(G) : G[j][1] = s
    BY DEF Durable
  <2>1. PICK i \in 1 .. k : F[i][1] = s
    BY DEF Durable
  <2>2. i \in DOMAIN F
    BY <1>1
  <2>3. PICK j \in 1 .. c : G[j] = F[i]
    BY <1>8, <2>1, <2>2
  <2> QED
    BY <1>3, <2>1, <2>3
<1>11. Asked(m, G, as)
  BY <1>4, <1>5, <1>6 DEF Asked
<1>12. Len(G) <= Len(F)
  BY <1>1, <1>3
<1>13. \A i \in DOMAIN F : ~Settled(m, F[i][1]) => \E j \in DOMAIN G : G[j] = F[i]
  BY <1>5, <1>8
<1>14. \A j \in DOMAIN G : \E i \in DOMAIN F : G[j] = F[i]
  BY <1>4, <1>5, <1>6
<1> QED
  BY <1>3, <1>7, <1>9, <1>10, <1>11, <1>12, <1>13, <1>14

-----------------------------------------------------------------------------
(* Directories, extents and handles a step leaves alone.                    *)

LEMMA DirectoryFacts ==
    ASSUME NEW D \in Seq(Entries), D # <<>>
    PROVE  ToSet(D) \subseteq Entries /\ Last(D) \in ToSet(D) /\ Last(D) \in Entries
<1>1. /\ Len(D) \in Nat \ {0} /\ DOMAIN D = 1 .. Len(D)
      /\ \A i \in 1 .. Len(D) : D[i] \in Entries
  BY EmptySeq, LenProperties
<1>2. ToSet(D) \subseteq Entries
  BY <1>1 DEF ToSet
<1>3. Len(D) \in DOMAIN D /\ Last(D) = D[Len(D)]
  BY <1>1 DEF Last
<1> QED
  BY <1>2, <1>3 DEF ToSet

LEMMA DirectoryAppended ==
    ASSUME NEW D \in Seq(Entries), D # <<>>, NEW e \in Entries, NEW D2, D2 = Append(D, e)
    PROVE  /\ D2 \in Seq(Entries) /\ D2 # <<>>
           /\ ToSet(D2) = ToSet(D) \cup {e} /\ Last(D2) = e
<1>1. Len(D) \in Nat /\ DOMAIN D = 1 .. Len(D)
  BY LenProperties
<1>2. /\ D2 \in Seq(Entries) /\ D2 # <<>> /\ Len(D2) = Len(D) + 1
      /\ \A i \in 1 .. Len(D) : D2[i] = D[i]
      /\ D2[Len(D) + 1] = e
  BY AppendProperties
<1>3. DOMAIN D2 = 1 .. Len(D) + 1
  BY <1>2, LenProperties
<1>4. \A i \in 1 .. Len(D) + 1 : i \in 1 .. Len(D) \/ i = Len(D) + 1
  BY <1>1
<1>5. Len(D) + 1 \in 1 .. Len(D) + 1 /\ \A i \in 1 .. Len(D) : i \in 1 .. Len(D) + 1
  BY <1>1
<1>6. ToSet(D2) = ToSet(D) \cup {e}
  <2>1. \A y \in ToSet(D2) : y \in ToSet(D) \cup {e}
    BY <1>1, <1>2, <1>3, <1>4 DEF ToSet
  <2>2. \A y \in ToSet(D) : y \in ToSet(D2)
    BY <1>1, <1>2, <1>3, <1>5 DEF ToSet
  <2>3. e \in ToSet(D2)
    BY <1>2, <1>3, <1>5 DEF ToSet
  <2> QED
    BY <2>1, <2>2, <2>3
<1> QED
  BY <1>2, <1>6 DEF Last

LEMMA DirectoryOfOne ==
    ASSUME NEW e \in Entries, NEW D, D = <<e>>
    PROVE  D \in Seq(Entries) /\ D # <<>> /\ ToSet(D) = {e} /\ Last(D) = e
<1>1. D \in Seq(Entries) /\ Len(D) = 1 /\ D[1] = e /\ DOMAIN D = 1 .. 1
  OBVIOUS
<1>2. D # <<>>
  BY <1>1
<1>3. ToSet(D) = {e}
  <2>1. \A i \in 1 .. 1 : i = 1
    OBVIOUS
  <2> QED
    BY <1>1, <2>1 DEF ToSet
<1> QED
  BY <1>1, <1>2, <1>3 DEF Last

\* The names the model gives to what the newest entry holds.
LEMMA Basics ==
    ASSUME SpoolTypeOK
    PROVE  /\ FilesOK(file) /\ Named \subseteq Entries /\ Newest \in Named /\ Newest \in Entries
           /\ Records = Newest.records /\ Meta = Newest.meta
           /\ Frames = FramesIn(Newest, file)
           /\ handle \in [Procs -> Handles]
<1>1. Named \subseteq Entries /\ Newest \in Named /\ Newest \in Entries
  BY DirectoryFacts DEF SpoolTypeOK, Named, Newest
<1> QED
  BY <1>1 DEF SpoolTypeOK, FilesOK, Records, Meta, Frames, FramesIn, Newest

\* An extent published earlier still holds of fewer entries and more synced files.
LEMMA ExtentKept ==
    ASSUME NEW x, x.synced \in Nat, NEW fl, NEW fl2, FilesOK(fl), FilesOK(fl2),
           NEW E \in SUBSET Entries, NEW E2 \in SUBSET E, NEW l,
           \A e \in E2 : Kept(e, fl, fl2),
           ExtentOK(x, E, l, fl)
    PROVE  ExtentOK(x, E2, l, fl2)
<1>1. ASSUME NEW e \in E2, e.records = x.id, x.id # NoFile
      PROVE  x.synced <= fl2[x.id].synced
  <2>1. x.synced <= fl[x.id].synced
    BY <1>1 DEF ExtentOK
  <2>2. SyncedIn(e, fl) = fl[x.id].synced /\ SyncedIn(e, fl2) = fl2[x.id].synced
    BY <1>1 DEF SyncedIn
  <2>3. x.id \in Ids
    BY <1>1 DEF Entries
  <2>4. fl[x.id].synced \in Nat /\ fl2[x.id].synced \in Nat
    BY <2>3, SpoolAssumption DEF FilesOK, Files
  <2> QED
    BY <1>1, <2>1, <2>2, <2>4 DEF Kept
<1> QED
  BY <1>1 DEF ExtentOK

LEMMA ExtentForgotten ==
    ASSUME NEW fl, NEW E, NEW l
    PROVE  ExtentOK(NoExtent, E, l, fl)
BY DEF ExtentOK, NoExtent

\* A handle that did not move while others synced files, dropped old entries or
\* changed what does not concern it.
LEMMA HandleKept ==
    ASSUME NEW h \in Handles, NEW p, NEW fl, NEW fl2, FilesOK(fl), FilesOK(fl2),
           NEW E \in SUBSET Entries, NEW E2 \in SUBSET E, NEW l \in E2,
           NEW x, NEW x2, NEW ls, NEW ls2, NEW lk, NEW lk2, NEW as, NEW as2, as \subseteq as2,
           \A e \in E2 : Kept(e, fl, fl2),
           h.step \in {"data", "extent"} =>
              /\ x2 = x /\ lk2 = lk
              /\ fl2[h.id].frames = fl[h.id].frames /\ fl[h.id].synced <= fl2[h.id].synced,
           h.step = "swap" => fl2[h.copy] = fl[h.copy] /\ x2.id # h.copy,
           h.step = "open" => ls2 = ls,
           HandleOK(h, p, fl, E, l, x, ls, lk, as)
    PROVE  HandleOK(h, p, fl2, E2, l, x2, ls2, lk2, as2)
<1>1. WantsOK(h, fl2, E2, l, x2, as2)
  <2> SUFFICES ASSUME NEW f \in h.wants, NEW e \in E2, Concerns(h, e, l, x2)
               PROVE  Held(h, f, e, fl2, as2)
    BY DEF WantsOK
  <2>1. Concerns(h, e, l, x)
    BY DEF Concerns
  <2>2. Held(h, f, e, fl, as)
    BY <2>1 DEF HandleOK, WantsOK
  <2>3. e \in Entries /\ Kept(e, fl, fl2)
    OBVIOUS
  <2> QED
    BY <2>2, <2>3, EntryKept
<1>2. ClaimOK(h, fl2)
  <2>1. CASE h.step = "extent"
    <3>1. h.claim <= fl[h.id].synced /\ fl[h.id].synced <= fl2[h.id].synced
      BY <2>1 DEF HandleOK, ClaimOK
    <3>2. h.id \in Ids
      BY <2>1 DEF HandleOK, ControlOK
    <3>3. fl[h.id].synced \in 0 .. MaxSeq /\ fl2[h.id].synced \in 0 .. MaxSeq
      BY <3>2 DEF FilesOK, Files
    <3>4. h.claim \in 0 .. MaxSeq
      BY DEF Handles
    <3> QED
      BY <2>1, <3>1, <3>3, <3>4 DEF ClaimOK
  <2> QED
    BY <2>1 DEF HandleOK, ClaimOK
<1>3. l \in Entries /\ Kept(l, fl, fl2) /\ FramesIn(l, fl2) = FramesIn(l, fl)
  BY DEF Kept
<1>4. AckOK(h, fl2, l, as2)
  <2> SUFFICES ASSUME h.then = "meta"
               PROVE  AckBase(h, l, as2) /\ (h.base = l.meta => AckStands(h, fl2, l))
    BY DEF AckOK
  <2>1. AckBase(h, l, as) /\ (h.base = l.meta => AckStands(h, fl, l))
    BY DEF HandleOK, AckOK
  <2>2. AckBase(h, l, as2)
    BY <2>1 DEF AckBase
  <2>3. ASSUME AckStands(h, fl, l)
        PROVE  AckStands(h, fl2, l)
    <3>1. \A i \in DOMAIN FramesIn(l, fl) : i \in Nat
      <4>1. FramesIn(l, fl) \in Seq(Pairs)
        BY <1>3, EntryTypes
      <4> QED
        BY <4>1, FrameTypes
    <3>2. \A i \in DOMAIN FramesIn(l, fl) : Reached(h, l, fl, i) => Reached(h, l, fl2, i)
      <4>1. {} \subseteq {}
        OBVIOUS
      <4> QED
        BY <1>3, <3>1, <4>1, EntryKept
    <3> QED
      BY <1>3, <2>3, <3>2 DEF AckStands
  <2> QED
    BY <2>1, <2>2, <2>3
<1>5. BarrierOK(h, E2, l)
  BY DEF HandleOK, BarrierOK
<1>6. CopyOK(h, fl2, E2, x2)
  BY DEF HandleOK, CopyOK
<1>7. ControlOK(h, p, l, ls2, lk2)
  BY DEF HandleOK, ControlOK
<1> QED
  BY <1>1, <1>2, <1>4, <1>5, <1>6, <1>7 DEF HandleOK

\* Handles that hold nothing.
LEMMA ClosedHandle ==
    ASSUME NEW p, NEW fl, NEW E, NEW l, NEW x, NEW ls, NEW lk, NEW as
    PROVE  /\ Closed \in Handles
           /\ HandleOK(Closed, p, fl, E, l, x, ls, lk, as)
           /\ Reopened \in Handles
           /\ ls = p => HandleOK(Reopened, p, fl, E, l, x, ls, lk, as)
           /\ Len(Closed.kept) = 0 /\ Len(Reopened.kept) = 0
<1>1. FreshMeta \in Metas
  BY SpoolAssumption DEF FreshMeta, Metas
<1>2. <<>> \in Seq(Pairs) /\ Len(<<>>) = 0 /\ 0 \in 0 .. MaxSeq
  BY SpoolAssumption, EmptySeq
<1>3. Closed \in Handles /\ Reopened \in Handles
  BY <1>1, <1>2 DEF Closed, Reopened, Handles, Steps
<1>4. /\ Closed.step = "idle" /\ Closed.wants = {} /\ Closed.then = "idle" /\ Closed.copy = NoFile
      /\ Reopened.step = "open" /\ Reopened.wants = {} /\ Reopened.then = "idle"
      /\ Reopened.copy = NoFile /\ Closed.kept = <<>> /\ Reopened.kept = <<>>
      /\ Reopened.id = NoFile
  BY DEF Closed, Reopened
<1>5. HandleOK(Closed, p, fl, E, l, x, ls, lk, as)
  BY <1>4 DEF HandleOK, WantsOK, ClaimOK, AckOK, BarrierOK, CopyOK, ControlOK
<1>6. ls = p => HandleOK(Reopened, p, fl, E, l, x, ls, lk, as)
  BY <1>4 DEF HandleOK, WantsOK, ClaimOK, AckOK, BarrierOK, CopyOK, ControlOK
<1> QED
  BY <1>2, <1>3, <1>4, <1>5, <1>6

-----------------------------------------------------------------------------
(* Steps that keep the newest entry and its frames.                         *)

\* A step of another handle that takes nothing from q.
Undisturbed(q) ==
    /\ handle'[q] = handle[q]
    /\ handle[q].step \in {"data", "extent"} =>
          /\ extent' = extent /\ lock' = lock
          /\ file'[handle[q].id].frames = file[handle[q].id].frames
          /\ file[handle[q].id].synced <= file'[handle[q].id].synced
    /\ handle[q].step = "swap" =>
          file'[handle[q].copy] = file[handle[q].copy] /\ extent'.id # handle[q].copy
    /\ handle[q].step = "open" => lease' = lease

\* The files the entries name keep their frames; entries may only be dropped.
QuietDisk ==
    /\ Named' \subseteq Named /\ Newest' = Newest
    /\ \A e \in Named' : Kept(e, file, file')
    /\ asked \subseteq asked'

LEMMA QuietEntries ==
    ASSUME SpoolInv, SpoolTypeOK', QuietDisk
    PROVE  /\ EntriesOK'
           /\ \A f \in committed : \A e \in Named' : Safe(f, e, file', asked')
           /\ \A f \in settled : \A e \in Named' : Settled(e.meta, f[1])
<1>1. FilesOK(file) /\ Named \subseteq Entries
  BY Basics DEF SpoolInv
<1>2. FilesOK(file')
  BY DEF SpoolTypeOK, FilesOK
<1>3. Newest' \in Named'
  BY DirectoryFacts DEF SpoolTypeOK, Named, Newest
<1>4. ASSUME NEW e \in Named'
      PROVE  EntryOK(e, file', asked') /\ SameEnd(e, Newest', file')
  <2>1. e \in Named /\ e \in Entries /\ Kept(e, file, file')
    BY <1>1 DEF QuietDisk
  <2>2. EntryOK(e, file, asked) /\ SameEnd(e, Newest, file)
    BY <2>1 DEF SpoolInv, EntriesOK
  <2>3. EntryOK(e, file', asked')
    BY <1>1, <1>2, <2>1, <2>2, EntryKept DEF QuietDisk
  <2>4. FramesIn(Newest', file') = FramesIn(Newest, file)
    BY <1>3 DEF QuietDisk, Kept
  <2> QED
    BY <2>2, <2>3, <2>4 DEF QuietDisk, SameEnd
<1>5. ASSUME NEW f \in committed, NEW e \in Named'
      PROVE  Safe(f, e, file', asked')
  <2>1. e \in Named /\ e \in Entries /\ Kept(e, file, file')
    BY <1>1 DEF QuietDisk
  <2>2. Safe(f, e, file, asked)
    BY <2>1 DEF SpoolInv, CommittedOK
  <2> QED
    BY <1>1, <1>2, <2>1, <2>2, EntryKept DEF QuietDisk
<1>6. \A f \in settled : \A e \in Named' : Settled(e.meta, f[1])
  BY DEF QuietDisk, SpoolInv, SettledOK
<1> QED
  BY <1>4, <1>5, <1>6 DEF EntriesOK

LEMMA QuietHandle ==
    ASSUME SpoolInv, SpoolTypeOK', QuietDisk, NEW q \in Procs, Undisturbed(q)
    PROVE  HandleOK(handle'[q], q, file', Named', Newest', extent', lease', lock', asked')
<1> DEFINE h == handle[q]
<1>1. FilesOK(file) /\ Named \in SUBSET Entries /\ h \in Handles
  BY Basics DEF SpoolInv
<1>2. FilesOK(file')
  BY DEF SpoolTypeOK, FilesOK
<1>3. Newest' \in Named'
  BY DirectoryFacts DEF SpoolTypeOK, Named, Newest
<1>4. HandleOK(h, q, file, Named, Newest, extent, lease, lock, asked)
  BY DEF SpoolInv, HandlesOK
<1>5. /\ Named' \in SUBSET Named /\ Newest' = Newest /\ asked \subseteq asked'
      /\ \A e \in Named' : Kept(e, file, file')
  BY DEF QuietDisk
<1>6. /\ handle'[q] = h
      /\ h.step \in {"data", "extent"} =>
          /\ extent' = extent /\ lock' = lock
          /\ file'[h.id].frames = file[h.id].frames
          /\ file[h.id].synced <= file'[h.id].synced
      /\ h.step = "swap" => file'[h.copy] = file[h.copy] /\ extent'.id # h.copy
      /\ h.step = "open" => lease' = lease
  BY DEF Undisturbed
<1> HIDE DEF h
<1>7. HandleOK(h, q, file', Named', Newest, extent', lease', lock', asked')
  BY <1>1, <1>2, <1>3, <1>4, <1>5, <1>6, HandleKept
<1> QED
  BY <1>5, <1>6, <1>7

\* What such a step of p has to show.
LEMMA QuietStep ==
    ASSUME SpoolInv, SpoolTypeOK', QuietDisk, NEW p \in Procs,
           \A q \in Procs \ {p} : Undisturbed(q),
           ExtentOK(extent', Named', Newest', file'),
           HandleOK(handle'[p], p, file', Named', Newest', extent', lease', lock', asked'),
           \A q \in Procs \ {p} : Apart(handle'[p], handle[q]) /\ Apart(handle[q], handle'[p]),
           \A f \in committed' \ committed : \A e \in Named' : Safe(f, e, file', asked'),
           \A f \in settled' \ settled : \A e \in Named' : Settled(e.meta, f[1])
    PROVE  SpoolInv'
<1>1. /\ EntriesOK'
      /\ \A f \in committed : \A e \in Named' : Safe(f, e, file', asked')
      /\ \A f \in settled : \A e \in Named' : Settled(e.meta, f[1])
  BY QuietEntries
<1>2. CommittedOK' /\ SettledOK'
  BY <1>1 DEF CommittedOK, SettledOK
<1>3. HandlesOK'
  <2> SUFFICES ASSUME NEW q \in Procs
               PROVE  HandleOK(handle'[q], q, file', Named', Newest', extent', lease', lock', asked')
    BY DEF HandlesOK
  <2>1. CASE q = p
    BY <2>1
  <2>2. CASE q # p
    BY <2>2, QuietHandle
  <2> QED
    BY <2>1, <2>2
<1>4. CopiesApart'
  <2> SUFFICES ASSUME NEW q \in Procs, NEW r \in Procs, q # r
               PROVE  Apart(handle'[q], handle'[r])
    BY DEF CopiesApart
  <2>1. \A s \in Procs \ {p} : handle'[s] = handle[s]
    BY DEF Undisturbed
  <2>2. CASE q # p /\ r # p
    BY <2>1, <2>2 DEF SpoolInv, CopiesApart
  <2>3. CASE q = p \/ r = p
    BY <2>1, <2>3
  <2> QED
    BY <2>2, <2>3
<1> QED
  BY <1>1, <1>2, <1>3, <1>4 DEF SpoolInv

\* A handle that stages nothing and syncs nothing is apart from every other.
LEMMA ApartFromIdle ==
    ASSUME SpoolInv, NEW p \in Procs, NEW h \in Handles, h.step # "swap", h.copy = NoFile,
           h.step \in {"data", "extent"} => h.id = NoFile \/ \A q \in Procs \ {p} :
                                              handle[q].step = "swap" => handle[q].copy # h.id
    PROVE  \A q \in Procs \ {p} : Apart(h, handle[q]) /\ Apart(handle[q], h)
<1> TAKE q \in Procs \ {p}
<1>1. handle[q].step = "swap" => handle[q].copy \in Ids
  BY DEF SpoolInv, HandlesOK, HandleOK, CopyOK
<1>2. handle[q].step = "swap" => handle[q].copy # NoFile
  BY <1>1, SpoolAssumption
<1> QED
  BY <1>2 DEF Apart

LEMMA HandleMoved ==
    ASSUME SpoolTypeOK, NEW p \in Procs, NEW h \in Handles, handle' = [handle EXCEPT ![p] = h],
           Len(h.kept) <= MaxSeq
    PROVE  /\ handle' \in [Procs -> Handles] /\ handle'[p] = h
           /\ \A q \in Procs \ {p} : handle'[q] = handle[q]
           /\ \A q \in Procs : Len(handle'[q].kept) <= MaxSeq
<1>1. handle \in [Procs -> Handles] /\ \A q \in Procs : Len(handle[q].kept) <= MaxSeq
  BY DEF SpoolTypeOK
<1>2. handle' \in [Procs -> Handles] /\ handle'[p] = h /\ \A q \in Procs \ {p} : handle'[q] = handle[q]
  BY <1>1
<1> QED
  BY <1>1, <1>2

-----------------------------------------------------------------------------
(* Opening.                                                                *)

\* Loading repairs a torn tail and changes no frame.
LEMMA Repairs ==
    ASSUME SpoolInv, Torn => lock = Nobody
    PROVE  /\ FilesOK(Repaired)
           /\ \A i \in Ids : Repaired[i].frames = file[i].frames /\ file[i].synced <= Repaired[i].synced
           /\ \A i \in Ids : i # Records => Repaired[i] = file[i]
           /\ \A e \in Named : Kept(e, file, Repaired)
           /\ RepairedExtent \in {extent, NoExtent}
           /\ RepairedExtent \in [id : Ids \cup {NoFile}, synced : 0 .. MaxSeq]
           /\ RepairedExtent # extent => lock = Nobody
           /\ ExtentOK(RepairedExtent, Named, Newest, Repaired)
<1>1. /\ FilesOK(file) /\ Named \in SUBSET Entries /\ Newest \in Named /\ Newest \in Entries
      /\ Records = Newest.records /\ Frames = FramesIn(Newest, file)
  BY Basics DEF SpoolInv
<1>2. file \in [Ids -> Files] /\ MaxSeq \in Nat
  BY SpoolAssumption DEF SpoolInv, SpoolTypeOK
<1>3. /\ FilesOK(Repaired)
      /\ \A i \in Ids : Repaired[i].frames = file[i].frames /\ file[i].synced <= Repaired[i].synced
      /\ \A i \in Ids : i # Records => Repaired[i] = file[i]
  <2>1. CASE Torn
    <3>1. Records \in Ids /\ Frames = file[Records].frames
      BY <1>1, <2>1 DEF Torn, Entries, Frames
    <3>2. /\ file[Records].frames \in Seq(Pairs) /\ file[Records].synced \in 0 .. MaxSeq
          /\ file[Records].synced <= Len(Frames) /\ Len(Frames) <= MaxSeq
      BY <1>1, <1>2, <3>1 DEF FilesOK, Files
    <3>3. Len(Frames) \in 0 .. MaxSeq
      BY <1>2, <3>1, <3>2, LenProperties
    <3> DEFINE r == [file[Records] EXCEPT !.torn = FALSE, !.synced = Len(Frames)]
    <3>4. file[Records] \in Files
      BY <1>2, <3>1
    <3>5. r \in Files /\ r.frames = file[Records].frames /\ r.synced = Len(Frames)
      BY <3>3, <3>4 DEF Files
    <3>6. Repaired = [file EXCEPT ![Records] = r]
      BY <2>1 DEF Repaired
    <3> HIDE DEF r
    <3>7. Repaired \in [Ids -> Files] /\ Repaired[Records] = r
          /\ \A i \in Ids : i # Records => Repaired[i] = file[i]
      BY <1>2, <3>1, <3>5, <3>6
    <3>8. \A i \in Ids : file[i].synced <= file[i].synced
      BY <1>2 DEF Files
    <3>9. \A i \in Ids : Repaired[i].frames = file[i].frames /\ file[i].synced <= Repaired[i].synced
      BY <3>1, <3>2, <3>5, <3>7, <3>8
    <3>10. \A i \in Ids : Repaired[i].synced <= Len(Repaired[i].frames) /\ Len(Repaired[i].frames) <= MaxSeq
      <4> TAKE i \in Ids
      <4>1. CASE i = Records
        BY <3>1, <3>2, <3>3, <3>5, <3>7, <4>1
      <4>2. CASE i # Records
        BY <1>1, <3>7, <4>2 DEF FilesOK
      <4> QED
        BY <4>1, <4>2
    <3> QED
      BY <3>7, <3>9, <3>10 DEF FilesOK
  <2>2. CASE ~Torn
    <3>1. Repaired = file
      BY <2>2 DEF Repaired
    <3>2. \A i \in Ids : file[i].synced <= file[i].synced
      BY <1>2 DEF Files
    <3> QED
      BY <1>1, <3>1, <3>2
  <2> QED
    BY <2>1, <2>2
<1>4. \A e \in Named : Kept(e, file, Repaired)
  <2> TAKE e \in Named
  <2>1. e.records \in Ids \cup {NoFile}
    BY <1>1 DEF Entries
  <2>2. CASE e.records = NoFile
    BY <2>2 DEF Kept, FramesIn, SyncedIn
  <2>3. CASE e.records \in Ids /\ e.records # NoFile
    BY <1>3, <2>3 DEF Kept, FramesIn, SyncedIn
  <2> QED
    BY <2>1, <2>2, <2>3
<1>5. extent \in [id : Ids \cup {NoFile}, synced : 0 .. MaxSeq] /\ extent.synced \in Nat
  BY <1>2 DEF SpoolInv, SpoolTypeOK
<1>6. /\ RepairedExtent \in {extent, NoExtent}
      /\ RepairedExtent # extent => lock = Nobody
  BY DEF RepairedExtent
<1>7. NoExtent \in [id : Ids \cup {NoFile}, synced : 0 .. MaxSeq]
  BY <1>2 DEF NoExtent
<1>8. ExtentOK(extent, Named, Newest, file)
  BY DEF SpoolInv
<1>9. ExtentOK(RepairedExtent, Named, Newest, Repaired)
  <2>1. CASE RepairedExtent = extent
    <3>1. ExtentOK(extent, Named, Newest, Repaired)
      BY <1>1, <1>3, <1>4, <1>5, <1>8, ExtentKept
    <3> QED
      BY <2>1, <3>1
  <2>2. CASE RepairedExtent = NoExtent
    BY <2>2, ExtentForgotten
  <2> QED
    BY <1>6, <2>1, <2>2
<1> QED
  BY <1>3, <1>4, <1>5, <1>6, <1>7, <1>9

LEMMA RepairDisturbsNobody ==
    ASSUME SpoolInv, lease = Nobody, Torn => lock = Nobody,
           file' = Repaired, extent' = RepairedExtent, lock' = lock,
           NEW q \in Procs, handle'[q] = handle[q]
    PROVE  Undisturbed(q)
<1> DEFINE h == handle[q]
<1>1. lease = Nobody /\ (Torn => lock = Nobody) /\ Nobody \notin Procs
  BY SpoolAssumption
<1>2. /\ \A i \in Ids : Repaired[i].frames = file[i].frames /\ file[i].synced <= Repaired[i].synced
      /\ \A i \in Ids : i # Records => Repaired[i] = file[i]
      /\ RepairedExtent \in {extent, NoExtent}
      /\ RepairedExtent # extent => lock = Nobody
  BY <1>1, Repairs
<1>3. HandleOK(h, q, file, Named, Newest, extent, lease, lock, asked)
  BY DEF SpoolInv, HandlesOK
<1>4. h.step # "open"
  BY <1>1, <1>3 DEF HandleOK, ControlOK
<1>5. h.step \in {"data", "extent"} => lock = q /\ h.id \in Ids
  BY <1>3 DEF HandleOK, ControlOK
<1>6. h.step = "swap" => h.copy \in Ids /\ extent.id # h.copy /\ Newest.records # h.copy
  BY <1>3, Basics DEF HandleOK, CopyOK, SpoolInv
<1>7. Records = Newest.records
  BY Basics DEF SpoolInv
<1>8. NoExtent.id = NoFile /\ NoFile \notin Ids
  BY SpoolAssumption DEF NoExtent
<1> QED
  BY <1>1, <1>2, <1>4, <1>5, <1>6, <1>7, <1>8 DEF Undisturbed

LEMMA OpenKeeps ==
    ASSUME SpoolInv, NEW p \in Procs, Open(p), OpenSound
    PROVE  SpoolInv'
<1> DEFINE h == [handle[p] EXCEPT !.step = "open"]
<1>1. /\ Load /\ handle[p].step = "idle"
      /\ file' = Repaired /\ extent' = RepairedExtent /\ lease' = p
      /\ handle' = [handle EXCEPT ![p] = h]
      /\ directory' = directory /\ lock' = lock
      /\ committed' = committed /\ asked' = asked /\ settled' = settled
  BY DEF Open, Load, told
<1>2. SpoolTypeOK /\ handle[p] \in Handles /\ Len(handle[p].kept) <= MaxSeq
  BY DEF SpoolInv, SpoolTypeOK
<1>3. /\ FilesOK(Repaired) /\ \A e \in Named : Kept(e, file, Repaired)
      /\ RepairedExtent \in [id : Ids \cup {NoFile}, synced : 0 .. MaxSeq]
      /\ ExtentOK(RepairedExtent, Named, Newest, Repaired)
  BY <1>1, Repairs DEF Load
<1>4. /\ h \in Handles /\ h.step = "open" /\ h.wants = handle[p].wants /\ h.then = handle[p].then
      /\ h.copy = handle[p].copy /\ h.kept = handle[p].kept /\ h.id = handle[p].id
  BY <1>2 DEF Handles, Steps
<1>5. /\ handle[p].wants = {} /\ handle[p].then = "idle" /\ handle[p].copy = NoFile
      /\ handle[p].id = NoFile
  <2>1. handle[p] = Closed
    BY <1>1 DEF SpoolInv, HandlesOK, HandleOK, ControlOK
  <2> QED
    BY <2>1 DEF Closed
<1> HIDE DEF h
<1>6. /\ handle' \in [Procs -> Handles] /\ handle'[p] = h
      /\ \A q \in Procs \ {p} : handle'[q] = handle[q]
      /\ \A q \in Procs : Len(handle'[q].kept) <= MaxSeq
  BY <1>1, <1>2, <1>4, HandleMoved
<1>7. SpoolTypeOK'
  BY <1>1, <1>2, <1>3, <1>6 DEF SpoolTypeOK, FilesOK
<1>8. Named' = Named /\ Newest' = Newest
  BY <1>1 DEF Named, Newest
<1>9. QuietDisk
  BY <1>1, <1>3, <1>8 DEF QuietDisk
<1>10. \A q \in Procs \ {p} : Undisturbed(q)
  BY <1>1, <1>6, RepairDisturbsNobody DEF Load
<1>11. HandleOK(h, p, file', Named', Newest', extent', lease', lock', asked')
  BY <1>1, <1>4, <1>5 DEF HandleOK, WantsOK, ClaimOK, AckOK, BarrierOK, CopyOK, ControlOK
<1>12. \A q \in Procs \ {p} : Apart(h, handle[q]) /\ Apart(handle[q], h)
  BY <1>4, <1>5, ApartFromIdle
<1>13. ExtentOK(extent', Named', Newest', file')
  BY <1>1, <1>3, <1>8
<1> QED
  BY <1>1, <1>6, <1>7, <1>9, <1>10, <1>11, <1>12, <1>13, QuietStep

\* A refused open leaves the repair behind and nothing else.
LEMMA OpenRefusedKeeps ==
    ASSUME SpoolInv, NEW p \in Procs, Open(p), ~OpenSound
    PROVE  SpoolInv'
<1>1. /\ lease = Nobody /\ (Torn => lock = Nobody) /\ handle[p].step = "idle"
      /\ file' = Repaired /\ extent' = RepairedExtent
      /\ directory' = directory /\ lease' = lease /\ lock' = lock /\ handle' = handle
      /\ committed' = committed /\ asked' = asked /\ settled' = settled
  BY DEF Open, told
<1>2. SpoolTypeOK
  BY DEF SpoolInv
<1>3. /\ FilesOK(Repaired) /\ \A e \in Named : Kept(e, file, Repaired)
      /\ RepairedExtent \in [id : Ids \cup {NoFile}, synced : 0 .. MaxSeq]
      /\ ExtentOK(RepairedExtent, Named, Newest, Repaired)
  BY <1>1, Repairs
<1>4. SpoolTypeOK'
  BY <1>1, <1>2, <1>3 DEF SpoolTypeOK, FilesOK
<1>5. Named' = Named /\ Newest' = Newest
  BY <1>1 DEF Named, Newest
<1>6. QuietDisk
  BY <1>1, <1>3, <1>5 DEF QuietDisk
<1>7. \A q \in Procs \ {p} : Undisturbed(q)
  BY <1>1, RepairDisturbsNobody
<1>8. handle[p] = Closed
  BY <1>1 DEF SpoolInv, HandlesOK, HandleOK, ControlOK
<1>9. HandleOK(handle'[p], p, file', Named', Newest', extent', lease', lock', asked')
  BY <1>1, <1>8, ClosedHandle
<1>10. \A q \in Procs \ {p} : Apart(handle'[p], handle[q]) /\ Apart(handle[q], handle'[p])
  BY <1>1 DEF SpoolInv, CopiesApart
<1>11. ExtentOK(extent', Named', Newest', file')
  BY <1>1, <1>3, <1>5
<1> QED
  BY <1>1, <1>4, <1>6, <1>7, <1>9, <1>10, <1>11, QuietStep

-----------------------------------------------------------------------------
(* What concerns only the handle that moves.                                *)

\* Files outside D keep their frames; those of D are nobody else's.  The locks
\* and the extent change only under p.
Withheld(p, D) ==
    /\ \A i \in Ids \ D : file'[i].frames = file[i].frames /\ file[i].synced <= file'[i].synced
    /\ \A e \in Named : e.records \notin D
    /\ \A q \in Procs \ {p} :
          /\ handle'[q] = handle[q]
          /\ handle[q].step \in {"data", "extent"} => handle[q].id \notin D
          /\ handle[q].step = "swap" => file'[handle[q].copy] = file[handle[q].copy]
    /\ directory' \in {directory, <<Newest>>}
    /\ asked \subseteq asked'
    /\ lease' = lease \/ lease \in {p, Nobody}
    /\ lock' = lock \/ lock \in {p, Nobody}
    /\ \/ extent' = extent
       \/ /\ lock \in {p, Nobody}
          /\ \A q \in Procs \ {p} : handle[q].step = "swap" => extent'.id # handle[q].copy

LEMMA OthersKept ==
    ASSUME SpoolInv, NEW p \in Procs, NEW D, Withheld(p, D), FilesOK(file')
    PROVE  /\ QuietDisk
           /\ Named' \in {Named, {Newest}} /\ Newest' = Newest
           /\ directory' \in Seq(Entries) /\ directory' # <<>>
           /\ \A q \in Procs \ {p} : Undisturbed(q)
           /\ extent' = extent => ExtentOK(extent', Named', Newest', file')
<1>1. /\ FilesOK(file) /\ Named \in SUBSET Entries /\ Newest \in Named /\ Newest \in Entries
      /\ directory \in Seq(Entries) /\ directory # <<>>
  BY Basics DEF SpoolInv, SpoolTypeOK
<1>2. /\ Named' \in {Named, {Newest}} /\ Newest' = Newest
      /\ directory' \in Seq(Entries) /\ directory' # <<>>
  <2>1. CASE directory' = directory
    BY <1>1, <2>1 DEF Named, Newest
  <2>2. CASE directory' = <<Newest>>
    <3>1. /\ directory' \in Seq(Entries) /\ directory' # <<>>
          /\ ToSet(directory') = {Newest} /\ Last(directory') = Newest
      BY <1>1, <2>2, DirectoryOfOne
    <3> QED
      BY <3>1 DEF Named, Newest
  <2> QED
    BY <2>1, <2>2 DEF Withheld
<1>3. \A e \in Named : Kept(e, file, file')
  <2> TAKE e \in Named
  <2>1. e.records \in Ids \cup {NoFile} /\ e.records \notin D
    BY <1>1 DEF Entries, Withheld
  <2>2. CASE e.records = NoFile
    BY <2>2 DEF Kept, FramesIn, SyncedIn
  <2>3. CASE e.records \in Ids \ D /\ e.records # NoFile
    BY <2>3 DEF Kept, FramesIn, SyncedIn, Withheld
  <2> QED
    BY <2>1, <2>2, <2>3
<1>4. Named' \in SUBSET Named
  BY <1>1, <1>2
<1>5. QuietDisk
  BY <1>2, <1>3, <1>4 DEF QuietDisk, Withheld
<1>6. ASSUME NEW q \in Procs \ {p}
      PROVE  Undisturbed(q)
  <2>1. HandleOK(handle[q], q, file, Named, Newest, extent, lease, lock, asked)
    BY DEF SpoolInv, HandlesOK
  <2>2. q # p /\ q # Nobody
    BY SpoolAssumption
  <2>3. handle[q].step = "open" => lease = q
    BY <2>1 DEF HandleOK, ControlOK
  <2>4. handle[q].step \in {"data", "extent"} => lock = q /\ handle[q].id \in Ids
    BY <2>1 DEF HandleOK, ControlOK
  <2>5. handle[q].step = "swap" => extent.id # handle[q].copy
    BY <2>1 DEF HandleOK, CopyOK
  <2> QED
    BY <2>2, <2>3, <2>4, <2>5 DEF Undisturbed, Withheld
<1>7. extent' = extent => ExtentOK(extent', Named', Newest', file')
  <2>1. ExtentOK(extent, Named, Newest, file)
    BY DEF SpoolInv
  <2>2. extent.synced \in Nat
    BY SpoolAssumption DEF SpoolInv, SpoolTypeOK
  <2>3. \A e \in Named' : Kept(e, file, file')
    BY <1>3, <1>4
  <2>4. ExtentOK(extent, Named', Newest, file')
    BY <1>1, <1>4, <2>1, <2>2, <2>3, ExtentKept
  <2> QED
    BY <1>2, <2>4
<1> QED
  BY <1>2, <1>5, <1>6, <1>7

\* Nothing on disk changes.
LEMMA DiskWithheld ==
    ASSUME SpoolInv, NEW p \in Procs, file' = file, extent' = extent,
           directory' \in {directory, <<Newest>>}, asked \subseteq asked',
           \A q \in Procs \ {p} : handle'[q] = handle[q],
           lease' = lease \/ lease \in {p, Nobody},
           lock' = lock \/ lock \in {p, Nobody}
    PROVE  Withheld(p, {}) /\ FilesOK(file')
<1>1. FilesOK(file)
  BY Basics DEF SpoolInv
<1>2. \A i \in Ids : file[i].synced <= file[i].synced
  BY <1>1 DEF FilesOK, Files
<1> QED
  BY <1>1, <1>2 DEF Withheld

\* What the invariant says of the handle that moves.
LEMMA Mover ==
    ASSUME SpoolInv, NEW p \in Procs
    PROVE  /\ SpoolTypeOK /\ handle[p] \in Handles /\ Len(handle[p].kept) <= MaxSeq
           /\ HandleOK(handle[p], p, file, Named, Newest, extent, lease, lock, asked)
           /\ ControlOK(handle[p], p, Newest, lease, lock)
           /\ \A q \in Procs \ {p} : Apart(handle[p], handle[q]) /\ Apart(handle[q], handle[p])
BY DEF SpoolInv, SpoolTypeOK, HandlesOK, HandleOK, CopiesApart

\* A handle that gives up or is done.
LEMMA ClosingKeeps ==
    ASSUME SpoolInv, NEW p \in Procs, NEW D, Withheld(p, D), FilesOK(file'),
           extent' \in [id : Ids \cup {NoFile}, synced : 0 .. MaxSeq],
           ExtentOK(extent', Named', Newest', file'),
           handle' = [handle EXCEPT ![p] = Closed],
           lease' \in Procs \cup {Nobody}, lock' \in Procs \cup {Nobody},
           asked' \subseteq Pairs, committed' \subseteq Pairs, settled' = settled,
           \A f \in committed' \ committed : \A e \in Named' : Safe(f, e, file', asked')
    PROVE  SpoolInv'
<1>1. /\ Closed \in Handles /\ Len(Closed.kept) <= MaxSeq
      /\ HandleOK(Closed, p, file', Named', Newest', extent', lease', lock', asked')
  BY ClosedHandle, SpoolAssumption
<1>2. /\ QuietDisk
      /\ directory' \in Seq(Entries) /\ directory' # <<>>
      /\ \A q \in Procs \ {p} : Undisturbed(q)
  BY OthersKept
<1>3. /\ handle' \in [Procs -> Handles] /\ handle'[p] = Closed
      /\ \A q \in Procs : Len(handle'[q].kept) <= MaxSeq
  BY <1>1, HandleMoved DEF SpoolInv
<1>4. SpoolTypeOK'
  BY <1>2, <1>3 DEF SpoolInv, SpoolTypeOK, FilesOK
<1>5. \A q \in Procs \ {p} : Apart(Closed, handle[q]) /\ Apart(handle[q], Closed)
  <2>1. Closed.step = "idle" /\ Closed.copy = NoFile
    BY DEF Closed
  <2> QED
    BY <1>1, <2>1, ApartFromIdle
<1> QED
  BY <1>1, <1>2, <1>3, <1>4, <1>5, QuietStep

\* A step that moves only the handle: to h, with what it needs to hold there.
LEMMA MovingKeeps ==
    ASSUME SpoolInv, NEW p \in Procs, NEW D, Withheld(p, D), FilesOK(file'),
           NEW h \in Handles, Len(h.kept) <= MaxSeq, handle' = [handle EXCEPT ![p] = h],
           lease' \in Procs \cup {Nobody}, lock' \in Procs \cup {Nobody},
           extent' \in [id : Ids \cup {NoFile}, synced : 0 .. MaxSeq],
           asked' \subseteq Pairs, committed' = committed, settled' \subseteq Pairs,
           ExtentOK(extent', Named', Newest', file'),
           HandleOK(h, p, file', Named', Newest', extent', lease', lock', asked'),
           \A q \in Procs \ {p} : Apart(h, handle[q]) /\ Apart(handle[q], h),
           \A f \in settled' \ settled : \A e \in Named' : Settled(e.meta, f[1])
    PROVE  SpoolInv'
<1>1. /\ QuietDisk
      /\ directory' \in Seq(Entries) /\ directory' # <<>>
      /\ \A q \in Procs \ {p} : Undisturbed(q)
  BY OthersKept
<1>2. /\ handle' \in [Procs -> Handles] /\ handle'[p] = h
      /\ \A q \in Procs : Len(handle'[q].kept) <= MaxSeq
  BY HandleMoved DEF SpoolInv
<1>3. SpoolTypeOK'
  BY <1>1, <1>2 DEF SpoolInv, SpoolTypeOK, FilesOK
<1> QED
  BY <1>1, <1>2, <1>3, QuietStep

\* The extent stands when its entries do.
LEMMA ExtentStands ==
    ASSUME SpoolInv, NEW p \in Procs, NEW D, Withheld(p, D), FilesOK(file'), extent' = extent
    PROVE  /\ extent' \in [id : Ids \cup {NoFile}, synced : 0 .. MaxSeq]
           /\ ExtentOK(extent', Named', Newest', file')
BY OthersKept DEF SpoolInv, SpoolTypeOK

LEMMA AppendTornKeeps ==
    ASSUME SpoolInv, NEW p \in Procs, NEW e \in Events, AppendTorn(p, e)
    PROVE  SpoolInv'
<1>1. /\ handle[p].step = "open" /\ Records # NoFile
      /\ file' = [file EXCEPT ![Records].torn = TRUE]
      /\ handle' = [handle EXCEPT ![p] = Closed]
      /\ lease' = Nobody /\ directory' = directory /\ extent' = extent /\ lock' = lock
      /\ committed' = committed /\ asked' = asked /\ settled' = settled
  BY DEF AppendTorn, told
<1>2. /\ SpoolTypeOK /\ lease = p
  BY <1>1, Mover DEF ControlOK
<1>3. /\ FilesOK(file) /\ Named \subseteq Entries /\ Newest \in Named /\ Records = Newest.records
  BY <1>2, Basics
<1>4. Records \in Ids /\ file \in [Ids -> Files]
  BY <1>1, <1>3 DEF Entries, FilesOK
<1> DEFINE r == [file[Records] EXCEPT !.torn = TRUE]
<1>5. r \in Files /\ r.frames = file[Records].frames /\ r.synced = file[Records].synced
  BY <1>4 DEF Files
<1>6. file' = [file EXCEPT ![Records] = r]
  BY <1>1
<1> HIDE DEF r
<1>7. file' \in [Ids -> Files] /\ file'[Records] = r /\ \A i \in Ids \ {Records} : file'[i] = file[i]
  BY <1>4, <1>5, <1>6
<1>8. \A i \in Ids : file'[i].frames = file[i].frames /\ file'[i].synced = file[i].synced
  BY <1>5, <1>7
<1>9. FilesOK(file')
  BY <1>3, <1>7, <1>8 DEF FilesOK
<1>10. \A i \in Ids : file[i].synced <= file[i].synced
  BY <1>4 DEF Files
<1>11. handle \in [Procs -> Handles] /\ \A q \in Procs \ {p} : handle'[q] = handle[q]
  BY <1>1, <1>2 DEF SpoolTypeOK
<1>12. \A q \in Procs : handle[q].step = "swap" => handle[q].copy \in Ids /\ handle[q].copy # Records
  BY <1>3 DEF SpoolInv, HandlesOK, HandleOK, CopyOK
<1>13. Withheld(p, {})
  BY <1>1, <1>2, <1>7, <1>8, <1>10, <1>11, <1>12 DEF Withheld
<1>14. /\ extent' \in [id : Ids \cup {NoFile}, synced : 0 .. MaxSeq]
       /\ ExtentOK(extent', Named', Newest', file')
  BY <1>1, <1>9, <1>13, ExtentStands
<1> QED
  BY <1>1, <1>2, <1>9, <1>13, <1>14, ClosingKeeps DEF SpoolTypeOK

LEMMA KillKeeps ==
    ASSUME SpoolInv, NEW p \in Procs, Kill(p)
    PROVE  SpoolInv'
<1>1. /\ file' = Dropped(p)
      /\ lease' = IF lease = p THEN Nobody ELSE lease
      /\ lock' = IF lock = p THEN Nobody ELSE lock
      /\ handle' = [handle EXCEPT ![p] = Closed]
      /\ directory' = directory /\ extent' = extent
      /\ committed' = committed /\ asked' = asked /\ settled' = settled
  BY DEF Kill, told
<1> DEFINE D == {handle[p].copy}
<1>2. /\ SpoolTypeOK /\ ControlOK(handle[p], p, Newest, lease, lock)
      /\ CopyOK(handle[p], file, Named, extent)
      /\ \A q \in Procs \ {p} : Apart(handle[p], handle[q])
  BY Mover DEF HandleOK
<1>3. FilesOK(file) /\ file \in [Ids -> Files] /\ handle \in [Procs -> Handles]
  BY <1>2, Basics DEF FilesOK
<1>4. \A q \in Procs \ {p} : handle'[q] = handle[q]
  BY <1>1, <1>3
<1>5. CASE handle[p].copy = NoFile
  <2>1. file' = file
    BY <1>1, <1>5 DEF Dropped
  <2>2. Withheld(p, {}) /\ FilesOK(file')
    BY <1>1, <1>4, <2>1, DiskWithheld
  <2>3. /\ extent' \in [id : Ids \cup {NoFile}, synced : 0 .. MaxSeq]
        /\ ExtentOK(extent', Named', Newest', file')
    BY <1>1, <2>2, ExtentStands
  <2> QED
    BY <1>1, <1>2, <2>2, <2>3, ClosingKeeps DEF SpoolTypeOK
<1>6. CASE handle[p].copy # NoFile
  <2>1. /\ handle[p].step = "swap" /\ handle[p].copy \in Ids
        /\ \A e \in Named : e.records # handle[p].copy
    BY <1>2, <1>6 DEF ControlOK, CopyOK
  <2>2. file' = [file EXCEPT ![handle[p].copy] = Empty]
    BY <1>1, <1>6 DEF Dropped
  <2>3. Empty \in Files /\ Empty.synced <= Len(Empty.frames) /\ Len(Empty.frames) <= MaxSeq
    <3>1. <<>> \in Seq(Pairs) /\ Len(<<>>) = 0
      BY EmptySeq
    <3> QED
      BY <3>1, SpoolAssumption DEF Empty, Files
  <2>4. /\ file' \in [Ids -> Files] /\ file'[handle[p].copy] = Empty
        /\ \A i \in Ids \ D : file'[i] = file[i]
    BY <1>3, <2>1, <2>2, <2>3
  <2>5. FilesOK(file')
    BY <1>3, <2>3, <2>4 DEF FilesOK
  <2>6. \A i \in Ids : file[i].synced <= file[i].synced
    BY <1>3 DEF Files
  <2>7. \A q \in Procs \ {p} :
          /\ handle[q].copy # handle[p].copy
          /\ ~(handle[q].step \in {"data", "extent"} /\ handle[q].id = handle[p].copy)
    BY <1>2, <2>1 DEF Apart
  <2>8. \A q \in Procs : handle[q].step = "swap" => handle[q].copy \in Ids
    BY DEF SpoolInv, HandlesOK, HandleOK, CopyOK
  <2>9. Withheld(p, D)
    BY <1>1, <1>4, <2>1, <2>4, <2>6, <2>7, <2>8 DEF Withheld
  <2>10. /\ extent' \in [id : Ids \cup {NoFile}, synced : 0 .. MaxSeq]
         /\ ExtentOK(extent', Named', Newest', file')
    BY <1>1, <2>5, <2>9, ExtentStands
  <2> HIDE DEF D
  <2> QED
    BY <1>1, <1>2, <2>5, <2>9, <2>10, ClosingKeeps DEF SpoolTypeOK
<1> QED
  BY <1>5, <1>6

LEMMA CommitKeeps ==
    ASSUME SpoolInv, NEW p \in Procs, Commit(p)
    PROVE  SpoolInv'
<1>1. /\ handle[p].step = "open" /\ lease' = Nobody /\ lock' = lock
      /\ file' = file /\ directory' = directory /\ extent' = extent
      /\ asked' = asked /\ settled' = settled
  BY DEF Commit, disk, told
<1>2. /\ SpoolTypeOK /\ ControlOK(handle[p], p, Newest, lease, lock) /\ lease = p
      /\ handle[p] \in Handles /\ Len(handle[p].kept) <= MaxSeq
      /\ HandleOK(handle[p], p, file, Named, Newest, extent, lease, lock, asked)
  BY <1>1, Mover DEF ControlOK
<1>3. CASE handle[p].id = NoFile
  <2>1. handle[p].wants = {}
    BY <1>2, <1>3, SpoolAssumption DEF ControlOK
  <2>2. committed' = committed /\ handle' = [handle EXCEPT ![p] = Closed]
    BY <1>3, <2>1 DEF Commit
  <2>3. \A q \in Procs \ {p} : handle'[q] = handle[q]
    BY <1>2, <2>2 DEF SpoolTypeOK
  <2>4. Withheld(p, {}) /\ FilesOK(file')
    BY <1>1, <1>2, <2>3, DiskWithheld
  <2>5. /\ extent' \in [id : Ids \cup {NoFile}, synced : 0 .. MaxSeq]
        /\ ExtentOK(extent', Named', Newest', file')
    BY <1>1, <2>4, ExtentStands
  <2> QED
    BY <1>1, <1>2, <2>2, <2>4, <2>5, ClosingKeeps DEF SpoolTypeOK
<1>4. CASE handle[p].id # NoFile
  <2> DEFINE h == [handle[p] EXCEPT !.step = "sync", !.then = "idle"]
  <2>1. handle' = [handle EXCEPT ![p] = h] /\ committed' = committed
    BY <1>4 DEF Commit, told
  <2>2. /\ h \in Handles /\ h.step = "sync" /\ h.then = "idle" /\ h.wants = handle[p].wants
        /\ h.id = handle[p].id /\ h.end = handle[p].end /\ h.copy = handle[p].copy
        /\ h.kept = handle[p].kept
    BY <1>2 DEF Handles, Steps
  <2> HIDE DEF h
  <2>3. \A q \in Procs \ {p} : handle'[q] = handle[q]
    BY <1>2, <2>1 DEF SpoolTypeOK
  <2>4. Withheld(p, {}) /\ FilesOK(file')
    BY <1>1, <1>2, <2>3, DiskWithheld
  <2>5. /\ extent' \in [id : Ids \cup {NoFile}, synced : 0 .. MaxSeq]
        /\ ExtentOK(extent', Named', Newest', file')
    BY <1>1, <2>4, ExtentStands
  <2>6. Named' = Named /\ Newest' = Newest
    BY <1>1 DEF Named, Newest
  <2>7. handle[p].id = Newest.records /\ handle[p].id \in Ids /\ handle[p].copy = NoFile
    BY <1>1, <1>2, <1>4 DEF ControlOK, Handles
  <2>8. WantsOK(h, file, Named, Newest, extent, asked)
    <3> SUFFICES ASSUME NEW f \in h.wants, NEW e \in Named, Concerns(h, e, Newest, extent)
                 PROVE  Held(h, f, e, file, asked)
      BY DEF WantsOK
    <3>1. Concerns(handle[p], e, Newest, extent)
      BY <2>2 DEF Concerns
    <3>2. Held(handle[p], f, e, file, asked)
      BY <1>2, <2>2, <3>1 DEF HandleOK, WantsOK
    <3>3. \A i : Reached(handle[p], e, file, i) => Reached(h, e, file, i)
      BY <1>1, <2>2 DEF Reached
    <3> QED
      BY <3>2, <3>3 DEF Held
  <2>9. ControlOK(h, p, Newest, lease', lock')
    BY <1>2, <1>4, <2>2, <2>7, SpoolAssumption DEF ControlOK
  <2>10. HandleOK(h, p, file', Named', Newest', extent', lease', lock', asked')
    BY <1>1, <2>2, <2>6, <2>8, <2>9 DEF HandleOK, ClaimOK, AckOK, BarrierOK, CopyOK
  <2>11. \A q \in Procs \ {p} : Apart(h, handle[q]) /\ Apart(handle[q], h)
    BY <2>2, <2>7, ApartFromIdle
  <2> QED
    BY <1>1, <1>2, <2>1, <2>2, <2>4, <2>5, <2>10, <2>11, MovingKeeps DEF SpoolTypeOK
<1> QED
  BY <1>3, <1>4

-----------------------------------------------------------------------------
(* Committing.                                                             *)

\* What the caller of commit_records may rely on once it returns.
Landed(p) ==
    /\ \A f \in handle[p].wants : \A e \in Named' : Safe(f, e, file', asked)
    /\ handle[p].then = "meta" /\ handle[p].base = Newest.meta =>
          \A s \in 1 .. handle[p].next.next - 1 :
             \/ Settled(handle[p].base, s)
             \/ \E i \in DOMAIN FramesIn(Newest, file') :
                   FramesIn(Newest, file')[i][1] = s /\ i <= SyncedIn(Newest, file')

LEMMA Landing ==
    ASSUME SpoolInv, NEW p \in Procs, handle[p].step \in {"sync", "extent"},
           Named' \subseteq Named, file' = file,
           \A e \in Named' : Concerns(handle[p], e, Newest, extent),
           Newest \in Named',
           \A e \in Named' : \A i \in DOMAIN FramesIn(e, file) :
              Reached(handle[p], e, file, i) => i <= SyncedIn(e, file)
    PROVE  Landed(p)
<1> DEFINE h == handle[p]
<1>1. HandleOK(h, p, file, Named, Newest, extent, lease, lock, asked)
  BY Mover
<1>2. ASSUME NEW f \in h.wants, NEW e \in Named'
      PROVE  Safe(f, e, file', asked)
  <2>1. Held(h, f, e, file, asked)
    BY <1>1, <1>2 DEF HandleOK, WantsOK
  <2>2. CASE Settled(e.meta, f[1]) /\ f \in asked
    BY <2>2 DEF Safe
  <2>3. CASE \E i \in DOMAIN FramesIn(e, file) : FramesIn(e, file)[i] = f /\ Reached(h, e, file, i)
    <3>1. PICK i \in DOMAIN FramesIn(e, file) : FramesIn(e, file)[i] = f /\ Reached(h, e, file, i)
      BY <2>3
    <3>2. e \in Entries /\ FilesOK(file)
      BY Basics DEF SpoolInv
    <3>3. FramesIn(e, file) \in Seq(Pairs) /\ SyncedIn(e, file) \in Nat
      BY <3>2, EntryTypes
    <3>4. i \in 1 .. Len(FramesIn(e, file)) /\ i <= SyncedIn(e, file)
      BY <3>1, <3>3, FrameTypes
    <3>5. i \in 1 .. SyncedIn(e, file)
      <4>1. Len(FramesIn(e, file)) \in Nat
        BY <3>3, FrameTypes
      <4> QED
        BY <3>3, <3>4, <4>1
    <3> QED
      BY <3>1, <3>5 DEF Safe
  <2> QED
    BY <2>1, <2>2, <2>3 DEF Held
<1>3. ASSUME h.then = "meta", h.base = Newest.meta, NEW s \in 1 .. h.next.next - 1
      PROVE  \/ Settled(h.base, s)
             \/ \E i \in DOMAIN FramesIn(Newest, file') :
                   FramesIn(Newest, file')[i][1] = s /\ i <= SyncedIn(Newest, file')
  <2>1. AckStands(h, file, Newest)
    BY <1>1, <1>3 DEF HandleOK, AckOK
  <2>2. \/ Settled(h.base, s)
        \/ \E i \in DOMAIN FramesIn(Newest, file) :
              FramesIn(Newest, file)[i][1] = s /\ Reached(h, Newest, file, i)
    BY <2>1 DEF AckStands
  <2> QED
    BY <2>2
<1> QED
  BY <1>2, <1>3 DEF Landed

LEMMA ResumeMoves ==
    ASSUME SpoolInv, NEW p \in Procs, Resume(p)
    PROVE  /\ \A q \in Procs \ {p} : handle'[q] = handle[q]
           /\ asked' = asked /\ settled' = settled
<1>1. handle \in [Procs -> Handles]
  BY DEF SpoolInv, SpoolTypeOK
<1> QED
  BY <1>1 DEF Resume, told

LEMMA ResumeKeeps ==
    ASSUME SpoolInv, NEW p \in Procs, handle[p].step \in {"sync", "extent"},
           NEW D, Withheld(p, D), FilesOK(file'), Landed(p), Resume(p),
           extent' \in [id : Ids \cup {NoFile}, synced : 0 .. MaxSeq],
           ExtentOK(extent', Named', Newest', file'),
           lease' = lease, lock' \in Procs \cup {Nobody}
    PROVE  SpoolInv'
<1>1. /\ SpoolTypeOK /\ ControlOK(handle[p], p, Newest, lease, lock)
      /\ handle[p] \in Handles /\ Len(handle[p].kept) <= MaxSeq
      /\ HandleOK(handle[p], p, file, Named, Newest, extent, lease, lock, asked)
  BY Mover
<1>2. asked' = asked /\ settled' = settled
  BY ResumeMoves
<1>3. CASE handle[p].then = "idle"
  <2>1. committed' = committed \cup handle[p].wants /\ handle' = [handle EXCEPT ![p] = Closed]
    BY <1>3 DEF Resume
  <2>2. committed' \subseteq Pairs
    BY <1>1, <2>1 DEF SpoolTypeOK, Handles
  <2>3. \A f \in committed' \ committed : \A e \in Named' : Safe(f, e, file', asked')
    BY <1>2, <2>1 DEF Landed
  <2> QED
    BY <1>1, <1>2, <2>1, <2>2, <2>3, ClosingKeeps DEF SpoolTypeOK
<1>4. CASE handle[p].then # "idle"
  <2> DEFINE h == [handle[p] EXCEPT !.step = handle[p].then, !.claim = 0]
  <2>1. handle[p].then = "meta" /\ handle[p].copy = NoFile /\ handle[p].wants = {}
    BY <1>1, <1>4 DEF ControlOK
  <2>2. handle' = [handle EXCEPT ![p] = h] /\ committed' = committed
    BY <1>4 DEF Resume, told
  <2>3. /\ h \in Handles /\ h.step = "meta" /\ h.then = "meta" /\ h.wants = {}
        /\ h.base = handle[p].base /\ h.next = handle[p].next /\ h.acks = handle[p].acks
        /\ h.copy = NoFile /\ h.kept = handle[p].kept
    <3>1. 0 \in 0 .. MaxSeq /\ "meta" \in Steps
      BY SpoolAssumption DEF Steps
    <3>2. h = [handle[p] EXCEPT !.step = "meta", !.claim = 0]
      BY <2>1
    <3> QED
      BY <1>1, <2>1, <3>1, <3>2 DEF Handles
  <2> HIDE DEF h
  <2>4. QuietDisk /\ Newest' = Newest /\ Newest' \in Named'
    <3>1. QuietDisk /\ Newest' = Newest /\ Named' \in {Named, {Newest}} /\ Newest \in Named
      BY OthersKept, Basics DEF SpoolInv
    <3> QED
      BY <3>1
  <2>5. FramesIn(Newest, file') = FramesIn(Newest, file)
    BY <2>4 DEF QuietDisk, Kept
  <2>6. AckOK(h, file', Newest', asked')
    <3>1. AckBase(h, Newest', asked')
      BY <1>1, <1>2, <2>1, <2>3, <2>4 DEF HandleOK, AckOK, AckBase
    <3>2. ASSUME h.base = Newest'.meta
          PROVE  AckStands(h, file', Newest')
      <4>1. AckStands(handle[p], file, Newest)
        BY <1>1, <2>1, <2>3, <2>4, <3>2 DEF HandleOK, AckOK
      <4>2. \A i \in DOMAIN FramesIn(Newest, file') :
               Settled(h.next, FramesIn(Newest, file')[i][1]) =>
                  Settled(h.base, FramesIn(Newest, file')[i][1]) \/ FramesIn(Newest, file')[i] \in h.acks
        BY <2>3, <2>5, <4>1 DEF AckStands
      <4>3. \A s \in 1 .. h.next.next - 1 :
               \/ Settled(h.base, s)
               \/ \E i \in DOMAIN FramesIn(Newest, file') :
                     FramesIn(Newest, file')[i][1] = s /\ i <= SyncedIn(Newest, file')
        BY <2>1, <2>3, <2>4, <3>2 DEF Landed
      <4>4. \A i : i <= SyncedIn(Newest, file') => Reached(h, Newest, file', i)
        BY DEF Reached
      <4>5. \A s \in 1 .. h.next.next - 1 :
               \/ Settled(h.base, s)
               \/ \E i \in DOMAIN FramesIn(Newest, file') :
                     FramesIn(Newest, file')[i][1] = s /\ Reached(h, Newest, file', i)
        BY <4>3, <4>4
      <4> QED
        BY <2>4, <4>2, <4>5 DEF AckStands
    <3> QED
      BY <3>1, <3>2 DEF AckOK
  <2>7. HandleOK(h, p, file', Named', Newest', extent', lease', lock', asked')
    BY <2>3, <2>6 DEF HandleOK, WantsOK, ClaimOK, BarrierOK, CopyOK, ControlOK
  <2>8. \A q \in Procs \ {p} : Apart(h, handle[q]) /\ Apart(handle[q], h)
    BY <2>3, ApartFromIdle
  <2> QED
    BY <1>1, <1>2, <2>2, <2>3, <2>7, <2>8, MovingKeeps DEF SpoolTypeOK
<1> QED
  BY <1>3, <1>4

\* A handle about to commit, and the file it commits to.
LEMMA Committer ==
    ASSUME SpoolInv, NEW p \in Procs, handle[p].step \in {"sync", "data", "extent"}
    PROVE  /\ handle[p].id \in Ids /\ Newest.records \in Ids /\ Records = Newest.records
           /\ handle[p].copy = NoFile /\ handle[p].end \in Nat /\ handle[p].claim \in 0 .. MaxSeq
           /\ extent.synced \in Nat
           /\ \A q \in Procs : handle[q].step = "swap" => handle[q].copy # Newest.records
           /\ extent.id = Records => \A e \in Named : e.records = Newest.records
           /\ \A e \in Named : e.records = extent.id /\ extent.id \in Ids =>
                 extent.synced <= SyncedIn(e, file)
<1>1. /\ SpoolTypeOK /\ ControlOK(handle[p], p, Newest, lease, lock) /\ handle[p] \in Handles
  BY Mover
<1>2. /\ Named \subseteq Entries /\ Newest \in Named /\ Newest \in Entries /\ Records = Newest.records
  BY <1>1, Basics
<1>3. handle[p].id \in Ids /\ Newest.records \in Ids /\ handle[p].copy = NoFile
  BY <1>1, <1>2 DEF ControlOK, Entries
<1>4. handle[p].end \in Nat /\ handle[p].claim \in 0 .. MaxSeq /\ extent.synced \in Nat
  BY <1>1, SpoolAssumption DEF Handles, SpoolTypeOK
<1>5. \A q \in Procs : handle[q].step = "swap" => handle[q].copy # Newest.records
  BY <1>2 DEF SpoolInv, HandlesOK, HandleOK, CopyOK
<1>6. extent.id = Records => \A e \in Named : e.records = Newest.records
  BY <1>2, <1>3, SpoolAssumption DEF SpoolInv, ExtentOK
<1>7. \A e \in Named : e.records = extent.id /\ extent.id \in Ids => extent.synced <= SyncedIn(e, file)
  BY SpoolAssumption DEF SpoolInv, ExtentOK, SyncedIn
<1> QED
  BY <1>2, <1>3, <1>4, <1>5, <1>6, <1>7

LEMMA CommitRecordsKeeps ==
    ASSUME SpoolInv, NEW p \in Procs, CommitRecords(p)
    PROVE  SpoolInv'
<1>1. handle[p].step = "sync" /\ lock = Nobody
  BY DEF CommitRecords
<1>2. /\ SpoolTypeOK /\ ControlOK(handle[p], p, Newest, lease, lock)
      /\ handle[p] \in Handles /\ Len(handle[p].kept) <= MaxSeq
      /\ HandleOK(handle[p], p, file, Named, Newest, extent, lease, lock, asked)
  BY Mover
<1>3. /\ handle[p].id \in Ids /\ Newest.records \in Ids /\ Records = Newest.records
      /\ handle[p].copy = NoFile /\ handle[p].end \in Nat
      /\ extent.synced \in Nat
      /\ \A q \in Procs : handle[q].step = "swap" => handle[q].copy # Newest.records
      /\ extent.id = Records => \A e \in Named : e.records = Newest.records
      /\ \A e \in Named : e.records = extent.id /\ extent.id \in Ids =>
            extent.synced <= SyncedIn(e, file)
  BY <1>1, Committer
<1>4. /\ FilesOK(file) /\ Named \subseteq Entries /\ Newest \in Named /\ Newest \in Entries
      /\ Frames = FramesIn(Newest, file)
  BY <1>2, Basics
<1>5. \A e \in Entries : /\ SyncedIn(e, file) \in Nat
                         /\ \A i \in DOMAIN FramesIn(e, file) : i \in Nat
  <2> TAKE e \in Entries
  <2>1. FramesIn(e, file) \in Seq(Pairs) /\ SyncedIn(e, file) \in Nat
    BY <1>4, EntryTypes
  <2> QED
    BY <2>1, FrameTypes
<1>6. CASE handle[p].id # Records /\ CompactedAway(p)
  <2>1. file' = file /\ Resume(p) /\ lease' = lease /\ lock' = lock
    BY <1>6 DEF CompactedAway, locks
  <2>2. \A q \in Procs \ {p} : handle'[q] = handle[q]
    BY <2>1, ResumeMoves
  <2>3. asked' = asked /\ FilesOK(file')
    BY <1>4, <2>1, ResumeMoves
  <2>4. \A e \in Named : e.records = Newest.records =>
           \A i \in DOMAIN FramesIn(e, file) : Reached(handle[p], e, file, i) => i <= SyncedIn(e, file)
    BY <1>1, <1>3, <1>6 DEF Reached
  <2>5. CASE Extent(Records) >= 0
    <3>1. directory' = directory /\ extent' = extent /\ extent.id = Records
      BY <1>6, <2>5 DEF CompactedAway, Extent
    <3>2. Withheld(p, {})
      BY <2>1, <2>2, <2>3, <3>1, DiskWithheld
    <3>3. /\ extent' \in [id : Ids \cup {NoFile}, synced : 0 .. MaxSeq]
          /\ ExtentOK(extent', Named', Newest', file')
      BY <2>3, <3>1, <3>2, ExtentStands
    <3>4. Named' = Named
      BY <3>1 DEF Named
    <3>5. \A e \in Named' : Concerns(handle[p], e, Newest, extent)
      BY <1>3, <3>1, <3>4 DEF Concerns
    <3>6. Landed(p)
      BY <1>1, <1>3, <1>4, <2>1, <2>4, <3>1, <3>4, <3>5, Landing
    <3> QED
      BY <1>1, <1>2, <2>1, <2>3, <3>2, <3>3, <3>6, ResumeKeeps DEF SpoolTypeOK
  <2>6. CASE ~(Extent(Records) >= 0)
    <3>1. directory' = <<Newest>> /\ extent' = [id |-> Records, synced |-> 0]
      BY <1>6, <2>6 DEF CompactedAway, SyncedDirectory, Newest
    <3>2. \A i \in Ids : file[i].synced <= file[i].synced
      BY <1>4 DEF FilesOK, Files
    <3>3. Withheld(p, {})
      BY <1>1, <1>3, <2>1, <2>2, <2>3, <3>1, <3>2 DEF Withheld
    <3>4. Named' = {Newest} /\ Newest' = Newest
      BY <1>4, <3>1, DirectoryOfOne DEF Named, Newest
    <3>5. /\ extent' \in [id : Ids \cup {NoFile}, synced : 0 .. MaxSeq]
          /\ ExtentOK(extent', Named', Newest', file')
      <4>1. file[Newest.records].synced >= 0
        BY <1>3, <1>4 DEF FilesOK, Files
      <4> QED
        BY <1>3, <2>1, <3>1, <3>4, <4>1, SpoolAssumption DEF ExtentOK
    <3>6. \A e \in Named' : Concerns(handle[p], e, Newest, extent)
      BY <3>4 DEF Concerns
    <3>7. Landed(p)
      BY <1>1, <1>4, <2>1, <2>4, <3>4, <3>6, Landing
    <3> QED
      BY <1>1, <1>2, <2>1, <2>3, <3>3, <3>5, <3>7, ResumeKeeps DEF SpoolTypeOK
  <2> QED
    BY <2>5, <2>6
<1>7. CASE /\ handle[p].id = Records /\ Extent(Records) >= handle[p].end
           /\ Resume(p) /\ UNCHANGED <<disk, locks>>
  <2>1. /\ file' = file /\ directory' = directory /\ extent' = extent
        /\ lease' = lease /\ lock' = lock
    BY <1>7 DEF disk, locks
  <2>2. extent.id = Records /\ handle[p].end <= extent.synced
    BY <1>3, <1>7 DEF Extent
  <2>3. \A q \in Procs \ {p} : handle'[q] = handle[q]
    BY <1>7, ResumeMoves
  <2>4. asked' = asked
    BY <1>7, ResumeMoves
  <2>5. Withheld(p, {}) /\ FilesOK(file')
    BY <2>1, <2>3, <2>4, DiskWithheld
  <2>6. /\ extent' \in [id : Ids \cup {NoFile}, synced : 0 .. MaxSeq]
        /\ ExtentOK(extent', Named', Newest', file')
    BY <2>1, <2>5, ExtentStands
  <2>7. Named' = Named
    BY <2>1 DEF Named
  <2>8. \A e \in Named' : Concerns(handle[p], e, Newest, extent)
    BY <1>3, <2>2, <2>7 DEF Concerns
  <2>9. ASSUME NEW e \in Named, NEW i \in DOMAIN FramesIn(e, file), Reached(handle[p], e, file, i)
        PROVE  i <= SyncedIn(e, file)
    <3>1. i <= SyncedIn(e, file) \/ i <= handle[p].end
      BY <1>1, <2>9 DEF Reached
    <3>2. extent.synced <= SyncedIn(e, file)
      BY <1>3, <2>2
    <3>3. i \in Nat /\ SyncedIn(e, file) \in Nat
      BY <1>4, <1>5
    <3> QED
      BY <1>3, <2>2, <3>1, <3>2, <3>3
  <2>10. Landed(p)
    BY <1>1, <1>4, <2>1, <2>7, <2>8, <2>9, Landing
  <2> QED
    BY <1>1, <1>2, <1>7, <2>1, <2>5, <2>6, <2>10, ResumeKeeps DEF SpoolTypeOK
<1>8. ASSUME handle[p].id = Records, lock' = p, NEW claim \in handle[p].end .. Len(Frames),
             handle' = [handle EXCEPT ![p].step = "data", ![p].claim = claim],
             UNCHANGED <<disk, lease, told>>
      PROVE  SpoolInv'
  <2> DEFINE h == [handle[p] EXCEPT !.step = "data", !.claim = claim]
  <2>1. /\ file' = file /\ directory' = directory /\ extent' = extent /\ lease' = lease
        /\ committed' = committed /\ asked' = asked /\ settled' = settled
        /\ handle' = [handle EXCEPT ![p] = h]
    BY <1>8 DEF disk, told
  <2>2. claim \in 0 .. MaxSeq /\ claim <= Len(Frames)
    <3>1. Len(Frames) \in 0 .. MaxSeq
      BY <1>4, EntryTypes
    <3> QED
      BY <1>3, <3>1, SpoolAssumption
  <2>3. /\ h \in Handles /\ h.step = "data" /\ h.claim = claim /\ h.id = handle[p].id
        /\ h.then = handle[p].then /\ h.wants = handle[p].wants /\ h.base = handle[p].base
        /\ h.next = handle[p].next /\ h.acks = handle[p].acks
        /\ h.copy = NoFile /\ h.kept = handle[p].kept
    BY <1>2, <1>3, <2>2 DEF Handles, Steps
  <2> HIDE DEF h
  <2>4. \A q \in Procs \ {p} : handle'[q] = handle[q]
    BY <1>2, <2>1 DEF SpoolTypeOK
  <2>5. Withheld(p, {}) /\ FilesOK(file')
    BY <1>1, <2>1, <2>4, DiskWithheld
  <2>6. /\ extent' \in [id : Ids \cup {NoFile}, synced : 0 .. MaxSeq]
        /\ ExtentOK(extent', Named', Newest', file')
    BY <2>1, <2>5, ExtentStands
  <2>7. Named' = Named /\ Newest' = Newest
    BY <2>1 DEF Named, Newest
  <2>8. \A e, i : Reached(handle[p], e, file, i) => Reached(h, e, file, i)
    BY <1>1, <2>3 DEF Reached
  <2>9. WantsOK(h, file, Named, Newest, extent, asked)
    <3> SUFFICES ASSUME NEW f \in h.wants, NEW e \in Named, Concerns(h, e, Newest, extent)
                 PROVE  Held(h, f, e, file, asked)
      BY DEF WantsOK
    <3>1. Concerns(handle[p], e, Newest, extent)
      BY <1>3, <1>8, <2>3 DEF Concerns
    <3>2. Held(handle[p], f, e, file, asked)
      BY <1>2, <2>3, <3>1 DEF HandleOK, WantsOK
    <3> QED
      BY <2>8, <3>2 DEF Held
  <2>10. ClaimOK(h, file)
    BY <1>3, <1>4, <1>8, <2>2, <2>3, SpoolAssumption DEF ClaimOK, FramesIn
  <2>11. AckOK(h, file, Newest, asked)
    <3> SUFFICES ASSUME h.then = "meta"
                 PROVE  AckBase(h, Newest, asked) /\ (h.base = Newest.meta => AckStands(h, file, Newest))
      BY DEF AckOK
    <3>1. /\ AckBase(handle[p], Newest, asked)
          /\ handle[p].base = Newest.meta => AckStands(handle[p], file, Newest)
      BY <1>2, <2>3 DEF HandleOK, AckOK
    <3>2. AckBase(h, Newest, asked)
      BY <2>3, <3>1 DEF AckBase
    <3>3. h.base = Newest.meta => AckStands(h, file, Newest)
      BY <2>3, <2>8, <3>1 DEF AckStands
    <3> QED
      BY <3>2, <3>3
  <2>12. ControlOK(h, p, Newest, lease', lock')
    BY <1>1, <1>2, <1>8, <2>3 DEF ControlOK
  <2>13. HandleOK(h, p, file', Named', Newest', extent', lease', lock', asked')
    BY <2>1, <2>3, <2>7, <2>9, <2>10, <2>11, <2>12 DEF HandleOK, BarrierOK, CopyOK
  <2>14. \A q \in Procs \ {p} : Apart(h, handle[q]) /\ Apart(handle[q], h)
    BY <1>3, <1>8, <2>3, ApartFromIdle
  <2> QED
    BY <1>1, <1>2, <1>8, <2>1, <2>3, <2>5, <2>6, <2>13, <2>14, MovingKeeps DEF SpoolTypeOK
<1> QED
  BY <1>6, <1>7, <1>8 DEF CommitRecords

LEMMA SyncDataKeeps ==
    ASSUME SpoolInv, NEW p \in Procs, SyncData(p)
    PROVE  SpoolInv'
<1> DEFINE h == [handle[p] EXCEPT !.step = "extent"]
           k == handle[p].id
           r == [file[k] EXCEPT !.synced = Len(file[k].frames)]
<1>1. /\ handle[p].step = "data"
      /\ file' = [file EXCEPT ![k] = r]
      /\ handle' = [handle EXCEPT ![p] = h]
      /\ directory' = directory /\ extent' = extent /\ lease' = lease /\ lock' = lock
      /\ committed' = committed /\ asked' = asked /\ settled' = settled
  BY DEF SyncData, locks, told
<1>2. /\ SpoolTypeOK /\ ControlOK(handle[p], p, Newest, lease, lock)
      /\ handle[p] \in Handles /\ Len(handle[p].kept) <= MaxSeq
      /\ HandleOK(handle[p], p, file, Named, Newest, extent, lease, lock, asked)
      /\ \A q \in Procs \ {p} : Apart(handle[q], handle[p])
  BY Mover
<1>3. /\ k \in Ids /\ Newest.records \in Ids /\ handle[p].copy = NoFile
      /\ handle[p].claim \in 0 .. MaxSeq
  BY <1>1, Committer
<1>4. /\ FilesOK(file) /\ Named \subseteq Entries /\ Newest \in Named /\ Newest \in Entries
      /\ file \in [Ids -> Files]
  BY <1>2, Basics DEF FilesOK
<1>5. /\ h \in Handles /\ h.step = "extent" /\ h.claim = handle[p].claim /\ h.id = k
      /\ h.then = handle[p].then /\ h.wants = handle[p].wants /\ h.base = handle[p].base
      /\ h.next = handle[p].next /\ h.acks = handle[p].acks
      /\ h.copy = NoFile /\ h.kept = handle[p].kept
  BY <1>2, <1>3 DEF Handles, Steps
<1>6. Len(file[k].frames) \in 0 .. MaxSeq /\ file[k].synced <= Len(file[k].frames)
  <2>1. file[k].frames \in Seq(Pairs) /\ file[k].synced <= Len(file[k].frames)
        /\ Len(file[k].frames) <= MaxSeq
    BY <1>3, <1>4 DEF FilesOK, Files
  <2> QED
    BY <2>1, FrameTypes, SpoolAssumption
<1>7. r \in Files /\ r.frames = file[k].frames /\ r.synced = Len(file[k].frames)
  <2>1. file[k] \in Files
    BY <1>3, <1>4
  <2> QED
    BY <1>6, <2>1 DEF Files
<1> HIDE DEF h, k, r
<1>8. /\ file' \in [Ids -> Files] /\ file'[k] = r
      /\ \A i \in Ids \ {k} : file'[i] = file[i]
  BY <1>1, <1>3, <1>4, <1>7
<1>9. \A i \in Ids : file'[i].frames = file[i].frames /\ file[i].synced <= file'[i].synced
  <2>1. \A i \in Ids : file[i].synced <= file[i].synced
    BY <1>4 DEF Files
  <2> QED
    BY <1>6, <1>7, <1>8, <2>1
<1>10. FilesOK(file')
  <2> SUFFICES ASSUME NEW i \in Ids
               PROVE  file'[i].synced <= Len(file'[i].frames) /\ Len(file'[i].frames) <= MaxSeq
    BY <1>8 DEF FilesOK
  <2>1. CASE i = k
    BY <1>6, <1>7, <1>8, <2>1
  <2>2. CASE i # k
    BY <1>4, <1>8, <2>2 DEF FilesOK
  <2> QED
    BY <2>1, <2>2
<1>11. \A q \in Procs \ {p} : handle'[q] = handle[q]
  BY <1>1, <1>2 DEF SpoolTypeOK
<1>12. \A q \in Procs \ {p} : handle[q].step = "swap" => handle[q].copy \in Ids /\ handle[q].copy # k
  <2>1. \A q \in Procs : handle[q].step = "swap" => handle[q].copy \in Ids
    BY DEF SpoolInv, HandlesOK, HandleOK, CopyOK
  <2> QED
    BY <1>1, <1>2, <2>1 DEF Apart, k
<1>13. Withheld(p, {})
  BY <1>1, <1>8, <1>9, <1>11, <1>12 DEF Withheld
<1>14. /\ extent' \in [id : Ids \cup {NoFile}, synced : 0 .. MaxSeq]
       /\ ExtentOK(extent', Named', Newest', file')
  BY <1>1, <1>10, <1>13, ExtentStands
<1>15. Named' = Named /\ Newest' = Newest
  BY <1>1 DEF Named, Newest
<1>16. ASSUME NEW e \in Named
       PROVE  /\ FramesIn(e, file') = FramesIn(e, file)
              /\ \A i \in DOMAIN FramesIn(e, file) :
                    Reached(handle[p], e, file, i) => Reached(h, e, file', i)
  <2>1. e \in Entries /\ e.records \in Ids \cup {NoFile}
    BY <1>4 DEF Entries
  <2>2. /\ FramesIn(e, file) \in Seq(Pairs) /\ SyncedIn(e, file) \in Nat
        /\ SyncedIn(e, file') \in Nat
    BY <1>4, <1>10, <2>1, EntryTypes
  <2>3. DOMAIN FramesIn(e, file) = 1 .. Len(FramesIn(e, file)) /\ Len(FramesIn(e, file)) \in Nat
    BY <2>2, FrameTypes
  <2>4. FramesIn(e, file') = FramesIn(e, file) /\ SyncedIn(e, file) <= SyncedIn(e, file')
    BY <1>9, <2>1 DEF FramesIn, SyncedIn
  <2>5. e.records = k => SyncedIn(e, file') = Len(FramesIn(e, file))
    BY <1>3, <1>7, <1>8, SpoolAssumption DEF FramesIn, SyncedIn
  <2>6. ASSUME NEW i \in DOMAIN FramesIn(e, file), Reached(handle[p], e, file, i)
        PROVE  i <= SyncedIn(e, file')
    <3>1. i <= SyncedIn(e, file) \/ e.records = k
      BY <1>1, <2>6 DEF Reached, k
    <3> QED
      BY <2>2, <2>3, <2>4, <2>5, <3>1
  <2> QED
    BY <2>4, <2>6 DEF Reached
<1>17. WantsOK(h, file', Named, Newest, extent, asked)
  <2> SUFFICES ASSUME NEW f \in h.wants, NEW e \in Named, Concerns(h, e, Newest, extent)
               PROVE  Held(h, f, e, file', asked)
    BY DEF WantsOK
  <2>1. Concerns(handle[p], e, Newest, extent)
    BY <1>1, <1>5 DEF Concerns, k
  <2>2. Held(handle[p], f, e, file, asked)
    BY <1>2, <1>5, <2>1 DEF HandleOK, WantsOK
  <2> QED
    BY <1>16, <2>2 DEF Held
<1>18. ClaimOK(h, file')
  BY <1>1, <1>2, <1>5, <1>7, <1>8 DEF HandleOK, ClaimOK, k
<1>19. AckOK(h, file', Newest, asked)
  <2> SUFFICES ASSUME h.then = "meta"
               PROVE  AckBase(h, Newest, asked) /\ (h.base = Newest.meta => AckStands(h, file', Newest))
    BY DEF AckOK
  <2>1. /\ AckBase(handle[p], Newest, asked)
        /\ handle[p].base = Newest.meta => AckStands(handle[p], file, Newest)
    BY <1>2, <1>5 DEF HandleOK, AckOK
  <2>2. AckBase(h, Newest, asked)
    BY <1>5, <2>1 DEF AckBase
  <2>3. /\ FramesIn(Newest, file') = FramesIn(Newest, file)
        /\ \A i \in DOMAIN FramesIn(Newest, file) :
              Reached(handle[p], Newest, file, i) => Reached(h, Newest, file', i)
    BY <1>4, <1>16
  <2>4. h.base = Newest.meta => AckStands(h, file', Newest)
    BY <1>5, <2>1, <2>3 DEF AckStands
  <2> QED
    BY <2>2, <2>4
<1>20. ControlOK(h, p, Newest, lease', lock')
  BY <1>1, <1>2, <1>5 DEF ControlOK, k
<1>21. HandleOK(h, p, file', Named', Newest', extent', lease', lock', asked')
  BY <1>1, <1>5, <1>15, <1>17, <1>18, <1>19, <1>20 DEF HandleOK, BarrierOK, CopyOK
<1>22. \A q \in Procs \ {p} : Apart(h, handle[q]) /\ Apart(handle[q], h)
  BY <1>5, <1>12, ApartFromIdle
<1> QED
  BY <1>1, <1>2, <1>5, <1>10, <1>13, <1>14, <1>21, <1>22, MovingKeeps DEF SpoolTypeOK

LEMMA PublishExtentKeeps ==
    ASSUME SpoolInv, NEW p \in Procs, PublishExtent(p)
    PROVE  SpoolInv'
<1>1. /\ handle[p].step = "extent"
      /\ directory' = IF Extent(handle[p].id) >= 0 THEN directory ELSE <<Newest>>
      /\ extent' = [id |-> handle[p].id, synced |-> handle[p].claim]
      /\ lock' = Nobody /\ file' = file /\ lease' = lease /\ Resume(p)
  BY DEF PublishExtent, SyncedDirectory, Newest
<1>2. /\ SpoolTypeOK /\ lock = p
      /\ HandleOK(handle[p], p, file, Named, Newest, extent, lease, lock, asked)
      /\ \A q \in Procs \ {p} : Apart(handle[q], handle[p])
  BY <1>1, Mover DEF ControlOK
<1>3. /\ handle[p].id \in Ids /\ Newest.records \in Ids /\ handle[p].claim \in 0 .. MaxSeq
      /\ extent.synced \in Nat /\ Records = Newest.records
      /\ extent.id = Records => \A e \in Named : e.records = Newest.records
  BY <1>1, Committer
<1>4. FilesOK(file) /\ Named \subseteq Entries /\ Newest \in Named /\ Newest \in Entries
  BY <1>2, Basics
<1>5. /\ \A q \in Procs \ {p} : handle'[q] = handle[q]
      /\ asked' = asked
  BY <1>1, ResumeMoves
<1>6. Withheld(p, {}) /\ FilesOK(file')
  <2>1. \A i \in Ids : file[i].synced <= file[i].synced
    BY <1>4 DEF FilesOK, Files
  <2>2. \A q \in Procs \ {p} : handle[q].step = "swap" => extent'.id # handle[q].copy
    BY <1>1, <1>2 DEF Apart
  <2> QED
    BY <1>1, <1>2, <1>4, <1>5, <2>1, <2>2 DEF Withheld
<1>7. /\ Newest' = Newest
      /\ \/ Named' = Named /\ extent.id = handle[p].id
         \/ Named' = {Newest}
  <2>1. CASE Extent(handle[p].id) >= 0
    BY <1>1, <2>1 DEF Extent, Named, Newest
  <2>2. CASE ~(Extent(handle[p].id) >= 0)
    BY <1>1, <1>4, <2>2, DirectoryOfOne DEF Named, Newest
  <2> QED
    BY <2>1, <2>2
<1>8. ExtentOK(extent', Named', Newest', file')
  <2>1. ExtentOK(extent, Named, Newest, file)
    BY DEF SpoolInv
  <2>2. handle[p].claim <= file[handle[p].id].synced
    BY <1>1, <1>2 DEF HandleOK, ClaimOK
  <2>3. extent'.id = handle[p].id /\ extent'.synced = handle[p].claim /\ handle[p].id # NoFile
        /\ Newest.records # NoFile
    BY <1>1, <1>3, SpoolAssumption
  <2>4. CASE Named' = Named /\ extent.id = handle[p].id
    BY <1>1, <1>7, <2>1, <2>2, <2>3, <2>4 DEF ExtentOK
  <2>5. CASE Named' = {Newest}
    BY <1>1, <1>7, <2>2, <2>3, <2>5 DEF ExtentOK
  <2> QED
    BY <1>7, <2>4, <2>5
<1>9. extent' \in [id : Ids \cup {NoFile}, synced : 0 .. MaxSeq]
  BY <1>1, <1>3
<1>10. /\ \A e \in Named' : Concerns(handle[p], e, Newest, extent)
       /\ Newest \in Named' /\ Named' \subseteq Named
  BY <1>1, <1>4, <1>7 DEF Concerns
<1>11. \A e \in Named' : \A i \in DOMAIN FramesIn(e, file) :
          Reached(handle[p], e, file, i) => i <= SyncedIn(e, file)
  BY <1>1 DEF Reached
<1>12. Landed(p)
  BY <1>1, <1>10, <1>11, Landing
<1> QED
  BY <1>1, <1>6, <1>8, <1>9, <1>12, ResumeKeeps

-----------------------------------------------------------------------------
(* Acknowledging and reclaiming.                                           *)

LEMMA SyncMetaKeeps ==
    ASSUME SpoolInv, NEW p \in Procs, SyncMeta(p)
    PROVE  SpoolInv'
<1> DEFINE h == [handle[p] EXCEPT !.step = "return"]
<1>1. /\ handle[p].step = "barrier" /\ directory' = <<Newest>>
      /\ handle' = [handle EXCEPT ![p] = h]
      /\ file' = file /\ extent' = extent /\ lease' = lease /\ lock' = lock
      /\ committed' = committed /\ asked' = asked /\ settled' = settled
  BY DEF SyncMeta, SyncedDirectory, Newest, locks, told
<1>2. /\ SpoolTypeOK /\ ControlOK(handle[p], p, Newest, lease, lock)
      /\ handle[p] \in Handles /\ Len(handle[p].kept) <= MaxSeq
      /\ HandleOK(handle[p], p, file, Named, Newest, extent, lease, lock, asked)
  BY Mover
<1>3. handle[p].wants = {} /\ handle[p].then # "meta" /\ handle[p].copy = NoFile
  BY <1>1, <1>2 DEF ControlOK
<1>4. /\ h \in Handles /\ h.step = "return" /\ h.wants = {} /\ h.then = handle[p].then
      /\ h.acks = handle[p].acks /\ h.copy = NoFile /\ h.kept = handle[p].kept
  BY <1>2, <1>3 DEF Handles, Steps
<1> HIDE DEF h
<1>5. \A q \in Procs \ {p} : handle'[q] = handle[q]
  BY <1>1, <1>2 DEF SpoolTypeOK
<1>6. Withheld(p, {}) /\ FilesOK(file')
  BY <1>1, <1>5, DiskWithheld
<1>7. /\ extent' \in [id : Ids \cup {NoFile}, synced : 0 .. MaxSeq]
      /\ ExtentOK(extent', Named', Newest', file')
  BY <1>1, <1>6, ExtentStands
<1>8. Named' = {Newest} /\ Newest' = Newest
  <2>1. Newest \in Entries
    BY <1>2, Basics
  <2> QED
    BY <1>1, <2>1, DirectoryOfOne DEF Named, Newest
<1>9. BarrierOK(h, Named', Newest')
  BY <1>1, <1>2, <1>4, <1>8 DEF HandleOK, BarrierOK
<1>10. HandleOK(h, p, file', Named', Newest', extent', lease', lock', asked')
  BY <1>3, <1>4, <1>9 DEF HandleOK, WantsOK, ClaimOK, AckOK, CopyOK, ControlOK
<1>11. \A q \in Procs \ {p} : Apart(h, handle[q]) /\ Apart(handle[q], h)
  BY <1>4, ApartFromIdle
<1> QED
  BY <1>1, <1>2, <1>4, <1>6, <1>7, <1>10, <1>11, MovingKeeps DEF SpoolTypeOK

\* A handle about to stage a replacement holds nothing the others could disturb.
LEMMA ReclaimingHandle ==
    ASSUME SpoolInv, NEW p \in Procs, NEW fl, NEW E, NEW l, NEW x, NEW ls, NEW lk, NEW as
    PROVE  /\ StartReclaim(p) \in Handles /\ Len(StartReclaim(p).kept) <= MaxSeq
           /\ HandleOK(StartReclaim(p), p, fl, E, l, x, ls, lk, as)
           /\ \A q \in Procs \ {p} :
                 Apart(StartReclaim(p), handle[q]) /\ Apart(handle[q], StartReclaim(p))
<1> DEFINE h == StartReclaim(p)
<1>1. /\ Newest \in Entries /\ FilesOK(file) /\ Frames = FramesIn(Newest, file)
      /\ Records = Newest.records
  BY Basics DEF SpoolInv
<1>2. Frames \in Seq(Pairs) /\ Len(Frames) \in 0 .. MaxSeq /\ Records \in Ids \cup {NoFile}
  BY <1>1, EntryTypes
<1>3. IsSelection(PendingFrames, Pairs, Frames, PendingAt)
  BY <1>2, SelectedFrames DEF PendingFrames, PendingAt
<1>4. PendingFrames \in Seq(Pairs) /\ Len(PendingFrames) <= MaxSeq
  <2>1. PendingFrames \in Seq(Pairs) /\ Len(PendingFrames) \in 0 .. Len(Frames)
    BY <1>3 DEF IsSelection
  <2> QED
    BY <1>2, <2>1, SpoolAssumption
<1>5. Closed \in Handles
  BY ClosedHandle
<1>6. /\ h \in Handles /\ h.step = "stage" /\ h.wants = {} /\ h.then = "idle" /\ h.copy = NoFile
      /\ h.kept = PendingFrames
  <2>1. Closed.wants = {} /\ Closed.then = "idle" /\ Closed.copy = NoFile
    BY DEF Closed
  <2>2. h = [Closed EXCEPT !.step = "stage", !.id = Records, !.kept = PendingFrames,
                           !.length = Len(Frames)]
    BY DEF StartReclaim
  <2> QED
    BY <1>2, <1>4, <1>5, <2>1, <2>2 DEF Handles, Steps
<1> HIDE DEF h
<1>7. HandleOK(h, p, fl, E, l, x, ls, lk, as)
  BY <1>6 DEF HandleOK, WantsOK, ClaimOK, AckOK, BarrierOK, CopyOK, ControlOK
<1>8. \A q \in Procs \ {p} : Apart(h, handle[q]) /\ Apart(handle[q], h)
  BY <1>6, ApartFromIdle
<1> QED
  BY <1>4, <1>6, <1>7, <1>8 DEF h

\* Loading the spool takes nothing from anybody.
LEMMA LoadWithheld ==
    ASSUME SpoolInv, NEW p \in Procs, Load, file' = Repaired, extent' = RepairedExtent,
           lock' = lock, directory' = directory, asked \subseteq asked',
           \A q \in Procs \ {p} : handle'[q] = handle[q]
    PROVE  /\ Withheld(p, {}) /\ FilesOK(file')
           /\ extent' \in [id : Ids \cup {NoFile}, synced : 0 .. MaxSeq]
           /\ ExtentOK(extent', Named', Newest', file')
           /\ Named' = Named /\ Newest' = Newest
<1>1. lease = Nobody /\ (Torn => lock = Nobody)
  BY DEF Load
<1>2. /\ FilesOK(Repaired)
      /\ \A i \in Ids : Repaired[i].frames = file[i].frames /\ file[i].synced <= Repaired[i].synced
      /\ \A i \in Ids : i # Records => Repaired[i] = file[i]
      /\ RepairedExtent \in {extent, NoExtent}
      /\ RepairedExtent \in [id : Ids \cup {NoFile}, synced : 0 .. MaxSeq]
      /\ RepairedExtent # extent => lock = Nobody
      /\ ExtentOK(RepairedExtent, Named, Newest, Repaired)
  BY <1>1, Repairs
<1>3. Named' = Named /\ Newest' = Newest
  BY DEF Named, Newest
<1>4. \A q \in Procs : handle[q].step = "swap" => handle[q].copy \in Ids /\ handle[q].copy # Records
  BY Basics DEF SpoolInv, HandlesOK, HandleOK, CopyOK
<1>5. NoExtent.id = NoFile /\ NoFile \notin Ids
  BY SpoolAssumption DEF NoExtent
<1>6. Withheld(p, {})
  BY <1>1, <1>2, <1>4, <1>5 DEF Withheld
<1> QED
  BY <1>2, <1>3, <1>6

LEMMA AckReturnsKeeps ==
    ASSUME SpoolInv, NEW p \in Procs, AckReturns(p)
    PROVE  SpoolInv'
<1>1. /\ handle[p].step = "return" /\ Load
      /\ file' = Repaired /\ extent' = RepairedExtent /\ settled' = settled \cup handle[p].acks
      /\ directory' = directory /\ lock' = lock /\ committed' = committed /\ asked' = asked
  BY DEF AckReturns
<1>2. /\ SpoolTypeOK /\ handle[p] \in Handles
      /\ HandleOK(handle[p], p, file, Named, Newest, extent, lease, lock, asked)
  BY Mover
<1>3. \/ handle' = [handle EXCEPT ![p] = StartReclaim(p)] /\ lease' = lease
      \/ handle' = [handle EXCEPT ![p] = Reopened] /\ lease' = p
  BY DEF AckReturns
<1>4. \A q \in Procs \ {p} : handle'[q] = handle[q]
  BY <1>2, <1>3 DEF SpoolTypeOK
<1>5. /\ Withheld(p, {}) /\ FilesOK(file')
      /\ extent' \in [id : Ids \cup {NoFile}, synced : 0 .. MaxSeq]
      /\ ExtentOK(extent', Named', Newest', file')
      /\ Named' = Named /\ Newest' = Newest
  BY <1>1, <1>4, LoadWithheld
<1>6. /\ \A f \in settled' \ settled : \A e \in Named' : Settled(e.meta, f[1])
      /\ settled' \subseteq Pairs
  BY <1>1, <1>2, <1>5 DEF HandleOK, BarrierOK, SpoolTypeOK, Handles
<1>7. CASE handle' = [handle EXCEPT ![p] = StartReclaim(p)] /\ lease' = lease
  <2>1. /\ StartReclaim(p) \in Handles /\ Len(StartReclaim(p).kept) <= MaxSeq
        /\ HandleOK(StartReclaim(p), p, file', Named', Newest', extent', lease', lock', asked')
        /\ \A q \in Procs \ {p} :
              Apart(StartReclaim(p), handle[q]) /\ Apart(handle[q], StartReclaim(p))
    BY ReclaimingHandle
  <2> QED
    BY <1>1, <1>2, <1>5, <1>6, <1>7, <2>1, MovingKeeps DEF SpoolTypeOK
<1>8. CASE handle' = [handle EXCEPT ![p] = Reopened] /\ lease' = p
  <2>1. /\ Reopened \in Handles /\ Len(Reopened.kept) <= MaxSeq
        /\ HandleOK(Reopened, p, file', Named', Newest', extent', lease', lock', asked')
    BY <1>8, ClosedHandle, BoundsAreNatural
  <2>2. Reopened.step = "open" /\ Reopened.copy = NoFile
    BY DEF Reopened, Closed
  <2>3. \A q \in Procs \ {p} : Apart(Reopened, handle[q]) /\ Apart(handle[q], Reopened)
    BY <2>1, <2>2, ApartFromIdle
  <2> QED
    BY <1>1, <1>2, <1>5, <1>6, <1>8, <2>1, <2>3, MovingKeeps DEF SpoolTypeOK
<1> QED
  BY <1>3, <1>7, <1>8

LEMMA ReclaimForAppendKeeps ==
    ASSUME SpoolInv, NEW p \in Procs, NEW e \in Events, ReclaimForAppend(p, e)
    PROVE  SpoolInv'
<1>1. /\ handle[p].step = "open" /\ lease' = Nobody
      /\ handle' = [handle EXCEPT ![p] = StartReclaim(p)]
      /\ file' = file /\ directory' = directory /\ extent' = extent /\ lock' = lock
      /\ committed' = committed /\ asked' = asked /\ settled' = settled
  BY DEF ReclaimForAppend, disk, told
<1>2. SpoolTypeOK /\ lease = p
  BY <1>1, Mover DEF ControlOK
<1>3. \A q \in Procs \ {p} : handle'[q] = handle[q]
  BY <1>1, <1>2 DEF SpoolTypeOK
<1>4. Withheld(p, {}) /\ FilesOK(file')
  BY <1>1, <1>2, <1>3, DiskWithheld
<1>5. /\ extent' \in [id : Ids \cup {NoFile}, synced : 0 .. MaxSeq]
      /\ ExtentOK(extent', Named', Newest', file')
  BY <1>1, <1>4, ExtentStands
<1>6. /\ StartReclaim(p) \in Handles /\ Len(StartReclaim(p).kept) <= MaxSeq
      /\ HandleOK(StartReclaim(p), p, file', Named', Newest', extent', lease', lock', asked')
      /\ \A q \in Procs \ {p} :
            Apart(StartReclaim(p), handle[q]) /\ Apart(handle[q], StartReclaim(p))
  BY ReclaimingHandle
<1> QED
  BY <1>1, <1>2, <1>4, <1>5, <1>6, MovingKeeps DEF SpoolTypeOK

LEMMA StageReclaimKeeps ==
    ASSUME SpoolInv, NEW p \in Procs, StageReclaim(p)
    PROVE  SpoolInv'
<1>1. /\ handle[p].step = "stage" /\ lock = Nobody /\ extent' = NoExtent
      /\ directory' = directory /\ lease' = lease /\ lock' = lock
      /\ committed' = committed /\ asked' = asked /\ settled' = settled
  BY DEF StageReclaim, locks, told
<1> DEFINE c == [frames |-> handle[p].kept, torn |-> FALSE, synced |-> Len(handle[p].kept)]
           H(id) == [handle[p] EXCEPT !.step = "swap", !.copy = id]
<1>2. PICK id \in Ids : /\ Unnamed(id) /\ file' = [file EXCEPT ![id] = c]
                        /\ handle' = [handle EXCEPT ![p] = H(id)]
  BY DEF StageReclaim
<1> DEFINE h == H(id)
<1>3. /\ SpoolTypeOK /\ ControlOK(handle[p], p, Newest, lease, lock)
      /\ handle[p] \in Handles /\ Len(handle[p].kept) <= MaxSeq
  BY Mover
<1>4. handle[p].wants = {} /\ handle[p].then # "meta"
  BY <1>1, <1>3 DEF ControlOK
<1>5. /\ h \in Handles /\ h.step = "swap" /\ h.wants = {} /\ h.then = handle[p].then
      /\ h.copy = id /\ h.kept = handle[p].kept
  BY <1>3, <1>4 DEF Handles, Steps
<1>6. /\ handle[p].kept \in Seq(Pairs) /\ Len(handle[p].kept) \in 0 .. MaxSeq
  <2>1. handle[p].kept \in Seq(Pairs)
    BY <1>3 DEF Handles
  <2> QED
    BY <1>3, <2>1, FrameTypes, SpoolAssumption
<1>7. /\ c \in Files /\ c.frames = handle[p].kept /\ c.synced = Len(handle[p].kept)
      /\ c = [frames |-> h.kept, synced |-> Len(h.kept), torn |-> FALSE]
  BY <1>5, <1>6 DEF Files
<1> HIDE DEF c, H
<1>8. FilesOK(file) /\ file \in [Ids -> Files] /\ Named \subseteq Entries /\ Newest \in Named
  BY <1>3, Basics DEF FilesOK
<1>9. file' \in [Ids -> Files] /\ file'[id] = c /\ \A i \in Ids \ {id} : file'[i] = file[i]
  BY <1>2, <1>7, <1>8
<1>10. FilesOK(file')
  <2> SUFFICES ASSUME NEW i \in Ids
               PROVE  file'[i].synced <= Len(file'[i].frames) /\ Len(file'[i].frames) <= MaxSeq
    BY <1>9 DEF FilesOK
  <2>1. CASE i = id
    BY <1>6, <1>7, <1>9, <2>1
  <2>2. CASE i # id
    BY <1>8, <1>9, <2>2 DEF FilesOK
  <2> QED
    BY <2>1, <2>2
<1>11. \A q \in Procs \ {p} : handle'[q] = handle[q]
  BY <1>2, <1>3 DEF SpoolTypeOK
<1>12. \A e \in Named : e.records # id
  BY <1>2 DEF Unnamed, Named, ToSet
<1>13. \A q \in Procs : /\ handle[q].copy # id
                        /\ ~(handle[q].step \in {"data", "extent"} /\ handle[q].id = id)
  BY <1>2 DEF Unnamed
<1>14. NoExtent.id = NoFile /\ NoFile \notin Ids
  BY SpoolAssumption DEF NoExtent
<1>15. \A q \in Procs : handle[q].step = "swap" => handle[q].copy \in Ids
  BY DEF SpoolInv, HandlesOK, HandleOK, CopyOK
<1>16. Withheld(p, {id})
  <2>1. \A i \in Ids : file[i].synced <= file[i].synced
    BY <1>8 DEF Files
  <2> QED
    BY <1>1, <1>9, <1>11, <1>12, <1>13, <1>14, <1>15, <2>1 DEF Withheld
<1>17. /\ extent' \in [id : Ids \cup {NoFile}, synced : 0 .. MaxSeq]
       /\ ExtentOK(extent', Named', Newest', file')
  <2>1. NoExtent \in [id : Ids \cup {NoFile}, synced : 0 .. MaxSeq]
    BY SpoolAssumption DEF NoExtent
  <2> QED
    BY <1>1, <2>1, ExtentForgotten
<1>18. Named' = Named /\ Newest' = Newest
  BY <1>1 DEF Named, Newest
<1> HIDE DEF h
<1>19. CopyOK(h, file', Named', extent')
  BY <1>1, <1>5, <1>7, <1>9, <1>12, <1>14, <1>18 DEF CopyOK
<1>20. HandleOK(h, p, file', Named', Newest', extent', lease', lock', asked')
  BY <1>4, <1>5, <1>19 DEF HandleOK, WantsOK, ClaimOK, AckOK, BarrierOK, ControlOK
<1>21. \A q \in Procs \ {p} : Apart(h, handle[q]) /\ Apart(handle[q], h)
  BY <1>5, <1>13 DEF Apart
<1>22. handle' = [handle EXCEPT ![p] = h]
  BY <1>2 DEF h
<1> QED
  BY <1>1, <1>3, <1>5, <1>10, <1>16, <1>17, <1>20, <1>21, <1>22, MovingKeeps DEF SpoolTypeOK

\* normalize_acknowledgements moves the position and settles nothing else.
LEMMA NormalizedSettles ==
    ASSUME NEW m \in Metas
    PROVE  /\ Normalized(m) \in Metas /\ Normalized(m).next = m.next
           /\ \A s \in 1 .. MaxSeq : Settled(Normalized(m), s) <=> Settled(m, s)
<1> DEFINE T == {i \in m.through .. m.next - 1 : (m.through + 1) .. i \subseteq m.acked}
           t == Max(T)
           n == [m EXCEPT !.through = t, !.acked = {s \in m.acked : s > t}]
<1>1. /\ MaxSeq \in Nat /\ m.through \in 0 .. MaxSeq /\ m.next \in 1 .. MaxSeq + 1
      /\ m.acked \in SUBSET (1 .. MaxSeq) /\ m.through < m.next
      /\ m.acked \subseteq (m.through + 1) .. (m.next - 1)
  BY SpoolAssumption DEF Metas
<1>2. m.through \in T /\ T \in SUBSET (0 .. MaxSeq)
  BY <1>1
<1>3. t \in T
  <2> HIDE DEF T
  <2> QED
    BY <1>1, <1>2, GreatestNatural
<1>4. /\ t \in m.through .. m.next - 1 /\ (m.through + 1) .. t \subseteq m.acked
      /\ t \in 0 .. MaxSeq
  <2> HIDE DEF t
  <2> QED
    BY <1>1, <1>3
<1>5. Normalized(m) = n
  BY DEF Normalized
<1> HIDE DEF t
<1>6. m \in [through : 0 .. MaxSeq, next : 1 .. MaxSeq + 1, acked : SUBSET (1 .. MaxSeq)]
  BY DEF Metas
<1>7. /\ n.through = t /\ n.next = m.next /\ n.acked = {s \in m.acked : s > t}
      /\ n \in [through : 0 .. MaxSeq, next : 1 .. MaxSeq + 1, acked : SUBSET (1 .. MaxSeq)]
  BY <1>1, <1>4, <1>6
<1> HIDE DEF n, T
<1>8. n \in Metas
  <2>1. t < m.next
    BY <1>1, <1>4
  <2>2. {s \in m.acked : s > t} \subseteq (t + 1) .. (m.next - 1)
    BY <1>1, <1>4
  <2> QED
    BY <1>7, <2>1, <2>2 DEF Metas
<1>9. ASSUME NEW s \in 1 .. MaxSeq
      PROVE  Settled(n, s) <=> Settled(m, s)
  <2>1. s <= t => s <= m.through \/ s \in (m.through + 1) .. t
    BY <1>1, <1>4
  <2>2. s <= m.through => s <= t
    BY <1>1, <1>4
  <2>3. s <= t \/ s > t
    BY <1>1, <1>4
  <2> QED
    BY <1>4, <1>7, <2>1, <2>2, <2>3 DEF Settled
<1> QED
  BY <1>5, <1>7, <1>8, <1>9

\* What an open reads: the frames the metadata does not know follow it without
\* a gap, and the next append takes the sequence after the last of them.
LEMMA SequenceFacts ==
    ASSUME SpoolInv
    PROVE  /\ Frames \in Seq(Pairs) /\ Meta \in Metas /\ Len(Frames) \in 0 .. MaxSeq
           /\ Ascending(Frames) /\ Follows(Frames, Meta.next)
           /\ Durable(Meta, Frames, SyncedIn(Newest, file)) /\ Asked(Meta, Frames, asked)
           /\ SyncedIn(Newest, file) \in 0 .. Len(Frames) /\ SyncedIn(Newest, file) \in Nat
           /\ Contiguous
           /\ NextSequence = End(Frames, Meta.next)
           /\ NextSequence \in Meta.next .. MaxSeq + 1
           /\ Len(Frames) < NextSequence
           /\ \A i \in DOMAIN Frames : Frames[i][1] < NextSequence
           /\ \A s \in Meta.next .. NextSequence - 1 : \E i \in DOMAIN Frames : Frames[i][1] = s
<1>1. /\ FilesOK(file) /\ Newest \in Named /\ Newest \in Entries
      /\ Meta = Newest.meta /\ Frames = FramesIn(Newest, file)
  BY Basics DEF SpoolInv
<1>2. /\ Frames \in Seq(Pairs) /\ Meta \in Metas /\ Len(Frames) \in 0 .. MaxSeq
      /\ SyncedIn(Newest, file) \in 0 .. Len(Frames) /\ SyncedIn(Newest, file) \in Nat
  BY <1>1, EntryTypes
<1>3. EntryOK(Newest, file, asked)
  BY <1>1 DEF SpoolInv, EntriesOK
<1>4. /\ Ascending(Frames) /\ Follows(Frames, Meta.next)
      /\ Durable(Meta, Frames, SyncedIn(Newest, file)) /\ Asked(Meta, Frames, asked)
  BY <1>1, <1>3 DEF EntryOK
<1>5. Meta.next \in Nat \ {0} /\ Meta.next \in 1 .. MaxSeq + 1
  BY <1>2, MetaTypes, SpoolAssumption
<1>6. Unrecorded = {i \in DOMAIN Frames : Frames[i][1] >= Meta.next}
  BY DEF Unrecorded
<1>7. /\ Meta.next + Cardinality(Unrecorded) = End(Frames, Meta.next)
      /\ \A i \in Unrecorded :
            Frames[i][1] = Meta.next + Cardinality({j \in Unrecorded : j < i})
      /\ End(Frames, Meta.next) \in Nat /\ Meta.next <= End(Frames, Meta.next)
      /\ Len(Frames) < End(Frames, Meta.next)
      /\ \A i \in DOMAIN Frames : Frames[i][1] < End(Frames, Meta.next)
      /\ \A s \in Meta.next .. End(Frames, Meta.next) - 1 : \E i \in DOMAIN Frames : Frames[i][1] = s
  <2>1. Counted(Frames, Meta.next, Unrecorded)
    BY <1>2, <1>4, <1>5, <1>6, UnknownFrames
  <2> QED
    BY <1>2, <1>4, <1>5, <2>1, EndFacts DEF Counted
<1>8. End(Frames, Meta.next) <= MaxSeq + 1
  <2>1. CASE Len(Frames) > 0 /\ Frames[Len(Frames)][1] >= Meta.next
    <3>1. Len(Frames) \in DOMAIN Frames
      BY <1>2, <2>1, FrameTypes
    <3>2. Frames[Len(Frames)][1] \in 1 .. MaxSeq
      BY <1>2, <3>1, FrameTypes
    <3> QED
      BY <2>1, <3>2, SpoolAssumption DEF End
  <2>2. CASE ~(Len(Frames) > 0 /\ Frames[Len(Frames)][1] >= Meta.next)
    BY <1>5, <2>2, SpoolAssumption DEF End
  <2> QED
    BY <2>1, <2>2
<1>9. NextSequence = End(Frames, Meta.next) /\ Contiguous
  BY <1>7 DEF NextSequence, Contiguous
<1>10. NextSequence \in Meta.next .. MaxSeq + 1
  BY <1>5, <1>7, <1>8, <1>9, SpoolAssumption
<1> QED
  BY <1>2, <1>4, <1>7, <1>9, <1>10

LEMMA AcknowledgeKeeps ==
    ASSUME SpoolInv, NEW p \in Procs, NEW S \in SUBSET {Frames[i] : i \in PendingAt},
           Acknowledge(p, S)
    PROVE  SpoolInv'
<1> DEFINE m == [Meta EXCEPT !.next = NextSequence, !.acked = Meta.acked \cup {f[1] : f \in S}]
           n == Normalized(m)
           h == [handle[p] EXCEPT !.step = "sync", !.then = "meta", !.id = Records,
                                  !.end = Len(Frames), !.base = Meta, !.acks = S, !.next = n]
<1>1. /\ handle[p].step = "open" /\ handle[p].wants = {} /\ S # {}
      /\ handle' = [handle EXCEPT ![p] = h]
      /\ asked' = asked \cup S /\ lease' = Nobody
      /\ file' = file /\ directory' = directory /\ extent' = extent /\ lock' = lock
      /\ committed' = committed /\ settled' = settled
  BY DEF Acknowledge, disk, SettlementStarts
<1>2. /\ SpoolTypeOK /\ ControlOK(handle[p], p, Newest, lease, lock) /\ lease = p
      /\ handle[p] \in Handles /\ Len(handle[p].kept) <= MaxSeq
  BY <1>1, Mover DEF ControlOK
<1>3. /\ FilesOK(file) /\ Newest \in Entries /\ Records = Newest.records
      /\ Meta = Newest.meta /\ Frames = FramesIn(Newest, file)
  BY <1>2, Basics
<1>4. /\ Frames \in Seq(Pairs) /\ Meta \in Metas /\ Len(Frames) \in 0 .. MaxSeq
      /\ Ascending(Frames) /\ Durable(Meta, Frames, SyncedIn(Newest, file))
      /\ SyncedIn(Newest, file) \in 0 .. Len(Frames) /\ SyncedIn(Newest, file) \in Nat
      /\ NextSequence \in Meta.next .. MaxSeq + 1
      /\ \A i \in DOMAIN Frames : Frames[i][1] < NextSequence
      /\ \A s \in Meta.next .. NextSequence - 1 : \E i \in DOMAIN Frames : Frames[i][1] = s
  BY SequenceFacts
<1>5. /\ DOMAIN Frames = 1 .. Len(Frames) /\ Len(Frames) \in Nat
      /\ \A i \in DOMAIN Frames : Frames[i] \in Pairs /\ Frames[i][1] \in 1 .. MaxSeq
  BY <1>4, FrameTypes
<1>6. \A f \in S : \E i \in DOMAIN Frames : f = Frames[i] /\ ~Settled(Meta, Frames[i][1])
  BY DEF PendingAt
<1>7. S \subseteq Pairs /\ \A f \in S : f[1] \in 1 .. MaxSeq
  BY <1>5, <1>6
<1>8. /\ MaxSeq \in Nat /\ Meta.through \in 0 .. MaxSeq /\ Meta.next \in 1 .. MaxSeq + 1
      /\ Meta.acked \in SUBSET (1 .. MaxSeq) /\ Meta.through < Meta.next
      /\ Meta.acked \subseteq (Meta.through + 1) .. (Meta.next - 1)
      /\ Meta \in [through : 0 .. MaxSeq, next : 1 .. MaxSeq + 1, acked : SUBSET (1 .. MaxSeq)]
  BY <1>4, SpoolAssumption DEF Metas
<1>9. m \in Metas /\ m.through = Meta.through /\ m.next = NextSequence
      /\ m.acked = Meta.acked \cup {f[1] : f \in S}
  <2>1. /\ m.through = Meta.through /\ m.next = NextSequence
        /\ m.acked = Meta.acked \cup {f[1] : f \in S}
    BY <1>8
  <2>2. m \in [through : 0 .. MaxSeq, next : 1 .. MaxSeq + 1, acked : SUBSET (1 .. MaxSeq)]
    <3>1. NextSequence \in 1 .. MaxSeq + 1
      BY <1>4, <1>8
    <3>2. Meta.acked \cup {f[1] : f \in S} \in SUBSET (1 .. MaxSeq)
      BY <1>7, <1>8
    <3> QED
      BY <1>8, <3>1, <3>2
  <2>3. m.through < m.next
    BY <1>4, <1>8, <2>1
  <2>4. ASSUME NEW s \in m.acked
        PROVE  s \in (m.through + 1) .. (m.next - 1)
    <3>1. CASE s \in Meta.acked
      BY <1>4, <1>8, <2>1, <3>1
    <3>2. CASE s \in {f[1] : f \in S}
      <4>1. PICK i \in DOMAIN Frames : s = Frames[i][1] /\ ~Settled(Meta, Frames[i][1])
        BY <1>6, <3>2
      <4>2. s \in 1 .. MaxSeq /\ s < NextSequence /\ ~(s <= Meta.through)
        BY <1>4, <1>5, <4>1 DEF Settled
      <4> QED
        BY <1>4, <1>8, <2>1, <4>2
    <3> QED
      BY <2>1, <2>4, <3>1, <3>2
  <2> HIDE DEF m
  <2>5. m.acked \subseteq (m.through + 1) .. (m.next - 1)
    BY <2>4
  <2> QED
    BY <2>1, <2>2, <2>3, <2>5 DEF Metas
<1> HIDE DEF m
<1>10. /\ n \in Metas /\ n.next = NextSequence
       /\ \A s \in 1 .. MaxSeq : Settled(n, s) <=> Settled(m, s)
  BY <1>9, NormalizedSettles
<1>11. \A s \in 1 .. MaxSeq :
          Settled(n, s) <=> Settled(Meta, s) \/ \E f \in S : f[1] = s
  BY <1>9, <1>10 DEF Settled
<1> HIDE DEF n
<1>12. Records \in Ids \cup {NoFile} /\ Records # NoFile
  <2>1. PICK f \in S : TRUE
    BY <1>1
  <2>2. PICK i \in DOMAIN Frames : TRUE
    BY <1>6, <2>1
  <2>3. Frames # <<>>
    BY <1>5, <2>2
  <2> QED
    BY <1>3, <2>3 DEF Frames, Entries
<1>13. /\ h \in Handles /\ h.step = "sync" /\ h.then = "meta" /\ h.id = Records
       /\ h.end = Len(Frames) /\ h.base = Meta /\ h.acks = S /\ h.next = n
       /\ h.wants = {} /\ h.copy = handle[p].copy /\ h.kept = handle[p].kept
  BY <1>1, <1>2, <1>4, <1>7, <1>10, <1>12 DEF Handles, Steps
<1> HIDE DEF h
<1>14. \A q \in Procs \ {p} : handle'[q] = handle[q]
  BY <1>1, <1>2 DEF SpoolTypeOK
<1>15. Withheld(p, {}) /\ FilesOK(file')
  BY <1>1, <1>2, <1>14, DiskWithheld
<1>16. /\ extent' \in [id : Ids \cup {NoFile}, synced : 0 .. MaxSeq]
       /\ ExtentOK(extent', Named', Newest', file')
  BY <1>1, <1>15, ExtentStands
<1>17. Named' = Named /\ Newest' = Newest /\ h.copy = NoFile
  BY <1>1, <1>2, <1>13 DEF Named, Newest, ControlOK
<1>18. AckBase(h, Newest, asked')
  <2>1. \A f \in S : ~Settled(Meta, f[1]) /\ Settled(n, f[1])
    BY <1>6, <1>7, <1>11
  <2>2. Extends(n, Meta)
    BY <1>4, <1>8, <1>10, <1>11 DEF Extends
  <2>3. Extends(Meta, Meta)
    BY <1>8 DEF Extends
  <2> QED
    BY <1>1, <1>3, <1>13, <2>1, <2>2, <2>3 DEF AckBase
<1>19. AckStands(h, file, Newest)
  <2>1. ASSUME NEW i \in DOMAIN Frames, Settled(n, Frames[i][1])
        PROVE  Settled(Meta, Frames[i][1]) \/ Frames[i] \in S
    <3>1. CASE \E f \in S : f[1] = Frames[i][1]
      <4>1. PICK f \in S : f[1] = Frames[i][1]
        BY <3>1
      <4>2. PICK j \in DOMAIN Frames : f = Frames[j]
        BY <1>6
      <4>3. i = j
        <5>1. i \in Nat /\ j \in Nat /\ Frames[i][1] \in Nat /\ Frames[i][1] = Frames[j][1]
          BY <1>5, <4>1, <4>2
        <5>2. ~(i < j) /\ ~(j < i)
          BY <1>4, <5>1 DEF Ascending
        <5> QED
          BY <5>1, <5>2
      <4> QED
        BY <4>2, <4>3
    <3> QED
      BY <1>5, <1>11, <2>1, <3>1
  <2>2. ASSUME NEW s \in 1 .. n.next - 1
        PROVE  \/ Settled(Meta, s)
               \/ \E i \in DOMAIN Frames : Frames[i][1] = s /\ Reached(h, Newest, file, i)
    <3>1. CASE s < Meta.next
      <4>1. s \in 1 .. Meta.next - 1
        BY <1>8, <1>4, <1>10, <3>1
      <4>2. Settled(Meta, s) \/ \E i \in 1 .. SyncedIn(Newest, file) : Frames[i][1] = s
        BY <1>4, <4>1 DEF Durable
      <4>3. ASSUME NEW i \in 1 .. SyncedIn(Newest, file), Frames[i][1] = s
            PROVE  i \in DOMAIN Frames /\ Reached(h, Newest, file, i)
        BY <1>4, <1>5 DEF Reached
      <4> QED
        BY <4>2, <4>3
    <3>2. CASE ~(s < Meta.next)
      <4>1. s \in Meta.next .. NextSequence - 1
        BY <1>4, <1>8, <1>10, <3>2
      <4>2. PICK i \in DOMAIN Frames : Frames[i][1] = s
        BY <1>4, <4>1
      <4>3. i <= h.end
        BY <1>5, <1>13
      <4>4. Reached(h, Newest, file, i)
        BY <1>3, <1>13, <4>3 DEF Reached
      <4> QED
        BY <4>2, <4>4
    <3> QED
      BY <3>1, <3>2
  <2> QED
    BY <1>3, <1>13, <2>1, <2>2 DEF AckStands
<1>20. AckOK(h, file', Newest', asked')
  BY <1>1, <1>17, <1>18, <1>19 DEF AckOK
<1>21. ControlOK(h, p, Newest', lease', lock')
  BY <1>3, <1>12, <1>13, <1>17 DEF ControlOK
<1>22. HandleOK(h, p, file', Named', Newest', extent', lease', lock', asked')
  BY <1>13, <1>20, <1>21 DEF HandleOK, WantsOK, ClaimOK, BarrierOK, CopyOK
<1>23. \A q \in Procs \ {p} : Apart(h, handle[q]) /\ Apart(handle[q], h)
  BY <1>13, <1>17, ApartFromIdle
<1>24. asked' \subseteq Pairs
  BY <1>1, <1>2, <1>7 DEF SpoolTypeOK
<1> QED
  BY <1>1, <1>2, <1>13, <1>15, <1>16, <1>22, <1>23, <1>24, MovingKeeps DEF SpoolTypeOK

\* Back at an open spool, with nothing in hand.
LEMMA ReopeningKeeps ==
    ASSUME SpoolInv, NEW p \in Procs, NEW D, Withheld(p, D), FilesOK(file'),
           extent' \in [id : Ids \cup {NoFile}, synced : 0 .. MaxSeq],
           ExtentOK(extent', Named', Newest', file'),
           handle' = [handle EXCEPT ![p] = Reopened],
           lease' = p, lock' = lock, asked' = asked, committed' = committed, settled' = settled
    PROVE  SpoolInv'
<1>1. /\ Reopened \in Handles /\ Len(Reopened.kept) <= MaxSeq
      /\ HandleOK(Reopened, p, file', Named', Newest', extent', lease', lock', asked')
  BY ClosedHandle, SpoolAssumption
<1>2. Reopened.step = "open" /\ Reopened.copy = NoFile
  BY DEF Reopened, Closed
<1>3. \A q \in Procs \ {p} : Apart(Reopened, handle[q]) /\ Apart(handle[q], Reopened)
  BY <1>1, <1>2, ApartFromIdle
<1>4. SpoolTypeOK
  BY DEF SpoolInv
<1> QED
  BY <1>1, <1>3, <1>4, MovingKeeps DEF SpoolTypeOK

-----------------------------------------------------------------------------
(* Steps that publish a new entry.                                         *)

\* What a handle held of the entry l it holds of the entry n put after it.
Passes(h, l, n, E, fl, as) ==
    /\ h.step # "open"
    /\ h.step = "swap" => h.copy # n.records
    /\ l.records # NoFile => n.records # NoFile
    /\ \A e \in E : e.records = n.records => e.records = l.records
    /\ \A f \in h.wants : Held(h, f, l, fl, as) => Held(h, f, n, fl, as)
    /\ h.then = "meta" /\ h.base = n.meta => AckStands(h, fl, n)

LEMMA HandleSuperseded ==
    ASSUME NEW h \in Handles, NEW p, NEW fl, NEW E \in SUBSET Entries, NEW l \in E,
           NEW n \in Entries, NEW x, NEW ls, NEW lk, NEW as,
           HandleOK(h, p, fl, E, l, x, ls, lk, as),
           Passes(h, l, n, E, fl, as), Extends(n.meta, l.meta)
    PROVE  HandleOK(h, p, fl, E \cup {n}, n, x, ls, lk, as)
<1>0. n.meta \in Metas /\ l.meta \in Metas /\ h.base \in Metas /\ h.acks \subseteq Pairs
  BY DEF Entries, Handles
<1>1. WantsOK(h, fl, E \cup {n}, n, x, as)
  <2> SUFFICES ASSUME NEW f \in h.wants, NEW e \in E \cup {n}, Concerns(h, e, n, x)
               PROVE  Held(h, f, e, fl, as)
    BY DEF WantsOK
  <2>1. Held(h, f, l, fl, as)
    BY DEF HandleOK, WantsOK, Concerns
  <2>2. CASE e = n
    BY <2>1, <2>2 DEF Passes
  <2>3. CASE e \in E
    <3>1. Concerns(h, e, l, x)
      BY <2>3 DEF Concerns, Passes
    <3> QED
      BY <2>3, <3>1 DEF HandleOK, WantsOK
  <2> QED
    BY <2>2, <2>3
<1>2. AckOK(h, fl, n, as)
  <2> SUFFICES ASSUME h.then = "meta"
               PROVE  AckBase(h, n, as) /\ (h.base = n.meta => AckStands(h, fl, n))
    BY DEF AckOK
  <2>1. AckBase(h, l, as)
    BY DEF HandleOK, AckOK
  <2>2. Extends(n.meta, h.base)
    <3>1. Extends(l.meta, h.base)
      BY <2>1 DEF AckBase
    <3>2. n.meta.next \in Nat /\ l.meta.next \in Nat /\ h.base.next \in Nat
      BY <1>0, MetaTypes
    <3> QED
      BY <3>1, <3>2 DEF Extends
  <2> QED
    BY <2>1, <2>2 DEF AckBase, Passes
<1>3. BarrierOK(h, E \cup {n}, n)
  <2>1. \A f \in h.acks : f[1] \in 1 .. MaxSeq
    BY <1>0 DEF Pairs
  <2>2. \A f \in h.acks : Settled(l.meta, f[1]) => Settled(n.meta, f[1])
    BY <2>1 DEF Extends
  <2> QED
    BY <2>2 DEF HandleOK, BarrierOK
<1>4. ClaimOK(h, fl) /\ CopyOK(h, fl, E \cup {n}, x)
  BY DEF HandleOK, CopyOK, Passes
<1>5. ControlOK(h, p, n, ls, lk)
  BY DEF HandleOK, ControlOK, Passes
<1> QED
  BY <1>1, <1>2, <1>3, <1>4, <1>5 DEF HandleOK

\* A step of p that publishes the entry n and leaves what is named as it is.
Publishes(p, n) ==
    /\ directory' = Append(directory, n)
    /\ asked' = asked /\ committed' = committed /\ settled' = settled
    /\ \A e \in Named : Kept(e, file, file')
    /\ \A q \in Procs \ {p} : Undisturbed(q) /\ Passes(handle[q], Newest, n, Named, file', asked)
    /\ Extends(n.meta, Newest.meta)
    /\ EntryOK(n, file', asked)
    /\ \A e \in Named : SameEnd(e, n, file')
    /\ \A f \in Pairs : Safe(f, Newest, file', asked) => Safe(f, n, file', asked)

LEMMA PublishingKeeps ==
    ASSUME SpoolInv, NEW p \in Procs, NEW n \in Entries, Publishes(p, n), FilesOK(file'),
           NEW h \in Handles, Len(h.kept) <= MaxSeq, handle' = [handle EXCEPT ![p] = h],
           extent' \in [id : Ids \cup {NoFile}, synced : 0 .. MaxSeq],
           lease' \in Procs \cup {Nobody}, lock' \in Procs \cup {Nobody},
           ExtentOK(extent', Named \cup {n}, n, file'),
           HandleOK(h, p, file', Named \cup {n}, n, extent', lease', lock', asked),
           \A q \in Procs \ {p} : Apart(h, handle[q]) /\ Apart(handle[q], h)
    PROVE  SpoolInv'
<1>1. /\ FilesOK(file) /\ Named \in SUBSET Entries /\ Newest \in Named /\ Newest \in Entries
      /\ SpoolTypeOK /\ directory \in Seq(Entries) /\ directory # <<>>
  BY Basics DEF SpoolInv, SpoolTypeOK
<1>2. /\ directory' \in Seq(Entries) /\ directory' # <<>>
      /\ Named' = Named \cup {n} /\ Newest' = n
  BY <1>1, DirectoryAppended DEF Publishes, Named, Newest
<1>3. /\ handle' \in [Procs -> Handles] /\ handle'[p] = h
      /\ \A q \in Procs \ {p} : handle'[q] = handle[q]
      /\ \A q \in Procs : Len(handle'[q].kept) <= MaxSeq
  BY <1>1, HandleMoved
<1>4. SpoolTypeOK'
  BY <1>1, <1>2, <1>3 DEF SpoolTypeOK, FilesOK, Publishes
<1>5. asked' = asked /\ committed' = committed /\ settled' = settled
  BY DEF Publishes
<1>6. \A e \in Named : Kept(e, file, file')
  BY DEF Publishes
<1>7. EntriesOK'
  <2>1. ASSUME NEW e \in Named
        PROVE  EntryOK(e, file', asked)
    <3>1. EntryOK(e, file, asked) /\ e \in Entries /\ asked \subseteq asked
      BY <1>1 DEF SpoolInv, EntriesOK
    <3> QED
      BY <1>1, <1>6, <3>1, EntryKept
  <2>2. EntryOK(n, file', asked) /\ SameEnd(n, n, file') /\ \A e \in Named : SameEnd(e, n, file')
    BY DEF Publishes, SameEnd
  <2> QED
    BY <1>2, <1>5, <2>1, <2>2 DEF EntriesOK
<1>8. CommittedOK'
  <2>1. ASSUME NEW f \in committed, NEW e \in Named
        PROVE  Safe(f, e, file', asked)
    <3>1. Safe(f, e, file, asked) /\ e \in Entries /\ asked \subseteq asked
      BY <1>1 DEF SpoolInv, CommittedOK
    <3> QED
      BY <1>1, <1>6, <3>1, EntryKept
  <2>2. ASSUME NEW f \in committed
        PROVE  Safe(f, n, file', asked)
    <3>1. f \in Pairs
      BY <1>1 DEF SpoolTypeOK
    <3> QED
      BY <1>1, <2>1, <3>1 DEF Publishes
  <2> QED
    BY <1>2, <1>5, <2>1, <2>2 DEF CommittedOK
<1>9. SettledOK'
  <2>1. \A f \in settled : f[1] \in 1 .. MaxSeq
    BY <1>1 DEF SpoolTypeOK, Pairs
  <2>2. \A f \in settled : Settled(n.meta, f[1])
    BY <1>1, <2>1 DEF Publishes, Extends, SpoolInv, SettledOK
  <2> QED
    BY <1>2, <1>5, <2>2 DEF SpoolInv, SettledOK
<1>10. HandlesOK'
  <2> SUFFICES ASSUME NEW q \in Procs
               PROVE  HandleOK(handle'[q], q, file', Named', Newest', extent', lease', lock', asked')
    BY DEF HandlesOK
  <2>1. CASE q = p
    BY <1>2, <1>3, <1>5, <2>1
  <2>2. CASE q # p
    <3> DEFINE g == handle[q]
    <3>1. Undisturbed(q) /\ Passes(g, Newest, n, Named, file', asked) /\ Extends(n.meta, Newest.meta)
      BY <2>2 DEF Publishes
    <3>2. g \in Handles /\ HandleOK(g, q, file, Named, Newest, extent, lease, lock, asked)
      BY Mover
    <3>3. /\ g.step \in {"data", "extent"} =>
              /\ extent' = extent /\ lock' = lock
              /\ file'[g.id].frames = file[g.id].frames
              /\ file[g.id].synced <= file'[g.id].synced
          /\ g.step = "swap" => file'[g.copy] = file[g.copy] /\ extent'.id # g.copy
          /\ g.step = "open" => lease' = lease
      BY <3>1 DEF Undisturbed
    <3> HIDE DEF g
    <3>4. asked \subseteq asked /\ Named \in SUBSET Named
      OBVIOUS
    <3>5. HandleOK(g, q, file', Named, Newest, extent', lease', lock', asked)
      BY <1>1, <1>6, <3>2, <3>3, <3>4, HandleKept
    <3>6. HandleOK(g, q, file', Named \cup {n}, n, extent', lease', lock', asked)
      BY <1>1, <3>1, <3>2, <3>5, HandleSuperseded
    <3>7. handle'[q] = g
      BY <1>3, <2>2 DEF g
    <3> QED
      BY <1>2, <1>5, <3>6, <3>7
  <2> QED
    BY <2>1, <2>2
<1>11. CopiesApart'
  <2> SUFFICES ASSUME NEW q \in Procs, NEW r \in Procs, q # r
               PROVE  Apart(handle'[q], handle'[r])
    BY DEF CopiesApart
  <2>1. CASE q # p /\ r # p
    BY <1>3, <2>1 DEF SpoolInv, CopiesApart
  <2>2. CASE q = p \/ r = p
    BY <1>3, <2>2
  <2> QED
    BY <2>1, <2>2
<1>12. ExtentOK(extent', Named', Newest', file')
  BY <1>2
<1> QED
  BY <1>4, <1>7, <1>8, <1>9, <1>10, <1>11, <1>12 DEF SpoolInv

\* An acknowledgement that still stands has records to acknowledge.
LEMMA AcknowledgedFile ==
    ASSUME NEW h \in Handles, NEW fl, NEW l, NEW as, AckBase(h, l, as), AckStands(h, fl, l)
    PROVE  l.records # NoFile
<1> SUFFICES ASSUME l.records = NoFile
             PROVE  FALSE
  OBVIOUS
<1>1. FramesIn(l, fl) = <<>> /\ DOMAIN <<>> = {}
  BY DEF FramesIn
<1>2. PICK f \in h.acks : ~Settled(h.base, f[1]) /\ Settled(h.next, f[1])
  BY DEF AckBase
<1>3. f[1] \in 1 .. MaxSeq /\ h.next \in Metas /\ MaxSeq \in Nat
  BY SpoolAssumption DEF Handles, Pairs
<1>4. f[1] < h.next.next /\ h.next.next \in Nat
  BY <1>2, <1>3, MetaTypes
<1>5. f[1] \in 1 .. h.next.next - 1
  BY <1>3, <1>4
<1> QED
  BY <1>1, <1>2, <1>5 DEF AckStands

LEMMA PublishMetaKeeps ==
    ASSUME SpoolInv, NEW p \in Procs, PublishMeta(p)
    PROVE  SpoolInv'
<1> DEFINE m == handle[p].next
           n == [records |-> Records, meta |-> m]
           h == [Closed EXCEPT !.step = "barrier", !.acks = handle[p].acks]
<1>1. /\ handle[p].step = "meta" /\ Load
      /\ file' = Repaired /\ extent' = RepairedExtent
      /\ lock' = lock /\ committed' = committed /\ asked' = asked /\ settled' = settled
  BY DEF PublishMeta, told
<1>2. /\ SpoolTypeOK /\ ControlOK(handle[p], p, Newest, lease, lock) /\ handle[p] \in Handles
      /\ HandleOK(handle[p], p, file, Named, Newest, extent, lease, lock, asked)
  BY Mover
<1>3. /\ FilesOK(file) /\ Named \in SUBSET Entries /\ Newest \in Named /\ Newest \in Entries
      /\ Records = Newest.records /\ Meta = Newest.meta /\ Frames = FramesIn(Newest, file)
      /\ handle \in [Procs -> Handles]
  BY <1>2, Basics
<1>4. CASE /\ ~MetaUnchanged(p) /\ handle' = [handle EXCEPT ![p] = Reopened]
           /\ lease' = p /\ directory' = directory
  <2>1. \A q \in Procs \ {p} : handle'[q] = handle[q]
    BY <1>3, <1>4
  <2>2. /\ Withheld(p, {}) /\ FilesOK(file')
        /\ extent' \in [id : Ids \cup {NoFile}, synced : 0 .. MaxSeq]
        /\ ExtentOK(extent', Named', Newest', file')
    BY <1>1, <1>4, <2>1, LoadWithheld
  <2> QED
    BY <1>1, <1>4, <2>2, ReopeningKeeps
<1>5. CASE /\ MetaUnchanged(p) /\ directory' = Append(directory, n)
           /\ handle' = [handle EXCEPT ![p] = h] /\ lease' = lease
  <2>1. /\ AckBase(handle[p], Newest, asked) /\ AckStands(handle[p], file, Newest)
        /\ handle[p].base = Meta
    BY <1>1, <1>2, <1>3, <1>5 DEF HandleOK, AckOK, ControlOK, MetaUnchanged
  <2>2. Records # NoFile /\ Records \in Ids
    BY <1>2, <1>3, <2>1, AcknowledgedFile DEF Entries
  <2>3. m \in Metas /\ handle[p].acks \subseteq Pairs /\ handle[p].acks # {}
    BY <1>2, <2>1 DEF Handles, AckBase
  <2>4. n \in Entries /\ n.records = Records /\ n.meta = m
    BY <2>2, <2>3 DEF Entries
  <2>5. Extends(m, Meta) /\ handle[p].acks \subseteq asked
        /\ \A f \in handle[p].acks : ~Settled(Meta, f[1]) /\ Settled(m, f[1])
    BY <2>1 DEF AckBase
  <2>6. /\ h \in Handles /\ h.step = "barrier" /\ h.acks = handle[p].acks /\ h.wants = {}
        /\ h.then = "idle" /\ h.copy = NoFile /\ Len(h.kept) <= MaxSeq
    <3>1. Closed \in Handles /\ Len(Closed.kept) = 0
      BY ClosedHandle
    <3>2. Closed.wants = {} /\ Closed.then = "idle" /\ Closed.copy = NoFile
      BY DEF Closed
    <3>3. /\ h \in Handles /\ h.step = "barrier" /\ h.acks = handle[p].acks
          /\ h.wants = Closed.wants /\ h.then = Closed.then /\ h.copy = Closed.copy
          /\ h.kept = Closed.kept
      BY <2>3, <3>1 DEF Handles, Steps
    <3> QED
      BY <3>1, <3>2, <3>3, SpoolAssumption
  <2> HIDE DEF h, n, m
  <2>7. /\ Frames \in Seq(Pairs) /\ Meta \in Metas
        /\ Ascending(Frames) /\ Follows(Frames, Meta.next) /\ Asked(Meta, Frames, asked)
        /\ SyncedIn(Newest, file) \in 0 .. Len(Frames) /\ SyncedIn(Newest, file) \in Nat
        /\ DOMAIN Frames = 1 .. Len(Frames) /\ Len(Frames) \in Nat
    BY SequenceFacts, FrameTypes
  <2>8. \A i \in DOMAIN Frames :
           Settled(m, Frames[i][1]) => Settled(Meta, Frames[i][1]) \/ Frames[i] \in handle[p].acks
    BY <1>3, <2>1 DEF AckStands, m
  <2>9. ASSUME NEW s \in 1 .. m.next - 1
        PROVE  Settled(Meta, s) \/ \E i \in 1 .. SyncedIn(Newest, file) : Frames[i][1] = s
    <3>1. \/ Settled(Meta, s)
          \/ \E i \in DOMAIN Frames : Frames[i][1] = s /\ Reached(handle[p], Newest, file, i)
      BY <1>3, <2>1 DEF AckStands, m
    <3>2. \A i : Reached(handle[p], Newest, file, i) => i <= SyncedIn(Newest, file)
      BY <1>1 DEF Reached
    <3>3. \A i \in DOMAIN Frames : i <= SyncedIn(Newest, file) => i \in 1 .. SyncedIn(Newest, file)
      BY <2>7
    <3> QED
      BY <3>1, <3>2, <3>3
  <2>10. /\ Follows(Frames, m.next) /\ Durable(m, Frames, SyncedIn(Newest, file))
         /\ Asked(m, Frames, asked) /\ End(Frames, m.next) = End(Frames, Meta.next)
    <3>1. Settles(Meta, m, Frames, SyncedIn(Newest, file), handle[p].acks)
      BY <2>8, <2>9 DEF Settles
    <3> QED
      BY <2>3, <2>5, <2>7, <3>1, FramesSettled
  <2>11. \A fl : FramesIn(n, fl) = FramesIn(Newest, fl) /\ SyncedIn(n, fl) = SyncedIn(Newest, fl)
    BY <1>3, <2>4 DEF FramesIn, SyncedIn
  <2>12. EntryOK(n, file, asked)
    BY <1>3, <2>2, <2>4, <2>7, <2>10, <2>11 DEF EntryOK
  <2>13. /\ FilesOK(Repaired) /\ \A e \in Named : Kept(e, file, Repaired)
         /\ RepairedExtent \in {extent, NoExtent}
         /\ RepairedExtent \in [id : Ids \cup {NoFile}, synced : 0 .. MaxSeq]
         /\ ExtentOK(RepairedExtent, Named, Newest, Repaired)
         /\ lease = Nobody /\ Nobody \notin Procs
    BY <1>1, Repairs, SpoolAssumption DEF Load
  <2>14. Kept(n, file, Repaired) /\ Kept(Newest, file, Repaired)
    BY <1>3, <2>11, <2>13 DEF Kept
  <2>15. EntryOK(n, Repaired, asked)
    <3>1. asked \subseteq asked
      OBVIOUS
    <3> QED
      BY <1>3, <2>4, <2>12, <2>13, <2>14, <3>1, EntryKept
  <2>16. \A e \in Named : SameEnd(e, n, Repaired)
    <3> TAKE e \in Named
    <3>1. SameEnd(e, Newest, file)
      BY DEF SpoolInv, EntriesOK
    <3>2. FramesIn(n, Repaired) = Frames /\ FramesIn(Newest, file) = Frames
      BY <1>3, <2>11, <2>14 DEF Kept
    <3> QED
      BY <1>3, <2>4, <2>10, <3>1, <3>2 DEF SameEnd
  <2>17. \A f \in Pairs : Settled(Meta, f[1]) => Settled(m, f[1])
    BY <2>5 DEF Extends, Pairs
  <2>18. \A f \in Pairs : Safe(f, Newest, Repaired, asked) => Safe(f, n, Repaired, asked)
    BY <1>3, <2>4, <2>11, <2>17 DEF Safe
  <2>19. ASSUME NEW q \in Procs \ {p}
         PROVE  Undisturbed(q) /\ Passes(handle[q], Newest, n, Named, Repaired, asked)
    <3>1. Undisturbed(q)
      BY <1>1, <1>3, <1>5, RepairDisturbsNobody DEF Load
    <3>2. /\ handle[q] \in Handles /\ ControlOK(handle[q], q, Newest, lease, lock)
          /\ HandleOK(handle[q], q, file, Named, Newest, extent, lease, lock, asked)
      BY Mover
    <3>3. handle[q].step # "open"
      BY <2>13, <3>2 DEF ControlOK
    <3>4. handle[q].step = "swap" => handle[q].copy # n.records
      BY <1>3, <2>4, <3>2 DEF HandleOK, CopyOK
    <3>5. \A i : Reached(handle[q], Newest, Repaired, i) => Reached(handle[q], n, Repaired, i)
      BY <1>3, <2>4, <2>11 DEF Reached
    <3>6. ASSUME NEW f \in handle[q].wants, Held(handle[q], f, Newest, Repaired, asked)
          PROVE  Held(handle[q], f, n, Repaired, asked)
      <4>1. f \in Pairs
        BY <3>2 DEF Handles
      <4> QED
        BY <1>3, <2>4, <2>11, <2>17, <3>5, <3>6, <4>1 DEF Held
    <3>7. ~(handle[q].then = "meta" /\ handle[q].base = n.meta)
      <4> SUFFICES ASSUME handle[q].then = "meta", handle[q].base = m
                   PROVE  FALSE
        BY <2>4
      <4>1. Extends(Meta, m)
        BY <1>3, <3>2 DEF HandleOK, AckOK, AckBase
      <4>2. PICK f \in handle[p].acks : ~Settled(Meta, f[1]) /\ Settled(m, f[1])
        BY <2>3, <2>5
      <4>3. f[1] \in 1 .. MaxSeq
        BY <2>3 DEF Pairs
      <4> QED
        BY <4>1, <4>2, <4>3 DEF Extends
    <3> QED
      BY <1>3, <2>4, <3>1, <3>3, <3>4, <3>6, <3>7 DEF Passes
  <2>20. Publishes(p, n)
    BY <1>1, <1>3, <1>5, <2>4, <2>5, <2>13, <2>15, <2>16, <2>18, <2>19 DEF Publishes
  <2>21. ExtentOK(extent', Named \cup {n}, n, file')
    BY <1>1, <1>3, <2>2, <2>4, <2>13 DEF ExtentOK
  <2>22. HandleOK(h, p, file', Named \cup {n}, n, extent', lease', lock', asked)
    BY <2>4, <2>5, <2>6 DEF HandleOK, WantsOK, ClaimOK, AckOK, BarrierOK, CopyOK, ControlOK
  <2>23. \A q \in Procs \ {p} : Apart(h, handle[q]) /\ Apart(handle[q], h)
    BY <2>6, ApartFromIdle
  <2>24. FilesOK(file') /\ lease' \in Procs \cup {Nobody} /\ lock' \in Procs \cup {Nobody}
         /\ extent' \in [id : Ids \cup {NoFile}, synced : 0 .. MaxSeq]
    BY <1>1, <1>2, <1>5, <2>13 DEF SpoolTypeOK
  <2> QED
    BY <1>5, <2>4, <2>6, <2>20, <2>21, <2>22, <2>23, <2>24, PublishingKeeps
<1> QED
  BY <1>4, <1>5 DEF PublishMeta

LEMMA PublishReclaimKeeps ==
    ASSUME SpoolInv, NEW p \in Procs, PublishReclaim(p)
    PROVE  SpoolInv'
<1> DEFINE c == handle[p].copy
           G == handle[p].kept
           n == [records |-> c, meta |-> Meta]
<1>1. /\ handle[p].step = "swap" /\ Load
      /\ extent' = RepairedExtent /\ lease' = p
      /\ handle' = [handle EXCEPT ![p] = Reopened]
      /\ lock' = lock /\ committed' = committed /\ asked' = asked /\ settled' = settled
  BY DEF PublishReclaim, told
<1>2. /\ SpoolTypeOK /\ handle[p] \in Handles
      /\ HandleOK(handle[p], p, file, Named, Newest, extent, lease, lock, asked)
      /\ \A q \in Procs \ {p} : Apart(handle[p], handle[q])
  BY Mover
<1>3. /\ FilesOK(file) /\ Named \in SUBSET Entries /\ Newest \in Named /\ Newest \in Entries
      /\ Records = Newest.records /\ Meta = Newest.meta /\ Frames = FramesIn(Newest, file)
      /\ handle \in [Procs -> Handles]
  BY <1>2, Basics
<1>4. /\ c \in Ids /\ file[c] = [frames |-> G, synced |-> Len(G), torn |-> FALSE]
      /\ extent.id # c /\ \A e \in Named : e.records # c
  BY <1>1, <1>2 DEF HandleOK, CopyOK
<1>5. \A q \in Procs \ {p} :
         /\ handle'[q] = handle[q] /\ handle[q].copy # c
         /\ ~(handle[q].step \in {"data", "extent"} /\ handle[q].id = c)
  BY <1>1, <1>2, <1>3 DEF Apart
<1>6. /\ FilesOK(Repaired) /\ \A e \in Named : Kept(e, file, Repaired)
      /\ \A i \in Ids : Repaired[i].frames = file[i].frames /\ file[i].synced <= Repaired[i].synced
      /\ \A i \in Ids : i # Records => Repaired[i] = file[i]
      /\ RepairedExtent \in {extent, NoExtent}
      /\ RepairedExtent \in [id : Ids \cup {NoFile}, synced : 0 .. MaxSeq]
      /\ RepairedExtent # extent => lock = Nobody
      /\ ExtentOK(RepairedExtent, Named, Newest, Repaired)
      /\ lease = Nobody /\ Nobody \notin Procs
  BY <1>1, Repairs, SpoolAssumption DEF Load
<1>7. NoExtent.id = NoFile /\ NoFile \notin Ids
  BY SpoolAssumption DEF NoExtent
<1>8. Repaired[c] = file[c]
  BY <1>3, <1>4, <1>6
<1> HIDE DEF c, G
<1>9. CASE file' = [Repaired EXCEPT ![c] = Empty] /\ directory' = directory
  <2>1. Empty \in Files /\ Empty.synced <= Len(Empty.frames) /\ Len(Empty.frames) <= MaxSeq
    <3>1. <<>> \in Seq(Pairs) /\ Len(<<>>) = 0
      BY EmptySeq
    <3> QED
      BY <3>1, SpoolAssumption DEF Empty, Files
  <2>2. file' \in [Ids -> Files] /\ file'[c] = Empty /\ \A i \in Ids \ {c} : file'[i] = Repaired[i]
    BY <1>4, <1>6, <1>9, <2>1 DEF FilesOK
  <2>3. FilesOK(file')
    BY <1>6, <2>1, <2>2 DEF FilesOK
  <2>4. \A q \in Procs : handle[q].step = "swap" => /\ handle[q].copy \in Ids
                                                    /\ handle[q].copy # Records
                                                    /\ extent.id # handle[q].copy
    BY <1>3 DEF SpoolInv, HandlesOK, HandleOK, CopyOK
  <2>5. Withheld(p, {c})
    BY <1>1, <1>4, <1>5, <1>6, <1>7, <1>9, <2>2, <2>4 DEF Withheld
  <2>6. Named' = Named /\ Newest' = Newest
    BY <1>9 DEF Named, Newest
  <2>7. ExtentOK(extent', Named', Newest', file')
    <3>1. \A e \in Named : e.records \in Ids => file'[e.records] = Repaired[e.records]
      BY <1>4, <2>2
    <3>2. \A e \in Named : e.records \in Ids \cup {NoFile}
      BY <1>3 DEF Entries
    <3> QED
      BY <1>1, <1>6, <2>6, <3>1, <3>2 DEF ExtentOK
  <2> QED
    BY <1>1, <1>6, <2>3, <2>5, <2>7, ReopeningKeeps
<1>10. CASE SpoolUnchanged(p) /\ directory' = Append(directory, n) /\ file' = Repaired
  <2>1. n \in Entries /\ n.records = c /\ n.meta = Meta
    BY <1>3, <1>4 DEF Entries
  <2> HIDE DEF n
  <2>2. /\ Frames \in Seq(Pairs) /\ Meta \in Metas
        /\ Ascending(Frames) /\ Follows(Frames, Meta.next) /\ Asked(Meta, Frames, asked)
        /\ Durable(Meta, Frames, SyncedIn(Newest, file))
        /\ SyncedIn(Newest, file) \in 0 .. Len(Frames) /\ SyncedIn(Newest, file) \in Nat
    BY SequenceFacts
  <2>3. Compacts(G, Frames, Meta, PendingAt)
    BY <1>10 DEF SpoolUnchanged, PendingFrames, PendingAt, G, Compacts
  <2>4. /\ G \in Seq(Pairs)
        /\ Ascending(G) /\ Follows(G, Meta.next) /\ Durable(Meta, G, Len(G)) /\ Asked(Meta, G, asked)
        /\ \A i \in DOMAIN Frames : ~Settled(Meta, Frames[i][1]) => \E j \in DOMAIN G : G[j] = Frames[i]
        /\ \A j \in DOMAIN G : \E i \in DOMAIN Frames : G[j] = Frames[i]
    BY <2>2, <2>3, FramesCompacted
  <2>5. DOMAIN G = 1 .. Len(G)
    BY <2>4, FrameTypes
  <2>6. FramesIn(n, file') = G /\ SyncedIn(n, file') = Len(G) /\ n.records # NoFile
    BY <1>4, <1>7, <1>8, <1>10, <2>1 DEF FramesIn, SyncedIn
  <2>7. FramesIn(Newest, file') = Frames
    BY <1>3, <1>6, <1>10 DEF Kept
  <2>8. EntryOK(n, file', asked)
    BY <2>1, <2>4, <2>6 DEF EntryOK
  <2>9. \A f : (\E i \in DOMAIN Frames : Frames[i] = f) =>
             (Settled(Meta, f[1]) /\ f \in asked) \/ \E j \in 1 .. Len(G) : G[j] = f
    BY <2>2, <2>4, <2>5 DEF Asked
  <2>10. \A f \in Pairs : Safe(f, Newest, file', asked) => Safe(f, n, file', asked)
    <3> SUFFICES ASSUME NEW f \in Pairs, NEW i \in 1 .. SyncedIn(Newest, file'), Frames[i] = f
                 PROVE  Safe(f, n, file', asked)
      BY <1>3, <2>1, <2>7 DEF Safe
    <3>1. /\ SyncedIn(Newest, file') \in 0 .. Len(Frames)
      BY <1>3, <1>6, <1>10, <2>7, EntryTypes
    <3>2. i \in DOMAIN Frames
      BY <2>2, <3>1, FrameTypes
    <3> QED
      BY <2>1, <2>6, <2>9, <3>2 DEF Safe
  <2>11. ASSUME NEW q \in Procs \ {p}
         PROVE  Undisturbed(q) /\ Passes(handle[q], Newest, n, Named, file', asked)
    <3>1. Undisturbed(q)
      BY <1>1, <1>5, <1>10, RepairDisturbsNobody DEF Load
    <3>2. /\ handle[q] \in Handles /\ ControlOK(handle[q], q, Newest, lease, lock)
          /\ HandleOK(handle[q], q, file, Named, Newest, extent, lease, lock, asked)
      BY Mover
    <3>3. handle[q].step # "open"
      BY <1>6, <3>2 DEF ControlOK
    <3>4. \A j \in 1 .. Len(G) : Reached(handle[q], n, file', j)
      BY <2>6 DEF Reached
    <3>5. \A f \in handle[q].wants : Held(handle[q], f, Newest, file', asked) =>
                                        Held(handle[q], f, n, file', asked)
      BY <1>3, <2>1, <2>5, <2>6, <2>7, <2>9, <3>4 DEF Held
    <3>6. ASSUME handle[q].then = "meta", handle[q].base = n.meta
          PROVE  AckStands(handle[q], file', n)
      <4>1. AckStands(handle[q], file, Newest)
        BY <1>3, <2>1, <3>2, <3>6 DEF HandleOK, AckOK
      <4>2. \A i \in DOMAIN G : Settled(handle[q].next, G[i][1]) =>
                                   Settled(handle[q].base, G[i][1]) \/ G[i] \in handle[q].acks
        BY <1>3, <2>4, <4>1 DEF AckStands
      <4>3. ASSUME NEW s \in 1 .. handle[q].next.next - 1, ~Settled(handle[q].base, s)
            PROVE  \E j \in DOMAIN G : G[j][1] = s /\ Reached(handle[q], n, file', j)
        <5>1. PICK i \in DOMAIN Frames : Frames[i][1] = s
          BY <1>3, <4>1, <4>3 DEF AckStands
        <5>2. PICK j \in DOMAIN G : G[j] = Frames[i]
          BY <2>1, <2>4, <3>6, <4>3, <5>1
        <5> QED
          BY <2>5, <3>4, <5>1, <5>2
      <4> QED
        BY <2>6, <4>2, <4>3 DEF AckStands
    <3> QED
      BY <1>4, <1>5, <2>1, <2>6, <3>1, <3>3, <3>5, <3>6 DEF Passes
  <2>12. Extends(n.meta, Newest.meta)
    <3>1. Meta.next \in Nat
      BY <2>2, MetaTypes
    <3> QED
      BY <1>3, <2>1, <3>1 DEF Extends
  <2>13. Publishes(p, n)
    BY <1>1, <1>4, <1>6, <1>10, <2>1, <2>8, <2>10, <2>11, <2>12 DEF Publishes, SameEnd
  <2>14. ExtentOK(extent', Named \cup {n}, n, file')
    BY <1>1, <1>4, <1>6, <1>7, <1>10, <2>1, <2>6 DEF ExtentOK
  <2>15. /\ Reopened \in Handles /\ Len(Reopened.kept) <= MaxSeq
         /\ HandleOK(Reopened, p, file', Named \cup {n}, n, extent', lease', lock', asked)
    BY <1>1, ClosedHandle, BoundsAreNatural
  <2>16. Reopened.step = "open" /\ Reopened.copy = NoFile
    BY DEF Reopened, Closed
  <2>17. \A q \in Procs \ {p} : Apart(Reopened, handle[q]) /\ Apart(handle[q], Reopened)
    BY <2>15, <2>16, ApartFromIdle
  <2>18. FilesOK(file') /\ lease' \in Procs \cup {Nobody} /\ lock' \in Procs \cup {Nobody}
         /\ extent' \in [id : Ids \cup {NoFile}, synced : 0 .. MaxSeq]
    BY <1>1, <1>2, <1>6, <1>10 DEF SpoolTypeOK
  <2> QED
    BY <1>1, <2>1, <2>13, <2>14, <2>15, <2>17, <2>18, PublishingKeeps
<1> QED
  BY <1>9, <1>10 DEF PublishReclaim, c, n

-----------------------------------------------------------------------------
(* Appending.                                                              *)

\* The file r gets one more frame, unsynced.
Grows(fl, fl2, r, f) ==
    /\ fl2[r].frames = Append(fl[r].frames, f) /\ fl2[r].synced = fl[r].synced
    /\ \A i \in Ids \ {r} : fl2[i] = fl[i]

\* What an entry sees of it.
Grown(e, fl, fl2, r, f) ==
    /\ SyncedIn(e, fl2) = SyncedIn(e, fl)
    /\ e.records = r => FramesIn(e, fl2) = Append(FramesIn(e, fl), f)
    /\ e.records # r => FramesIn(e, fl2) = FramesIn(e, fl)
    /\ \A i \in DOMAIN FramesIn(e, fl) :
          i \in DOMAIN FramesIn(e, fl2) /\ FramesIn(e, fl2)[i] = FramesIn(e, fl)[i]

LEMMA EntryGrown ==
    ASSUME NEW fl, NEW fl2, FilesOK(fl), FilesOK(fl2), NEW r \in Ids, NEW f \in Pairs,
           Grows(fl, fl2, r, f), NEW e \in Entries
    PROVE  Grown(e, fl, fl2, r, f)
<1>1. e.records \in Ids \cup {NoFile} /\ NoFile # r
  BY SpoolAssumption DEF Entries
<1>2. SyncedIn(e, fl2) = SyncedIn(e, fl)
  BY <1>1 DEF SyncedIn, Grows
<1>3. e.records = r => FramesIn(e, fl2) = Append(FramesIn(e, fl), f)
  BY <1>1 DEF FramesIn, Grows
<1>4. e.records # r => FramesIn(e, fl2) = FramesIn(e, fl)
  BY <1>1 DEF FramesIn, Grows
<1>5. FramesIn(e, fl) \in Seq(Pairs)
  BY EntryTypes
<1>6. e.records = r => \A i \in DOMAIN FramesIn(e, fl) :
         i \in DOMAIN FramesIn(e, fl2) /\ FramesIn(e, fl2)[i] = FramesIn(e, fl)[i]
  <2>1. DOMAIN FramesIn(e, fl) = 1 .. Len(FramesIn(e, fl)) /\ Len(FramesIn(e, fl)) \in Nat
    BY <1>5, FrameTypes
  <2>2. \A F \in Seq(Pairs) : /\ DOMAIN Append(F, f) = 1 .. Len(F) + 1
                              /\ \A i \in 1 .. Len(F) : Append(F, f)[i] = F[i]
    OBVIOUS
  <2> QED
    BY <1>3, <1>5, <2>1, <2>2
<1> QED
  BY <1>2, <1>3, <1>4, <1>6 DEF Grown

\* A handle that did not move while the newest file received its next frame:
\* metadata under way does not know it.
LEMMA HandleGrown ==
    ASSUME NEW h \in Handles, NEW p, NEW fl, NEW fl2, FilesOK(fl), FilesOK(fl2),
           NEW E \in SUBSET Entries, NEW l \in E, l.records \in Ids,
           NEW x, NEW ls, NEW lk, NEW as,
           EntryOK(l, fl, as), NEW f \in Pairs, f[1] = End(FramesIn(l, fl), l.meta.next),
           Grows(fl, fl2, l.records, f),
           HandleOK(h, p, fl, E, l, x, ls, lk, as)
    PROVE  HandleOK(h, p, fl2, E, l, x, ls, lk, as)
<1>1. \A e \in E :
         /\ SyncedIn(e, fl2) = SyncedIn(e, fl)
         /\ \A i \in DOMAIN FramesIn(e, fl) :
               i \in DOMAIN FramesIn(e, fl2) /\ FramesIn(e, fl2)[i] = FramesIn(e, fl)[i]
  BY EntryGrown DEF Grown
<1>2. \A e \in E : \A i : Reached(h, e, fl, i) => Reached(h, e, fl2, i)
  BY <1>1 DEF Reached
<1>3. WantsOK(h, fl2, E, l, x, as)
  <2> SUFFICES ASSUME NEW g \in h.wants, NEW e \in E, Concerns(h, e, l, x)
               PROVE  Held(h, g, e, fl2, as)
    BY DEF WantsOK
  <2>1. Held(h, g, e, fl, as)
    BY DEF HandleOK, WantsOK
  <2> QED
    BY <1>1, <1>2, <2>1 DEF Held
<1>4. ClaimOK(h, fl2)
  <2> SUFFICES ASSUME h.step \in {"data", "extent"}
               PROVE  ClaimOK(h, fl2)
    BY DEF ClaimOK
  <2>1. h.id \in Ids /\ ClaimOK(h, fl) /\ h.claim \in 0 .. MaxSeq
    BY DEF HandleOK, ControlOK, Handles
  <2>2. CASE h.id # l.records
    BY <2>1, <2>2 DEF ClaimOK, Grows
  <2>3. CASE h.id = l.records
    <3>1. fl[h.id].frames \in Seq(Pairs)
      BY <2>1 DEF FilesOK, Files
    <3>2. /\ Len(fl2[h.id].frames) = Len(fl[h.id].frames) + 1 /\ Len(fl[h.id].frames) \in Nat
          /\ fl2[h.id].synced = fl[h.id].synced
      BY <2>3, <3>1 DEF Grows
    <3> QED
      BY <2>1, <3>2, SpoolAssumption DEF ClaimOK
  <2> QED
    BY <2>2, <2>3
<1>5. AckOK(h, fl2, l, as)
  <2> SUFFICES ASSUME h.then = "meta"
               PROVE  AckBase(h, l, as) /\ (h.base = l.meta => AckStands(h, fl2, l))
    BY DEF AckOK
  <2>1. AckBase(h, l, as) /\ (h.base = l.meta => AckStands(h, fl, l))
    BY DEF HandleOK, AckOK
  <2>2. ASSUME h.base = l.meta
        PROVE  AckStands(h, fl2, l)
    <3> DEFINE F == FramesIn(l, fl)
               G == FramesIn(l, fl2)
    <3>1. AckStands(h, fl, l)
      BY <2>1, <2>2
    <3>2. /\ F \in Seq(Pairs) /\ l.meta \in Metas /\ h.next \in Metas /\ G = Append(F, f)
      BY EntryTypes, EntryGrown DEF Handles, Grown
    <3>3. /\ DOMAIN F = 1 .. Len(F) /\ Len(F) \in Nat /\ DOMAIN G = 1 .. Len(F) + 1
          /\ G[Len(F) + 1] = f /\ \A i \in DOMAIN F : G[i] = F[i]
      BY <3>2
    <3>4. /\ l.meta.next \in Nat \ {0} /\ h.next.next \in Nat \ {0} /\ f[1] \in Nat
      BY <3>2, MetaTypes, SpoolAssumption DEF Pairs
    <3>5. /\ Ascending(F) /\ Follows(F, l.meta.next)
      BY DEF EntryOK
    <3>6. /\ l.meta.next <= f[1] /\ \A i \in DOMAIN F : F[i][1] < f[1]
      BY <3>2, <3>4, <3>5, EndFacts
    <3>7. h.next.next <= f[1]
      <4> SUFFICES ASSUME h.next.next # 1
                   PROVE  h.next.next - 1 < f[1]
        BY <3>4, <3>6
      <4>1. h.next.next - 1 \in 1 .. h.next.next - 1 /\ h.next.next - 1 \in Nat
        BY <3>4
      <4>2. CASE Settled(h.base, h.next.next - 1)
        <5>1. h.next.next - 1 < l.meta.next
          BY <2>2, <3>2, <4>1, <4>2, MetaTypes
        <5> QED
          BY <3>4, <3>6, <4>1, <5>1
      <4>3. CASE \E i \in DOMAIN F : F[i][1] = h.next.next - 1
        BY <3>6, <4>3
      <4> QED
        BY <3>1, <4>1, <4>2, <4>3 DEF AckStands
    <3>8. ~Settled(h.next, f[1])
      <4>1. Settled(h.next, f[1]) => f[1] < h.next.next
        BY <3>2, <3>4, MetaTypes
      <4> QED
        BY <3>4, <3>7, <4>1
    <3>9. \A i \in DOMAIN F :
             Settled(h.next, F[i][1]) => Settled(h.base, F[i][1]) \/ F[i] \in h.acks
      BY <3>1 DEF AckStands
    <3>10. \A i \in DOMAIN G :
             Settled(h.next, G[i][1]) => Settled(h.base, G[i][1]) \/ G[i] \in h.acks
      <4> TAKE i \in DOMAIN G
      <4>1. i \in DOMAIN F \/ i = Len(F) + 1
        BY <3>3
      <4> HIDE DEF F, G
      <4> QED
        BY <3>3, <3>8, <3>9, <4>1
    <3>11. \A s \in 1 .. h.next.next - 1 :
             \/ Settled(h.base, s)
             \/ \E i \in DOMAIN G : G[i][1] = s /\ Reached(h, l, fl2, i)
      BY <1>1, <1>2, <3>1 DEF AckStands
    <3> QED
      BY <3>10, <3>11 DEF AckStands
  <2> QED
    BY <2>1, <2>2
<1>6. CopyOK(h, fl2, E, x)
  BY DEF HandleOK, CopyOK, Grows
<1> QED
  BY <1>3, <1>4, <1>5, <1>6 DEF HandleOK

\* The handle after an append: its record is in the file its commit will sync.
Appended(p, h, f, r, k) ==
    h = [handle[p] EXCEPT !.wants = handle[p].wants \cup {f}, !.id = r, !.end = k]
LiesAt(f, r, k, E, fl) ==
    \A e \in E : e.records = r => k \in DOMAIN FramesIn(e, fl) /\ FramesIn(e, fl)[k] = f

LEMMA AppendingHandle ==
    ASSUME SpoolInv, NEW p \in Procs, handle[p].step = "open", handle[p].wants = {},
           NEW f \in Pairs, NEW r \in Ids, NEW k \in 0 .. MaxSeq,
           NEW h, Appended(p, h, f, r, k),
           NEW fl, NEW E, NEW l, NEW x, NEW lk, NEW as, l.records = r, LiesAt(f, r, k, E, fl)
    PROVE  /\ h \in Handles /\ Len(h.kept) <= MaxSeq
           /\ HandleOK(h, p, fl, E, l, x, p, lk, as)
           /\ \A q \in Procs \ {p} : Apart(h, handle[q]) /\ Apart(handle[q], h)
<1>1. /\ ControlOK(handle[p], p, Newest, lease, lock) /\ handle[p] \in Handles
      /\ Len(handle[p].kept) <= MaxSeq
  BY Mover
<1>2. handle[p].then = "idle" /\ handle[p].copy = NoFile
  BY <1>1 DEF ControlOK
<1>3. /\ h \in Handles /\ h.step = "open" /\ h.wants = {f} /\ h.id = r /\ h.end = k
      /\ h.then = "idle" /\ h.copy = NoFile /\ h.kept = handle[p].kept
  BY <1>1, <1>2 DEF Handles, Steps, Appended
<1>4. WantsOK(h, fl, E, l, x, as)
  <2> SUFFICES ASSUME NEW e \in E, Concerns(h, e, l, x)
               PROVE  Held(h, f, e, fl, as)
    BY <1>3 DEF WantsOK
  <2>1. e.records = r
    BY <1>3 DEF Concerns
  <2>2. Reached(h, e, fl, k)
    BY <1>3, <2>1 DEF Reached
  <2> QED
    BY <2>1, <2>2 DEF Held, LiesAt
<1>5. HandleOK(h, p, fl, E, l, x, p, lk, as)
  BY <1>3, <1>4 DEF HandleOK, ClaimOK, AckOK, BarrierOK, CopyOK, ControlOK
<1>6. \A q \in Procs \ {p} : Apart(h, handle[q]) /\ Apart(handle[q], h)
  BY <1>3, ApartFromIdle
<1> QED
  BY <1>1, <1>3, <1>5, <1>6

\* An event already pending.
LEMMA RepeatedKeeps ==
    ASSUME SpoolInv, NEW p \in Procs, NEW e, handle[p].step = "open", handle[p].wants = {},
           IsPending(e), Repeated(p, e),
           file' = file, directory' = directory, extent' = extent, lease' = lease, lock' = lock,
           committed' = committed, asked' = asked, settled' = settled
    PROVE  SpoolInv'
<1> DEFINE k == IndexOf(e)
           f == Frames[k]
           h == [handle[p] EXCEPT !.wants = handle[p].wants \cup {f}, !.id = Records, !.end = k]
<1>1. SpoolTypeOK /\ lease = p
  BY Mover DEF ControlOK
<1>2. /\ Newest \in Entries /\ Records = Newest.records /\ Frames = FramesIn(Newest, file)
      /\ handle \in [Procs -> Handles]
  BY <1>1, Basics
<1>3. Frames \in Seq(Pairs) /\ Len(Frames) \in 0 .. MaxSeq
  BY SequenceFacts
<1>4. k \in PendingAt
  BY DEF IsPending, IndexOf
<1> HIDE DEF k
<1>5. k \in DOMAIN Frames
  BY <1>4 DEF PendingAt
<1>6. k \in 0 .. MaxSeq /\ f \in Pairs
  BY <1>3, <1>5, FrameTypes, SpoolAssumption
<1>7. Records \in Ids
  <2>1. Frames # <<>>
    BY <1>5
  <2> QED
    BY <1>2, <2>1 DEF Frames, Entries
<1>8. handle' = [handle EXCEPT ![p] = h]
  BY DEF Repeated, k
<1>9. LiesAt(f, Records, k, Named, file)
  BY <1>2, <1>5 DEF FramesIn, LiesAt
<1>10. Appended(p, h, f, Records, k)
  BY DEF Appended
<1> HIDE DEF f, h
<1>11. /\ h \in Handles /\ Len(h.kept) <= MaxSeq
       /\ HandleOK(h, p, file, Named, Newest, extent, p, lock, asked)
       /\ \A q \in Procs \ {p} : Apart(h, handle[q]) /\ Apart(handle[q], h)
  BY <1>2, <1>6, <1>7, <1>9, <1>10, AppendingHandle
<1>12. \A q \in Procs \ {p} : handle'[q] = handle[q]
  BY <1>2, <1>8
<1>13. Withheld(p, {}) /\ FilesOK(file')
  BY <1>12, DiskWithheld
<1>14. /\ extent' \in [id : Ids \cup {NoFile}, synced : 0 .. MaxSeq]
       /\ ExtentOK(extent', Named', Newest', file')
  BY <1>13, ExtentStands
<1>15. HandleOK(h, p, file', Named', Newest', extent', lease', lock', asked')
  BY <1>1, <1>11 DEF Named, Newest
<1> QED
  BY <1>1, <1>8, <1>11, <1>13, <1>14, <1>15, MovingKeeps DEF SpoolTypeOK

\* A frame appended to the records file.
LEMMA GrowingKeeps ==
    ASSUME SpoolInv, NEW p \in Procs, handle[p].step = "open", handle[p].wants = {},
           NEW f \in Pairs, f[1] = NextSequence, Records # NoFile,
           file' = [file EXCEPT ![Records] = [file[Records] EXCEPT !.frames = Append(file[Records].frames, f)]],
           handle' = [handle EXCEPT ![p] = [handle[p] EXCEPT !.wants = handle[p].wants \cup {f},
                                              !.id = Records, !.end = Len(Frames) + 1]],
           directory' = directory, extent' = extent, lease' = lease, lock' = lock,
           committed' = committed, asked' = asked, settled' = settled
    PROVE  SpoolInv'
<1> DEFINE k == Len(Frames) + 1
           h == [handle[p] EXCEPT !.wants = handle[p].wants \cup {f}, !.id = Records, !.end = k]
           r == [file[Records] EXCEPT !.frames = Append(file[Records].frames, f)]
<1>1. SpoolTypeOK /\ lease = p
  BY Mover DEF ControlOK
<1>2. /\ FilesOK(file) /\ Named \in SUBSET Entries /\ Newest \in Named /\ Newest \in Entries
      /\ Records = Newest.records /\ Meta = Newest.meta /\ Frames = FramesIn(Newest, file)
      /\ handle \in [Procs -> Handles] /\ file \in [Ids -> Files]
  BY <1>1, Basics DEF FilesOK
<1>3. Records \in Ids /\ Frames = file[Records].frames
  BY <1>2 DEF Entries, Frames
<1>4. /\ Frames \in Seq(Pairs) /\ Len(Frames) \in Nat /\ NextSequence = End(Frames, Meta.next)
      /\ Len(Frames) < NextSequence /\ f[1] \in 1 .. MaxSeq
  BY SequenceFacts, FrameTypes DEF Pairs
<1>5. k \in 0 .. MaxSeq /\ k \in Nat
  BY <1>4, SpoolAssumption
<1>6. /\ Append(Frames, f) \in Seq(Pairs) /\ Len(Append(Frames, f)) = k
      /\ DOMAIN Append(Frames, f) = 1 .. k /\ Append(Frames, f)[k] = f
  BY <1>4
<1>7. file[Records] \in Files /\ file[Records].synced \in 0 .. MaxSeq /\ file[Records].synced <= Len(Frames)
  BY <1>2, <1>3 DEF FilesOK, Files
<1>8. r \in Files /\ r.frames = Append(Frames, f) /\ r.synced = file[Records].synced
  BY <1>3, <1>6, <1>7 DEF Files
<1> HIDE DEF r, k
<1>9. file' \in [Ids -> Files] /\ file'[Records] = r /\ \A i \in Ids \ {Records} : file'[i] = file[i]
  <2>1. file' = [file EXCEPT ![Records] = r]
    BY DEF r
  <2> QED
    BY <1>2, <1>3, <1>8, <2>1
<1>10. FilesOK(file')
  <2> SUFFICES ASSUME NEW i \in Ids
               PROVE  file'[i].synced <= Len(file'[i].frames) /\ Len(file'[i].frames) <= MaxSeq
    BY <1>9 DEF FilesOK
  <2>1. CASE i = Records
    <3>1. file'[i].synced = file[Records].synced /\ Len(file'[i].frames) = k
      BY <1>6, <1>8, <1>9, <2>1
    <3> QED
      BY <1>4, <1>5, <1>7, <3>1, SpoolAssumption DEF k
  <2>2. CASE i # Records
    BY <1>2, <1>9, <2>2 DEF FilesOK
  <2> QED
    BY <2>1, <2>2
<1>11. Grows(file, file', Newest.records, f)
  BY <1>2, <1>3, <1>8, <1>9 DEF Grows
<1>12. ASSUME NEW e \in Named
       PROVE  /\ SyncedIn(e, file') = SyncedIn(e, file)
              /\ e.records = Records => FramesIn(e, file') = Append(Frames, f)
              /\ e.records = Records => FramesIn(e, file) = Frames
              /\ e.records # Records => FramesIn(e, file') = FramesIn(e, file)
              /\ \A i \in DOMAIN FramesIn(e, file) :
                    i \in DOMAIN FramesIn(e, file') /\ FramesIn(e, file')[i] = FramesIn(e, file)[i]
  <2>1. e \in Entries /\ (e.records = Records => FramesIn(e, file) = Frames)
    BY <1>2 DEF FramesIn
  <2>2. Newest.records \in Ids
    BY <1>2, <1>3
  <2>3. Grown(e, file, file', Newest.records, f)
    BY <1>2, <1>10, <1>11, <2>1, <2>2, EntryGrown
  <2> QED
    BY <1>2, <2>1, <2>3 DEF Grown
<1>13. Named' = Named /\ Newest' = Newest
  BY DEF Named, Newest
<1>14. EntryOK(Newest, file, asked) /\ f[1] = End(FramesIn(Newest, file), Newest.meta.next)
  BY <1>2, <1>4 DEF SpoolInv, EntriesOK
<1>15. ASSUME NEW e \in Named
       PROVE  /\ EntryOK(e, file', asked)
              /\ e.records = Records => End(Append(Frames, f), e.meta.next) = f[1] + 1
  <2>1. EntryOK(e, file, asked) /\ SameEnd(e, Newest, file) /\ e \in Entries
    BY <1>2 DEF SpoolInv, EntriesOK
  <2>2. CASE e.records # Records
    BY <1>12, <2>1, <2>2 DEF EntryOK
  <2>3. CASE e.records = Records
    <3>1. /\ e.meta \in Metas /\ SyncedIn(e, file) \in 0 .. Len(Frames)
      BY <1>2, <1>12, <2>1, <2>3, EntryTypes
    <3>2. f[1] = End(Frames, e.meta.next)
      BY <1>2, <1>14, <2>1, <2>3 DEF SameEnd
    <3>3. /\ Ascending(Frames) /\ Follows(Frames, e.meta.next)
          /\ Durable(e.meta, Frames, SyncedIn(e, file)) /\ Asked(e.meta, Frames, asked)
          /\ e.records = NoFile => e.meta = FreshMeta
      BY <1>12, <2>1, <2>3 DEF EntryOK
    <3> DEFINE G == Append(Frames, f)
    <3>4. /\ Ascending(G) /\ Follows(G, e.meta.next) /\ Durable(e.meta, G, SyncedIn(e, file))
          /\ Asked(e.meta, G, asked) /\ End(G, e.meta.next) = f[1] + 1
      <4>1. G = Append(Frames, f)
        OBVIOUS
      <4> HIDE DEF G
      <4> QED
        BY <1>4, <3>1, <3>2, <3>3, <4>1, FramesAppended
    <3> QED
      BY <1>12, <2>3, <3>3, <3>4 DEF EntryOK
  <2> QED
    BY <2>2, <2>3
<1>16. EntriesOK'
  <2>1. \A e \in Named : SameEnd(e, Newest, file')
    BY <1>2, <1>12, <1>15 DEF SameEnd
  <2> QED
    BY <1>13, <1>15, <2>1 DEF EntriesOK
<1>17. ExtentOK(extent', Named', Newest', file')
  <2>1. \A i \in Ids : file'[i].synced = file[i].synced
    BY <1>8, <1>9
  <2>2. extent.id \in Ids \cup {NoFile}
    BY <1>1 DEF SpoolTypeOK
  <2> QED
    BY <1>13, <2>1, <2>2 DEF SpoolInv, ExtentOK
<1>18. CommittedOK'
  <2>1. ASSUME NEW g \in committed, NEW e \in Named
        PROVE  Safe(g, e, file', asked)
    <3>1. Safe(g, e, file, asked)
      BY DEF SpoolInv, CommittedOK
    <3>2. \A i \in 1 .. SyncedIn(e, file) : i \in DOMAIN FramesIn(e, file)
      <4>1. /\ FramesIn(e, file) \in Seq(Pairs) /\ SyncedIn(e, file) \in 0 .. Len(FramesIn(e, file))
        BY <1>2, EntryTypes
      <4> QED
        BY <4>1, FrameTypes
    <3> QED
      BY <1>12, <3>1, <3>2 DEF Safe
  <2> QED
    BY <1>13, <2>1 DEF CommittedOK
<1>19. SettledOK'
  BY <1>13 DEF SpoolInv, SettledOK
<1>20. /\ h \in Handles /\ Len(h.kept) <= MaxSeq
       /\ HandleOK(h, p, file', Named, Newest, extent, p, lock, asked)
       /\ \A q \in Procs \ {p} : Apart(h, handle[q]) /\ Apart(handle[q], h)
  <2>1. LiesAt(f, Records, k, Named, file')
    <3>1. k \in 1 .. k
      BY <1>4, <1>5 DEF k
    <3> QED
      BY <1>6, <1>12, <3>1 DEF LiesAt
  <2>2. Appended(p, h, f, Records, k)
    BY DEF Appended
  <2> HIDE DEF h
  <2> QED
    BY <1>2, <1>3, <1>5, <2>1, <2>2, AppendingHandle
<1>21. /\ handle' \in [Procs -> Handles] /\ handle'[p] = h
       /\ \A q \in Procs \ {p} : handle'[q] = handle[q]
       /\ \A q \in Procs : Len(handle'[q].kept) <= MaxSeq
  <2>1. handle' = [handle EXCEPT ![p] = h]
    BY DEF k
  <2> HIDE DEF h
  <2> QED
    BY <1>1, <1>20, <2>1, HandleMoved
<1> HIDE DEF h
<1>22. HandlesOK'
  <2> SUFFICES ASSUME NEW q \in Procs
               PROVE  HandleOK(handle'[q], q, file', Named', Newest', extent', lease', lock', asked')
    BY DEF HandlesOK
  <2>1. CASE q = p
    BY <1>1, <1>13, <1>20, <1>21, <2>1
  <2>2. CASE q # p
    <3>1. handle[q] \in Handles /\ HandleOK(handle[q], q, file, Named, Newest, extent, lease, lock, asked)
      BY Mover
    <3>2. HandleOK(handle[q], q, file', Named, Newest, extent, lease, lock, asked)
      <4> DEFINE g == handle[q]
      <4>1. g \in Handles /\ HandleOK(g, q, file, Named, Newest, extent, lease, lock, asked)
        BY <3>1
      <4>2. Newest.records \in Ids
        BY <1>2, <1>3
      <4> HIDE DEF g
      <4>3. HandleOK(g, q, file', Named, Newest, extent, lease, lock, asked)
        BY <1>2, <1>10, <1>11, <1>14, <4>1, <4>2, HandleGrown
      <4> QED
        BY <4>3 DEF g
    <3> QED
      BY <1>13, <1>21, <2>2, <3>2
  <2> QED
    BY <2>1, <2>2
<1>23. CopiesApart'
  <2> SUFFICES ASSUME NEW q \in Procs, NEW s \in Procs, q # s
               PROVE  Apart(handle'[q], handle'[s])
    BY DEF CopiesApart
  <2>1. CASE q # p /\ s # p
    BY <1>21, <2>1 DEF SpoolInv, CopiesApart
  <2>2. CASE q = p \/ s = p
    BY <1>20, <1>21, <2>2
  <2> QED
    BY <2>1, <2>2
<1>24. SpoolTypeOK'
  BY <1>1, <1>10, <1>21 DEF SpoolTypeOK, FilesOK
<1> QED
  BY <1>16, <1>17, <1>18, <1>19, <1>22, <1>23, <1>24 DEF SpoolInv

\* A frame appended where there was no records file.
LEMMA CreatingKeeps ==
    ASSUME SpoolInv, NEW p \in Procs, handle[p].step = "open", handle[p].wants = {},
           NEW f \in Pairs, f[1] = NextSequence, Records = NoFile,
           NEW id \in Ids, Unnamed(id),
           directory' = Append(directory, [records |-> id, meta |-> Meta]),
           NEW r, r = [Empty EXCEPT !.frames = <<f>>], file' = [file EXCEPT ![id] = r],
           handle' = [handle EXCEPT ![p] = [handle[p] EXCEPT !.wants = handle[p].wants \cup {f},
                                              !.id = id, !.end = Len(Frames) + 1]],
           extent' = extent, lease' = lease, lock' = lock,
           committed' = committed, asked' = asked, settled' = settled
    PROVE  SpoolInv'
<1> DEFINE h == [handle[p] EXCEPT !.wants = handle[p].wants \cup {f}, !.id = id, !.end = 1]
           n == [records |-> id, meta |-> Meta]
<1>1. SpoolTypeOK /\ lease = p
  BY Mover DEF ControlOK
<1>2. /\ FilesOK(file) /\ Named \in SUBSET Entries /\ Newest \in Named /\ Newest \in Entries
      /\ Records = Newest.records /\ Meta = Newest.meta /\ Frames = FramesIn(Newest, file)
      /\ handle \in [Procs -> Handles] /\ file \in [Ids -> Files]
  BY <1>1, Basics DEF FilesOK
<1>3. Frames = <<>> /\ Len(Frames) = 0 /\ Newest.records = NoFile
  BY <1>2 DEF Frames
<1>4. Meta = FreshMeta /\ Meta.next = 1 /\ Meta.through = 0 /\ Meta.acked = {}
  <2>1. EntryOK(Newest, file, asked)
    BY <1>2 DEF SpoolInv, EntriesOK
  <2>2. Meta = FreshMeta
    BY <1>2, <1>3, <2>1 DEF EntryOK
  <2> QED
    BY <2>2 DEF FreshMeta
<1>5. f[1] = 1
  <2>1. NextSequence = End(Frames, Meta.next)
    BY SequenceFacts
  <2> QED
    BY <1>3, <1>4, <2>1 DEF End
<1>6. /\ <<f>> \in Seq(Pairs) /\ Len(<<f>>) = 1 /\ DOMAIN <<f>> = {1} /\ <<f>>[1] = f
      /\ 1 \in 0 .. MaxSeq /\ 0 \in 0 .. MaxSeq
  BY SpoolAssumption
<1>7. r \in Files /\ r.frames = <<f>> /\ r.synced = 0
  BY <1>6 DEF Files, Empty
<1>7a. 1 <= MaxSeq /\ 0 <= 1
  BY SpoolAssumption
<1>8. n \in Entries /\ n.records = id /\ n.meta = Meta /\ id # NoFile
  BY <1>2, SpoolAssumption DEF Entries
<1> HIDE DEF n
<1>9. file' \in [Ids -> Files] /\ file'[id] = r /\ \A i \in Ids \ {id} : file'[i] = file[i]
  BY <1>2, <1>7
<1>10. FilesOK(file')
  <2> SUFFICES ASSUME NEW i \in Ids
               PROVE  file'[i].synced <= Len(file'[i].frames) /\ Len(file'[i].frames) <= MaxSeq
    BY <1>9 DEF FilesOK
  <2>1. CASE i = id
    <3>1. file'[i].synced = 0 /\ Len(file'[i].frames) = 1
      BY <1>6, <1>7, <1>9, <2>1
    <3> QED
      BY <1>7a, <3>1
  <2>2. CASE i # id
    BY <1>2, <1>9, <2>2 DEF FilesOK
  <2> QED
    BY <2>1, <2>2
<1>11. \A e \in Named : e.records # id
  BY DEF Unnamed, Named, ToSet
<1>12. \A e \in Named : Kept(e, file, file')
  <2> TAKE e \in Named
  <2>1. e.records \in Ids \cup {NoFile} /\ e.records # id
    BY <1>2, <1>11 DEF Entries
  <2>2. \A i \in Ids : file[i].synced <= file[i].synced
    BY <1>2 DEF Files
  <2>3. CASE e.records = NoFile
    BY <2>3 DEF Kept, FramesIn, SyncedIn
  <2>4. CASE e.records \in Ids \ {id} /\ e.records # NoFile
    BY <1>9, <2>2, <2>4 DEF Kept, FramesIn, SyncedIn
  <2> QED
    BY <2>1, <2>3, <2>4
<1>13. FramesIn(n, file') = <<f>> /\ SyncedIn(n, file') = 0
  BY <1>7, <1>8, <1>9 DEF FramesIn, SyncedIn
<1>14. EntryOK(n, file', asked)
  <2>1. Ascending(<<f>>) /\ Follows(<<f>>, 1)
    BY <1>5, <1>6 DEF Ascending, Follows
  <2>2. Durable(Meta, <<f>>, 0)
    BY <1>4 DEF Durable
  <2>3. Asked(Meta, <<f>>, asked)
    BY <1>4, <1>5, <1>6 DEF Asked, Settled
  <2> QED
    BY <1>4, <1>8, <1>13, <2>1, <2>2, <2>3 DEF EntryOK
<1>15. \A g \in Pairs : Safe(g, Newest, file', asked) => Safe(g, n, file', asked)
  <2>1. SyncedIn(Newest, file') = 0
    BY <1>3 DEF SyncedIn
  <2>2. ~\E i \in 1 .. 0 : TRUE
    OBVIOUS
  <2> QED
    BY <1>2, <1>8, <2>1, <2>2 DEF Safe
<1>16. \A q \in Procs \ {p} : handle'[q] = handle[q]
  BY <1>2
<1>17. ASSUME NEW q \in Procs \ {p}
       PROVE  Undisturbed(q) /\ Passes(handle[q], Newest, n, Named, file', asked)
  <2>1. /\ handle[q] \in Handles /\ ControlOK(handle[q], q, Newest, lease, lock)
        /\ HandleOK(handle[q], q, file, Named, Newest, extent, lease, lock, asked)
    BY Mover
  <2>2. handle[q].step \notin {"open", "sync", "data", "extent"} /\ handle[q].wants = {}
    BY <1>1, <1>3, <2>1 DEF ControlOK
  <2>3. handle[q].step = "swap" => /\ handle[q].copy \in Ids /\ handle[q].copy # id
                                   /\ extent.id # handle[q].copy
    BY <2>1 DEF HandleOK, CopyOK, Unnamed
  <2>4. ~(handle[q].then = "meta" /\ handle[q].base = n.meta)
    <3> SUFFICES ASSUME handle[q].then = "meta", handle[q].base = Newest.meta
                 PROVE  FALSE
      BY <1>2, <1>8
    <3>1. AckBase(handle[q], Newest, asked) /\ AckStands(handle[q], file, Newest)
      BY <2>1 DEF HandleOK, AckOK
    <3> QED
      BY <1>3, <2>1, <3>1, AcknowledgedFile
  <2>5. Undisturbed(q)
    BY <1>9, <1>16, <2>2, <2>3 DEF Undisturbed
  <2>6. Passes(handle[q], Newest, n, Named, file', asked)
    BY <1>8, <1>11, <2>2, <2>3, <2>4 DEF Passes
  <2> QED
    BY <2>5, <2>6
<1>18. Extends(n.meta, Newest.meta)
  BY <1>2, <1>4, <1>8 DEF Extends
<1>19. Publishes(p, n)
  <2>1. directory' = Append(directory, n)
    BY DEF n
  <2> QED
    BY <1>8, <1>11, <1>12, <1>14, <1>15, <1>17, <1>18, <2>1 DEF Publishes, SameEnd
<1>20. ExtentOK(extent', Named \cup {n}, n, file')
  <2>1. extent.id = NoFile
    BY <1>2, <1>3 DEF SpoolInv, ExtentOK
  <2> QED
    BY <2>1 DEF ExtentOK
<1>21. Appended(p, h, f, id, 1)
  BY DEF Appended
<1>22. handle' = [handle EXCEPT ![p] = h]
  BY <1>3
<1> HIDE DEF h
<1>23. LiesAt(f, id, 1, Named \cup {n}, file')
  BY <1>6, <1>11, <1>13 DEF LiesAt
<1>24. /\ h \in Handles /\ Len(h.kept) <= MaxSeq
       /\ HandleOK(h, p, file', Named \cup {n}, n, extent', p, lock', asked)
       /\ \A q \in Procs \ {p} : Apart(h, handle[q]) /\ Apart(handle[q], h)
  BY <1>6, <1>8, <1>21, <1>23, AppendingHandle
<1>25. HandleOK(h, p, file', Named \cup {n}, n, extent', lease', lock', asked)
  BY <1>1, <1>24
<1> QED
  BY <1>1, <1>8, <1>10, <1>19, <1>20, <1>22, <1>24, <1>25, PublishingKeeps DEF SpoolTypeOK

LEMMA AppendRecordKeeps ==
    ASSUME SpoolInv, NEW p \in Procs, NEW e \in Events, AppendRecord(p, e)
    PROVE  SpoolInv'
<1>1. /\ handle[p].step = "open" /\ handle[p].wants = {}
      /\ extent' = extent /\ lease' = lease /\ lock' = lock
      /\ committed' = committed /\ asked' = asked /\ settled' = settled
  BY DEF AppendRecord, locks, told
<1>2. CASE IsPending(e) /\ Repeated(p, e) /\ UNCHANGED <<file, directory>>
  BY <1>1, <1>2, RepeatedKeeps
<1>3. ASSUME NextSequence <= MaxSeq, NEW id \in Ids, AppendsTo(id), Written(id, <<NextSequence, e>>),
             handle' = [handle EXCEPT ![p].wants = @ \cup {<<NextSequence, e>>},
                                      ![p].id = id, ![p].end = Len(Frames) + 1]
      PROVE  SpoolInv'
  <2> DEFINE f == <<NextSequence, e>>
  <2>1. f \in Pairs /\ f[1] = NextSequence
    <3>1. NextSequence \in Meta.next .. MaxSeq + 1 /\ Meta.next \in Nat \ {0}
      BY SequenceFacts, MetaTypes, SpoolAssumption
    <3>2. NextSequence \in 1 .. MaxSeq
      BY <1>3, <3>1, SpoolAssumption
    <3> QED
      BY <3>2 DEF Pairs
  <2>2. handle' = [handle EXCEPT ![p] = [handle[p] EXCEPT !.wants = handle[p].wants \cup {f},
                                           !.id = id, !.end = Len(Frames) + 1]]
    BY <1>3
  <2>3. CASE Records = NoFile
    <3>1. Unnamed(id) /\ directory' = Append(directory, [records |-> id, meta |-> Meta])
      BY <1>3, <2>3 DEF AppendsTo
    <3>2. file' = [file EXCEPT ![id] = [Empty EXCEPT !.frames = <<f>>]]
      BY <1>3, <2>3, SpoolAssumption DEF Written
    <3> HIDE DEF f
    <3> QED
      BY <1>1, <1>3, <2>1, <2>2, <2>3, <3>1, <3>2, CreatingKeeps
  <2>4. CASE Records # NoFile
    <3>1. id = Records /\ directory' = directory
      BY <1>3, <2>4 DEF AppendsTo
    <3>2. file' = [file EXCEPT ![Records] =
                      [file[Records] EXCEPT !.frames = Append(file[Records].frames, f)]]
      <4>1. Written(Records, f)
        BY <1>3, <3>1
      <4> HIDE DEF f
      <4>2. file' = [file EXCEPT ![Records] =
                        IF Records = Records
                        THEN [file[Records] EXCEPT !.frames = Append(file[Records].frames, f)]
                        ELSE [Empty EXCEPT !.frames = <<f>>]]
        BY <4>1 DEF Written
      <4> QED
        BY <4>2
    <3> HIDE DEF f
    <3> QED
      BY <1>1, <2>1, <2>2, <2>4, <3>1, <3>2, GrowingKeeps
  <2> QED
    BY <2>3, <2>4
<1> QED
  BY <1>2, <1>3 DEF AppendRecord

-----------------------------------------------------------------------------
(* A power failure.                                                        *)

LEMMA PowerFailureKeeps ==
    ASSUME SpoolInv, PowerFailure
    PROVE  SpoolInv'
<1>1. /\ extent' \in {extent, NoExtent} /\ lease' = Nobody /\ lock' = Nobody
      /\ handle' = [p \in Procs |-> Closed]
      /\ committed' = committed /\ asked' = asked /\ settled' = settled
  BY DEF PowerFailure, told
<1>2. PICK d \in DOMAIN directory :
         /\ directory' = <<directory[d]>>
         /\ IF directory[d].records = NoFile THEN file' = [i \in Ids |-> Empty]
            ELSE \E n \in file[directory[d].records].synced .. Len(file[directory[d].records].frames),
                    torn \in BOOLEAN : file' = Survives(directory[d].records, n, torn)
  BY DEF PowerFailure
<1> DEFINE e == directory[d]
<1>3. e \in Named
  BY DEF Named, ToSet
<1>4. directory' = <<e>>
  BY <1>2
<1>5. e.records = NoFile => file' = [i \in Ids |-> Empty]
  BY <1>2
<1>6. e.records # NoFile =>
         \E n \in file[e.records].synced .. Len(file[e.records].frames), torn \in BOOLEAN :
            file' = Survives(e.records, n, torn)
  BY <1>2
<1> HIDE DEF e
<1>7. SpoolTypeOK /\ FilesOK(file) /\ file \in [Ids -> Files] /\ e \in Entries
  BY <1>3, Basics DEF SpoolInv, FilesOK
<1>8. /\ directory' \in Seq(Entries) /\ directory' # <<>> /\ Named' = {e} /\ Newest' = e
  BY <1>4, <1>7, DirectoryOfOne DEF Named, Newest
<1>9. Empty \in Files /\ Empty.synced <= Len(Empty.frames) /\ Len(Empty.frames) <= MaxSeq
  <2>1. <<>> \in Seq(Pairs) /\ Len(<<>>) = 0
    BY EmptySeq
  <2> QED
    BY <2>1, SpoolAssumption DEF Empty, Files
<1>10. EntryOK(e, file, asked)
  BY <1>3 DEF SpoolInv, EntriesOK
<1>11. /\ FilesOK(file') /\ EntryOK(e, file', asked)
       /\ SyncedIn(e, file) <= SyncedIn(e, file')
       /\ \A i \in 1 .. SyncedIn(e, file) :
             i \in 1 .. SyncedIn(e, file') /\ FramesIn(e, file')[i] = FramesIn(e, file)[i]
  <2>1. CASE e.records = NoFile
    <3>1. FilesOK(file')
      BY <1>5, <1>9, <2>1 DEF FilesOK
    <3>2. /\ FramesIn(e, file') = FramesIn(e, file)
          /\ SyncedIn(e, file') = SyncedIn(e, file) /\ SyncedIn(e, file) = 0
      BY <2>1 DEF FramesIn, SyncedIn
    <3> QED
      BY <1>10, <3>1, <3>2 DEF EntryOK
  <2>2. CASE e.records # NoFile
    <3> DEFINE r == e.records
               F == file[r].frames
               k == file[r].synced
    <3>1. r \in Ids
      BY <1>7, <2>2 DEF Entries
    <3>2. /\ F = FramesIn(e, file) /\ k = SyncedIn(e, file)
      BY <2>2 DEF FramesIn, SyncedIn
    <3>3. /\ F \in Seq(Pairs) /\ k \in 0 .. Len(F) /\ k \in Nat /\ Len(F) \in 0 .. MaxSeq
          /\ e.meta \in Metas
      BY <1>7, <3>2, EntryTypes
    <3>4. /\ Ascending(F) /\ Follows(F, e.meta.next) /\ Durable(e.meta, F, k)
          /\ Asked(e.meta, F, asked) /\ (r = NoFile => e.meta = FreshMeta)
      BY <1>10, <3>2 DEF EntryOK
    <3>5. PICK n \in k .. Len(F), torn \in BOOLEAN : file' = Survives(r, n, torn)
      BY <1>6, <2>2
    <3> DEFINE G == SubSeq(F, 1, n)
    <3>6. file' = [i \in Ids |-> IF i # r THEN Empty
                                 ELSE [frames |-> G, synced |-> n, torn |-> torn]]
      BY <3>5 DEF Survives
    <3>7. n \in 0 .. MaxSeq /\ n \in Nat
      BY <3>3, SpoolAssumption
    <3> HIDE DEF F, k
    <3>8. /\ G \in Seq(Pairs) /\ Len(G) = n /\ \A i \in 1 .. n : G[i] = F[i]
          /\ Ascending(G) /\ Follows(G, e.meta.next) /\ Durable(e.meta, G, n)
          /\ Asked(e.meta, G, asked)
      <4>1. Truncates(G, F, n)
        BY DEF Truncates
      <4> HIDE DEF G
      <4> QED
        BY <3>3, <3>4, <4>1, FramesTruncated
    <3> HIDE DEF G
    <3> DEFINE s == [frames |-> G, synced |-> n, torn |-> torn]
    <3>9. s \in Files /\ s.frames = G /\ s.synced = n
      BY <3>7, <3>8 DEF Files
    <3>10. file'[r] = s /\ \A i \in Ids : i # r => file'[i] = Empty
      BY <3>1, <3>6
    <3>11. file' = [i \in Ids |-> IF i # r THEN Empty ELSE s]
      BY <3>6
    <3> HIDE DEF s
    <3>12. file' \in [Ids -> Files]
      BY <1>9, <3>9, <3>11
    <3>13. FilesOK(file')
      <4> SUFFICES ASSUME NEW i \in Ids
                   PROVE  file'[i].synced <= Len(file'[i].frames) /\ Len(file'[i].frames) <= MaxSeq
        BY <3>12 DEF FilesOK
      <4>1. CASE i = r
        <5>1. file'[i].synced = n /\ Len(file'[i].frames) = n
          BY <3>8, <3>9, <3>10, <4>1
        <5> QED
          BY <3>7, <5>1, SpoolAssumption
      <4>2. CASE i # r
        BY <1>9, <3>10, <4>2
      <4> QED
        BY <4>1, <4>2
    <3>14. FramesIn(e, file') = G /\ SyncedIn(e, file') = n
      BY <2>2, <3>9, <3>10 DEF FramesIn, SyncedIn
    <3>15. EntryOK(e, file', asked)
      BY <3>4, <3>8, <3>14 DEF EntryOK
    <3>16. k <= n /\ \A i \in 1 .. k : i \in 1 .. n
      BY <3>3, <3>7
    <3> QED
      BY <3>2, <3>8, <3>13, <3>14, <3>15, <3>16
  <2> QED
    BY <2>1, <2>2
<1>12. Closed \in Handles /\ Len(Closed.kept) <= MaxSeq
  BY ClosedHandle, SpoolAssumption
<1>13. NoExtent \in [id : Ids \cup {NoFile}, synced : 0 .. MaxSeq]
  BY SpoolAssumption DEF NoExtent
<1>14. SpoolTypeOK'
  BY <1>1, <1>7, <1>8, <1>11, <1>12, <1>13 DEF SpoolTypeOK, FilesOK
<1>15. EntriesOK'
  BY <1>1, <1>8, <1>11 DEF EntriesOK, SameEnd
<1>16. ExtentOK(extent', Named', Newest', file')
  <2>1. CASE extent' = NoExtent
    BY <2>1, ExtentForgotten
  <2>2. CASE extent' = extent
    <3>1. ExtentOK(extent, Named, Newest, file)
      BY DEF SpoolInv
    <3>2. ASSUME extent.id # NoFile, e.records = extent.id
          PROVE  extent.synced <= file'[extent.id].synced
      <4>1. extent.synced <= file[extent.id].synced
        BY <1>3, <3>1, <3>2 DEF ExtentOK
      <4>2. file[extent.id].synced <= file'[extent.id].synced
        BY <1>11, <3>2 DEF SyncedIn
      <4>3. extent.id \in Ids /\ extent.synced \in Nat
        BY <1>7, <3>2, SpoolAssumption DEF SpoolTypeOK
      <4>4. file[extent.id].synced \in Nat /\ file'[extent.id].synced \in Nat
        BY <1>7, <1>11, <4>3, SpoolAssumption DEF FilesOK, Files
      <4> QED
        BY <4>1, <4>2, <4>3, <4>4
    <3> QED
      BY <1>3, <1>8, <2>2, <3>1, <3>2 DEF ExtentOK
  <2> QED
    BY <1>1, <2>1, <2>2
<1>17. CommittedOK'
  <2>1. ASSUME NEW f \in committed
        PROVE  Safe(f, e, file', asked)
    <3>1. Safe(f, e, file, asked)
      BY <1>3 DEF SpoolInv, CommittedOK
    <3> QED
      BY <1>11, <3>1 DEF Safe
  <2> QED
    BY <1>1, <1>8, <2>1 DEF CommittedOK
<1>18. SettledOK'
  BY <1>1, <1>3, <1>8 DEF SpoolInv, SettledOK
<1>19. HandlesOK'
  <2> SUFFICES ASSUME NEW q \in Procs
               PROVE  HandleOK(handle'[q], q, file', Named', Newest', extent', lease', lock', asked')
    BY DEF HandlesOK
  <2>1. handle'[q] = Closed
    BY <1>1
  <2> QED
    BY <2>1, ClosedHandle
<1>20. CopiesApart'
  <2>1. Closed.step # "swap" /\ \A q \in Procs : handle'[q] = Closed
    BY <1>1 DEF Closed
  <2> QED
    BY <2>1 DEF CopiesApart, Apart
<1> QED
  BY <1>14, <1>15, <1>16, <1>17, <1>18, <1>19, <1>20 DEF SpoolInv

-----------------------------------------------------------------------------
(* The invariant.                                                          *)

LEMMA SpoolInvInit == SpoolInit => SpoolInv
<1> SUFFICES ASSUME SpoolInit
             PROVE  SpoolInv
  OBVIOUS
<1> DEFINE e == [records |-> NoFile, meta |-> FreshMeta]
<1>1. FreshMeta \in Metas
  BY SpoolAssumption DEF FreshMeta, Metas
<1>2. e \in Entries /\ e.records = NoFile /\ e.meta = FreshMeta
  BY <1>1 DEF Entries
<1>3. directory = <<e>>
  BY DEF SpoolInit
<1> HIDE DEF e
<1>4. directory \in Seq(Entries) /\ directory # <<>> /\ Named = {e} /\ Newest = e
  BY <1>2, <1>3, DirectoryOfOne DEF Named, Newest
<1>5. Empty \in Files /\ Empty.synced <= Len(Empty.frames) /\ Len(Empty.frames) <= MaxSeq
  <2>1. <<>> \in Seq(Pairs) /\ Len(<<>>) = 0
    BY EmptySeq
  <2> QED
    BY <2>1, SpoolAssumption DEF Empty, Files
<1>6. Closed \in Handles /\ Len(Closed.kept) <= MaxSeq
  BY ClosedHandle, SpoolAssumption
<1>7. NoExtent \in [id : Ids \cup {NoFile}, synced : 0 .. MaxSeq]
  BY SpoolAssumption DEF NoExtent
<1>8. /\ file = [i \in Ids |-> Empty] /\ extent = NoExtent /\ lease = Nobody /\ lock = Nobody
      /\ handle = [p \in Procs |-> Closed]
      /\ committed = {} /\ asked = {} /\ settled = {}
  BY DEF SpoolInit
<1>9. SpoolTypeOK
  BY <1>4, <1>5, <1>6, <1>7, <1>8 DEF SpoolTypeOK
<1>10. EntriesOK
  <2>1. FramesIn(e, file) = <<>> /\ SyncedIn(e, file) = 0 /\ DOMAIN <<>> = {}
    BY <1>2 DEF FramesIn, SyncedIn
  <2>2. e.meta.next = 1
    BY <1>2 DEF FreshMeta
  <2>3. EntryOK(e, file, asked)
    BY <1>2, <2>1, <2>2 DEF EntryOK, Ascending, Follows, Durable, Asked
  <2> QED
    BY <1>4, <2>3 DEF EntriesOK, SameEnd
<1>11. ExtentOK(extent, Named, Newest, file)
  BY <1>8, ExtentForgotten
<1>12. CommittedOK /\ SettledOK
  BY <1>8 DEF CommittedOK, SettledOK
<1>13. HandlesOK
  BY <1>8, ClosedHandle DEF HandlesOK
<1>14. CopiesApart
  <2>1. Closed.step # "swap"
    BY DEF Closed
  <2> QED
    BY <1>8, <2>1 DEF CopiesApart, Apart
<1> QED
  BY <1>9, <1>10, <1>11, <1>12, <1>13, <1>14 DEF SpoolInv

LEMMA SpoolInvStep == SpoolInv /\ [SpoolNext]_spoolVars => SpoolInv'
<1> SUFFICES ASSUME SpoolInv, [SpoolNext]_spoolVars
             PROVE  SpoolInv'
  OBVIOUS
<1>1. CASE UNCHANGED spoolVars
  <2>1. /\ file' = file /\ directory' = directory /\ extent' = extent
        /\ lease' = lease /\ lock' = lock /\ handle' = handle
        /\ committed' = committed /\ asked' = asked /\ settled' = settled
    BY <1>1 DEF spoolVars, disk, locks, told
  <2> QED
    BY <2>1 DEF SpoolInv, SpoolTypeOK, EntriesOK, CommittedOK, SettledOK, HandlesOK, CopiesApart,
                Named, Newest
<1>2. ASSUME NEW p \in Procs, Open(p) PROVE SpoolInv'
  BY <1>2, OpenKeeps, OpenRefusedKeeps
<1>3. ASSUME NEW p \in Procs, NEW e \in Events, AppendTorn(p, e) PROVE SpoolInv'
  BY <1>3, AppendTornKeeps
<1>4. ASSUME NEW p \in Procs, Commit(p) PROVE SpoolInv'
  BY <1>4, CommitKeeps
<1>5. ASSUME NEW p \in Procs, Kill(p) PROVE SpoolInv'
  BY <1>5, KillKeeps
<1>6. ASSUME NEW p \in Procs, CommitRecords(p) PROVE SpoolInv'
  BY <1>6, CommitRecordsKeeps
<1>7. ASSUME NEW p \in Procs, SyncData(p) PROVE SpoolInv'
  BY <1>7, SyncDataKeeps
<1>8. ASSUME NEW p \in Procs, PublishExtent(p) PROVE SpoolInv'
  BY <1>8, PublishExtentKeeps
<1>9. ASSUME NEW p \in Procs, PublishMeta(p) PROVE SpoolInv'
  BY <1>9, PublishMetaKeeps
<1>10. ASSUME NEW p \in Procs, SyncMeta(p) PROVE SpoolInv'
  BY <1>10, SyncMetaKeeps
<1>11. ASSUME NEW p \in Procs, AckReturns(p) PROVE SpoolInv'
  BY <1>11, AckReturnsKeeps
<1>12. ASSUME NEW p \in Procs, NEW e \in Events, ReclaimForAppend(p, e) PROVE SpoolInv'
  BY <1>12, ReclaimForAppendKeeps
<1>13. ASSUME NEW p \in Procs, StageReclaim(p) PROVE SpoolInv'
  BY <1>13, StageReclaimKeeps
<1>14. ASSUME NEW p \in Procs, PublishReclaim(p) PROVE SpoolInv'
  BY <1>14, PublishReclaimKeeps
<1>15. ASSUME NEW p \in Procs, NEW e \in Events, AppendRecord(p, e) PROVE SpoolInv'
  BY <1>15, AppendRecordKeeps
<1>16. ASSUME NEW p \in Procs, NEW S \in SUBSET {Frames[i] : i \in PendingAt}, Acknowledge(p, S)
       PROVE  SpoolInv'
  BY <1>16, AcknowledgeKeeps
<1>17. CASE PowerFailure
  BY <1>17, PowerFailureKeeps
<1> QED
  BY <1>1, <1>2, <1>3, <1>4, <1>5, <1>6, <1>7, <1>8, <1>9, <1>10, <1>11, <1>12, <1>13, <1>14,
     <1>15, <1>16, <1>17 DEF SpoolNext

\* Every entry a power failure may bring back opens and holds what was committed,
\* and every handle between two steps of open, append, commit, acknowledge or
\* reclaim holds what its next step relies on.
THEOREM SpoolInvariance == SpoolSpec => []SpoolInv
<1>1. SpoolInit => SpoolInv
  BY SpoolInvInit
<1>2. SpoolInv /\ [SpoolNext]_spoolVars => SpoolInv'
  BY SpoolInvStep
<1> QED
  BY <1>1, <1>2, PTL DEF SpoolSpec

-----------------------------------------------------------------------------
(* What it promises.                                                       *)

\* The spool's state is well formed: what write_meta_staged writes passes
\* validate_meta, and no file is synced beyond its end.
THEOREM SpoolTypeCorrect == SpoolSpec => []SpoolTypeOK
<1>1. SpoolInv => SpoolTypeOK
  BY DEF SpoolInv
<1> QED
  BY <1>1, SpoolInvariance, PTL

LEMMA CommittedHeld == SpoolInv => CommittedNeverLost
<1> SUFFICES ASSUME SpoolInv, NEW f \in committed
             PROVE  IF Settled(Meta, f[1]) THEN f \in asked ELSE f \in ToSet(Frames)
  BY DEF CommittedNeverLost
<1>1. /\ Newest \in Named /\ Meta = Newest.meta /\ Frames = FramesIn(Newest, file)
  BY Basics DEF SpoolInv
<1>2. Safe(f, Newest, file, asked)
  BY <1>1 DEF SpoolInv, CommittedOK
<1>3. /\ Frames \in Seq(Pairs) /\ Asked(Meta, Frames, asked)
      /\ SyncedIn(Newest, file) \in 0 .. Len(Frames)
  BY SequenceFacts
<1>4. CASE \E i \in 1 .. SyncedIn(Newest, file) : Frames[i] = f
  <2>1. PICK i \in 1 .. SyncedIn(Newest, file) : Frames[i] = f
    BY <1>4
  <2>2. i \in DOMAIN Frames
    BY <1>3, <2>1, FrameTypes
  <2> QED
    BY <1>3, <2>1, <2>2 DEF Asked, ToSet
<1> QED
  BY <1>1, <1>2, <1>4 DEF Safe

\* A record whose commit_records returned is in the records file until
\* acknowledge_many was asked to settle that very record, whatever processes die
\* where, however the power fails, and through every reclaim of the file and
\* every reuse of a sequence or of a file identity.
THEOREM CommittedRecordsNeverLost == SpoolSpec => []CommittedNeverLost
BY CommittedHeld, SpoolInvariance, PTL

\* Once acknowledge_many returned, no metadata a power failure may bring back
\* has its records pending again.
THEOREM SettledRecordsStaySettled == SpoolSpec => []SettledStaysSettled
<1>1. SpoolInv => SettledStaysSettled
  <2>1. SpoolInv => Newest \in Named /\ Meta = Newest.meta
    BY Basics DEF SpoolInv
  <2> QED
    BY <2>1 DEF SpoolInv, SettledOK, SettledStaysSettled
<1> QED
  BY <1>1, SpoolInvariance, PTL

-----------------------------------------------------------------------------
(* The byte cap.                                                           *)

\* No file, named or staged, and no replacement about to be written is over it.
FilesFit == \A i \in Ids : Size(file[i]) <= MaxBytes
KeptFits == \A p \in Procs : Len(handle[p].kept) <= MaxBytes
SpoolFits == FilesFit /\ KeptFits

LEMMA SizeFacts ==
    ASSUME NEW f \in Files
    PROVE  /\ Len(f.frames) \in Nat /\ Size(f) \in Nat /\ Len(f.frames) <= Size(f)
           /\ Size(f) <= Len(f.frames) + 1
           /\ ~f.torn => Size(f) = Len(f.frames)
<1>1. f.frames \in Seq(Pairs)
  BY DEF Files
<1>2. Len(f.frames) \in Nat
  BY <1>1, LenProperties
<1>3. CASE f.torn
  BY <1>2, <1>3 DEF Size
<1>4. CASE ~f.torn
  BY <1>2, <1>4 DEF Size
<1> QED
  BY <1>3, <1>4

LEMMA EmptyFits == Empty \in Files /\ Size(Empty) <= MaxBytes
<1>1. <<>> \in Seq(Pairs) /\ Len(<<>>) = 0
  BY EmptySeq
<1> QED
  BY <1>1, SpoolAssumption DEF Empty, Files, Size

LEMMA FileReplacedFits ==
    ASSUME SpoolTypeOK, FilesFit, NEW id \in Ids, NEW r, Size(r) <= MaxBytes,
           file' = [file EXCEPT ![id] = r]
    PROVE  FilesFit'
<1>1. \A i \in Ids : file'[i] = IF i = id THEN r ELSE file[i]
  BY DEF SpoolTypeOK
<1>2. \A i \in Ids : Size(file'[i]) <= MaxBytes
  BY <1>1 DEF FilesFit
<1> QED
  BY <1>2 DEF FilesFit, Size

\* A repaired file is not longer than it was.
LEMMA RepairFits ==
    ASSUME SpoolInv, FilesFit
    PROVE  Repaired \in [Ids -> Files] /\ \A i \in Ids : Size(Repaired[i]) <= MaxBytes
<1>1. SpoolTypeOK /\ file \in [Ids -> Files] /\ MaxBytes \in Nat
  BY SpoolAssumption DEF SpoolInv, SpoolTypeOK
<1>2. CASE ~Torn
  BY <1>1, <1>2 DEF Repaired, FilesFit
<1>3. CASE Torn
  <2>1. Records \in Ids /\ Frames = file[Records].frames
    <3>1. Newest \in Entries /\ Records = Newest.records
      BY <1>1, Basics
    <3> QED
      BY <1>3, <3>1 DEF Entries, Torn, Frames
  <2> DEFINE r == [file[Records] EXCEPT !.torn = FALSE, !.synced = Len(Frames)]
  <2>2. file[Records] \in Files /\ Size(file[Records]) <= MaxBytes /\ Len(Frames) <= MaxSeq
    BY <1>1, <2>1 DEF FilesFit, SpoolTypeOK
  <2>3. r \in Files /\ r.frames = file[Records].frames /\ ~r.torn
    <3>1. Len(Frames) \in 0 .. MaxSeq
      BY <2>1, <2>2, SizeFacts, SpoolAssumption
    <3> QED
      BY <2>2, <3>1 DEF Files
  <2>4. Repaired = [file EXCEPT ![Records] = r]
    BY <1>3 DEF Repaired
  <2> HIDE DEF r
  <2>5. Size(r) <= MaxBytes
    <3>1. Size(r) = Len(file[Records].frames)
      BY <2>3, SizeFacts
    <3>2. Len(file[Records].frames) \in Nat /\ Len(file[Records].frames) <= Size(file[Records])
          /\ Size(file[Records]) \in Nat
      BY <2>2, SizeFacts
    <3> QED
      BY <1>1, <2>2, <3>1, <3>2
  <2>6. \A i \in Ids : Repaired[i] = IF i = Records THEN r ELSE file[i]
    BY <1>1, <2>4
  <2> QED
    BY <1>1, <2>1, <2>3, <2>4, <2>5, <2>6 DEF FilesFit
<1> QED
  BY <1>2, <1>3

LEMMA LoadFits ==
    ASSUME SpoolInv, FilesFit, file' = Repaired
    PROVE  FilesFit'
<1>1. \A i \in Ids : Size(file'[i]) <= MaxBytes
  BY RepairFits
<1> QED
  BY <1>1 DEF FilesFit, Size

LEMMA HandleFits ==
    ASSUME SpoolTypeOK, KeptFits, NEW p \in Procs, NEW h, Len(h.kept) <= MaxBytes,
           handle' = [handle EXCEPT ![p] = h]
    PROVE  KeptFits'
<1>1. \A q \in Procs : handle'[q] = IF q = p THEN h ELSE handle[q]
  BY DEF SpoolTypeOK
<1> QED
  BY <1>1 DEF KeptFits

LEMMA ClosedFits == Len(Closed.kept) <= MaxBytes /\ Len(Reopened.kept) <= MaxBytes
<1>1. Closed.kept = <<>> /\ Reopened.kept = <<>>
  BY DEF Closed, Reopened
<1>2. Len(<<>>) = 0
  BY EmptySeq
<1> QED
  BY <1>1, <1>2, SpoolAssumption

\* What a reclaim keeps is part of the file it replaces.
LEMMA ReclaimFits ==
    ASSUME SpoolInv, FilesFit, NEW p \in Procs
    PROVE  Len(StartReclaim(p).kept) <= MaxBytes
<1>1. /\ Newest \in Entries /\ FilesOK(file) /\ Frames = FramesIn(Newest, file)
      /\ Records = Newest.records
  BY Basics DEF SpoolInv
<1>2. Frames \in Seq(Pairs) /\ Len(Frames) \in 0 .. MaxSeq
  BY <1>1, EntryTypes
<1>3. IsSelection(PendingFrames, Pairs, Frames, PendingAt)
  BY <1>2, SelectedFrames DEF PendingFrames, PendingAt
<1>4. Len(PendingFrames) \in 0 .. Len(Frames)
  BY <1>3 DEF IsSelection
<1>5. Len(Frames) <= MaxBytes
  <2>1. CASE Records = NoFile
    <3>1. Frames = <<>> /\ Len(<<>>) = 0
      BY <2>1, EmptySeq DEF Frames
    <3> QED
      BY <3>1, SpoolAssumption
  <2>2. CASE Records # NoFile
    <3>1. Records \in Ids /\ Frames = file[Records].frames /\ file[Records] \in Files
      BY <1>1, <2>2 DEF Entries, Frames, FilesOK
    <3>2. Len(Frames) \in Nat /\ Len(Frames) <= Size(file[Records]) /\ Size(file[Records]) \in Nat
      BY <3>1, SizeFacts
    <3>3. Size(file[Records]) <= MaxBytes /\ MaxBytes \in Nat
      BY <3>1, SpoolAssumption DEF FilesFit
    <3> QED
      BY <3>2, <3>3
  <2> QED
    BY <2>1, <2>2
<1>6. StartReclaim(p).kept = PendingFrames
  BY DEF StartReclaim, Closed
<1>7. MaxBytes \in Nat /\ Len(Frames) \in Nat
  BY <1>2, SpoolAssumption
<1> QED
  BY <1>4, <1>5, <1>6, <1>7

\* append_frame writes only below the cap.
LEMMA AppendRecordFits ==
    ASSUME SpoolInv, SpoolFits, NEW p \in Procs, NEW e \in Events, AppendRecord(p, e)
    PROVE  SpoolFits'
<1>1. SpoolTypeOK /\ handle \in [Procs -> Handles] /\ file \in [Ids -> Files] /\ FilesFit /\ KeptFits
  BY DEF SpoolInv, SpoolTypeOK, SpoolFits
<1>2. CASE Repeated(p, e) /\ UNCHANGED <<file, directory>>
  <2>1. FilesFit'
    BY <1>1, <1>2 DEF FilesFit, Size
  <2>2. \A q \in Procs : handle'[q].kept = handle[q].kept
    BY <1>1, <1>2 DEF Repeated, Handles
  <2> QED
    BY <1>1, <2>1, <2>2 DEF KeptFits, SpoolFits
<1>3. ASSUME HasRoom(e), NextSequence <= MaxSeq,
             NEW id \in Ids, AppendsTo(id), Written(id, <<NextSequence, e>>),
             handle' = [handle EXCEPT ![p].wants = @ \cup {<<NextSequence, e>>},
                                      ![p].id = id, ![p].end = Len(Frames) + 1]
      PROVE  SpoolFits'
  <2> DEFINE f == <<NextSequence, e>>
             r == IF Records = id THEN [file[id] EXCEPT !.frames = Append(@, f)]
                  ELSE [Empty EXCEPT !.frames = <<f>>]
  <2>1. KeptFits'
    <3>1. \A q \in Procs : handle'[q].kept = handle[q].kept
      BY <1>1, <1>3 DEF Handles
    <3> QED
      BY <1>1, <3>1 DEF KeptFits
  <2>2. file' = [file EXCEPT ![id] = r]
    BY <1>3 DEF Written
  <2>3. f \in Pairs
    <3>1. NextSequence <= MaxSeq
      BY <1>3
    <3>2. NextSequence \in Meta.next .. MaxSeq + 1 /\ Meta.next \in Nat \ {0}
      BY SequenceFacts, MetaTypes, SpoolAssumption
    <3> QED
      BY <3>1, <3>2, SpoolAssumption DEF Pairs
  <2>4. PhysicalLen < MaxBytes /\ MaxBytes \in Nat \ {0}
    BY <1>3, SpoolAssumption DEF HasRoom
  <2> HIDE DEF f
  <2>5. Size(r) <= MaxBytes
    <3>1. CASE Records = id
      <4>1. file[id].frames \in Seq(Pairs) /\ file[id] \in Files /\ Records # NoFile
        BY <1>1, <3>1, SpoolAssumption DEF Files
      <4>2. Len(Append(file[id].frames, f)) = Len(file[id].frames) + 1 /\ Len(file[id].frames) \in Nat
        BY <2>3, <4>1, AppendProperties, LenProperties
      <4>3. r.frames = Append(file[id].frames, f) /\ r.torn = file[id].torn
        BY <3>1, <4>1 DEF Files
      <4>4. PhysicalLen = Size(file[id])
        BY <3>1, <4>1 DEF PhysicalLen
      <4> HIDE DEF r
      <4>5. Size(r) = Size(file[id]) + 1 /\ Size(file[id]) \in Nat
        <5>1. CASE file[id].torn
          BY <4>2, <4>3, <5>1 DEF Size
        <5>2. CASE ~file[id].torn
          BY <4>2, <4>3, <5>2 DEF Size
        <5> QED
          BY <5>1, <5>2
      <4> QED
        BY <2>4, <4>4, <4>5
    <3>2. CASE Records # id
      <4>1. r.frames = <<f>> /\ r.torn = FALSE
        BY <3>2 DEF Empty
      <4>2. Len(<<f>>) = 1
        OBVIOUS
      <4> HIDE DEF r
      <4>3. Size(r) = 1
        BY <4>1, <4>2 DEF Size
      <4> QED
        BY <2>4, <4>3
    <3> QED
      BY <3>1, <3>2
  <2> HIDE DEF r
  <2>6. FilesFit'
    BY <1>1, <2>2, <2>5, FileReplacedFits
  <2> QED
    BY <2>1, <2>6 DEF SpoolFits
<1> QED
  BY <1>2, <1>3 DEF AppendRecord

\* A power failure leaves no more of a file than it had.
LEMMA PowerFailureFits ==
    ASSUME SpoolInv, SpoolFits, PowerFailure
    PROVE  SpoolFits'
<1>0. SpoolTypeOK /\ file \in [Ids -> Files] /\ FilesFit /\ Named \in SUBSET Entries
  BY Basics DEF SpoolInv, SpoolTypeOK, SpoolFits
<1>1. KeptFits'
  <2>1. \A p \in Procs : handle'[p] = Closed
    BY DEF PowerFailure
  <2> QED
    BY <2>1, ClosedFits DEF KeptFits
<1>2. PICK d \in DOMAIN directory :
         IF directory[d].records = NoFile THEN file' = [i \in Ids |-> Empty]
         ELSE \E n \in file[directory[d].records].synced .. Len(file[directory[d].records].frames),
                 torn \in BOOLEAN :
                 /\ torn => n < Len(file[directory[d].records].frames) \/ file[directory[d].records].torn
                 /\ file' = Survives(directory[d].records, n, torn)
  BY DEF PowerFailure
<1> DEFINE r == directory[d].records
<1>3. r \in Ids \cup {NoFile}
  BY <1>0, <1>2 DEF Named, ToSet, Entries
<1>4. CASE r = NoFile
  <2>1. \A i \in Ids : Size(file'[i]) <= MaxBytes
    BY <1>2, <1>4, EmptyFits
  <2> QED
    BY <1>1, <2>1 DEF SpoolFits, FilesFit, Size
<1>5. CASE r # NoFile
  <2>0. r \in Ids
    BY <1>3, <1>5
  <2> HIDE DEF r
  <2>1. PICK n \in file[r].synced .. Len(file[r].frames), torn \in BOOLEAN :
           /\ torn => n < Len(file[r].frames) \/ file[r].torn
           /\ file' = Survives(r, n, torn)
    BY <1>2, <1>5 DEF r
  <2>2. /\ file[r] \in Files /\ file[r].frames \in Seq(Pairs) /\ file[r].synced \in Nat
        /\ Len(file[r].frames) \in Nat /\ Size(file[r]) <= MaxBytes
    BY <1>0, <2>0, LenProperties, BoundsAreNatural DEF Files, FilesFit
  <2> DEFINE s == [frames |-> SubSeq(file[r].frames, 1, n), synced |-> n, torn |-> torn]
  <2>3. n \in 0 .. Len(file[r].frames) /\ n \in Nat
    BY <2>1, <2>2
  <2>4. Len(SubSeq(file[r].frames, 1, n)) = n
    BY <2>2, <2>3, SubSeqProperties
  <2>5. Size(s) <= MaxBytes
    <3>1. s.frames = SubSeq(file[r].frames, 1, n) /\ s.torn = torn
      OBVIOUS
    <3> HIDE DEF s
    <3>2. CASE ~torn
      <4>1. Size(s) = n
        BY <2>3, <2>4, <3>1, <3>2 DEF Size
      <4>2. Len(file[r].frames) <= Size(file[r]) /\ Size(file[r]) \in Nat
        BY <2>2, SizeFacts
      <4> QED
        BY <2>2, <2>3, <4>1, <4>2, BoundsAreNatural
    <3>3. CASE torn
      <4>1. Size(s) = n + 1
        BY <2>3, <2>4, <3>1, <3>3 DEF Size
      <4>2. CASE file[r].torn
        <5>1. Size(file[r]) = Len(file[r].frames) + 1
          BY <2>2, <4>2 DEF Size
        <5> QED
          BY <2>2, <2>3, <4>1, <5>1, BoundsAreNatural
      <4>3. CASE n < Len(file[r].frames)
        <5>1. Len(file[r].frames) <= Size(file[r]) /\ Size(file[r]) \in Nat
          BY <2>2, SizeFacts
        <5> QED
          BY <2>2, <2>3, <4>1, <4>3, <5>1, BoundsAreNatural
      <4> QED
        BY <2>1, <3>3, <4>2, <4>3
    <3> QED
      BY <3>2, <3>3
  <2>6. \A i \in Ids : file'[i] = IF i # r THEN Empty ELSE s
    BY <2>1 DEF Survives
  <2> HIDE DEF s
  <2>7. \A i \in Ids : Size(file'[i]) <= MaxBytes
    BY <2>5, <2>6, EmptyFits
  <2> QED
    BY <1>1, <2>7 DEF SpoolFits, FilesFit, Size
<1> QED
  BY <1>4, <1>5

\* Every step leaves files and replacements within the cap.
LEMMA SpoolFitsStep == SpoolInv /\ SpoolFits /\ [SpoolNext]_spoolVars => SpoolFits'
<1> SUFFICES ASSUME SpoolInv, SpoolFits, [SpoolNext]_spoolVars
             PROVE  SpoolFits'
  OBVIOUS
<1>0. /\ SpoolTypeOK /\ handle \in [Procs -> Handles] /\ file \in [Ids -> Files]
      /\ FilesFit /\ KeptFits
  BY DEF SpoolInv, SpoolTypeOK, SpoolFits
<1>a. ASSUME file' = file PROVE FilesFit'
  BY <1>0, <1>a DEF FilesFit, Size
<1>b. ASSUME \A q \in Procs : handle'[q].kept = handle[q].kept PROVE KeptFits'
  BY <1>0, <1>b DEF KeptFits
<1>c. ASSUME NEW p \in Procs, handle' = [handle EXCEPT ![p] = Closed] PROVE KeptFits'
  BY <1>0, <1>c, ClosedFits, HandleFits
<1>d. ASSUME NEW p \in Procs, handle' = [handle EXCEPT ![p] = Reopened] PROVE KeptFits'
  BY <1>0, <1>d, ClosedFits, HandleFits
<1>e. ASSUME NEW p \in Procs, handle' = [handle EXCEPT ![p] = StartReclaim(p)] PROVE KeptFits'
  BY <1>0, <1>e, ReclaimFits, HandleFits
<1>f. ASSUME NEW p \in Procs, Resume(p) PROVE KeptFits'
  <2>1. CASE handle' = [handle EXCEPT ![p] = Closed]
    BY <2>1, <1>c
  <2>2. CASE handle' = [handle EXCEPT ![p].step = handle[p].then, ![p].claim = 0]
    <3>1. \A q \in Procs : handle'[q].kept = handle[q].kept
      BY <1>0, <2>2 DEF Handles
    <3> QED
      BY <3>1, <1>b
  <2> QED
    BY <1>f, <2>1, <2>2 DEF Resume
<1>1. CASE UNCHANGED spoolVars
  <2>1. file' = file /\ handle' = handle
    BY <1>1 DEF spoolVars, disk
  <2> QED
    BY <2>1, <1>a, <1>b DEF SpoolFits
<1>2. ASSUME NEW p \in Procs, Open(p) PROVE SpoolFits'
  <2>1. file' = Repaired /\ (handle' = [handle EXCEPT ![p].step = "open"] \/ handle' = handle)
    BY <1>2 DEF Open
  <2>2. \A q \in Procs : handle'[q].kept = handle[q].kept
    <3>1. CASE handle' = handle
      BY <3>1
    <3>2. CASE handle' = [handle EXCEPT ![p].step = "open"]
      BY <1>0, <3>2 DEF Handles
    <3> QED
      BY <2>1, <3>1, <3>2
  <2> QED
    BY <1>0, <1>b, <2>1, <2>2, LoadFits DEF SpoolFits
<1>3. ASSUME NEW p \in Procs, NEW e \in Events, AppendTorn(p, e) PROVE SpoolFits'
  <2>1. /\ HasRoom(e) /\ Records # NoFile
        /\ file' = [file EXCEPT ![Records].torn = TRUE]
        /\ handle' = [handle EXCEPT ![p] = Closed]
    BY <1>3 DEF AppendTorn
  <2>2. Records \in Ids
    <3>1. Newest \in Entries /\ Records = Newest.records
      BY <1>0, Basics
    <3> QED
      BY <2>1, <3>1 DEF Entries
  <2> DEFINE r == [file[Records] EXCEPT !.torn = TRUE]
  <2>3. file[Records] \in Files /\ Size(file[Records]) < MaxBytes
    BY <1>0, <2>1, <2>2 DEF HasRoom, PhysicalLen
  <2>4. file' = [file EXCEPT ![Records] = r] /\ r \in Files /\ r.frames = file[Records].frames
    BY <2>1, <2>3 DEF Files
  <2> HIDE DEF r
  <2>5. Size(r) <= MaxBytes
    <3>1. /\ Len(file[Records].frames) \in Nat /\ Size(file[Records]) \in Nat
          /\ Len(file[Records].frames) <= Size(file[Records])
      BY <2>3, SizeFacts
    <3>2. Size(r) \in Nat /\ Size(r) <= Len(file[Records].frames) + 1
      BY <2>4, SizeFacts
    <3> QED
      BY <2>3, <3>1, <3>2, BoundsAreNatural
  <2>6. FilesFit'
    BY <1>0, <2>2, <2>4, <2>5, FileReplacedFits
  <2> QED
    BY <1>c, <2>1, <2>6 DEF SpoolFits
<1>4. ASSUME NEW p \in Procs, Commit(p) PROVE SpoolFits'
  <2>1. file' = file
    BY <1>4 DEF Commit, disk
  <2>2. CASE handle' = [handle EXCEPT ![p] = Closed]
    BY <1>a, <1>c, <2>1, <2>2 DEF SpoolFits
  <2>3. CASE handle' = [handle EXCEPT ![p].step = "sync", ![p].then = "idle"]
    <3>1. \A q \in Procs : handle'[q].kept = handle[q].kept
      BY <1>0, <2>3 DEF Handles
    <3> QED
      BY <1>a, <1>b, <2>1, <3>1 DEF SpoolFits
  <2> QED
    BY <1>4, <2>2, <2>3 DEF Commit
<1>5. ASSUME NEW p \in Procs, Kill(p) PROVE SpoolFits'
  <2>1. file' = Dropped(p) /\ handle' = [handle EXCEPT ![p] = Closed]
    BY <1>5 DEF Kill
  <2>2. CASE handle[p].copy = NoFile
    <3>1. file' = file
      BY <2>1, <2>2 DEF Dropped
    <3> QED
      BY <1>a, <1>c, <2>1, <3>1 DEF SpoolFits
  <2>3. CASE handle[p].copy # NoFile
    <3>1. handle[p].copy \in Ids /\ file' = [file EXCEPT ![handle[p].copy] = Empty]
      BY <1>0, <2>1, <2>3 DEF Dropped, Handles
    <3>2. FilesFit'
      BY <1>0, <3>1, EmptyFits, FileReplacedFits
    <3> QED
      BY <1>c, <2>1, <3>2 DEF SpoolFits
  <2> QED
    BY <2>2, <2>3
<1>6. ASSUME NEW p \in Procs, CommitRecords(p) PROVE SpoolFits'
  <2>1. file' = file
    BY <1>6 DEF CommitRecords, CompactedAway, disk
  <2>2. CASE Resume(p)
    BY <1>a, <1>f, <2>1, <2>2 DEF SpoolFits
  <2>3. ASSUME NEW claim, handle' = [handle EXCEPT ![p].step = "data", ![p].claim = claim]
        PROVE  SpoolFits'
    <3>1. \A q \in Procs : handle'[q].kept = handle[q].kept
      BY <1>0, <2>3 DEF Handles
    <3> QED
      BY <1>a, <1>b, <2>1, <3>1 DEF SpoolFits
  <2> QED
    BY <1>6, <2>2, <2>3 DEF CommitRecords, CompactedAway
<1>7. ASSUME NEW p \in Procs, SyncData(p) PROVE SpoolFits'
  <2>1. /\ handle[p].step = "data"
        /\ file' = [file EXCEPT ![handle[p].id].synced = Len(file[handle[p].id].frames)]
        /\ handle' = [handle EXCEPT ![p].step = "extent"]
    BY <1>7 DEF SyncData
  <2>2. \A q \in Procs : handle'[q].kept = handle[q].kept
    BY <1>0, <2>1 DEF Handles
  <2>3. \A i \in Ids : file'[i].frames = file[i].frames /\ file'[i].torn = file[i].torn
    BY <1>0, <2>1 DEF Files
  <2>4. FilesFit'
    BY <1>0, <2>3 DEF FilesFit, Size
  <2> QED
    BY <1>b, <2>2, <2>4 DEF SpoolFits
<1>8. ASSUME NEW p \in Procs, PublishExtent(p) PROVE SpoolFits'
  BY <1>8, <1>a, <1>f DEF PublishExtent, SpoolFits
<1>9. ASSUME NEW p \in Procs, PublishMeta(p) PROVE SpoolFits'
  <2>1. FilesFit'
    BY <1>0, <1>9, LoadFits DEF PublishMeta
  <2> DEFINE h == [Closed EXCEPT !.step = "barrier", !.acks = handle[p].acks]
  <2>2. CASE handle' = [handle EXCEPT ![p] = h]
    <3>1. h.kept = Closed.kept
      BY DEF Closed
    <3> HIDE DEF h
    <3> QED
      BY <1>0, <2>1, <2>2, <3>1, ClosedFits, HandleFits DEF SpoolFits
  <2>3. CASE handle' = [handle EXCEPT ![p] = Reopened]
    BY <1>d, <2>1, <2>3 DEF SpoolFits
  <2> QED
    BY <1>9, <2>2, <2>3 DEF PublishMeta
<1>10. ASSUME NEW p \in Procs, SyncMeta(p) PROVE SpoolFits'
  <2>1. file' = file /\ handle' = [handle EXCEPT ![p].step = "return"]
    BY <1>10 DEF SyncMeta
  <2>2. \A q \in Procs : handle'[q].kept = handle[q].kept
    BY <1>0, <2>1 DEF Handles
  <2> QED
    BY <1>a, <1>b, <2>1, <2>2 DEF SpoolFits
<1>11. ASSUME NEW p \in Procs, AckReturns(p) PROVE SpoolFits'
  <2>1. FilesFit'
    BY <1>0, <1>11, LoadFits DEF AckReturns
  <2>2. \/ handle' = [handle EXCEPT ![p] = StartReclaim(p)]
        \/ handle' = [handle EXCEPT ![p] = Reopened]
    BY <1>11 DEF AckReturns
  <2> QED
    BY <1>d, <1>e, <2>1, <2>2 DEF SpoolFits
<1>12. ASSUME NEW p \in Procs, NEW e \in Events, ReclaimForAppend(p, e) PROVE SpoolFits'
  BY <1>12, <1>a, <1>e DEF ReclaimForAppend, disk, SpoolFits
<1>13. ASSUME NEW p \in Procs, StageReclaim(p) PROVE SpoolFits'
  <2> DEFINE r == [frames |-> handle[p].kept, torn |-> FALSE, synced |-> Len(handle[p].kept)]
  <2>1. PICK id \in Ids : /\ file' = [file EXCEPT ![id] = r]
                          /\ handle' = [handle EXCEPT ![p].step = "swap", ![p].copy = id]
    BY <1>13 DEF StageReclaim
  <2>2. Size(r) <= MaxBytes
    <3>1. handle[p].kept \in Seq(Pairs) /\ Len(handle[p].kept) <= MaxBytes
      BY <1>0 DEF KeptFits, Handles
    <3>2. Len(handle[p].kept) \in Nat
      BY <3>1, LenProperties
    <3> QED
      BY <3>1, <3>2 DEF Size
  <2> HIDE DEF r
  <2>3. FilesFit'
    BY <1>0, <2>1, <2>2, FileReplacedFits
  <2>4. \A q \in Procs : handle'[q].kept = handle[q].kept
    BY <1>0, <2>1 DEF Handles
  <2> QED
    BY <1>b, <2>3, <2>4 DEF SpoolFits
<1>14. ASSUME NEW p \in Procs, PublishReclaim(p) PROVE SpoolFits'
  <2>1. KeptFits'
    BY <1>14, <1>d DEF PublishReclaim
  <2>2. CASE file' = Repaired
    BY <1>0, <2>1, <2>2, LoadFits DEF SpoolFits
  <2>3. CASE file' = [Repaired EXCEPT ![handle[p].copy] = Empty]
    <3>1. Repaired \in [Ids -> Files] /\ \A i \in Ids : Size(Repaired[i]) <= MaxBytes
      BY <1>0, RepairFits
    <3>2. \A i \in Ids : file'[i] \in {Repaired[i], Empty}
      BY <2>3, <3>1
    <3>3. \A i \in Ids : Size(file'[i]) <= MaxBytes
      BY <3>1, <3>2, EmptyFits
    <3>4. FilesFit'
      BY <3>3 DEF FilesFit, Size
    <3> QED
      BY <2>1, <3>4 DEF SpoolFits
  <2> QED
    BY <1>14, <2>2, <2>3 DEF PublishReclaim
<1>15. ASSUME NEW p \in Procs, NEW e \in Events, AppendRecord(p, e) PROVE SpoolFits'
  BY <1>15, AppendRecordFits
<1>16. ASSUME NEW p \in Procs, NEW S, Acknowledge(p, S) PROVE SpoolFits'
  <2>1. file' = file
    BY <1>16 DEF Acknowledge, disk
  <2>2. \A q \in Procs : handle'[q].kept = handle[q].kept
    BY <1>0, <1>16 DEF Acknowledge, Handles
  <2> QED
    BY <1>a, <1>b, <2>1, <2>2 DEF SpoolFits
<1>17. CASE PowerFailure
  BY <1>17, PowerFailureFits
<1> QED
  BY <1>1, <1>2, <1>3, <1>4, <1>5, <1>6, <1>7, <1>8, <1>9, <1>10, <1>11, <1>12, <1>13, <1>14,
     <1>15, <1>16, <1>17 DEF SpoolNext

LEMMA SpoolFitsAlways == SpoolSpec => []SpoolFits
<1>1. SpoolInit => SpoolFits
  BY EmptyFits, ClosedFits DEF SpoolInit, SpoolFits, FilesFit, KeptFits
<1>2. SpoolInv /\ SpoolFits /\ [SpoolNext]_spoolVars => SpoolFits'
  BY SpoolFitsStep
<1> QED
  BY <1>1, <1>2, SpoolInvariance, PTL DEF SpoolSpec

-----------------------------------------------------------------------------
(* What an open finds.                                                     *)

LEMMA SpoolScans == SpoolInv /\ SpoolFits /\ Len(Frames) <= MaxRecords => ScanSound
<1> SUFFICES ASSUME SpoolInv, SpoolFits, Len(Frames) <= MaxRecords
             PROVE  ScanSound
  OBVIOUS
<1>1. /\ FilesOK(file) /\ Newest \in Named /\ Newest \in Entries
      /\ Records = Newest.records /\ Frames = FramesIn(Newest, file)
  BY Basics DEF SpoolInv
<1>2. /\ Frames \in Seq(Pairs) /\ Len(Frames) \in 0 .. MaxSeq
      /\ SyncedIn(Newest, file) \in 0 .. Len(Frames) /\ SyncedIn(Newest, file) \in Nat
  BY SequenceFacts
<1>3. PhysicalLen <= MaxBytes
  <2>1. CASE Records = NoFile
    BY <2>1, BoundsAreNatural DEF PhysicalLen
  <2>2. CASE Records # NoFile
    BY <1>1, <2>2 DEF PhysicalLen, Entries, SpoolFits, FilesFit
  <2> QED
    BY <2>1, <2>2
<1>4. ASSUME NEW i \in 2 .. Len(Frames)
      PROVE  Frames[i - 1][1] < Frames[i][1]
  <2>1. Ascending(Frames)
    BY <1>1 DEF SpoolInv, EntriesOK, EntryOK
  <2>2. i \in DOMAIN Frames /\ i - 1 \in DOMAIN Frames /\ i - 1 < i
    BY <1>2, <1>4, FrameTypes
  <2> QED
    BY <2>1, <2>2 DEF Ascending
<1>5. ASSUME Torn, extent.id = Records
      PROVE  ~(extent.synced > Len(Frames))
  <2>1. Records # NoFile
    BY <1>5 DEF Torn
  <2>2. extent.synced <= SyncedIn(Newest, file)
    BY <1>1, <1>5, <2>1 DEF SpoolInv, ExtentOK, SyncedIn
  <2>3. extent.synced \in Nat
    BY BoundsAreNatural DEF SpoolInv, SpoolTypeOK
  <2>4. Len(Frames) \in Nat
    BY <1>2
  <2> QED
    BY <1>2, <2>2, <2>3, <2>4
<1> QED
  BY <1>3, <1>4, <1>5 DEF ScanSound

LEMMA SpoolOpens == SpoolInv /\ SpoolFits => OpensHealthy
<1> SUFFICES ASSUME SpoolInv, SpoolFits, RecordsBounded, SessionsFit
             PROVE  OpenSound
  BY DEF OpensHealthy
<1>2. /\ Frames \in Seq(Pairs) /\ Meta \in Metas /\ Len(Frames) \in 0 .. MaxSeq
      /\ Durable(Meta, Frames, SyncedIn(Newest, file))
      /\ SyncedIn(Newest, file) \in 0 .. Len(Frames) /\ SyncedIn(Newest, file) \in Nat
      /\ Contiguous /\ NextSequence \in Meta.next .. MaxSeq + 1
      /\ \A s \in Meta.next .. NextSequence - 1 : \E i \in DOMAIN Frames : Frames[i][1] = s
  BY SequenceFacts
<1>3. ScanSound
  BY SpoolScans DEF RecordsBounded
<1>4. RecordsMatchMeta
  <2> SUFFICES ASSUME NEW s \in (Meta.through + 1) .. (NextSequence - 1)
               PROVE  s \in Meta.acked \/ s \in SeqsOf(Frames)
    BY DEF RecordsMatchMeta, RecordsBounded
  <2>1. Meta.next \in Nat /\ Meta.through \in Nat /\ MaxSeq \in Nat
    BY <1>2, MetaTypes, SpoolAssumption
  <2>2. CASE s < Meta.next
    <3>1. s \in 1 .. Meta.next - 1 /\ ~(s <= Meta.through)
      BY <1>2, <2>1, <2>2
    <3>2. Settled(Meta, s) \/ \E i \in 1 .. SyncedIn(Newest, file) : Frames[i][1] = s
      BY <1>2, <3>1 DEF Durable
    <3>3. \A i \in 1 .. SyncedIn(Newest, file) : i \in DOMAIN Frames
      BY <1>2, FrameTypes
    <3> QED
      BY <3>1, <3>2, <3>3 DEF Settled, SeqsOf
  <2>3. CASE ~(s < Meta.next)
    <3>1. s \in Meta.next .. NextSequence - 1
      BY <1>2, <2>1, <2>3
    <3> QED
      BY <1>2, <3>1 DEF SeqsOf
  <2> QED
    BY <2>2, <2>3
<1> QED
  BY <1>2, <1>3, <1>4 DEF OpenSound

\* Whatever died or failed, open_after_lease refuses a spool for nothing but a
\* number of records, max_host_records or a session's limit: scan_records finds
\* the file within the byte cap, its sequences ascending and no torn tail inside
\* a published sync, advance_next_sequence no gap after the metadata, and
\* validate_meta_against_records no unsettled sequence without its frame.
THEOREM OpensRefusedForCountsOnly == SpoolSpec => []OpensHealthy
BY SpoolOpens, SpoolInvariance, SpoolFitsAlways, PTL

==============================================================================
