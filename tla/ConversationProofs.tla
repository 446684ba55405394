-------------------------- MODULE ConversationProofs --------------------------
(* What a conversation may rely on, for any paths, sizes, host trees and       *)
(* limits: first what the operators of Workspace compute, by induction on the  *)
(* set of files or of positions, then the invariants of Conversation.          *)
EXTENDS Conversation, FiniteSetTheorems, TLAPS

----------------------------------------------------------------------------
(* Induction over data. *)

\* A family of sets has a member that is smaller than any it can be compared with.
HasMinimal(T) == T # {} => \E m \in T : \A y \in T : y \subseteq m => y = m

\* A family of subsets of a finite set has a smallest member: each proof by induction
\* over data below takes the smallest counterexample.
LEMMA MinimalSubset ==
    ASSUME NEW S, IsFiniteSet(S), NEW T, T \subseteq SUBSET S
    PROVE  HasMinimal(T)
  <1>1. IsWellFoundedOn(StrictSubsetOrdering(S), FiniteSubsetsOf(S))
    BY FS_StrictSubsetOrderingWellFounded
  <1>2. T \subseteq FiniteSubsetsOf(S)
    BY FS_Subset DEF FiniteSubsetsOf
  <1>3. ASSUME T # {} PROVE \E m \in T : \A y \in T : <<y, m>> \notin StrictSubsetOrdering(S)
    BY <1>1, <1>2, <1>3, WFMin
  <1> QED BY <1>3 DEF StrictSubsetOrdering, HasMinimal

----------------------------------------------------------------------------
(* Total counts bytes. *)

Sized(fs) == IsFiniteSet(DOMAIN fs) /\ \A p \in DOMAIN fs : fs[p].size \in Nat

\* The bytes of the files S of fs, each a pair of its path and its position.
Bytes(fs, S) == {b \in S \X Nat : b[2] \in 1..fs[b[1]].size}

\* One file has as many bytes as its size.
LEMMA BytesOfOne ==
    ASSUME NEW fs, NEW p, fs[p].size \in Nat
    PROVE  IsFiniteSet(Bytes(fs, {p})) /\ Cardinality(Bytes(fs, {p})) = fs[p].size
  <1>0. PICK n \in Nat : n = fs[p].size
    OBVIOUS
  <1> DEFINE f == [i \in 1..n |-> <<p, i>>]
  <1>1. IsFiniteSet(1..n) /\ Cardinality(1..n) = n
    BY FS_Interval
  <1>2. f \in Bijection(1..n, Bytes(fs, {p}))
    <2>1. f \in [1..n -> Bytes(fs, {p})]
      BY <1>0 DEF Bytes
    <2>2. \A i, j \in 1..n : f[i] = f[j] => i = j
      OBVIOUS
    <2>3. \A b \in Bytes(fs, {p}) : \E i \in 1..n : f[i] = b
      <3> TAKE b \in Bytes(fs, {p})
      <3>1. b = <<p, b[2]>> /\ b[2] \in 1..n
        BY <1>0 DEF Bytes
      <3> QED BY <3>1
    <2> QED BY <2>1, <2>2, <2>3 DEF Bijection, Injection, Surjection, IsInjective
  <1>3. ExistsBijection(1..n, Bytes(fs, {p}))
    BY <1>2 DEF ExistsBijection
  <1> QED BY <1>0, <1>1, <1>3, FS_Bijection

\* One more file adds its size to the bytes.
LEMMA BytesAdd ==
    ASSUME NEW fs, NEW S, NEW p, p \notin S, fs[p].size \in Nat,
           IsFiniteSet(Bytes(fs, S))
    PROVE  /\ IsFiniteSet(Bytes(fs, S \cup {p}))
           /\ Cardinality(Bytes(fs, S \cup {p})) = fs[p].size + Cardinality(Bytes(fs, S))
  <1>1. Bytes(fs, S \cup {p}) = Bytes(fs, S) \cup Bytes(fs, {p})
    BY DEF Bytes
  <1>2. Bytes(fs, S) \cap Bytes(fs, {p}) = {}
    BY DEF Bytes
  <1>3. Cardinality(Bytes(fs, S)) \in Nat
    BY FS_CardinalityType
  <1>4. /\ IsFiniteSet(Bytes(fs, {p})) /\ Cardinality(Bytes(fs, {p})) = fs[p].size
    BY BytesOfOne
  <1>5. ASSUME NEW A, NEW B, IsFiniteSet(A), IsFiniteSet(B), A \cap B = {}
        PROVE  IsFiniteSet(A \cup B) /\ Cardinality(A \cup B) = Cardinality(A) + Cardinality(B)
    <2>1. Cardinality(A \cup B) = Cardinality(A) + Cardinality(B) - Cardinality({})
      BY <1>5, FS_Union
    <2>2. Cardinality(A) \in Nat /\ Cardinality(B) \in Nat /\ Cardinality({}) = 0
      BY <1>5, FS_CardinalityType, FS_EmptySet
    <2> QED BY <1>5, <2>1, <2>2, FS_Union
  <1>6. /\ IsFiniteSet(Bytes(fs, S) \cup Bytes(fs, {p}))
        /\ Cardinality(Bytes(fs, S) \cup Bytes(fs, {p}))
             = Cardinality(Bytes(fs, S)) + Cardinality(Bytes(fs, {p}))
    BY <1>2, <1>4, <1>5
  <1> QED BY <1>1, <1>3, <1>4, <1>6

\* A workspace of files of finite size has finitely many bytes.
LEMMA BytesFinite ==
    ASSUME NEW fs, Sized(fs), NEW S \in SUBSET DOMAIN fs
    PROVE  IsFiniteSet(Bytes(fs, S))
  <1> DEFINE Bad == {s \in SUBSET DOMAIN fs : ~IsFiniteSet(Bytes(fs, s))}
  <1>1. SUFFICES ASSUME Bad # {} PROVE FALSE
    OBVIOUS
  <1>2. PICK m \in Bad : \A y \in Bad : y \subseteq m => y = m
    <2>1. Bad \subseteq SUBSET DOMAIN fs /\ IsFiniteSet(DOMAIN fs)
      BY DEF Sized
    <2>2. HasMinimal(Bad)
      BY <2>1, MinimalSubset, Zenon
    <2> QED BY <1>1, <2>2 DEF HasMinimal
  <1>3. m # {}
    <2>1. Bytes(fs, {}) = {}
      BY DEF Bytes
    <2> QED BY <2>1, FS_EmptySet
  <1>4. PICK p \in m : TRUE
    BY <1>3
  <1>5. IsFiniteSet(Bytes(fs, m \ {p}))
    BY <1>2
  <1>6. m = (m \ {p}) \cup {p}
    OBVIOUS
  <1> QED BY <1>5, <1>6, BytesAdd DEF Sized

\* The function that Total computes by recursion.
Sums(fs) ==
    CHOOSE iter : iter = [s \in SUBSET DOMAIN fs |->
        IF s = {} THEN 0
        ELSE fs[CHOOSE x \in s : TRUE].size + iter[s \ {CHOOSE x \in s : TRUE}]]

\* Total unfolds to the function that the fold of the library chooses.
LEMMA TotalIsSum == ASSUME NEW fs PROVE Total(fs) = Sums(fs)[DOMAIN fs]
  BY DEF Total, MapThenSumSet, MapThenFoldSet, Sums

\* Total(fs) is the number of bytes of fs.
LEMMA TotalIsBytes ==
    ASSUME NEW fs, Sized(fs)
    PROVE  Total(fs) = Cardinality(Bytes(fs, DOMAIN fs))
  <1> DEFINE D == DOMAIN fs
             c(s) == CHOOSE x \in s : TRUE
             h == [s \in SUBSET D |-> Cardinality(Bytes(fs, s))]
             Step(g) == [s \in SUBSET D |->
                            IF s = {} THEN 0 ELSE fs[c(s)].size + g[s \ {c(s)}]]
  <1>1. \A s \in SUBSET D : s # {} => c(s) \in s
    OBVIOUS
  <1>2. ASSUME NEW s \in SUBSET D
        PROVE  h[s] = IF s = {} THEN 0 ELSE fs[c(s)].size + h[s \ {c(s)}]
    <2>1. CASE s = {}
      <3>1. Bytes(fs, {}) = {}
        BY DEF Bytes
      <3> QED BY <2>1, <3>1, FS_EmptySet
    <2>2. ASSUME s # {}, NEW x, x = c(s) PROVE h[s] = fs[x].size + h[s \ {x}]
      <3>1. x \in s /\ s = (s \ {x}) \cup {x}
        BY <2>2
      <3>2. IsFiniteSet(Bytes(fs, s \ {x})) /\ fs[x].size \in Nat
        BY <3>1, BytesFinite DEF Sized
      <3>3. Cardinality(Bytes(fs, s)) = fs[x].size + Cardinality(Bytes(fs, s \ {x}))
        BY <3>1, <3>2, BytesAdd
      <3> QED BY <3>1, <3>3
    <2> QED BY <2>1, <2>2
  <1>3. h = Step(h)
    BY <1>2
  <1>4. Sums(fs) = Step(Sums(fs))
    BY <1>3 DEF Sums
  <1>5. ASSUME NEW s \in SUBSET D, Sums(fs)[s] # h[s] PROVE FALSE
    <2> DEFINE Bad == {t \in SUBSET D : Sums(fs)[t] # h[t]}
    <2>1. PICK m \in Bad : \A y \in Bad : y \subseteq m => y = m
      <3>1. Bad \subseteq SUBSET D /\ Bad # {} /\ IsFiniteSet(D)
        BY <1>5 DEF Sized
      <3>2. HasMinimal(Bad)
        BY <3>1, MinimalSubset, Zenon
      <3> QED BY <3>1, <3>2 DEF HasMinimal
    <2>2. m \in SUBSET D /\ Sums(fs)[m] # h[m]
      OBVIOUS
    <2>3. Sums(fs)[m] = IF m = {} THEN 0 ELSE fs[c(m)].size + Sums(fs)[m \ {c(m)}]
      BY <1>4, <2>2
    <2>4. m # {}
      BY <1>2, <2>2, <2>3
    <2>5. c(m) \in m /\ m \ {c(m)} \notin Bad /\ m \ {c(m)} \in SUBSET D
      BY <1>1, <2>1, <2>2, <2>4
    <2>6. Sums(fs)[m \ {c(m)}] = h[m \ {c(m)}]
      BY <2>5
    <2> QED BY <1>2, <2>2, <2>3, <2>4, <2>6
  <1>6. Sums(fs)[D] = h[D]
    BY <1>5
  <1> QED BY <1>6, TotalIsSum

\* The total of no file, and that of one file more.
LEMMA TotalIsNat == ASSUME NEW fs, Sized(fs) PROVE Total(fs) \in Nat
  BY BytesFinite, TotalIsBytes, FS_CardinalityType

\* No file has no byte.
LEMMA TotalEmpty == Total(Empty) = 0
  <1>1. Sized(Empty) /\ DOMAIN Empty = {}
    BY FS_EmptySet DEF Sized, Empty
  <1>2. Bytes(Empty, {}) = {}
    BY DEF Bytes
  <1> QED BY <1>1, <1>2, TotalIsBytes, FS_EmptySet

\* A path that is new adds its size to the total: what _COLLECTOR counts as it goes.
LEMMA TotalWith ==
    ASSUME NEW fs, Sized(fs), NEW p, p \notin DOMAIN fs, NEW e, e.size \in Nat
    PROVE  /\ Sized(With(fs, p, e))
           /\ Total(fs) \in Nat
           /\ Total(With(fs, p, e)) = Total(fs) + e.size
  <1> DEFINE D == DOMAIN fs
             gs == With(fs, p, e)
  <1>1. /\ DOMAIN gs = D \cup {p} /\ gs[p] = e
        /\ \A q \in D : gs[q] = fs[q]
    BY DEF With
  <1>2. Sized(gs)
    BY <1>1, FS_AddElement DEF Sized
  <1>3. Bytes(gs, D) = Bytes(fs, D)
    BY <1>1 DEF Bytes
  <1>4. IsFiniteSet(Bytes(fs, D)) /\ Total(fs) = Cardinality(Bytes(fs, D))
    BY BytesFinite, TotalIsBytes
  <1>5. Total(gs) = Cardinality(Bytes(gs, D \cup {p}))
    BY <1>1, <1>2, TotalIsBytes
  <1>6. Cardinality(Bytes(gs, D \cup {p})) = gs[p].size + Cardinality(Bytes(gs, D))
    BY <1>1, <1>3, <1>4, BytesAdd
  <1>7. Cardinality(Bytes(fs, D)) \in Nat
    BY <1>4, FS_CardinalityType
  <1> QED BY <1>1, <1>2, <1>3, <1>4, <1>5, <1>6, <1>7

----------------------------------------------------------------------------
(* What a pass of the collector returns. *)

Start == [files |-> Empty, trunc |-> <<>>, total |-> 0]

\* The function that Collected computes by recursion.
Passes(w, order) ==
    CHOOSE iter : iter = [s \in SUBSET DOMAIN order |->
        IF s = {} THEN Start ELSE Add(w, iter[s \ {Max(s)}], order[Max(s)])]

\* Collected unfolds to the function of the positions that FoldLeft chooses.
LEMMA CollectedIsPass ==
    ASSUME NEW w, NEW order PROVE Collected(w, order) = Passes(w, order)[DOMAIN order]
  BY DEF Collected, FoldLeft, MapThenFoldSet, Passes, Start

\* The last position of a set of positions is one of them.
LEMMA MaxIsMember ==
    ASSUME NEW n \in Nat, NEW s \in SUBSET (1..n), s # {}
    PROVE  Max(s) \in s /\ \A i \in s : i <= Max(s)
  <1> DEFINE T == {1..k : k \in {j \in 0..n : s \subseteq 1..j}}
  <1>1. T \subseteq SUBSET (1..n) /\ T # {}
    <2>1. 1..n \in T
      OBVIOUS
    <2> QED BY <2>1
  <1>2. PICK m \in T : \A y \in T : y \subseteq m => y = m
    <2>1. IsFiniteSet(1..n)
      BY FS_Interval
    <2>2. HasMinimal(T)
      BY <1>1, <2>1, MinimalSubset, Zenon
    <2> QED BY <1>1, <2>2 DEF HasMinimal
  <1>3. PICK k \in 0..n : m = 1..k /\ s \subseteq 1..k
    OBVIOUS
  <1>4. k \in s
    <2>1. SUFFICES ASSUME k \notin s PROVE FALSE
      OBVIOUS
    <2>2. k # 0
      <3>1. 1..0 = {}
        OBVIOUS
      <3> QED BY <1>3, <3>1
    <2>3. s \subseteq 1..(k - 1) /\ k - 1 \in 0..n
      BY <1>3, <2>1, <2>2
    <2>4. 1..(k - 1) \in T /\ 1..(k - 1) \subseteq 1..k
      BY <2>3
    <2>5. 1..(k - 1) = 1..k
      BY <1>2, <1>3, <2>4
    <2>6. k \in 1..k /\ k \notin 1..(k - 1)
      BY <2>2
    <2> QED BY <2>5, <2>6
  <1>5. \E x \in s : \A y \in s : x >= y
    BY <1>3, <1>4
  <1> QED BY <1>5 DEF Max

\* The recursion is well-defined: each step looks at fewer positions.
LEMMA PassesDefined ==
    ASSUME NEW w, NEW n \in Nat, NEW order, DOMAIN order = 1..n, NEW s \in SUBSET (1..n)
    PROVE  Passes(w, order)[s] = IF s = {} THEN Start
              ELSE Add(w, Passes(w, order)[s \ {Max(s)}], order[Max(s)])
  <1> DEFINE Step(g, t) == [u \in SUBSET t |->
                IF u = {} THEN Start ELSE Add(w, g[u \ {Max(u)}], order[Max(u)])]
             Bad == {t \in SUBSET (1..n) : ~\E g : g = Step(g, t)}
  <1>1. Bad = {}
    <2>1. SUFFICES ASSUME Bad # {} PROVE FALSE
      OBVIOUS
    <2>2. PICK t \in Bad : \A y \in Bad : y \subseteq t => y = t
      <3>1. Bad \subseteq SUBSET (1..n) /\ IsFiniteSet(1..n)
        BY FS_Interval
      <3>2. HasMinimal(Bad)
        BY <3>1, MinimalSubset, Zenon
      <3> QED BY <2>1, <3>2 DEF HasMinimal
    <2>3. t \in SUBSET (1..n)
      OBVIOUS
    <2>4. t # {}
      <3> DEFINE g == [u \in SUBSET {} |-> Start]
      <3>1. g = Step(g, {})
        OBVIOUS
      <3> QED BY <3>1
    <2>5. PICK x : x = Max(t) /\ x \in t /\ \A i \in t : i <= x
      BY <2>3, <2>4, MaxIsMember
    <2>6. t \ {x} \notin Bad /\ t \ {x} \in SUBSET (1..n)
      BY <2>2, <2>3, <2>5
    <2>7. PICK g : g = Step(g, t \ {x})
      BY <2>6
    <2>h. PICK h : h = [u \in SUBSET t |->
                        IF x \notin u THEN g[u] ELSE Add(w, g[u \ {x}], order[x])]
      OBVIOUS
    <2>8. ASSUME NEW u \in SUBSET t
          PROVE  h[u] = IF u = {} THEN Start ELSE Add(w, h[u \ {Max(u)}], order[Max(u)])
      <3>1. CASE u = {}
        BY <2>7, <2>h, <3>1
      <3>2. CASE u # {} /\ x \notin u
        <4>1. u \in SUBSET (t \ {x}) /\ u \ {Max(u)} \in SUBSET t /\ x \notin u \ {Max(u)}
          BY <3>2
        <4>2. h[u] = g[u] /\ h[u \ {Max(u)}] = g[u \ {Max(u)}]
          BY <2>h, <3>2, <4>1
        <4> QED BY <2>7, <3>2, <4>1, <4>2
      <3>3. CASE x \in u
        <4>1. Max(u) = x
          <5>1. PICK m : m = Max(u) /\ m \in u /\ \A i \in u : i <= m
            BY <2>3, <3>3, MaxIsMember
          <5>2. m \in Nat /\ x \in Nat /\ m <= x /\ x <= m
            BY <2>3, <2>5, <3>3, <5>1
          <5> QED BY <5>1, <5>2
        <4>2. u \ {x} \in SUBSET t /\ x \notin u \ {x}
          OBVIOUS
        <4>3. h[u \ {x}] = g[u \ {x}]
          BY <2>h, <4>2
        <4> QED BY <2>h, <3>3, <4>1, <4>3
      <3> QED BY <3>1, <3>2, <3>3
    <2>9. h = Step(h, t)
      <3>1. \A u \in SUBSET t : Step(h, t)[u]
               = IF u = {} THEN Start ELSE Add(w, h[u \ {Max(u)}], order[Max(u)])
        OBVIOUS
      <3>2. \A u \in SUBSET t : h[u] = Step(h, t)[u]
        BY <2>8, <3>1, Zenon
      <3>3. h = [u \in SUBSET t |-> h[u]] /\ DOMAIN Step(h, t) = SUBSET t
        BY <2>h
      <3>4. Step(h, t) = [u \in SUBSET t |-> Step(h, t)[u]]
        OBVIOUS
      <3> HIDE DEF Step
      <3> QED BY <3>2, <3>3, <3>4
    <2> QED BY <2>2, <2>9
  <1>2. \E g : g = Step(g, 1..n)
    BY <1>1
  <1>3. Passes(w, order) = Step(Passes(w, order), 1..n)
    BY <1>2 DEF Passes
  <1> QED BY <1>3

IsFiles(w) == IsFiniteSet(DOMAIN w) /\ w \in [DOMAIN w -> Entries]

\* The sizes of the files of a workspace can be added up.
LEMMA FilesAreSized == ASSUME NEW w, IsFiles(w) PROVE Sized(w)
  BY DEF IsFiles, Sized, Entries

Left(c) == {c.trunc[i] : i \in 1..Len(c.trunc)}

\* c is what a pass over the paths S collects of w.
Collects(w, S, c) ==
    /\ c = [files |-> c.files, trunc |-> c.trunc, total |-> c.total]
    /\ c.trunc \in Seq(DOMAIN w)
    /\ DOMAIN c.files \cup Left(c) = S \cap Readable(w)
    /\ DOMAIN c.files \cap Left(c) = {}
    /\ c.files = [p \in DOMAIN c.files |-> Plain(w[p])]
    /\ Sized(c.files)
    /\ c.total \in Nat /\ c.total = Total(c.files) /\ c.total <= MaxCollect
    /\ \A p \in Left(c) : c.total + w[p].size > MaxCollect

\* Nothing was passed over and nothing collected.
LEMMA StartCollects == ASSUME NEW w, IsFiles(w) PROVE Collects(w, {}, Start)
  <1>1. /\ Start.files = Empty /\ Start.trunc = <<>> /\ Start.total = 0
        /\ DOMAIN Empty = {}
    BY DEF Start, Empty
  <1>2. Left(Start) = {} /\ <<>> \in Seq(DOMAIN w)
    BY <1>1 DEF Left
  <1>3. Sized(Empty)
    BY <1>1, FS_EmptySet DEF Sized
  <1>4. Empty = [p \in {} |-> Plain(w[p])]
    BY DEF Empty
  <1> QED BY <1>1, <1>2, <1>3, <1>4, TotalEmpty, WorkspaceAssumption DEF Collects, Start

\* One path more: it is no readable file, it does not fit and is left out, or it is
\* collected and counted (runner.py:54-63).
LEMMA AddCollects ==
    ASSUME NEW w, IsFiles(w), NEW S, NEW c, Collects(w, S, c), NEW p, p \notin S
    PROVE  Collects(w, S \cup {p}, Add(w, c, p))
  <1> DEFINE d == Add(w, c, p)
  <1>1. CASE p \notin Readable(w)
    <2>1. d = c
      BY <1>1 DEF Add
    <2> QED BY <1>1, <2>1 DEF Collects
  <1>2. ASSUME p \in Readable(w)
        PROVE  p \in DOMAIN w /\ w[p] \in Entries /\ w[p].size \in Nat
    BY <1>2 DEF Readable, IsFiles, Entries
  <1>3. CASE p \in Readable(w) /\ c.total + w[p].size > MaxCollect
    <2>1. d = [files |-> c.files, trunc |-> Append(c.trunc, p), total |-> c.total]
      BY <1>3 DEF Add, Collects
    <2>2. Append(c.trunc, p) \in Seq(DOMAIN w)
      BY <1>2, <1>3 DEF Collects
    <2>3. Left(d) = Left(c) \cup {p}
      <3>1. /\ Len(Append(c.trunc, p)) = Len(c.trunc) + 1 /\ Len(c.trunc) \in Nat
            /\ Append(c.trunc, p)[Len(c.trunc) + 1] = p
            /\ \A i \in 1..Len(c.trunc) : Append(c.trunc, p)[i] = c.trunc[i]
        BY <1>2, <1>3 DEF Collects
      <3>2. 1..(Len(c.trunc) + 1) = (1..Len(c.trunc)) \cup {Len(c.trunc) + 1}
        BY <3>1
      <3> QED BY <2>1, <3>1, <3>2 DEF Left
    <2>4. p \notin DOMAIN c.files
      BY DEF Collects
    <2>5. /\ d = [files |-> d.files, trunc |-> d.trunc, total |-> d.total]
          /\ d.files = c.files /\ d.total = c.total /\ d.trunc \in Seq(DOMAIN w)
      BY <2>1, <2>2
    <2>6. /\ DOMAIN d.files \cup Left(d) = (S \cup {p}) \cap Readable(w)
          /\ DOMAIN d.files \cap Left(d) = {}
      BY <1>3, <2>3, <2>4, <2>5 DEF Collects
    <2>7. \A q \in Left(d) : d.total + w[q].size > MaxCollect
      BY <1>3, <2>3, <2>5 DEF Collects
    <2>8. /\ d.files = [q \in DOMAIN d.files |-> Plain(w[q])] /\ Sized(d.files)
          /\ d.total \in Nat /\ d.total = Total(d.files) /\ d.total <= MaxCollect
      BY <2>5 DEF Collects
    <2>9. Collects(w, S \cup {p}, d)
      <3> HIDE DEF d
      <3> QED BY <2>5, <2>6, <2>7, <2>8 DEF Collects
    <2> QED BY <2>9
  <1>4. CASE p \in Readable(w) /\ ~(c.total + w[p].size > MaxCollect)
    <2>1. d = [files |-> With(c.files, p, Plain(w[p])), trunc |-> c.trunc,
               total |-> c.total + w[p].size]
      BY <1>4 DEF Add, Counted, Collects
    <2>2. p \notin DOMAIN c.files /\ p \notin Left(c)
      BY DEF Collects
    <2>3. Plain(w[p]).size = w[p].size
      BY <1>2, <1>4 DEF Plain, Entries
    <2>4. /\ Sized(With(c.files, p, Plain(w[p])))
          /\ Total(With(c.files, p, Plain(w[p]))) = Total(c.files) + w[p].size
      BY <1>2, <1>4, <2>2, <2>3, TotalWith DEF Collects
    <2>5. /\ DOMAIN d.files = DOMAIN c.files \cup {p} /\ Left(d) = Left(c)
          /\ d.files = [q \in DOMAIN d.files |-> Plain(w[q])]
      BY <2>1, <2>2 DEF With, Left, Collects
    <2>6. DOMAIN d.files \cup Left(d) = (S \cup {p}) \cap Readable(w) /\ DOMAIN d.files \cap Left(d) = {}
      BY <1>4, <2>2, <2>5 DEF Collects
    <2>7. d.total \in Nat /\ d.total = Total(d.files) /\ d.total <= MaxCollect /\ d.total >= c.total
      BY <1>2, <1>4, <2>1, <2>4, WorkspaceAssumption DEF Collects
    <2>8. \A q \in Left(d) : d.total + w[q].size > MaxCollect
      <3> TAKE q \in Left(d)
      <3>1. q \in Readable(w) /\ c.total + w[q].size > MaxCollect
        BY <2>5 DEF Collects
      <3>2. w[q].size \in Nat
        BY <3>1 DEF Readable, IsFiles, Entries
      <3> QED BY <2>7, <3>1, <3>2, WorkspaceAssumption DEF Collects
    <2> QED BY <2>1, <2>4, <2>5, <2>6, <2>7, <2>8 DEF Collects
  <1> QED BY <1>1, <1>3, <1>4

\* What a pass in any order collects, for every number of paths.
LEMMA PassCollects ==
    ASSUME NEW w, IsFiles(w), NEW n \in Nat, NEW order, DOMAIN order = 1..n,
           \A i, j \in 1..n : i # j => order[i] # order[j]
    PROVE  Collects(w, {order[i] : i \in 1..n}, Collected(w, order))
  <1> DEFINE Upto(s) == {order[i] : i \in s}
             Bad == {s \in SUBSET (1..n) : ~Collects(w, Upto(s), Passes(w, order)[s])}
  <1>1. Bad = {}
    <2>1. SUFFICES ASSUME Bad # {} PROVE FALSE
      OBVIOUS
    <2>2. PICK s \in Bad : \A y \in Bad : y \subseteq s => y = s
      <3>1. Bad \subseteq SUBSET (1..n) /\ IsFiniteSet(1..n)
        BY FS_Interval
      <3>2. HasMinimal(Bad)
        BY <3>1, MinimalSubset, Zenon
      <3> QED BY <2>1, <3>2 DEF HasMinimal
    <2>3. s \in SUBSET (1..n) /\ ~Collects(w, Upto(s), Passes(w, order)[s])
      OBVIOUS
    <2>4. s # {}
      <3>1. Upto({}) = {} /\ Passes(w, order)[{}] = Start
        BY PassesDefined
      <3> QED BY <2>3, <3>1, StartCollects
    <2>5. PICK x : x = Max(s) /\ x \in s
      BY <2>3, <2>4, MaxIsMember
    <2>6. Collects(w, Upto(s \ {x}), Passes(w, order)[s \ {x}])
      <3>1. s \ {x} \in SUBSET (1..n) /\ s \ {x} \notin Bad
        BY <2>2, <2>3, <2>5
      <3> QED BY <3>1
    <2>7. Passes(w, order)[s] = Add(w, Passes(w, order)[s \ {x}], order[x])
      BY <2>3, <2>4, <2>5, PassesDefined
    <2>8. Upto(s) = Upto(s \ {x}) \cup {order[x]} /\ order[x] \notin Upto(s \ {x})
      BY <2>3, <2>5
    <2> HIDE DEF Upto
    <2>9. Collects(w, Upto(s \ {x}) \cup {order[x]}, Add(w, Passes(w, order)[s \ {x}], order[x]))
      BY <2>6, <2>8, AddCollects, Zenon
    <2> QED BY <2>3, <2>7, <2>8, <2>9
  <1>2. Collects(w, Upto(1..n), Passes(w, order)[1..n])
    BY <1>1
  <1> QED BY <1>2, CollectedIsPass

\* A walk of a set names each of its members once.
LEMMA WalkCovers ==
    ASSUME NEW Q, IsFiniteSet(Q), NEW order \in SetToSeqs(Q)
    PROVE  /\ Cardinality(Q) \in Nat /\ DOMAIN order = 1..Cardinality(Q)
           /\ \A i, j \in 1..Cardinality(Q) : i # j => order[i] # order[j]
           /\ {order[i] : i \in 1..Cardinality(Q)} = Q
  <1>1. PICK n \in Nat : n = Cardinality(Q)
    BY FS_CardinalityType
  <1>2. order \in [1..n -> Q] /\ \A i, j \in 1..n : i # j => order[i] # order[j]
    BY <1>1 DEF SetToSeqs
  <1>3. order \in Injection(1..n, Q)
    BY <1>2 DEF Injection, IsInjective
  <1>4. Cardinality(1..n) = n
    BY FS_Interval
  <1>5. order \in Surjection(1..n, Q)
    BY <1>1, <1>3, <1>4, FS_Injection
  <1> QED BY <1>1, <1>2, <1>5 DEF Surjection

\* What a walk of the workspace, or of a caller's list of paths, collects.
LEMMA WalkCollects ==
    ASSUME NEW w, IsFiles(w), NEW Q, IsFiniteSet(Q), NEW order \in SetToSeqs(Q)
    PROVE  Collects(w, Q, Collected(w, order))
  BY WalkCovers, PassCollects

----------------------------------------------------------------------------
(* Workspaces and snapshots. *)

AllPaths == Paths \cup {NsFile}

IsWorkspace(w) == DOMAIN w \subseteq AllPaths /\ w \in [DOMAIN w -> Entries]

\* A workspace has finitely many files.
LEMMA WorkspacesAreFiles == ASSUME NEW w, IsWorkspace(w) PROVE IsFiles(w)
  <1>1. IsFiniteSet(AllPaths)
    BY ConversationAssumption, FS_AddElement DEF AllPaths
  <1>2. IsFiniteSet(DOMAIN w)
    BY <1>1, FS_Subset DEF IsWorkspace
  <1> QED BY <1>2 DEF IsWorkspace, IsFiles

\* An entry more keeps a workspace one.
LEMMA WithIsWorkspace ==
    ASSUME NEW w, IsWorkspace(w), NEW p \in AllPaths, NEW e \in Entries
    PROVE  IsWorkspace(With(w, p, e))
  BY DEF IsWorkspace, With

\* The empty working dir is a workspace.
LEMMA EmptyIsWorkspace == IsWorkspace(Empty) /\ DOMAIN Empty = {}
  BY DEF IsWorkspace, Empty

\* An upload into a workspace leaves a workspace.
LEMMA UploadedIsWorkspace ==
    ASSUME NEW w, IsWorkspace(w), NEW files, IsWorkspace(files)
    PROVE  IsWorkspace(Uploaded(w, files))
  <1>1. ASSUME NEW p \in DOMAIN w \cup DOMAIN files
        PROVE  Uploaded(w, files)[p] \in Entries
    <2>1. CASE p \notin DOMAIN files
      BY <1>1, <2>1 DEF Uploaded, IsWorkspace
    <2>2. CASE p \in DOMAIN files /\ p \in DOMAIN w
      <3>1. w[p] \in Entries /\ files[p] \in Entries
        BY <2>2 DEF IsWorkspace
      <3>2. [files[p] EXCEPT !.kind = w[p].kind] \in Entries
        BY <3>1 DEF Entries
      <3> QED BY <2>2, <3>2 DEF Uploaded
    <2>3. CASE p \in DOMAIN files /\ p \notin DOMAIN w
      BY <2>3 DEF Uploaded, IsWorkspace
    <2> QED BY <1>1, <2>1, <2>2, <2>3
  <1>2. Uploaded(w, files) = [p \in DOMAIN w \cup DOMAIN files |-> Uploaded(w, files)[p]]
    BY DEF Uploaded
  <1>3. DOMAIN Uploaded(w, files) = DOMAIN w \cup DOMAIN files
    BY DEF Uploaded
  <1> QED BY <1>1, <1>2, <1>3 DEF IsWorkspace

\* What the cleaner leaves is a workspace.
LEMMA CleanedIsWorkspace == \A junk \in Leftovers : IsWorkspace(Cleaned(junk))
  BY ConversationAssumption DEF Cleaned, Part, IsWorkspace, AllPaths

\* The agent's code changes nothing, makes one entry or removes one.
LEMMA WorkedCases ==
    ASSUME NEW n, NEW w \in Worked(n)
    PROVE  \/ w = ws
           \/ \E p \in Paths, k \in RunKinds, s \in Sizes : w = With(ws, p, Entry(k, s, n))
           \/ \E p \in Paths : w = Part(ws, DOMAIN ws \ {p})
  <1> DEFINE Made == {With(ws, p, Entry(k, s, n)) : p \in Paths, k \in RunKinds, s \in Sizes}
             Removed == {Part(ws, DOMAIN ws \ {p}) : p \in Paths}
  <1>1. Worked(n) = {ws} \cup Made \cup Removed
    BY SMT DEF Worked
  <1>2. w \in Made => \E p \in Paths, k \in RunKinds, s \in Sizes : w = With(ws, p, Entry(k, s, n))
    BY SMT
  <1>3. w \in Removed => \E p \in Paths : w = Part(ws, DOMAIN ws \ {p})
    BY Zenon
  <1> HIDE DEF Made, Removed
  <1> QED BY <1>1, <1>2, <1>3, Zenon

\* The agent's code leaves a workspace.
LEMMA WorkedIsWorkspace ==
    ASSUME IsWorkspace(ws), NEW n \in Int, NEW w \in Worked(n)
    PROVE  IsWorkspace(w)
  <1>1. CASE w = ws
    BY <1>1
  <1>2. ASSUME NEW p \in Paths, NEW k \in RunKinds, NEW s \in Sizes, w = With(ws, p, Entry(k, s, n))
        PROVE  IsWorkspace(w)
    <2>1. Entry(k, s, n) \in Entries /\ p \in AllPaths
      BY <1>2, ConversationAssumption DEF Entry, Entries, AllPaths
    <2> QED BY <1>2, <2>1, WithIsWorkspace
  <1>3. ASSUME NEW p \in Paths, w = Part(ws, DOMAIN ws \ {p})
        PROVE  IsWorkspace(w)
    BY <1>3 DEF Part, IsWorkspace
  <1>4. \/ w = ws
        \/ \E p \in Paths, k \in RunKinds, s \in Sizes : w = With(ws, p, Entry(k, s, n))
        \/ \E p \in Paths : w = Part(ws, DOMAIN ws \ {p})
    BY WorkedCases, Zenon
  <1> QED BY <1>1, <1>2, <1>3, <1>4

\* The inputs of run_project are files for paths of the code.
LEMMA InputsAreFiles ==
    ASSUME NEW tree \in Trees, NEW follow \in BOOLEAN, NEW n \in Int, NEW extra \in Extras(n)
    PROVE  LET inputs == Joined(extra, Chosen(tree, follow))
           IN  IsWorkspace(inputs) /\ DOMAIN inputs \subseteq Paths
  <1>1. IsWorkspace(extra) /\ DOMAIN extra \subseteq Paths
    <2>1. CASE extra = Empty
      BY <2>1, EmptyIsWorkspace
    <2>2. ASSUME NEW p \in Paths, NEW s \in Sizes, extra = With(Empty, p, Entry("file", s, n))
          PROVE  IsWorkspace(extra) /\ DOMAIN extra \subseteq Paths
      <3>1. Entry("file", s, n) \in Entries /\ p \in AllPaths
        BY ConversationAssumption DEF Entry, Entries, Kinds, AllPaths
      <3> QED BY <2>2, <3>1, EmptyIsWorkspace, WithIsWorkspace DEF With
    <2> QED BY <2>1, <2>2 DEF Extras
  <1>2. IsWorkspace(Chosen(tree, follow)) /\ DOMAIN Chosen(tree, follow) \subseteq Paths
    <2>1. tree \in [DOMAIN tree -> HostEntries] /\ DOMAIN tree \subseteq Paths
      BY ConversationAssumption
    <2> QED BY <2>1 DEF Chosen, IsWorkspace, AllPaths, Entries, Kinds, HostEntries
  <1> DEFINE inputs == Joined(extra, Chosen(tree, follow))
  <1>3. /\ DOMAIN inputs = DOMAIN extra \cup DOMAIN Chosen(tree, follow)
        /\ inputs = [p \in DOMAIN inputs |-> inputs[p]]
    BY DEF Joined
  <1>4. \A p \in DOMAIN inputs : inputs[p] \in Entries
    BY <1>1, <1>2 DEF Joined, IsWorkspace
  <1> QED BY <1>1, <1>2, <1>3, <1>4 DEF IsWorkspace

\* What a checkpoint of everything readable in w restores.
Snapshot(w) == [p \in Readable(w) |-> Plain(w[p])]

\* _unpack_snapshot undoes _pack_snapshot: no member is lost and none is renamed.
LEMMA UnpackedIsPacked ==
    ASSUME NEW S, NEW files, files = [p \in S |-> files[p]]
    PROVE  Unpacked(Packed(files)) = files
  <1> DEFINE M == Packed(files)
             member(p) == [name |-> p, entry |-> files[p]]
  <1>0. /\ \A p \in DOMAIN files : member(p) \in M /\ member(p).name = p
        /\ \A m \in M : m.name \in DOMAIN files /\ m.entry = files[m.name]
    BY DEF Packed
  <1> HIDE DEF M
  <1>1. {m.name : m \in M} = DOMAIN files
    <2>1. \A p \in DOMAIN files : \E m \in M : m.name = p
      BY <1>0
    <2> QED BY <1>0, <2>1
  <1>2. ASSUME NEW p \in DOMAIN files
        PROVE  (CHOOSE m \in M : m.name = p).entry = files[p]
    <2>1. \E m \in M : m.name = p
      BY <1>0
    <2> QED BY <1>0, <2>1
  <1>3. Unpacked(M) = [p \in DOMAIN files |-> files[p]]
    BY <1>1, <1>2 DEF Unpacked
  <1>4. DOMAIN [p \in S |-> files[p]] = S
    OBVIOUS
  <1>5. DOMAIN files = S
    BY <1>4, Zenon
  <1> QED BY <1>3, <1>5, Zenon DEF M

\* A collection, of a walk or of a collector that failed.
LEMMA CollectionCollects ==
    ASSUME IsWorkspace(ws), NEW c \in Collections
    PROVE  /\ \E S : Collects(ws, S, c)
           /\ "collector" \notin Lapses => Collects(ws, DOMAIN ws, c)
  <1>1. IsFiles(ws) /\ IsFiniteSet(DOMAIN ws)
    BY WorkspacesAreFiles DEF IsFiles
  <1>2. ASSUME NEW order \in Walks(ws), c = Collected(ws, order)
        PROVE  Collects(ws, DOMAIN ws, c)
    <2>1. order \in SetToSeqs(DOMAIN ws)
      BY DEF Walks
    <2> QED BY <1>1, <1>2, <2>1, WalkCollects, Zenon
  <1>3. CASE "collector" \in Lapses /\ c = Collected(ws, <<>>)
    <2>1. PICK n \in Nat : n = 0
      OBVIOUS
    <2>2. PICK order : order = <<>>
      OBVIOUS
    <2>3. DOMAIN order = 1..n /\ 1..n = {}
      BY <2>1, <2>2
    <2>4. \A i, j \in 1..n : i # j => order[i] # order[j]
      BY <2>3
    <2>5. Collects(ws, {order[i] : i \in 1..n}, Collected(ws, order))
      BY <1>1, <2>3, <2>4, PassCollects
    <2> QED BY <1>3, <2>2, <2>5
  <1> QED BY <1>2, <1>3 DEF Collections

----------------------------------------------------------------------------
(* The invariants of a conversation. *)

\* A blob is made of a workspace that a collection took whole.
BlobOK(b, n) ==
    /\ b.taken \in BOOLEAN /\ b.vars \in 0..n
    /\ IsWorkspace(Unpacked(b.members))
    /\ Total(Unpacked(b.members)) <= MaxCollect

ConversationInv == TypeOK /\ BlobOK(blob, runs) /\ BlobOK(store, runs)

\* No tenant leaves what the cleaner may not remove, the collector answers and a
\* closed session is not entered once more.
HonestRestores ==
    /\ Lapses \subseteq {"torn"}
    /\ \A junk \in Leftovers : \A p \in DOMAIN junk : junk[p].kind # "sealed"

\* A blob restores what was readable when it was taken.
Faithful(b) == IsWorkspace(b.was) /\ Unpacked(b.members) = Snapshot(b.was)

SnapshotInv == Faithful(blob) /\ Faithful(store)

\* The variables found in a workspace; the harness's file is a plain file.
FoundIn(w) == IF NsFile \in DOMAIN w THEN w[NsFile].data ELSE 0
Holds(w, n) == FoundIn(w) = n /\ (NsFile \in DOMAIN w => w[NsFile].kind = "file")

NamespaceInv == Holds(ws, live) /\ Holds(blob.was, blob.vars) /\ Holds(store.was, store.vars)

----------------------------------------------------------------------------

\* An upload into an empty working dir is what was uploaded.
LEMMA UploadedToNothing ==
    ASSUME NEW files, IsWorkspace(files), NEW w, DOMAIN w = {}
    PROVE  Uploaded(w, files) = files
  <1>1. files = [p \in DOMAIN files |-> files[p]]
    BY DEF IsWorkspace
  <1>2. Uploaded(w, files) = [p \in DOMAIN files |-> files[p]]
    BY DEF Uploaded
  <1> QED BY <1>1, <1>2, Zenon

\* Before the first checkpoint there is nothing to restore.
LEMMA NoBlobIsOK ==
    /\ Unpacked({}) = Empty /\ Snapshot(Empty) = Empty /\ FoundIn(Empty) = 0
    /\ Total(Unpacked({})) = 0
  <1>1. DOMAIN Empty = {}
    BY DEF Empty
  <1>2. Unpacked({}) = Empty
    BY DEF Unpacked, Empty
  <1>3. Snapshot(Empty) = Empty
    <2>1. Readable(Empty) = {}
      BY <1>1 DEF Readable
    <2> QED BY <2>1 DEF Snapshot, Empty
  <1> QED BY <1>1, <1>2, <1>3, TotalEmpty DEF FoundIn

\* The same, of the blob that stands for no checkpoint.
LEMMA NoBlobIsEmpty ==
    /\ NoBlob.taken = FALSE /\ NoBlob.vars = 0 /\ NoBlob.was = Empty
    /\ Unpacked(NoBlob.members) = Empty
    /\ IsWorkspace(Unpacked(NoBlob.members))
    /\ Total(Unpacked(NoBlob.members)) <= MaxCollect
  <1>1. /\ NoBlob.taken = FALSE /\ NoBlob.vars = 0 /\ NoBlob.was = Empty
        /\ NoBlob.members = {}
    BY DEF NoBlob
  <1>2. Unpacked(NoBlob.members) = Empty
    BY <1>1, NoBlobIsOK
  <1>3. Total(Empty) <= MaxCollect
    BY TotalEmpty, WorkspaceAssumption
  <1> QED BY <1>1, <1>2, <1>3, EmptyIsWorkspace

\* No checkpoint is one that may be resumed.
LEMMA NoBlobOK == ASSUME NEW n \in Nat PROVE BlobOK(NoBlob, n)
  <1>0. NoBlob.taken \in BOOLEAN
    BY NoBlobIsEmpty
  <1>1. NoBlob.vars \in 0..n
    BY NoBlobIsEmpty
  <1>2. IsWorkspace(Unpacked(NoBlob.members)) /\ Total(Unpacked(NoBlob.members)) <= MaxCollect
    BY NoBlobIsEmpty
  <1> QED BY <1>0, <1>1, <1>2, Zenon DEF BlobOK

\* A run more leaves a blob what it is.
LEMMA BlobOKLater ==
    ASSUME NEW n \in Nat, NEW m \in Nat, n <= m, NEW b, BlobOK(b, n)
    PROVE  BlobOK(b, m)
  BY DEF BlobOK

\* What checkpoint() packs is a workspace under the limit of the collector, and when the
\* collector answered and left nothing out it is all that was readable.
LEMMA CheckpointTakes ==
    ASSUME IsWorkspace(ws), NEW c \in Collections
    PROVE  /\ IsWorkspace(Unpacked(Packed(c.files)))
           /\ Total(Unpacked(Packed(c.files))) <= MaxCollect
           /\ "collector" \notin Lapses /\ Fits(c) => Unpacked(Packed(c.files)) = Snapshot(ws)
  <1>1. PICK S : Collects(ws, S, c)
    BY CollectionCollects
  <1>2. Unpacked(Packed(c.files)) = c.files
    <2>1. c.files = [p \in DOMAIN c.files |-> Plain(ws[p])]
      BY <1>1 DEF Collects
    <2>2. c.files = [p \in DOMAIN c.files |-> c.files[p]]
      BY <2>1
    <2> QED BY <2>2, UnpackedIsPacked
  <1>3. IsWorkspace(c.files)
    <2>1. /\ DOMAIN c.files \subseteq Readable(ws)
          /\ c.files = [p \in DOMAIN c.files |-> Plain(ws[p])]
      BY <1>1 DEF Collects
    <2>2. \A p \in Readable(ws) : p \in AllPaths /\ Plain(ws[p]) \in Entries
      BY DEF IsWorkspace, Readable, Plain, Entries, Kinds
    <2> QED BY <2>1, <2>2 DEF IsWorkspace
  <1>4. Total(c.files) <= MaxCollect
    BY <1>1 DEF Collects
  <1>5. ASSUME "collector" \notin Lapses, Fits(c) PROVE c.files = Snapshot(ws)
    <2>1. Collects(ws, DOMAIN ws, c)
      BY <1>5, CollectionCollects
    <2>2. Left(c) = {}
      BY <1>5 DEF Left, Fits
    <2>3. DOMAIN c.files = Readable(ws)
      BY <2>1, <2>2 DEF Collects, Readable
    <2>4. c.files = [p \in DOMAIN c.files |-> Plain(ws[p])]
      BY <2>1 DEF Collects
    <2> QED BY <2>3, <2>4 DEF Snapshot
  <1> QED BY <1>2, <1>3, <1>4, <1>5

----------------------------------------------------------------------------
(* Type correctness, and the bound of what is restored. *)

\* The invariant holds before the first session.
LEMMA ConversationInit == Init => ConversationInv
  <1> SUFFICES ASSUME Init PROVE ConversationInv
    OBVIOUS
  <1>1. BlobOK(blob, runs) /\ BlobOK(store, runs)
    <2>1. blob = NoBlob /\ store = NoBlob /\ runs = 0
      BY DEF Init
    <2> QED BY <2>1, NoBlobOK
  <1>2. IsWorkspace(ws)
    BY EmptyIsWorkspace DEF Init
  <1> QED BY <1>1, <1>2, ConversationAssumption
          DEF ConversationInv, TypeOK, BlobOK, IsWorkspace, AllPaths, Init

\* What TypeOK asks of the blobs is part of BlobOK.
LEMMA InvFromParts ==
    ASSUME IsWorkspace(ws), session \in {"none", "open", "dead", "closed"},
           live \in 0..runs, runs \in 0..MaxRuns, BlobOK(blob, runs), BlobOK(store, runs)
    PROVE  ConversationInv
  BY DEF ConversationInv, TypeOK, BlobOK, IsWorkspace, AllPaths

\* Every action keeps the invariant.
LEMMA ConversationStep == ConversationInv /\ [Next]_vars => ConversationInv'
  <1> SUFFICES ASSUME ConversationInv, [Next]_vars PROVE ConversationInv'
    OBVIOUS
  <1>0. /\ IsWorkspace(ws) /\ session \in {"none", "open", "dead", "closed"}
        /\ live \in 0..runs /\ runs \in 0..MaxRuns /\ BlobOK(blob, runs) /\ BlobOK(store, runs)
    BY DEF ConversationInv, TypeOK, IsWorkspace, AllPaths
  <1>w. SUFFICES /\ IsWorkspace(ws') /\ session' \in {"none", "open", "dead", "closed"}
                 /\ live' \in 0..runs' /\ runs' \in 0..MaxRuns
                 /\ BlobOK(blob', runs') /\ BlobOK(store', runs')
    BY DEF ConversationInv, TypeOK, BlobOK, IsWorkspace, AllPaths
  <1>j. runs \in Nat
    BY <1>0, ConversationAssumption
  <1>k. ASSUME runs' \in Nat, runs <= runs'
        PROVE  /\ blob' = blob => BlobOK(blob', runs')
               /\ store' = store => BlobOK(store', runs')
    BY <1>0, <1>j, <1>k, BlobOKLater
  <1>1. CASE Opens
    <2>1. PICK junk \in Leftovers, files \in Restores : ws' = Uploaded(Cleaned(junk), files)
      BY <1>1 DEF Opens
    <2>2. IsWorkspace(files)
      BY <1>0, EmptyIsWorkspace DEF Restores, Restored, BlobOK
    <2>3. IsWorkspace(ws')
      BY <2>1, <2>2, CleanedIsWorkspace, UploadedIsWorkspace
    <2>4. session' \in {"open", "dead"} /\ live' = store.vars /\ blob' = NoBlob
          /\ runs' = runs /\ store' = store
      BY <1>1 DEF Opens
    <2>5. BlobOK(blob', runs')
      BY <1>j, <2>4, NoBlobOK
    <2>6. live' \in 0..runs' /\ BlobOK(store', runs')
      BY <1>0, <2>4 DEF BlobOK
    <2> QED BY <1>0, <2>3, <2>4, <2>5, <2>6
  <1>2. CASE RunCompletes
    <2>1. PICK w \in Worked(runs') : ws' = With(w, NsFile, Entry("file", 1, runs'))
      BY <1>2 DEF RunCompletes
    <2>2. runs' = runs + 1 /\ runs < MaxRuns /\ live' = runs' /\ UNCHANGED <<session, blob, store>>
      BY <1>2 DEF RunCompletes, Begins
    <2>3. runs' \in 1..MaxRuns
      BY <1>0, <2>2, ConversationAssumption
    <2>4. IsWorkspace(w)
      BY <1>0, <2>1, <2>3, WorkedIsWorkspace
    <2>5. NsFile \in AllPaths /\ Entry("file", 1, runs') \in Entries
      BY <2>3 DEF AllPaths, Entry, Entries, Kinds
    <2>6. IsWorkspace(ws')
      BY <2>1, <2>4, <2>5, WithIsWorkspace
    <2>7. runs' \in Nat /\ runs <= runs'
      BY <1>0, <2>2, <2>3
    <2> QED BY <1>0, <1>k, <2>2, <2>3, <2>6, <2>7
  <1>3. CASE RunFails
    <2>2. runs' = runs + 1 /\ runs < MaxRuns /\ UNCHANGED <<session, live, blob, store>>
      BY <1>3 DEF RunFails, Begins
    <2>3. runs' \in 1..MaxRuns
      BY <1>0, <2>2, ConversationAssumption
    <2>4. IsWorkspace(ws')
      <3>1. CASE ws' = ws
        BY <1>0, <3>1
      <3>2. CASE ws' \in Worked(runs')
        BY <1>0, <2>3, <3>2, WorkedIsWorkspace
      <3>3. CASE ws' \in CutOff
        <4>1. NsFile \in AllPaths /\ Entry("file", 1, Torn) \in Entries
          BY DEF AllPaths, Entry, Entries, Kinds, Torn
        <4> QED BY <1>0, <3>3, <4>1, WithIsWorkspace DEF CutOff
      <3> QED BY <1>3, <3>1, <3>2, <3>3 DEF RunFails
    <2>7. runs' \in Nat /\ runs <= runs' /\ live' \in 0..runs'
      BY <1>0, <2>2, <2>3
    <2> QED BY <1>0, <1>k, <2>2, <2>3, <2>4, <2>7
  <1>4. CASE RunProject
    <2>2. runs' = runs + 1 /\ runs < MaxRuns /\ UNCHANGED <<live, blob, store>>
      BY <1>4 DEF RunProject, Begins
    <2>3. runs' \in 1..MaxRuns
      BY <1>0, <2>2, ConversationAssumption
    <2>4. IsWorkspace(ws') /\ session' \in {"none", "open", "dead", "closed"}
      <3>1. PICK tree \in Trees, follow \in BOOLEAN, extra \in Extras(runs') :
                \/ /\ ws' = Uploaded(ws, Joined(extra, Chosen(tree, follow)))
                   /\ session' = session
                \/ ws' = ws /\ session' = "dead"
        BY <1>4 DEF RunProject
      <3>2. IsWorkspace(Joined(extra, Chosen(tree, follow)))
        BY <2>3, InputsAreFiles
      <3> QED BY <1>0, <3>1, <3>2, UploadedIsWorkspace
    <2>7. runs' \in Nat /\ runs <= runs' /\ live' \in 0..runs'
      BY <1>0, <2>2, <2>3
    <2> QED BY <1>0, <1>k, <2>2, <2>3, <2>4, <2>7
  <1>5. CASE Checkpoint
    <2>1. PICK c \in Collections : Fits(c) /\ blob' = Taken(c.files)
      BY <1>5 DEF Checkpoint
    <2>2. UNCHANGED <<ws, session, live, runs, store>>
      BY <1>5 DEF Checkpoint
    <2>3. /\ blob'.members = Packed(c.files) /\ blob'.vars = live /\ blob'.taken = TRUE
      BY <2>1 DEF Taken
    <2>4. /\ IsWorkspace(Unpacked(Packed(c.files)))
          /\ Total(Unpacked(Packed(c.files))) <= MaxCollect
      BY <1>0, CheckpointTakes
    <2>5. BlobOK(blob', runs')
      BY <1>0, <2>2, <2>3, <2>4 DEF BlobOK
    <2> QED BY <1>0, <1>k, <2>2, <2>5 DEF BlobOK
  <1>6. CASE Stores
    <2>1. store' = blob /\ blob' = NoBlob /\ UNCHANGED <<ws, session, live, runs>>
      BY <1>6 DEF Stores
    <2>2. BlobOK(blob', runs')
      BY <1>j, <2>1, NoBlobOK
    <2>3. BlobOK(store', runs')
      BY <1>0, <2>1 DEF BlobOK
    <2> QED BY <1>0, <2>1, <2>2, <2>3
  <1>7. CASE Crash
    <2>1. blob' = NoBlob /\ session' = "none" /\ UNCHANGED <<ws, live, runs, store>>
      BY <1>7 DEF Crash
    <2>2. BlobOK(blob', runs')
      BY <1>j, <2>1, NoBlobOK
    <2>3. BlobOK(store', runs')
      BY <1>0, <2>1 DEF BlobOK
    <2> QED BY <1>0, <2>1, <2>2, <2>3
  <1>8. CASE Dies \/ Closes \/ UNCHANGED vars
    <2>1. UNCHANGED <<ws, live, runs, blob, store>>
          /\ session' \in {"none", "open", "dead", "closed"}
      BY <1>0, <1>8 DEF Dies, Closes, vars
    <2>2. BlobOK(blob', runs') /\ BlobOK(store', runs')
      BY <1>0, <2>1
    <2> QED BY <1>0, <2>1, <2>2
  <1> QED BY <1>1, <1>2, <1>3, <1>4, <1>5, <1>6, <1>7, <1>8 DEF Next

\* The invariant of the theorems below.
LEMMA ConversationInvariant == Spec => []ConversationInv
  BY ConversationInit, ConversationStep, PTL DEF Spec

\* Type correctness, for any paths, sizes, host trees, leftovers, limits and lapses.
THEOREM ConversationTypesCorrect == Spec => []TypeOK
  BY ConversationInvariant, PTL DEF ConversationInv

\* Whatever checkpoint() returned, resume() accepts under the limits of the same
\* configuration, when a collection may not exceed an upload: max_collect_bytes and
\* max_upload_bytes are equal by default (config.py:89, 92).  With a smaller upload limit a
\* checkpoint may be refused when it is resumed.
THEOREM CheckpointsFit == MaxCollect <= MaxUpload => (Spec => []Resumable)
  <1> SUFFICES ASSUME MaxCollect <= MaxUpload PROVE Spec => []Resumable
    OBVIOUS
  <1>1. ConversationInv => Resumable
    <2> SUFFICES ASSUME ConversationInv PROVE Resumable
      OBVIOUS
    <2>1. ASSUME NEW b, BlobOK(b, runs) PROVE Total(Unpacked(b.members)) <= MaxUpload
      <3>1. Total(Unpacked(b.members)) \in Nat
        BY <2>1, WorkspacesAreFiles, FilesAreSized, TotalIsNat DEF BlobOK
      <3> QED BY <2>1, <3>1, WorkspaceAssumption DEF BlobOK
    <2> QED BY <2>1 DEF ConversationInv, Resumable, Resumes, Restored
  <1> QED BY <1>1, ConversationInvariant, PTL

\* In every state of a conversation every collection, in whatever order os.walk or
\* the caller names the paths, tells of each readable file it was asked for: it is there, or
\* it is listed as left out and would not have fitted (runner.py:448-455).
THEOREM CollectionsTell == Spec => []CollectTells
  <1>1. ConversationInv => CollectTells
    <2> SUFFICES ASSUME ConversationInv,
                        NEW order \in Walks(ws) \cup Wants(Paths \cup {NsFile})
                 PROVE  Tells(order, Collected(ws, order))
      BY DEF CollectTells
    <2> DEFINE c == Collected(ws, order)
    <2>1. IsWorkspace(ws) /\ IsFiles(ws) /\ IsFiniteSet(DOMAIN ws)
      BY WorkspacesAreFiles DEF ConversationInv, TypeOK, IsWorkspace, AllPaths, IsFiles
    <2>2. PICK Q : order \in SetToSeqs(Q) /\ IsFiniteSet(Q)
      <3>1. ASSUME NEW Q \in SUBSET (Paths \cup {NsFile}) PROVE IsFiniteSet(Q)
        BY ConversationAssumption, FS_AddElement, FS_Subset
      <3> QED BY <2>1, <3>1 DEF Walks, Wants
    <2>3. Collects(ws, Q, c)
      BY <2>1, <2>2, WalkCollects, Zenon
    <2>4. {order[i] : i \in 1..Len(order)} = Q
      <3>1. PICK n \in Nat : n = Cardinality(Q)
        BY <2>2, FS_CardinalityType
      <3>2. DOMAIN order = 1..n /\ {order[i] : i \in 1..n} = Q
        BY <2>2, <3>1, WalkCovers
      <3>3. Len(order) = n
        <4>1. order \in [1..n -> Q]
          BY <2>2, <3>1 DEF SetToSeqs
        <4> QED BY <4>1
      <3> QED BY <3>2, <3>3
    <2>5. /\ DOMAIN c.files \cup Left(c) = Q \cap Readable(ws)
          /\ DOMAIN c.files \cap Left(c) = {}
          /\ Total(c.files) <= MaxCollect
          /\ \A p \in Left(c) : Total(c.files) + ws[p].size > MaxCollect
      BY <2>3 DEF Collects
    <2> HIDE DEF c
    <2>6. Tells(order, c)
      BY <2>4, <2>5, Zenon DEF Tells, Left
    <2> QED BY <2>6 DEF c
  <1> QED BY <1>1, ConversationInvariant, PTL
----------------------------------------------------------------------------
(* What a checkpoint restores. *)

\* No checkpoint restores nothing.
LEMMA SnapshotInit == Init => SnapshotInv
  <1> SUFFICES ASSUME Init PROVE SnapshotInv
    OBVIOUS
  <1>1. Faithful(NoBlob)
    BY NoBlobIsEmpty, NoBlobIsOK, EmptyIsWorkspace DEF Faithful
  <1> QED BY <1>1 DEF Init, SnapshotInv

\* Every action keeps a blob what was readable when it was taken.
LEMMA SnapshotStep ==
    ASSUME HonestRestores
    PROVE  ConversationInv /\ SnapshotInv /\ [Next]_vars => SnapshotInv'
  <1> SUFFICES ASSUME ConversationInv, SnapshotInv, [Next]_vars PROVE SnapshotInv'
    OBVIOUS
  <1>0. Faithful(NoBlob)
    BY NoBlobIsEmpty, NoBlobIsOK, EmptyIsWorkspace DEF Faithful
  <1>w. SUFFICES Faithful(blob') /\ Faithful(store')
    BY DEF SnapshotInv, Faithful
  <1>1. CASE Checkpoint
    <2>1. PICK c \in Collections : Fits(c) /\ blob' = Taken(c.files)
      BY <1>1 DEF Checkpoint
    <2>2. IsWorkspace(ws)
      BY DEF ConversationInv, TypeOK, IsWorkspace, AllPaths
    <2>3. Unpacked(Packed(c.files)) = Snapshot(ws)
      BY <2>1, <2>2, CheckpointTakes DEF HonestRestores
    <2>4. blob'.was = ws /\ blob'.members = Packed(c.files) /\ store' = store
      BY <1>1, <2>1 DEF Checkpoint, Taken
    <2> QED BY <2>2, <2>3, <2>4 DEF SnapshotInv, Faithful
  <1>2. CASE ~Checkpoint
    <2>1. blob' \in {blob, NoBlob} /\ store' \in {store, blob}
      BY <1>2 DEF Next, Opens, RunCompletes, RunFails, RunProject, Dies, Stores, Closes,
                  Crash, vars
    <2> QED BY <1>0, <2>1 DEF SnapshotInv
  <1> QED BY <1>1, <1>2

\* The invariant of the theorem on resumed sessions.
LEMMA SnapshotInvariant == HonestRestores => (Spec => []SnapshotInv)
  <1> SUFFICES ASSUME HonestRestores PROVE Spec => []SnapshotInv
    OBVIOUS
  <1> QED BY SnapshotInit, SnapshotStep, ConversationInvariant, PTL DEF Spec

\* A worker that is wiped holds the snapshot and nothing else.
LEMMA OpensOnSnapshot ==
    ASSUME HonestRestores, ConversationInv, SnapshotInv, Opens
    PROVE  ws' = Snapshot(store.was)
  <1>1. PICK junk \in Leftovers, files \in Restores : ws' = Uploaded(Cleaned(junk), files)
    BY DEF Opens
  <1>2. files = Restored
    BY DEF Restores, HonestRestores
  <1>3. DOMAIN Cleaned(junk) = {}
    BY DEF HonestRestores, Cleaned, Part
  <1>4. IsWorkspace(Restored) /\ Restored = Snapshot(store.was)
    BY DEF ConversationInv, BlobOK, Restored, SnapshotInv, Faithful
  <1> QED BY <1>1, <1>2, <1>3, <1>4, UploadedToNothing

\* A session opens on exactly the regular files its checkpoint could read, whatever
\* the worker held before, whatever was uploaded since and whichever walk the collector took;
\* runs that are cut off, failed sessions and crashes of the caller allowed.
THEOREM ResumedSessionsReadable == HonestRestores => (Spec => ResumesReadable)
  <1> SUFFICES ASSUME HonestRestores PROVE Spec => ResumesReadable
    OBVIOUS
  <1>1. ConversationInv /\ SnapshotInv /\ [Next]_vars
           => [Opening => ws' = [p \in Readable(store.was) |-> Plain(store.was[p])]]_vars
    <2> SUFFICES ASSUME ConversationInv, SnapshotInv, [Next]_vars, Opening
                 PROVE  ws' = [p \in Readable(store.was) |-> Plain(store.was[p])]
      OBVIOUS
    <2>1. Opens
      BY DEF Opening, Next, Opens, RunCompletes, RunFails, RunProject, Dies, Checkpoint,
             Stores, Closes, Crash, Begins, vars
    <2> QED BY <2>1, OpensOnSnapshot DEF Snapshot
  <1> QED BY <1>1, ConversationInvariant, SnapshotInvariant, PTL DEF Spec, ResumesReadable

----------------------------------------------------------------------------
(* The variables of the agent. *)

\* The runs and the restores are honest: no lapse at all.
HonestTurns == HonestRestores /\ Lapses = {}

\* Nothing is saved before the first run.
LEMMA NamespaceInit == Init => NamespaceInv
  <1> SUFFICES ASSUME Init PROVE NamespaceInv
    OBVIOUS
  <1>1. Holds(Empty, 0)
    BY NoBlobIsOK, EmptyIsWorkspace DEF Holds
  <1>2. NoBlob.was = Empty /\ NoBlob.vars = 0
    BY NoBlobIsEmpty
  <1> QED BY <1>1, <1>2 DEF Init, NamespaceInv

\* What the agent's code does to its own paths leaves the harness's file alone.
LEMMA WorkedHolds ==
    ASSUME NEW n, NEW m \in Int, Holds(ws, n), NEW w \in Worked(m)
    PROVE  Holds(w, n)
  <1>1. CASE w = ws
    BY <1>1
  <1>2. ASSUME NEW p \in Paths, NEW k \in RunKinds, NEW s \in Sizes, w = With(ws, p, Entry(k, s, m))
        PROVE  Holds(w, n)
    BY <1>2, ConversationAssumption DEF With, Holds, FoundIn
  <1>3. ASSUME NEW p \in Paths, w = Part(ws, DOMAIN ws \ {p})
        PROVE  Holds(w, n)
    BY <1>3, ConversationAssumption DEF Part, Holds, FoundIn
  <1>4. \/ w = ws
        \/ \E p \in Paths, k \in RunKinds, s \in Sizes : w = With(ws, p, Entry(k, s, m))
        \/ \E p \in Paths : w = Part(ws, DOMAIN ws \ {p})
    BY WorkedCases, Zenon
  <1> QED BY <1>1, <1>2, <1>3, <1>4

\* A checkpoint carries the harness's file: it is a plain file.
LEMMA SnapshotHolds ==
    ASSUME NEW w, NEW n, IsWorkspace(w), Holds(w, n) PROVE Holds(Snapshot(w), n)
  <1>1. CASE NsFile \in DOMAIN w
    <2>1. NsFile \in Readable(w)
      BY <1>1 DEF Holds, Readable
    <2>2. w[NsFile] \in Entries
      BY <1>1 DEF IsWorkspace
    <2>3. Snapshot(w)[NsFile] = Plain(w[NsFile]) /\ NsFile \in DOMAIN Snapshot(w)
      BY <2>1 DEF Snapshot
    <2>4. Plain(w[NsFile]).kind = "file" /\ Plain(w[NsFile]).data = w[NsFile].data
      BY <2>2 DEF Plain, Entries
    <2> QED BY <1>1, <2>3, <2>4 DEF Holds, FoundIn
  <1>2. CASE NsFile \notin DOMAIN w
    BY <1>2 DEF Holds, FoundIn, Snapshot, Readable
  <1> QED BY <1>1, <1>2

\* Every action keeps the variables at the run the conversation is at.
LEMMA NamespaceStep ==
    ASSUME HonestTurns
    PROVE  ConversationInv /\ SnapshotInv /\ NamespaceInv /\ [Next]_vars => NamespaceInv'
  <1> SUFFICES ASSUME ConversationInv, SnapshotInv, NamespaceInv, [Next]_vars
               PROVE  NamespaceInv'
    OBVIOUS
  <1>w. SUFFICES Holds(ws', live') /\ Holds(blob'.was, blob'.vars) /\ Holds(store'.was, store'.vars)
    BY DEF NamespaceInv, Holds, FoundIn
  <1>0. /\ Holds(ws, live) /\ Holds(blob.was, blob.vars) /\ Holds(store.was, store.vars)
        /\ IsWorkspace(ws) /\ runs \in Nat
    BY ConversationAssumption DEF NamespaceInv, ConversationInv, TypeOK, IsWorkspace, AllPaths
  <1>b. Holds(NoBlob.was, NoBlob.vars)
    BY NoBlobIsOK, NoBlobIsEmpty, EmptyIsWorkspace DEF Holds
  <1>1. CASE Opens
    <2>1. ws' = Snapshot(store.was)
      BY <1>1, OpensOnSnapshot DEF HonestTurns
    <2>2. Holds(Snapshot(store.was), store.vars)
      BY <1>0, SnapshotHolds DEF SnapshotInv, Faithful
    <2>3. live' = store.vars /\ blob' = NoBlob /\ store' = store
      BY <1>1 DEF Opens
    <2> QED BY <1>0, <1>b, <2>1, <2>2, <2>3
  <1>2. CASE RunCompletes
    <2>1. PICK w \in Worked(runs') : ws' = With(w, NsFile, Entry("file", 1, runs'))
      BY <1>2 DEF RunCompletes
    <2>2. live' = runs' /\ blob' = blob /\ store' = store
      BY <1>2 DEF RunCompletes
    <2>3. Holds(ws', live')
      BY <2>1, <2>2 DEF Holds, FoundIn, With, Entry
    <2> QED BY <1>0, <2>2, <2>3
  <1>3. CASE RunFails
    <2>1. ws' = ws \/ ws' \in Worked(runs')
      BY <1>3 DEF RunFails, HonestTurns, CutOff
    <2>2. live' = live /\ blob' = blob /\ store' = store /\ runs' \in Int
      BY <1>0, <1>3 DEF RunFails, Begins
    <2> QED BY <1>0, <2>1, <2>2, WorkedHolds
  <1>4. CASE RunProject
    <2>1. live' = live /\ blob' = blob /\ store' = store /\ runs' \in Int
      BY <1>0, <1>4 DEF RunProject, Begins
    <2>2. PICK tree \in Trees, follow \in BOOLEAN, extra \in Extras(runs') :
              \/ ws' = Uploaded(ws, Joined(extra, Chosen(tree, follow)))
              \/ ws' = ws
      BY <1>4 DEF RunProject
    <2>3. NsFile \notin DOMAIN Joined(extra, Chosen(tree, follow))
      BY <2>1, InputsAreFiles, ConversationAssumption
    <2>4. Holds(Uploaded(ws, Joined(extra, Chosen(tree, follow))), live)
      BY <1>0, <2>3 DEF Uploaded, Holds, FoundIn
    <2> QED BY <1>0, <2>1, <2>2, <2>4
  <1>5. CASE Checkpoint
    <2>1. /\ blob'.was = ws /\ blob'.vars = live
          /\ ws' = ws /\ live' = live /\ store' = store
      BY <1>5 DEF Checkpoint, Taken
    <2> QED BY <1>0, <2>1
  <1>6. CASE Stores \/ Dies \/ Closes \/ Crash \/ UNCHANGED vars
    <2>1. ws' = ws /\ live' = live /\ blob' \in {blob, NoBlob} /\ store' \in {store, blob}
      BY <1>6 DEF Stores, Dies, Closes, Crash, vars
    <2> QED BY <1>0, <1>b, <2>1
  <1> QED BY <1>1, <1>2, <1>3, <1>4, <1>5, <1>6 DEF Next

\* An agent finds the variables of its last completed run, through failed runs,
\* uploads, checkpoints, crashes and resumed sessions (examples/stateful_agent.py:5-8, 30-31),
\* when no pickle is cut off: a run that is killed while it saves loses them.
THEOREM NamespaceCarried == HonestTurns => (Spec => []NamespaceCarries)
  <1> SUFFICES ASSUME HonestTurns PROVE Spec => []NamespaceCarries
    OBVIOUS
  <1>1. HonestRestores
    BY DEF HonestTurns
  <1>2. NamespaceInv => NamespaceCarries
    BY DEF NamespaceInv, NamespaceCarries, Holds, FoundIn, Found
  <1> QED BY <1>1, <1>2, NamespaceInit, NamespaceStep, ConversationInvariant,
             SnapshotInvariant, PTL DEF Spec

===============================================================================
