------------------------- MODULE FileSensorsProofs -------------------------
(***************************************************************************)
(* The columns of FileSensors, for any number of zones, disks, ports,      *)
(* devices, events and processors, any numbering of them, and any          *)
(* devices that go away.                                                   *)
(*                                                                         *)
(* The sensors that find their files first have a plan, that they follow   *)
(* when they open them (PlanInv); those that walk their directories have   *)
(* one column for each file behind them, in the order of the walk          *)
(* (WalkInv, CoverInv).  A row is cut into the blocks of the files that    *)
(* have been read (RowInv); Place numbers the elements of blocks.          *)
(*                                                                         *)
(* The devices of a network sensor are different: for those given with     *)
(* -d X this is a theorem about NetRoute, at the end.                      *)
(***************************************************************************)
EXTENDS FileSensors, NetRoute, FiniteSetTheorems, SequenceTheorems,
        WellFoundedInduction, TLAPS

-----------------------------------------------------------------------------
(* Arithmetic, and what FlattenSeq makes of blocks of the same length *)

LEMMA Least ==
    ASSUME NEW T, T \subseteq Nat, T # {}
    PROVE  \E x \in T : \A y \in T : x <= y
<1>1. PICK x \in T : \A y \in T : ~(<<y, x>> \in OpToRel(<, Nat))
  BY NatLessThanWellFounded, WFMin
<1>2. ASSUME NEW y \in T PROVE x <= y
  <2>1. ~(y < x)
    BY <1>1 DEF OpToRel
  <2> QED
    BY <2>1
<1> QED
  BY <1>2

LEMMA Division ==
    ASSUME NEW m \in Nat \ {0}, NEW a \in Nat
    PROVE  /\ a \div m \in Nat /\ a % m \in 0 .. m - 1
           /\ a = (a \div m) * m + (a % m)
OBVIOUS

LEMMA Product ==
    ASSUME NEW m \in Nat, NEW q \in Nat
    PROVE  q * m \in Nat /\ (q + 1) * m = q * m + m /\ (q - 1) * m = q * m - m
OBVIOUS

LEMMA ProductOrder ==
    ASSUME NEW m \in Nat, NEW p \in Nat, NEW q \in Nat, p <= q
    PROVE  p * m <= q * m
<1>1. (q - p) * m >= 0 /\ (q - p) * m = q * m - p * m
  OBVIOUS
<1> QED
  BY <1>1, Product

\* The quotient and the remainder are the only ones.
LEMMA Unique ==
    ASSUME NEW m \in Nat \ {0}, NEW p \in Nat, NEW q \in Nat,
           NEW r \in 0 .. m - 1, NEW t \in 0 .. m - 1, p * m + r = q * m + t
    PROVE  p = q /\ r = t
<1>1. p * m \in Nat /\ q * m \in Nat
  BY Product
<1>2. ASSUME p < q PROVE FALSE
  <2>1. (p + 1) * m <= q * m
    BY <1>2, ProductOrder
  <2> QED
    BY <2>1, <1>1, Product
<1>3. ASSUME q < p PROVE FALSE
  <2>1. (q + 1) * m <= p * m
    BY <1>3, ProductOrder
  <2> QED
    BY <2>1, <1>1, Product
<1>4. p = q
  BY <1>2, <1>3
<1> QED
  BY <1>4, <1>1

LEMMA Remainder ==
    ASSUME NEW m \in Nat \ {0}, NEW q \in Nat, NEW r \in 0 .. m - 1
    PROVE  (q * m + r) % m = r /\ (q * m + r) \div m = q
<1> DEFINE a == q * m + r
<1>1. a \in Nat
  BY Product
<1>2. /\ a \div m \in Nat /\ a % m \in 0 .. m - 1
      /\ a = (a \div m) * m + (a % m)
  BY <1>1, Division
<1>3. a = q * m + r
  OBVIOUS
<1> HIDE DEF a
<1>4. a \div m = q /\ a % m = r
  BY <1>2, <1>3, Unique
<1> QED
  BY <1>4 DEF a

LEMMA ExactQuotient ==
    ASSUME NEW n \in Nat \ {0}, NEW c \in Nat
    PROVE  (n * c) \div n = c
<1>1. (c * n + 0) \div n = c
  BY Remainder
<1>2. n * c = c * n + 0
  OBVIOUS
<1> QED
  BY <1>1, <1>2

\* Where element j of block k is among blocks of b elements.
Place(k, b, j) == (k - 1) * b + j

LEMMA Cell ==
    ASSUME NEW b \in Nat \ {0}, NEW n \in Nat, NEW x \in 1 .. n * b
    PROVE  \E k \in 1 .. n : \E j \in 1 .. b : x = Place(k, b, j)
<1> DEFINE q == (x - 1) \div b
<1> DEFINE r == (x - 1) % b
<1>0. n * b \in Nat
  BY Product
<1>1. q \in Nat /\ r \in 0 .. b - 1 /\ x - 1 = q * b + r
  BY <1>0, Division
<1> HIDE DEF q, r
<1>2. q * b \in Nat
  BY <1>1, Product
<1>3. q < n
  <2>1. ASSUME n <= q PROVE FALSE
    BY <2>1, <1>0, <1>1, <1>2, ProductOrder
  <2> QED
    BY <2>1, <1>1
<1>4. q + 1 \in 1 .. n /\ r + 1 \in 1 .. b /\ x = Place(q + 1, b, r + 1)
  BY <1>0, <1>1, <1>2, <1>3 DEF Place
<1> QED
  BY <1>4

LEMMA CellRange ==
    ASSUME NEW b \in Nat \ {0}, NEW n \in Nat, NEW k \in 1 .. n, NEW j \in 1 .. b
    PROVE  Place(k, b, j) \in 1 .. n * b /\ n * b \in Nat
<1>1. (k - 1) * b \in Nat /\ n * b \in Nat /\ k * b = (k - 1) * b + b
  BY Product
<1>2. k * b <= n * b
  BY ProductOrder
<1> QED
  BY <1>1, <1>2 DEF Place

LEMMA SameCell ==
    ASSUME NEW b \in Nat \ {0}, NEW k \in Nat \ {0}, NEW l \in Nat \ {0},
           NEW j \in 1 .. b, NEW i \in 1 .. b,
           Place(k, b, j) = Place(l, b, i)
    PROVE  k = l /\ j = i
<1> DEFINE p == k - 1
<1> DEFINE q == l - 1
<1>1. /\ p \in Nat /\ q \in Nat /\ j - 1 \in 0 .. b - 1 /\ i - 1 \in 0 .. b - 1
      /\ p * b \in Nat /\ q * b \in Nat
  BY Product
<1>2. p * b + (j - 1) = q * b + (i - 1)
  BY <1>1 DEF Place
<1> HIDE DEF p, q
<1>3. p = q /\ j - 1 = i - 1
  BY <1>1, <1>2, Unique
<1> QED
  BY <1>3 DEF p, q

Flattening(g, seqs) ==
    g = [i \in 1 .. Len(seqs) |->
            IF i = 1 THEN seqs[i] ELSE g[i - 1] \o seqs[i]]

LEMMA FlattenLast ==
    ASSUME NEW seqs, Len(seqs) # 0, NEW h, Flattening(h, seqs)
    PROVE  \E g : Flattening(g, seqs) /\ FlattenSeq(seqs) = g[Len(seqs)]
BY Zenon DEF Flattening, FlattenSeq

LEMMA FlattenUnique ==
    ASSUME NEW seqs, Len(seqs) \in Nat, NEW g, Flattening(g, seqs),
           NEW h, Flattening(h, seqs)
    PROVE  \A i \in 1 .. Len(seqs) : g[i] = h[i]
<1> DEFINE T == {i \in 1 .. Len(seqs) : g[i] # h[i]}
<1> SUFFICES ASSUME T # {} PROVE FALSE
  OBVIOUS
<1>0. T \subseteq Nat
  OBVIOUS
<1>1. PICK x \in T : \A y \in T : x <= y
  BY <1>0, Least
<1>g. g[x] = IF x = 1 THEN seqs[x] ELSE g[x - 1] \o seqs[x]
  BY Zenon DEF Flattening
<1>h. h[x] = IF x = 1 THEN seqs[x] ELSE h[x - 1] \o seqs[x]
  BY Zenon DEF Flattening
<1>2. x # 1
  BY <1>g, <1>h
<1>3. x - 1 \in 1 .. Len(seqs) /\ ~(x <= x - 1)
  BY <1>2
<1>4. g[x - 1] = h[x - 1]
  BY <1>1, <1>3
<1> QED
  BY <1>g, <1>h, <1>4

Element(seqs, b, x) == seqs[((x - 1) \div b) + 1][((x - 1) % b) + 1]

LEMMA ElementAt ==
    ASSUME NEW seqs, NEW b \in Nat \ {0}, NEW k \in Nat \ {0}, NEW j \in 1 .. b
    PROVE  Element(seqs, b, Place(k, b, j)) = seqs[k][j]
<1> DEFINE q == k - 1
<1> DEFINE r == j - 1
<1>1. q \in Nat /\ r \in 0 .. b - 1 /\ q + 1 = k /\ r + 1 = j /\ q * b \in Nat
  BY Product
<1>2. Place(k, b, j) - 1 = q * b + r
  BY <1>1 DEF Place
<1> HIDE DEF q, r
<1>3. (q * b + r) % b = r /\ (q * b + r) \div b = q
  BY <1>1, Remainder
<1> QED
  BY <1>1, <1>2, <1>3 DEF Element

LEMMA FlattenUniform ==
    ASSUME NEW S, NEW n \in Nat, NEW b \in Nat \ {0}, NEW seqs \in [1 .. n -> Seq(S)],
           \A k \in 1 .. n : Len(seqs[k]) = b
    PROVE  /\ FlattenSeq(seqs) \in Seq(S) /\ Len(FlattenSeq(seqs)) = n * b
           /\ \A k \in 1 .. n : \A j \in 1 .. b :
                  FlattenSeq(seqs)[Place(k, b, j)] = seqs[k][j]
<1>0. seqs \in Seq(Seq(S)) /\ Len(seqs) = n
  OBVIOUS
<1>1. CASE n = 0
  <2>1. FlattenSeq(seqs) = seqs
    BY <1>0, <1>1 DEF FlattenSeq
  <2>2. seqs = <<>> /\ n * b = 0
    BY <1>0, <1>1
  <2> QED
    BY <2>1, <2>2, <1>1
<1>2. CASE n # 0
  <2> DEFINE h == [i \in 1 .. n |-> [x \in 1 .. i * b |-> Element(seqs, b, x)]]
  <2>2. ASSUME NEW i \in 1 .. n
        PROVE  /\ h[i] \in Seq(S) /\ Len(h[i]) = i * b
               /\ \A k \in 1 .. i : \A j \in 1 .. b : h[i][Place(k, b, j)] = seqs[k][j]
    <3>0. i * b \in Nat
      BY Product
    <3>1. ASSUME NEW x \in 1 .. i * b PROVE Element(seqs, b, x) \in S
      <4>0. i \in Nat
        OBVIOUS
      <4>1. PICK k \in 1 .. i, j \in 1 .. b : x = Place(k, b, j)
        BY <4>0, Cell
      <4>2. seqs[k] \in Seq(S) /\ Len(seqs[k]) = b /\ k \in Nat \ {0}
        OBVIOUS
      <4>3. Element(seqs, b, x) = seqs[k][j]
        BY <4>1, <4>2, ElementAt
      <4> QED
        BY <4>2, <4>3
    <3>2. h[i] = [x \in 1 .. i * b |-> Element(seqs, b, x)]
      OBVIOUS
    <3>3. h[i] \in [1 .. i * b -> S]
      BY <3>1, <3>2
    <3> HIDE DEF h
    <3>4. ASSUME NEW k \in 1 .. i, NEW j \in 1 .. b
          PROVE  h[i][Place(k, b, j)] = seqs[k][j]
      <4>0. i \in Nat
        OBVIOUS
      <4>1. Place(k, b, j) \in 1 .. i * b
        BY <4>0, CellRange
      <4>2. h[i][Place(k, b, j)] = Element(seqs, b, Place(k, b, j))
        BY <3>2, <4>1
      <4>3. k \in Nat \ {0}
        OBVIOUS
      <4> QED
        BY <4>2, <4>3, ElementAt
    <3>5. h[i] \in Seq(S) /\ Len(h[i]) = i * b
      <4> DEFINE m == i * b
      <4>1. m \in Nat /\ h[i] \in [1 .. m -> S]
        BY <3>0, <3>3
      <4> HIDE DEF m
      <4>2. h[i] \in Seq(S) /\ Len(h[i]) = m
        BY <4>1
      <4> QED
        BY <4>2 DEF m
    <3> QED
      BY <3>4, <3>5
  <2>3. ASSUME NEW i \in 1 .. n
        PROVE  h[i] = IF i = 1 THEN seqs[i] ELSE h[i - 1] \o seqs[i]
    <3>1. seqs[i] \in Seq(S) /\ Len(seqs[i]) = b
      OBVIOUS
    <3>2. CASE i = 1
      <4>1. h[1] \in Seq(S) /\ Len(h[1]) = b
        <5>1. 1 \in 1 .. n /\ 1 * b = b
          BY <3>2
        <5> HIDE DEF h
        <5> QED
          BY <2>2, <5>1
      <4> HIDE DEF h
      <4>2. ASSUME NEW j \in 1 .. b PROVE h[1][j] = seqs[1][j]
        <5>1. 1 \in 1 .. n /\ 1 \in 1 .. 1
          BY <3>2
        <5>2. h[1][Place(1, b, j)] = seqs[1][j]
          BY <2>2, <5>1, Zenon
        <5>3. Place(1, b, j) = j
          BY DEF Place
        <5> QED
          BY <5>2, <5>3
      <4> QED
        BY <4>1, <4>2, <3>1, <3>2
    <3>3. CASE i # 1
      <4>1. i - 1 \in 1 .. n /\ (i - 1) * b \in Nat /\ i * b = (i - 1) * b + b
        BY <3>3, Product
      <4>2. /\ h[i] \in Seq(S) /\ Len(h[i]) = i * b
            /\ h[i - 1] \in Seq(S) /\ Len(h[i - 1]) = (i - 1) * b
        BY <2>2, <4>1
      <4>3. ASSUME NEW x \in 1 .. (i - 1) * b PROVE h[i][x] = h[i - 1][x]
        BY <4>1
      <4>4. ASSUME NEW j \in 1 .. b PROVE h[i][(i - 1) * b + j] = seqs[i][j]
        BY <2>2 DEF Place
      <4> DEFINE hi == h[i]
      <4> DEFINE hp == h[i - 1]
      <4> DEFINE m == (i - 1) * b
      <4>5. /\ hi \in Seq(S) /\ Len(hi) = m + b /\ hp \in Seq(S) /\ Len(hp) = m
            /\ \A x \in 1 .. m : hi[x] = hp[x]
            /\ \A j \in 1 .. b : hi[m + j] = seqs[i][j]
            /\ m \in Nat
        BY <4>1, <4>2, <4>3, <4>4
      <4> DEFINE si == seqs[i]
      <4>s. si \in Seq(S) /\ Len(si) = b
        BY <3>1
      <4> HIDE DEF hi, hp, m, h, si
      <4>6. hp \o si \in Seq(S) /\ Len(hp \o si) = m + b
        BY <4>5, <4>s, ConcatProperties
      <4>7. ASSUME NEW x \in 1 .. m + b PROVE hi[x] = (hp \o si)[x]
        <5>1. CASE x <= m
          <6>1. x \in 1 .. m
            BY <5>1, <4>5
          <6>2. (hp \o si)[x] = hp[x]
            BY <6>1, <4>5, <4>s, ConcatProperties
          <6> QED
            BY <6>1, <6>2, <4>5
        <5>2. CASE x > m
          <6>1. x - m \in 1 .. b /\ x = m + (x - m)
            BY <5>2, <4>5
          <6>2. hi[x] = si[x - m]
            BY <6>1, <4>5 DEF si
          <6> QED
            BY <6>2, <5>2, <4>5, <4>s
        <5>3. x <= m \/ x > m
          BY <4>5
        <5> QED
          BY <5>1, <5>2, <5>3, Zenon
      <4>8. hi = hp \o si
        BY <4>5, <4>6, <4>7, SeqEqual
      <4> QED
        BY <4>8, <3>3 DEF hi, hp, si
    <3> QED
      BY <3>2, <3>3
  <2>4. Flattening(h, seqs)
    <3>1. h = [i \in 1 .. n |-> h[i]]
      OBVIOUS
    <3> HIDE DEF h
    <3>2. h = [i \in 1 .. n |-> IF i = 1 THEN seqs[i] ELSE h[i - 1] \o seqs[i]]
      BY <3>1, <2>3, Zenon
    <3> QED
      BY <3>2, <1>0, Zenon DEF Flattening
  <2> HIDE DEF h
  <2>5. PICK g : Flattening(g, seqs) /\ FlattenSeq(seqs) = g[n]
    BY <2>4, <1>0, <1>2, FlattenLast
  <2>6. g[n] = h[n]
    BY <2>4, <2>5, <1>0, <1>2, FlattenUnique
  <2> QED
    BY <2>2, <2>5, <2>6, <1>2
<1> QED
  BY <1>1, <1>2

-----------------------------------------------------------------------------
(* The inductive invariant *)

Pairs  == Nat \X Nat
Titles == {<<Name(f), k>> : f \in Pairs, k \in Int} \cup Pairs
Fields == Pairs \X Nat

Walked  == kind \in {"rapl", "temperature"}
Before(f, g) == f[1] < g[1] \/ (f[1] = g[1] /\ f[2] < g[2])

TypeInv ==
    /\ machine \in Machines /\ files \subseteq machine.files /\ unplugs \in Nat
    /\ unplugs = 0 => files = machine.files
    /\ kind = "perf" => files # {}
    /\ pc \in {"walk", "open", "list", "find", "openList", "base", "dropped",
               "exit", "crash", "ready", "get", "use", "cleaned"}
    /\ at \in Pairs /\ key \in Nat
    /\ indexes \in Seq(1 .. NbCounters) /\ todo \in Seq(Pairs)
    /\ fids \in Seq(machine.files \cup {None}) /\ open \subseteq 1 .. Len(fids)
    /\ labels \in Seq(Titles)
    /\ d \in 0 .. Len(fids) /\ row \in Seq(Seq(Fields))

Reading == {"base", "ready", "get", "use"}

\* Which sensor goes through which part of the program, and what it has done
\* there.
PhaseInv ==
    /\ pc \in {"walk", "open"} => Walked
    /\ pc = "list" => kind \in {"perf", "memory"}
    /\ pc = "find" => kind \in {"disk", "infiniband", "network", "load"}
    /\ pc = "openList" => ~Walked
    /\ pc = "base" => kind \notin {"temperature", "memory"}
    /\ pc \in {"list", "find"} => fids = <<>> /\ open = {} /\ todo = <<>> /\ labels = <<>>
    /\ pc \in {"walk", "open", "list", "find", "openList"} => d = 0 /\ row = <<>>
    /\ pc \in Reading /\ ~Walked => todo = <<>>

\* memory_list() stops one name behind the end of the array.
ListInv ==
    /\ kind = "memory" => /\ Len(indexes) <= NbCounters + 1
                          /\ pc # "exit" => Len(indexes) <= NbCounters
    /\ Len(indexes) <= Len(machine.list)
    /\ kind = "memory" /\ pc \notin {"list", "exit"} =>
           Len(indexes) = Len(machine.list)

\* The file of column k of a sensor that walks its directories: the last one
\* may still have to be opened.
Source(k) == IF k <= Len(fids) THEN fids[k] ELSE at

LabelOf(f) == IF kind = "rapl" THEN RaplLabel(f) ELSE <<Name(f), KeyOf(f)>>

\* The columns have the order of the walk.
WalkInv ==
    Walked =>
        /\ pc = "open" => Len(labels) = Len(fids) + 1
        /\ pc \notin {"open", "exit", "crash"} => Len(labels) = Len(fids)
        /\ Len(labels) \in Len(fids) .. Len(fids) + 1
        /\ \A k \in 1 .. Len(labels) :
               /\ Source(k) \in machine.files /\ labels[k] = LabelOf(Source(k))
               /\ kind = "temperature" => Source(k)[2] > 0 /\ Source(k)[1] \in Coretemp
        /\ \A j, k \in 1 .. Len(labels) : j < k => Before(Source(j), Source(k))
        /\ \A k \in 1 .. Len(fids) : Before(fids[k], at)
        /\ kind = "temperature" =>
               key = KeyOf(at) /\ (at[2] > 0 => at[1] \in Coretemp)

Measured(f) == kind = "temperature" => f[1] \in Coretemp /\ f[2] > 0

\* Without a gap the walk leaves nothing behind.
CoverInv ==
    Walked /\ unplugs = 0 /\ NoGap /\ pc \in Reading \cup {"walk", "open"} =>
        /\ \A f \in machine.files :
               Before(f, at) /\ Measured(f) => \E k \in 1 .. Len(fids) : fids[k] = f
        /\ pc \in Reading => \A f \in machine.files : f[1] < at[1]

\* The files that a sensor has decided to open, and its labels.
DiskPlan(plan) ==
    /\ plan # <<>> /\ Len(labels) = Len(plan) * NbFields
    /\ \A k \in 1 .. Len(plan) : \A j \in 1 .. NbFields :
           labels[Place(k, NbFields, j)] = <<plan[k][1], j>>
    /\ \A k \in 1 .. Len(plan) : plan[k] \in machine.files
    /\ \A j, k \in 1 .. Len(plan) : j < k => plan[j][1] < plan[k][1]
    /\ unplugs = 0 => \A f \in machine.files : \E k \in 1 .. Len(plan) : plan[k] = f

PortPlan(plan) ==
    /\ Len(plan) = NbFields /\ Len(labels) = NbFields
    /\ \E p \in Nat : \A j \in 1 .. NbFields :
           plan[j] = <<p, j>> /\ labels[j] = <<0, j>>

NetworkPlan(plan) ==
    /\ Len(plan) = Len(machine.list) * NbFields
    /\ \A k \in 1 .. Len(machine.list) : \A j \in 1 .. NbFields :
           plan[Place(k, NbFields, j)] = <<machine.list[k], j>>
    /\ labels = plan

StatPlan(plan) ==
    /\ Len(plan) = 1 /\ plan[1] = Proc /\ Len(labels) = NbFields
    /\ \A j \in 1 .. NbFields : labels[j] = <<0, j>>

NamePlan(plan) ==
    /\ Len(labels) = Len(indexes)
    /\ \A e \in 1 .. Len(indexes) : labels[e] = <<indexes[e], 0>>

PerfPlan(plan) ==
    \E c \in Nat \ {0} :
        /\ Len(plan) = Len(indexes) * c
        /\ \A e \in 1 .. Len(indexes) : \A x \in 1 .. c :
               plan[Place(e, c, x)] = <<indexes[e], x - 1>>
        /\ unplugs = 0 => c = Cardinality({f[2] : f \in machine.files})

Planned(plan) ==
    /\ kind = "disk" => DiskPlan(plan)
    /\ kind = "infiniband" => PortPlan(plan)
    /\ kind = "network" => NetworkPlan(plan)
    /\ kind = "load" => StatPlan(plan)
    /\ kind = "perf" => NamePlan(plan) /\ PerfPlan(plan)
    /\ kind = "memory" => NamePlan(plan) /\ Len(plan) = 1 /\ plan[1] = Proc

\* The first files of the plan are open or were missing, the others follow.
Followed(plan) ==
    /\ Len(plan) = Len(fids) + Len(todo)
    /\ \A k \in 1 .. Len(fids) : fids[k] \in {plan[k], None}
    /\ \A k \in 1 .. Len(todo) : todo[k] = plan[Len(fids) + k]

PlanInv ==
    ~Walked =>
        \/ labels = <<>> /\ pc \in {"list", "find", "exit", "dropped"}
        \/ \E plan \in Seq(Pairs) : Planned(plan) /\ Followed(plan)

\* What has been opened can be read, but for a disk or a port that is missing.
OpenedInv ==
    /\ pc \notin {"exit", "crash", "dropped"} /\ kind \notin {"disk", "infiniband"} =>
           \A k \in 1 .. Len(fids) : fids[k] # None
    /\ pc \in {"ready", "get", "use"} =>
           labels # <<>> /\ (\A k \in 1 .. Len(fids) : fids[k] # None)
    /\ pc = "cleaned" => open = {}
    /\ (pc = "dropped" /\ (kind = "memory" => machine.list # <<>>)) => open = {}

NbParts == Len(fids) \div Len(indexes)
Part(e, n) == [x \in 1 .. n |-> <<<<indexes[e], x - 1>>, 0>>]

\* The row of the first d files.
FileRow == Len(row) = d /\ \A k \in 1 .. d : row[k] = <<<<fids[k], 0>>>>
FieldRow ==
    /\ Len(row) = d * NbFields
    /\ \A k \in 1 .. d : \A j \in 1 .. NbFields :
           row[Place(k, NbFields, j)] = <<<<fids[k], j>>>>
NameRow ==
    /\ Len(row) = (IF d = 0 THEN 0 ELSE Len(indexes))
    /\ d > 0 => \A e \in 1 .. Len(indexes) : row[e] = <<<<fids[1], indexes[e]>>>>
PerfRow ==
    /\ d = 0 => row = <<>>
    /\ d > 0 =>
           \E q \in 0 .. Len(indexes), r \in 0 .. NbParts - 1 :
               /\ d = q * NbParts + r
               /\ Len(row) = (IF r = 0 THEN q ELSE q + 1)
               /\ \A e \in 1 .. q : row[e] = Part(e, NbParts)
               /\ r > 0 => q < Len(indexes) /\ row[q + 1] = Part(q + 1, r)

RowInv ==
    pc \in {"base", "get", "use"} =>
        /\ \A k \in 1 .. d : fids[k] # None
        /\ kind \in {"rapl", "temperature", "network", "infiniband"} => FileRow
        /\ kind \in {"disk", "load"} => FieldRow
        /\ kind = "memory" => NameRow
        /\ kind = "perf" => PerfRow
        /\ pc = "use" => d = Len(fids)

IInv == /\ TypeInv /\ PhaseInv /\ ListInv /\ WalkInv /\ CoverInv /\ PlanInv
        /\ OpenedInv /\ RowInv

-----------------------------------------------------------------------------
(* What the constants say of the machine *)

LEMMA MachineType ==
    ASSUME TypeInv
    PROVE  /\ kind \in {"rapl", "temperature", "disk", "infiniband", "network",
                        "load", "perf", "memory"}
           /\ machine.files \subseteq Pairs /\ IsFiniteSet(machine.files)
           /\ machine.list \in Seq(Nat)
           /\ kind = "disk" => \A f \in machine.files : f[2] = 0
           /\ kind \in {"infiniband", "network"} =>
                  \A f \in machine.files : f[2] \in 1 .. NbFields
           /\ kind = "network" =>
                  \A j, k \in 1 .. Len(machine.list) :
                      machine.list[j] = machine.list[k] => j = k
           /\ kind = "perf" =>
                  /\ machine.files # {}
                  /\ machine.files = (1 .. NbCounters) \X {f[2] : f \in machine.files}
           /\ kind \in {"load", "memory"} => machine.files = {Proc}
BY MachinesAssumption DEF TypeInv, Pairs, kind, Proc

LEMMA Names ==
    ASSUME TypeInv, Walked, NEW f \in machine.files, NEW g \in machine.files,
           Name(f) = Name(g),
           \/ f[1] = g[1] /\ f[2] > 0 /\ g[2] > 0
           \/ kind = "rapl" /\ f[2] = 0 /\ g[2] = 0
    PROVE  f = g
BY NamesAssumption DEF TypeInv, Walked, kind

LEMMA PairType ==
    ASSUME NEW f \in Pairs
    PROVE  f[1] \in Nat /\ f[2] \in Nat /\ f = <<f[1], f[2]>> /\ f # None
BY DEF Pairs, None

LEMMA SamePair ==
    ASSUME NEW f \in Pairs, NEW g \in Pairs, f[1] = g[1], f[2] = g[2]
    PROVE  f = g
BY PairType

\* The machine stays, what it shows of its devices only shrinks.
LEMMA Steady ==
    ASSUME TypeInv, [Next]_vars
    PROVE  /\ machine' = machine /\ kind' = kind /\ (Walked' <=> Walked)
           /\ files' \subseteq files /\ unplugs' \in Nat
           /\ unplugs' = 0 => unplugs = 0 /\ files' = files
           /\ kind = "perf" => files' # {}
           /\ unplugs' = 0 => files' = machine.files
<1> USE DEF environment
<1>1. /\ machine' = machine /\ files' \subseteq files /\ unplugs' \in Nat
      /\ unplugs' = 0 => unplugs = 0 /\ files' = files
      /\ kind = "perf" => files' # {}
  <2>1. CASE Unplug
    <3>1. /\ machine' = machine /\ unplugs' = unplugs + 1
          /\ kind = "perf" => files' # {}
      BY <2>1 DEF Unplug
    <3>2. files' \subseteq files
      BY <2>1 DEF Unplug
    <3> QED
      BY <3>1, <3>2 DEF TypeInv
  <2>2. CASE UNCHANGED environment
    BY <2>2 DEF TypeInv
  <2> QED
    BY <2>1, <2>2 DEF Next, vars, WalkFound, WalkOpen, HwmonName, WalkNext, WalkEnd,
       ListName, ListEnd, GlobDisks, GlobPorts, FindDevices, FindStat, OpenListed,
       OpenedAll, Get, Read, EndRead, Clean, Terminated
<1> QED
  BY <1>1 DEF kind, Walked, TypeInv

LEMMA OpenIn ==
    ASSUME TypeInv, NEW k \in 1 .. Len(fids), fids[k] # None
    PROVE  fids[k] \in machine.files /\ fids[k] \in Pairs
BY MachineType DEF TypeInv

LEMMA LabelType ==
    ASSUME NEW f \in Pairs, NEW k \in Nat
    PROVE  RaplLabel(f) \in Titles /\ <<Name(f), k>> \in Titles
<1>1. (IF f[2] = 0 THEN -1 ELSE f[1]) \in Int
  BY PairType
<1> QED
  BY <1>1 DEF RaplLabel, Titles

LEMMA TitleSeq ==
    ASSUME NEW u \in Seq(Pairs)
    PROVE  u \in Seq(Titles)
BY DEF Titles

LEMMA ExceptType ==
    ASSUME NEW S, NEW u \in Seq(S), NEW j, NEW x \in S
    PROVE  /\ [u EXCEPT ![j] = x] \in Seq(S)
           /\ Len([u EXCEPT ![j] = x]) = Len(u)
           /\ \A k \in 1 .. Len(u) :
                  [u EXCEPT ![j] = x][k] = IF k = j THEN x ELSE u[k]
<1> DEFINE t == [u EXCEPT ![j] = x]
<1>0. u \in [1 .. Len(u) -> S] /\ Len(u) \in Nat
  OBVIOUS
<1>1. \A k \in 1 .. Len(u) : t[k] = IF k = j THEN x ELSE u[k]
  BY <1>0
<1>2. t \in [1 .. Len(u) -> S]
  BY <1>0
<1> HIDE DEF t
<1>3. t \in Seq(S) /\ Len(t) = Len(u)
  BY <1>0, <1>2
<1> USE DEF t
<1> QED
  BY <1>1, <1>3

LEMMA WithType ==
    ASSUME TypeInv, NEW f \in Pairs
    PROVE  With(row, f) \in Seq(Seq(Fields))
<1>1. \A j \in Nat : <<<<f, j>>>> \in Seq(Fields)
  BY DEF Fields
<1>2. row \in Seq(Seq(Fields)) /\ NbFields \in Nat
  BY BoundsAssumption DEF TypeInv
<1>3. CASE kind \in {"disk", "load"}
  <2>1. [j \in 1 .. NbFields |-> <<<<f, j>>>>] \in Seq(Seq(Fields))
    BY <1>1, <1>2
  <2> QED
    BY <2>1, <1>2, <1>3, ConcatProperties DEF With
<1>4. CASE kind = "memory"
  <2>0. indexes \in Seq(1 .. NbCounters) /\ NbCounters \in Nat
    BY BoundsAssumption DEF TypeInv
  <2>1. ASSUME NEW e \in 1 .. Len(indexes) PROVE indexes[e] \in Nat
    <3>1. indexes[e] \in 1 .. NbCounters
      BY <2>0
    <3> QED
      BY <2>0, <3>1
  <2>2. [e \in 1 .. Len(indexes) |-> <<<<f, indexes[e]>>>>] \in Seq(Seq(Fields))
    BY <1>1, <2>1 DEF TypeInv
  <2> QED
    BY <2>2, <1>2, <1>4, ConcatProperties DEF With
<1>5. CASE kind = "perf" /\ d % (Len(fids) \div Len(indexes)) # 0
  <2>1. With(row, f) = [row EXCEPT ![Len(row)] = Append(@, <<f, 0>>)]
    BY <1>5 DEF With
  <2>2. <<f, 0>> \in Fields
    BY DEF Fields
  <2>3. \A u \in Seq(Fields) : Append(u, <<f, 0>>) \in Seq(Fields)
    BY <2>2
  <2>4. CASE row = <<>>
    <3>1. Len(row) = 0 /\ DOMAIN row = {}
      BY <2>4
    <3>2. With(row, f) = row
      BY <2>1, <2>4, <3>1
    <3> QED
      BY <3>2, <1>2
  <2>5. CASE row # <<>>
    <3>1. row[Len(row)] \in Seq(Fields)
      BY <2>5, <1>2
    <3>2. Append(row[Len(row)], <<f, 0>>) \in Seq(Fields)
      BY <2>3, <3>1
    <3> QED
      BY <2>1, <3>2, <1>2, ExceptType
  <2> QED
    BY <2>4, <2>5
<1>6. CASE /\ kind \notin {"disk", "load", "memory"}
           /\ ~(kind = "perf" /\ d % (Len(fids) \div Len(indexes)) # 0)
  <2>1. With(row, f) = Append(row, <<<<f, 0>>>>)
    BY <1>6 DEF With
  <2> QED
    BY <2>1, <1>1, <1>2
<1> QED
  BY <1>3, <1>4, <1>5, <1>6

-----------------------------------------------------------------------------
(* What the sensors decide to open *)

LEMMA Blocks ==
    ASSUME NEW n \in Nat, NEW b \in Nat \ {0},
           NEW blocks \in [1 .. n -> [1 .. b -> Pairs]]
    PROVE  /\ FlattenSeq(blocks) \in Seq(Pairs) /\ Len(FlattenSeq(blocks)) = n * b
           /\ \A k \in 1 .. n : \A j \in 1 .. b :
                  FlattenSeq(blocks)[Place(k, b, j)] = blocks[k][j]
<1>1. \A k \in 1 .. n : blocks[k] \in Seq(Pairs) /\ Len(blocks[k]) = b
  OBVIOUS
<1>2. blocks \in [1 .. n -> Seq(Pairs)]
  BY <1>1
<1> QED
  BY <1>1, <1>2, FlattenUniform

\* init_disk(): the labels of the disks, in the order in which they are opened.
LEMMA DiskFound ==
    ASSUME TypeInv, PhaseInv, GlobDisks
    PROVE  /\ todo' \in Seq(Pairs) /\ labels' \in Seq(Pairs)
           /\ files = {} => todo' = <<>> /\ labels' = <<>>
           /\ files # {} => \E plan \in Seq(Pairs) : plan = todo' /\ DiskPlan(plan)'
<1>1. PICK list \in [1 .. Cardinality(files) -> files] :
          /\ \A j, k \in DOMAIN list : j < k => list[j][1] < list[k][1]
          /\ todo' = list /\ labels' = DiskLabels(list)
  BY DEF GlobDisks
<1> DEFINE n == Cardinality(files)
<1>2. /\ IsFiniteSet(files) /\ n \in Nat /\ files \subseteq Pairs
      /\ NbFields \in Nat \ {0} /\ (n = 0 <=> files = {})
  BY MachineType, FS_Subset, FS_CardinalityType, FS_EmptySet, BoundsAssumption DEF TypeInv
<1>3. list \in Seq(Pairs) /\ Len(list) = n /\ DOMAIN list = 1 .. n
  BY <1>2
<1>4. \A k \in 1 .. n : \A j \in 1 .. NbFields : list[k] \in files /\ <<list[k][1], j>> \in Pairs
  BY <1>2, PairType DEF Pairs
<1> DEFINE blocks == [k \in 1 .. n |-> [j \in 1 .. NbFields |-> <<list[k][1], j>>]]
<1>5. blocks \in [1 .. n -> [1 .. NbFields -> Pairs]]
  BY <1>4
<1>6. labels' = FlattenSeq(blocks)
  BY <1>1, <1>3 DEF DiskLabels
<1>7. \A k \in 1 .. n : \A j \in 1 .. NbFields : blocks[k][j] = <<list[k][1], j>>
  OBVIOUS
<1> HIDE DEF blocks, n
<1>8. /\ labels' \in Seq(Pairs) /\ Len(labels') = n * NbFields
      /\ \A k \in 1 .. n : \A j \in 1 .. NbFields :
             labels'[Place(k, NbFields, j)] = <<list[k][1], j>>
  <2>1. /\ FlattenSeq(blocks) \in Seq(Pairs) /\ Len(FlattenSeq(blocks)) = n * NbFields
        /\ \A k \in 1 .. n : \A j \in 1 .. NbFields :
               FlattenSeq(blocks)[Place(k, NbFields, j)] = blocks[k][j]
    <3>1. n \in Nat /\ NbFields \in Nat \ {0}
      BY <1>2
    <3> QED
      BY <3>1, <1>5, Blocks
  <2> QED
    BY <2>1, <1>6, <1>7
<1>9. CASE files = {}
  <2>1. n = 0 /\ n * NbFields = 0
    BY <1>2, <1>9
  <2> QED
    BY <1>1, <1>3, <1>8, <1>9, <2>1, EmptySeq
<1>10. CASE files # {}
  <2>1. n > 0 /\ list # <<>>
    BY <1>10, <1>2, <1>3
  <2>2. \A f \in files : \E k \in 1 .. n : list[k] = f
    <3>1. list \in Injection(1 .. n, files)
      <4>1. ASSUME NEW j \in 1 .. n, NEW k \in 1 .. n, list[j] = list[k] PROVE j = k
        <5>1. list[j][1] \in Nat /\ list[k][1] \in Nat
          <6>1. list[j] \in Pairs /\ list[k] \in Pairs
            BY <1>3, <1>2
          <6> QED
            BY <6>1, PairType
        <5>2. ~(j < k) /\ ~(k < j)
          BY <5>1, <4>1, <1>1, <1>3
        <5> QED
          BY <5>2, <1>2 DEF n
      <4>2. list \in [1 .. n -> files]
        BY DEF n
      <4> QED
        BY <4>1, <4>2 DEF Injection, IsInjective
    <3>2. Cardinality(1 .. n) = Cardinality(files)
      BY <1>2, FS_Interval DEF n
    <3>3. list \in Surjection(1 .. n, files)
      BY <3>1, <3>2, <1>2, FS_Injection
    <3> QED
      BY <3>3 DEF Surjection
  <2>3. files' = files /\ unplugs' = unplugs /\ machine' = machine
    BY DEF GlobDisks, environment
  <2>4. DiskPlan(list)'
    <3>1. (\A k \in 1 .. Len(list) : list[k] \in machine.files)'
      BY <2>3, <1>3, <1>4 DEF TypeInv
    <3>2. (unplugs = 0 => \A f \in machine.files : \E k \in 1 .. Len(list) : list[k] = f)'
      BY <2>2, <2>3, <1>3 DEF TypeInv
    <3>3. \A j, k \in 1 .. Len(list) : j < k => list[j][1] < list[k][1]
      BY <1>1, <1>3
    <3> QED
      BY <3>1, <3>2, <3>3, <1>3, <1>8, <2>1 DEF DiskPlan
  <2> QED
    BY <2>4, <1>1, <1>3, <1>8, <1>10
<1> QED
  BY <1>9, <1>10

LEMMA LeastPort ==
    ASSUME NEW T, T \subseteq Nat, T # {}
    PROVE  Min(T) \in T
<1>1. \E x \in T : \A y \in T : x <= y
  BY Least
<1> QED
  BY <1>1, Zenon DEF Min

\* init_infiniband(): the counters of a port.
LEMMA PortsFound ==
    ASSUME TypeInv, PhaseInv, GlobPorts
    PROVE  \/ pc' = "dropped" /\ UNCHANGED <<todo, labels>>
           \/ /\ todo' \in Seq(Pairs) /\ labels' \in Seq(Pairs) /\ pc' = "openList"
              /\ labels' # <<>>
              /\ \E plan \in Seq(Pairs) : plan = todo' /\ PortPlan(plan)'
<1> DEFINE ports == IF machine.port = "X" THEN {f[1] : f \in files} ELSE {0}
<1> DEFINE p == Min(ports)
<1>1. ports \subseteq Nat
  BY MachineType, PairType DEF TypeInv
<1>2. NbFields \in Nat \ {0}
  BY BoundsAssumption
<1>3. CASE ports = {}
  BY <1>3 DEF GlobPorts
<1>4. CASE ports # {}
  <2>1. /\ todo' = [j \in 1 .. NbFields |-> <<p, j>>]
        /\ labels' = [j \in 1 .. NbFields |-> <<0, j>>] /\ pc' = "openList"
    BY <1>4 DEF GlobPorts
  <2>2. p \in Nat
    BY <1>1, <1>4, LeastPort
  <2> HIDE DEF p, ports
  <2>3. \A j \in 1 .. NbFields : <<p, j>> \in Pairs /\ <<0, j>> \in Pairs
    BY <2>2, <1>2 DEF Pairs
  <2>4. /\ todo' \in Seq(Pairs) /\ labels' \in Seq(Pairs)
        /\ Len(todo') = NbFields /\ Len(labels') = NbFields
        /\ \A j \in 1 .. NbFields : todo'[j] = <<p, j>> /\ labels'[j] = <<0, j>>
    BY <2>1, <2>3, <1>2
  <2>5. PICK plan \in Seq(Pairs) : plan = todo'
    BY <2>4
  <2>6. PortPlan(plan)'
    BY <2>2, <2>4, <2>5 DEF PortPlan
  <2>7. labels' # <<>>
    BY <2>4, <1>2
  <2> QED
    BY <2>1, <2>4, <2>5, <2>6, <2>7
<1> QED
  BY <1>3, <1>4

\* init_network(): the counters of each device.
LEMMA NetworkFound ==
    ASSUME TypeInv, PhaseInv, FindDevices
    PROVE  /\ todo' \in Seq(Pairs) /\ labels' = todo'
           /\ \E plan \in Seq(Pairs) : plan = todo' /\ NetworkPlan(plan)'
<1> DEFINE n == Len(machine.list)
<1> DEFINE blocks == [k \in 1 .. n |-> [j \in 1 .. NbFields |-> <<machine.list[k], j>>]]
<1>1. machine.list \in Seq(Nat) /\ n \in Nat /\ NbFields \in Nat \ {0}
  BY MachineType, BoundsAssumption
<1>2. blocks \in [1 .. n -> [1 .. NbFields -> Pairs]]
  BY <1>1 DEF Pairs
<1>3. \A k \in 1 .. n : \A j \in 1 .. NbFields : blocks[k][j] = <<machine.list[k], j>>
  OBVIOUS
<1>4. todo' = FlattenSeq(blocks) /\ labels' = todo' /\ machine' = machine
  BY DEF FindDevices, environment
<1> HIDE DEF blocks, n
<1>5. /\ todo' \in Seq(Pairs) /\ Len(todo') = n * NbFields
      /\ \A k \in 1 .. n : \A j \in 1 .. NbFields :
             todo'[Place(k, NbFields, j)] = <<machine.list[k], j>>
  <2>1. /\ FlattenSeq(blocks) \in Seq(Pairs) /\ Len(FlattenSeq(blocks)) = n * NbFields
        /\ \A k \in 1 .. n : \A j \in 1 .. NbFields :
               FlattenSeq(blocks)[Place(k, NbFields, j)] = blocks[k][j]
    <3>1. n \in Nat /\ NbFields \in Nat \ {0}
      BY <1>1 DEF n
    <3> QED
      BY <3>1, <1>2, Blocks
  <2> QED
    BY <2>1, <1>3, <1>4
<1>6. PICK plan \in Seq(Pairs) : plan = todo'
  BY <1>5
<1>7. NetworkPlan(plan)'
  BY <1>4, <1>5, <1>6 DEF NetworkPlan, n
<1> QED
  BY <1>4, <1>5, <1>6, <1>7

LEMMA ProcType == Proc \in Pairs
BY DEF Proc, Pairs

\* init_load(): the fields of the first line of /proc/stat.
LEMMA StatFound ==
    ASSUME TypeInv, PhaseInv, FindStat
    PROVE  /\ todo' \in Seq(Pairs) /\ labels' \in Seq(Pairs)
           /\ \E plan \in Seq(Pairs) : plan = todo' /\ StatPlan(plan)'
<1>1. NbFields \in Nat \ {0}
  BY BoundsAssumption
<1>2. todo' = <<Proc>> /\ labels' = [j \in 1 .. NbFields |-> <<0, j>>]
  BY DEF FindStat
<1>3. \A j \in 1 .. NbFields : <<0, j>> \in Pairs
  BY <1>1 DEF Pairs
<1>4. /\ labels' \in Seq(Pairs) /\ Len(labels') = NbFields
      /\ \A j \in 1 .. NbFields : labels'[j] = <<0, j>>
  BY <1>1, <1>2, <1>3
<1>5. todo' \in Seq(Pairs) /\ Len(todo') = 1 /\ todo'[1] = Proc
  BY <1>2, ProcType
<1>6. PICK plan \in Seq(Pairs) : plan = todo'
  BY <1>5
<1>7. StatPlan(plan)'
  BY <1>4, <1>5, <1>6 DEF StatPlan
<1> QED
  BY <1>4, <1>5, <1>6, <1>7

\* The processors are numbered, those that are on line are counted.
LEMMA CoresCounted ==
    ASSUME TypeInv, kind = "perf"
    PROVE  NbCores \in Nat \ {0} /\ (unplugs = 0 => NbCores = Cardinality({f[2] : f \in machine.files}))
<1> DEFINE T == {f[2] : f \in files}
<1>1. IsFiniteSet(files) /\ files # {}
  BY MachineType, FS_Subset DEF TypeInv
<1>2. [f \in files |-> f[2]] \in Surjection(files, T)
  BY DEF Surjection
<1>3. IsFiniteSet(T)
  BY <1>1, <1>2, FS_Surjection
<1>4. T # {}
  BY <1>1
<1>5. Cardinality(T) \in Nat /\ Cardinality(T) # 0
  <2> HIDE DEF T
  <2> QED
    BY <1>3, <1>4, FS_EmptySet, FS_CardinalityType
<1> QED
  BY <1>5 DEF NbCores, TypeInv

\* perf_event_list(), memory_list() and what the init functions open then.
LEMMA NamesListed ==
    ASSUME TypeInv, PhaseInv, ListEnd
    PROVE  /\ todo' \in Seq(Pairs) /\ labels' \in Seq(Pairs)
           /\ \E plan \in Seq(Pairs) :
                  /\ plan = todo' /\ NamePlan(plan)'
                  /\ kind = "perf" => PerfPlan(plan)'
                  /\ kind = "memory" => Len(plan) = 1 /\ plan[1] = Proc
<1> DEFINE n == Len(indexes)
<1>1. /\ n \in Nat /\ \A e \in 1 .. n : indexes[e] \in Nat
      /\ kind \in {"perf", "memory"}
  BY BoundsAssumption DEF TypeInv, PhaseInv, ListEnd
<1>2. /\ labels' = [e \in 1 .. n |-> <<indexes[e], 0>>] /\ indexes' = indexes
      /\ machine' = machine /\ unplugs' = unplugs
      /\ todo' = IF kind = "perf" THEN PerfFiles ELSE <<Proc>>
  BY DEF ListEnd, environment
<1>3. \A e \in 1 .. n : <<indexes[e], 0>> \in Pairs
  BY <1>1 DEF Pairs
<1>4. /\ labels' \in Seq(Pairs) /\ Len(labels') = n
      /\ \A e \in 1 .. n : labels'[e] = <<indexes[e], 0>>
  BY <1>1, <1>2, <1>3
<1>5. CASE kind = "memory"
  <2>1. todo' = <<Proc>>
    BY <1>2, <1>5
  <2>2. todo' \in Seq(Pairs) /\ Len(todo') = 1 /\ todo'[1] = Proc
    BY <2>1, ProcType
  <2>3. PICK plan \in Seq(Pairs) : plan = todo'
    BY <2>2
  <2>4. NamePlan(plan)'
    BY <1>2, <1>4 DEF NamePlan
  <2> QED
    BY <2>2, <2>3, <2>4, <1>4, <1>5
<1>6. CASE kind = "perf"
  <2> DEFINE c == NbCores
  <2> DEFINE blocks == [e \in 1 .. n |-> [x \in 1 .. c |-> <<indexes[e], x - 1>>]]
  <2>1. c \in Nat \ {0} /\ (unplugs = 0 => c = Cardinality({f[2] : f \in machine.files}))
    BY <1>6, CoresCounted
  <2>2. todo' = FlattenSeq(blocks)
    BY <1>2, <1>6 DEF PerfFiles
  <2> HIDE DEF c
  <2>3. blocks \in [1 .. n -> [1 .. c -> Pairs]]
    BY <1>1, <2>1 DEF Pairs
  <2>4. \A e \in 1 .. n : \A x \in 1 .. c : blocks[e][x] = <<indexes[e], x - 1>>
    OBVIOUS
  <2> HIDE DEF blocks, n
  <2>5. /\ todo' \in Seq(Pairs) /\ Len(todo') = n * c
        /\ \A e \in 1 .. n : \A x \in 1 .. c : todo'[Place(e, c, x)] = <<indexes[e], x - 1>>
    <3>1. /\ FlattenSeq(blocks) \in Seq(Pairs) /\ Len(FlattenSeq(blocks)) = n * c
          /\ \A e \in 1 .. n : \A x \in 1 .. c :
                 FlattenSeq(blocks)[Place(e, c, x)] = blocks[e][x]
      <4>1. n \in Nat
        BY <1>1 DEF n
      <4> QED
        BY <4>1, <2>1, <2>3, Blocks
    <3> QED
      BY <3>1, <2>2, <2>4
  <2>6. PICK plan \in Seq(Pairs) : plan = todo'
    BY <2>5
  <2>7. NamePlan(plan)'
    BY <1>2, <1>4 DEF NamePlan, n
  <2>8. PerfPlan(plan)'
    BY <1>2, <2>1, <2>5, <2>6 DEF PerfPlan, n
  <2> QED
    BY <2>5, <2>6, <2>7, <2>8, <1>4, <1>6
<1> QED
  BY <1>1, <1>5, <1>6

-----------------------------------------------------------------------------
(* Types, phases and the lists of names *)

LEMMA Keys ==
    ASSUME NEW f \in Pairs
    PROVE  /\ IsFiniteSet({h \in Coretemp : h < f[1]}) /\ KeyOf(f) \in Nat
           /\ f[1] = 0 => KeyOf(f) = 0
<1> DEFINE m == f[1]
<1> DEFINE T == {h \in Coretemp : h < m}
<1>1. m \in Nat /\ \A h \in Coretemp : h \in Nat
  BY PairType, BoundsAssumption
<1> HIDE DEF m
<1>2. IsFiniteSet(0 .. m) /\ T \in SUBSET (0 .. m)
  <2>1. IsFiniteSet(0 .. m)
    BY <1>1, FS_Interval
  <2>2. \A h \in T : h \in 0 .. m
    BY <1>1
  <2> QED
    BY <2>1, <2>2
<1>3. IsFiniteSet(T)
  BY <1>2, FS_Subset
<1>4. Cardinality(T) \in Nat
  BY <1>3, FS_CardinalityType
<1>5. m = 0 => T = {}
  <2>1. m = 0 => \A h \in Coretemp : ~(h < m)
    BY <1>1
  <2> QED
    BY <2>1
<1> QED
  BY <1>3, <1>4, <1>5, FS_EmptySet DEF KeyOf, m

LEMMA InitIInv == Init => IInv
<1> SUFFICES ASSUME Init PROVE IInv
  OBVIOUS
<1> USE DEF Init
<1>1. /\ at \in Pairs /\ at[1] = 0 /\ at[2] = 0 /\ fids = <<>> /\ labels = <<>>
      /\ todo = <<>> /\ row = <<>> /\ indexes = <<>> /\ d = 0 /\ key = 0
      /\ Len(fids) = 0 /\ Len(labels) = 0 /\ Len(indexes) = 0
  BY DEF Pairs
<1>2. kind \in {"rapl", "temperature", "disk", "infiniband", "network", "load",
                "perf", "memory"}
  BY MachinesAssumption DEF kind
<1>3. /\ kind \in {"rapl", "temperature"} => pc = "walk"
      /\ kind \in {"perf", "memory"} => pc = "list"
      /\ kind \notin {"rapl", "temperature", "perf", "memory"} => pc = "find"
  BY <1>2
<1>4. kind = "perf" => files # {}
  BY MachinesAssumption DEF kind
<1>5. TypeInv
  BY <1>1, <1>2, <1>3, <1>4 DEF TypeInv
<1>6. PhaseInv
  BY <1>1, <1>2, <1>3 DEF PhaseInv, Walked, Reading
<1>7. ListInv
  BY <1>1, <1>2, <1>3, <1>5, BoundsAssumption, MachineType DEF ListInv
<1>8. WalkInv
  <2>1. key = KeyOf(at)
    BY <1>1, Keys
  <2> QED
    BY <1>1, <1>3, <2>1 DEF WalkInv, Walked
<1>9. CoverInv
  <2>1. \A f \in machine.files : ~Before(f, at)
    BY <1>1, <1>5, MachineType, PairType DEF Before
  <2> QED
    BY <2>1, <1>3 DEF CoverInv, Walked, Reading
<1>10. PlanInv /\ OpenedInv /\ RowInv
  BY <1>1, <1>2, <1>3 DEF PlanInv, OpenedInv, RowInv, Walked
<1> QED
  BY <1>5, <1>6, <1>7, <1>8, <1>9, <1>10 DEF IInv

LEMMA TypeStep == IInv /\ [Next]_vars => TypeInv'
<1> SUFFICES ASSUME TypeInv, PhaseInv, ListInv, [Next]_vars PROVE TypeInv'
  BY DEF IInv
<1> DEFINE PCs == {"walk", "open", "list", "find", "openList", "base", "dropped",
                   "exit", "crash", "ready", "get", "use", "cleaned"}
<1>0. /\ (machine \in Machines /\ files \subseteq machine.files /\ unplugs \in Nat)'
      /\ (unplugs = 0 => files = machine.files)' /\ (kind = "perf" => files # {})'
  BY Steady DEF TypeInv
<1>1. /\ at \in Pairs /\ at[1] \in Nat /\ at[2] \in Nat /\ key \in Nat
      /\ machine.files' = machine.files
  BY PairType, Steady DEF TypeInv
<1>2. pc' \in PCs
  <2>1. CASE UNCHANGED vars
    BY <2>1 DEF TypeInv, vars
  <2>2. CASE GlobPorts
    BY <2>2, PortsFound DEF GlobPorts
  <2> QED
    BY <2>1, <2>2 DEF TypeInv, Next, WalkFound, WalkOpen, HwmonName, WalkNext, WalkEnd,
       ListName, ListEnd, GlobDisks, FindDevices, FindStat, OpenListed, OpenedAll,
       Get, Read, EndRead, Clean, Unplug, Terminated, Found, environment, vars
<1>3. at' \in Pairs /\ key' \in Nat
  <2>1. CASE WalkOpen
    BY <2>1, <1>1 DEF WalkOpen, search, Pairs
  <2>2. CASE HwmonName
    BY <2>2, <1>1 DEF HwmonName, Pairs
  <2>3. CASE WalkNext
    BY <2>3, <1>1 DEF WalkNext, Pairs
  <2>4. CASE UNCHANGED <<at, key>>
    BY <2>4, <1>1
  <2> QED
    BY <2>1, <2>2, <2>3, <2>4 DEF Next, WalkFound, WalkEnd, ListName, ListEnd,
       GlobDisks, GlobPorts, FindDevices, FindStat, OpenListed, OpenedAll, Get, Read,
       EndRead, Clean, Unplug, Terminated, vars, search
<1>4. indexes' \in Seq(1 .. NbCounters)
  <2>1. CASE ListName
    <3>0. indexes \in Seq(1 .. NbCounters)
      BY DEF TypeInv
    <3>1. CASE machine.list[Len(indexes) + 1] \in 1 .. NbCounters
      <4>1. indexes' = Append(indexes, machine.list[Len(indexes) + 1])
        BY <2>1, <3>1 DEF ListName
      <4> QED
        BY <4>1, <3>0, <3>1
    <3>2. CASE machine.list[Len(indexes) + 1] \notin 1 .. NbCounters
      BY <2>1, <3>0, <3>2 DEF ListName
    <3> QED
      BY <3>1, <3>2
  <2>2. CASE UNCHANGED indexes
    BY <2>2 DEF TypeInv
  <2> QED
    BY <2>1, <2>2 DEF Next, WalkFound, WalkOpen, HwmonName, WalkNext, WalkEnd, ListEnd,
       GlobDisks, GlobPorts, FindDevices, FindStat, OpenListed, OpenedAll, Get, Read,
       EndRead, Clean, Unplug, Terminated, vars, search
<1>5. todo' \in Seq(Pairs) /\ labels' \in Seq(Titles)
  <2>0. todo \in Seq(Pairs) /\ labels \in Seq(Titles)
    BY DEF TypeInv
  <2>1. CASE WalkFound
    <3>1. RaplLabel(at) \in Titles /\ <<Name(at), key>> \in Titles
      BY <1>1, LabelType
    <3> QED
      BY <2>0, <2>1, <3>1 DEF WalkFound, search
  <2>2. CASE ListEnd
    BY <2>2, NamesListed, TitleSeq
  <2>3. CASE GlobDisks
    BY <2>3, DiskFound, TitleSeq
  <2>4. CASE GlobPorts
    BY <2>0, <2>4, PortsFound, TitleSeq
  <2>5. CASE FindDevices
    BY <2>5, NetworkFound, TitleSeq
  <2>6. CASE FindStat
    BY <2>6, StatFound, TitleSeq
  <2>7. CASE OpenListed
    BY <2>0, <2>7 DEF OpenListed
  <2>8. CASE UNCHANGED <<todo, labels>>
    BY <2>0, <2>8
  <2> QED
    BY <2>1, <2>2, <2>3, <2>4, <2>5, <2>6, <2>7, <2>8 DEF Next, WalkOpen, HwmonName,
       WalkNext, WalkEnd, ListName, OpenedAll, Get, Read, EndRead, Clean, Unplug,
       Terminated, vars, search, columns
<1>6. fids' \in Seq(machine'.files \cup {None}) /\ open' \subseteq 1 .. Len(fids')
  <2>0. /\ fids \in Seq(machine.files \cup {None}) /\ open \subseteq 1 .. Len(fids)
        /\ files \subseteq machine.files /\ machine' = machine /\ Len(fids) \in Nat
    BY Steady DEF TypeInv
  <2>1. CASE WalkOpen
    <3>1. \/ /\ at \in machine.files /\ fids' = Append(fids, at)
             /\ open' = open \cup {Len(fids) + 1}
          \/ fids' = fids /\ open' = open
      BY <2>0, <2>1 DEF WalkOpen
    <3>2. CASE fids' = Append(fids, at) /\ at \in machine.files
                   /\ open' = open \cup {Len(fids) + 1}
      <4> DEFINE S == machine.files \cup {None}
      <4>1. at \in S /\ fids \in Seq(S) /\ machine'.files \cup {None} = S
        BY <2>0, <3>2
      <4> HIDE DEF S
      <4>2. fids' \in Seq(S) /\ Len(fids') = Len(fids) + 1
        BY <3>2, <4>1
      <4>3. \A x \in 1 .. Len(fids) : x \in 1 .. Len(fids')
        BY <2>0, <4>2
      <4>4. Len(fids) + 1 \in 1 .. Len(fids')
        BY <2>0, <4>2
      <4> QED
        BY <2>0, <3>2, <4>1, <4>2, <4>3, <4>4
    <3> QED
      BY <2>0, <3>1, <3>2
  <2>2. CASE OpenListed
    <3>1. \E f \in machine.files \cup {None} :
              fids' = Append(fids, f) /\ open' \subseteq open \cup {Len(fids) + 1}
      BY <2>0, <2>2 DEF OpenListed
    <3>2. PICK f \in machine.files \cup {None} :
              fids' = Append(fids, f) /\ open' \subseteq open \cup {Len(fids) + 1}
      BY <3>1
    <3>3. fids' \in Seq(machine.files \cup {None}) /\ Len(fids') = Len(fids) + 1
      BY <2>0, <3>2
    <3> QED
      BY <2>0, <3>2, <3>3
  <2>3. CASE Clean
    BY <2>0, <2>3 DEF Clean
  <2>4. CASE UNCHANGED <<fids, open>>
    BY <2>0, <2>4
  <2> QED
    BY <2>1, <2>2, <2>3, <2>4 DEF Next, WalkFound, HwmonName, WalkNext, WalkEnd,
       ListName, ListEnd, GlobDisks, GlobPorts, FindDevices, FindStat, OpenedAll,
       Get, Read, EndRead, Unplug, Terminated, vars, columns
<1>7. d' \in 0 .. Len(fids') /\ row' \in Seq(Seq(Fields))
  <2>0. d \in 0 .. Len(fids) /\ row \in Seq(Seq(Fields)) /\ Len(fids) \in Nat
    BY DEF TypeInv
  <2>1. CASE WalkOpen
    <3>1. fids' = fids \/ fids' = Append(fids, at)
      BY <2>1 DEF WalkOpen
    <3>2. Len(fids') \in {Len(fids), Len(fids) + 1}
      BY <3>1 DEF TypeInv
    <3> QED
      BY <2>0, <2>1, <3>2 DEF WalkOpen, reading
  <2>2. CASE OpenListed
    <3>1. \E f : fids' = Append(fids, f)
      BY <2>2 DEF OpenListed
    <3>2. Len(fids') = Len(fids) + 1
      BY <3>1 DEF TypeInv
    <3> QED
      BY <2>0, <2>2, <3>2 DEF OpenListed, reading
  <2>3. CASE Get
    BY <2>0, <2>3 DEF Get, columns
  <2>4. CASE Read
    <3>1. d + 1 \in 1 .. Len(fids) /\ fids' = fids
      BY <2>0, <2>4 DEF Read, columns
    <3>2. CASE Readable(fids[d + 1])
      <4>1. fids[d + 1] \in Pairs
        BY <3>1, <3>2, OpenIn DEF Readable
      <4>2. row' = With(row, fids[d + 1]) /\ d' = d + 1
        BY <2>4, <3>2 DEF Read
      <4> QED
        BY <3>1, <4>1, <4>2, WithType
    <3>3. CASE ~Readable(fids[d + 1])
      BY <2>0, <2>4, <3>3 DEF Read, columns, reading
    <3> QED
      BY <3>2, <3>3
  <2>5. CASE UNCHANGED <<d, row, fids>>
    BY <2>0, <2>5
  <2> QED
    BY <2>1, <2>2, <2>3, <2>4, <2>5 DEF Next, WalkFound, HwmonName, WalkNext, WalkEnd,
       ListName, ListEnd, GlobDisks, GlobPorts, FindDevices, FindStat, OpenedAll,
       EndRead, Clean, Unplug, Terminated, vars, columns, reading
<1> QED
  BY <1>0, <1>2, <1>3, <1>4, <1>5, <1>6, <1>7 DEF TypeInv

LEMMA PhaseStep == IInv /\ [Next]_vars => PhaseInv'
<1> SUFFICES ASSUME TypeInv, PhaseInv, [Next]_vars PROVE PhaseInv'
  BY DEF IInv
<1>0. /\ kind' = kind /\ (Walked' <=> Walked)
      /\ kind \in {"rapl", "temperature", "disk", "infiniband", "network", "load",
                   "perf", "memory"}
      /\ Walked <=> kind \in {"rapl", "temperature"}
  BY Steady, MachineType DEF Walked
<1> USE <1>0 DEF PhaseInv, Reading, environment, search, columns, reading, Found
<1> HIDE DEF Walked, kind
<1>1. CASE WalkFound
  BY <1>1 DEF WalkFound
<1>2. CASE WalkOpen
  BY <1>2 DEF WalkOpen
<1>3. CASE HwmonName
  BY <1>3 DEF HwmonName
<1>4. CASE WalkNext
  BY <1>4 DEF WalkNext
<1>5. CASE WalkEnd
  BY <1>5 DEF WalkEnd
<1>6. CASE ListName
  BY <1>6 DEF ListName
<1>7. CASE ListEnd
  BY <1>7 DEF ListEnd
<1>8. CASE GlobDisks
  BY <1>8 DEF GlobDisks
<1>9. CASE GlobPorts
  <2>1. pc' \in {"dropped", "openList"}
    BY <1>9, PortsFound
  <2> QED
    BY <1>9, <2>1 DEF GlobPorts
<1>10. CASE FindDevices \/ FindStat
  BY <1>10 DEF FindDevices, FindStat
<1>11. CASE OpenListed
  BY <1>11 DEF OpenListed
<1>12. CASE OpenedAll
  BY <1>12 DEF OpenedAll
<1>13. CASE Get
  BY <1>13 DEF Get
<1>14. CASE Read
  BY <1>14 DEF Read
<1>15. CASE EndRead
  BY <1>15 DEF EndRead
<1>16. CASE Clean
  BY <1>16 DEF Clean
<1>17. CASE Unplug
  BY <1>17 DEF Unplug
<1>18. CASE UNCHANGED vars
  BY <1>18 DEF vars
<1> QED
  BY <1>1, <1>2, <1>3, <1>4, <1>5, <1>6, <1>7, <1>8, <1>9, <1>10, <1>11, <1>12,
     <1>13, <1>14, <1>15, <1>16, <1>17, <1>18 DEF Next, Terminated

LEMMA ListStep == IInv /\ [Next]_vars => ListInv'
<1> SUFFICES ASSUME TypeInv, PhaseInv, ListInv, [Next]_vars PROVE ListInv'
  BY DEF IInv
<1>0. /\ kind' = kind /\ machine' = machine /\ Len(indexes) \in Nat
      /\ Len(machine.list) \in Nat /\ NbCounters \in Nat
  <2>1. kind' = kind /\ machine' = machine
    BY Steady
  <2>2. machine.list \in Seq(Nat) /\ indexes \in Seq(1 .. NbCounters)
    BY MachineType DEF TypeInv
  <2> QED
    BY <2>1, <2>2, BoundsAssumption
<1>1. CASE ListName
  <2>1. CASE indexes' = indexes /\ pc' = "exit"
    BY <1>0, <2>1, <1>1 DEF ListInv, ListName
  <2>2. CASE /\ indexes' = Append(indexes, machine.list[Len(indexes) + 1])
             /\ pc' = IF TooMany(indexes') THEN "exit" ELSE pc
    <3>1. Len(indexes') = Len(indexes) + 1
      BY <2>2 DEF TypeInv
    <3>2. pc = "list" /\ Len(indexes) < Len(machine.list)
      BY <1>1 DEF ListName
    <3>3. kind = "memory" => Len(indexes) <= NbCounters
      BY <3>2 DEF ListInv
    <3> QED
      BY <1>0, <2>2, <3>1, <3>2, <3>3 DEF ListInv, TooMany
  <2> QED
    BY <1>1, <2>1, <2>2 DEF ListName
<1>2. CASE ListEnd
  BY <1>0, <1>2 DEF ListInv, ListEnd
<1>3. CASE /\ UNCHANGED indexes
           /\ kind = "memory" => pc # "exit" \/ pc' = "exit"
           /\ kind = "memory" /\ pc \in {"list", "exit"} => pc' \in {"list", "exit"}
  BY <1>0, <1>3 DEF ListInv
<1> QED
  <2>1. kind = "memory" => pc \notin {"walk", "open", "find"}
    BY DEF PhaseInv, Walked
  <2> QED
    BY <1>1, <1>2, <1>3, <2>1 DEF Next, WalkFound, WalkOpen, HwmonName, WalkNext,
       WalkEnd, GlobDisks, GlobPorts, FindDevices, FindStat, OpenListed, OpenedAll, Get,
       Read, EndRead, Clean, Unplug, Terminated, vars, search

LEMMA FidsAppend ==
    ASSUME TypeInv, NEW f, fids' = Append(fids, f)
    PROVE  /\ Len(fids) \in Nat /\ Len(fids') = Len(fids) + 1
           /\ \A k \in 1 .. Len(fids) : fids'[k] = fids[k]
           /\ fids'[Len(fids) + 1] = f
           /\ \A k \in 1 .. Len(fids') : k \in 1 .. Len(fids) \/ k = Len(fids) + 1
BY DEF TypeInv

\* Of a plan that has been followed to the end without a label nothing is open.
LEMMA NoLabel ==
    ASSUME TypeInv, PhaseInv, ListInv, PlanInv, WalkInv, labels = <<>>,
           pc \in {"walk", "base"} \/ (pc = "openList" /\ kind = "memory"),
           kind = "memory" => machine.list # <<>>
    PROVE  open = {} /\ fids = <<>>
<1>1. Len(labels) = 0 /\ open \subseteq 1 .. Len(fids) /\ Len(fids) \in Nat
  BY DEF TypeInv
<1>2. Len(fids) = 0
  <2>1. CASE Walked
    BY <2>1, <1>1 DEF WalkInv
  <2>2. CASE ~Walked
    <3>1. PICK plan \in Seq(Pairs) : Planned(plan) /\ Followed(plan)
      BY <2>2 DEF PlanInv, PhaseInv
    <3>2. /\ Len(plan) \in Nat /\ Len(todo) \in Nat /\ Len(plan) = Len(fids) + Len(todo)
          /\ Len(indexes) \in Nat /\ NbFields \in Nat \ {0}
      BY <3>1, BoundsAssumption DEF Followed, TypeInv
    <3>3. Len(plan) = 0
      <4>1. CASE kind = "disk"
        <5>1. Len(plan) > 0 /\ 0 = Len(plan) * NbFields
          BY <3>1, <3>2, <4>1, <1>1 DEF Planned, DiskPlan
        <5>2. Len(plan) * NbFields >= 1 * NbFields
          BY <5>1, <3>2, ProductOrder
        <5> QED
          BY <5>1, <5>2, <3>2
      <4>2. CASE kind = "network"
        BY <3>1, <4>2, <1>1 DEF Planned, NetworkPlan
      <4>3. CASE kind \in {"infiniband", "load"}
        BY <3>1, <3>2, <4>3, <1>1 DEF Planned, PortPlan, StatPlan
      <4>4. CASE kind = "perf"
        <5>1. PICK c \in Nat \ {0} : Len(plan) = Len(indexes) * c
          BY <3>1, <4>4 DEF Planned, PerfPlan
        <5>2. Len(indexes) = 0
          BY <3>1, <4>4, <1>1 DEF Planned, NamePlan
        <5> QED
          BY <5>1, <5>2
      <4>5. CASE kind = "memory"
        <5>1. Len(indexes) = 0
          BY <3>1, <4>5, <1>1 DEF Planned, NamePlan
        <5>2. pc \notin {"list", "exit"}
          OBVIOUS
        <5>3. Len(machine.list) = 0
          BY <5>1, <5>2, <4>5 DEF ListInv
        <5> QED
          BY <5>3, <4>5, MachineType
      <4> QED
        BY <4>1, <4>2, <4>3, <4>4, <4>5, <2>2, MachineType DEF Walked
    <3> QED
      BY <3>2, <3>3, <1>1
  <2> QED
    BY <2>1, <2>2
<1> QED
  BY <1>1, <1>2 DEF TypeInv

LEMMA OpenedStep == IInv /\ [Next]_vars => OpenedInv'
<1> SUFFICES ASSUME IInv, [Next]_vars PROVE OpenedInv'
  OBVIOUS
<1> USE DEF IInv
<1>0. /\ kind' = kind /\ machine' = machine /\ Len(fids) \in Nat
      /\ Walked <=> kind \in {"rapl", "temperature"}
  BY Steady DEF TypeInv, Walked
<1>1. CASE WalkOpen
  <2>1. CASE fids' = Append(fids, at) /\ pc' = "walk"
    <3>1. at # None
      BY PairType DEF TypeInv
    <3>2. \A k \in 1 .. Len(fids) : fids[k] # None
      BY <1>1, <1>0 DEF WalkOpen, OpenedInv, PhaseInv, Walked
    <3>3. \A k \in 1 .. Len(fids') : fids'[k] # None
      BY <2>1, <3>1, <3>2, FidsAppend
    <3> QED
      BY <2>1, <3>3 DEF OpenedInv
  <2>2. CASE pc' \in {"exit", "crash"}
    BY <2>2 DEF OpenedInv
  <2> QED
    BY <1>1, <2>1, <2>2 DEF WalkOpen
<1>2. CASE OpenListed
  <2>1. CASE kind \in {"disk", "infiniband"}
    BY <1>0, <1>2, <2>1 DEF OpenListed, OpenedInv
  <2>2. CASE kind \notin {"disk", "infiniband"} /\ Head(todo) \in files
    <3>1. fids' = Append(fids, Head(todo)) /\ pc' = pc /\ pc = "openList"
      BY <1>2, <2>2 DEF OpenListed
    <3>2. Head(todo) # None
      <4>1. Head(todo) \in Pairs
        BY <2>2, MachineType DEF TypeInv
      <4> QED
        BY <4>1, PairType
    <3>3. \A k \in 1 .. Len(fids) : fids[k] # None
      BY <2>2, <3>1 DEF OpenedInv
    <3>4. \A k \in 1 .. Len(fids') : fids'[k] # None
      BY <3>1, <3>2, <3>3 DEF TypeInv
    <3> QED
      BY <3>1, <3>4 DEF OpenedInv
  <2>3. CASE kind \notin {"disk", "infiniband"} /\ Head(todo) \notin files
    <3>1. pc' = "exit"
      BY <1>2, <2>3 DEF OpenListed
    <3> QED
      BY <3>1 DEF OpenedInv
  <2> QED
    BY <2>1, <2>2, <2>3
<1>3. CASE WalkEnd
  <2>1. fids' = fids /\ labels' = labels /\ open' = open /\ Walked /\ pc = "walk"
    BY <1>3 DEF WalkEnd, columns, PhaseInv
  <2>2. \A k \in 1 .. Len(fids) : fids[k] # None
    BY <2>1, <1>0 DEF OpenedInv
  <2>3. pc' \in {"base", "ready", "dropped"} /\ (pc' = "ready" => labels # <<>>)
        /\ (pc' = "dropped" => labels = <<>>)
    BY <1>3 DEF WalkEnd, Found
  <2>4. pc' = "dropped" => open = {}
    BY <2>1, <2>3, <1>0, NoLabel
  <2> QED
    BY <2>1, <2>2, <2>3, <2>4 DEF OpenedInv
<1>4. CASE OpenedAll
  <2>1. fids' = fids /\ labels' = labels /\ open' = open /\ pc = "openList"
    BY <1>4 DEF OpenedAll, columns
  <2>2. /\ pc' \in {"base", "ready", "dropped"} /\ (pc' # "base" => kind = "memory")
        /\ (pc' = "ready" => labels # <<>>) /\ (pc' = "dropped" => labels = <<>>)
    BY <1>4 DEF OpenedAll, Found
  <2>3. (pc' = "dropped" /\ machine.list # <<>>) => open = {}
    BY <2>1, <2>2, NoLabel
  <2> QED
    BY <1>0, <2>1, <2>2, <2>3 DEF OpenedInv
<1>5. CASE EndRead
  <2>1. /\ fids' = fids /\ labels' = labels /\ open' = open /\ d = Len(fids)
        /\ pc \in {"base", "get"}
    BY <1>5 DEF EndRead, columns
  <2>2. \A k \in 1 .. Len(fids) : fids[k] # None
    BY <2>1 DEF RowInv
  <2>3. /\ pc' \in {"use", "ready", "dropped"}
        /\ (pc' = "ready" => labels # <<>>)
        /\ (pc' = "dropped" => labels = <<>> /\ pc = "base")
        /\ (pc' = "use" => pc = "get")
    BY <1>5 DEF EndRead, Found
  <2>4. pc' = "dropped" => open = {}
    BY <2>1, <2>3, NoLabel DEF PhaseInv
  <2> QED
    BY <2>1, <2>2, <2>3, <2>4 DEF OpenedInv
<1>6. CASE Clean
  <2>1. open' = {} /\ pc' = "cleaned" /\ fids' = fids /\ pc \in {"ready", "use"}
    BY <1>6 DEF Clean, TypeInv
  <2> QED
    BY <1>0, <2>1 DEF OpenedInv
<1>7. CASE GlobDisks \/ GlobPorts
  <2>1. fids' = fids /\ open' = {} /\ fids = <<>> /\ pc' \in {"dropped", "openList"}
    BY <1>7, PortsFound DEF GlobDisks, GlobPorts, PhaseInv
  <2> QED
    BY <2>1 DEF OpenedInv
<1>8. CASE /\ UNCHANGED <<fids, open, labels>>
           /\ pc \in {"exit", "crash", "dropped"} => pc' = pc
           /\ pc' \in {"get", "use", "ready"} => pc \in {"get", "use", "ready"}
           /\ pc' \in {"dropped", "cleaned"} => pc' = pc
  BY <1>0, <1>8 DEF OpenedInv
<1>9. CASE WalkFound
  BY <1>0, <1>9 DEF WalkFound, OpenedInv
<1>10. CASE ListEnd \/ FindDevices \/ FindStat
  BY <1>0, <1>10 DEF ListEnd, FindDevices, FindStat, OpenedInv
<1> QED
  BY <1>1, <1>2, <1>3, <1>4, <1>5, <1>6, <1>7, <1>8, <1>9, <1>10 DEF Next, HwmonName,
     WalkNext, ListName, Get, Read, Unplug, Terminated, vars, columns

-----------------------------------------------------------------------------
(* The walks of init_rapl() and init_temperature() *)

LEMMA KeyNext ==
    ASSUME NEW f \in Pairs
    PROVE  /\ \A j : KeyOf(<<f[1], j>>) = KeyOf(f)
           /\ \A j : KeyOf(<<f[1] + 1, j>>) =
                         IF f[1] \in Coretemp THEN KeyOf(f) + 1 ELSE KeyOf(f)
<1> DEFINE m == f[1]
<1> DEFINE S == {h \in Coretemp : h < m}
<1> DEFINE T == {h \in Coretemp : h < m + 1}
<1>1. m \in Nat /\ \A h \in Coretemp : h \in Nat
  BY PairType, BoundsAssumption
<1>2. IsFiniteSet(S) /\ KeyOf(f) = Cardinality(S)
  BY Keys DEF KeyOf
<1>3. \A j : KeyOf(<<f[1], j>>) = Cardinality(S) /\ KeyOf(<<f[1] + 1, j>>) = Cardinality(T)
  BY DEF KeyOf
<1> HIDE DEF m
<1>s. \A h \in Coretemp : h < m + 1 <=> h < m \/ h = m
  BY <1>1
<1>t. ~(m < m)
  BY <1>1
<1>4. m \in Coretemp => T = S \cup {m} /\ m \notin S
  <2>1. \A h : m \in Coretemp => (h \in T <=> h \in S \/ h = m)
    BY <1>s
  <2> QED
    BY <2>1, <1>t
<1>5. m \notin Coretemp => T = S
  BY <1>s
<1> HIDE DEF S, T
<1>6. m \in Coretemp => Cardinality(T) = Cardinality(S) + 1
  BY <1>2, <1>4, FS_AddElement
<1> QED
  BY <1>2, <1>3, <1>5, <1>6 DEF m

LEMMA BeforeNext ==
    ASSUME NEW f \in Pairs, NEW g \in Pairs, NEW h \in Pairs,
           Before(f, g), Before(g, h)
    PROVE  Before(f, h)
BY PairType DEF Before

LEMMA NextPlaces ==
    ASSUME NEW f \in Pairs, NEW g
    PROVE  /\ g = <<f[1], f[2] + 1>> =>
                  g \in Pairs /\ g[1] = f[1] /\ g[2] = f[2] + 1 /\ Before(f, g)
           /\ g = <<f[1] + 1, 0>> =>
                  g \in Pairs /\ g[1] = f[1] + 1 /\ g[2] = 0 /\ Before(f, g)
           /\ g = <<f[1], 1>> /\ f[2] = 0 =>
                  g \in Pairs /\ g[1] = f[1] /\ g[2] = 1 /\ Before(f, g)
<1>1. f[1] \in Nat /\ f[2] \in Nat
  BY PairType
<1> QED
  BY <1>1 DEF Before, Pairs

\* Only the walks change what WalkInv is about.
LEMMA WalkFrame ==
    ASSUME TypeInv, PhaseInv, [Next]_vars, Walked,
           ~WalkFound, ~WalkOpen, ~HwmonName, ~WalkNext
    PROVE  /\ UNCHANGED <<fids, labels, at, key, indexes, todo>>
           /\ pc' = "open" <=> pc = "open"
           /\ pc' \notin {"open", "exit", "crash"} => pc \notin {"open", "exit", "crash"}
           /\ pc' \in Reading /\ pc \notin Reading => WalkEnd
           /\ pc' = "walk" => pc = "walk"
           /\ pc' \in Reading \cup {"walk", "open"} => pc \in Reading \cup {"walk", "open"}
<1>1. pc \notin {"list", "find", "openList"}
  BY DEF PhaseInv, Walked
<1> USE DEF search, columns, Reading
<1>2. CASE UNCHANGED vars
  BY <1>2 DEF vars
<1>3. CASE Unplug
  BY <1>3 DEF Unplug
<1>4. CASE WalkEnd
  BY <1>4 DEF WalkEnd, Found
<1>5. CASE Get \/ Read \/ EndRead \/ Clean
  BY <1>5 DEF Get, Read, EndRead, Clean, Found
<1>6. CASE ListName \/ ListEnd \/ GlobDisks \/ GlobPorts \/ FindDevices \/ FindStat
               \/ OpenListed \/ OpenedAll
  BY <1>1, <1>6 DEF ListName, ListEnd, GlobDisks, GlobPorts, FindDevices, FindStat,
     OpenListed, OpenedAll
<1> QED
  BY <1>2, <1>3, <1>4, <1>5, <1>6 DEF Next, Terminated

\* A step of the walk moves behind the files it has met.
WalkOn ==
    /\ at \in Pairs /\ at' \in Pairs /\ Before(at, at')
    /\ kind = "temperature" => key' = KeyOf(at') /\ (at'[2] > 0 => at'[1] \in Coretemp)

LEMMA WalkMoves ==
    ASSUME TypeInv, WalkInv, Walked, HwmonName \/ WalkNext
    PROVE  WalkOn /\ pc = "walk" /\ UNCHANGED <<fids, labels, pc>>
<1>0. at \in Pairs
  BY DEF TypeInv
<1>1. CASE HwmonName
  <2>1. /\ at[2] = 0 /\ key' = key /\ pc = "walk"
        /\ at' = IF at[1] \in Coretemp THEN <<at[1], 1>> ELSE <<at[1] + 1, 0>>
        /\ UNCHANGED <<fids, labels, pc>> /\ kind = "temperature"
    BY <1>1 DEF HwmonName, columns
  <2>2. key = KeyOf(at)
    BY <2>1 DEF WalkInv
  <2>3. CASE at[1] \in Coretemp
    BY <1>0, <2>1, <2>2, <2>3, NextPlaces, KeyNext DEF WalkOn
  <2>4. CASE at[1] \notin Coretemp
    BY <1>0, <2>1, <2>2, <2>4, NextPlaces, KeyNext DEF WalkOn
  <2> QED
    BY <2>3, <2>4
<1>2. CASE WalkNext
  <2>1. /\ at[2] > 0 /\ key' = (IF kind = "temperature" THEN key + 1 ELSE key)
        /\ pc = "walk" /\ at' = <<at[1] + 1, 0>> /\ UNCHANGED <<fids, labels, pc>>
    BY <1>2 DEF WalkNext, columns
  <2>2. kind = "temperature" => key = KeyOf(at) /\ at[1] \in Coretemp
    BY <2>1 DEF WalkInv
  <2>3. kind = "temperature" => key' = KeyOf(at')
    BY <1>0, <2>1, <2>2, KeyNext
  <2>4. at' \in Pairs /\ at'[2] = 0 /\ Before(at, at')
    BY <1>0, <2>1, NextPlaces
  <2> QED
    BY <1>0, <2>1, <2>3, <2>4 DEF WalkOn
<1> QED
  BY <1>1, <1>2

LEMMA WalkStep == IInv /\ [Next]_vars => WalkInv'
<1> SUFFICES ASSUME TypeInv, PhaseInv, WalkInv, [Next]_vars, Walked PROVE WalkInv'
  <2>1. IInv /\ [Next]_vars => (Walked' <=> Walked)
    BY Steady DEF IInv
  <2> QED
    BY <2>1 DEF WalkInv, IInv
<1>0. /\ kind' = kind /\ machine' = machine /\ files \subseteq machine.files
      /\ machine.files \subseteq Pairs /\ at \in Pairs
      /\ Len(fids) \in Nat /\ Len(labels) \in Nat
      /\ \A f : LabelOf(f)' = LabelOf(f)
  BY Steady, MachineType DEF TypeInv, LabelOf, RaplLabel, KeyOf
<1>1. /\ pc = "open" => Len(labels) = Len(fids) + 1
      /\ pc \notin {"open", "exit", "crash"} => Len(labels) = Len(fids)
      /\ Len(labels) \in Len(fids) .. Len(fids) + 1
      /\ \A k \in 1 .. Len(labels) :
             /\ Source(k) \in machine.files /\ labels[k] = LabelOf(Source(k))
             /\ kind = "temperature" => Source(k)[2] > 0 /\ Source(k)[1] \in Coretemp
      /\ \A j, k \in 1 .. Len(labels) : j < k => Before(Source(j), Source(k))
      /\ \A k \in 1 .. Len(fids) : Before(fids[k], at)
      /\ kind = "temperature" =>
             key = KeyOf(at) /\ (at[2] > 0 => at[1] \in Coretemp)
  BY DEF WalkInv
<1>2. CASE WalkFound
  <2>1. /\ pc = "walk" /\ at \in files /\ (kind = "rapl" \/ at[2] > 0)
        /\ labels' = Append(labels, IF kind = "rapl" THEN RaplLabel(at) ELSE <<Name(at), key>>)
        /\ pc' = "open" /\ UNCHANGED <<at, key, fids>>
    BY <1>2 DEF WalkFound, search
  <2>2. labels' = Append(labels, LabelOf(at))
    BY <2>1, <1>1 DEF LabelOf, Walked
  <2>3. /\ Len(labels') = Len(labels) + 1
        /\ \A k \in 1 .. Len(labels) : labels'[k] = labels[k]
        /\ labels'[Len(labels) + 1] = LabelOf(at)
    BY <2>2 DEF TypeInv
  <2>4. /\ \A k \in 1 .. Len(labels) : Source(k)' = Source(k) /\ Source(k) = fids[k]
        /\ \A k : k = Len(labels) + 1 => Source(k)' = at
        /\ Len(labels) = Len(fids)
    BY <1>0, <1>1, <2>1 DEF Source
  <2>5. \A k \in 1 .. Len(labels') : k \in 1 .. Len(labels) \/ k = Len(labels) + 1
    BY <2>3, <1>0
  <2>6. \A k \in 1 .. Len(labels') :
            /\ Source(k)' \in machine.files /\ labels'[k] = LabelOf(Source(k)')
            /\ kind = "temperature" => Source(k)'[2] > 0 /\ Source(k)'[1] \in Coretemp
    <3>1. ASSUME NEW k \in 1 .. Len(labels)
          PROVE  /\ Source(k)' \in machine.files /\ labels'[k] = LabelOf(Source(k)')
                 /\ kind = "temperature" => Source(k)'[2] > 0 /\ Source(k)'[1] \in Coretemp
      BY <1>1, <2>3, <2>4
    <3>2. kind = "temperature" => at[2] > 0 /\ at[1] \in Coretemp
      BY <1>1, <2>1
    <3>3. at \in machine.files /\ labels'[Len(labels) + 1] = LabelOf(at)
      BY <1>0, <2>1, <2>3
    <3>4. ASSUME NEW k, k = Len(labels) + 1
          PROVE  /\ Source(k)' \in machine.files /\ labels'[k] = LabelOf(Source(k)')
                 /\ kind = "temperature" => Source(k)'[2] > 0 /\ Source(k)'[1] \in Coretemp
      BY <2>4, <3>2, <3>3, <3>4
    <3> QED
      BY <2>5, <3>1, <3>4
  <2>7. \A j, k \in 1 .. Len(labels') : j < k => Before(Source(j)', Source(k)')
    <3> SUFFICES ASSUME NEW j \in 1 .. Len(labels'), NEW k \in 1 .. Len(labels'), j < k
                 PROVE  Before(Source(j)', Source(k)')
      OBVIOUS
    <3>1. j \in 1 .. Len(labels) /\ j \in 1 .. Len(fids)
      BY <1>0, <2>3, <2>4
    <3>2. CASE k \in 1 .. Len(labels)
      BY <1>1, <2>4, <3>1, <3>2
    <3>3. CASE k = Len(labels) + 1
      BY <1>1, <2>4, <3>1, <3>3
    <3> QED
      BY <2>5, <3>2, <3>3
  <2>8. (\A k \in 1 .. Len(labels) : labels[k] = LabelOf(Source(k)))'
    BY <1>0, <2>6
  <2> QED
    BY <1>0, <1>1, <2>1, <2>3, <2>4, <2>6, <2>7, <2>8 DEF WalkInv, Walked
<1>3. CASE WalkOpen
  <2>0. UNCHANGED <<key, labels>> /\ pc = "open"
    BY <1>3 DEF WalkOpen
  <2>1. CASE pc' \in {"exit", "crash"} /\ UNCHANGED <<fids, at>>
    <3>1. \A k : Source(k)' = Source(k)
      BY <2>1 DEF Source
    <3> QED
      BY <1>0, <1>1, <2>0, <2>1, <3>1 DEF WalkInv
  <2>2. CASE fids' = Append(fids, at) /\ at' = <<at[1], at[2] + 1>> /\ pc' = "walk"
    <3>1. at' \in Pairs /\ Before(at, at') /\ at'[1] = at[1]
      BY <1>0, <2>2, NextPlaces
    <3>2. Len(labels) = Len(fids) + 1
      BY <1>1, <2>0
    <3>3. /\ Len(fids') = Len(fids) + 1 /\ fids'[Len(fids) + 1] = at
          /\ \A k \in 1 .. Len(fids) : fids'[k] = fids[k]
          /\ \A k \in 1 .. Len(fids') : k \in 1 .. Len(fids) \/ k = Len(fids) + 1
      BY <2>2, FidsAppend
    <3>4. \A k \in 1 .. Len(labels) : Source(k)' = Source(k)
      BY <1>0, <3>2, <3>3 DEF Source
    <3>5. \A k \in 1 .. Len(fids') : Before(fids'[k], at')
      <4>1. ASSUME NEW k \in 1 .. Len(fids) PROVE fids[k] \in Pairs
        BY <1>0, <1>1, <3>2 DEF Source
      <4> QED
        BY <1>0, <1>1, <3>1, <3>3, <4>1, BeforeNext
    <3>6. kind = "temperature" => key' = KeyOf(at') /\ at'[1] \in Coretemp
      <4>1. Source(Len(labels)) = at /\ Len(labels) \in 1 .. Len(labels)
        BY <1>0, <3>2 DEF Source
      <4>2. kind = "temperature" => at[1] \in Coretemp
        BY <1>1, <4>1
      <4> QED
        BY <1>0, <1>1, <2>0, <2>2, <3>1, <4>2, KeyNext
    <3> QED
      BY <1>0, <1>1, <2>0, <2>2, <3>2, <3>3, <3>4, <3>5, <3>6 DEF WalkInv
  <2> QED
    BY <1>3, <2>1, <2>2 DEF WalkOpen
<1>4. CASE HwmonName \/ WalkNext
  <2>1. WalkOn /\ pc = "walk" /\ UNCHANGED <<fids, labels, pc>>
    BY <1>4, WalkMoves
  <2>2. \A k \in 1 .. Len(labels) : Source(k) = fids[k] /\ Source(k)' = fids[k]
    BY <1>0, <1>1, <2>1 DEF Source
  <2>3. \A k \in 1 .. Len(fids) : Before(fids[k], at')
    <3>1. ASSUME NEW k \in 1 .. Len(fids) PROVE fids[k] \in Pairs
      BY <1>0, <1>1, <2>1, <2>2
    <3> QED
      BY <1>1, <2>1, <3>1, BeforeNext DEF WalkOn
  <2> QED
    BY <1>0, <1>1, <2>1, <2>2, <2>3 DEF WalkInv, WalkOn
<1>5. CASE ~WalkFound /\ ~WalkOpen /\ ~HwmonName /\ ~WalkNext
  <2>1. /\ UNCHANGED <<fids, labels, at, key>>
        /\ pc' = "open" <=> pc = "open"
        /\ pc' \notin {"open", "exit", "crash"} => pc \notin {"open", "exit", "crash"}
    BY <1>5, WalkFrame
  <2>2. \A k : Source(k)' = Source(k)
    BY <2>1 DEF Source
  <2> QED
    BY <1>0, <1>1, <2>1, <2>2 DEF WalkInv
<1> QED
  BY <1>2, <1>3, <1>4, <1>5

\* What lies before the next place of the walk and was not before this one.
LEMMA Between ==
    ASSUME NEW f \in Pairs, NEW g \in Pairs, NEW h
    PROVE  /\ h = <<g[1], g[2] + 1>> /\ Before(f, h) => Before(f, g) \/ f = g
           /\ h = <<g[1], 1>> /\ g[2] = 0 /\ Before(f, h) => Before(f, g) \/ f[2] = 0
           /\ h = <<g[1] + 1, 0>> /\ Before(f, h) =>
                  \/ Before(f, g)
                  \/ f[1] = g[1] /\ f[2] >= g[2]
<1>1. f[1] \in Nat /\ f[2] \in Nat /\ g[1] \in Nat /\ g[2] \in Nat
  BY PairType
<1>2. f[1] = g[1] /\ f[2] = g[2] => f = g
  BY SamePair
<1> QED
  BY <1>1, <1>2 DEF Before

LEMMA CoverStep == IInv /\ [Next]_vars => CoverInv'
<1> SUFFICES ASSUME IInv, [Next]_vars, Walked, unplugs' = 0, NoGap',
                    pc' \in Reading \cup {"walk", "open"}
             PROVE  /\ \A f \in machine.files : Before(f, at') /\ Measured(f) =>
                           \E k \in 1 .. Len(fids') : fids'[k] = f
                    /\ pc' \in Reading => \A f \in machine.files : f[1] < at'[1]
  <2>1. IInv /\ [Next]_vars => kind' = kind /\ machine' = machine /\ (Walked' <=> Walked)
    BY Steady DEF IInv
  <2> QED
    BY <2>1 DEF CoverInv, Measured
<1> USE DEF IInv
<1>0. /\ unplugs = 0 /\ files = machine.files /\ machine.files \subseteq Pairs
      /\ at \in Pairs /\ at[1] \in Nat /\ at[2] \in Nat /\ NoGap
  BY Steady, MachineType, PairType DEF TypeInv, NoGap
<1>1. pc \in Reading \cup {"walk", "open"} =>
          /\ \A f \in machine.files : Before(f, at) /\ Measured(f) =>
                 \E k \in 1 .. Len(fids) : fids[k] = f
          /\ pc \in Reading => \A f \in machine.files : f[1] < at[1]
  BY <1>0 DEF CoverInv
<1>2. CASE WalkFound
  <2>1. UNCHANGED <<at, fids>> /\ pc = "walk" /\ pc' = "open"
    BY <1>2 DEF WalkFound, search
  <2> QED
    BY <1>1, <2>1 DEF Reading
<1>3. CASE WalkOpen
  <2>1. /\ fids' = Append(fids, at) /\ at' = <<at[1], at[2] + 1>>
        /\ pc = "open" /\ pc' = "walk"
    BY <1>3 DEF WalkOpen, Reading
  <2>2. /\ Len(fids') = Len(fids) + 1 /\ fids'[Len(fids) + 1] = at /\ Len(fids) \in Nat
        /\ \A k \in 1 .. Len(fids) : fids'[k] = fids[k]
    BY <2>1, FidsAppend
  <2>3. ASSUME NEW f \in machine.files, Before(f, at'), Measured(f)
        PROVE  \E k \in 1 .. Len(fids') : fids'[k] = f
    <3>1. Before(f, at) \/ f = at
      BY <1>0, <2>1, <2>3, Between
    <3>2. CASE f = at
      BY <2>2, <3>2
    <3>3. CASE Before(f, at)
      <4>1. PICK k \in 1 .. Len(fids) : fids[k] = f
        BY <1>1, <2>1, <2>3, <3>3
      <4> QED
        BY <2>2, <4>1
    <3> QED
      BY <3>1, <3>2, <3>3
  <2> QED
    BY <2>1, <2>3 DEF Reading
<1>4. CASE HwmonName
  <2>1. /\ at[2] = 0 /\ pc = "walk" /\ pc' = "walk" /\ fids' = fids /\ kind = "temperature"
        /\ at' = IF at[1] \in Coretemp THEN <<at[1], 1>> ELSE <<at[1] + 1, 0>>
    BY <1>4 DEF HwmonName, columns
  <2>2. ASSUME NEW f \in machine.files, Before(f, at'), Measured(f)
        PROVE  Before(f, at)
    <3>1. f \in Pairs /\ f[1] \in Coretemp /\ f[2] > 0
      BY <1>0, <2>1, <2>2 DEF Measured
    <3>2. CASE at[1] \in Coretemp
      BY <1>0, <2>1, <2>2, <3>1, <3>2, Between
    <3>3. CASE at[1] \notin Coretemp
      BY <1>0, <2>1, <2>2, <3>1, <3>3, Between
    <3> QED
      BY <3>2, <3>3
  <2> QED
    BY <1>1, <2>1, <2>2 DEF Reading
<1>5. CASE WalkNext
  <2>1. /\ at[2] > 0 /\ at \notin files /\ pc = "walk" /\ pc' = "walk" /\ fids' = fids
        /\ at' = <<at[1] + 1, 0>>
    BY <1>5 DEF WalkNext, columns
  <2>2. ASSUME NEW f \in machine.files, Before(f, at')
        PROVE  Before(f, at)
    <3>1. ASSUME f[1] = at[1], f[2] >= at[2] PROVE FALSE
      <4>1. f[1] \in 0 .. f[1] /\ at[2] \in 0 .. f[2]
        BY <1>0, <3>1, PairType
      <4>2. <<f[1], at[2]>> \in machine.files
        BY <1>0, <4>1 DEF NoGap
      <4>3. at = <<at[1], at[2]>>
        BY <1>0, PairType
      <4> QED
        BY <1>0, <2>1, <3>1, <4>2, <4>3
    <3> QED
      BY <1>0, <2>1, <2>2, <3>1, Between
  <2> QED
    BY <1>1, <2>1, <2>2 DEF Reading
<1>6. CASE WalkEnd
  <2>1. at[2] = 0 /\ at \notin files /\ pc = "walk" /\ UNCHANGED <<at, fids>>
    BY <1>6 DEF WalkEnd, columns, search
  <2>2. ASSUME NEW f \in machine.files PROVE f[1] < at[1]
    <3>1. f[1] \in Nat /\ f[2] \in Nat
      BY <1>0, PairType
    <3>2. ASSUME at[1] <= f[1] PROVE FALSE
      <4>1. at[1] \in 0 .. f[1] /\ 0 \in 0 .. f[2]
        BY <1>0, <3>1, <3>2
      <4>2. <<at[1], 0>> \in machine.files
        <5>1. (at[1] < f[1] => <<at[1], 0>> \in machine.files) /\ <<f[1], 0>> \in machine.files
          BY <1>0, <4>1, Zenon DEF NoGap
        <5> QED
          BY <1>0, <3>1, <3>2, <5>1
      <4>3. at = <<at[1], 0>>
        BY <1>0, <2>1, PairType
      <4> QED
        BY <1>0, <2>1, <4>2, <4>3
    <3> QED
      BY <1>0, <3>1, <3>2
  <2> QED
    BY <1>1, <2>1, <2>2
<1>7. CASE ~WalkFound /\ ~WalkOpen /\ ~HwmonName /\ ~WalkNext /\ ~WalkEnd
  <2>1. /\ UNCHANGED <<fids, at>>
        /\ pc' \in Reading => pc \in Reading
        /\ pc \in Reading \cup {"walk", "open"}
    BY <1>7, WalkFrame
  <2> QED
    BY <1>1, <2>1
<1> QED
  BY <1>2, <1>3, <1>4, <1>5, <1>6, <1>7

-----------------------------------------------------------------------------
(* The files that a sensor has decided to open *)

LEMMA PlanFrame ==
    ASSUME NEW plan, Planned(plan), UNCHANGED <<labels, indexes, machine, kind>>,
           unplugs' = 0 => unplugs = 0
    PROVE  Planned(plan)'
<1>1. kind = "disk" => DiskPlan(plan)'
  BY DEF Planned, DiskPlan
<1>2. kind = "infiniband" => PortPlan(plan)'
  BY DEF Planned, PortPlan
<1>3. kind = "network" => NetworkPlan(plan)'
  BY DEF Planned, NetworkPlan
<1>4. kind = "load" => StatPlan(plan)'
  BY DEF Planned, StatPlan
<1>5. kind \in {"perf", "memory"} => NamePlan(plan)'
  BY DEF Planned, NamePlan
<1>6. kind = "perf" => PerfPlan(plan)'
  BY DEF Planned, PerfPlan
<1> QED
  BY <1>1, <1>2, <1>3, <1>4, <1>5, <1>6 DEF Planned

LEMMA FirstFollowed ==
    ASSUME NEW plan \in Seq(Pairs), plan = todo', fids' = <<>>
    PROVE  Followed(plan)'
<1>1. Len(fids') = 0 /\ Len(todo') = Len(plan) /\ Len(plan) \in Nat
  BY EmptySeq
<1>2. \A k \in 1 .. Len(todo') : todo'[k] = plan[Len(fids') + k]
  <2>1. \A k \in 1 .. Len(todo') : 0 + k = k
    BY <1>1
  <2> QED
    BY <1>1, <2>1
<1> QED
  BY <1>1, <1>2 DEF Followed

LEMMA NextFollowed ==
    ASSUME TypeInv, NEW plan \in Seq(Pairs), Followed(plan), OpenListed
    PROVE  Followed(plan)'
<1>1. /\ Len(plan) = Len(fids) + Len(todo) /\ Len(fids) \in Nat /\ Len(todo) \in Nat
      /\ \A k \in 1 .. Len(fids) : fids[k] \in {plan[k], None}
      /\ \A k \in 1 .. Len(todo) : todo[k] = plan[Len(fids) + k]
      /\ todo \in Seq(Pairs)
  <2>1. fids \in Seq(machine.files \cup {None}) /\ todo \in Seq(Pairs)
    BY DEF TypeInv
  <2>2. Len(fids) \in Nat /\ Len(todo) \in Nat
    BY <2>1
  <2> QED
    BY <2>1, <2>2 DEF Followed
<1>2. todo # <<>> /\ todo' = Tail(todo)
  BY DEF OpenListed
<1>3. /\ Len(todo) > 0 /\ Head(todo) = todo[1] /\ Len(todo') = Len(todo) - 1
      /\ \A k \in 1 .. Len(todo') : todo'[k] = todo[k + 1]
  BY <1>1, <1>2
<1>4. PICK f \in {Head(todo), None} : fids' = Append(fids, f)
  BY DEF OpenListed
<1>5. /\ Len(fids') = Len(fids) + 1 /\ fids'[Len(fids) + 1] = f
      /\ \A k \in 1 .. Len(fids) : fids'[k] = fids[k]
      /\ \A k \in 1 .. Len(fids') : k \in 1 .. Len(fids) \/ k = Len(fids) + 1
  BY <1>4, FidsAppend
<1>6. Len(plan) = Len(fids') + Len(todo')
  BY <1>1, <1>3, <1>5
<1>7. \A k \in 1 .. Len(fids') : fids'[k] \in {plan[k], None}
  <2>1. todo[1] = plan[Len(fids) + 1]
    BY <1>1, <1>3
  <2> QED
    BY <1>1, <1>3, <1>4, <1>5, <2>1
<1>8. \A k \in 1 .. Len(todo') : todo'[k] = plan[Len(fids') + k]
  <2> SUFFICES ASSUME NEW k \in 1 .. Len(todo') PROVE todo'[k] = plan[Len(fids') + k]
    OBVIOUS
  <2>1. k + 1 \in 1 .. Len(todo) /\ Len(fids) + (k + 1) = Len(fids') + k
    BY <1>1, <1>3, <1>5
  <2> QED
    BY <1>1, <1>3, <2>1
<1> QED
  BY <1>6, <1>7, <1>8 DEF Followed

\* Only a few actions change what PlanInv is about.
LEMMA PlanStill ==
    ASSUME TypeInv, PhaseInv, [Next]_vars, ~Walked, ~ListName, ~ListEnd, ~GlobDisks,
           ~GlobPorts, ~FindDevices, ~FindStat, ~OpenListed
    PROVE  /\ UNCHANGED <<labels, indexes, machine, kind, fids, todo>>
           /\ unplugs' = 0 => unplugs = 0
           /\ pc \in {"list", "find", "exit", "dropped"} => pc' = pc
<1>1. pc \notin {"walk", "open"}
  BY DEF PhaseInv
<1> USE DEF search, columns
<1>2. CASE UNCHANGED vars
  BY <1>2, Steady DEF vars
<1>3. CASE Unplug
  BY <1>3, Steady DEF Unplug
<1>4. CASE OpenedAll \/ Get \/ Read \/ EndRead \/ Clean
  BY <1>4, Steady DEF OpenedAll, Get, Read, EndRead, Clean
<1>5. CASE WalkFound \/ WalkOpen \/ HwmonName \/ WalkNext \/ WalkEnd
  BY <1>1, <1>5 DEF WalkFound, WalkOpen, HwmonName, WalkNext, WalkEnd
<1> QED
  BY <1>2, <1>3, <1>4, <1>5 DEF Next, Terminated

LEMMA PlanStep == IInv /\ [Next]_vars => PlanInv'
<1> SUFFICES ASSUME TypeInv, PhaseInv, PlanInv, [Next]_vars, ~Walked
             PROVE  \/ labels' = <<>> /\ pc' \in {"list", "find", "exit", "dropped"}
                    \/ \E plan \in Seq(Pairs) : Planned(plan)' /\ Followed(plan)'
  <2>1. IInv /\ [Next]_vars => (Walked' <=> Walked)
    BY Steady DEF IInv
  <2> QED
    BY <2>1 DEF PlanInv, IInv
<1>0. kind' = kind /\ machine' = machine /\ (unplugs' = 0 => unplugs = 0)
  BY Steady
<1>1. pc \in {"list", "find"} => fids = <<>> /\ labels = <<>>
  BY DEF PhaseInv
<1> USE DEF columns
<1>2. CASE ListName
  BY <1>1, <1>2 DEF ListName
<1>3. CASE ListEnd
  <2>1. PICK plan \in Seq(Pairs) :
            /\ plan = todo' /\ NamePlan(plan)'
            /\ kind = "perf" => PerfPlan(plan)'
            /\ kind = "memory" => Len(plan) = 1 /\ plan[1] = Proc
    BY <1>3, NamesListed
  <2>2. fids' = <<>> /\ kind \in {"perf", "memory"}
    BY <1>1, <1>3 DEF ListEnd, PhaseInv
  <2> QED
    BY <1>0, <2>1, <2>2, FirstFollowed DEF Planned
<1>4. CASE GlobDisks
  <2>1. fids' = <<>> /\ kind = "disk" /\ (files = {} => pc' = "dropped")
    BY <1>1, <1>4 DEF GlobDisks
  <2>2. CASE files = {}
    BY <1>4, <2>1, <2>2, DiskFound
  <2>3. CASE files # {}
    <3>1. PICK plan \in Seq(Pairs) : plan = todo' /\ DiskPlan(plan)'
      BY <1>4, <2>3, DiskFound
    <3> QED
      BY <1>0, <2>1, <3>1, FirstFollowed DEF Planned
  <2> QED
    BY <2>2, <2>3
<1>5. CASE GlobPorts
  <2>1. fids' = <<>> /\ kind = "infiniband" /\ labels = <<>>
    BY <1>1, <1>5 DEF GlobPorts
  <2>2. CASE pc' = "dropped" /\ UNCHANGED <<todo, labels>>
    BY <2>1, <2>2
  <2>3. CASE \E plan \in Seq(Pairs) : plan = todo' /\ PortPlan(plan)'
    <3>1. PICK plan \in Seq(Pairs) : plan = todo' /\ PortPlan(plan)'
      BY <2>3
    <3> QED
      BY <1>0, <2>1, <3>1, FirstFollowed DEF Planned
  <2> QED
    BY <1>5, <2>2, <2>3, PortsFound
<1>6. CASE FindDevices
  <2>1. fids' = <<>> /\ kind = "network"
    BY <1>1, <1>6 DEF FindDevices
  <2>2. PICK plan \in Seq(Pairs) : plan = todo' /\ NetworkPlan(plan)'
    BY <1>6, NetworkFound
  <2> QED
    BY <1>0, <2>1, <2>2, FirstFollowed DEF Planned
<1>7. CASE FindStat
  <2>1. fids' = <<>> /\ kind = "load"
    BY <1>1, <1>7 DEF FindStat
  <2>2. PICK plan \in Seq(Pairs) : plan = todo' /\ StatPlan(plan)'
    BY <1>7, StatFound
  <2> QED
    BY <1>0, <2>1, <2>2, FirstFollowed DEF Planned
<1>8. CASE OpenListed
  <2>1. pc = "openList" /\ UNCHANGED <<labels, indexes>>
    BY <1>8 DEF OpenListed
  <2>2. PICK plan \in Seq(Pairs) : Planned(plan) /\ Followed(plan)
    BY <2>1 DEF PlanInv
  <2> QED
    BY <1>0, <1>8, <2>1, <2>2, PlanFrame, NextFollowed
<1>9. CASE /\ ~ListName /\ ~ListEnd /\ ~GlobDisks /\ ~GlobPorts /\ ~FindDevices
           /\ ~FindStat /\ ~OpenListed
  <2>1. /\ UNCHANGED <<labels, indexes, machine, kind, fids, todo>>
        /\ unplugs' = 0 => unplugs = 0
        /\ pc \in {"list", "find", "exit", "dropped"} => pc' = pc
    BY <1>9, PlanStill
  <2>2. CASE labels = <<>> /\ pc \in {"list", "find", "exit", "dropped"}
    BY <2>1, <2>2
  <2>3. CASE \E plan \in Seq(Pairs) : Planned(plan) /\ Followed(plan)
    <3>1. PICK plan \in Seq(Pairs) : Planned(plan) /\ Followed(plan)
      BY <2>3
    <3>2. Planned(plan)' /\ Followed(plan)'
      BY <2>1, <3>1, PlanFrame DEF Followed
    <3> QED
      BY <3>2
  <2> QED
    BY <2>2, <2>3 DEF PlanInv
<1> QED
  BY <1>2, <1>3, <1>4, <1>5, <1>6, <1>7, <1>8, <1>9

-----------------------------------------------------------------------------
(* The rows *)

\* The events of perf after they have been opened: each of the names on as
\* many processors.
LEMMA PerfOpened ==
    ASSUME IInv, kind = "perf", pc \in Reading, labels # <<>> \/ fids # <<>>
    PROVE  /\ NbParts \in Nat \ {0} /\ Len(fids) = Len(indexes) * NbParts
           /\ Len(indexes) \in Nat \ {0} /\ Len(labels) = Len(indexes)
           /\ \A e \in 1 .. Len(indexes) : \A x \in 1 .. NbParts :
                  fids[Place(e, NbParts, x)] = <<indexes[e], x - 1>>
           /\ \A e \in 1 .. Len(indexes) : labels[e] = <<indexes[e], 0>>
           /\ unplugs = 0 => NbParts = Cardinality({f[2] : f \in machine.files})
<1> USE DEF IInv
<1>1. todo = <<>> /\ ~Walked /\ pc \notin {"list", "find", "exit", "dropped"}
  BY DEF PhaseInv, Reading, Walked
<1>2. PICK plan \in Seq(Pairs) : Planned(plan) /\ Followed(plan)
  BY <1>1 DEF PlanInv
<1>3. /\ Len(labels) = Len(indexes) /\ Len(indexes) \in Nat
      /\ \A e \in 1 .. Len(indexes) : labels[e] = <<indexes[e], 0>>
  <2>1. Len(indexes) \in Nat
    BY DEF TypeInv
  <2>2. NamePlan(plan)
    BY <1>2 DEF Planned
  <2> QED
    BY <2>1, <2>2 DEF NamePlan
<1>4. PICK c \in Nat \ {0} :
          /\ Len(plan) = Len(indexes) * c
          /\ \A e \in 1 .. Len(indexes) : \A x \in 1 .. c :
                 plan[Place(e, c, x)] = <<indexes[e], x - 1>>
          /\ unplugs = 0 => c = Cardinality({f[2] : f \in machine.files})
  BY <1>2 DEF Planned, PerfPlan
<1>5. Len(fids) = Len(plan) /\ Len(fids) \in Nat
  <2>1. Len(todo) = 0
    BY <1>1
  <2> QED
    BY <1>2, <2>1 DEF Followed, TypeInv
<1>6. Len(indexes) # 0
  <2>1. ASSUME Len(indexes) = 0 PROVE FALSE
    <3>1. Len(fids) = 0 /\ Len(labels) = 0
      BY <1>3, <1>4, <1>5, <2>1
    <3> QED
      BY <3>1 DEF TypeInv
  <2> QED
    BY <2>1
<1>7. NbParts = c
  BY <1>3, <1>4, <1>5, <1>6, ExactQuotient DEF NbParts
<1>8. \A k \in 1 .. Len(fids) : fids[k] = plan[k]
  <2>1. \A k \in 1 .. Len(fids) : fids[k] # None
    BY <1>1 DEF OpenedInv, Reading
  <2> QED
    BY <1>2, <2>1 DEF Followed
<1>9. \A e \in 1 .. Len(indexes) : \A x \in 1 .. c : Place(e, c, x) \in 1 .. Len(fids)
  BY <1>3, <1>4, <1>5, CellRange
<1> QED
  BY <1>3, <1>4, <1>5, <1>6, <1>7, <1>8, <1>9

LEMMA PartType ==
    ASSUME NEW e, NEW n \in Nat, NEW S, \A x \in 1 .. n : <<<<indexes[e], x - 1>>, 0>> \in S
    PROVE  /\ Part(e, n) \in Seq(S) /\ Len(Part(e, n)) = n
           /\ \A x \in 1 .. n : Part(e, n)[x] = <<<<indexes[e], x - 1>>, 0>>
BY DEF Part

LEMMA PartGrows ==
    ASSUME NEW e, NEW r \in Nat
    PROVE  /\ Part(e, r + 1) = Append(Part(e, r), <<<<indexes[e], r>>, 0>>)
           /\ Part(e, 1) = <<<<<<indexes[e], 0>>, 0>>>>
<1> DEFINE S == {<<<<indexes[e], y>>, 0>> : y \in Nat}
<1> DEFINE v == <<<<indexes[e], r>>, 0>>
<1>1. v \in S /\ \A n \in Nat : \A x \in 1 .. n : <<<<indexes[e], x - 1>>, 0>> \in S
  OBVIOUS
<1> HIDE DEF S
<1>2. /\ Part(e, r) \in Seq(S) /\ Len(Part(e, r)) = r
      /\ \A x \in 1 .. r : Part(e, r)[x] = <<<<indexes[e], x - 1>>, 0>>
  <2>1. \A x \in 1 .. r : <<<<indexes[e], x - 1>>, 0>> \in S
    BY <1>1
  <2> QED
    BY <2>1, PartType
<1>3. /\ Part(e, r + 1) \in Seq(S) /\ Len(Part(e, r + 1)) = r + 1
      /\ \A x \in 1 .. r + 1 : Part(e, r + 1)[x] = <<<<indexes[e], x - 1>>, 0>>
  <2>1. r + 1 \in Nat /\ \A x \in 1 .. r + 1 : <<<<indexes[e], x - 1>>, 0>> \in S
    BY <1>1
  <2> QED
    BY <2>1, PartType
<1>4. /\ Part(e, 1) \in Seq(S) /\ Len(Part(e, 1)) = 1
      /\ Part(e, 1)[1] = <<<<indexes[e], 0>>, 0>>
  <2>1. /\ Part(e, 1) \in Seq(S) /\ Len(Part(e, 1)) = 1
        /\ \A x \in 1 .. 1 : Part(e, 1)[x] = <<<<indexes[e], x - 1>>, 0>>
    BY <1>1, PartType
  <2> QED
    BY <2>1
<1>5. v = <<<<indexes[e], (r + 1) - 1>>, 0>>
  OBVIOUS
<1> DEFINE p == Part(e, r)
<1> DEFINE q == Part(e, r + 1)
<1> HIDE DEF v
<1>6. p \in Seq(S) /\ Len(p) = r /\ q \in Seq(S) /\ Len(q) = r + 1 /\ q[r + 1] = v
      /\ \A x \in 1 .. r : p[x] = q[x]
  <2>1. r + 1 \in 1 .. r + 1 /\ \A x \in 1 .. r : x \in 1 .. r + 1
    OBVIOUS
  <2> QED
    BY <1>2, <1>3, <1>5, <2>1
<1> HIDE DEF p, q
<1>7. q = Append(p, v)
  <2>1. Append(p, v) \in Seq(S) /\ Len(Append(p, v)) = r + 1
    BY <1>1, <1>6
  <2>2. \A x \in 1 .. r + 1 : q[x] = Append(p, v)[x]
    BY <1>6
  <2> QED
    BY <1>6, <2>1, <2>2, SeqEqual
<1>8. Part(e, 1) = <<<<<<indexes[e], 0>>, 0>>>>
  BY <1>4
<1> QED
  BY <1>7, <1>8 DEF p, q, v

LEMMA EmptyRow ==
    ASSUME d' = 0, row' = <<>>, pc' # "use"
    PROVE  RowInv'
<1>1. Len(row') = 0
  BY EmptySeq
<1>2. 0 * NbFields = 0
  BY BoundsAssumption
<1> QED
  BY <1>1, <1>2 DEF RowInv, FileRow, FieldRow, NameRow, PerfRow

\* What a turn of a reading loop adds to a row of files.
LEMMA FileRead ==
    ASSUME TypeInv, FileRow, NEW f, d < Len(fids), f = fids[d + 1], fids' = fids,
           d' = d + 1, row' = Append(row, <<<<f, 0>>>>)
    PROVE  FileRow'
<1>1. /\ d \in Nat /\ row \in Seq(Seq(Fields)) /\ Len(row) = d
      /\ \A k \in 1 .. d : row[k] = <<<<fids[k], 0>>>>
  BY DEF TypeInv, FileRow
<1>2. /\ Len(row') = d + 1 /\ row'[d + 1] = <<<<f, 0>>>>
      /\ \A k \in 1 .. d : row'[k] = row[k]
  BY <1>1
<1>3. \A k \in 1 .. d + 1 : k \in 1 .. d \/ k = d + 1
  BY <1>1
<1> QED
  BY <1>1, <1>2, <1>3 DEF FileRow

\* To a row of fields: a block of them.
LEMMA FieldRead ==
    ASSUME TypeInv, FieldRow, NEW f, d < Len(fids), f = fids[d + 1], fids' = fids,
           d' = d + 1, f \in Pairs,
           row' = row \o [j \in 1 .. NbFields |-> <<<<f, j>>>>]
    PROVE  FieldRow'
<1> DEFINE b == NbFields
<1> DEFINE m == d * b
<1>1. /\ d \in Nat /\ row \in Seq(Seq(Fields)) /\ Len(row) = m /\ b \in Nat \ {0}
      /\ \A k \in 1 .. d : \A j \in 1 .. b : row[Place(k, b, j)] = <<<<fids[k], j>>>>
  BY BoundsAssumption DEF TypeInv, FieldRow
<1>2. m \in Nat /\ (d + 1) * b = m + b
  BY <1>1, Product
<1>r. row' = row \o [j \in 1 .. b |-> <<<<f, j>>>>]
  OBVIOUS
<1> HIDE DEF b
<1> DEFINE block == [j \in 1 .. b |-> <<<<f, j>>>>]
<1>3. \A j \in 1 .. b : <<<<f, j>>>> \in Seq(Fields) /\ block[j] = <<<<f, j>>>>
  BY <1>1 DEF Fields
<1>4. block \in Seq(Seq(Fields)) /\ Len(block) = b
  <2>1. b \in Nat
    BY <1>1
  <2>2. block \in [1 .. b -> Seq(Fields)]
    BY <1>3
  <2> HIDE DEF block
  <2> QED
    BY <2>1, <2>2
<1>p. \A j \in 1 .. b : Place(d + 1, b, j) = m + j
  BY <1>1, <1>2 DEF Place
<1>5. row' = row \o block
  BY <1>r
<1> HIDE DEF block, m
<1>6. /\ Len(row') = m + b
      /\ \A i \in 1 .. m + b : row'[i] = IF i <= m THEN row[i] ELSE block[i - m]
  <2>1. row \in Seq(Seq(Fields)) /\ Len(row) = m
    BY <1>1
  <2>2. /\ Len(row \o block) = m + b
        /\ \A i \in 1 .. m + b : (row \o block)[i] = IF i <= m THEN row[i] ELSE block[i - m]
    BY <2>1, <1>4, ConcatProperties
  <2> QED
    BY <2>2, <1>5
<1>7. ASSUME NEW k \in 1 .. d + 1, NEW j \in 1 .. b
      PROVE  row'[Place(k, b, j)] = <<<<fids[k], j>>>>
  <2>1. CASE k \in 1 .. d
    <3>1. Place(k, b, j) \in 1 .. m
      BY <1>1, <2>1, CellRange DEF m
    <3>2. row'[Place(k, b, j)] = row[Place(k, b, j)]
      BY <1>1, <1>2, <1>6, <3>1
    <3> QED
      BY <1>1, <2>1, <3>2
  <2>2. CASE k = d + 1
    <3>1. Place(k, b, j) = m + j /\ m + j \in 1 .. m + b /\ ~(m + j <= m) /\ (m + j) - m = j
      BY <1>1, <1>2, <1>p, <2>2
    <3>2. row'[Place(k, b, j)] = block[j]
      BY <1>6, <3>1
    <3> QED
      BY <1>3, <2>2, <3>2
  <2>3. k \in 1 .. d \/ k = d + 1
    BY <1>1
  <2> QED
    BY <2>1, <2>2, <2>3
<1> QED
  BY <1>2, <1>6, <1>7 DEF FieldRow, b, m

\* To a row of the names of the list: a value for each, from the one file.
LEMMA NameRead ==
    ASSUME TypeInv, NameRow, NEW f, Len(fids) <= 1, d < Len(fids), f = fids[d + 1],
           fids' = fids, indexes' = indexes, d' = d + 1, f \in Pairs,
           row' = row \o [e \in 1 .. Len(indexes) |-> <<<<f, indexes[e]>>>>]
    PROVE  NameRow'
<1> DEFINE b == Len(indexes)
<1> DEFINE block == [e \in 1 .. b |-> <<<<f, indexes[e]>>>>]
<1>1. /\ d = 0 /\ Len(row) = 0 /\ row \in Seq(Seq(Fields)) /\ b \in Nat
      /\ \A e \in 1 .. b : indexes[e] \in Nat
  <2>1. /\ d \in 0 .. Len(fids) /\ Len(fids) \in Nat /\ row \in Seq(Seq(Fields))
        /\ indexes \in Seq(1 .. NbCounters) /\ NbCounters \in Nat
    BY BoundsAssumption DEF TypeInv
  <2>2. d = 0
    BY <2>1
  <2>3. Len(row) = 0
    BY <2>2 DEF NameRow
  <2>4. \A e \in 1 .. b : indexes[e] \in 1 .. NbCounters
    BY <2>1
  <2> QED
    BY <2>1, <2>2, <2>3, <2>4
<1>2. row' = row \o block
  OBVIOUS
<1> HIDE DEF b
<1>3. \A e \in 1 .. b : <<<<f, indexes[e]>>>> \in Seq(Fields) /\ block[e] = <<<<f, indexes[e]>>>>
  BY <1>1 DEF Fields
<1>4. block \in [1 .. b -> Seq(Fields)]
  BY <1>3
<1> HIDE DEF block
<1>5. block \in Seq(Seq(Fields)) /\ Len(block) = b
  BY <1>1, <1>4
<1>6. row = <<>>
  BY <1>1
<1>7. row' = block
  BY <1>2, <1>5, <1>6, ConcatEmptySeq
<1> QED
  BY <1>1, <1>3, <1>5, <1>7 DEF NameRow, b

\* To a row of perf: an event on one more processor.
LEMMA PerfRead ==
    ASSUME IInv, kind = "perf", pc \in Reading, PerfRow, NEW f, d < Len(fids),
           f = fids[d + 1], fids' = fids, indexes' = indexes, d' = d + 1,
           f \in Pairs, row' = With(row, f)
    PROVE  PerfRow'
<1> USE DEF IInv
<1> DEFINE n == Len(indexes)
<1> DEFINE c == NbParts
<1>1. d \in Nat /\ row \in Seq(Seq(Fields)) /\ Len(fids) \in Nat /\ fids # <<>>
  BY DEF TypeInv
<1>2. /\ c \in Nat \ {0} /\ n \in Nat \ {0} /\ Len(fids) = n * c
      /\ \A e \in 1 .. n : \A x \in 1 .. c : fids[Place(e, c, x)] = <<indexes[e], x - 1>>
  BY <1>1, PerfOpened
<1>3. NbParts' = NbParts /\ \A e, k : Part(e, k)' = Part(e, k)
  BY DEF NbParts, Part
<1>4. PICK q \in 0 .. n, r \in 0 .. c - 1 :
          /\ d = q * c + r /\ Len(row) = (IF r = 0 THEN q ELSE q + 1)
          /\ \A e \in 1 .. q : row[e] = Part(e, c)
          /\ r > 0 => q < n /\ row[q + 1] = Part(q + 1, r)
  <2>1. CASE d = 0
    <3>1. Len(row) = 0 /\ 0 \in 0 .. n /\ 0 \in 0 .. c - 1 /\ d = 0 * c + 0
      BY <1>1, <1>2, <2>1 DEF PerfRow
    <3> QED
      BY <3>1
  <2>2. CASE d > 0
    BY <2>2 DEF PerfRow
  <2> QED
    BY <1>1, <2>1, <2>2
<1> DEFINE e1 == q + 1
<1>w. With(row, f) = IF r # 0 THEN [row EXCEPT ![Len(row)] = Append(@, <<f, 0>>)]
                              ELSE Append(row, <<<<f, 0>>>>)
  <2>1. d % c = r
    <3>1. c \in Nat \ {0} /\ q \in Nat /\ d = q * c + r
      BY <1>2, <1>4
    <3> HIDE DEF c
    <3>2. (q * c + r) % c = r
      BY <3>1, Remainder
    <3> QED
      BY <3>1, <3>2
  <2> QED
    BY <2>1 DEF With, NbParts
<1> HIDE DEF n, c
<1>5. e1 \in 1 .. n /\ e1 \in Nat
  <2>1. ASSUME n <= q PROVE FALSE
    <3> DEFINE u == n * c
    <3> DEFINE w == q * c
    <3>1. u <= w
      BY <1>2, <1>4, <2>1, ProductOrder
    <3>2. u \in Nat /\ w \in Nat
      BY <1>2, <1>4, Product
    <3>3. d = w + r /\ r \in Nat /\ d < u
      BY <1>2, <1>4
    <3> HIDE DEF u, w
    <3> QED
      BY <3>1, <3>2, <3>3
  <2> QED
    BY <1>2, <1>4, <2>1
<1>6. f = <<indexes[e1], r>>
  <2>1. Place(e1, c, r + 1) = d + 1
    <3>1. q * c \in Nat /\ e1 - 1 = q
      BY <1>2, <1>4, Product
    <3> QED
      BY <1>4, <3>1 DEF Place
  <2>2. r + 1 \in 1 .. c /\ (r + 1) - 1 = r
    BY <1>2, <1>4
  <2> QED
    BY <1>2, <1>5, <2>1, <2>2
<1> DEFINE v == <<<<indexes[e1], r>>, 0>>
<1>7. Part(e1, r + 1) = Append(Part(e1, r), v) /\ Part(e1, 1) = <<<<<<indexes[e1], 0>>, 0>>>>
  <2>1. r \in Nat
    BY <1>2, <1>4
  <2> QED
    BY <2>1, PartGrows
<1>8. <<f, 0>> = v /\ v \in Fields /\ <<v>> \in Seq(Fields)
  <2>1. v \in Fields
    BY <1>6 DEF Fields
  <2> QED
    BY <1>6, <2>1
<1>9. /\ Len(row') = e1 /\ \A e \in 1 .. q : row'[e] = Part(e, c)
      /\ row'[e1] = Part(e1, r + 1)
  <2>1. CASE r = 0
    <3>1. row' = Append(row, <<v>>) /\ Len(row) = q
      BY <1>4, <1>8, <1>w, <2>1
    <3>2. <<v>> = Part(e1, r + 1)
      BY <1>7, <2>1
    <3> HIDE DEF v
    <3>3. /\ Len(row') = q + 1 /\ row'[q + 1] = <<v>>
          /\ \A e \in 1 .. q : row'[e] = row[e]
      BY <1>1, <1>8, <3>1
    <3> QED
      BY <1>4, <3>2, <3>3
  <2>2. CASE r # 0
    <3>1. row' = [row EXCEPT ![e1] = Append(row[e1], v)] /\ Len(row) = e1
      BY <1>4, <1>8, <1>w, <2>2
    <3>2. Append(row[e1], v) = Part(e1, r + 1)
      BY <1>4, <1>7, <2>2
    <3>3. Append(row[e1], v) \in Seq(Fields)
      BY <1>1, <1>5, <1>8, <3>1
    <3> HIDE DEF v, e1
    <3>4. /\ Len(row') = e1
          /\ \A k \in 1 .. Len(row) : row'[k] = IF k = e1 THEN Part(e1, r + 1) ELSE row[k]
      BY <1>1, <3>1, <3>2, <3>3, ExceptType
    <3>5. \A e \in 1 .. q : e \in 1 .. Len(row) /\ e # e1
      BY <1>4, <3>1 DEF e1
    <3>6. e1 \in 1 .. Len(row)
      BY <1>4, <3>1 DEF e1
    <3>7. row'[e1] = Part(e1, r + 1)
      BY <3>4, <3>6
    <3>8. \A e \in 1 .. q : row'[e] = row[e]
      BY <3>4, <3>5
    <3>9. \A e \in 1 .. q : row[e] = Part(e, c)
      BY <1>4
    <3> QED
      BY <3>4, <3>7, <3>8, <3>9
  <2> QED
    BY <2>1, <2>2
<1> HIDE DEF v
<1>p. ASSUME NEW q2 \in 0 .. n, NEW r2 \in 0 .. c - 1, d' = q2 * c + r2, d' > 0,
             Len(row') = (IF r2 = 0 THEN q2 ELSE q2 + 1),
             \A e \in 1 .. q2 : row'[e] = Part(e, c),
             r2 > 0 => q2 < n /\ row'[q2 + 1] = Part(q2 + 1, r2)
      PROVE  PerfRow'
  BY <1>3, <1>p DEF PerfRow, c, n
<1>10. d' > 0 /\ d' = q * c + (r + 1) /\ c' = c /\ n' = n
  <2>1. q * c \in Nat
    BY <1>2, <1>4, Product
  <2> QED
    BY <1>1, <1>3, <1>4, <2>1 DEF c, n
<1>11. CASE r + 1 < c
  <2>1. r + 1 \in 0 .. c - 1 /\ r + 1 # 0 /\ r + 1 > 0 /\ q < n
    BY <1>2, <1>4, <1>5, <1>11
  <2> QED
    BY <1>4, <1>9, <1>10, <1>p, <2>1
<1>12. CASE r + 1 = c
  <2>1. e1 \in 0 .. n /\ 0 \in 0 .. c - 1 /\ ~(0 > 0)
    BY <1>2, <1>5
  <2>2. d' = e1 * c + 0
    <3>1. (q + 1) * c = q * c + c /\ q * c \in Nat
      BY <1>2, <1>4, Product
    <3>2. e1 * c + 0 = q * c + c
      BY <1>2, <3>1
    <3>3. d' = q * c + c
      BY <1>10, <1>12
    <3> QED
      BY <3>2, <3>3
  <2>3. \A e \in 1 .. e1 : row'[e] = Part(e, c)
    <3>1. \A e \in 1 .. e1 : e \in 1 .. q \/ e = e1
      BY <1>4
    <3> QED
      BY <1>9, <1>12, <3>1
  <2> QED
    BY <1>9, <1>10, <1>p, <2>1, <2>2, <2>3
<1> QED
  BY <1>2, <1>4, <1>11, <1>12

LEMMA RowKept ==
    ASSUME UNCHANGED <<kind, fids, indexes, d, row>>, RowInv,
           pc' \in {"base", "get", "use"} => pc \in {"base", "get", "use"},
           pc' = "use" => d = Len(fids)
    PROVE  RowInv'
<1> SUFFICES ASSUME pc' \in {"base", "get", "use"}, pc \in {"base", "get", "use"}
             PROVE  RowInv'
  BY DEF RowInv
<1>1. /\ \A k \in 1 .. d : fids[k] # None
      /\ kind \in {"rapl", "temperature", "network", "infiniband"} => FileRow
      /\ kind \in {"disk", "load"} => FieldRow
      /\ kind = "memory" => NameRow
      /\ kind = "perf" => PerfRow
  BY DEF RowInv
<1>2. FileRow => FileRow'
  BY DEF FileRow
<1>3. FieldRow => FieldRow'
  BY DEF FieldRow
<1>4. NameRow => NameRow'
  BY DEF NameRow
<1>5. PerfRow => PerfRow'
  <2>1. NbParts' = NbParts
    BY DEF NbParts
  <2>2. \A e, n : Part(e, n)' = Part(e, n)
    BY DEF Part
  <2> QED
    BY <2>1, <2>2 DEF PerfRow
<1> QED
  BY <1>1, <1>2, <1>3, <1>4, <1>5 DEF RowInv

\* A memory sensor opens one file.
LEMMA OneFile ==
    ASSUME IInv, kind = "memory", pc \in Reading
    PROVE  Len(fids) = 1
<1>1. todo = <<>> /\ ~Walked /\ pc \notin {"list", "find", "exit", "dropped"}
  BY DEF IInv, PhaseInv, Reading, Walked
<1>2. PICK plan \in Seq(Pairs) : Planned(plan) /\ Followed(plan)
  BY <1>1 DEF PlanInv, IInv
<1>3. Len(plan) = 1 /\ Len(plan) = Len(fids) + Len(todo)
  BY <1>2 DEF Planned, Followed
<1>4. Len(fids) \in Nat /\ Len(todo) = 0
  BY <1>1 DEF IInv, TypeInv
<1>5. Len(fids) + 0 = Len(fids)
  BY <1>4
<1> QED
  BY <1>3, <1>4, <1>5

LEMMA ReadRow ==
    ASSUME IInv, [Next]_vars, Read, Readable(fids[d + 1])
    PROVE  RowInv'
<1> DEFINE f == fids[d + 1]
<1>1. /\ d \in 0 .. Len(fids) /\ Len(fids) \in Nat /\ d < Len(fids) /\ f # None
      /\ fids' = fids /\ indexes' = indexes /\ kind' = kind /\ d' = d + 1
      /\ row' = With(row, f) /\ pc' = pc /\ pc \in {"base", "get"} /\ pc \in Reading
  BY Steady DEF IInv, TypeInv, Read, search, columns, Reading, Readable
<1>2. f \in Pairs
  <2>1. d + 1 \in 1 .. Len(fids)
    BY <1>1
  <2> QED
    BY <1>1, <2>1, OpenIn DEF IInv
<1>l. ASSUME kind = "memory" PROVE Len(fids) <= 1
  <2>1. Len(fids) = 1
    BY <1>1, <1>l, OneFile, Zenon
  <2> QED
    BY <2>1
<1> USE DEF IInv
<1> HIDE DEF f
<1>f. f = fids[d + 1]
  BY DEF f
<1>3. \A k \in 1 .. d' : fids'[k] # None
  <2>1. \A k \in 1 .. d : fids[k] # None
    BY <1>1 DEF RowInv
  <2>2. \A k \in 1 .. d + 1 : k \in 1 .. d \/ k = d + 1
    BY <1>1
  <2> QED
    BY <1>1, <1>f, <2>1, <2>2
<1>4. CASE kind \in {"rapl", "temperature", "network", "infiniband"}
  <2>1. FileRow /\ row' = Append(row, <<<<f, 0>>>>)
    BY <1>1, <1>4 DEF RowInv, With
  <2>2. FileRow'
    BY <1>1, <1>f, <2>1, FileRead
  <2> QED
    BY <1>1, <1>3, <1>4, <2>2 DEF RowInv
<1>5. CASE kind \in {"disk", "load"}
  <2>1. FieldRow /\ row' = row \o [j \in 1 .. NbFields |-> <<<<f, j>>>>]
    BY <1>1, <1>5 DEF RowInv, With
  <2>2. FieldRow'
    BY <1>1, <1>2, <1>f, <2>1, FieldRead
  <2> QED
    BY <1>1, <1>3, <1>5, <2>2 DEF RowInv
<1>6. CASE kind = "memory"
  <2>1. NameRow /\ row' = row \o [e \in 1 .. Len(indexes) |-> <<<<f, indexes[e]>>>>]
    BY <1>1, <1>6 DEF RowInv, With
  <2>2. Len(fids) <= 1
    BY <1>6, <1>l
  <2>3. NameRow'
    BY <1>1, <1>2, <1>f, <2>1, <2>2, NameRead
  <2> QED
    BY <1>1, <1>3, <1>6, <2>3 DEF RowInv
<1>7. CASE kind = "perf"
  <2>1. PerfRow
    BY <1>1, <1>7 DEF RowInv
  <2>2. PerfRow'
    BY <1>1, <1>2, <1>7, <1>f, <2>1, PerfRead
  <2> QED
    BY <1>1, <1>3, <1>7, <2>2 DEF RowInv
<1> QED
  BY <1>4, <1>5, <1>6, <1>7, MachineType

LEMMA RowStep == IInv /\ [Next]_vars => RowInv'
<1> SUFFICES ASSUME IInv, [Next]_vars PROVE RowInv'
  OBVIOUS
<1>0. kind' = kind
  BY Steady DEF IInv
<1>1. CASE Read
  <2>1. CASE Readable(fids[d + 1])
    BY <1>1, <2>1, ReadRow
  <2>2. CASE ~Readable(fids[d + 1])
    BY <1>1, <2>2 DEF Read, RowInv
  <2> QED
    BY <2>1, <2>2
<1>2. CASE Get
  BY <1>2, EmptyRow DEF Get
<1>3. CASE WalkEnd \/ OpenedAll
  <2>1. d = 0 /\ row = <<>>
    BY <1>3 DEF IInv, PhaseInv, WalkEnd, OpenedAll
  <2>2. d' = 0 /\ row' = <<>> /\ pc' # "use"
    BY <1>3, <2>1 DEF WalkEnd, OpenedAll, Found, reading
  <2> QED
    BY <2>2, EmptyRow
<1>4. CASE EndRead
  BY <1>0, <1>4, RowKept DEF IInv, EndRead, Found, search, columns, reading
<1>5. CASE Unplug \/ UNCHANGED vars
  <2>1. /\ UNCHANGED <<pc, fids, indexes, d, row>>
        /\ pc = "use" => d = Len(fids)
    BY <1>5 DEF IInv, RowInv, Unplug, vars, search, columns, reading
  <2> QED
    BY <1>0, <2>1, RowKept DEF IInv
<1>6. CASE pc' \notin {"base", "get", "use"}
  BY <1>6 DEF RowInv
<1>7. CASE WalkFound \/ WalkOpen \/ HwmonName \/ WalkNext \/ ListName \/ ListEnd
               \/ GlobDisks \/ GlobPorts \/ FindDevices \/ FindStat \/ OpenListed \/ Clean
  <2>1. GlobPorts => pc' \in {"dropped", "openList"}
    BY PortsFound DEF IInv
  <2> QED
    BY <1>6, <1>7, <2>1 DEF WalkFound, WalkOpen, HwmonName, WalkNext, ListName, ListEnd,
       GlobDisks, FindDevices, FindStat, OpenListed, Clean
<1> QED
  BY <1>1, <1>2, <1>3, <1>4, <1>5, <1>7 DEF Next, Terminated

LEMMA Inductive == Spec => []IInv
<1>1. IInv /\ [Next]_vars => IInv'
  BY TypeStep, PhaseStep, ListStep, WalkStep, CoverStep, PlanStep, OpenedStep, RowStep
     DEF IInv
<1> QED
  BY <1>1, InitIInv, PTL DEF Spec

-----------------------------------------------------------------------------
(* What the sensor has when it is read *)

\* The files of a sensor that did not walk are those of its plan.
LEMMA AsPlanned ==
    ASSUME IInv, ~Walked, pc \in {"ready", "get", "use"}
    PROVE  \E plan \in Seq(Pairs) :
               /\ Planned(plan) /\ Len(plan) = Len(fids) /\ Len(fids) \in Nat
               /\ \A k \in 1 .. Len(fids) :
                      fids[k] = plan[k] /\ fids[k] \in machine.files /\ fids[k] \in Pairs
<1> USE DEF IInv
<1>1. todo = <<>> /\ labels # <<>> /\ \A k \in 1 .. Len(fids) : fids[k] # None
  BY DEF PhaseInv, OpenedInv, Reading
<1>2. PICK plan \in Seq(Pairs) : Planned(plan) /\ Followed(plan)
  BY <1>1 DEF PlanInv
<1>3. Len(fids) \in Nat /\ Len(todo) = 0
  BY <1>1 DEF TypeInv
<1>4. Len(plan) = Len(fids)
  <2>1. Len(plan) = Len(fids) + Len(todo) /\ Len(fids) + 0 = Len(fids)
    BY <1>2, <1>3 DEF Followed
  <2> QED
    BY <2>1, <1>3
<1>5. \A k \in 1 .. Len(fids) : fids[k] = plan[k]
  BY <1>1, <1>2 DEF Followed
<1>6. \A k \in 1 .. Len(fids) : fids[k] \in machine.files /\ fids[k] \in Pairs
  BY <1>1, OpenIn
<1> QED
  BY <1>2, <1>3, <1>4, <1>5, <1>6

\* The files of a sensor that walked are those of its labels.
LEMMA AsWalked ==
    ASSUME IInv, Walked, pc \in {"ready", "get", "use"}
    PROVE  /\ Len(labels) = Len(fids) /\ Len(fids) \in Nat
           /\ \A k \in 1 .. Len(fids) :
                  /\ fids[k] \in machine.files /\ labels[k] = LabelOf(fids[k])
                  /\ kind = "temperature" => fids[k][2] > 0 /\ fids[k][1] \in Coretemp
<1>1. Len(fids) \in Nat /\ Len(labels) = Len(fids)
  BY DEF IInv, TypeInv, WalkInv
<1>2. \A k \in 1 .. Len(fids) : Source(k) = fids[k]
  BY <1>1 DEF Source
<1> QED
  BY <1>1, <1>2 DEF IInv, WalkInv

-----------------------------------------------------------------------------
(* Labels *)

LEMMA KeyOrder ==
    ASSUME NEW f \in Pairs, NEW g \in Pairs, f[1] \in Coretemp, f[1] < g[1]
    PROVE  KeyOf(f) # KeyOf(g)
<1> DEFINE m == f[1]
<1> DEFINE n == g[1]
<1> DEFINE S == {h \in Coretemp : h < m}
<1> DEFINE T == {h \in Coretemp : h < n}
<1>1. m \in Nat /\ n \in Nat /\ m < n /\ m \in Coretemp /\ \A h \in Coretemp : h \in Nat
  BY PairType, BoundsAssumption
<1>2. IsFiniteSet(T) /\ KeyOf(f) = Cardinality(S) /\ KeyOf(g) = Cardinality(T)
  BY Keys DEF KeyOf
<1> HIDE DEF m, n
<1>3. S \in SUBSET T /\ m \in T /\ m \notin S
  <2>1. \A h \in Coretemp : h < m => h < n
    BY <1>1
  <2>2. ~(m < m)
    BY <1>1
  <2> QED
    BY <1>1, <2>1, <2>2
<1> HIDE DEF S, T
<1>4. Cardinality(T) = Cardinality(S) => T = S
  BY <1>2, <1>3, FS_Subset
<1> QED
  BY <1>2, <1>3, <1>4

LEMMA LabelOnce ==
    ASSUME TypeInv, Walked, NEW f \in machine.files, NEW g \in machine.files,
           Before(f, g), LabelOf(f) = LabelOf(g),
           kind = "temperature" => /\ f[2] > 0 /\ f[1] \in Coretemp
                                   /\ g[2] > 0 /\ g[1] \in Coretemp
    PROVE  FALSE
<1>1. f \in Pairs /\ g \in Pairs
  BY MachineType
<1>2. f[1] \in Nat /\ f[2] \in Nat /\ g[1] \in Nat /\ g[2] \in Nat /\ f # g
  BY <1>1, PairType DEF Before
<1>3. CASE kind = "rapl"
  <2>1. Name(f) = Name(g)
        /\ (IF f[2] = 0 THEN -1 ELSE f[1]) = (IF g[2] = 0 THEN -1 ELSE g[1])
    BY <1>3 DEF LabelOf, RaplLabel
  <2> DEFINE f1 == f[1]
  <2> DEFINE f2 == f[2]
  <2> DEFINE g1 == g[1]
  <2> DEFINE g2 == g[2]
  <2>n. /\ f1 \in Nat /\ f2 \in Nat /\ g1 \in Nat /\ g2 \in Nat
        /\ (IF f2 = 0 THEN -1 ELSE f1) = (IF g2 = 0 THEN -1 ELSE g1)
    BY <1>2, <2>1
  <2> HIDE DEF f1, f2, g1, g2
  <2>m. \/ f1 = g1 /\ f2 > 0 /\ g2 > 0
        \/ f2 = 0 /\ g2 = 0
    BY <2>n
  <2>2. \/ f[1] = g[1] /\ f[2] > 0 /\ g[2] > 0
        \/ f[2] = 0 /\ g[2] = 0
    BY <2>m DEF f1, f2, g1, g2
  <2> QED
    BY <1>2, <1>3, <2>1, <2>2, Names
<1>4. CASE kind = "temperature"
  <2>1. Name(f) = Name(g) /\ KeyOf(f) = KeyOf(g) /\ kind # "rapl"
    BY <1>4 DEF LabelOf
  <2>2. f[1] = g[1]
    BY <1>1, <1>4, <2>1, KeyOrder DEF Before
  <2> QED
    BY <1>2, <1>4, <2>1, <2>2, Names
<1> QED
  BY <1>3, <1>4 DEF Walked

LEMMA WalkLabels ==
    ASSUME IInv, Walked, NEW j \in 1 .. Len(labels), NEW k \in 1 .. Len(labels),
           labels[j] = labels[k]
    PROVE  j = k
<1>1. ASSUME NEW x \in 1 .. Len(labels), NEW y \in 1 .. Len(labels), x < y
      PROVE  labels[x] # labels[y]
  <2>1. /\ Source(x) \in machine.files /\ labels[x] = LabelOf(Source(x))
        /\ Source(y) \in machine.files /\ labels[y] = LabelOf(Source(y))
        /\ Before(Source(x), Source(y))
        /\ kind = "temperature" => /\ Source(x)[2] > 0 /\ Source(x)[1] \in Coretemp
                                   /\ Source(y)[2] > 0 /\ Source(y)[1] \in Coretemp
    BY <1>1 DEF IInv, WalkInv
  <2> QED
    BY <2>1, LabelOnce DEF IInv
<1>2. j < k \/ k < j \/ j = k
  <2>1. Len(labels) \in Nat
    BY DEF IInv, TypeInv
  <2> QED
    BY <2>1
<1> QED
  BY <1>1, <1>2

\* Labels that are numbered in every block are as different as the blocks.
LEMMA BlockLabels ==
    ASSUME NEW n \in Nat, NEW u, NEW v, Len(u) = n * NbFields,
           \A k \in 1 .. n : \A j \in 1 .. NbFields :
               u[Place(k, NbFields, j)] = <<v[k], j>>,
           \A k \in 1 .. n : \A l \in 1 .. n : v[k] = v[l] => k = l,
           NEW x \in 1 .. Len(u), NEW y \in 1 .. Len(u), u[x] = u[y]
    PROVE  x = y
<1>0. NbFields \in Nat \ {0}
  BY BoundsAssumption
<1>c. x \in 1 .. n * NbFields /\ y \in 1 .. n * NbFields
  OBVIOUS
<1>1. PICK k \in 1 .. n, j \in 1 .. NbFields : x = Place(k, NbFields, j)
  BY <1>0, <1>c, Cell
<1>2. PICK l \in 1 .. n, i \in 1 .. NbFields : y = Place(l, NbFields, i)
  BY <1>0, <1>c, Cell
<1>3. u[x] = <<v[k], j>> /\ u[y] = <<v[l], i>>
  BY <1>1, <1>2
<1>4. v[k] = v[l] /\ j = i
  <2>1. <<v[k], j>> = <<v[l], i>>
    BY <1>3
  <2> QED
    BY <2>1
<1> QED
  BY <1>1, <1>2, <1>4

LEMMA FoundLabels ==
    ASSUME IInv, ~Walked, kind \notin {"perf", "memory"},
           NEW x \in 1 .. Len(labels), NEW y \in 1 .. Len(labels), labels[x] = labels[y]
    PROVE  x = y
<1> USE DEF IInv
<1>0. NbFields \in Nat \ {0}
  BY BoundsAssumption
<1>1. labels # <<>>
  OBVIOUS
<1>2. PICK plan \in Seq(Pairs) : Planned(plan)
  BY <1>1 DEF PlanInv
<1>3. CASE kind = "disk"
  <2>1. /\ Len(labels) = Len(plan) * NbFields /\ Len(plan) \in Nat
        /\ \A k \in 1 .. Len(plan) : \A j \in 1 .. NbFields :
               labels[Place(k, NbFields, j)] = <<plan[k][1], j>>
    BY <1>2, <1>3 DEF Planned, DiskPlan
  <2>2. ASSUME NEW k \in 1 .. Len(plan), NEW l \in 1 .. Len(plan), plan[k][1] = plan[l][1]
        PROVE  k = l
    <3>1. plan[k][1] \in Nat /\ plan[l][1] \in Nat
      BY PairType
    <3>2. /\ k < l => plan[k][1] < plan[l][1]
          /\ l < k => plan[l][1] < plan[k][1]
      BY <1>2, <1>3 DEF Planned, DiskPlan
    <3> QED
      BY <2>1, <2>2, <3>1, <3>2
  <2> DEFINE v == [k \in 1 .. Len(plan) |-> plan[k][1]]
  <2>3. \A k \in 1 .. Len(plan) : v[k] = plan[k][1]
    OBVIOUS
  <2> HIDE DEF v
  <2>4. \A k \in 1 .. Len(plan) : \A j \in 1 .. NbFields :
            labels[Place(k, NbFields, j)] = <<v[k], j>>
    BY <2>1, <2>3
  <2>5. \A k \in 1 .. Len(plan) : \A l \in 1 .. Len(plan) : v[k] = v[l] => k = l
    BY <2>2, <2>3
  <2> DEFINE n == Len(plan)
  <2>6. /\ Len(labels) = n * NbFields /\ n \in Nat
        /\ \A k \in 1 .. n : \A j \in 1 .. NbFields :
               labels[Place(k, NbFields, j)] = <<v[k], j>>
        /\ \A k \in 1 .. n : \A l \in 1 .. n : v[k] = v[l] => k = l
    BY <2>1, <2>4, <2>5
  <2> HIDE DEF n
  <2> QED
    BY <2>6, BlockLabels
<1>4. CASE kind = "network"
  <2> DEFINE n == Len(machine.list)
  <2>1. /\ Len(labels) = n * NbFields /\ n \in Nat
        /\ \A k \in 1 .. n : \A j \in 1 .. NbFields :
               labels[Place(k, NbFields, j)] = <<machine.list[k], j>>
    BY <1>2, <1>4, MachineType DEF Planned, NetworkPlan
  <2>2. \A k \in 1 .. n : \A l \in 1 .. n : machine.list[k] = machine.list[l] => k = l
    BY <1>4, MachineType
  <2> QED
    BY <2>1, <2>2, BlockLabels
<1>5. CASE kind \in {"infiniband", "load"}
  <2>1. Len(labels) = NbFields /\ \A j \in 1 .. NbFields : labels[j] = <<0, j>>
    BY <1>2, <1>5 DEF Planned, PortPlan, StatPlan
  <2> QED
    BY <2>1
<1> QED
  BY <1>3, <1>4, <1>5, MachineType DEF Walked

-----------------------------------------------------------------------------
(* Rows *)

Matching == Len(row) = Len(labels) /\ \A k \in 1 .. Len(row) : row[k] \in Promised(labels[k])

LEMMA WalkMatches ==
    ASSUME IInv, pc = "use", Walked
    PROVE  Matching
<1>1. /\ Len(labels) = Len(fids) /\ Len(fids) \in Nat
      /\ \A k \in 1 .. Len(fids) :
             /\ fids[k] \in machine.files /\ labels[k] = LabelOf(fids[k])
             /\ kind = "temperature" => fids[k][2] > 0 /\ fids[k][1] \in Coretemp
  BY AsWalked
<1>2. Len(row) = Len(fids) /\ \A k \in 1 .. Len(fids) : row[k] = <<<<fids[k], 0>>>>
  BY DEF IInv, RowInv, FileRow, Walked
<1>3. ASSUME NEW k \in 1 .. Len(fids) PROVE row[k] \in Promised(labels[k])
  <2> DEFINE f == fids[k]
  <2>1. /\ f \in machine.files /\ labels[k] = LabelOf(f) /\ row[k] = <<<<f, 0>>>>
        /\ kind = "temperature" => f[2] > 0 /\ f[1] \in Coretemp
    BY <1>1, <1>2
  <2> HIDE DEF f
  <2>2. CASE kind = "rapl"
    <3>1. labels[k] = <<Name(f), IF f[2] = 0 THEN -1 ELSE f[1]>>
      BY <2>1, <2>2 DEF LabelOf, RaplLabel
    <3> QED
      BY <2>1, <2>2, <3>1 DEF Promised
  <2>3. CASE kind = "temperature"
    <3>1. labels[k] = <<Name(f), KeyOf(f)>>
      BY <2>1, <2>3 DEF LabelOf
    <3> QED
      BY <2>1, <2>3, <3>1 DEF Promised
  <2> QED
    BY <2>2, <2>3 DEF Walked
<1> QED
  BY <1>1, <1>2, <1>3 DEF Matching

\* disk and load: NbFields columns for each file.
LEMMA FieldsMatch ==
    ASSUME IInv, pc = "use", kind \in {"disk", "load"}
    PROVE  Matching
<1>0. NbFields \in Nat \ {0} /\ ~Walked
  BY BoundsAssumption DEF Walked
<1>1. PICK plan \in Seq(Pairs) :
          /\ Planned(plan) /\ Len(plan) = Len(fids) /\ Len(fids) \in Nat
          /\ \A k \in 1 .. Len(fids) :
                 fids[k] = plan[k] /\ fids[k] \in machine.files /\ fids[k] \in Pairs
  BY <1>0, AsPlanned
<1>2. /\ Len(row) = Len(fids) * NbFields
      /\ \A k \in 1 .. Len(fids) : \A j \in 1 .. NbFields :
             row[Place(k, NbFields, j)] = <<<<fids[k], j>>>>
  BY DEF IInv, RowInv, FieldRow
<1>3. /\ Len(labels) = Len(fids) * NbFields
      /\ \A k \in 1 .. Len(fids) : \A j \in 1 .. NbFields :
             labels[Place(k, NbFields, j)] = <<fids[k][1], j>> /\ fids[k][2] = 0
  <2>1. CASE kind = "disk"
    <3>1. \A f \in machine.files : f[2] = 0
      BY <2>1, MachineType DEF IInv
    <3>2. /\ Len(labels) = Len(plan) * NbFields
          /\ \A k \in 1 .. Len(plan) : \A j \in 1 .. NbFields :
                 labels[Place(k, NbFields, j)] = <<plan[k][1], j>>
      BY <1>1, <2>1 DEF Planned, DiskPlan
    <3> QED
      BY <1>1, <3>1, <3>2
  <2>2. CASE kind = "load"
    <3>1. /\ Len(plan) = 1 /\ plan[1] = Proc /\ Len(labels) = NbFields
          /\ \A j \in 1 .. NbFields : labels[j] = <<0, j>>
      BY <1>1, <2>2 DEF Planned, StatPlan
    <3>2. Len(fids) = 1 /\ fids[1] = Proc /\ Proc[1] = 0 /\ Proc[2] = 0
      BY <1>1, <3>1 DEF Proc
    <3>3. \A j \in 1 .. NbFields : Place(1, NbFields, j) = j
      BY <1>0 DEF Place
    <3> QED
      BY <1>0, <3>1, <3>2, <3>3
  <2> QED
    BY <2>1, <2>2
<1>4. ASSUME NEW x \in 1 .. Len(row) PROVE row[x] \in Promised(labels[x])
  <2>0. x \in 1 .. Len(fids) * NbFields
    BY <1>2
  <2>1. PICK k \in 1 .. Len(fids), j \in 1 .. NbFields : x = Place(k, NbFields, j)
    BY <1>0, <1>1, <2>0, Cell
  <2> DEFINE f == fids[k]
  <2>2. row[x] = <<<<f, j>>>> /\ labels[x] = <<f[1], j>> /\ f[2] = 0 /\ f \in Pairs
    BY <1>1, <1>2, <1>3, <2>1
  <2> HIDE DEF f
  <2>3. f = <<labels[x][1], 0>> /\ j = labels[x][2]
    BY <2>2, PairType
  <2> QED
    BY <2>2, <2>3 DEF Promised
<1> QED
  BY <1>2, <1>3, <1>4 DEF Matching

\* network and infiniband: a column for each file.
LEMMA FilesMatch ==
    ASSUME IInv, pc = "use", kind \in {"network", "infiniband"}
    PROVE  Matching
<1>0. ~Walked
  BY DEF Walked
<1>1. PICK plan \in Seq(Pairs) :
          /\ Planned(plan) /\ Len(plan) = Len(fids) /\ Len(fids) \in Nat
          /\ \A k \in 1 .. Len(fids) :
                 fids[k] = plan[k] /\ fids[k] \in machine.files /\ fids[k] \in Pairs
  BY <1>0, AsPlanned
<1>2. Len(row) = Len(fids) /\ \A k \in 1 .. Len(fids) : row[k] = <<<<fids[k], 0>>>>
  BY DEF IInv, RowInv, FileRow
<1>3. CASE kind = "network"
  <2>1. labels = plan
    BY <1>1, <1>3 DEF Planned, NetworkPlan
  <2>2. ASSUME NEW k \in 1 .. Len(fids) PROVE row[k] \in Promised(labels[k])
    BY <1>1, <1>2, <1>3, <2>1 DEF Promised
  <2> QED
    BY <1>1, <1>2, <2>1, <2>2 DEF Matching
<1>4. CASE kind = "infiniband"
  <2>1. PICK p \in Nat : \A j \in 1 .. NbFields : plan[j] = <<p, j>> /\ labels[j] = <<0, j>>
    BY <1>1, <1>4 DEF Planned, PortPlan
  <2>2. Len(fids) = NbFields /\ Len(labels) = NbFields
    BY <1>1, <1>4 DEF Planned, PortPlan
  <2>3. ASSUME NEW k \in 1 .. Len(fids) PROVE row[k] \in Promised(labels[k])
    <3>1. fids[k] = <<p, k>> /\ labels[k][2] = k /\ fids[k] \in machine.files
      BY <1>1, <2>1, <2>2
    <3>2. p \in {f[1] : f \in machine.files}
      BY <3>1
    <3>3. row[k] = <<<<<<p, labels[k][2]>>, 0>>>>
      BY <1>2, <3>1
    <3> QED
      BY <1>4, <3>2, <3>3 DEF Promised
  <2> QED
    BY <1>2, <2>2, <2>3 DEF Matching
<1> QED
  BY <1>3, <1>4

LEMMA EventsMatch ==
    ASSUME IInv, pc = "use", kind = "perf"
    PROVE  Matching
<1> DEFINE n == Len(indexes)
<1> DEFINE c == NbParts
<1>1. /\ c \in Nat \ {0} /\ Len(fids) = n * c /\ n \in Nat \ {0} /\ Len(labels) = n
      /\ \A e \in 1 .. n : labels[e] = <<indexes[e], 0>>
  <2>1. pc \in Reading /\ labels # <<>>
    BY DEF Reading, IInv, OpenedInv
  <2> QED
    BY <2>1, PerfOpened
<1>2. d = Len(fids) /\ PerfRow
  BY DEF IInv, RowInv
<1> HIDE DEF n, c
<1>3. n * c \in Nat /\ n * c > 0
  <2>1. 1 * c <= n * c
    BY <1>1, ProductOrder
  <2> QED
    BY <1>1, <2>1
<1>4. PICK q \in 0 .. n, r \in 0 .. c - 1 :
          /\ d = q * c + r
          /\ Len(row) = (IF r = 0 THEN q ELSE q + 1)
          /\ \A e \in 1 .. q : row[e] = Part(e, c)
  BY <1>1, <1>2, <1>3 DEF PerfRow, n, c
<1>5. q = n /\ r = 0
  <2>1. q * c + r = n * c + 0 /\ 0 \in 0 .. c - 1
    BY <1>1, <1>2, <1>3, <1>4
  <2>2. q \in Nat /\ n \in Nat /\ c \in Nat \ {0} /\ r \in 0 .. c - 1
    BY <1>1, <1>4
  <2> QED
    BY <2>1, <2>2, Unique, Zenon
<1>6. ASSUME NEW e \in 1 .. n PROVE row[e] \in Promised(labels[e])
  <2>1. row[e] = Part(e, c)
    BY <1>4, <1>5
  <2>2. labels[e][1] = indexes[e]
    BY <1>1
  <2>3. Promised(labels[e]) =
            {[x \in 1 .. NbParts |-> <<<<labels[e][1], x - 1>>, 0>>]}
    BY DEF Promised, NbParts
  <2> QED
    BY <2>1, <2>2, <2>3 DEF Part, c
<1> QED
  BY <1>1, <1>4, <1>5, <1>6 DEF Matching

LEMMA NamesMatch ==
    ASSUME IInv, pc = "use", kind = "memory"
    PROVE  Matching
<1>0. ~Walked
  BY DEF Walked
<1>1. PICK plan \in Seq(Pairs) :
          /\ Planned(plan) /\ Len(plan) = Len(fids) /\ Len(fids) \in Nat
          /\ \A k \in 1 .. Len(fids) :
                 fids[k] = plan[k] /\ fids[k] \in machine.files /\ fids[k] \in Pairs
  BY <1>0, AsPlanned
<1>2. /\ Len(plan) = 1 /\ plan[1] = Proc /\ Len(labels) = Len(indexes)
      /\ \A e \in 1 .. Len(indexes) : labels[e] = <<indexes[e], 0>>
  BY <1>1 DEF Planned, NamePlan
<1>3. fids[1] = Proc /\ Len(fids) = 1
  BY <1>1, <1>2
<1>4. /\ Len(row) = Len(indexes)
      /\ \A e \in 1 .. Len(indexes) : row[e] = <<<<Proc, indexes[e]>>>>
  <2>1. d = 1 /\ NameRow
    BY <1>3 DEF IInv, RowInv
  <2> QED
    BY <1>3, <2>1 DEF NameRow
<1>5. ASSUME NEW e \in 1 .. Len(row) PROVE row[e] \in Promised(labels[e])
  BY <1>2, <1>4 DEF Promised
<1> QED
  BY <1>2, <1>4, <1>5 DEF Matching

-----------------------------------------------------------------------------
(* What is measured *)

LEMMA AllOf ==
    ASSUME NEW S, Len(fids) \in Nat, fids \in Seq(machine.files \cup {None}),
           \A k \in 1 .. Len(fids) : fids[k] \in S,
           \A f \in S : \E k \in 1 .. Len(fids) : fids[k] = f
    PROVE  ToSet(fids) = S
<1>1. ToSet(fids) = {fids[k] : k \in 1 .. Len(fids)}
  BY DEF ToSet
<1> QED
  BY <1>1

LEMMA WalkMeasures ==
    ASSUME IInv, pc = "ready", unplugs = 0, Walked, NoGap
    PROVE  ToSet(fids) = Wanted
<1>1. /\ Len(fids) \in Nat /\ fids \in Seq(machine.files \cup {None})
      /\ \A k \in 1 .. Len(fids) :
             /\ fids[k] \in machine.files
             /\ kind = "temperature" => fids[k][2] > 0 /\ fids[k][1] \in Coretemp
  BY AsWalked DEF IInv, TypeInv
<1>2. \A f \in machine.files : Measured(f) => \E k \in 1 .. Len(fids) : fids[k] = f
  <2>1. \A f \in machine.files : f[1] < at[1]
    BY DEF IInv, CoverInv, Reading
  <2>2. \A f \in machine.files : Before(f, at)
    BY <2>1 DEF Before
  <2> QED
    BY <2>2 DEF IInv, CoverInv, Reading
<1>3. CASE kind = "rapl"
  <2>1. Wanted = machine.files /\ \A f \in machine.files : Measured(f)
    BY <1>3 DEF Wanted, Measured
  <2> QED
    BY <1>1, <1>2, <2>1, AllOf
<1>4. CASE kind = "temperature"
  <2>1. Wanted = {f \in machine.files : f[1] \in Coretemp /\ f[2] > 0}
    BY <1>4 DEF Wanted
  <2>2. \A f \in Wanted : \E k \in 1 .. Len(fids) : fids[k] = f
    BY <1>2, <2>1 DEF Measured
  <2>3. \A k \in 1 .. Len(fids) : fids[k] \in Wanted
    BY <1>1, <1>4, <2>1
  <2> QED
    BY <1>1, <2>2, <2>3, AllOf
<1> QED
  BY <1>3, <1>4 DEF Walked

LEMMA DevicesMeasured ==
    ASSUME IInv, pc = "ready", unplugs = 0, kind \in {"disk", "infiniband", "network"}
    PROVE  ToSet(fids) = Wanted
<1>0. NbFields \in Nat \ {0} /\ ~Walked
  BY BoundsAssumption DEF Walked
<1>1. PICK plan \in Seq(Pairs) :
          /\ Planned(plan) /\ Len(plan) = Len(fids) /\ Len(fids) \in Nat
          /\ \A k \in 1 .. Len(fids) :
                 fids[k] = plan[k] /\ fids[k] \in machine.files /\ fids[k] \in Pairs
  BY <1>0, AsPlanned
<1>2. fids \in Seq(machine.files \cup {None}) /\ machine.files \subseteq Pairs
  BY MachineType DEF IInv, TypeInv
<1>3. CASE kind = "disk"
  <2>1. Wanted = machine.files
    BY <1>3 DEF Wanted
  <2>2. \A f \in machine.files : \E k \in 1 .. Len(plan) : plan[k] = f
    BY <1>1, <1>3 DEF Planned, DiskPlan
  <2>3. \A f \in machine.files : \E k \in 1 .. Len(fids) : fids[k] = f
    BY <1>1, <2>2
  <2> QED
    BY <1>1, <1>2, <2>1, <2>3, AllOf
<1>4. CASE kind = "infiniband"
  <2>1. PICK p \in Nat : \A j \in 1 .. NbFields : plan[j] = <<p, j>>
    BY <1>1, <1>4 DEF Planned, PortPlan
  <2>2. Len(fids) = NbFields
    BY <1>1, <1>4 DEF Planned, PortPlan
  <2>3. \A k \in 1 .. NbFields : fids[k] = <<p, k>> /\ fids[k][1] = p
    BY <1>1, <2>1, <2>2
  <2>4. fids[1][1] = p
    BY <1>0, <2>3
  <2>5. Wanted = {f \in machine.files : f[1] = p}
    BY <1>4, <2>4 DEF Wanted
  <2>6. ASSUME NEW f \in Wanted PROVE \E k \in 1 .. Len(fids) : fids[k] = f
    <3>1. f[2] \in 1 .. NbFields /\ f[1] = p /\ f = <<f[1], f[2]>>
      BY <1>2, <1>4, <2>5, MachineType, PairType DEF IInv
    <3> QED
      BY <2>2, <2>3, <3>1
  <2>7. \A k \in 1 .. Len(fids) : fids[k] \in Wanted
    BY <1>1, <2>2, <2>3, <2>5
  <2> QED
    BY <1>1, <1>2, <2>6, <2>7, AllOf
<1>5. CASE kind = "network"
  <2> DEFINE list == machine.list
  <2>1. /\ Len(fids) = Len(list) * NbFields /\ Len(list) \in Nat
        /\ \A k \in 1 .. Len(list) : \A j \in 1 .. NbFields :
               plan[Place(k, NbFields, j)] = <<list[k], j>>
    BY <1>1, <1>5, MachineType DEF Planned, NetworkPlan, IInv
  <2>2. \A k \in 1 .. Len(list) : \A j \in 1 .. NbFields :
            Place(k, NbFields, j) \in 1 .. Len(fids)
    BY <1>0, <2>1, CellRange
  <2>3. Wanted = {f \in machine.files : \E k \in 1 .. Len(list) : f[1] = list[k]}
    <3>1. ToSet(machine.list) = {list[k] : k \in 1 .. Len(list)}
      BY <2>1, MachineType DEF ToSet, IInv
    <3> QED
      BY <1>5, <3>1 DEF Wanted
  <2>4. ASSUME NEW f \in Wanted PROVE \E k \in 1 .. Len(fids) : fids[k] = f
    <3>1. PICK k \in 1 .. Len(list) : f[1] = list[k]
      BY <2>3
    <3>2. f[2] \in 1 .. NbFields /\ f = <<f[1], f[2]>>
      BY <1>2, <1>5, <2>3, MachineType, PairType DEF IInv
    <3>3. plan[Place(k, NbFields, f[2])] = f /\ Place(k, NbFields, f[2]) \in 1 .. Len(fids)
      BY <2>1, <2>2, <3>1, <3>2
    <3> QED
      BY <1>1, <3>3
  <2>5. ASSUME NEW x \in 1 .. Len(fids) PROVE fids[x] \in Wanted
    <3>0. x \in 1 .. Len(list) * NbFields
      BY <2>1
    <3>1. PICK k \in 1 .. Len(list), j \in 1 .. NbFields : x = Place(k, NbFields, j)
      BY <1>0, <2>1, <3>0, Cell
    <3>2. fids[x] = <<list[k], j>> /\ fids[x] \in machine.files
      BY <1>1, <2>1, <3>1
    <3> QED
      BY <2>3, <3>2
  <2> QED
    BY <1>1, <1>2, <2>4, <2>5, AllOf
<1> QED
  BY <1>3, <1>4, <1>5

LEMMA ProcMeasured ==
    ASSUME IInv, pc = "ready", kind \in {"load", "memory"}
    PROVE  ToSet(fids) = Wanted
<1>0. ~Walked
  BY DEF Walked
<1>1. PICK plan \in Seq(Pairs) :
          /\ Planned(plan) /\ Len(plan) = Len(fids) /\ Len(fids) \in Nat
          /\ \A k \in 1 .. Len(fids) :
                 fids[k] = plan[k] /\ fids[k] \in machine.files /\ fids[k] \in Pairs
  BY <1>0, AsPlanned
<1>2. Len(fids) = 1 /\ fids[1] = Proc
  BY <1>1 DEF Planned, StatPlan
<1>3. Wanted = {Proc}
  BY MachineType DEF Wanted, IInv
<1>4. fids \in Seq(machine.files \cup {None})
  BY DEF IInv, TypeInv
<1>5. 1 \in 1 .. Len(fids)
  BY <1>2
<1>6. \A k \in 1 .. Len(fids) : fids[k] \in {Proc}
  BY <1>2
<1>7. \A f \in {Proc} : \E k \in 1 .. Len(fids) : fids[k] = f
  BY <1>2, <1>5
<1> QED
  BY <1>1, <1>3, <1>4, <1>6, <1>7, AllOf

LEMMA EventsMeasured ==
    ASSUME IInv, pc = "ready", unplugs = 0, kind = "perf"
    PROVE  ToSet(fids) = Wanted
<1> DEFINE n == Len(indexes)
<1> DEFINE c == NbParts
<1> DEFINE Cores == {f[2] : f \in machine.files}
<1>0. pc \in Reading /\ labels # <<>> /\ ~Walked
  BY DEF Reading, IInv, OpenedInv, Walked
<1>1. /\ c \in Nat \ {0} /\ Len(fids) = n * c /\ n \in Nat \ {0}
      /\ \A e \in 1 .. n : \A x \in 1 .. c : fids[Place(e, c, x)] = <<indexes[e], x - 1>>
      /\ c = Cardinality(Cores)
  BY <1>0, PerfOpened
<1>2. /\ Len(fids) \in Nat /\ fids \in Seq(machine.files \cup {None})
      /\ \A k \in 1 .. Len(fids) : fids[k] \in machine.files
      /\ machine.files \subseteq Pairs /\ IsFiniteSet(machine.files)
  BY <1>0, AsPlanned, MachineType DEF IInv, TypeInv
<1>3. indexes \in Seq(1 .. NbCounters)
  BY DEF IInv, TypeInv
<1> HIDE DEF c
<1>4. \A e \in 1 .. n : \A x \in 1 .. c : Place(e, c, x) \in 1 .. Len(fids)
  BY <1>1, CellRange
<1>5. Cores = 0 .. c - 1
  <2>1. IsFiniteSet(Cores)
    <3> DEFINE second == [f \in machine.files |-> f[2]]
    <3>1. second \in Surjection(machine.files, Cores)
      BY DEF Surjection
    <3> QED
      BY <1>2, <3>1, FS_Surjection
  <2>2. ASSUME NEW y \in 0 .. c - 1 PROVE y \in Cores
    <3>1. 1 \in 1 .. n /\ y + 1 \in 1 .. c /\ (y + 1) - 1 = y
      BY <1>1
    <3>2. fids[Place(1, c, y + 1)] = <<indexes[1], y>>
      BY <1>1, <3>1
    <3>3. <<indexes[1], y>> \in machine.files
      BY <1>2, <1>4, <3>1, <3>2
    <3> QED
      BY <3>3
  <2>3. Cardinality(0 .. c - 1) = c
    <3>1. c - 1 \in Int /\ 0 \in Int /\ ~(0 > c - 1) /\ (c - 1) - 0 + 1 = c
      BY <1>1
    <3> QED
      BY <3>1, FS_Interval
  <2> HIDE DEF Cores
  <2>4. 0 .. c - 1 \in SUBSET Cores
    BY <2>2
  <2> QED
    BY <1>1, <2>1, <2>3, <2>4, FS_Subset
<1>6. Wanted = {f \in machine.files : \E e \in 1 .. n : f[1] = indexes[e]}
  <2>1. ToSet(indexes) = {indexes[e] : e \in 1 .. n}
    BY <1>3 DEF ToSet
  <2> QED
    BY <2>1 DEF Wanted
<1>7. ASSUME NEW f \in Wanted PROVE \E k \in 1 .. Len(fids) : fids[k] = f
  <2>1. PICK e \in 1 .. n : f[1] = indexes[e]
    BY <1>6
  <2>2. f \in machine.files /\ f[2] \in 0 .. c - 1
    BY <1>5, <1>6
  <2> DEFINE x == f[2] + 1
  <2>3. x \in 1 .. c /\ x - 1 = f[2] /\ f = <<f[1], f[2]>>
    BY <1>1, <1>2, <2>2, PairType
  <2> HIDE DEF x
  <2>4. fids[Place(e, c, x)] = f /\ Place(e, c, x) \in 1 .. Len(fids)
    BY <1>1, <1>4, <2>1, <2>3
  <2> QED
    BY <2>4
<1>8. ASSUME NEW k \in 1 .. Len(fids) PROVE fids[k] \in Wanted
  <2>0. k \in 1 .. n * c
    BY <1>1
  <2>1. PICK e \in 1 .. n, x \in 1 .. c : k = Place(e, c, x)
    BY <1>1, <2>0, Cell
  <2>2. fids[k] = <<indexes[e], x - 1>> /\ fids[k] \in machine.files
    BY <1>1, <1>2, <2>1
  <2> QED
    BY <1>6, <2>2
<1> QED
  BY <1>2, <1>7, <1>8, AllOf

-----------------------------------------------------------------------------
(* The theorems *)

\* However long the list of names is, one index at most is written behind the
\* array of memory_list(), and no sensor starts with more names than setters.
THEOREM ListsFit == Spec => []ListFits
<1>1. IInv => ListFits
  BY DEF IInv, ListInv, ListFits
<1> QED
  BY <1>1, Inductive, PTL

\* Columns that a sensor has found by itself have different labels, also when
\* packages and hwmon hold the same names.
THEOREM LabelsToldApart == Spec => []LabelsDistinct
<1>1. IInv => LabelsDistinct
  BY WalkLabels, FoundLabels DEF LabelsDistinct
<1> QED
  BY <1>1, Inductive, PTL

\* A row that is used has one value under each label, read from the files that
\* the label names, whichever devices have gone before or between the reads.
THEOREM ValuesMatchLabels == Spec => []ColumnsMatch
<1>1. IInv => ColumnsMatch
  <2> SUFFICES ASSUME IInv, pc = "use" PROVE Matching
    BY DEF ColumnsMatch, Matching
  <2>1. CASE Walked
    BY <2>1, WalkMatches
  <2>2. CASE kind \in {"disk", "load"}
    BY <2>2, FieldsMatch
  <2>3. CASE kind \in {"network", "infiniband"}
    BY <2>3, FilesMatch
  <2>4. CASE kind = "perf"
    BY <2>4, EventsMatch
  <2>5. CASE kind = "memory"
    BY <2>5, NamesMatch
  <2> QED
    BY <2>1, <2>2, <2>3, <2>4, <2>5, MachineType DEF IInv, Walked
<1> QED
  BY <1>1, Inductive, PTL

\* While no device goes away, a sensor that starts has opened the files of all
\* that it is to measure, for any numbering of zones, disks, ports and cores.
THEOREM EverythingMeasured == Spec => []AllMeasured
<1>1. IInv => AllMeasured
  <2> SUFFICES ASSUME IInv, pc = "ready", unplugs = 0, Walked => NoGap
               PROVE  ToSet(fids) = Wanted
    BY DEF AllMeasured, Walked
  <2>1. CASE Walked
    BY <2>1, WalkMeasures
  <2>2. CASE kind \in {"disk", "infiniband", "network"}
    BY <2>2, DevicesMeasured
  <2>3. CASE kind \in {"load", "memory"}
    BY <2>3, ProcMeasured
  <2>4. CASE kind = "perf"
    BY <2>4, EventsMeasured
  <2> QED
    BY <2>1, <2>2, <2>3, <2>4, MachineType DEF IInv, Walked
<1> QED
  BY <1>1, Inductive, PTL

\* A sensor that was cleaned has closed every file it has opened, and one that
\* is dropped has none open, but for the memory counters without a name.
THEOREM EveryFileClosed == Spec => []NothingLeftOpen
<1>1. IInv => NothingLeftOpen
  BY DEF IInv, OpenedInv, NothingLeftOpen
<1> QED
  BY <1>1, Inductive, PTL

-----------------------------------------------------------------------------
(* The devices of a network sensor, as NetRoute detects them *)

Words == Letters \cup {"Iface"}
Cells == Letters \cup {"Iface", "x", TAB, NL, NUL}

\* The name in line k of the file, the first of which is the header.
RowName(k) == IF k = 1 THEN <<"Iface">> ELSE table[k - 1]
NbLines == Len(table) + 1

\* What \o makes of two sequences of known lengths.
LEMMA ConcatRight ==
    ASSUME NEW S, NEW n \in Nat, NEW m \in Nat, NEW u \in Seq(S), NEW v \in Seq(S),
           Len(u) = n, Len(v) = m, NEW j \in 1 .. m
    PROVE  (u \o v)[n + j] = v[j]
BY ConcatProperties

LEMMA ConcatType ==
    ASSUME NEW S, NEW n \in Nat, NEW m \in Nat, NEW u \in Seq(S), NEW v \in Seq(S),
           Len(u) = n, Len(v) = m
    PROVE  u \o v \in Seq(S) /\ Len(u \o v) = n + m
BY ConcatProperties

LEMMA ConcatLeft ==
    ASSUME NEW S, NEW n \in Nat, NEW m \in Nat, NEW u \in Seq(S), NEW v \in Seq(S),
           Len(u) = n, Len(v) = m, NEW j \in 1 .. n
    PROVE  (u \o v)[j] = u[j]
BY ConcatProperties

LEMMA WordCells ==
    /\ Words \subseteq Cells /\ Words \cap {TAB, NL, NUL} = {}
    /\ NUL # TAB /\ NUL # NL /\ TAB # NL
    /\ \A c \in {"x", TAB, NL, NUL} : c \in Cells
    /\ \A c \in {TAB, NL, NUL} : c # "x"
BY TablesAssumption DEF Words, Cells, TAB, NL, NUL

\* The cells of a line.
LEMMA LineCells ==
    ASSUME NEW name \in Seq(Cells), Len(name) + 4 <= LineLength
    PROVE  /\ Line(name) \in Seq(Cells) /\ Len(Line(name)) = LineLength
           /\ \A j \in 1 .. LineLength :
                  Line(name)[j] =
                      IF j <= Len(name) THEN name[j]
                      ELSE IF j = Len(name) + 1 \/ j = Len(name) + 3 THEN TAB
                      ELSE IF j = LineLength THEN NL ELSE "x"
<1> DEFINE n == Len(name)
<1> DEFINE m == LineLength - n - 4
<1> DEFINE mid == <<TAB, "x", TAB>>
<1> DEFINE pad == [i \in 1 .. m |-> "x"]
<1> DEFINE end == <<NL>>
<1> DEFINE three == 3
<1> DEFINE one == 1
<1>1. /\ n \in Nat /\ LineLength \in Nat /\ m \in Nat /\ LineLength = n + 3 + m + 1
      /\ Len(name) = n /\ TAB \in Cells /\ NL \in Cells /\ "x" \in Cells
  BY WordCells, SizesAssumption
<1>2. mid[1] = TAB /\ mid[2] = "x" /\ mid[3] = TAB
  OBVIOUS
<1>m. mid \in Seq(Cells) /\ Len(mid) = three /\ three \in Nat
  BY <1>1
<1>3. pad \in Seq(Cells) /\ Len(pad) = m /\ \A i \in 1 .. m : pad[i] = "x"
  BY <1>1
<1>4. end[1] = NL
  OBVIOUS
<1>e. end \in Seq(Cells) /\ Len(end) = one /\ one \in Nat
  BY <1>1
<1>5. Line(name) = ((name \o mid) \o pad) \o end
  BY DEF Line
<1> DEFINE p == n + three
<1> DEFINE q == p + m
<1>q. p \in Nat /\ q \in Nat /\ q + one = LineLength
  BY <1>1
<1>p. p = n + 3 /\ q = n + 3 + m
  OBVIOUS
<1>o. three = 3 /\ one = 1
  OBVIOUS
<1> HIDE DEF n, m, mid, pad, end, three, one
<1> DEFINE a == name \o mid
<1> DEFINE b == a \o pad
<1> DEFINE c == b \o end
<1>6. /\ a \in Seq(Cells) /\ Len(a) = p
      /\ \A j \in 1 .. n : a[j] = name[j]
      /\ \A j \in 1 .. three : a[n + j] = mid[j]
  <2>1. a = name \o mid
    OBVIOUS
  <2> HIDE DEF a
  <2>2. /\ n \in Nat /\ three \in Nat /\ name \in Seq(Cells) /\ mid \in Seq(Cells)
        /\ Len(name) = n /\ Len(mid) = three
    BY <1>1, <1>m
  <2>3. a \in Seq(Cells) /\ Len(a) = n + three
    BY <2>1, <2>2, ConcatType
  <2>4. \A j \in 1 .. n : a[j] = name[j]
    BY <2>1, <2>2, ConcatLeft
  <2>5. ASSUME NEW j \in 1 .. three PROVE a[n + j] = mid[j]
    <3>1. (name \o mid)[n + j] = mid[j]
      BY <2>2, ConcatRight
    <3> QED
      BY <2>1, <3>1
  <2> QED
    BY <2>3, <2>4, <2>5 DEF p
<1> HIDE DEF a, p
<1>7. /\ b \in Seq(Cells) /\ Len(b) = q
      /\ \A j \in 1 .. p : b[j] = a[j]
      /\ \A j \in 1 .. m : b[p + j] = pad[j]
  <2>1. b = a \o pad
    OBVIOUS
  <2> HIDE DEF b
  <2>2. /\ p \in Nat /\ m \in Nat /\ a \in Seq(Cells) /\ pad \in Seq(Cells)
        /\ Len(a) = p /\ Len(pad) = m
    BY <1>1, <1>q, <1>3, <1>6
  <2>3. b \in Seq(Cells) /\ Len(b) = p + m
    BY <2>1, <2>2, ConcatType
  <2>4. \A j \in 1 .. p : b[j] = a[j]
    BY <2>1, <2>2, ConcatLeft
  <2>5. ASSUME NEW j \in 1 .. m PROVE b[p + j] = pad[j]
    <3>1. (a \o pad)[p + j] = pad[j]
      BY <2>2, ConcatRight
    <3> QED
      BY <2>1, <3>1
  <2> QED
    BY <2>3, <2>4, <2>5 DEF q
<1> HIDE DEF b, q
<1>8. /\ c \in Seq(Cells) /\ Len(c) = q + one
      /\ \A j \in 1 .. q : c[j] = b[j]
      /\ \A j \in 1 .. one : c[q + j] = end[j]
  <2>1. c = b \o end
    OBVIOUS
  <2> HIDE DEF c
  <2>2. /\ q \in Nat /\ one \in Nat /\ b \in Seq(Cells) /\ end \in Seq(Cells)
        /\ Len(b) = q /\ Len(end) = one
    BY <1>1, <1>q, <1>e, <1>7
  <2>3. c \in Seq(Cells) /\ Len(c) = q + one
    BY <2>1, <2>2, ConcatType
  <2>4. \A j \in 1 .. q : c[j] = b[j]
    BY <2>1, <2>2, ConcatLeft
  <2>5. ASSUME NEW j \in 1 .. one PROVE c[q + j] = end[j]
    <3>1. (b \o end)[q + j] = end[j]
      BY <2>2, ConcatRight
    <3> QED
      BY <2>1, <3>1
  <2> QED
    BY <2>3, <2>4, <2>5
<1>9. Line(name) = c
  BY <1>5 DEF a, b
<1> HIDE DEF c
<1>10. ASSUME NEW j \in 1 .. LineLength
       PROVE  c[j] = IF j <= n THEN name[j]
                     ELSE IF j = n + 1 \/ j = n + 3 THEN TAB
                     ELSE IF j = LineLength THEN NL ELSE "x"
  <2>1. CASE j <= n
    <3>1. j \in 1 .. n /\ j \in 1 .. p /\ j \in 1 .. q
      BY <1>1, <1>p, <2>1
    <3>2. c[j] = b[j] /\ b[j] = a[j] /\ a[j] = name[j]
      BY <1>6, <1>7, <1>8, <3>1
    <3> QED
      BY <2>1, <3>2
  <2>2. CASE j > n /\ j <= n + 3
    <3>1. /\ j - n \in 1 .. three /\ n + (j - n) = j /\ j \in 1 .. p /\ j \in 1 .. q
      BY <1>1, <1>p, <1>o, <2>2
    <3>2. c[j] = b[j] /\ b[j] = a[j] /\ a[j] = mid[j - n]
      BY <1>6, <1>7, <1>8, <3>1
    <3>3. j = n + 1 \/ j = n + 2 \/ j = n + 3
      BY <1>1, <2>2
    <3>4. j # LineLength /\ (j = n + 2 => j # n + 1 /\ j # n + 3) /\ ~(j <= n)
      BY <1>1, <2>2
    <3>5. (j = n + 1 => j - n = 1) /\ (j = n + 2 => j - n = 2) /\ (j = n + 3 => j - n = 3)
      BY <1>1
    <3> QED
      BY <1>2, <3>2, <3>3, <3>4, <3>5
  <2>3. CASE j > n + 3 /\ j <= n + 3 + m
    <3>1. j - p \in 1 .. m /\ p + (j - p) = j /\ j \in 1 .. q
      BY <1>1, <1>p, <2>3
    <3>2. c[j] = b[j] /\ b[j] = pad[j - p] /\ pad[j - p] = "x"
      BY <1>3, <1>7, <1>8, <3>1
    <3>3. j # LineLength /\ ~(j <= n) /\ j # n + 1 /\ j # n + 3
      BY <1>1, <2>3
    <3> QED
      BY <3>2, <3>3
  <2>4. CASE j > n + 3 + m
    <3>1. j = LineLength /\ j = q + 1 /\ 1 \in 1 .. one /\ ~(j <= n) /\ j # n + 1 /\ j # n + 3
      BY <1>1, <1>p, <1>o, <2>4
    <3>2. c[j] = NL
      BY <1>4, <1>8, <3>1
    <3> QED
      BY <3>1, <3>2
  <2> QED
    BY <1>1, <2>1, <2>2, <2>3, <2>4
<1> QED
  BY <1>8, <1>9, <1>10, <1>q DEF n

LEMMA RowNames ==
    ASSUME table \in Tables
    PROVE  /\ table \in Seq(Interfaces) /\ Len(table) \in Nat /\ NbLines \in Nat \ {0}
           /\ LineLength \in Nat \ {0}
           /\ \A k \in 1 .. NbLines :
                  /\ RowName(k) \in Seq(Cells) /\ Len(RowName(k)) \in Nat
                  /\ Len(RowName(k)) + 4 <= LineLength
                  /\ \A j \in 1 .. Len(RowName(k)) :
                         RowName(k)[j] \notin {TAB, NL, NUL}
<1>1. /\ table \in Seq(Interfaces) /\ Len(table) \in Nat /\ NbLines \in Nat \ {0}
      /\ LineLength \in Nat \ {0} /\ LineLength >= 5
      /\ \A r \in 1 .. Len(table) : Len(table[r]) + 4 <= LineLength
      /\ Interfaces \subseteq Seq(Letters)
  BY SizesAssumption, TablesAssumption DEF NbLines
<1>2. ASSUME NEW k \in 1 .. NbLines
      PROVE  RowName(k) \in Seq(Words) /\ Len(RowName(k)) + 4 <= LineLength
  <2>1. CASE k = 1
    <3>1. "Iface" \in Words
      BY DEF Words
    <3>2. RowName(k) = <<"Iface">>
      BY <2>1 DEF RowName
    <3>3. <<"Iface">> \in Seq(Words) /\ Len(<<"Iface">>) = 1
      BY <3>1
    <3> QED
      BY <1>1, <3>2, <3>3
  <2>2. CASE k # 1
    <3>1. k - 1 \in 1 .. Len(table) /\ RowName(k) = table[k - 1]
      BY <1>1, <2>2 DEF NbLines, RowName
    <3>2. table[k - 1] \in Interfaces /\ Len(table[k - 1]) + 4 <= LineLength
      BY <1>1, <3>1
    <3>3. Letters \subseteq Words /\ table[k - 1] \in Seq(Letters)
      BY <1>1, <3>2 DEF Words
    <3> DEFINE t == table[k - 1]
    <3> HIDE DEF t
    <3>4. t \in Seq(Letters)
      BY <3>3 DEF t
    <3>5. t \in Seq(Words)
      BY <3>3, <3>4
    <3> QED
      BY <3>1, <3>2, <3>5 DEF t
  <2> QED
    BY <2>1, <2>2
<1>3. ASSUME NEW k \in 1 .. NbLines
      PROVE  /\ RowName(k) \in Seq(Cells) /\ Len(RowName(k)) \in Nat
             /\ \A j \in 1 .. Len(RowName(k)) :
                    RowName(k)[j] \notin {TAB, NL, NUL}
  <2> DEFINE w == RowName(k)
  <2>1. w \in Seq(Words)
    BY <1>2
  <2> HIDE DEF w
  <2>2. w \in Seq(Cells) /\ Len(w) \in Nat /\ \A j \in 1 .. Len(w) : w[j] \in Words
    BY <2>1, WordCells
  <2> QED
    BY <2>2, WordCells DEF w
<1> QED
  BY <1>1, <1>2, <1>3

\* Lines of one length: cell j of line k is at Place(k, LineLength, j).
LEMMA FileCells ==
    ASSUME table \in Tables
    PROVE  /\ File \in Seq(Cells) /\ Len(File) = NbLines * LineLength
           /\ \A k \in 1 .. NbLines : \A j \in 1 .. LineLength :
                  File[Place(k, LineLength, j)] = Line(RowName(k))[j]
<1> DEFINE lines == [k \in 1 .. NbLines |-> Line(RowName(k))]
<1> DEFINE rest == [r \in 1 .. Len(table) |-> Line(table[r])]
<1> DEFINE head == <<Line(<<"Iface">>)>>
<1>1. /\ NbLines \in Nat /\ LineLength \in Nat \ {0} /\ Len(table) \in Nat
      /\ NbLines = Len(table) + 1
  BY RowNames DEF NbLines
<1>2. \A k \in 1 .. NbLines :
          Line(RowName(k)) \in Seq(Cells) /\ Len(Line(RowName(k))) = LineLength
  BY RowNames, LineCells
<1>3. lines \in [1 .. NbLines -> Seq(Cells)] /\ \A k \in 1 .. NbLines : Len(lines[k]) = LineLength
  BY <1>2
<1>4. head \o rest = lines
  <2> DEFINE L(k) == Line(RowName(k))
  <2> DEFINE S == {L(k) : k \in 1 .. NbLines}
  <2> DEFINE m == Len(table)
  <2>1. head = <<L(1)>>
    BY DEF RowName
  <2>2. rest = [r \in 1 .. m |-> L(r + 1)]
    <3>1. \A r \in 1 .. m : RowName(r + 1) = table[r]
      BY <1>1 DEF RowName
    <3> QED
      BY <3>1
  <2>3. lines = [k \in 1 .. m + 1 |-> L(k)]
    BY <1>1
  <2>4. m \in Nat
    BY <1>1
  <2>5. \A k \in 1 .. m + 1 : L(k) \in S
    BY <1>1
  <2> HIDE DEF L, S, head, rest, lines, m
  <2>6. L(1) \in S /\ \A r \in 1 .. m : L(r + 1) \in S
    BY <2>4, <2>5
  <2>7. head \in Seq(S) /\ Len(head) = 1 /\ head[1] = L(1)
    BY <2>1, <2>6
  <2>8. rest \in Seq(S) /\ Len(rest) = m /\ \A r \in 1 .. m : rest[r] = L(r + 1)
    BY <2>2, <2>4, <2>6
  <2> DEFINE c == head \o rest
  <2> DEFINE one == 1
  <2>9. /\ c \in Seq(S) /\ Len(c) = one + m
        /\ \A k \in 1 .. one : c[k] = head[k]
        /\ \A k \in 1 .. m : c[one + k] = rest[k]
    <3>1. c = head \o rest /\ one \in Nat /\ Len(head) = one
      BY <2>7
    <3> HIDE DEF c, one
    <3>2. c \in Seq(S) /\ Len(c) = one + m
      BY <2>4, <2>7, <2>8, <3>1, ConcatType
    <3>3. \A k \in 1 .. one : c[k] = head[k]
      BY <2>4, <2>7, <2>8, <3>1, ConcatLeft
    <3>4. ASSUME NEW k \in 1 .. m PROVE c[one + k] = rest[k]
      <4>1. (head \o rest)[one + k] = rest[k]
        BY <2>4, <2>7, <2>8, <3>1, ConcatRight
      <4> QED
        BY <3>1, <4>1
    <3> QED
      BY <3>2, <3>3, <3>4
  <2> HIDE DEF c
  <2>10. \A k \in 1 .. m + 1 : c[k] = L(k)
    <3> SUFFICES ASSUME NEW k \in 1 .. m + 1 PROVE c[k] = L(k)
      OBVIOUS
    <3>1. CASE k = 1
      BY <2>4, <2>7, <2>9, <3>1
    <3>2. CASE k # 1
      <4>1. k - 1 \in 1 .. m /\ (k - 1) + 1 = k /\ 1 + (k - 1) = k
        BY <2>4, <3>2
      <4>2. c[1 + (k - 1)] = rest[k - 1] /\ rest[k - 1] = L((k - 1) + 1)
        BY <2>8, <2>9, <4>1
      <4> QED
        BY <4>1, <4>2
    <3> QED
      BY <3>1, <3>2
  <2>11. lines \in Seq(S) /\ Len(lines) = m + 1 /\ \A k \in 1 .. m + 1 : lines[k] = L(k)
    BY <2>3, <2>4, <2>5
  <2>12. /\ c \in Seq(S) /\ Len(c) = m + 1 /\ \A k \in 1 .. m + 1 : c[k] = L(k)
    BY <2>4, <2>9, <2>10
  <2>13. c = lines
    BY <2>4, <2>11, <2>12
  <2> QED
    BY <2>13 DEF c
<1>5. File = FlattenSeq(lines)
  <2>1. File = FlattenSeq(head \o rest)
    BY DEF File
  <2> QED
    BY <1>4, <2>1
<1>6. \A k \in 1 .. NbLines : lines[k] = Line(RowName(k))
  OBVIOUS
<1> HIDE DEF lines
<1> DEFINE n == NbLines
<1> DEFINE f == FlattenSeq(lines)
<1>7. n \in Nat /\ LineLength \in Nat \ {0} /\ lines \in [1 .. n -> Seq(Cells)]
      /\ \A k \in 1 .. n : Len(lines[k]) = LineLength
  BY <1>1, <1>3
<1> HIDE DEF n
<1>8. /\ f \in Seq(Cells) /\ Len(f) = n * LineLength
      /\ \A k \in 1 .. n : \A j \in 1 .. LineLength :
             f[Place(k, LineLength, j)] = lines[k][j]
  BY <1>7, FlattenUniform
<1> HIDE DEF f
<1> QED
  BY <1>5, <1>6, <1>8 DEF n, f

\* Where strchr_refill() is called next.
Searching == {"header", "firstName", "line", "name"}
Steps == Searching \cup {"open", "ready", "failed", "crash"}
DevsDistinct == \A a, b \in 1 .. Len(devs) : devs[a] = devs[b] => a = b

\* A string in the buffer: it ends in its last cell at the latest.
Held(text) ==
    text \in Seq(Cells) /\ Len(text) = Block + 1 /\ text[Block + 1] = NUL

\* The cursors stay in the buffer, and outside of the last cell where a
\* character is looked for; the devices are different.
RouteInv ==
    /\ table \in Tables
    /\ step \in Steps
    /\ offset \in 0 .. Len(File)
    /\ Held(buf)
    /\ start \in 0 .. Block + 1 /\ s \in 0 .. Block + 1
    /\ step \in Searching => start # 0 /\ s # 0
    /\ step \in {"header", "firstName"} => devs = <<>>
    /\ devs \in Seq(Seq(Cells)) /\ Len(devs) <= MaxDev /\ DevsDistinct
    /\ opened \in 0 .. Len(devs)

LEMMA Sizes ==
    /\ Block \in Nat /\ Block >= 1 /\ Block + 1 \in Nat
    /\ MaxDev \in Nat /\ MaxDev >= 1
BY SizesAssumption

LEMMA FileType ==
    ASSUME table \in Tables
    PROVE  File \in Seq(Cells) /\ Len(File) \in Nat
           /\ \A p \in 1 .. Len(File) : File[p] \in Cells
<1>1. File \in Seq(Cells)
  BY FileCells
<1> DEFINE f == File
<1> HIDE DEF f
<1>2. f \in Seq(Cells)
  BY <1>1 DEF f
<1>3. Len(f) \in Nat /\ \A p \in 1 .. Len(f) : f[p] \in Cells
  BY <1>2
<1> QED
  BY <1>2, <1>3 DEF f

LEMMA MinIn ==
    ASSUME NEW T, T \subseteq Nat, T # {}
    PROVE  Min(T) \in T /\ \A x \in T : Min(T) <= x
BY Least, Zenon DEF Min

\* A character found is before the end of the string.
LEMMA StrchrFinds ==
    ASSUME NEW text, Held(text), NEW from \in 1 .. Block + 1, NEW c
    PROVE  /\ Strchr(text, from, c) \in 0 .. Block
           /\ Strchr(text, from, c) # 0 =>
                  /\ Strchr(text, from, c) >= from
                  /\ text[Strchr(text, from, c)] = c
<1> DEFINE hits == {p \in from .. Len(text) :
                       /\ text[p] = c
                       /\ \A q \in from .. p : text[q] # NUL}
<1>1. Len(text) = Block + 1 /\ text[Block + 1] = NUL
  BY DEF Held
<1>2. hits \subseteq Nat /\ \A p \in hits : p \in from .. Block /\ text[p] = c
  BY <1>1, Sizes
<1>3. Strchr(text, from, c) = IF hits = {} THEN 0 ELSE Min(hits)
  BY DEF Strchr
<1> HIDE DEF hits
<1>4. CASE hits = {}
  BY <1>3, <1>4, Sizes
<1>5. CASE hits # {}
  <2> DEFINE m == Min(hits)
  <2>1. m \in hits
    BY <1>2, <1>5, MinIn
  <2>2. Strchr(text, from, c) = m
    BY <1>3, <1>5
  <2> HIDE DEF m
  <2>3. m \in from .. Block /\ text[m] = c
    BY <1>2, <2>1
  <2> QED
    BY <2>2, <2>3, Sizes
<1> QED
  BY <1>4, <1>5

LEMMA RefilledHeld ==
    ASSUME table \in Tables, offset \in Nat, Held(buf)
    PROVE  Held(Refilled)
<1> DEFINE n == Block + 1
<1> DEFINE f == File
<1> DEFINE cell(p) == IF p = n THEN NUL
                      ELSE IF offset + p <= Len(f) THEN f[offset + p] ELSE buf[p]
<1>0. n \in Nat /\ n >= 1 /\ buf \in Seq(Cells) /\ Len(buf) = n
  BY Sizes DEF Held
<1>1. Refilled = [p \in 1 .. n |-> cell(p)]
  BY Zenon DEF Refilled
<1>2. ASSUME NEW p \in 1 .. n PROVE cell(p) \in Cells
  <2>1. NUL \in Cells /\ buf[p] \in Cells
    BY <1>0, WordCells
  <2>2. offset + p <= Len(f) => f[offset + p] \in Cells
    BY FileType
  <2> QED
    BY <2>1, <2>2
<1>3. cell(n) = NUL
  OBVIOUS
<1> DEFINE r == [p \in 1 .. n |-> cell(p)]
<1>n. n = Block + 1
  OBVIOUS
<1> HIDE DEF n, f, cell
<1>4. r \in Seq(Cells) /\ Len(r) = n /\ r[n] = NUL
  BY <1>0, <1>2, <1>3
<1> QED
  BY <1>1, <1>4, <1>n DEF Held

\* What a call of strchr_refill() leaves.
LEMMA RefillType ==
    ASSUME RouteInv, step \in Searching, NEW c
    PROVE  /\ StrchrRefill(c).ret \in {0, 1}
           /\ Held(StrchrRefill(c).buf)
           /\ StrchrRefill(c).off \in 0 .. Len(File)
           /\ StrchrRefill(c).s \in 0 .. Block
<1> DEFINE found == Strchr(buf, s, c)
<1> DEFINE again == Strchr(Refilled, 1, c)
<1> DEFINE far == Min({offset + Block, Len(File)})
<1>1. /\ table \in Tables /\ offset \in 0 .. Len(File) /\ Held(buf)
      /\ s \in 1 .. Block + 1 /\ Len(File) \in Nat /\ offset \in Nat
  BY FileType DEF RouteInv
<1>2. found \in 0 .. Block
  BY <1>1, StrchrFinds
<1>3. Held(Refilled)
  BY <1>1, RefilledHeld
<1>4. again \in 0 .. Block
  <2>1. 1 \in 1 .. Block + 1
    BY Sizes
  <2> QED
    BY <1>3, <2>1, StrchrFinds
<1>5. far \in 0 .. Len(File)
  <2> DEFINE T == {offset + Block, Len(File)}
  <2>1. T \subseteq Nat /\ T # {} /\ Len(File) \in T
    BY <1>1, Sizes
  <2> HIDE DEF T
  <2>2. Min(T) \in Nat /\ Min(T) <= Len(File)
    BY <2>1, MinIn
  <2> QED
    BY <1>1, <2>2 DEF T
<1>6. StrchrRefill(c) =
          IF found # 0
          THEN [ret |-> 1, buf |-> buf, off |-> offset, s |-> found]
          ELSE IF offset >= Len(File)
          THEN [ret |-> 0, buf |-> buf, off |-> offset, s |-> 0]
          ELSE [ret |-> 1, buf |-> Refilled, off |-> far, s |-> again]
  BY Zenon DEF StrchrRefill
<1> HIDE DEF found, again, far
<1> QED
  BY <1>1, <1>2, <1>3, <1>4, <1>5, <1>6, Sizes

\* The text of a name is a sequence of cells wherever the cursors are.
LEMMA TextType ==
    ASSUME NEW text, Held(text), start \in 1 .. Block + 1,
           NEW end \in 0 .. Block
    PROVE  Text(text, end) \in Seq(Cells)
<1>1. text \in Seq(Cells) /\ Len(text) = Block + 1 /\ text[Block + 1] = NUL
  BY DEF Held
<1>2. ASSUME NEW n \in 0 .. Block + 1 PROVE SubSeq(text, start, n) \in Seq(Cells)
  <2>1. \A i \in start .. n : text[i] \in Cells
    BY <1>1, Sizes
  <2>2. start \in Int /\ n \in Int
    BY Sizes
  <2> QED
    BY <2>1, <2>2, SubSeqProperties
<1>3. CASE end >= start
  <2>1. end - 1 \in 0 .. Block + 1
    BY <1>3, Sizes
  <2> QED
    BY <1>2, <1>3, <2>1 DEF Text
<1>4. CASE ~(end >= start)
  <2> DEFINE T == {p \in start .. Len(text) : text[p] = NUL}
  <2>1. T \subseteq 1 .. Block + 1 /\ T \subseteq Nat /\ Block + 1 \in T
    BY <1>1, Sizes
  <2>2. Text(text, end) = SubSeq(text, start, Min(T) - 1)
    BY <1>4, Zenon DEF Text
  <2> HIDE DEF T
  <2>3. Min(T) \in T
    BY <2>1, MinIn
  <2> DEFINE m == Min(T)
  <2>4. m - 1 \in 0 .. Block + 1
    <3>1. m \in 1 .. Block + 1
      BY <2>1, <2>3
    <3> HIDE DEF m
    <3> QED
      BY <3>1, Sizes
  <2> QED
    BY <1>2, <2>2, <2>4
<1> QED
  BY <1>3, <1>4

LEMMA RouteFirst == ASSUME RouteInit PROVE RouteInv
<1>1. /\ table \in Tables /\ step = "header" /\ offset = 0 /\ start = 1 /\ s = 1
      /\ devs = <<>> /\ opened = 0 /\ buf = [p \in 1 .. Block + 1 |-> NUL]
  BY DEF RouteInit
<1>2. Held(buf)
  BY <1>1, Sizes, WordCells DEF Held
<1>3. 0 \in 0 .. Len(File)
  BY <1>1, FileType
<1>4. /\ devs \in Seq(Seq(Cells)) /\ Len(devs) = 0 /\ DevsDistinct
  BY <1>1 DEF DevsDistinct
<1> QED
  BY <1>1, <1>2, <1>3, <1>4, Sizes DEF RouteInv, Steps, Searching

LEMMA SameFile ==
    ASSUME table' = table
    PROVE  File' = File
BY DEF File

\* What a step of init_network() leaves of the buffer and of its cursors.
LEMMA ReadStep ==
    ASSUME RouteInv, step \in Searching, table' = table,
           NEW c, NEW found \in Steps, NEW end \in Steps \ Searching,
           Step(c, found, end)
    PROVE  /\ Held(buf') /\ offset' \in 0 .. Len(File') /\ s' \in 0 .. Block + 1
           /\ step' \in {found, end, "crash"}
           /\ step' \in Searching => s' # 0 /\ step' = found
           /\ step' = found /\ found \in Searching =>
                  /\ StrchrRefill(c).ret = 1 /\ StrchrRefill(c).s # 0
                  /\ s' = IF c = NL THEN StrchrRefill(c).s + 1
                          ELSE StrchrRefill(c).s
<1> DEFINE r == StrchrRefill(c)
<1>1. /\ r.ret \in {0, 1} /\ Held(r.buf) /\ r.off \in 0 .. Len(File)
      /\ r.s \in 0 .. Block
  BY RefillType
<1>2. /\ buf' = r.buf /\ offset' = r.off
      /\ s' = IF r.ret = 1 /\ r.s # 0 /\ c = NL THEN r.s + 1 ELSE r.s
      /\ step' = IF r.ret = 0 THEN end ELSE IF r.s = 0 THEN "crash" ELSE found
  BY DEF Step
<1> HIDE DEF r
<1>3. "crash" \notin Searching /\ end \notin Searching
  BY DEF Searching
<1> QED
  BY <1>1, <1>2, <1>3, SameFile, Sizes DEF r

LEMMA SkipHeaderType ==
    ASSUME RouteInv, SkipHeader PROVE RouteInv'
<1>1. /\ step = "header" /\ Step(NL, "firstName", "failed") /\ start' = s'
      /\ table' = table /\ devs' = devs /\ opened' = opened
  BY DEF SkipHeader
<1>2. /\ step \in Searching /\ "firstName" \in Steps /\ "failed" \in Steps \ Searching
  BY <1>1 DEF Steps, Searching
<1>3. /\ Held(buf') /\ offset' \in 0 .. Len(File') /\ s' \in 0 .. Block + 1
      /\ step' \in {"firstName", "failed", "crash"}
      /\ step' \in Searching => s' # 0
  BY <1>1, <1>2, ReadStep
<1> QED
  BY <1>1, <1>3 DEF RouteInv, DevsDistinct, Steps, Searching

LEMMA NextLineType ==
    ASSUME RouteInv, NextLine PROVE RouteInv'
<1>1. /\ step = "line" /\ Step(NL, "name", "open") /\ start' = s'
      /\ table' = table /\ devs' = devs /\ opened' = opened
  BY DEF NextLine
<1>2. /\ step \in Searching /\ "name" \in Steps /\ "open" \in Steps \ Searching
  BY <1>1 DEF Steps, Searching
<1>3. /\ Held(buf') /\ offset' \in 0 .. Len(File') /\ s' \in 0 .. Block + 1
      /\ step' \in {"name", "open", "crash"}
      /\ step' \in Searching => s' # 0
  BY <1>1, <1>2, ReadStep
<1> QED
  BY <1>1, <1>3 DEF RouteInv, DevsDistinct, Steps, Searching

LEMMA FirstNameType ==
    ASSUME RouteInv, FirstName PROVE RouteInv'
<1>1. /\ step = "firstName" /\ Step(TAB, "line", "failed")
      /\ devs' = IF step' = "line" THEN <<Text(buf', s')>> ELSE devs
      /\ table' = table /\ start' = start /\ opened' = opened
  BY DEF FirstName
<1>2. /\ step \in Searching /\ "line" \in Steps /\ "failed" \in Steps \ Searching
      /\ "line" \in Searching
  BY <1>1 DEF Steps, Searching
<1>3. /\ Held(buf') /\ offset' \in 0 .. Len(File') /\ s' \in 0 .. Block + 1
      /\ step' \in {"line", "failed", "crash"}
      /\ step' \in Searching => s' # 0
      /\ step' = "line" => s' = StrchrRefill(TAB).s
  BY <1>1, <1>2, ReadStep, WordCells
<1>4. devs = <<>> /\ opened = 0 /\ start \in 1 .. Block + 1
  BY <1>1, <1>2 DEF RouteInv
<1>5. CASE step' = "line"
  <2>1. s' \in 0 .. Block
    BY <1>2, <1>3, <1>5, RefillType
  <2> DEFINE name == Text(buf', s')
  <2>2. name \in Seq(Cells)
    BY <1>3, <1>4, <2>1, TextType
  <2>3. devs' = <<name>>
    BY <1>1, <1>5
  <2> HIDE DEF name
  <2>4. devs' \in Seq(Seq(Cells)) /\ Len(devs') = 1 /\ DevsDistinct'
    BY <2>2, <2>3 DEF DevsDistinct
  <2> QED
    BY <1>1, <1>3, <1>4, <1>5, <2>4, Sizes DEF RouteInv, Steps, Searching
<1>6. CASE step' # "line"
  BY <1>1, <1>3, <1>6 DEF RouteInv, DevsDistinct, Steps, Searching
<1> QED
  BY <1>5, <1>6

\* A device that is compared with itself is known.
LEMMA NewName ==
    ASSUME NEW text \in Seq(Cells), NEW whole, ~Known(text, whole),
           NEW n \in 1 .. Len(devs)
    PROVE  text # devs[n]
<1>1. ~(IF whole THEN text = devs[n] ELSE IsPrefix(text, devs[n]))
  BY DEF Known
<1>2. IsPrefix(text, text)
  BY DEF IsPrefix
<1> QED
  BY <1>1, <1>2

LEMMA NextNameType ==
    ASSUME RouteInv, NextName PROVE RouteInv'
<1> DEFINE r == StrchrRefill(TAB)
<1> DEFINE text == Text(r.buf, r.s)
<1> DEFINE new == r.ret = 1 /\ r.s # 0 /\ ~Known(text, r.s < start)
<1> DEFINE room == Len(devs) < MaxDev
<1>1. /\ step = "name" /\ table' = table /\ start' = start /\ opened' = opened
      /\ devs' = IF new /\ room THEN Append(devs, text) ELSE devs
      /\ buf' = r.buf /\ offset' = r.off /\ s' = r.s
      /\ step' = IF r.ret = 0 \/ (new /\ ~room) THEN "open"
                 ELSE IF r.s = 0 THEN "crash" ELSE "line"
  BY DEF NextName
<1>2. step \in Searching
  BY <1>1 DEF Searching
<1>3. /\ r.ret \in {0, 1} /\ Held(r.buf) /\ r.off \in 0 .. Len(File)
      /\ r.s \in 0 .. Block
  BY <1>2, RefillType
<1>4. /\ start \in 1 .. Block + 1 /\ devs \in Seq(Seq(Cells)) /\ Len(devs) <= MaxDev
      /\ DevsDistinct /\ opened \in 0 .. Len(devs) /\ table \in Tables
  BY <1>2 DEF RouteInv
<1>5. text \in Seq(Cells)
  BY <1>3, <1>4, TextType
<1>6. new => \A n \in 1 .. Len(devs) : text # devs[n]
  BY <1>5, NewName
<1>f. File' = File
  BY <1>1, SameFile
<1> HIDE DEF text, r
<1>7. /\ devs' \in Seq(Seq(Cells)) /\ Len(devs') <= MaxDev /\ DevsDistinct'
      /\ Len(devs') >= Len(devs)
  <2>1. CASE new /\ room
    <3>1. devs' = Append(devs, text)
      BY <1>1, <2>1
    <3>2. /\ devs' \in Seq(Seq(Cells)) /\ Len(devs') = Len(devs) + 1
          /\ \A i \in 1 .. Len(devs) : devs'[i] = devs[i]
          /\ devs'[Len(devs) + 1] = text
      BY <1>4, <1>5, <3>1, AppendProperties
    <3>3. Len(devs) \in Nat /\ \A n \in 1 .. Len(devs) : text # devs[n]
      BY <1>4, <1>6, <2>1
    <3>4. ASSUME NEW a \in 1 .. Len(devs'), NEW b \in 1 .. Len(devs'), devs'[a] = devs'[b]
          PROVE  a = b
      <4>1. (a \in 1 .. Len(devs) \/ a = Len(devs) + 1) /\ (b \in 1 .. Len(devs) \/ b = Len(devs) + 1)
        BY <3>2, <3>3
      <4>2. CASE a \in 1 .. Len(devs) /\ b \in 1 .. Len(devs)
        BY <1>4, <3>2, <3>4, <4>2 DEF DevsDistinct
      <4>3. CASE a \in 1 .. Len(devs) /\ b = Len(devs) + 1
        BY <3>2, <3>3, <3>4, <4>3
      <4>4. CASE a = Len(devs) + 1 /\ b \in 1 .. Len(devs)
        BY <3>2, <3>3, <3>4, <4>4
      <4> QED
        BY <4>1, <4>2, <4>3, <4>4
    <3>5. DevsDistinct'
      BY <3>4, Zenon DEF DevsDistinct
    <3> QED
      BY <2>1, <3>2, <3>3, <3>5, Sizes DEF room
  <2>2. CASE ~(new /\ room)
    <3>1. devs' = devs
      BY <1>1, <2>2
    <3> QED
      BY <1>4, <3>1 DEF DevsDistinct
  <2> QED
    BY <2>1, <2>2
<1> HIDE DEF new, room
<1>8. /\ step' \in {"open", "crash", "line"} /\ (step' = "line" => s' # 0)
  BY <1>1
<1>9. s' \in 0 .. Block + 1 /\ Held(buf') /\ offset' \in 0 .. Len(File')
      /\ table' \in Tables /\ start' \in 1 .. Block + 1 /\ opened' \in 0 .. Len(devs')
  BY <1>1, <1>3, <1>4, <1>7, <1>f, Sizes
<1> QED
  BY <1>7, <1>8, <1>9 DEF RouteInv, Steps, Searching

LEMMA OpenDevType ==
    ASSUME RouteInv, OpenDev PROVE RouteInv'
<1>1. /\ step = "open" /\ table' = table /\ offset' = offset /\ buf' = buf
      /\ start' = start /\ s' = s /\ devs' = devs
      /\ \/ step' = "ready" /\ opened' = opened
         \/ opened # Len(devs) /\ opened' = opened + 1 /\ step' = step
         \/ step' = "failed" /\ opened' = opened
  BY DEF OpenDev
<1>2. opened \in 0 .. Len(devs) /\ Len(devs) \in Nat
  BY DEF RouteInv
<1>3. opened' \in 0 .. Len(devs')
  BY <1>1, <1>2
<1>4. File' = File
  BY <1>1, SameFile
<1>5. step' \in {"ready", "open", "failed"}
  BY <1>1
<1> QED
  BY <1>1, <1>3, <1>4, <1>5 DEF RouteInv, DevsDistinct, Steps, Searching

LEMMA RouteStill ==
    ASSUME RouteInv, UNCHANGED routeVars PROVE RouteInv'
<1>1. /\ step' = step /\ table' = table /\ offset' = offset /\ buf' = buf
      /\ start' = start /\ s' = s /\ devs' = devs /\ opened' = opened
  BY DEF routeVars
<1>2. File' = File
  BY <1>1, SameFile
<1> QED
  BY <1>1, <1>2 DEF RouteInv, DevsDistinct

LEMMA RouteKept == ASSUME RouteInv, [RouteNext]_routeVars PROVE RouteInv'
<1>1. CASE SkipHeader
  BY <1>1, SkipHeaderType
<1>2. CASE FirstName
  BY <1>2, FirstNameType
<1>3. CASE NextLine
  BY <1>3, NextLineType
<1>4. CASE NextName
  BY <1>4, NextNameType
<1>5. CASE OpenDev
  BY <1>5, OpenDevType
<1>6. CASE UNCHANGED routeVars
  BY <1>6, RouteStill
<1> QED
  BY <1>1, <1>2, <1>3, <1>4, <1>5, <1>6, Zenon DEF RouteNext, RouteEnd

LEMMA RouteInductive == RouteSpec => []RouteInv
<1>1. RouteInit => RouteInv
  BY RouteFirst
<1>2. RouteInv /\ [RouteNext]_routeVars => RouteInv'
  BY RouteKept
<1> QED
  BY <1>1, <1>2, PTL DEF RouteSpec

\* The cursors of init_network() stay in its buffer, that always ends in a 0,
\* and the files are opened for the devices listed.
THEOREM RouteTypes == RouteSpec => []TypeOK
<1>1. RouteInv => TypeOK
  <2> SUFFICES ASSUME RouteInv PROVE TypeOK
    OBVIOUS
  <2>1. Len(buf) = Block + 1 /\ buf[Block + 1] = NUL
    BY DEF RouteInv, Held
  <2> QED
    BY <2>1 DEF TypeOK, RouteInv, Steps, Searching
<1> QED
  BY <1>1, RouteInductive, PTL

\* With -d X no device is listed twice and none is listed beyond NB_MAX_DEV,
\* wherever the blocks of the table are cut: what MachinesAssumption takes
\* for granted of the names of a network sensor.
THEOREM DetectedOnce == RouteSpec => []DevicesDistinct
<1>1. RouteInv => DevicesDistinct
  BY DEF RouteInv, DevsDistinct, DevicesDistinct
<1> QED
  BY <1>1, RouteInductive, PTL

-----------------------------------------------------------------------------
(* A table that fits in one block *)

\* The buffer holds the whole file.
Loaded(text) ==
    \A p \in 1 .. Block + 1 :
        text[p] = IF p <= Len(File) THEN File[p] ELSE NUL

Listed == {devs[a] : a \in 1 .. Len(devs)}
\* The devices are those of the lines up to k.
Seen(k) == Listed = {table[q] : q \in 1 .. k - 1}
TabOf(k) == Place(k, LineLength, Len(RowName(k)) + 1)

\* The cursors are where a reader of the table would be.
FoundInv ==
    OneBlock /\ NoHidden /\ table # <<>> =>
        /\ step = "header" =>
               /\ offset = 0 /\ s = 1
               /\ \A p \in 1 .. Block + 1 : buf[p] = NUL
        /\ step # "header" => offset = Len(File) /\ Loaded(buf)
        /\ step = "firstName" => s = Place(2, LineLength, 1) /\ start = s
        /\ step = "line" => \E k \in 2 .. NbLines : s = TabOf(k) /\ Seen(k)
        /\ step = "name" =>
               \E k \in 2 .. NbLines :
                   s = Place(k + 1, LineLength, 1) /\ start = s /\ Seen(k)
        /\ step \in {"open", "ready"} =>
               /\ Listed \subseteq InUse
               /\ Listed = InUse \/ Len(devs) = MaxDev
        /\ step \notin {"failed", "crash"}

LEMMA LineText ==
    ASSUME table \in Tables, NEW k \in 1 .. NbLines
    PROVE  /\ Len(RowName(k)) \in Nat /\ Len(RowName(k)) + 4 <= LineLength
           /\ \A j \in 1 .. Len(RowName(k)) :
                  /\ File[Place(k, LineLength, j)] = RowName(k)[j]
                  /\ File[Place(k, LineLength, j)] # TAB
           /\ File[TabOf(k)] = TAB
           /\ File[Place(k, LineLength, LineLength)] = NL
           /\ \A j \in 1 .. LineLength : File[Place(k, LineLength, j)] # NUL
           /\ \A j \in 1 .. LineLength - 1 : File[Place(k, LineLength, j)] # NL
<1> DEFINE w == RowName(k)
<1> DEFINE n == Len(w)
<1> DEFINE l == Line(w)
<1>1. /\ LineLength \in Nat \ {0} /\ w \in Seq(Cells) /\ n \in Nat /\ n + 4 <= LineLength
      /\ \A j \in 1 .. n : w[j] \notin {TAB, NL, NUL}
  BY RowNames
<1>2. \A j \in 1 .. LineLength : File[Place(k, LineLength, j)] = l[j]
  BY FileCells
<1>3. \A j \in 1 .. LineLength :
          l[j] = IF j <= n THEN w[j]
                 ELSE IF j = n + 1 \/ j = n + 3 THEN TAB
                 ELSE IF j = LineLength THEN NL ELSE "x"
  BY <1>1, LineCells
<1>4. TabOf(k) = Place(k, LineLength, n + 1)
  BY DEF TabOf
<1> HIDE DEF l, n, w
<1>5. ASSUME NEW j \in 1 .. n PROVE l[j] = w[j] /\ l[j] # TAB /\ l[j] # NL /\ l[j] # NUL
  BY <1>1, <1>3
<1>6. l[n + 1] = TAB /\ l[LineLength] = NL
  BY <1>1, <1>3
<1>7. ASSUME NEW j \in 1 .. LineLength PROVE l[j] # NUL
  BY <1>1, <1>3, WordCells
<1>8. ASSUME NEW j \in 1 .. LineLength - 1 PROVE l[j] # NL
  BY <1>1, <1>3, WordCells
<1>9. /\ \A j \in 1 .. n : j \in 1 .. LineLength
      /\ \A j \in 1 .. LineLength - 1 : j \in 1 .. LineLength
      /\ n + 1 \in 1 .. LineLength /\ LineLength \in 1 .. LineLength
  BY <1>1
<1>10. \A j \in 1 .. n : /\ File[Place(k, LineLength, j)] = w[j]
                         /\ File[Place(k, LineLength, j)] # TAB
  BY <1>2, <1>5, <1>9
<1>11. /\ File[Place(k, LineLength, n + 1)] = TAB
       /\ File[Place(k, LineLength, LineLength)] = NL
  BY <1>2, <1>6, <1>9
<1>12. \A j \in 1 .. LineLength : File[Place(k, LineLength, j)] # NUL
  BY <1>2, <1>7
<1>13. \A j \in 1 .. LineLength - 1 : File[Place(k, LineLength, j)] # NL
  BY <1>2, <1>8, <1>9
<1> QED
  BY <1>1, <1>4, <1>10, <1>11, <1>12, <1>13 DEF n, w

\* strchr() finds the first of its characters.
LEMMA Hit ==
    ASSUME NEW text, Held(text), NEW c, NEW from \in 1 .. Block + 1,
           NEW p \in from .. Block + 1, text[p] = c,
           \A q \in from .. p : text[q] # NUL,
           \A q \in from .. p - 1 : text[q] # c
    PROVE  Strchr(text, from, c) = p
<1> DEFINE hits == {x \in from .. Len(text) :
                       /\ text[x] = c
                       /\ \A q \in from .. x : text[q] # NUL}
<1>1. Len(text) = Block + 1
  BY DEF Held
<1>2. p \in hits /\ hits \subseteq Nat /\ \A x \in hits : x \in from .. Block + 1 /\ text[x] = c
  BY <1>1, Sizes
<1>3. Strchr(text, from, c) = IF hits = {} THEN 0 ELSE Min(hits)
  BY DEF Strchr
<1> HIDE DEF hits
<1> DEFINE m == Min(hits)
<1>4. m \in hits /\ m <= p
  BY <1>2, MinIn
<1>5. Strchr(text, from, c) = m
  BY <1>2, <1>3
<1> HIDE DEF m
<1>6. m \in from .. Block + 1 /\ text[m] = c
  BY <1>2, <1>4
<1>7. ~(m \in from .. p - 1)
  BY <1>6
<1>8. m = p
  BY <1>4, <1>6, <1>7, Sizes
<1> QED
  BY <1>5, <1>8

LEMMA Miss ==
    ASSUME NEW text, Held(text), NEW c, NEW from \in 1 .. Block + 1,
           text[from] = NUL
    PROVE  Strchr(text, from, c) = 0
<1> DEFINE hits == {x \in from .. Len(text) :
                       /\ text[x] = c
                       /\ \A q \in from .. x : text[q] # NUL}
<1>1. Len(text) = Block + 1
  BY DEF Held
<1>2. ASSUME NEW x \in from .. Block + 1 PROVE from \in from .. x
  BY Sizes
<1>3. hits = {}
  BY <1>1, <1>2
<1>4. Strchr(text, from, c) = IF hits = {} THEN 0 ELSE Min(hits)
  BY DEF Strchr
<1> QED
  BY <1>3, <1>4

\* Where the cells of a line are.
LEMMA LinePlaces ==
    ASSUME table \in Tables, NEW k \in 1 .. NbLines,
           NEW i \in 1 .. LineLength, NEW j \in i .. LineLength
    PROVE  /\ Place(k, LineLength, i) \in Nat /\ Place(k, LineLength, j) \in Nat
           /\ Place(k, LineLength, i) \in 1 .. Place(k, LineLength, j)
           /\ Place(k, LineLength, j) \in 1 .. Len(File)
           /\ Place(k, LineLength, j) - Place(k, LineLength, i) = j - i
           /\ \A q \in Place(k, LineLength, i) .. Place(k, LineLength, j) :
                  \E x \in i .. j : q = Place(k, LineLength, x)
<1>1. LineLength \in Nat \ {0} /\ NbLines \in Nat \ {0}
      /\ Len(File) = NbLines * LineLength
  BY RowNames, FileCells
<1>2. j \in 1 .. LineLength /\ k \in Nat
  BY <1>1
<1>3. Place(k, LineLength, j) \in 1 .. Len(File)
  BY <1>1, <1>2, CellRange
<1> DEFINE m == (k - 1) * LineLength
<1>4. m \in Nat
  BY <1>1, <1>2, Product
<1>5. \A x : Place(k, LineLength, x) = m + x
  BY DEF Place
<1>7. i \in Nat /\ j \in Nat /\ i >= 1 /\ i <= j
  BY <1>1
<1> HIDE DEF m
<1>6. ASSUME NEW q \in m + i .. m + j PROVE \E x \in i .. j : q = m + x
  <2>1. q - m \in i .. j /\ q = m + (q - m)
    BY <1>4, <1>7
  <2> QED
    BY <2>1
<1>8. /\ m + i \in Nat /\ m + j \in Nat /\ m + i \in 1 .. m + j /\ (m + j) - (m + i) = j - i
  BY <1>4, <1>7
<1> QED
  BY <1>3, <1>5, <1>6, <1>8

LEMMA FindEnd ==
    ASSUME table \in Tables, OneBlock, NEW text, Held(text), Loaded(text),
           NEW k \in 1 .. NbLines, NEW i \in 1 .. LineLength
    PROVE  Strchr(text, Place(k, LineLength, i), NL)
               = Place(k, LineLength, LineLength)
<1> DEFINE from == Place(k, LineLength, i)
<1> DEFINE p == Place(k, LineLength, LineLength)
<1>1. LineLength \in Nat \ {0} /\ LineLength \in i .. LineLength
  BY RowNames
<1>2. /\ from \in Nat /\ p \in Nat /\ from \in 1 .. p /\ p \in 1 .. Len(File)
      /\ \A q \in from .. p : \E x \in i .. LineLength : q = Place(k, LineLength, x)
  BY <1>1, LinePlaces
<1>3. Len(File) \in Nat /\ Len(File) <= Block /\ Block \in Nat
  BY FileType, Sizes DEF OneBlock
<1>4. ASSUME NEW q \in from .. p PROVE text[q] = File[q]
  BY <1>2, <1>3, <1>4 DEF Loaded
<1>5. text[p] = NL
  <2>1. p \in from .. p
    BY <1>2
  <2> QED
    BY <1>4, <2>1, LineText
<1>6. ASSUME NEW q \in from .. p PROVE text[q] # NUL
  <2>1. PICK x \in i .. LineLength : q = Place(k, LineLength, x)
    BY <1>2
  <2>2. x \in 1 .. LineLength
    BY <1>1
  <2> QED
    BY <1>4, <2>1, <2>2, LineText
<1>7. ASSUME NEW q \in from .. p - 1 PROVE text[q] # NL
  <2>0. q \in from .. p /\ q # p
    BY <1>2
  <2>1. PICK x \in i .. LineLength : q = Place(k, LineLength, x)
    BY <1>2, <2>0
  <2>2. x \in 1 .. LineLength - 1
    BY <1>1, <2>0, <2>1
  <2> QED
    BY <1>4, <2>0, <2>1, <2>2, LineText
<1>8. from \in 1 .. Block + 1 /\ p \in from .. Block + 1
  BY <1>2, <1>3
<1> HIDE DEF from, p
<1>9. Strchr(text, from, NL) = p
  BY <1>5, <1>6, <1>7, <1>8, Hit
<1> QED
  BY <1>9 DEF from, p

LEMMA FindTab ==
    ASSUME table \in Tables, OneBlock, NEW text, Held(text), Loaded(text),
           NEW k \in 1 .. NbLines
    PROVE  Strchr(text, Place(k, LineLength, 1), TAB) = TabOf(k)
<1> DEFINE from == Place(k, LineLength, 1)
<1> DEFINE n == Len(RowName(k))
<1> DEFINE p == Place(k, LineLength, n + 1)
<1>1. /\ LineLength \in Nat \ {0} /\ n \in Nat /\ 1 \in 1 .. LineLength
      /\ n + 1 \in 1 .. LineLength
  BY RowNames
<1>2. /\ from \in Nat /\ p \in Nat /\ from \in 1 .. p /\ p \in 1 .. Len(File)
      /\ \A q \in from .. p : \E x \in 1 .. n + 1 : q = Place(k, LineLength, x)
  BY <1>1, LinePlaces
<1>3. Len(File) \in Nat /\ Len(File) <= Block /\ Block \in Nat
  BY FileType, Sizes DEF OneBlock
<1>4. ASSUME NEW q \in from .. p PROVE text[q] = File[q]
  BY <1>2, <1>3, <1>4 DEF Loaded
<1>t. TabOf(k) = p
  BY DEF TabOf
<1>5. text[p] = TAB
  <2>1. p \in from .. p
    BY <1>2
  <2> QED
    BY <1>4, <1>t, <2>1, LineText
<1>6. ASSUME NEW q \in from .. p PROVE text[q] # NUL
  <2>1. PICK x \in 1 .. n + 1 : q = Place(k, LineLength, x)
    BY <1>2
  <2>2. x \in 1 .. LineLength
    BY <1>1
  <2> QED
    BY <1>4, <2>1, <2>2, LineText
<1>7. ASSUME NEW q \in from .. p - 1 PROVE text[q] # TAB
  <2>0. q \in from .. p /\ q # p
    BY <1>2
  <2>1. PICK x \in 1 .. n + 1 : q = Place(k, LineLength, x)
    BY <1>2, <2>0
  <2>2. x \in 1 .. n
    BY <1>1, <2>0, <2>1
  <2> QED
    BY <1>4, <2>0, <2>1, <2>2, LineText
<1>8. from \in 1 .. Block + 1 /\ p \in from .. Block + 1
  BY <1>2, <1>3
<1> HIDE DEF from, p
<1>9. Strchr(text, from, TAB) = p
  BY <1>5, <1>6, <1>7, <1>8, Hit
<1> QED
  BY <1>9, <1>t DEF from

\* The text before the tab is the name of the line.
LEMMA RowText ==
    ASSUME table \in Tables, OneBlock, NEW text, Held(text), Loaded(text),
           NEW k \in 1 .. NbLines, start = Place(k, LineLength, 1)
    PROVE  Text(text, TabOf(k)) = RowName(k) /\ ~(TabOf(k) < start)
           /\ TabOf(k) \in Nat \ {0}
<1> DEFINE w == RowName(k)
<1> DEFINE n == Len(w)
<1> DEFINE t == TabOf(k)
<1>1. /\ LineLength \in Nat \ {0} /\ n \in Nat /\ 1 \in 1 .. LineLength
      /\ n + 1 \in 1 .. LineLength /\ w \in Seq(Cells)
  BY RowNames
<1>2. /\ start \in Nat /\ t \in Nat /\ start \in 1 .. t /\ t \in 1 .. Len(File)
      /\ t - start = n
  BY <1>1, LinePlaces DEF TabOf
<1>3. Len(File) \in Nat /\ Len(File) <= Block /\ Block \in Nat
  BY FileType, Sizes DEF OneBlock
<1>4. ASSUME NEW i \in 1 .. n PROVE text[start + i - 1] = w[i]
  <2>0. k - 1 \in Nat /\ (k - 1) * LineLength \in Nat
    BY <1>1, RowNames, Product
  <2>1. start + i - 1 = Place(k, LineLength, i)
    BY <1>1, <2>0 DEF Place
  <2>2. start + i - 1 \in 1 .. Block + 1 /\ start + i - 1 <= Len(File)
    BY <1>1, <1>2, <1>3
  <2>3. text[start + i - 1] = File[start + i - 1]
    BY <2>2 DEF Loaded
  <2> QED
    BY <2>1, <2>3, LineText
<1>5. Text(text, t) = SubSeq(text, start, t - 1)
  BY <1>2 DEF Text
<1>s. n = Len(w) /\ w = RowName(k) /\ t = TabOf(k)
  OBVIOUS
<1> HIDE DEF n, t, w
<1> DEFINE u == SubSeq(text, start, t - 1)
<1>6. \A i \in start .. t - 1 : text[i] \in Cells
  BY <1>2, <1>3 DEF Held
<1>7. start \in Int /\ t - 1 \in Int
  BY <1>2
<1>8. /\ u \in Seq(Cells)
      /\ Len(u) = IF start <= t - 1 THEN t - 1 - start + 1 ELSE 0
      /\ \A i \in 1 .. t - 1 - start + 1 : u[i] = text[start + i - 1]
  BY <1>6, <1>7, SubSeqProperties
<1> HIDE DEF u
<1>9. t - 1 - start + 1 = n /\ (~(start <= t - 1) => n = 0)
  BY <1>1, <1>2
<1>10. Len(u) = n /\ \A i \in 1 .. n : u[i] = w[i]
  BY <1>4, <1>8, <1>9
<1>11. u = w
  BY <1>1, <1>8, <1>10, <1>s, SeqEqual
<1>12. ~(t < start) /\ t \in Nat \ {0}
  BY <1>2
<1> QED
  BY <1>5, <1>11, <1>12, <1>s DEF u

LEMMA Places ==
    ASSUME table \in Tables
    PROVE  /\ LineLength \in Nat \ {0} /\ NbLines \in Nat \ {0} /\ NbLines = Len(table) + 1
           /\ Len(table) \in Nat /\ Len(File) \in Nat
           /\ Len(File) = NbLines * LineLength
           /\ Len(File) >= LineLength
           /\ \A k \in 1 .. NbLines :
                  Place(k, LineLength, LineLength) + 1 = Place(k + 1, LineLength, 1)
           /\ Place(NbLines + 1, LineLength, 1) = Len(File) + 1
           /\ Place(1, LineLength, 1) = 1
<1>1. /\ LineLength \in Nat \ {0} /\ NbLines \in Nat \ {0} /\ NbLines = Len(table) + 1
      /\ Len(File) = NbLines * LineLength /\ Len(File) \in Nat /\ Len(table) \in Nat
  BY RowNames, FileCells, FileType DEF NbLines
<1>2. ASSUME NEW k \in 1 .. NbLines
      PROVE  Place(k, LineLength, LineLength) + 1 = Place(k + 1, LineLength, 1)
  <2>1. k \in Nat /\ k * LineLength \in Nat /\ (k - 1) * LineLength = k * LineLength - LineLength
    BY <1>1, Product
  <2> QED
    BY <1>1, <2>1 DEF Place
<1>3. 1 * LineLength <= NbLines * LineLength
  BY <1>1, ProductOrder
<1>4. Place(NbLines + 1, LineLength, 1) = Len(File) + 1
  <2>1. (NbLines + 1) - 1 = NbLines
    BY <1>1
  <2> QED
    BY <1>1, <2>1 DEF Place
<1>5. Place(1, LineLength, 1) = 1
  BY <1>1 DEF Place
<1>6. 1 * LineLength = LineLength
  BY <1>1
<1> QED
  BY <1>1, <1>2, <1>3, <1>4, <1>5, <1>6

\* The first read brings the whole file.
LEMMA WholeRead ==
    ASSUME RouteInv, OneBlock, offset = 0,
           \A p \in 1 .. Block + 1 : buf[p] = NUL
    PROVE  /\ Held(Refilled) /\ Loaded(Refilled)
           /\ Min({offset + Block, Len(File)}) = Len(File)
<1>1. table \in Tables /\ Held(buf) /\ offset \in Nat
  BY DEF RouteInv
<1>2. Len(File) \in Nat /\ Len(File) <= Block /\ Block \in Nat
  BY <1>1, FileType, Sizes DEF OneBlock
<1>3. Held(Refilled)
  BY <1>1, RefilledHeld
<1>4. ASSUME NEW p \in 1 .. Block + 1
      PROVE  Refilled[p] =
                 IF p <= Len(File) THEN File[p] ELSE NUL
  <2>1. Refilled[p] = IF p = Block + 1 THEN NUL
                            ELSE IF offset + p <= Len(File)
                                 THEN File[offset + p] ELSE buf[p]
    BY Zenon DEF Refilled
  <2>2. offset + p = p /\ buf[p] = NUL
    OBVIOUS
  <2> QED
    BY <1>2, <2>1, <2>2
<1> DEFINE T == {offset + Block, Len(File)}
<1> DEFINE f == Len(File)
<1>5. T \subseteq Nat /\ f \in T /\ \A x \in T : f <= x
  BY <1>2
<1> HIDE DEF T, f
<1>6. Min(T) \in T /\ \A x \in T : Min(T) <= x
  BY <1>5, MinIn
<1>7. Min(T) = f
  <2> DEFINE m == Min(T)
  <2>1. m \in Nat /\ f \in Nat /\ f <= m /\ m <= f
    BY <1>5, <1>6
  <2> HIDE DEF m
  <2>2. m = f
    BY <2>1
  <2> QED
    BY <2>2 DEF m
<1> QED
  BY <1>3, <1>4, <1>7 DEF Loaded, T, f

\* What strchr_refill() does when the string holds the character, and when
\* it does not.
LEMMA RefillFound ==
    ASSUME NEW c, Strchr(buf, s, c) # 0
    PROVE  StrchrRefill(c) =
               [ret |-> 1, buf |-> buf, off |-> offset, s |-> Strchr(buf, s, c)]
BY DEF StrchrRefill

LEMMA RefillRead ==
    ASSUME NEW c, Strchr(buf, s, c) = 0, ~(offset >= Len(File))
    PROVE  StrchrRefill(c) =
               [ret |-> 1, buf |-> Refilled,
                off |-> Min({offset + Block, Len(File)}),
                s |-> Strchr(Refilled, 1, c)]
BY DEF StrchrRefill

LEMMA RefillEnd ==
    ASSUME NEW c, Strchr(buf, s, c) = 0, offset >= Len(File)
    PROVE  StrchrRefill(c) =
               [ret |-> 0, buf |-> buf, off |-> offset, s |-> 0]
BY DEF StrchrRefill

\* A table of which FoundInv says something.
Plain == OneBlock /\ NoHidden /\ table # <<>>

LEMMA PlainKept ==
    ASSUME table' = table
    PROVE  /\ Plain' = Plain /\ File' = File /\ NbLines' = NbLines
           /\ InUse' = InUse
           /\ \A k : TabOf(k)' = TabOf(k) /\ RowName(k)' = RowName(k)
           /\ \A text : Loaded(text)' = Loaded(text)
BY DEF Plain, OneBlock, NoHidden, File, NbLines, InUse, TabOf,
       RowName, Loaded

LEMMA SkipHeaderFinds ==
    ASSUME RouteInv, FoundInv, SkipHeader PROVE FoundInv'
<1>1. /\ step = "header" /\ Step(NL, "firstName", "failed") /\ start' = s'
      /\ table' = table /\ table \in Tables /\ Held(buf)
  BY DEF SkipHeader, RouteInv
<1> SUFFICES ASSUME Plain
             PROVE  /\ step' = "firstName" /\ offset' = Len(File) /\ Loaded(buf')
                    /\ s' = Place(2, LineLength, 1) /\ start' = s'
  BY <1>1, PlainKept DEF FoundInv, Plain
<1>2. offset = 0 /\ s = 1 /\ \A p \in 1 .. Block + 1 : buf[p] = NUL
  BY <1>1 DEF FoundInv, Plain
<1>3. /\ Held(Refilled) /\ Loaded(Refilled) /\ OneBlock
      /\ Min({offset + Block, Len(File)}) = Len(File)
  BY <1>2, WholeRead DEF Plain
<1>4. Strchr(buf, s, NL) = 0
  <2>1. 1 \in 1 .. Block + 1 /\ buf[1] = NUL
    BY <1>2, Sizes
  <2> QED
    BY <1>1, <1>2, <2>1, Miss
<1>5. /\ LineLength \in Nat \ {0} /\ Len(File) \in Nat /\ Len(File) >= LineLength
      /\ 1 \in 1 .. NbLines /\ 1 \in 1 .. LineLength /\ Place(1, LineLength, 1) = 1
      /\ Place(1, LineLength, LineLength) + 1 = Place(2, LineLength, 1)
  BY <1>1, Places
<1> DEFINE p == Place(1, LineLength, LineLength)
<1>6. p \in Nat \ {0}
  BY <1>5 DEF Place
<1>7. Strchr(Refilled, 1, NL) = p
  BY <1>1, <1>3, <1>5, FindEnd
<1>8. ~(offset >= Len(File))
  BY <1>2, <1>5
<1> DEFINE r == StrchrRefill(NL)
<1>9. r = [ret |-> 1, buf |-> Refilled, off |-> Len(File), s |-> p]
  BY <1>3, <1>4, <1>7, <1>8, RefillRead
<1>10. /\ buf' = r.buf /\ offset' = r.off
       /\ s' = IF r.ret = 1 /\ r.s # 0 /\ NL = NL THEN r.s + 1 ELSE r.s
       /\ step' = IF r.ret = 0 THEN "failed" ELSE IF r.s = 0 THEN "crash" ELSE "firstName"
  BY <1>1 DEF Step
<1>p. p + 1 = Place(2, LineLength, 1)
  BY <1>5
<1> HIDE DEF r, p
<1>11. /\ buf' = Refilled /\ offset' = Len(File) /\ s' = p + 1
       /\ step' = "firstName"
  BY <1>6, <1>9, <1>10
<1> QED
  BY <1>1, <1>3, <1>11, <1>p

LEMMA FirstNameFinds ==
    ASSUME RouteInv, FoundInv, FirstName PROVE FoundInv'
<1>1. /\ step = "firstName" /\ Step(TAB, "line", "failed")
      /\ devs' = IF step' = "line" THEN <<Text(buf', s')>> ELSE devs
      /\ table' = table /\ start' = start /\ table \in Tables /\ Held(buf)
  BY DEF FirstName, RouteInv
<1> SUFFICES ASSUME Plain
             PROVE  /\ step' = "line" /\ offset' = Len(File) /\ Loaded(buf')
                    /\ 2 \in 2 .. NbLines /\ s' = TabOf(2) /\ Seen(2)'
  BY <1>1, PlainKept DEF FoundInv, Plain
<1>2. /\ offset = Len(File) /\ Loaded(buf) /\ s = Place(2, LineLength, 1) /\ start = s
      /\ OneBlock /\ table # <<>>
  BY <1>1 DEF FoundInv, Plain
<1>3. NbLines = Len(table) + 1 /\ Len(table) \in Nat /\ Len(table) # 0
  <2>1. table \in Seq(Interfaces)
    BY <1>1, RowNames
  <2>2. Len(table) # 0
    BY <1>2, <2>1
  <2> QED
    BY <1>1, <2>2, Places
<1>4. 2 \in 2 .. NbLines /\ 2 \in 1 .. NbLines
  BY <1>3
<1>5. Strchr(buf, s, TAB) = TabOf(2) /\ TabOf(2) \in Nat \ {0}
      /\ Text(buf, TabOf(2)) = RowName(2)
  BY <1>1, <1>2, <1>4, FindTab, RowText
<1> DEFINE t == TabOf(2)
<1> DEFINE r == StrchrRefill(TAB)
<1>6. r = [ret |-> 1, buf |-> buf, off |-> offset, s |-> t]
  BY <1>5, RefillFound
<1>7. /\ buf' = r.buf /\ offset' = r.off
      /\ s' = IF r.ret = 1 /\ r.s # 0 /\ TAB = NL THEN r.s + 1 ELSE r.s
      /\ step' = IF r.ret = 0 THEN "failed" ELSE IF r.s = 0 THEN "crash" ELSE "line"
  BY <1>1 DEF Step
<1>8. t \in Nat \ {0}
  BY <1>5
<1> HIDE DEF r, t
<1>9. buf' = buf /\ offset' = offset /\ s' = t /\ step' = "line"
  BY <1>6, <1>7, <1>8, WordCells
<1>10. devs' = <<table[1]>>
  <2>1. RowName(2) = table[1]
    BY DEF RowName
  <2>2. Text(buf', s') = Text(buf, TabOf(2))
    BY <1>9 DEF t
  <2> QED
    BY <1>1, <1>5, <1>9, <2>1, <2>2
<1>11. Seen(2)'
  <2>1. Listed' = {table[1]}
    BY <1>10 DEF Listed
  <2>2. {table[q] : q \in 1 .. 2 - 1} = {table[1]}
    OBVIOUS
  <2> QED
    BY <1>1, <2>1, <2>2 DEF Seen
<1> QED
  BY <1>2, <1>4, <1>9, <1>11 DEF t

LEMMA NextLineFinds ==
    ASSUME RouteInv, FoundInv, NextLine PROVE FoundInv'
<1>1. /\ step = "line" /\ Step(NL, "name", "open") /\ start' = s'
      /\ table' = table /\ devs' = devs /\ table \in Tables /\ Held(buf)
  BY DEF NextLine, RouteInv
<1> SUFFICES ASSUME Plain
             PROVE  /\ step' = "name" /\ offset' = Len(File) /\ Loaded(buf')
                    /\ \E k \in 2 .. NbLines :
                           s' = Place(k + 1, LineLength, 1) /\ start' = s' /\ Seen(k)'
  BY <1>1, PlainKept DEF FoundInv, Plain
<1>2. /\ offset = Len(File) /\ Loaded(buf) /\ OneBlock
      /\ \E k \in 2 .. NbLines : s = TabOf(k) /\ Seen(k)
  BY <1>1 DEF FoundInv, Plain
<1>3. PICK k \in 2 .. NbLines : s = TabOf(k) /\ Seen(k)
  BY <1>2
<1>4. /\ k \in 1 .. NbLines /\ Len(RowName(k)) + 1 \in 1 .. LineLength
      /\ LineLength \in Nat \ {0}
      /\ Place(k, LineLength, LineLength) + 1 = Place(k + 1, LineLength, 1)
  <2>1. k \in 1 .. NbLines
    BY <1>1, Places
  <2> QED
    BY <1>1, <2>1, RowNames, Places
<1> DEFINE p == Place(k, LineLength, LineLength)
<1>5. Strchr(buf, s, NL) = p
  BY <1>1, <1>2, <1>3, <1>4, FindEnd DEF TabOf
<1>6. p \in Nat \ {0}
  <2>1. LineLength \in 1 .. LineLength
    BY <1>4
  <2> QED
    BY <1>1, <1>4, <2>1, LinePlaces
<1> DEFINE r == StrchrRefill(NL)
<1>7. r = [ret |-> 1, buf |-> buf, off |-> offset, s |-> p]
  BY <1>5, <1>6, RefillFound
<1>8. /\ buf' = r.buf /\ offset' = r.off
      /\ s' = IF r.ret = 1 /\ r.s # 0 /\ NL = NL THEN r.s + 1 ELSE r.s
      /\ step' = IF r.ret = 0 THEN "open" ELSE IF r.s = 0 THEN "crash" ELSE "name"
  BY <1>1 DEF Step
<1>p. p + 1 = Place(k + 1, LineLength, 1)
  BY <1>4
<1> HIDE DEF r, p
<1>9. buf' = buf /\ offset' = offset /\ s' = p + 1 /\ step' = "name"
  BY <1>6, <1>7, <1>8
<1>10. Seen(k)'
  BY <1>1, <1>3 DEF Seen, Listed
<1> QED
  BY <1>1, <1>2, <1>9, <1>10, <1>p

\* A name is known exactly when it is listed: no other one hides it.
LEMMA KnownName ==
    ASSUME RouteInv, Plain, NEW k \in 2 .. Len(table), Seen(k)
    PROVE  Known(table[k], FALSE) <=> table[k] \in Listed
<1>1. table \in Seq(Interfaces) /\ Len(table) \in Nat /\ k \in 1 .. Len(table)
  BY RowNames DEF RouteInv
<1>2. Known(table[k], FALSE) <=> \E n \in 1 .. Len(devs) : IsPrefix(table[k], devs[n])
  BY Zenon DEF Known
<1>3. ASSUME NEW n \in 1 .. Len(devs), IsPrefix(table[k], devs[n])
      PROVE  table[k] \in Listed
  <2>1. devs[n] \in Listed
    BY DEF Listed
  <2>2. PICK q \in 1 .. k - 1 : devs[n] = table[q]
    BY <2>1 DEF Seen
  <2>3. q \in 1 .. Len(table) /\ q < k
    BY <1>1
  <2>4. table[q] = table[k]
    BY <1>1, <1>3, <2>2, <2>3 DEF Plain, NoHidden
  <2> QED
    BY <2>1, <2>2, <2>4
<1>4. ASSUME table[k] \in Listed
      PROVE  \E n \in 1 .. Len(devs) : IsPrefix(table[k], devs[n])
  <2>1. PICK n \in 1 .. Len(devs) : devs[n] = table[k]
    BY <1>4 DEF Listed
  <2>2. Len(table[k]) \in Nat
    <3>1. k + 1 \in 1 .. NbLines /\ RowName(k + 1) = table[k]
      BY <1>1 DEF RowName, NbLines
    <3> QED
      BY <3>1, RowNames DEF RouteInv
  <2>3. IsPrefix(table[k], table[k])
    BY <2>2 DEF IsPrefix
  <2> QED
    BY <2>1, <2>3
<1> QED
  BY <1>2, <1>3, <1>4

LEMMA ListedGrows ==
    ASSUME NEW S, devs \in Seq(S), NEW name \in S, devs' = Append(devs, name)
    PROVE  Listed' = Listed \cup {name}
<1>1. /\ Len(devs') = Len(devs) + 1 /\ \A i \in 1 .. Len(devs) : devs'[i] = devs[i]
      /\ devs'[Len(devs) + 1] = name /\ Len(devs) \in Nat
  BY AppendProperties
<1>2. ASSUME NEW a \in 1 .. Len(devs') PROVE devs'[a] \in Listed \cup {name}
  <2>1. a \in 1 .. Len(devs) \/ a = Len(devs) + 1
    BY <1>1
  <2> QED
    BY <1>1, <2>1 DEF Listed
<1>3. ASSUME NEW x \in Listed \cup {name} PROVE x \in Listed'
  <2>1. CASE x = name
    <3>1. Len(devs) + 1 \in 1 .. Len(devs')
      BY <1>1
    <3> QED
      BY <1>1, <2>1, <3>1 DEF Listed
  <2>2. CASE x \in Listed
    <3>1. PICK a \in 1 .. Len(devs) : x = devs[a]
      BY <2>2 DEF Listed
    <3>2. a \in 1 .. Len(devs') /\ devs'[a] = x
      BY <1>1, <3>1
    <3> QED
      BY <3>2 DEF Listed
  <2> QED
    BY <2>1, <2>2
<1> QED
  BY <1>2, <1>3 DEF Listed

LEMMA NextNameFinds ==
    ASSUME RouteInv, FoundInv, NextName PROVE FoundInv'
<1> DEFINE r == StrchrRefill(TAB)
<1> DEFINE text == Text(r.buf, r.s)
<1> DEFINE new == r.ret = 1 /\ r.s # 0 /\ ~Known(text, r.s < start)
<1> DEFINE room == Len(devs) < MaxDev
<1>1. /\ step = "name" /\ table' = table /\ start' = start /\ opened' = opened
      /\ devs' = IF new /\ room THEN Append(devs, text) ELSE devs
      /\ buf' = r.buf /\ offset' = r.off /\ s' = r.s
      /\ step' = IF r.ret = 0 \/ (new /\ ~room) THEN "open"
                 ELSE IF r.s = 0 THEN "crash" ELSE "line"
      /\ table \in Tables /\ Held(buf) /\ s \in 1 .. Block + 1
      /\ devs \in Seq(Seq(Cells)) /\ Len(devs) <= MaxDev
  BY DEF NextName, RouteInv, Searching
<1> HIDE DEF r, text, new, room
<1> SUFFICES ASSUME Plain
             PROVE  /\ offset' = Len(File) /\ Loaded(buf')
                    /\ \/ step' = "line" /\ \E k \in 2 .. NbLines : s' = TabOf(k) /\ Seen(k)'
                       \/ /\ step' = "open" /\ Listed' \subseteq InUse
                          /\ Listed' = InUse \/ Len(devs') = MaxDev
  BY <1>1, PlainKept DEF FoundInv, Plain
<1>2. /\ offset = Len(File) /\ Loaded(buf) /\ OneBlock
      /\ \E k \in 2 .. NbLines : s = Place(k + 1, LineLength, 1) /\ start = s /\ Seen(k)
  BY <1>1 DEF FoundInv, Plain
<1>3. PICK k \in 2 .. NbLines : s = Place(k + 1, LineLength, 1) /\ start = s /\ Seen(k)
  BY <1>2
<1>4. /\ NbLines = Len(table) + 1 /\ Len(table) \in Nat /\ Len(File) \in Nat
      /\ Place(NbLines + 1, LineLength, 1) = Len(File) + 1
  BY <1>1, Places
<1>5. CASE k = NbLines
  <2>1. Strchr(buf, s, TAB) = 0
    <3>1. s = Len(File) + 1
      BY <1>3, <1>4, <1>5
    <3>2. s \in 1 .. Block + 1 /\ ~(s <= Len(File))
      BY <1>1, <1>4, <3>1
    <3>3. buf[s] = NUL
      BY <1>2, <3>2 DEF Loaded
    <3> QED
      BY <1>1, <3>2, <3>3, Miss
  <2>2. r = [ret |-> 0, buf |-> buf, off |-> offset, s |-> 0]
    <3>1. offset >= Len(File)
      BY <1>2, <1>4
    <3> QED
      BY <2>1, <3>1, RefillEnd DEF r
  <2>3. step' = "open" /\ devs' = devs /\ buf' = buf /\ offset' = offset
    BY <1>1, <2>2 DEF new
  <2>4. Listed' = InUse
    <3>1. Listed = {table[q] : q \in 1 .. Len(table)}
      BY <1>3, <1>4, <1>5 DEF Seen
    <3> QED
      BY <2>3, <3>1 DEF Listed, InUse
  <2> QED
    BY <1>2, <2>3, <2>4
<1>6. CASE k # NbLines
  <2>1. k \in 2 .. Len(table) /\ k + 1 \in 1 .. NbLines /\ k + 1 \in 2 .. NbLines
    BY <1>4, <1>6
  <2>2. /\ Strchr(buf, s, TAB) = TabOf(k + 1)
        /\ Text(buf, TabOf(k + 1)) = RowName(k + 1)
        /\ ~(TabOf(k + 1) < start) /\ TabOf(k + 1) \in Nat \ {0}
    BY <1>1, <1>2, <1>3, <2>1, FindTab, RowText
  <2>3. r = [ret |-> 1, buf |-> buf, off |-> offset, s |-> TabOf(k + 1)]
    BY <2>2, RefillFound DEF r
  <2>4. RowName(k + 1) = table[k]
    BY <2>1 DEF RowName
  <2>5. /\ r.ret = 1 /\ r.s = TabOf(k + 1) /\ r.s # 0 /\ r.buf = buf /\ r.off = offset
        /\ ~(r.s < start)
    BY <2>2, <2>3
  <2>6. text = table[k]
    BY <2>2, <2>4, <2>5 DEF text
  <2>7. new <=> table[k] \notin Listed
    <3>1. (r.s < start) = FALSE
      BY <2>5
    <3>2. Known(text, r.s < start) <=> table[k] \in Listed
      BY <1>3, <2>1, <2>6, <3>1, KnownName
    <3> QED
      BY <2>5, <3>2 DEF new
  <2>8. {table[q] : q \in 1 .. (k + 1) - 1} = {table[q] : q \in 1 .. k - 1} \cup {table[k]}
    BY <2>1
  <2>9. /\ {table[q] : q \in 1 .. k - 1} \subseteq InUse
    BY <2>1 DEF InUse
  <2>10. CASE new /\ ~room
    <3>1. step' = "open" /\ devs' = devs /\ buf' = buf /\ offset' = offset
      BY <1>1, <2>5, <2>10
    <3>2. Len(devs') = MaxDev
      BY <1>1, <2>10, <3>1, Sizes DEF room
    <3>3. Listed' \subseteq InUse
      BY <1>3, <2>9, <3>1 DEF Seen, Listed
    <3> QED
      BY <1>2, <3>1, <3>2, <3>3
  <2>11. CASE new /\ room
    <3>1. /\ step' = "line" /\ devs' = Append(devs, table[k]) /\ buf' = buf
          /\ offset' = offset /\ s' = TabOf(k + 1)
      BY <1>1, <2>5, <2>6, <2>11
    <3>2. table[k] \in Seq(Cells)
      BY <1>1, <2>1, <2>4, RowNames
    <3>3. Listed' = Listed \cup {table[k]}
      BY <1>1, <3>1, <3>2, ListedGrows
    <3>4. Seen(k + 1)'
      BY <1>1, <1>3, <2>8, <3>3 DEF Seen
    <3> QED
      BY <1>2, <2>1, <3>1, <3>4
  <2>12. CASE ~new
    <3>1. /\ step' = "line" /\ devs' = devs /\ buf' = buf
          /\ offset' = offset /\ s' = TabOf(k + 1)
      BY <1>1, <2>5, <2>12
    <3>2. Listed' = Listed /\ table[k] \in Listed
      BY <2>7, <2>12, <3>1 DEF Listed
    <3>3. Seen(k + 1)'
      BY <1>1, <1>3, <2>8, <3>2 DEF Seen
    <3> QED
      BY <1>2, <2>1, <3>1, <3>3
  <2> QED
    BY <2>10, <2>11, <2>12
<1> QED
  BY <1>5, <1>6

LEMMA OpenDevFinds ==
    ASSUME RouteInv, FoundInv, OpenDev PROVE FoundInv'
<1>1. /\ step = "open" /\ table' = table /\ offset' = offset /\ buf' = buf
      /\ start' = start /\ s' = s /\ devs' = devs
      /\ \/ step' = "ready" /\ opened' = opened
         \/ opened' = opened + 1 /\ step' = step
         \/ /\ step' = "failed" /\ opened # Len(devs)
            /\ devs[opened + 1] \notin Interfaces
  BY DEF OpenDev
<1> SUFFICES ASSUME Plain
             PROVE  /\ step' \in {"open", "ready"} /\ offset' = Len(File)
                    /\ Loaded(buf') /\ Listed' \subseteq InUse
                    /\ Listed' = InUse \/ Len(devs') = MaxDev
  BY <1>1, PlainKept DEF FoundInv, Plain
<1>2. /\ offset = Len(File) /\ Loaded(buf) /\ Listed \subseteq InUse
      /\ Listed = InUse \/ Len(devs) = MaxDev
  BY <1>1 DEF FoundInv, Plain
<1>3. opened \in 0 .. Len(devs) /\ Len(devs) \in Nat /\ table \in Tables
  BY DEF RouteInv
<1>4. table \in Seq(Interfaces)
  BY <1>3, RowNames
<1>5. InUse \subseteq Interfaces
  BY <1>4 DEF InUse
<1>6. ASSUME opened # Len(devs) PROVE devs[opened + 1] \in Interfaces
  <2>1. opened + 1 \in 1 .. Len(devs)
    BY <1>3, <1>6
  <2>2. devs[opened + 1] \in Listed
    BY <2>1 DEF Listed
  <2> QED
    BY <1>2, <1>5, <2>2
<1>7. step' \in {"open", "ready"}
  BY <1>1, <1>6
<1>8. Listed' = Listed
  BY <1>1 DEF Listed
<1> QED
  BY <1>1, <1>2, <1>7, <1>8

LEMMA FoundInit == ASSUME RouteInit PROVE FoundInv
<1>1. step = "header" /\ offset = 0 /\ s = 1 /\ buf = [p \in 1 .. Block + 1 |-> NUL]
  BY DEF RouteInit
<1> QED
  BY <1>1 DEF FoundInv

LEMMA FoundStill ==
    ASSUME FoundInv, UNCHANGED routeVars PROVE FoundInv'
<1>1. /\ step' = step /\ table' = table /\ offset' = offset /\ buf' = buf
      /\ start' = start /\ s' = s /\ devs' = devs
  BY DEF routeVars
<1>2. /\ Listed' = Listed /\ \A k : Seen(k)' = Seen(k)
      /\ \A k \in 2 .. NbLines : TabOf(k)' = TabOf(k)
  BY <1>1, PlainKept DEF Listed, Seen
<1> QED
  BY <1>1, <1>2, PlainKept DEF FoundInv, Plain

LEMMA FoundStep ==
    ASSUME RouteInv, FoundInv, [RouteNext]_routeVars PROVE FoundInv'
<1>1. CASE SkipHeader
  BY <1>1, SkipHeaderFinds
<1>2. CASE FirstName
  BY <1>2, FirstNameFinds
<1>3. CASE NextLine
  BY <1>3, NextLineFinds
<1>4. CASE NextName
  BY <1>4, NextNameFinds
<1>5. CASE OpenDev
  BY <1>5, OpenDevFinds
<1>6. CASE UNCHANGED routeVars
  BY <1>6, FoundStill
<1> QED
  BY <1>1, <1>2, <1>3, <1>4, <1>5, <1>6, Zenon DEF RouteNext, RouteEnd

LEMMA SameElements ==
    ASSUME RouteInv
    PROVE  ToSet(devs) = Listed
<1>1. DOMAIN devs = 1 .. Len(devs)
  BY DEF RouteInv
<1> QED
  BY <1>1 DEF ToSet, Listed

LEMMA Elements ==
    ASSUME NEW S, NEW q \in Seq(S), NEW T, T = {q[a] : a \in 1 .. Len(q)}
    PROVE  /\ IsFiniteSet(T) /\ Cardinality(T) \in Nat
           /\ (\A a, b \in 1 .. Len(q) : q[a] = q[b] => a = b) => Cardinality(T) = Len(q)
<1> DEFINE n == Len(q)
<1> DEFINE I == 1 .. n
<1> DEFINE f == [a \in I |-> q[a]]
<1>1. n \in Nat
  OBVIOUS
<1>2. IsFiniteSet(I) /\ Cardinality(I) = n
  <2>1. 1 \in Int /\ n \in Int /\ (1 > n => n = 0)
    BY <1>1
  <2> HIDE DEF n
  <2>2. IsFiniteSet(1 .. n) /\ Cardinality(1 .. n) = IF 1 > n THEN 0 ELSE n - 1 + 1
    BY <2>1, FS_Interval
  <2> QED
    BY <1>1, <2>1, <2>2
<1>3. f \in Surjection(I, T)
  BY DEF Surjection
<1>4. (\A a, b \in I : q[a] = q[b] => a = b) => f \in Injection(I, T)
  BY DEF Injection, IsInjective
<1> HIDE DEF f, I
<1>5. /\ IsFiniteSet(T) /\ (Cardinality(T) = Cardinality(I) <=> f \in Injection(I, T))
  BY <1>2, <1>3, FS_Surjection
<1>6. Cardinality(T) \in Nat
  BY <1>5, FS_CardinalityType
<1> QED
  BY <1>2, <1>4, <1>5, <1>6 DEF I

LEMMA FoundAll ==
    ASSUME RouteInv, FoundInv PROVE FindsInterfaces
<1> SUFFICES ASSUME Plain
             PROVE  /\ step \notin {"failed", "crash"}
                    /\ step = "ready" =>
                          /\ ToSet(devs) \subseteq InUse
                          /\ Len(devs) = Min({MaxDev, Cardinality(InUse)})
  BY DEF Plain, FindsInterfaces
<1>1. /\ step \notin {"failed", "crash"}
      /\ step = "ready" => /\ Listed \subseteq InUse
                           /\ Listed = InUse \/ Len(devs) = MaxDev
  BY DEF FoundInv, Plain
<1> SUFFICES ASSUME step = "ready"
             PROVE  Len(devs) = Min({MaxDev, Cardinality(InUse)})
  BY <1>1, SameElements
<1>2. /\ devs \in Seq(Seq(Cells)) /\ Len(devs) <= MaxDev /\ DevsDistinct /\ table \in Tables
  BY DEF RouteInv
<1>3. IsFiniteSet(Listed) /\ Cardinality(Listed) = Len(devs)
  BY <1>2, Elements DEF Listed, DevsDistinct
<1>4. IsFiniteSet(InUse) /\ Cardinality(InUse) \in Nat
  <2>1. table \in Seq(Interfaces)
    BY <1>2, RowNames
  <2> QED
    BY <2>1, Elements DEF InUse
<1> DEFINE c == Cardinality(InUse)
<1> DEFINE n == Len(devs)
<1>5. n <= c
  BY <1>1, <1>3, <1>4, FS_Subset
<1>6. n = c \/ n = MaxDev
  BY <1>1, <1>3
<1>7. c \in Nat /\ n \in Nat /\ MaxDev \in Nat /\ n <= MaxDev
  BY <1>2, <1>4, Sizes
<1> HIDE DEF c, n
<1> DEFINE T == {MaxDev, c}
<1> DEFINE m == Min(T)
<1>9. T \subseteq Nat /\ n \in T /\ \A x \in T : n <= x
  BY <1>5, <1>6, <1>7
<1> HIDE DEF T
<1>10. m \in T /\ \A x \in T : m <= x
  BY <1>9, MinIn
<1>11. m \in Nat /\ m <= n /\ n <= m
  BY <1>9, <1>10
<1> HIDE DEF m
<1>12. m = n
  BY <1>7, <1>11
<1> QED
  BY <1>12 DEF m, n, T, c

\* With -d X a table of one block, of names that do not hide one another,
\* gives exactly the interfaces in use, or NB_MAX_DEV of them, and
\* init_network() gets to its end.
THEOREM InterfacesFound == RouteSpec => []FindsInterfaces
<1>1. RouteInit => FoundInv
  BY FoundInit
<1>2. RouteInv /\ FoundInv /\ [RouteNext]_routeVars => FoundInv'
  BY FoundStep
<1>3. RouteInv /\ FoundInv => FindsInterfaces
  BY FoundAll
<1> QED
  BY <1>1, <1>2, <1>3, RouteInductive, PTL DEF RouteSpec
=============================================================================
