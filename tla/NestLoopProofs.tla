--------------------------- MODULE NestLoopProofs ---------------------------
(***************************************************************************)
(* Proofs about NestLoop, for tables of any size, every join type and any  *)
(* quals, row counts and rescans: what the node returns is the join.       *)
(*                                                                         *)
(* LoopInv says that the rows returned, with those of the last join tuple  *)
(* that are still to be projected, are the rows of the outer tuples before *)
(* the current one, and of the inner tuples it was joined with so far.     *)
(***************************************************************************)
EXTENDS NestLoop, WellFoundedInduction, SequenceTheorems, TLAPS

-----------------------------------------------------------------------------
(***************************************************************************)
(* Facts about numbers                                                     *)
(***************************************************************************)

\* The least element of a set of natural numbers.
LEMMA MinIsLeast ==
    ASSUME NEW T \in SUBSET Nat, T # {}
    PROVE  Min(T) \in T /\ \A y \in T : Min(T) <= y
<1>. DEFINE R == {ij \in Nat \X Nat : ij[1] < ij[2]}
<1>1. IsWellFoundedOn(R, Nat)
    BY NatLessThanWellFounded DEF OpToRel
<1>2. PICK x \in T : \A y \in T : <<y, x>> \notin R
    BY <1>1, WFMin
<1>3. ASSUME NEW y \in T PROVE x <= y
    <2>1. x \in Nat /\ y \in Nat /\ ~(y < x)
        BY <1>2
    <2>. QED  BY <2>1
<1>. QED  BY <1>3 DEF Min

\* A set that 0 is in, and with each number below n the next one, has all
\* numbers up to n.
LEMMA Induction ==
    ASSUME NEW T, NEW n \in Nat, 0 \in T,
           \A k \in 0 .. n : k < n /\ k \in T => k + 1 \in T
    PROVE  \A k \in 0 .. n : k \in T
<1>. DEFINE Missing == {k \in 0 .. n : k \notin T}
<1>. SUFFICES ASSUME Missing # {} PROVE FALSE
    OBVIOUS
<1>1. PICK m \in Missing : \A k \in Missing : m <= k
    <2>1. Missing \in SUBSET Nat
        OBVIOUS
    <2>. HIDE DEF Missing
    <2>. QED  BY <2>1, MinIsLeast
<1>2. m \in 0 .. n /\ m # 0 /\ m - 1 \in 0 .. n /\ m - 1 < n
    BY <1>1
<1>3. m - 1 \in T
    BY <1>1, <1>2
<1>. QED  BY <1>1, <1>2, <1>3

-----------------------------------------------------------------------------

Row == Outer \X (0 .. Inners) \X (1 .. 2)

\* The rows of the first sequences of ss, for every number of sequences.
SumsOf(ss, f) ==
    /\ f \in [0 .. Len(ss) -> Seq(Row)]
    /\ f[0] = <<>>
    /\ \A n \in 1 .. Len(ss) : f[n] = f[n - 1] \o ss[n]

Sums(ss) == CHOOSE f : SumsOf(ss, f)

ResultRows == [o \in Outer |-> RowsOf(o)]

PlanOK ==
    /\ plan \in Plans
    /\ plan.jointype \in {"INNER", "LEFT", "SEMI", "ANTI"}
    /\ Buildable(plan)

\* Rows of the last join tuple that are still to be projected.
Left == IF ps_TupFromTlist THEN plan.rows[joined[1]] - projected ELSE 0

\* What the current outer tuple has given.
Part == IF plan.jointype \in {"INNER", "LEFT"} THEN Sums(MatchedRows(opos))[ipos]
        ELSE <<>>

Done == IF nl_NeedNewOuter THEN Sums(ResultRows)[opos]
        ELSE Sums(ResultRows)[opos - 1] \o Part

\* The rows returned and the rows left are those of d.
Agrees(d) ==
    /\ Len(d) = Len(out) + Left
    /\ \A n \in 1 .. Len(out) : out[n] = d[n]
    /\ \A k \in 1 .. Left : d[Len(out) + k] = <<joined[1], joined[2], projected + k>>

PlaceInv ==
    /\ pc = "loop" => ~ps_TupFromTlist /\ ~ended
    /\ ps_TupFromTlist => joined \in Pairs /\ projected <= plan.rows[joined[1]]
    /\ ended => nl_NeedNewOuter /\ opos = Outers /\ ~ps_TupFromTlist

\* An outer tuple that has no match so far has given nothing, and a semijoin or
\* an antijoin is done with one that has.
MatchedInv ==
    ~nl_NeedNewOuter =>
        /\ nl_MatchedOuter <=> \E k \in JoinMatches(opos) : k <= ipos
        /\ plan.jointype \in {"SEMI", "ANTI"} => ~nl_MatchedOuter
        /\ ~nl_MatchedOuter => Part = <<>>

LoopInv ==
    /\ PlanOK /\ TypeOK /\ ipos \in Nat /\ out \in Seq(Row)
    /\ PlaceInv /\ MatchedInv /\ Agrees(Done)

-----------------------------------------------------------------------------
(***************************************************************************)
(* Flattening a sequence of sequences                                      *)
(***************************************************************************)

FlattenOf(ss, g) ==
    g = [i \in 1 .. Len(ss) |-> IF i = 1 THEN ss[i] ELSE g[i - 1] \o ss[i]]

LEMMA FlattenIs ==
    ASSUME NEW ss, Len(ss) # 0
    PROVE  FlattenSeq(ss) = (CHOOSE g : FlattenOf(ss, g))[Len(ss)]
BY Zenon DEF FlattenSeq, FlattenOf

\* The recursion of FlattenSeq is defined.
LEMMA FlattenDefined ==
    ASSUME NEW ss \in Seq(Seq(Row)), Len(ss) # 0
    PROVE  \E g \in [1 .. Len(ss) -> Seq(Row)] : FlattenOf(ss, g)
<1>. DEFINE n == Len(ss)
            Upto(g, m) == \A i \in 1 .. m :
                              g[i] = IF i = 1 THEN ss[i] ELSE g[i - 1] \o ss[i]
            T == {m \in 0 .. n : \E g \in [1 .. n -> Seq(Row)] : Upto(g, m)}
<1>1. n \in Nat /\ \A i \in 1 .. n : ss[i] \in Seq(Row)
    OBVIOUS
<1>2. 0 \in T
    <2>1. [i \in 1 .. n |-> <<>>] \in [1 .. n -> Seq(Row)]
        OBVIOUS
    <2>2. \A g : Upto(g, 0)
        OBVIOUS
    <2>. QED  BY <1>1, <2>1, <2>2
<1>3. ASSUME NEW m \in 0 .. n, m < n, m \in T PROVE m + 1 \in T
    <2>1. PICK g \in [1 .. n -> Seq(Row)] : Upto(g, m)
        BY <1>3
    <2>. DEFINE v == IF m + 1 = 1 THEN ss[m + 1] ELSE g[m] \o ss[m + 1]
                h == [g EXCEPT ![m + 1] = v]
    <2>2. m + 1 \in 1 .. n /\ (m # 0 => m \in 1 .. n)
        BY <1>1, <1>3
    <2>3. v \in Seq(Row)
        <3>1. ss[m + 1] \in Seq(Row)
            BY <1>1, <2>2
        <3>2. CASE m = 0
            BY <3>1, <3>2
        <3>3. CASE m # 0
            <4>1. g[m] \in Seq(Row)
                BY <2>2, <3>3
            <4>2. g[m] \o ss[m + 1] \in Seq(Row)
                BY <3>1, <4>1, ConcatProperties
            <4>. QED  BY <3>1, <3>3, <4>2
        <3>. QED  BY <3>2, <3>3
    <2>. HIDE DEF v
    <2>4. h \in [1 .. n -> Seq(Row)] /\ h[m + 1] = v /\ \A i \in 1 .. m : h[i] = g[i]
        BY <1>1, <2>2, <2>3
    <2>5. ASSUME NEW i \in 1 .. m + 1
          PROVE  h[i] = IF i = 1 THEN ss[i] ELSE h[i - 1] \o ss[i]
        <3>1. CASE i = m + 1
            <4>1. i # 1 => h[i - 1] = g[m]
                BY <1>3, <2>4, <3>1
            <4>. QED  BY <2>4, <3>1, <4>1 DEF v
        <3>2. CASE i \in 1 .. m
            <4>1. i # 1 => h[i - 1] = g[i - 1]
                BY <1>3, <2>4, <3>2
            <4>. QED  BY <2>1, <2>4, <3>2, <4>1
        <3>. QED  BY <1>3, <3>1, <3>2
    <2>6. Upto(h, m + 1)
        BY <2>5
    <2>. HIDE DEF h, Upto
    <2>. QED  BY <1>1, <2>2, <2>4, <2>6
<1>4. n \in T
    <2>. HIDE DEF T, n
    <2>1. \A m \in 0 .. n : m \in T
        BY <1>1, <1>2, <1>3, Induction
    <2>. QED  BY <1>1, <2>1
<1>5. PICK g \in [1 .. n -> Seq(Row)] : Upto(g, n)
    BY <1>4 DEF T
<1>6. g = [i \in 1 .. n |-> IF i = 1 THEN ss[i] ELSE g[i - 1] \o ss[i]]
    BY <1>5
<1>. QED  BY <1>5, <1>6 DEF FlattenOf

\* It has only one solution, so that FlattenSeq is the sum of all.
LEMMA FlattenUnique ==
    ASSUME NEW ss \in Seq(Seq(Row)), NEW g, FlattenOf(ss, g), NEW h, FlattenOf(ss, h)
    PROVE  \A i \in 1 .. Len(ss) : g[i] = h[i]
<1>. DEFINE n == Len(ss)
            T == {m \in 0 .. n : m # 0 => g[m] = h[m]}
<1>1. n \in Nat /\ 0 \in T
    OBVIOUS
<1>2. ASSUME NEW i \in 1 .. n
      PROVE  /\ g[i] = IF i = 1 THEN ss[i] ELSE g[i - 1] \o ss[i]
             /\ h[i] = IF i = 1 THEN ss[i] ELSE h[i - 1] \o ss[i]
    BY Zenon DEF FlattenOf
<1>3. ASSUME NEW m \in 0 .. n, m < n, m \in T PROVE m + 1 \in T
    <2>1. m + 1 \in 1 .. n /\ (m + 1) - 1 = m
        BY <1>1, <1>3
    <2>2. g[m + 1] = h[m + 1]
        <3>1. /\ g[m + 1] = IF m + 1 = 1 THEN ss[m + 1] ELSE g[m] \o ss[m + 1]
              /\ h[m + 1] = IF m + 1 = 1 THEN ss[m + 1] ELSE h[m] \o ss[m + 1]
            <4>1. PICK i \in 1 .. n : i = m + 1 /\ i - 1 = m
                BY <2>1
            <4>. QED  BY <1>2, <4>1, Zenon
        <3>2. m + 1 # 1 => g[m] = h[m]
            BY <1>3
        <3>. QED  BY <3>1, <3>2, Zenon
    <2>. QED  BY <2>1, <2>2
<1>4. \A m \in 0 .. n : m \in T
    <2>. HIDE DEF T, n
    <2>. QED  BY <1>1, <1>3, Induction
<1>. QED  BY <1>4 DEF T

LEMMA SumsAre ==
    ASSUME NEW ss \in Seq(Seq(Row))
    PROVE  SumsOf(ss, Sums(ss)) /\ FlattenSeq(ss) = Sums(ss)[Len(ss)]
<1>. DEFINE n == Len(ss)
<1>1. n \in Nat /\ \A i \in 1 .. n : ss[i] \in Seq(Row)
    OBVIOUS
<1>2. ASSUME NEW f, SumsOf(ss, f), FlattenSeq(ss) = f[n], \A h : SumsOf(ss, h) => h[n] = f[n]
      PROVE  SumsOf(ss, Sums(ss)) /\ FlattenSeq(ss) = Sums(ss)[n]
    <2>1. SumsOf(ss, Sums(ss))
        BY <1>2, Zenon DEF Sums
    <2>. QED  BY <1>2, <2>1
<1>3. CASE n = 0
    <2>. DEFINE f == [i \in 0 .. n |-> <<>>]
    <2>1. ss = <<>> /\ FlattenSeq(ss) = ss
        BY <1>3 DEF FlattenSeq
    <2>2. SumsOf(ss, f) /\ f[n] = <<>>
        BY <1>3 DEF SumsOf
    <2>3. \A h : SumsOf(ss, h) => h[n] = <<>>
        BY <1>3 DEF SumsOf
    <2>. HIDE DEF f
    <2>4. FlattenSeq(ss) = f[n] /\ \A h : SumsOf(ss, h) => h[n] = f[n]
        BY <2>1, <2>2, <2>3
    <2>. HIDE DEF n
    <2>. QED  BY <1>2, <2>2, <2>4, Zenon DEF n
<1>4. CASE n # 0
    <2>1. PICK g \in [1 .. n -> Seq(Row)] : FlattenOf(ss, g)
        BY <1>4, FlattenDefined
    <2>2. FlattenOf(ss, CHOOSE h : FlattenOf(ss, h))
        BY <2>1
    <2>3. FlattenSeq(ss) = g[n]
        <3>. DEFINE c == CHOOSE h : FlattenOf(ss, h)
        <3>1. FlattenSeq(ss) = c[n] /\ n \in 1 .. n
            BY <1>1, <1>4, FlattenIs
        <3>. HIDE DEF c
        <3>2. FlattenOf(ss, c)
            BY <2>2 DEF c
        <3>. QED  BY <2>1, <3>1, <3>2, FlattenUnique
    <2>. DEFINE f == [i \in 0 .. n |-> IF i = 0 THEN <<>> ELSE g[i]]
    <2>4. \A i \in 1 .. n : g[i] = IF i = 1 THEN ss[i] ELSE g[i - 1] \o ss[i]
        BY <2>1, Zenon DEF FlattenOf
    <2>5. SumsOf(ss, f)
        <3>1. f \in [0 .. n -> Seq(Row)] /\ f[0] = <<>> /\ \A i \in 1 .. n : f[i] = g[i]
            BY <1>1, <2>1
        <3>2. ASSUME NEW i \in 1 .. n PROVE f[i] = f[i - 1] \o ss[i]
            <4>1. CASE i = 1
                <5>1. i - 1 = 0 /\ ss[i] \in Seq(Row) /\ g[i] = ss[i]
                    <6>1. g[i] = ss[i] /\ ss[i] \in Seq(Row)
                        BY <1>1, <2>4, <4>1, Zenon
                    <6>. QED  BY <4>1, <6>1
                <5>2. f[i] = ss[i] /\ f[i - 1] = <<>>
                    BY <3>1, <5>1
                <5>. QED  BY <5>1, <5>2, ConcatEmptySeq
            <4>2. CASE i # 1
                <5>1. i - 1 \in 1 .. n
                    BY <1>1, <4>2
                <5>2. f[i - 1] = g[i - 1] /\ f[i] = g[i] /\ g[i] = g[i - 1] \o ss[i]
                    BY <2>4, <3>1, <4>2, <5>1
                <5>. QED  BY <5>2
            <4>. QED  BY <4>1, <4>2
        <3>. HIDE DEF f
        <3>. QED  BY <3>1, <3>2 DEF SumsOf
    <2>6. f[n] = g[n]
        BY <1>1, <1>4
    <2>7. ASSUME NEW h, SumsOf(ss, h) PROVE h[n] = g[n]
        <3>. DEFINE T == {m \in 0 .. n : m # 0 => h[m] = g[m]}
        <3>1. 0 \in T
            BY <1>1
        <3>2. h[0] = <<>> /\ \A i \in 1 .. n : h[i] = h[i - 1] \o ss[i]
            BY <2>7 DEF SumsOf
        <3>3. ASSUME NEW m \in 0 .. n, m < n, m \in T PROVE m + 1 \in T
            <4>1. m + 1 \in 1 .. n /\ (m + 1) - 1 = m
                BY <1>1, <3>3
            <4>2. /\ g[m + 1] = IF m + 1 = 1 THEN ss[m + 1] ELSE g[m] \o ss[m + 1]
                  /\ h[m + 1] = h[m] \o ss[m + 1] /\ ss[m + 1] \in Seq(Row)
                <5>1. PICK i \in 1 .. n : i = m + 1 /\ i - 1 = m
                    BY <4>1
                <5>. QED  BY <1>1, <2>4, <3>2, <5>1, Zenon
            <4>3. h[m + 1] = g[m + 1]
                <5>1. CASE m = 0
                    <6>1. m + 1 = 1 /\ h[m] = <<>>
                        BY <3>2, <5>1
                    <6>2. h[m + 1] = <<>> \o ss[m + 1] /\ g[m + 1] = ss[m + 1]
                        BY <4>2, <6>1, Zenon
                    <6>. QED  BY <4>2, <6>2, ConcatEmptySeq
                <5>2. CASE m # 0
                    <6>1. m + 1 # 1 /\ h[m] = g[m]
                        BY <3>3, <5>2
                    <6>. QED  BY <4>2, <6>1, Zenon
                <5>. QED  BY <5>1, <5>2
            <4>. QED  BY <4>1, <4>3
        <3>4. n \in T
            <4>. HIDE DEF T, n
            <4>1. \A m \in 0 .. n : m \in T
                BY <1>1, <3>1, <3>3, Induction
            <4>. QED  BY <1>1, <4>1
        <3>. QED  BY <1>4, <3>4 DEF T
    <2>. HIDE DEF f, n
    <2>8. FlattenSeq(ss) = f[n] /\ \A h : SumsOf(ss, h) => h[n] = f[n]
        BY <2>3, <2>6, <2>7
    <2>. QED  BY <1>2, <2>5, <2>8, Zenon DEF n
<1>. QED  BY <1>3, <1>4

-----------------------------------------------------------------------------
(***************************************************************************)
(* The rows of the join                                                    *)
(***************************************************************************)

\* The subplans and the target list of an outer tuple.
LEMMA PlanIs ==
    ASSUME PlanOK, NEW o \in Outer
    PROVE  /\ plan.inner[o] \in Seq(Inner)
           /\ plan.rows[o] \in 0 .. 2
           /\ ~plan.returnsSet => plan.rows[o] = 1
           /\ plan.jointype \in {"INNER", "LEFT", "SEMI", "ANTI"}
<1>1. /\ plan.inner \in [Outer -> {<<>>, [i \in Inner |-> i]}]
      /\ plan.rows \in [Outer -> 0 .. 2]
    BY DEF PlanOK, Plans
<1>2. [i \in Inner |-> i] \in Seq(Inner)
    <2>1. Inners \in Nat
        BY NestLoopAssumption
    <2>2. [i \in 1 .. Inners |-> i] \in Seq(Inner)
        BY <2>1 DEF Inner
    <2>. QED  BY <2>2 DEF Inner
<1>3. plan.inner[o] \in {<<>>, [i \in Inner |-> i]} /\ plan.rows[o] \in 0 .. 2
    BY <1>1
<1>4. plan.inner[o] \in Seq(Inner)
    <2>1. <<>> \in Seq(Inner)
        OBVIOUS
    <2>. QED  BY <1>2, <1>3, <2>1, Zenon
<1>5. ~plan.returnsSet => plan.rows[o] = 1
    BY DEF PlanOK, Buildable
<1>. QED  BY <1>3, <1>4, <1>5 DEF PlanOK

LEMMA RowsAre ==
    ASSUME PlanOK, NEW o \in Outer, NEW i \in 0 .. Inners
    PROVE  /\ Rows(o, i) \in Seq(Row)
           /\ Len(Rows(o, i)) = IF <<o, i>> \in plan.otherqual THEN plan.rows[o] ELSE 0
           /\ <<o, i>> \in plan.otherqual =>
                \A k \in 1 .. plan.rows[o] : Rows(o, i)[k] = <<o, i, k>>
           /\ <<o, i>> \notin plan.otherqual => Rows(o, i) = <<>>
<1>. DEFINE n == plan.rows[o]
            r == [k \in 1 .. n |-> <<o, i, k>>]
<1>1. n \in 0 .. 2
    BY PlanIs
<1>2. ASSUME NEW k \in 1 .. n PROVE <<o, i, k>> \in Row
    <2>. HIDE DEF n
    <2>1. k \in 1 .. 2
        BY <1>1
    <2>. QED  BY <2>1 DEF Row
<1>. HIDE DEF n
<1>3. r \in Seq(Row) /\ Len(r) = n /\ \A k \in 1 .. n : r[k] = <<o, i, k>>
    <2>1. n \in Nat
        BY <1>1
    <2>. QED  BY <1>2, <2>1
<1>. USE DEF n
<1>4. CASE <<o, i>> \in plan.otherqual
    <2>1. Rows(o, i) = r
        BY <1>4, Zenon DEF Rows
    <2>. HIDE DEF r, n
    <2>. QED  BY <1>3, <1>4, <2>1 DEF n
<1>5. CASE <<o, i>> \notin plan.otherqual
    <2>1. Rows(o, i) = <<>>
        BY <1>5, Zenon DEF Rows
    <2>. QED  BY <1>5, <2>1
<1>. QED  BY <1>4, <1>5

\* The matches of an outer tuple.
LEMMA JoinMatchesAre ==
    ASSUME PlanOK, NEW o \in Outer
    PROVE  /\ JoinMatches(o) \in SUBSET (1 .. Len(plan.inner[o]))
           /\ Len(plan.inner[o]) \in Nat
           /\ \A k \in 1 .. Len(plan.inner[o]) :
                /\ plan.inner[o][k] \in Inner /\ plan.inner[o][k] \in 0 .. Inners
                /\ k \in JoinMatches(o) <=> <<o, plan.inner[o][k]>> \in plan.joinqual
<1>. DEFINE s == plan.inner[o]
<1>1. s \in Seq(Inner)
    BY PlanIs
<1>. HIDE DEF s
<1>2. Len(s) \in Nat /\ DOMAIN s = 1 .. Len(s) /\ \A k \in 1 .. Len(s) : s[k] \in Inner
    BY <1>1
<1>3. Inner \subseteq 0 .. Inners
    BY NestLoopAssumption DEF Inner
<1>4. JoinMatches(o) = {k \in 1 .. Len(s) : <<o, s[k]>> \in plan.joinqual}
    BY <1>2, Zenon DEF JoinMatches, s
<1>5. /\ JoinMatches(o) \in SUBSET (1 .. Len(s))
      /\ Len(s) \in Nat
      /\ \A k \in 1 .. Len(s) :
            /\ s[k] \in Inner /\ s[k] \in 0 .. Inners
            /\ k \in JoinMatches(o) <=> <<o, s[k]>> \in plan.joinqual
    BY <1>2, <1>3, <1>4, Zenon
<1>. QED  BY <1>5, Zenon DEF s

LEMMA MatchedRowsAre ==
    ASSUME PlanOK, NEW o \in Outer
    PROVE  /\ MatchedRows(o) \in Seq(Seq(Row))
           /\ Len(MatchedRows(o)) = Len(plan.inner[o])
           /\ \A k \in 1 .. Len(plan.inner[o]) :
                MatchedRows(o)[k] =
                    IF k \in JoinMatches(o) THEN Rows(o, plan.inner[o][k]) ELSE <<>>
<1>. DEFINE s == plan.inner[o]
            F(k) == IF k \in JoinMatches(o) THEN Rows(o, s[k]) ELSE <<>>
            m == [k \in 1 .. Len(s) |-> F(k)]
<1>1. s \in Seq(Inner)
    BY PlanIs
<1>2. ASSUME NEW k \in 1 .. Len(s) PROVE F(k) \in Seq(Row)
    <2>1. s[k] \in 0 .. Inners
        BY JoinMatchesAre
    <2>2. Rows(o, s[k]) \in Seq(Row)
        BY <2>1, RowsAre
    <2>3. <<>> \in Seq(Row)
        OBVIOUS
    <2>. QED  BY <2>2, <2>3, Zenon
<1>3. MatchedRows(o) = [k \in DOMAIN s |-> F(k)]
    BY Zenon DEF MatchedRows
<1>. HIDE DEF s, F
<1>4. Len(s) \in Nat /\ DOMAIN s = 1 .. Len(s)
    BY <1>1
<1>5. m \in Seq(Seq(Row)) /\ Len(m) = Len(s) /\ \A k \in 1 .. Len(s) : m[k] = F(k)
    BY <1>2, <1>4
<1>6. MatchedRows(o) = m
    BY <1>3, <1>4
<1>7. /\ MatchedRows(o) \in Seq(Seq(Row))
      /\ Len(MatchedRows(o)) = Len(s)
      /\ \A k \in 1 .. Len(s) : MatchedRows(o)[k] = F(k)
    <2>. HIDE DEF m
    <2>. QED  BY <1>5, <1>6
<1>. QED  BY <1>7, Zenon DEF s, F

LEMMA RowsOfIs ==
    ASSUME PlanOK, NEW o \in Outer
    PROVE  /\ RowsOf(o) \in Seq(Row)
           /\ plan.jointype = "INNER" =>
                RowsOf(o) = Sums(MatchedRows(o))[Len(plan.inner[o])]
           /\ plan.jointype = "LEFT" =>
                RowsOf(o) = IF JoinMatches(o) = {} THEN Rows(o, NullTuple)
                            ELSE Sums(MatchedRows(o))[Len(plan.inner[o])]
           /\ plan.jointype = "SEMI" =>
                RowsOf(o) = IF JoinMatches(o) = {} THEN <<>>
                            ELSE Rows(o, plan.inner[o][Min(JoinMatches(o))])
           /\ plan.jointype = "ANTI" =>
                RowsOf(o) = IF JoinMatches(o) = {} THEN Rows(o, NullTuple) ELSE <<>>
<1>. DEFINE n == Len(plan.inner[o])
            matched == FlattenSeq(MatchedRows(o))
            first == Rows(o, plan.inner[o][Min(JoinMatches(o))])
            null == Rows(o, NullTuple)
<1>1. matched = Sums(MatchedRows(o))[n] /\ matched \in Seq(Row)
    <2>1. /\ SumsOf(MatchedRows(o), Sums(MatchedRows(o)))
          /\ matched = Sums(MatchedRows(o))[Len(MatchedRows(o))]
        BY MatchedRowsAre, SumsAre
    <2>2. Len(MatchedRows(o)) = n /\ n \in 0 .. n
        BY MatchedRowsAre, JoinMatchesAre
    <2>. HIDE DEF n, matched
    <2>3. Sums(MatchedRows(o)) \in [0 .. n -> Seq(Row)]
        BY <2>1, <2>2, Zenon DEF SumsOf
    <2>. QED  BY <2>1, <2>2, <2>3
<1>2. null \in Seq(Row)
    <2>1. NullTuple \in 0 .. Inners
        BY NestLoopAssumption DEF NullTuple
    <2>. QED  BY <2>1, RowsAre
<1>3. JoinMatches(o) # {} => first \in Seq(Row)
    <2>1. JoinMatches(o) \in SUBSET Nat
        BY JoinMatchesAre
    <2>2. JoinMatches(o) # {} => Min(JoinMatches(o)) \in JoinMatches(o)
        BY <2>1, MinIsLeast
    <2>3. JoinMatches(o) # {} => plan.inner[o][Min(JoinMatches(o))] \in 0 .. Inners
        BY <2>2, JoinMatchesAre
    <2>. QED  BY <2>3, RowsAre
<1>4. <<>> \in Seq(Row)
    OBVIOUS
<1>5. plan.jointype \in {"INNER", "LEFT", "SEMI", "ANTI"}
    BY PlanIs
<1>6. RowsOf(o) = CASE plan.jointype = "INNER" -> matched
                    [] plan.jointype = "LEFT" -> IF JoinMatches(o) = {} THEN null ELSE matched
                    [] plan.jointype = "SEMI" -> IF JoinMatches(o) = {} THEN <<>> ELSE first
                    [] plan.jointype = "ANTI" -> IF JoinMatches(o) = {} THEN null ELSE <<>>
    BY Zenon DEF RowsOf
<1>. HIDE DEF n, matched, first, null
<1>7. /\ plan.jointype = "INNER" => RowsOf(o) = matched
      /\ plan.jointype = "LEFT" =>
            RowsOf(o) = IF JoinMatches(o) = {} THEN null ELSE matched
      /\ plan.jointype = "SEMI" =>
            RowsOf(o) = IF JoinMatches(o) = {} THEN <<>> ELSE first
      /\ plan.jointype = "ANTI" =>
            RowsOf(o) = IF JoinMatches(o) = {} THEN null ELSE <<>>
    BY <1>6
<1>8. RowsOf(o) \in Seq(Row)
    BY <1>1, <1>2, <1>3, <1>4, <1>5, <1>7
<1>. QED  BY <1>1, <1>7, <1>8, Zenon DEF n, matched, first, null

\* The sums of the matches of an outer tuple, one inner tuple after the other.
LEMMA MatchedSums ==
    ASSUME PlanOK, NEW o \in Outer
    PROVE  /\ Sums(MatchedRows(o)) \in [0 .. Len(plan.inner[o]) -> Seq(Row)]
           /\ Sums(MatchedRows(o))[0] = <<>>
           /\ \A k \in 1 .. Len(plan.inner[o]) :
                Sums(MatchedRows(o))[k] =
                    Sums(MatchedRows(o))[k - 1] \o
                        (IF k \in JoinMatches(o) THEN Rows(o, plan.inner[o][k]) ELSE <<>>)
<1>. DEFINE n == Len(plan.inner[o])
<1>1. SumsOf(MatchedRows(o), Sums(MatchedRows(o)))
    BY MatchedRowsAre, SumsAre
<1>2. Len(MatchedRows(o)) = n
    BY MatchedRowsAre
<1>3. \A k \in 1 .. n :
          MatchedRows(o)[k] = IF k \in JoinMatches(o) THEN Rows(o, plan.inner[o][k]) ELSE <<>>
    BY MatchedRowsAre
<1>. QED  BY <1>1, <1>2, <1>3, Zenon DEF SumsOf

LEMMA ResultIs ==
    ASSUME PlanOK
    PROVE  /\ Outers \in Nat
           /\ ResultRows \in Seq(Seq(Row)) /\ Len(ResultRows) = Outers
           /\ Sums(ResultRows) \in [0 .. Outers -> Seq(Row)]
           /\ Sums(ResultRows)[0] = <<>>
           /\ \A o \in Outer :
                Sums(ResultRows)[o] = Sums(ResultRows)[o - 1] \o RowsOf(o)
           /\ JoinResult = Sums(ResultRows)[Outers]
<1>. DEFINE r == ResultRows
<1>1. Outers \in Nat
    BY NestLoopAssumption
<1>2. \A o \in Outer : RowsOf(o) \in Seq(Row)
    BY RowsOfIs
<1>3. r = [o \in 1 .. Outers |-> RowsOf(o)]
    BY Zenon DEF ResultRows, Outer
<1>4. r \in Seq(Seq(Row)) /\ Len(r) = Outers /\ \A o \in 1 .. Outers : r[o] = RowsOf(o)
    BY <1>1, <1>2, <1>3 DEF Outer
<1>5. JoinResult = FlattenSeq(r)
    BY Zenon DEF JoinResult, ResultRows
<1>. HIDE DEF r
<1>6. SumsOf(r, Sums(r)) /\ FlattenSeq(r) = Sums(r)[Len(r)]
    BY <1>4, SumsAre
<1>7. /\ Sums(r) \in [0 .. Outers -> Seq(Row)] /\ Sums(r)[0] = <<>>
      /\ \A o \in 1 .. Outers : Sums(r)[o] = Sums(r)[o - 1] \o RowsOf(o)
    BY <1>4, <1>6, Zenon DEF SumsOf
<1>8. JoinResult = Sums(r)[Outers]
    BY <1>4, <1>5, <1>6, Zenon
<1>. QED  BY <1>1, <1>4, <1>7, <1>8, Zenon DEF r, Outer

-----------------------------------------------------------------------------
(***************************************************************************)
(* Prefixes                                                                *)
(***************************************************************************)

\* IsPrefix, position by position.
Begins(s, t) == Len(s) <= Len(t) /\ \A k \in 1 .. Len(s) : t[k] = s[k]

LEMMA BeginsIsPrefix ==
    ASSUME NEW s \in Seq(Row), NEW t \in Seq(Row), Begins(s, t)
    PROVE  IsPrefix(s, t)
BY DEF Begins, IsPrefix

LEMMA BeginsConcat ==
    ASSUME NEW s \in Seq(Row), NEW t \in Seq(Row)
    PROVE  Begins(s, s \o t)
BY DEF Begins

LEMMA BeginsTransitive ==
    ASSUME NEW s \in Seq(Row), NEW t \in Seq(Row), NEW u \in Seq(Row),
           Begins(s, t), Begins(t, u)
    PROVE  Begins(s, u)
<1>1. Len(s) \in Nat /\ Len(t) \in Nat /\ Len(u) \in Nat
    OBVIOUS
<1>. QED  BY <1>1 DEF Begins

LEMMA ConcatBegins ==
    ASSUME NEW s \in Seq(Row), NEW t \in Seq(Row), NEW u \in Seq(Row), Begins(t, u)
    PROVE  Begins(s \o t, s \o u)
<1>. DEFINE a == s \o t
            b == s \o u
<1>1. /\ Len(a) = Len(s) + Len(t) /\ Len(b) = Len(s) + Len(u)
      /\ Len(s) \in Nat /\ Len(t) \in Nat /\ Len(u) \in Nat
    OBVIOUS
<1>2. /\ \A k \in 1 .. Len(a) : a[k] = IF k <= Len(s) THEN s[k] ELSE t[k - Len(s)]
      /\ \A k \in 1 .. Len(b) : b[k] = IF k <= Len(s) THEN s[k] ELSE u[k - Len(s)]
    OBVIOUS
<1>. HIDE DEF a, b
<1>3. ASSUME NEW k \in 1 .. Len(a) PROVE b[k] = a[k]
    <2>1. k \in 1 .. Len(b)
        BY <1>1 DEF Begins
    <2>2. CASE k <= Len(s)
        BY <1>2, <2>1, <2>2
    <2>3. CASE k > Len(s)
        <3>1. k - Len(s) \in 1 .. Len(t)
            BY <1>1, <2>3
        <3>2. u[k - Len(s)] = t[k - Len(s)]
            BY <3>1 DEF Begins
        <3>3. ~(k <= Len(s))
            BY <1>1, <2>3
        <3>4. a[k] = t[k - Len(s)] /\ b[k] = u[k - Len(s)]
            BY <1>2, <2>1, <3>3, Zenon
        <3>. QED  BY <3>2, <3>4
    <2>. QED  BY <1>1, <2>2, <2>3
<1>4. Begins(a, b)
    BY <1>1, <1>3 DEF Begins
<1>. QED  BY <1>4 DEF a, b

\* The sums of more sequences begin with those of fewer.
LEMMA SumsBegin ==
    ASSUME NEW n \in Nat, NEW f \in [0 .. n -> Seq(Row)], NEW r \in [1 .. n -> Seq(Row)],
           \A k \in 1 .. n : f[k] = f[k - 1] \o r[k],
           NEW m \in 0 .. n
    PROVE  Begins(f[m], f[n])
<1>. DEFINE T == {j \in 0 .. n : m + j <= n => Begins(f[m], f[m + j])}
<1>1. 0 \in T
    BY DEF Begins
<1>2. ASSUME NEW j \in 0 .. n, j < n, j \in T PROVE j + 1 \in T
    <2>1. SUFFICES ASSUME m + (j + 1) <= n PROVE Begins(f[m], f[m + (j + 1)])
        BY <1>2
    <2>2. m + j \in 0 .. n /\ m + (j + 1) \in 1 .. n /\ (m + (j + 1)) - 1 = m + j
        BY <2>1
    <2>3. Begins(f[m], f[m + j])
        BY <1>2, <2>2
    <2>. DEFINE i == m + (j + 1)
    <2>4. f[i] = f[i - 1] \o r[i] /\ r[i] \in Seq(Row) /\ i - 1 = m + j
        BY <2>2
    <2>5. f[m] \in Seq(Row) /\ f[m + j] \in Seq(Row)
        BY <2>2
    <2>. HIDE DEF i
    <2>6. f[i] \in Seq(Row) /\ Begins(f[m + j], f[i])
        <3>. DEFINE s == f[m + j]
                    t == r[i]
        <3>1. f[i] = s \o t /\ s \in Seq(Row) /\ t \in Seq(Row)
            BY <2>4, <2>5, Zenon
        <3>. HIDE DEF s, t
        <3>2. f[i] \in Seq(Row) /\ Begins(s, f[i])
            BY <3>1, BeginsConcat, ConcatProperties
        <3>. QED  BY <3>2 DEF s
    <2>7. Begins(f[m], f[i])
        BY <2>3, <2>5, <2>6, BeginsTransitive
    <2>. QED  BY <2>7 DEF i
<1>. HIDE DEF T
<1>3. \A j \in 0 .. n : j \in T
    BY <1>1, <1>2, Induction
<1>4. n - m \in T
    BY <1>3
<1>. QED  BY <1>4 DEF T

-----------------------------------------------------------------------------
(***************************************************************************)
(* Steps                                                                   *)
(***************************************************************************)

\* The plan of a node does not change, nor what the join is.
LEMMA PlanKept ==
    ASSUME plan' = plan
    PROVE  /\ PlanOK => PlanOK'
           /\ ResultRows' = ResultRows
           /\ \A o : /\ MatchedRows(o)' = MatchedRows(o)
                     /\ JoinMatches(o)' = JoinMatches(o)
<1>1. PlanOK => PlanOK'
    BY Zenon DEF PlanOK, Buildable
<1>2. \A o : JoinMatches(o)' = JoinMatches(o)
    BY Zenon DEF JoinMatches
<1>3. \A o, i : Rows(o, i)' = Rows(o, i)
    BY Zenon DEF Rows
<1>4. \A o : MatchedRows(o)' = MatchedRows(o)
    BY <1>2, <1>3, Zenon DEF MatchedRows
<1>5. \A o : RowsOf(o)' = RowsOf(o)
    BY <1>2, <1>3, <1>4, Zenon DEF RowsOf
<1>6. ResultRows' = ResultRows
    BY <1>5, Zenon DEF ResultRows
<1>. QED  BY <1>1, <1>2, <1>4, <1>6, Zenon

LEMMA LeftIs ==
    ASSUME LoopInv
    PROVE  /\ Left \in Nat
           /\ ~ps_TupFromTlist => Left = 0
           /\ ps_TupFromTlist => /\ joined[1] \in Outer /\ joined[2] \in 0 .. Inners
                                 /\ plan.rows[joined[1]] \in 0 .. 2
<1>1. CASE ~ps_TupFromTlist
    BY <1>1 DEF Left
<1>2. CASE ps_TupFromTlist
    <2>1. joined \in Pairs /\ projected <= plan.rows[joined[1]] /\ projected \in 0 .. 2
        BY <1>2 DEF LoopInv, PlaceInv, TypeOK
    <2>2. joined[1] \in Outer /\ joined[2] \in 0 .. Inners
        BY <2>1, NestLoopAssumption DEF Pairs, Inner, NullTuple
    <2>3. plan.rows[joined[1]] \in 0 .. 2
        BY <2>2, PlanIs DEF LoopInv
    <2>. QED  BY <1>2, <2>1, <2>2, <2>3 DEF Left
<1>. QED  BY <1>1, <1>2

\* The sequences LoopInv speaks of.
LEMMA DoneIs ==
    ASSUME LoopInv
    PROVE  /\ Done \in Seq(Row)
           /\ nl_NeedNewOuter => Done = Sums(ResultRows)[opos]
           /\ ~nl_NeedNewOuter =>
                /\ opos \in Outer /\ ipos \in 0 .. Len(plan.inner[opos])
                /\ Part \in Seq(Row) /\ Sums(ResultRows)[opos - 1] \in Seq(Row)
                /\ Done = Sums(ResultRows)[opos - 1] \o Part
<1>1. opos \in 0 .. Outers /\ Outers \in Nat
    BY ResultIs DEF LoopInv, TypeOK
<1>2. CASE nl_NeedNewOuter
    <2>1. Sums(ResultRows)[opos] \in Seq(Row)
        BY <1>1, ResultIs DEF LoopInv
    <2>2. Done = Sums(ResultRows)[opos]
        BY <1>2, Zenon DEF Done
    <2>. QED  BY <1>2, <2>1, <2>2
<1>3. CASE ~nl_NeedNewOuter
    <2>1. opos \in Outer /\ ipos \in 0 .. Len(plan.inner[opos]) /\ opos - 1 \in 0 .. Outers
        BY <1>1, <1>3 DEF LoopInv, TypeOK, InnerPlan, Outer
    <2>2. Sums(ResultRows)[opos - 1] \in Seq(Row)
        BY <2>1, ResultIs DEF LoopInv
    <2>3. Sums(MatchedRows(opos))[ipos] \in Seq(Row)
        <3>1. Sums(MatchedRows(opos)) \in [0 .. Len(plan.inner[opos]) -> Seq(Row)]
            BY <2>1, MatchedSums DEF LoopInv
        <3>. QED  BY <2>1, <3>1, Zenon
    <2>4. Part \in Seq(Row)
        <3>1. <<>> \in Seq(Row)
            OBVIOUS
        <3>. QED  BY <2>3, <3>1, Zenon DEF Part
    <2>5. Done = Sums(ResultRows)[opos - 1] \o Part
        BY <1>3, Zenon DEF Done
    <2>. QED  BY <1>3, <2>1, <2>2, <2>4, <2>5, ConcatProperties
<1>. QED  BY <1>2, <1>3

\* A step that returns nothing.
LEMMA AgreesKept ==
    ASSUME NEW d, Agrees(d), out' = out, ~ps_TupFromTlist, ~ps_TupFromTlist'
    PROVE  Agrees(d)'
<1>1. Left = 0 /\ Left' = 0
    BY Zenon DEF Left
<1>. QED  BY <1>1 DEF Agrees

LEMMA AppendRow ==
    ASSUME NEW s \in Seq(Row), NEW r \in Row, NEW t, t = Append(s, r)
    PROVE  /\ t \in Seq(Row) /\ Len(t) = Len(s) + 1 /\ t[Len(s) + 1] = r
           /\ \A k \in 1 .. Len(s) : t[k] = s[k]
           /\ Len(s) \in Nat
BY AppendProperties

\* A step that returns the next row of the last join tuple.
LEMMA AgreesNext ==
    ASSUME LoopInv, NEW d, Agrees(d), ps_TupFromTlist, ps_TupFromTlist',
           projected < plan.rows[joined[1]],
           out' = Append(out, <<joined[1], joined[2], projected + 1>>),
           UNCHANGED <<plan, joined>>, projected' = projected + 1
    PROVE  Agrees(d)' /\ out' \in Seq(Row) /\ projected' \in 0 .. 2
<1>1. /\ joined[1] \in Outer /\ joined[2] \in 0 .. Inners
      /\ plan.rows[joined[1]] \in 0 .. 2 /\ projected \in 0 .. 2 /\ out \in Seq(Row)
    BY LeftIs DEF LoopInv, TypeOK
<1>. DEFINE n == plan.rows[joined[1]]
            row(k) == <<joined[1], joined[2], k>>
<1>2. Left = n - projected /\ Left' = n - (projected + 1) /\ n \in 0 .. 2 /\ projected < n
    BY <1>1, Zenon DEF Left
<1>3. row(projected + 1) \in Row
    <2>1. projected + 1 \in 1 .. 2
        BY <1>1
    <2>. QED  BY <1>1, <2>1 DEF Row
<1>4. /\ Len(d) = Len(out) + Left
      /\ \A k \in 1 .. Len(out) : out[k] = d[k]
      /\ \A k \in 1 .. Left : d[Len(out) + k] = row(projected + k)
    BY Zenon DEF Agrees
<1>5. joined' = joined /\ out' = Append(out, row(projected + 1))
    OBVIOUS
<1>. HIDE DEF n, row
<1>6. /\ out' \in Seq(Row) /\ Len(out') = Len(out) + 1 /\ out'[Len(out) + 1] = row(projected + 1)
      /\ \A k \in 1 .. Len(out) : out'[k] = out[k]
      /\ Len(out) \in Nat
    BY <1>1, <1>3, <1>5, AppendRow, Zenon
<1>7. Len(d) = Len(out') + Left'
    <2>1. projected \in 0 .. 2 /\ Len(out) \in Nat
        BY <1>1, <1>6, Zenon
    <2>2. Len(d) = Len(out) + Left /\ Len(out') = Len(out) + 1
        BY <1>4, <1>6, Zenon
    <2>. HIDE DEF Left
    <2>. QED  BY <1>2, <2>1, <2>2
<1>8. ASSUME NEW k \in 1 .. Len(out') PROVE out'[k] = d[k]
    <2>1. CASE k = Len(out) + 1
        <3>1. d[Len(out) + 1] = row(projected + 1)
            BY <1>1, <1>2, <1>4
        <3>. QED  BY <1>6, <2>1, <3>1
    <2>2. CASE k \in 1 .. Len(out)
        BY <1>4, <1>6, <2>2
    <2>. QED  BY <1>6, <2>1, <2>2
<1>9. ASSUME NEW k \in 1 .. Left' PROVE d[Len(out') + k] = row(projected' + k)
    <2>1. k + 1 \in 1 .. Left /\ Len(out') + k = Len(out) + (k + 1)
        BY <1>1, <1>2, <1>6
    <2>2. projected' + k = projected + (k + 1)
        BY <1>1, <2>1
    <2>. QED  BY <1>4, <2>1, <2>2
<1>10. projected' \in 0 .. 2
    BY <1>1, <1>2
<1>11. Agrees(d)'
    BY <1>5, <1>7, <1>8, <1>9, Zenon DEF Agrees, row
<1>. QED  BY <1>6, <1>10, <1>11

\* A step that projects a new join tuple: its first row is returned, the others
\* are left.
LEMMA ProjectAgrees ==
    ASSUME LoopInv, NEW d \in Seq(Row), Agrees(d), ~ps_TupFromTlist, pc = "loop",
           NEW o \in Outer, NEW i \in Inner \cup {NullTuple},
           <<o, i>> \in plan.otherqual, Project(o, i), plan' = plan,
           NEW e, e = d \o Rows(o, i)
    PROVE  /\ Agrees(e)' /\ out' \in Seq(Row)
           /\ joined' \in Pairs /\ projected' \in 0 .. 2 /\ ps_TupFromTlist' \in BOOLEAN
           /\ ps_TupFromTlist' => projected' <= plan'.rows[joined'[1]]
           /\ pc' \in {"idle", "loop"}
           /\ pc' = "loop" => ~ps_TupFromTlist'
<1>. DEFINE n == plan.rows[o]
            r == Rows(o, i)
<1>1. i \in 0 .. Inners
    BY NestLoopAssumption DEF Inner, NullTuple
<1>2. r \in Seq(Row) /\ Len(r) = n /\ \A k \in 1 .. n : r[k] = <<o, i, k>>
    BY <1>1, RowsAre DEF LoopInv
<1>3. n \in 0 .. 2 /\ (~plan.returnsSet => n = 1) /\ plan.returnsSet \in BOOLEAN
    BY PlanIs DEF LoopInv, PlanOK, Plans
<1>4. joined' = <<o, i>> /\ joined' \in Pairs
    BY DEF Project, Pairs
<1>5. /\ out \in Seq(Row) /\ Len(out) \in Nat /\ Len(d) \in Nat /\ Len(d) = Len(out)
      /\ \A k \in 1 .. Len(out) : out[k] = d[k]
    <2>1. Left = 0
        BY Zenon DEF Left
    <2>2. Len(d) = Len(out) + Left /\ \A k \in 1 .. Len(out) : out[k] = d[k]
        BY Zenon DEF Agrees
    <2>3. out \in Seq(Row)
        BY DEF LoopInv
    <2>. QED  BY <2>1, <2>2, <2>3
<1>. HIDE DEF r
<1>6. e = d \o r
    BY Zenon DEF r
<1>7. /\ Len(e) = Len(out) + n
      /\ \A k \in 1 .. Len(out) : e[k] = out[k]
      /\ \A k \in 1 .. n : e[Len(out) + k] = <<o, i, k>>
    <2>. HIDE DEF n
    <2>1. \A k \in 1 .. Len(d) + Len(r) : e[k] = IF k <= Len(d) THEN d[k] ELSE r[k - Len(d)]
        BY <1>2, <1>6, ConcatProperties
    <2>2. Len(e) = Len(d) + Len(r)
        BY <1>2, <1>6, ConcatProperties
    <2>3. ASSUME NEW k \in 1 .. n PROVE e[Len(out) + k] = <<o, i, k>>
        <3>1. /\ Len(out) + k \in 1 .. Len(d) + Len(r) /\ ~(Len(out) + k <= Len(d))
              /\ (Len(out) + k) - Len(d) = k
            BY <1>2, <1>3, <1>5
        <3>2. e[Len(out) + k] = r[k]
            BY <2>1, <3>1
        <3>. QED  BY <1>2, <3>2
    <2>. QED  BY <1>2, <1>3, <1>5, <2>1, <2>2, <2>3
<1>8. CASE n > 0
    <2>1. /\ projected' = 1 /\ ps_TupFromTlist' = plan.returnsSet
          /\ out' = Append(out, <<o, i, 1>>) /\ pc' = "idle"
        BY <1>8, Zenon DEF Project, Return
    <2>2. <<o, i, 1>> \in Row
        BY <1>1 DEF Row
    <2>3. /\ out' \in Seq(Row) /\ Len(out') = Len(out) + 1 /\ out'[Len(out) + 1] = <<o, i, 1>>
          /\ \A k \in 1 .. Len(out) : out'[k] = out[k]
        BY <1>5, <2>1, <2>2, AppendProperties
    <2>4. Left' = n - 1
        <3>1. ps_TupFromTlist' => Left' = n - 1
            BY <1>4, <2>1 DEF Left
        <3>2. ~ps_TupFromTlist' => Left' = 0 /\ n = 1
            BY <1>3, <2>1 DEF Left
        <3>. QED  BY <3>1, <3>2
    <2>. HIDE DEF n
    <2>5. Len(e) = Len(out') + Left'
        BY <1>3, <1>5, <1>7, <2>3, <2>4
    <2>6. ASSUME NEW k \in 1 .. Len(out') PROVE out'[k] = e[k]
        <3>1. CASE k = Len(out) + 1
            <4>1. 1 \in 1 .. n
                BY <1>3, <1>8 DEF n
            <4>2. e[Len(out) + 1] = <<o, i, 1>>
                BY <1>7, <4>1, Zenon
            <4>. QED  BY <2>3, <3>1, <4>2, Zenon
        <3>2. CASE k \in 1 .. Len(out)
            BY <1>7, <2>3, <3>2, Zenon
        <3>3. k = Len(out) + 1 \/ k \in 1 .. Len(out)
            <4>1. k \in 1 .. Len(out) + 1
                BY <2>3, Zenon
            <4>. QED  BY <1>5, <4>1
        <3>. QED  BY <3>1, <3>2, <3>3
    <2>7. ASSUME NEW k \in 1 .. Left' PROVE e[Len(out') + k] = <<joined'[1], joined'[2], projected' + k>>
        <3>1. k + 1 \in 1 .. n /\ Len(out') + k = Len(out) + (k + 1)
            BY <1>3, <1>5, <2>3, <2>4
        <3>2. projected' + k = k + 1 /\ joined'[1] = o /\ joined'[2] = i
            BY <1>4, <2>1, <3>1
        <3>3. e[Len(out) + (k + 1)] = <<o, i, k + 1>>
            BY <1>7, <3>1
        <3>. QED  BY <3>1, <3>2, <3>3
    <2>8. Agrees(e)'
        BY <2>5, <2>6, <2>7, Zenon DEF Agrees
    <2>9. projected' <= plan'.rows[joined'[1]]
        BY <1>3, <1>4, <1>8, <2>1 DEF n
    <2>. QED  BY <1>3, <1>4, <2>1, <2>3, <2>8, <2>9
<1>9. CASE n = 0
    <2>1. UNCHANGED <<projected, ps_TupFromTlist, pc, out>>
        BY <1>9 DEF Project
    <2>2. Left' = 0
        BY <2>1 DEF Left
    <2>3. Agrees(e)'
        BY <1>5, <1>7, <1>9, <2>1, <2>2 DEF Agrees
    <2>4. projected \in 0 .. 2 /\ ps_TupFromTlist \in BOOLEAN
        BY DEF LoopInv, TypeOK
    <2>. QED  BY <1>4, <1>5, <2>1, <2>3, <2>4
<1>. QED  BY <1>3, <1>8, <1>9

-----------------------------------------------------------------------------
(***************************************************************************)
(* Every action keeps LoopInv                                              *)
(***************************************************************************)

LEMMA InitLoop ==
    ASSUME Init
    PROVE  LoopInv
<1>1. PlanOK
    BY NestLoopAssumption DEF Init, PlanOK, Plans
<1>2. TypeOK /\ ipos \in Nat /\ out \in Seq(Row)
    <2>1. opos \in 0 .. Outers /\ projected \in 0 .. 2 /\ ipos \in Nat /\ out \in Seq(Row)
        BY NestLoopAssumption DEF Init
    <2>2. joined \in {<<0, NullTuple>>} \cup Pairs
        BY Zenon DEF Init
    <2>. QED  BY <2>1, <2>2 DEF Init, TypeOK
<1>3. PlaceInv /\ MatchedInv
    BY DEF Init, PlaceInv, MatchedInv
<1>4. Done = <<>>
    <2>1. Done = Sums(ResultRows)[0]
        BY Zenon DEF Init, Done
    <2>. QED  BY <1>1, <2>1, ResultIs
<1>5. Agrees(Done)
    <2>1. Left = 0 /\ out = <<>>
        BY DEF Init, Left
    <2>2. Agrees(<<>>)
        BY <2>1 DEF Agrees
    <2>. QED  BY <1>4, <2>2
<1>. QED  BY <1>1, <1>2, <1>3, <1>5 DEF LoopInv

\* What MatchedInv and Done speak of stays the same.
LEMMA PlaceKept ==
    ASSUME LoopInv, UNCHANGED <<plan, nl_NeedNewOuter, nl_MatchedOuter, opos, ipos>>
    PROVE  PlanOK' /\ MatchedInv' /\ Done' = Done /\ ipos' \in Nat
<1>1. PlanOK' /\ ipos' \in Nat
    BY PlanKept DEF LoopInv
<1>2. /\ ResultRows' = ResultRows /\ MatchedRows(opos)' = MatchedRows(opos)
      /\ JoinMatches(opos)' = JoinMatches(opos)
    <2>1. ResultRows' = ResultRows
        BY PlanKept
    <2>2. JoinMatches(opos)' = JoinMatches(opos)
        BY Zenon DEF JoinMatches
    <2>3. MatchedRows(opos)' = MatchedRows(opos)
        BY Zenon DEF MatchedRows, JoinMatches, Rows
    <2>. QED  BY <2>1, <2>2, <2>3
<1>3. Part' = Part
    BY <1>2, Zenon DEF Part
<1>4. Done' = Done
    BY <1>2, <1>3, Zenon DEF Done
<1>5. MatchedInv'
    BY <1>2, <1>3, Zenon DEF LoopInv, MatchedInv
<1>. QED  BY <1>1, <1>4, <1>5

LEMMA CallProjectsKeeps ==
    ASSUME LoopInv, CallProjects
    PROVE  LoopInv'
<1>1. UNCHANGED <<plan, nl_NeedNewOuter, nl_MatchedOuter, opos, ipos, joined, ended,
                  ps_TupFromTlist>>
    BY DEF CallProjects
<1>2. PlanOK' /\ MatchedInv' /\ Done' = Done /\ ipos' \in Nat
    BY <1>1, PlaceKept
<1>3. Agrees(Done)
    BY DEF LoopInv
<1>4. /\ projected < plan.rows[joined[1]] /\ projected' = projected + 1 /\ ps_TupFromTlist
      /\ out' = Append(out, <<joined[1], joined[2], projected + 1>>) /\ pc' = "idle" /\ ~ended
    BY DEF CallProjects, CallTop, Return
<1>. DEFINE d == Done
<1>5. d' = d
    BY <1>2
<1>6. \E e : e = d /\ Agrees(e)' /\ out' \in Seq(Row) /\ projected' \in 0 .. 2
    <2>1. PICK e : e = d
        OBVIOUS
    <2>2. Agrees(e)
        BY <1>3, <2>1
    <2>3. Agrees(e)' /\ out' \in Seq(Row) /\ projected' \in 0 .. 2
        BY <1>1, <1>4, <2>2, AgreesNext
    <2>. QED  BY <2>1, <2>3
<1>7. Agrees(Done)' /\ out' \in Seq(Row) /\ projected' \in 0 .. 2
    BY <1>5, <1>6, Zenon DEF Agrees
<1>8. TypeOK'
    BY <1>1, <1>4, <1>7 DEF LoopInv, TypeOK, InnerPlan
<1>9. PlaceInv'
    <2>1. projected' <= plan'.rows[joined'[1]]
        <3>1. plan.rows[joined[1]] \in 0 .. 2 /\ projected \in 0 .. 2
            BY <1>4, LeftIs DEF LoopInv, TypeOK
        <3>. QED  BY <1>1, <1>4, <3>1
    <2>. QED  BY <1>1, <1>4, <2>1 DEF LoopInv, PlaceInv
<1>. QED  BY <1>2, <1>7, <1>8, <1>9 DEF LoopInv

\* A step that returns nothing and leaves Done as it was.
LEMMA NothingReturned ==
    ASSUME LoopInv, ~ps_TupFromTlist', out' = out, Left = 0, Done' = Done
    PROVE  Agrees(Done)'
<1>1. Left' = 0
    BY Zenon DEF Left
<1>2. Agrees(Done)
    BY DEF LoopInv
<1>3. /\ Len(Done) = Len(out) + 0 /\ \A n \in 1 .. Len(out) : out[n] = Done[n]
    BY <1>2, Zenon DEF Agrees
<1>4. \A k \in 1 .. 0 : Done[Len(out) + k] = <<joined'[1], joined'[2], projected' + k>>
    OBVIOUS
<1>. QED  BY <1>1, <1>3, <1>4, Zenon DEF Agrees

LEMMA CallJoinsKeeps ==
    ASSUME LoopInv, CallJoins
    PROVE  LoopInv'
<1>1. /\ UNCHANGED <<plan, nl_NeedNewOuter, nl_MatchedOuter, opos, ipos, joined, ended,
                     projected, out>>
      /\ ps_TupFromTlist' = FALSE /\ pc' = "loop" /\ ~ended
      /\ ps_TupFromTlist => projected = plan.rows[joined[1]]
    BY DEF CallJoins, CallTop
<1>2. PlanOK' /\ MatchedInv' /\ Done' = Done /\ ipos' \in Nat
    BY <1>1, PlaceKept
<1>3. Left = 0
    <2>1. projected \in 0 .. 2
        BY DEF LoopInv, TypeOK
    <2>. QED  BY <1>1, <2>1 DEF Left
<1>4. Agrees(Done)'
    BY <1>1, <1>2, <1>3, NothingReturned
<1>5. TypeOK' /\ out' \in Seq(Row)
    BY <1>1 DEF LoopInv, TypeOK, InnerPlan
<1>6. PlaceInv'
    BY <1>1 DEF LoopInv, PlaceInv
<1>. QED  BY <1>2, <1>4, <1>5, <1>6 DEF LoopInv

LEMMA NewOuterKeeps ==
    ASSUME LoopInv, NewOuter
    PROVE  LoopInv'
<1>1. /\ UNCHANGED <<plan, joined, ended, projected, out, pc, ps_TupFromTlist>>
      /\ opos' = opos + 1 /\ ipos' = 0 /\ nl_MatchedOuter' = FALSE
      /\ nl_NeedNewOuter' = FALSE /\ nl_NeedNewOuter /\ opos < Outers /\ pc = "loop"
    BY DEF NewOuter, NotMatched, InnerRescanned
<1>2. ~ps_TupFromTlist /\ ~ended /\ Left = 0
    BY <1>1, LeftIs DEF LoopInv, PlaceInv
<1>3. opos' \in Outer /\ opos' \in 0 .. Outers /\ opos' > 0 /\ opos' - 1 = opos /\ opos \in 0 .. Outers
    BY <1>1, ResultIs DEF LoopInv, TypeOK, Outer
<1>4. PlanOK' /\ ResultRows' = ResultRows
    BY <1>1, PlanKept DEF LoopInv
<1>5. Part' = <<>>
    <2>1. Sums(MatchedRows(opos'))[0] = <<>>
        BY <1>3, MatchedSums DEF LoopInv
    <2>2. MatchedRows(opos)' = MatchedRows(opos')
        BY <1>1, Zenon DEF MatchedRows, JoinMatches, Rows
    <2>. QED  BY <1>1, <2>1, <2>2, Zenon DEF Part
<1>6. Done' = Done
    <2>1. Done = Sums(ResultRows)[opos] /\ Done \in Seq(Row)
        BY <1>1, DoneIs
    <2>2. Done' = Sums(ResultRows)[opos' - 1] \o <<>>
        BY <1>1, <1>4, <1>5, Zenon DEF Done
    <2>3. Done' = Done \o <<>>
        BY <1>3, <2>1, <2>2, Zenon
    <2>. QED  BY <2>1, <2>3, ConcatEmptySeq
<1>7. Agrees(Done)'
    BY <1>1, <1>2, <1>6, NothingReturned
<1>8. MatchedInv'
    <2>1. JoinMatches(opos)' = JoinMatches(opos')
        BY <1>1, Zenon DEF JoinMatches
    <2>2. \A k \in JoinMatches(opos') : ~(k <= 0)
        <3>1. JoinMatches(opos') \in SUBSET (1 .. Len(plan.inner[opos'])) /\ Len(plan.inner[opos']) \in Nat
            BY <1>3, JoinMatchesAre DEF LoopInv
        <3>. HIDE DEF JoinMatches
        <3>. QED  BY <3>1
    <2>. QED  BY <1>1, <1>5, <2>1, <2>2, Zenon DEF MatchedInv
<1>9. TypeOK' /\ out' \in Seq(Row) /\ ipos' \in Nat
    <2>1. ipos' \in 0 .. Len(InnerPlan)'
        <3>1. Len(plan.inner[opos']) \in Nat
            BY <1>3, JoinMatchesAre DEF LoopInv
        <3>2. InnerPlan' = plan.inner[opos']
            BY <1>1 DEF InnerPlan
        <3>. QED  BY <1>1, <3>1, <3>2
    <2>. QED  BY <1>1, <1>3, <2>1 DEF LoopInv, TypeOK
<1>10. PlaceInv'
    BY <1>1, <1>2 DEF LoopInv, PlaceInv
<1>. QED  BY <1>4, <1>7, <1>8, <1>9, <1>10 DEF LoopInv

LEMMA NoMoreOuterKeeps ==
    ASSUME LoopInv, NoMoreOuter
    PROVE  LoopInv'
<1>1. /\ UNCHANGED <<plan, nl_NeedNewOuter, nl_MatchedOuter, opos, ipos, joined, projected,
                     ps_TupFromTlist, out>>
      /\ ended' = TRUE /\ pc = "loop" /\ pc' = "idle" /\ nl_NeedNewOuter /\ opos = Outers
    BY DEF NoMoreOuter
<1>2. PlanOK' /\ MatchedInv' /\ Done' = Done /\ ipos' \in Nat
    BY <1>1, PlaceKept
<1>3. ~ps_TupFromTlist /\ Left = 0
    BY <1>1, LeftIs DEF LoopInv, PlaceInv
<1>4. Agrees(Done)'
    BY <1>1, <1>2, <1>3, NothingReturned
<1>5. TypeOK' /\ out' \in Seq(Row)
    BY <1>1 DEF LoopInv, TypeOK, InnerPlan
<1>6. PlaceInv'
    BY <1>1, <1>3 DEF LoopInv, PlaceInv
<1>. QED  BY <1>2, <1>4, <1>5, <1>6 DEF LoopInv

\* At the end of the inner scan the outer tuple has given what it contributes,
\* or lacks the row with nulls.
LEMMA OuterGiven ==
    ASSUME LoopInv, ~nl_NeedNewOuter, ipos = Len(plan.inner[opos])
    PROVE  IF ~nl_MatchedOuter /\ NullExtends /\ <<opos, NullTuple>> \in plan.otherqual
           THEN Part = <<>> /\ RowsOf(opos) = Rows(opos, NullTuple)
           ELSE RowsOf(opos) = Part
<1>1. PlanOK /\ opos \in Outer
    BY DoneIs DEF LoopInv
<1>2. nl_MatchedOuter <=> JoinMatches(opos) # {}
    <2>1. \A k \in JoinMatches(opos) : k <= ipos
        <3>1. JoinMatches(opos) \in SUBSET (1 .. ipos)
            BY <1>1, JoinMatchesAre
        <3>. HIDE DEF JoinMatches
        <3>. QED  BY <3>1 DEF LoopInv
    <2>2. nl_MatchedOuter <=> \E k \in JoinMatches(opos) : k <= ipos
        BY DEF LoopInv, MatchedInv
    <2>. QED  BY <2>1, <2>2, Zenon
<1>3. /\ ~nl_MatchedOuter => Part = <<>>
      /\ plan.jointype \in {"SEMI", "ANTI"} => ~nl_MatchedOuter
    BY DEF LoopInv, MatchedInv
<1>4. plan.jointype \in {"INNER", "LEFT"} => Part = Sums(MatchedRows(opos))[ipos]
    BY Zenon DEF Part
<1>5. <<opos, NullTuple>> \notin plan.otherqual => Rows(opos, NullTuple) = <<>>
    BY Zenon DEF Rows
<1>6. plan.jointype \in {"INNER", "LEFT", "SEMI", "ANTI"}
    BY <1>1, PlanIs
<1>7. CASE plan.jointype = "INNER"
    <2>1. RowsOf(opos) = Sums(MatchedRows(opos))[ipos]
        BY <1>1, <1>7, RowsOfIs
    <2>. QED  BY <1>4, <1>7, <2>1 DEF NullExtends
<1>8. CASE plan.jointype = "LEFT"
    <2>1. RowsOf(opos) = IF JoinMatches(opos) = {} THEN Rows(opos, NullTuple)
                         ELSE Sums(MatchedRows(opos))[ipos]
        BY <1>1, <1>8, RowsOfIs
    <2>. QED  BY <1>2, <1>3, <1>4, <1>5, <1>8, <2>1 DEF NullExtends
<1>9. CASE plan.jointype = "SEMI"
    <2>1. JoinMatches(opos) = {} => RowsOf(opos) = <<>>
        BY <1>1, <1>9, RowsOfIs
    <2>. QED  BY <1>2, <1>3, <1>9, <2>1 DEF NullExtends
<1>10. CASE plan.jointype = "ANTI"
    <2>1. JoinMatches(opos) = {} => RowsOf(opos) = Rows(opos, NullTuple)
        BY <1>1, <1>10, RowsOfIs
    <2>. QED  BY <1>2, <1>3, <1>5, <1>10, <2>1 DEF NullExtends
<1>. QED  BY <1>6, <1>7, <1>8, <1>9, <1>10

LEMMA NoMoreInnerKeeps ==
    ASSUME LoopInv, NoMoreInner
    PROVE  LoopInv'
<1>1. /\ UNCHANGED <<plan, nl_MatchedOuter, opos, ipos, ended>>
      /\ pc = "loop" /\ ~nl_NeedNewOuter /\ nl_NeedNewOuter' = TRUE
      /\ ipos = Len(plan.inner[opos])
    BY DEF NoMoreInner, OuterDone, InnerPlan
<1>2. ~ps_TupFromTlist /\ ~ended /\ Left = 0 /\ Agrees(Done)
    BY <1>1, LeftIs DEF LoopInv, PlaceInv
<1>3. /\ opos \in Outer /\ Part \in Seq(Row) /\ Sums(ResultRows)[opos - 1] \in Seq(Row)
      /\ Done = Sums(ResultRows)[opos - 1] \o Part /\ Done \in Seq(Row)
    BY <1>1, DoneIs
<1>4. PlanOK' /\ ResultRows' = ResultRows
    BY <1>1, PlanKept DEF LoopInv
<1>5. Done' = Sums(ResultRows)[opos - 1] \o RowsOf(opos)
    <2>1. Done' = Sums(ResultRows)[opos]
        BY <1>1, <1>4, Zenon DEF Done
    <2>. QED  BY <1>3, <2>1, ResultIs DEF LoopInv
<1>6. MatchedInv' /\ ipos' \in Nat
    BY <1>1 DEF LoopInv, MatchedInv
<1>7. CASE ~nl_MatchedOuter /\ NullExtends /\ <<opos, NullTuple>> \in plan.otherqual
    <2>1. Part = <<>> /\ RowsOf(opos) = Rows(opos, NullTuple)
        BY <1>1, <1>7, OuterGiven
    <2>2. Project(opos, NullTuple)
        BY <1>7, Zenon DEF NoMoreInner
    <2>3. Done' = Done \o Rows(opos, NullTuple)
        <3>1. Done = Sums(ResultRows)[opos - 1]
            BY <1>3, <2>1, ConcatEmptySeq
        <3>. QED  BY <1>5, <2>1, <3>1
    <2>4. PICK d, e : d = Done /\ e = Done'
        OBVIOUS
    <2>5. d \in Seq(Row) /\ Agrees(d) /\ e = d \o Rows(opos, NullTuple)
        BY <1>2, <1>3, <2>3, <2>4
    <2>6. PICK o \in Outer : o = opos
        BY <1>3
    <2>7. /\ Agrees(e)' /\ out' \in Seq(Row)
          /\ joined' \in Pairs /\ projected' \in 0 .. 2 /\ ps_TupFromTlist' \in BOOLEAN
          /\ ps_TupFromTlist' => projected' <= plan'.rows[joined'[1]]
          /\ pc' \in {"idle", "loop"}
          /\ pc' = "loop" => ~ps_TupFromTlist'
        <3>1. NullTuple \in Inner \cup {NullTuple}
            OBVIOUS
        <3>2. <<o, NullTuple>> \in plan.otherqual /\ Project(o, NullTuple)
              /\ e = d \o Rows(o, NullTuple)
            BY <1>7, <2>2, <2>5, <2>6, Zenon
        <3>. QED  BY <1>1, <1>2, <2>5, <3>1, <3>2, ProjectAgrees
    <2>8. Agrees(Done)'
        BY <2>4, <2>7, Zenon DEF Agrees
    <2>9. TypeOK'
        BY <1>1, <2>7 DEF LoopInv, TypeOK, Pairs
    <2>10. PlaceInv'
        BY <1>1, <1>2, <2>7 DEF PlaceInv
    <2>. QED  BY <1>4, <1>6, <2>7, <2>8, <2>9, <2>10 DEF LoopInv
<1>8. CASE ~(~nl_MatchedOuter /\ NullExtends /\ <<opos, NullTuple>> \in plan.otherqual)
    <2>1. UNCHANGED <<joined, projected, ps_TupFromTlist, pc, out>>
        BY <1>8, Zenon DEF NoMoreInner
    <2>2. Done' = Done
        <3>1. RowsOf(opos) = Part
            BY <1>1, <1>8, OuterGiven
        <3>. QED  BY <1>3, <1>5, <3>1
    <2>3. Agrees(Done)'
        BY <1>2, <2>1, <2>2, NothingReturned
    <2>4. TypeOK' /\ out' \in Seq(Row)
        BY <1>1, <2>1 DEF LoopInv, TypeOK, Pairs
    <2>5. PlaceInv'
        BY <1>1, <1>2, <2>1 DEF PlaceInv
    <2>. QED  BY <1>4, <1>6, <2>3, <2>4, <2>5 DEF LoopInv
<1>. QED  BY <1>7, <1>8

\* The inner tuple that is fetched next.
LEMMA NextInner ==
    ASSUME LoopInv, ~nl_NeedNewOuter, ipos < Len(plan.inner[opos])
    PROVE  /\ ipos + 1 \in 1 .. Len(plan.inner[opos]) /\ (ipos + 1) - 1 = ipos
           /\ opos \in Outer /\ plan.inner[opos][ipos + 1] \in Inner
           /\ ipos + 1 \in JoinMatches(opos) <=>
                <<opos, plan.inner[opos][ipos + 1]>> \in plan.joinqual
           /\ Sums(MatchedRows(opos))[ipos + 1] =
                Sums(MatchedRows(opos))[ipos] \o
                    (IF ipos + 1 \in JoinMatches(opos)
                     THEN Rows(opos, plan.inner[opos][ipos + 1]) ELSE <<>>)
           /\ Sums(MatchedRows(opos))[ipos] \in Seq(Row)
<1>1. opos \in Outer /\ ipos \in 0 .. Len(plan.inner[opos]) /\ PlanOK
    BY DoneIs DEF LoopInv
<1>2. Len(plan.inner[opos]) \in Nat
    BY <1>1, JoinMatchesAre
<1>3. ipos + 1 \in 1 .. Len(plan.inner[opos]) /\ (ipos + 1) - 1 = ipos
    BY <1>1, <1>2
<1>4. /\ plan.inner[opos][ipos + 1] \in Inner
      /\ ipos + 1 \in JoinMatches(opos) <=>
            <<opos, plan.inner[opos][ipos + 1]>> \in plan.joinqual
    BY <1>1, <1>3, JoinMatchesAre
<1>5. Sums(MatchedRows(opos)) \in [0 .. Len(plan.inner[opos]) -> Seq(Row)]
    BY <1>1, MatchedSums
<1>6. PICK k \in 1 .. Len(plan.inner[opos]) : k = ipos + 1 /\ k - 1 = ipos
    BY <1>3
<1>7. Sums(MatchedRows(opos))[k] =
          Sums(MatchedRows(opos))[k - 1] \o
              (IF k \in JoinMatches(opos) THEN Rows(opos, plan.inner[opos][k]) ELSE <<>>)
    BY <1>1, MatchedSums
<1>8. Sums(MatchedRows(opos))[ipos + 1] =
          Sums(MatchedRows(opos))[ipos] \o
              (IF ipos + 1 \in JoinMatches(opos)
               THEN Rows(opos, plan.inner[opos][ipos + 1]) ELSE <<>>)
    BY <1>6, <1>7, Zenon
<1>9. Sums(MatchedRows(opos))[ipos] \in Seq(Row)
    BY <1>1, <1>5, Zenon
<1>. QED  BY <1>1, <1>3, <1>4, <1>8, <1>9

LEMMA NoMatchKeeps ==
    ASSUME LoopInv, NoMatch
    PROVE  LoopInv'
<1>1. /\ UNCHANGED <<plan, nl_NeedNewOuter, nl_MatchedOuter, opos, joined, projected,
                     ps_TupFromTlist, pc, ended, out>>
      /\ pc = "loop" /\ ~nl_NeedNewOuter /\ ipos < Len(plan.inner[opos]) /\ ipos' = ipos + 1
      /\ <<opos, plan.inner[opos][ipos + 1]>> \notin plan.joinqual
    BY DEF NoMatch, InnerPlan
<1>2. ~ps_TupFromTlist /\ Left = 0
    BY <1>1, LeftIs DEF LoopInv, PlaceInv
<1>3. /\ ipos + 1 \in 1 .. Len(plan.inner[opos]) /\ opos \in Outer
      /\ ipos + 1 \notin JoinMatches(opos)
      /\ Sums(MatchedRows(opos))[ipos + 1] = Sums(MatchedRows(opos))[ipos] \o <<>>
      /\ Sums(MatchedRows(opos))[ipos] \in Seq(Row)
    <2>. HIDE DEF JoinMatches
    <2>. QED  BY <1>1, NextInner
<1>4. PlanOK' /\ ResultRows' = ResultRows
    BY <1>1, PlanKept DEF LoopInv
<1>5. Part' = Part
    <2>1. Sums(MatchedRows(opos))[ipos + 1] = Sums(MatchedRows(opos))[ipos]
        BY <1>3, ConcatEmptySeq
    <2>2. MatchedRows(opos)' = MatchedRows(opos)
        BY <1>1, Zenon DEF MatchedRows, JoinMatches, Rows
    <2>. QED  BY <1>1, <2>1, <2>2, Zenon DEF Part
<1>6. Done' = Done
    BY <1>1, <1>4, <1>5, Zenon DEF Done
<1>7. Agrees(Done)'
    BY <1>1, <1>2, <1>6, NothingReturned
<1>8. MatchedInv'
    <2>1. JoinMatches(opos)' = JoinMatches(opos)
        BY <1>1, Zenon DEF JoinMatches
    <2>2. \A k \in JoinMatches(opos) : k <= ipos <=> k <= ipos + 1
        <3>1. JoinMatches(opos) \in SUBSET (1 .. Len(plan.inner[opos])) /\ ipos \in Nat
            BY <1>3, JoinMatchesAre DEF LoopInv
        <3>. HIDE DEF JoinMatches
        <3>. QED  BY <1>3, <3>1
    <2>3. nl_MatchedOuter <=> \E k \in JoinMatches(opos) : k <= ipos + 1
        BY <1>1, <2>2, Zenon DEF LoopInv, MatchedInv
    <2>. QED  BY <1>1, <1>5, <2>1, <2>3, Zenon DEF LoopInv, MatchedInv
<1>9. TypeOK' /\ out' \in Seq(Row) /\ ipos' \in Nat
    <2>1. ipos' \in 0 .. Len(InnerPlan')
        BY <1>1, <1>3 DEF InnerPlan
    <2>. QED  BY <1>1, <1>3, <2>1 DEF LoopInv, TypeOK
<1>10. PlaceInv'
    BY <1>1 DEF LoopInv, PlaceInv
<1>. QED  BY <1>4, <1>7, <1>8, <1>9, <1>10 DEF LoopInv

\* What a match adds to the rows given.
LEMMA MatchGives ==
    ASSUME LoopInv, Match, NEW i, i = plan.inner[opos][ipos + 1]
    PROVE  Done' = Done \o (IF plan.jointype # "ANTI" THEN Rows(opos, i) ELSE <<>>)
<1>1. /\ UNCHANGED <<plan, opos>>
      /\ ~nl_NeedNewOuter /\ ipos < Len(plan.inner[opos]) /\ ipos' = ipos + 1
      /\ <<opos, i>> \in plan.joinqual
      /\ nl_NeedNewOuter' = (plan.jointype \in {"SEMI", "ANTI"})
    BY DEF Match, InnerPlan
<1>2. /\ opos \in Outer /\ Part \in Seq(Row) /\ Sums(ResultRows)[opos - 1] \in Seq(Row)
      /\ Done = Sums(ResultRows)[opos - 1] \o Part /\ Done \in Seq(Row)
    BY <1>1, DoneIs
<1>3. /\ ipos + 1 \in JoinMatches(opos)
      /\ Sums(MatchedRows(opos))[ipos + 1] = Sums(MatchedRows(opos))[ipos] \o Rows(opos, i)
      /\ i \in Inner
    <2>. HIDE DEF JoinMatches
    <2>. QED  BY <1>1, NextInner
<1>4. ResultRows' = ResultRows
    BY <1>1, PlanKept
<1>5. Rows(opos, i) \in Seq(Row)
    <2>1. i \in 0 .. Inners
        BY <1>3, NestLoopAssumption DEF Inner
    <2>. QED  BY <1>2, <2>1, RowsAre DEF LoopInv
<1>6. plan.jointype \in {"INNER", "LEFT", "SEMI", "ANTI"}
    BY <1>2, PlanIs DEF LoopInv
<1>7. CASE plan.jointype \in {"INNER", "LEFT"}
    <2>1. Part = Sums(MatchedRows(opos))[ipos]
        BY <1>7, Zenon DEF Part
    <2>2. MatchedRows(opos)' = MatchedRows(opos)
        BY <1>1, Zenon DEF MatchedRows, JoinMatches, Rows
    <2>3. Part' = Part \o Rows(opos, i)
        BY <1>1, <1>3, <1>7, <2>1, <2>2, Zenon DEF Part
    <2>4. ~nl_NeedNewOuter'
        BY <1>1, <1>7
    <2>5. Done' = Sums(ResultRows)[opos - 1] \o (Part \o Rows(opos, i))
        BY <1>1, <1>4, <2>3, <2>4, Zenon DEF Done
    <2>6. Done' = Done \o Rows(opos, i)
        <3>. DEFINE f == Sums(ResultRows)[opos - 1]
                    r == Rows(opos, i)
        <3>1. f \in Seq(Row) /\ Part \in Seq(Row) /\ r \in Seq(Row) /\ Done = f \o Part
              /\ Done' = f \o (Part \o r)
            BY <1>2, <1>5, <2>5, Zenon
        <3>. HIDE DEF f, r
        <3>2. (f \o Part) \o r = f \o (Part \o r)
            BY <3>1, ConcatAssociative, SMTT(30)
        <3>3. Done' = Done \o r
            BY <3>1, <3>2, Zenon
        <3>. QED  BY <3>3 DEF r
    <2>. QED  BY <1>7, <2>6
<1>8. CASE plan.jointype \in {"SEMI", "ANTI"}
    <2>1. ~nl_MatchedOuter /\ Part = <<>> /\ ~(\E k \in JoinMatches(opos) : k <= ipos)
        BY <1>1, <1>8, Zenon DEF LoopInv, MatchedInv
    <2>2. Done = Sums(ResultRows)[opos - 1]
        BY <1>2, <2>1, ConcatEmptySeq
    <2>3. Done' = Done \o RowsOf(opos)
        <3>1. Done' = Sums(ResultRows)[opos]
            BY <1>1, <1>4, <1>8, Zenon DEF Done
        <3>. QED  BY <1>2, <2>2, <3>1, ResultIs DEF LoopInv
    <2>4. plan.jointype = "SEMI" => RowsOf(opos) = Rows(opos, i)
        <3>1. Min(JoinMatches(opos)) = ipos + 1
            <4>1. JoinMatches(opos) \in SUBSET Nat /\ ipos \in Nat
                BY <1>2, JoinMatchesAre DEF LoopInv
            <4>. HIDE DEF JoinMatches
            <4>2. /\ Min(JoinMatches(opos)) \in JoinMatches(opos)
                  /\ \A k \in JoinMatches(opos) : Min(JoinMatches(opos)) <= k
                BY <1>3, <4>1, MinIsLeast
            <4>. DEFINE m == Min(JoinMatches(opos))
            <4>3. m \in Nat /\ m <= ipos + 1 /\ ~(m <= ipos)
                BY <1>3, <2>1, <4>1, <4>2
            <4>. HIDE DEF m
            <4>4. m = ipos + 1
                BY <4>1, <4>3
            <4>. QED  BY <4>4 DEF m
        <3>. HIDE DEF JoinMatches
        <3>2. plan.jointype = "SEMI" =>
                RowsOf(opos) = Rows(opos, plan.inner[opos][Min(JoinMatches(opos))])
            BY <1>2, <1>3, RowsOfIs DEF LoopInv
        <3>. QED  BY <3>1, <3>2
    <2>5. plan.jointype = "ANTI" => RowsOf(opos) = <<>>
        <3>. HIDE DEF JoinMatches
        <3>. QED  BY <1>2, <1>3, RowsOfIs DEF LoopInv
    <2>. QED  BY <1>8, <2>3, <2>4, <2>5
<1>. QED  BY <1>6, <1>7, <1>8

LEMMA MatchKeeps ==
    ASSUME LoopInv, Match
    PROVE  LoopInv'
<1>. PICK i : i = plan.inner[opos][ipos + 1]
    OBVIOUS
<1>1. /\ UNCHANGED <<plan, opos, ended>>
      /\ pc = "loop" /\ ~nl_NeedNewOuter /\ ipos < Len(plan.inner[opos]) /\ ipos' = ipos + 1
      /\ <<opos, i>> \in plan.joinqual /\ nl_MatchedOuter' = TRUE
      /\ nl_NeedNewOuter' = (plan.jointype \in {"SEMI", "ANTI"})
    BY DEF Match, InnerPlan
<1>2. ~ps_TupFromTlist /\ ~ended /\ Left = 0 /\ Agrees(Done)
    BY <1>1, LeftIs DEF LoopInv, PlaceInv
<1>3. /\ ipos + 1 \in 1 .. Len(plan.inner[opos]) /\ opos \in Outer /\ i \in Inner
      /\ ipos + 1 \in JoinMatches(opos)
    <2>. HIDE DEF JoinMatches
    <2>. QED  BY <1>1, NextInner
<1>4. PlanOK'
    BY <1>1, PlanKept DEF LoopInv
<1>5. Done \in Seq(Row)
    BY DoneIs
<1>6. MatchedInv'
    <2>1. JoinMatches(opos)' = JoinMatches(opos)
        BY <1>1, Zenon DEF JoinMatches
    <2>2. ipos + 1 <= ipos'
        BY <1>1 DEF LoopInv
    <2>3. \E k \in JoinMatches(opos)' : k <= ipos'
        BY <1>3, <2>1, <2>2, Zenon
    <2>. QED  BY <1>1, <2>3, Zenon DEF MatchedInv
<1>7. ipos' \in Nat /\ (~nl_NeedNewOuter' => opos' > 0 /\ ipos' \in 0 .. Len(InnerPlan'))
    <2>1. ipos' \in 0 .. Len(InnerPlan') /\ opos > 0
        BY <1>1, <1>3 DEF InnerPlan, Outer
    <2>. QED  BY <1>1, <2>1 DEF LoopInv
<1>8. CASE plan.jointype # "ANTI" /\ <<opos, i>> \in plan.otherqual
    <2>1. Project(opos, i)
        BY <1>8, Zenon DEF Match, InnerPlan
    <2>2. Done' = Done \o Rows(opos, i)
        BY <1>8, MatchGives
    <2>3. PICK d, e : d = Done /\ e = Done'
        OBVIOUS
    <2>4. d \in Seq(Row) /\ Agrees(d) /\ e = d \o Rows(opos, i)
        BY <1>2, <1>5, <2>2, <2>3
    <2>5. PICK o \in Outer : o = opos
        BY <1>3
    <2>6. /\ Agrees(e)' /\ out' \in Seq(Row)
          /\ joined' \in Pairs /\ projected' \in 0 .. 2 /\ ps_TupFromTlist' \in BOOLEAN
          /\ ps_TupFromTlist' => projected' <= plan'.rows[joined'[1]]
          /\ pc' \in {"idle", "loop"}
          /\ pc' = "loop" => ~ps_TupFromTlist'
        <3>1. i \in Inner \cup {NullTuple}
            BY <1>3
        <3>2. <<o, i>> \in plan.otherqual /\ Project(o, i) /\ e = d \o Rows(o, i)
            BY <1>8, <2>1, <2>4, <2>5, Zenon
        <3>. QED  BY <1>1, <1>2, <2>4, <3>1, <3>2, ProjectAgrees
    <2>7. Agrees(Done)'
        BY <2>3, <2>6, Zenon DEF Agrees
    <2>8. TypeOK'
        BY <1>1, <1>7, <2>6 DEF LoopInv, TypeOK, Pairs
    <2>9. PlaceInv'
        BY <1>1, <1>2, <2>6 DEF PlaceInv
    <2>. QED  BY <1>4, <1>6, <1>7, <2>6, <2>7, <2>8, <2>9 DEF LoopInv
<1>9. CASE ~(plan.jointype # "ANTI" /\ <<opos, i>> \in plan.otherqual)
    <2>1. UNCHANGED <<joined, projected, ps_TupFromTlist, pc, out>>
        BY <1>9, Zenon DEF Match, InnerPlan
    <2>2. Done' = Done
        <3>1. plan.jointype # "ANTI" => Rows(opos, i) = <<>>
            BY <1>9, Zenon DEF Rows
        <3>2. Done' = Done \o <<>>
            BY <3>1, MatchGives
        <3>. QED  BY <1>5, <3>2, ConcatEmptySeq
    <2>3. Agrees(Done)'
        BY <1>2, <2>1, <2>2, NothingReturned
    <2>4. TypeOK' /\ out' \in Seq(Row)
        BY <1>1, <1>7, <2>1 DEF LoopInv, TypeOK, Pairs
    <2>5. PlaceInv'
        BY <1>1, <1>2, <2>1 DEF PlaceInv
    <2>. QED  BY <1>4, <1>6, <1>7, <2>3, <2>4, <2>5 DEF LoopInv
<1>. QED  BY <1>8, <1>9

LEMMA ExecReScanKeeps ==
    ASSUME LoopInv, ExecReScanNestLoop
    PROVE  LoopInv'
<1>1. /\ UNCHANGED <<plan, joined, projected, ipos, pc>> /\ pc = "idle"
      /\ opos' = 0 /\ ps_TupFromTlist' = FALSE /\ nl_NeedNewOuter' = TRUE
      /\ nl_MatchedOuter' = FALSE /\ ended' = FALSE /\ out' = <<>>
    BY DEF ExecReScanNestLoop, TlistDone
<1>2. PlanOK' /\ ResultRows' = ResultRows
    BY <1>1, PlanKept DEF LoopInv
<1>3. Done' = <<>>
    <2>1. Done' = Sums(ResultRows)[0]
        BY <1>1, <1>2, Zenon DEF Done
    <2>. QED  BY <2>1, ResultIs DEF LoopInv
<1>4. Agrees(Done)'
    <2>1. Left' = 0 /\ out' = <<>>
        BY <1>1, Zenon DEF Left
    <2>2. Agrees(<<>>)'
        BY <2>1 DEF Agrees
    <2>. QED  BY <1>3, <2>2 DEF Agrees
<1>5. TypeOK' /\ ipos' \in Nat /\ out' \in Seq(Row)
    <2>1. opos' \in 0 .. Outers /\ out' \in Seq(Row)
        BY <1>1, NestLoopAssumption
    <2>. QED  BY <1>1, <2>1 DEF LoopInv, TypeOK, Pairs
<1>6. PlaceInv' /\ MatchedInv'
    BY <1>1 DEF PlaceInv, MatchedInv
<1>. QED  BY <1>2, <1>4, <1>5, <1>6 DEF LoopInv

LEMMA StutterKeeps ==
    ASSUME LoopInv, UNCHANGED vars
    PROVE  LoopInv'
<1>1. UNCHANGED <<plan, nl_NeedNewOuter, nl_MatchedOuter, opos, ipos, joined, ended,
                  ps_TupFromTlist, projected, pc, out>>
    BY DEF vars
<1>2. PlanOK' /\ MatchedInv' /\ Done' = Done /\ ipos' \in Nat
    BY <1>1, PlaceKept
<1>3. Left' = Left
    BY <1>1, Zenon DEF Left
<1>4. Agrees(Done)'
    BY <1>1, <1>2, <1>3, Zenon DEF LoopInv, Agrees
<1>5. TypeOK' /\ PlaceInv' /\ out' \in Seq(Row)
    BY <1>1 DEF LoopInv, TypeOK, PlaceInv, InnerPlan, Pairs
<1>. QED  BY <1>2, <1>4, <1>5 DEF LoopInv

-----------------------------------------------------------------------------
(***************************************************************************)
(* The theorem                                                             *)
(***************************************************************************)

\* What is done is the beginning of the join.
LEMMA DoneBegins ==
    ASSUME LoopInv
    PROVE  Begins(Done, JoinResult) /\ JoinResult \in Seq(Row)
<1>. DEFINE f == Sums(ResultRows)
<1>1. PlanOK /\ opos \in 0 .. Outers
    BY DEF LoopInv, TypeOK
<1>2. /\ Outers \in Nat /\ f \in [0 .. Outers -> Seq(Row)]
      /\ \A o \in 1 .. Outers : f[o] = f[o - 1] \o RowsOf(o)
      /\ JoinResult = f[Outers]
    BY <1>1, ResultIs DEF Outer
<1>3. [o \in 1 .. Outers |-> RowsOf(o)] \in [1 .. Outers -> Seq(Row)]
    BY <1>1, RowsOfIs DEF Outer
<1>. HIDE DEF f
<1>4. Begins(f[opos], f[Outers])
    <2>. DEFINE r == [o \in 1 .. Outers |-> RowsOf(o)]
    <2>1. \A o \in 1 .. Outers : f[o] = f[o - 1] \o r[o]
        BY <1>2
    <2>. HIDE DEF r
    <2>. QED  BY <1>1, <1>2, <1>3, <2>1, SumsBegin DEF r
<1>5. JoinResult \in Seq(Row) /\ f[opos] \in Seq(Row)
    BY <1>1, <1>2
<1>6. CASE nl_NeedNewOuter
    BY <1>2, <1>4, <1>5, <1>6, DoneIs DEF f
<1>7. CASE ~nl_NeedNewOuter
    <2>1. /\ opos \in Outer /\ ipos \in 0 .. Len(plan.inner[opos]) /\ Part \in Seq(Row)
          /\ f[opos - 1] \in Seq(Row) /\ Done = f[opos - 1] \o Part /\ Done \in Seq(Row)
        BY <1>7, DoneIs DEF f
    <2>2. RowsOf(opos) \in Seq(Row)
        BY <1>1, <2>1, RowsOfIs
    <2>3. Begins(Part, RowsOf(opos))
        <3>1. Part = <<>> => Begins(Part, RowsOf(opos))
            BY <2>2 DEF Begins
        <3>2. plan.jointype \notin {"INNER", "LEFT"} => Part = <<>>
            BY Zenon DEF Part
        <3>3. ASSUME plan.jointype \in {"INNER", "LEFT"}, Part # <<>>
              PROVE  Begins(Part, RowsOf(opos))
            <4>. DEFINE n == Len(plan.inner[opos])
                        g == Sums(MatchedRows(opos))
                        r == [k \in 1 .. n |->
                                IF k \in JoinMatches(opos) THEN Rows(opos, plan.inner[opos][k])
                                ELSE <<>>]
            <4>1. JoinMatches(opos) # {}
                BY <1>7, <3>3, Zenon DEF LoopInv, MatchedInv
            <4>2. RowsOf(opos) = g[n]
                <5>. HIDE DEF JoinMatches
                <5>. QED  BY <1>1, <2>1, <3>3, <4>1, RowsOfIs
            <4>3. Part = g[ipos]
                BY <3>3, Zenon DEF Part
            <4>4. n \in Nat /\ g \in [0 .. n -> Seq(Row)]
                BY <1>1, <2>1, MatchedSums, JoinMatchesAre
            <4>5. r \in [1 .. n -> Seq(Row)]
                <5>1. \A k \in 1 .. n : Rows(opos, plan.inner[opos][k]) \in Seq(Row)
                    BY <1>1, <2>1, JoinMatchesAre, RowsAre
                <5>2. <<>> \in Seq(Row)
                    OBVIOUS
                <5>. QED  BY <5>1, <5>2, Zenon
            <4>6. \A k \in 1 .. n : g[k] = g[k - 1] \o r[k]
                BY <1>1, <2>1, MatchedSums
            <4>7. ipos \in 0 .. n
                BY <2>1
            <4>. HIDE DEF n, g, r
            <4>8. Begins(g[ipos], g[n])
                BY <4>4, <4>5, <4>6, <4>7, SumsBegin
            <4>. QED  BY <4>2, <4>3, <4>8
        <3>. QED  BY <3>1, <3>2, <3>3
    <2>4. f[opos] = f[opos - 1] \o RowsOf(opos)
        BY <1>2, <2>1 DEF Outer
    <2>5. Begins(Done, f[opos])
        BY <2>1, <2>2, <2>3, <2>4, ConcatBegins
    <2>. QED  BY <1>2, <1>4, <1>5, <2>1, <2>5, BeginsTransitive
<1>. QED  BY <1>5, <1>6, <1>7

LEMMA LoopInvResult ==
    ASSUME LoopInv
    PROVE  ResultIsJoin
<1>1. /\ Len(Done) = Len(out) + Left /\ \A n \in 1 .. Len(out) : out[n] = Done[n]
    BY Zenon DEF LoopInv, Agrees
<1>2. out \in Seq(Row) /\ Left \in Nat /\ Done \in Seq(Row)
    BY LeftIs, DoneIs DEF LoopInv
<1>3. Begins(out, Done)
    <2>1. Len(out) \in Nat
        BY <1>2
    <2>. QED  BY <1>1, <1>2, <2>1 DEF Begins
<1>4. Begins(Done, JoinResult) /\ JoinResult \in Seq(Row)
    BY DoneBegins
<1>5. IsPrefix(out, JoinResult)
    <2>1. Begins(out, JoinResult)
        BY <1>2, <1>3, <1>4, BeginsTransitive
    <2>. QED  BY <1>2, <1>4, <2>1, BeginsIsPrefix
<1>6. ASSUME ended PROVE out = JoinResult
    <2>1. nl_NeedNewOuter /\ opos = Outers /\ ~ps_TupFromTlist
        BY <1>6 DEF LoopInv, PlaceInv
    <2>2. Done = JoinResult
        BY <2>1, DoneIs, ResultIs DEF LoopInv
    <2>3. Left = 0
        BY <2>1, LeftIs
    <2>4. Len(out) = Len(Done)
        <3>1. Len(out) \in Nat
            BY <1>2
        <3>. QED  BY <1>1, <2>3, <3>1
    <2>5. out = Done
        BY <1>1, <1>2, <2>4, SeqEqual
    <2>. QED  BY <2>2, <2>5
<1>. QED  BY <1>5, <1>6 DEF LoopInv, ResultIsJoin

LEMMA NextKeeps ==
    ASSUME LoopInv, [Next]_vars
    PROVE  LoopInv'
<1>1. CASE UNCHANGED vars
    BY <1>1, StutterKeeps
<1>2. CASE Next
    BY <1>2, CallProjectsKeeps, CallJoinsKeeps, NewOuterKeeps, NoMoreOuterKeeps,
       NoMoreInnerKeeps, NoMatchKeeps, MatchKeeps, ExecReScanKeeps
       DEF Next, ExecNestLoop
<1>. QED  BY <1>1, <1>2

\* Whatever calls and rescans the caller interleaves, the rows ExecNestLoop has
\* returned since the last rescan are the first rows of the join, and all of
\* them when it returns NULL: for every join type, every size of the two
\* inputs, every qual, and target lists with and without a set.
THEOREM ReturnsTheJoin == Spec => []ResultIsJoin
<1>1. Init => LoopInv
    BY InitLoop
<1>2. LoopInv /\ [Next]_vars => LoopInv'
    BY NextKeeps
<1>3. LoopInv => ResultIsJoin
    BY LoopInvResult
<1>. QED  BY <1>1, <1>2, <1>3, PTL DEF Spec
=============================================================================
