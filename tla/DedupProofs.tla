---------------------------- MODULE DedupProofs ----------------------------
(***************************************************************************)
(* Proofs about Dedup.  Shape: types, the segments still to be copied tile *)
(* the rest of the file, records and claims are of their owners.  Honest:  *)
(* a record's file holds what its blocks held.  Faithful: what is cloned   *)
(* is what the source has there, if the source is still mapped when the    *)
(* copy is checked.                                                        *)
(***************************************************************************)
EXTENDS Dedup, FiniteSetTheorems, SequenceTheorems, TLAPS

-----------------------------------------------------------------------------
(* The inductive invariant, in three layers.                                 *)

Extent == [log : Nat, phys : Nat, len : Nat, shared : BOOLEAN]
Segment == [off : Nat, len : Nat \ {0}, phys : Nat, shared : BOOLEAN]
Rec == [phys : Nat, len : Nat \ {0}, off : Nat, by : Copies, try : Nat \ {0}]
Claim == [phys : Nat, len : Nat \ {0}, by : Copies]

\* The segments ss follow one another from position lo to position hi.
Tiles(ss, lo, hi) ==
    /\ ss \in Seq(Segment) /\ lo <= hi
    /\ \A i \in 1..Len(ss) : lo <= ss[i].off /\ ss[i].off + ss[i].len <= hi
    /\ ss = <<>> => lo = hi
    /\ ss # <<>> => ss[1].off = lo /\ ss[Len(ss)].off + ss[Len(ss)].len = hi
    /\ \A i \in 1..Len(ss) - 1 : ss[i + 1].off = ss[i].off + ss[i].len

AtShared == {"shared", "waiting", "clone", "claimed", "recopy", "record"}
Busy == AtShared \cup {"segment", "check"}
Stages == Busy \cup {"start", "map", "changed", "whole", "publish", "commit", "failed", "done"}

\* The position up to which the temporary file of c is filled.
Done(c) == IF segs[c] = <<>> THEN Size(c) ELSE Head(segs[c]).off

\* A record, in the index or in a worker's hands, lies in the filled part of the
\* file it names, and no attempt that has yet to look at its extents has one.
RecOK(r) ==
    /\ r \in Rec /\ r.try <= try[r.by]
    /\ stage[r.by] \in {"start", "map"} => r.try < try[r.by]
    /\ Live(r) => r.off + r.len <= Done(r.by)

\* The state of one copy.
Core(c) ==
    /\ Tiles(segs[c], Done(c), Size(c))
    /\ stage[c] \in AtShared => segs[c] # <<>> /\ Head(segs[c]).shared
    /\ stage[c] = "check" => segs[c] = <<>>
    /\ stage[c] \in {"start", "map", "whole", "publish", "commit", "done"} => segs[c] = <<>> /\ cloned[c] = {}
    /\ stage[c] \in {"start", "map", "whole"} => ref[c] = "dead"
    /\ stage[c] \in Busy => ref[c] = "temp"
    /\ stage[c] = "done" => ref[c] # "temp"
    /\ data[c] \in Seq(Nat)
    /\ stage[c] = "map" \/ ref[c] # "dead" => Len(data[c]) = Size(c)
    /\ \A s \in cloned[c] : s \in Segment /\ s.shared /\ s.off + s.len <= Done(c)
    /\ \A t : at[DstOf[c]] = <<c, t>> =>
          t \in Nat /\ t <= try[c] /\ (t = try[c] => stage[c] \in {"commit", "done"})

\* A copy that is about to clone has found a record of the segment at hand.
FoundOK(c) == stage[c] = "clone" => RecOK(found[c]) /\ Covers(found[c], Head(segs[c]))

IndexOK ==
    /\ IsFiniteSet(recs) /\ \A r \in recs : RecOK(r)
    /\ \A r, q \in recs : r.phys = q.phys /\ r.len = q.len => r = q
    /\ claims \subseteq Claim /\ ClaimsHeld

TypeInv ==
    /\ stage \in [Copies -> Stages]
    /\ ver \in [Copies -> Nat] /\ since \in [Copies -> Nat] /\ canceled \in BOOLEAN
    /\ \A c \in Copies : 1 <= since[c] /\ since[c] <= ver[c] /\ ver[c] <= Len(Versions[c])
    /\ try \in [Copies -> 1..MaxAttempts] /\ ref \in [Copies -> {"temp", "path", "dead"}]
    /\ waitFor \in [Copies -> Copies]
    /\ DOMAIN segs = Copies /\ DOMAIN cloned = Copies /\ DOMAIN data = Copies
    /\ DOMAIN found = Copies /\ DOMAIN stat = Copies /\ DOMAIN at = {DstOf[c] : c \in Copies}

Shape == TypeInv /\ IndexOK /\ \A c \in Copies : Core(c) /\ FoundOK(c)

\* Segment s was in its place at a version that c has seen.
WasMapped(c, s) == \A j \in 0..s.len - 1 : \E v \in since[c]..ver[c] : At(c, v, s.off + j, s.phys + j)

\* What c holds of s was read from the source, after s was in its place.
ReadSince(c, s) ==
    \A j \in 0..s.len - 1 : \E v, w \in since[c]..ver[c] :
        /\ v <= w /\ At(c, v, s.off + j, s.phys + j)
        /\ s.off + j + 1 <= Len(Versions[c][w].bytes)
        /\ data[c][s.off + j + 1] = Versions[c][w].bytes[s.off + j + 1]

\* A record's file holds what its blocks held.
RecHeld(r) ==
    \A j \in 0..r.len - 1 : \E v \in 1..ver[r.by] : data[r.by][r.off + j + 1] \in Holds(r.by, v, r.phys + j)

Honest ==
    /\ \A c \in Copies : stage[c] \in Busy =>
          \A k \in 1..Len(segs[c]) : segs[c][k].shared => WasMapped(c, segs[c][k])
    /\ \A c \in Copies : stage[c] = "record" => ReadSince(c, Head(segs[c]))
    /\ \A r \in recs : Live(r) => RecHeld(r)

\* No source has anything else now in the blocks of a record.
RecCurrent(r) ==
    \A d \in Copies : \A j \in 0..r.len - 1 : Holds(d, ver[d], r.phys + j) \subseteq {data[r.by][r.off + j + 1]}

\* If c is, or will be, at a version with segment s in its place, what is at
\* position base of file b is what the source holds there.
Fits(c, s, b, base) ==
    \A j \in 0..s.len - 1 : \A x \in ver[c]..Len(Versions[c]) :
        At(c, x, s.off + j, s.phys + j) => data[b][base + j + 1] = Versions[c][x].bytes[s.off + j + 1]

Own(c, i) == \E v \in since[c]..ver[c] : i <= Len(Versions[c][v].bytes) /\ data[c][i] = Versions[c][v].bytes[i]

Complete(c) ==
    /\ Len(data[c]) \in {Size(c)} \cup {Len(Versions[c][v].bytes) : v \in since[c]..ver[c]}
    /\ \A i \in 1..Len(data[c]) : Own(c, i)

Faithful ==
    /\ Consistent(ver)
    /\ \A r \in recs : Live(r) => RecCurrent(r)
    /\ \A c \in Copies :
          /\ \A s \in cloned[c] : Fits(c, s, c, s.off)
          /\ stage[c] = "clone" /\ Live(found[c]) =>
                Fits(c, Head(segs[c]), found[c].by, found[c].off + (Head(segs[c]).phys - found[c].phys))
          /\ stage[c] \in Busy => \A i \in 1..Done(c) :
                Own(c, i) \/ \E s \in cloned[c] : i \in s.off + 1..s.off + s.len
          /\ stage[c] \in {"publish", "commit"} \/ at[DstOf[c]] = <<c, try[c]>> => Complete(c)

-----------------------------------------------------------------------------
(* Induction, as sets.                                                       *)

LEMMA SetInduction ==
    ASSUME NEW S, 0 \in S, \A n \in Nat : n \in S => n + 1 \in S
    PROVE  Nat \subseteq S
<1> SUFFICES ASSUME ~(Nat \subseteq S) PROVE FALSE
  OBVIOUS
<1> DEFINE Miss == {n \in Nat : n \notin S}
           T == {U \in FiniteSubsetsOf(Nat) : \E n \in Miss : U = 0..n}
<1>1. \A n \in Nat : 0..n \in FiniteSubsetsOf(Nat)
  <2> TAKE n \in Nat
  <2>1. IsFiniteSet(0..n)
    BY FS_Interval
  <2> QED BY <2>1 DEF FiniteSubsetsOf
<1>2. T # {} /\ T \subseteq FiniteSubsetsOf(Nat)
  BY <1>1
<1>3. PICK U \in T : \A V \in T : <<V, U>> \notin StrictSubsetOrdering(Nat)
  <2>1. IsWellFoundedOn(StrictSubsetOrdering(Nat), FiniteSubsetsOf(Nat))
    BY FS_StrictSubsetOrderingWellFounded
  <2> HIDE DEF T
  <2> QED BY <1>2, <2>1, WFMin
<1>4. PICK n \in Miss : U = 0..n
  OBVIOUS
<1>5. n # 0 /\ n - 1 \in Nat /\ n - 1 \notin S
  BY <1>4
<1>6. 0..(n - 1) \in T
  BY <1>1, <1>5
<1>7. 0..(n - 1) \subseteq 0..n /\ 0..(n - 1) # 0..n /\ 0..n \subseteq Nat
  BY <1>5
<1>8. <<0..(n - 1), 0..n>> \in StrictSubsetOrdering(Nat)
  BY <1>7 DEF StrictSubsetOrdering
<1> QED BY <1>3, <1>4, <1>6, <1>8

\* Of finitely many records with different ranges one comes last: find has a best.
LEMMA LastRecord ==
    ASSUME NEW S, IsFiniteSet(S), S # {}, \A r \in S : r.phys \in Nat /\ r.len \in Nat,
           \A r, q \in S : r.phys = q.phys /\ r.len = q.len => r = q
    PROVE  \E m \in S : \A q \in S \ {m} : Later(m, q)
<1> DEFINE T == {U \in FiniteSubsetsOf(S) : U # {} /\ ~\E m \in U : \A q \in U \ {m} : Later(m, q)}
<1> SUFFICES ASSUME S \in T PROVE FALSE
  BY DEF FiniteSubsetsOf
<1>1. PICK U \in T : \A V \in T : <<V, U>> \notin StrictSubsetOrdering(S)
  <2>1. IsWellFoundedOn(StrictSubsetOrdering(S), FiniteSubsetsOf(S))
    BY FS_StrictSubsetOrderingWellFounded
  <2>2. T # {} /\ T \subseteq FiniteSubsetsOf(S)
    OBVIOUS
  <2> HIDE DEF T
  <2> QED BY <2>1, <2>2, WFMin
<1>2. PICK x \in U : TRUE
  OBVIOUS
<1>3. U \subseteq S /\ IsFiniteSet(U) /\ x \in S
  BY <1>2 DEF FiniteSubsetsOf
<1>4. U \ {x} \in FiniteSubsetsOf(S)
  BY <1>3, FS_RemoveElement DEF FiniteSubsetsOf
<1>5. <<U \ {x}, U>> \in StrictSubsetOrdering(S)
  BY <1>2, <1>3 DEF StrictSubsetOrdering
<1>6. U \ {x} \notin T
  BY <1>1, <1>5
<1>7. CASE U \ {x} = {}
  <2>1. \A q \in U \ {x} : Later(x, q)
    BY <1>7
  <2> QED BY <1>2, <2>1
<1>8. CASE \E m \in U \ {x} : \A q \in (U \ {x}) \ {m} : Later(m, q)
  <2>1. PICK m \in U \ {x} : \A q \in (U \ {x}) \ {m} : Later(m, q)
    BY <1>8
  <2>2. m \in S /\ m \in U /\ m # x
    BY <1>3, <2>1
  <2>3. Later(m, x) \/ Later(x, m)
    <3>1. m.phys \in Nat /\ m.len \in Nat /\ x.phys \in Nat /\ x.len \in Nat
      BY <1>3, <2>2
    <3>2. m.phys # x.phys \/ m.len # x.len
      BY <1>3, <2>2
    <3> HIDE DEF T
    <3> QED BY <3>1, <3>2 DEF Later
  <2>4. CASE Later(m, x)
    <3>1. \A q \in U \ {m} : Later(m, q)
      BY <2>1, <2>4
    <3> QED BY <2>2, <3>1
  <2>5. CASE Later(x, m)
    <3>1. \A q \in U \ {x} : Later(x, q)
      <4> TAKE q \in U \ {x}
      <4>1. CASE q = m
        BY <2>5, <4>1
      <4>2. CASE q # m
        <5>1. Later(m, q) /\ q \in S
          BY <1>3, <2>1, <4>2
        <5> QED BY <1>3, <2>2, <2>5, <5>1 DEF Later
      <4> QED BY <4>1, <4>2
    <3> QED BY <1>2, <3>1
  <2> QED BY <2>3, <2>4, <2>5
<1> QED BY <1>4, <1>6, <1>7, <1>8

-----------------------------------------------------------------------------
(* Sequences and segments.                                                   *)

LEMMA FunctionSeq ==
    ASSUME NEW S, NEW n \in Nat, NEW f \in [1..n -> S]
    PROVE  f \in Seq(S) /\ Len(f) = n
<1>1. f \in Seq(S)
  BY SeqDef
<1>2. Len(f) \in Nat /\ DOMAIN f = 1..Len(f)
  BY <1>1, LenProperties
<1>3. 1..Len(f) = 1..n
  BY <1>2
<1>4. CASE Len(f) < n
  <2>1. n \in 1..n /\ n \notin 1..Len(f)
    BY <1>2, <1>4
  <2> QED BY <1>3, <2>1
<1>5. CASE n < Len(f)
  <2>1. Len(f) \in 1..Len(f) /\ Len(f) \notin 1..n
    BY <1>2, <1>5
  <2> QED BY <1>3, <2>1
<1> QED BY <1>1, <1>2, <1>4, <1>5

LEMMA TilesNone == ASSUME NEW n \in Nat PROVE Tiles(<<>>, n, n)
BY EmptySeq DEF Tiles

LEMMA TilesOne ==
    ASSUME NEW s \in Segment
    PROVE  Tiles(<<s>>, s.off, s.off + s.len)
<1>1. s.off \in Nat /\ s.len \in Nat \ {0}
  BY DEF Segment
<1>2. <<s>> \in Seq(Segment) /\ Len(<<s>>) = 1 /\ <<s>>[1] = s
  OBVIOUS
<1> HIDE DEF Segment
<1> QED BY <1>1, <1>2 DEF Tiles

LEMMA SegmentNats == \A s \in Segment : s.off \in Nat /\ s.len \in Nat /\ s.len > 0 /\ s.phys \in Nat
BY DEF Segment

LEMMA TilesConcat ==
    ASSUME NEW lo \in Nat, NEW mid \in Nat, NEW hi \in Nat, NEW a, NEW b,
           Tiles(a, lo, mid), Tiles(b, mid, hi)
    PROVE  Tiles(a \o b, lo, hi)
<1> DEFINE c == a \o b
<1>0. a \in Seq(Segment) /\ b \in Seq(Segment)
  BY DEF Tiles
<1>1. /\ c \in Seq(Segment) /\ Len(a) \in Nat /\ Len(b) \in Nat /\ Len(c) = Len(a) + Len(b)
      /\ \A i \in 1..Len(a) + Len(b) : c[i] = IF i <= Len(a) THEN a[i] ELSE b[i - Len(a)]
  BY <1>0, ConcatProperties, LenProperties
<1>2. /\ \A i \in 1..Len(a) : a[i] \in Segment
      /\ \A i \in 1..Len(b) : b[i] \in Segment
      /\ \A i \in 1..Len(c) : c[i] \in Segment
  BY <1>0, <1>1, ElementOfSeq
<1>3. (a # <<>> => Len(a) > 0) /\ (b # <<>> => Len(b) > 0) /\ (a = <<>> => Len(a) = 0) /\ (b = <<>> => Len(b) = 0)
  BY <1>0, EmptySeq
<1>4. c = <<>> <=> a = <<>> /\ b = <<>>
  BY <1>0, ConcatEqualIffEmpty
<1> HIDE DEF c
<1>5. \A i \in 1..Len(c) : lo <= c[i].off /\ c[i].off + c[i].len <= hi
  <2> TAKE i \in 1..Len(c)
  <2>1. CASE i <= Len(a)
    <3>1. i \in 1..Len(a) /\ c[i] = a[i] /\ a[i] \in Segment
      BY <1>1, <1>2, <2>1
    <3>2. lo <= a[i].off /\ a[i].off + a[i].len <= mid /\ mid <= hi
      BY <3>1 DEF Tiles
    <3> QED BY <3>1, <3>2, SegmentNats
  <2>2. CASE ~(i <= Len(a))
    <3>1. i - Len(a) \in 1..Len(b) /\ c[i] = b[i - Len(a)] /\ b[i - Len(a)] \in Segment
      BY <1>1, <1>2, <2>2
    <3>2. mid <= b[i - Len(a)].off /\ b[i - Len(a)].off + b[i - Len(a)].len <= hi /\ lo <= mid
      BY <3>1 DEF Tiles
    <3> QED BY <3>1, <3>2, SegmentNats
  <2> QED BY <2>1, <2>2
<1>6. c = <<>> => lo = hi
  BY <1>4 DEF Tiles
<1>7. c # <<>> => c[1].off = lo /\ c[Len(c)].off + c[Len(c)].len = hi
  <2>1. CASE a = <<>>
    BY <1>1, <1>3, <1>4, <2>1 DEF Tiles
  <2>2. CASE a # <<>> /\ b = <<>>
    BY <1>1, <1>3, <1>4, <2>2 DEF Tiles
  <2>3. CASE a # <<>> /\ b # <<>>
    <3>1. c[1] = a[1] /\ c[Len(c)] = b[Len(b)]
      BY <1>1, <1>3, <2>3
    <3> QED BY <2>3, <3>1 DEF Tiles
  <2> QED BY <2>1, <2>2, <2>3
<1>8. \A i \in 1..Len(c) - 1 : c[i + 1].off = c[i].off + c[i].len
  <2> TAKE i \in 1..Len(c) - 1
  <2>1. CASE i < Len(a)
    <3>1. c[i] = a[i] /\ c[i + 1] = a[i + 1] /\ i \in 1..Len(a) - 1
      BY <1>1, <2>1
    <3> QED BY <3>1 DEF Tiles
  <2>2. CASE i = Len(a)
    <3>1. c[i] = a[Len(a)] /\ c[i + 1] = b[1] /\ a # <<>> /\ b # <<>>
      BY <1>1, <1>3, <2>2
    <3> QED BY <3>1 DEF Tiles
  <2>3. CASE i > Len(a)
    <3>1. c[i] = b[i - Len(a)] /\ c[i + 1] = b[(i - Len(a)) + 1] /\ i - Len(a) \in 1..Len(b) - 1
      BY <1>1, <2>3
    <3> QED BY <3>1 DEF Tiles
  <2> QED BY <1>1, <2>1, <2>2, <2>3
<1>9. lo <= hi
  BY DEF Tiles
<1> QED BY <1>1, <1>5, <1>6, <1>7, <1>8, <1>9 DEF Tiles, c

LEMMA TilesTail ==
    ASSUME NEW lo \in Nat, NEW hi \in Nat, NEW ss, Tiles(ss, lo, hi), ss # <<>>
    PROVE  /\ Head(ss) \in Segment /\ Head(ss).off = lo /\ lo + Head(ss).len <= hi
           /\ Tail(ss) \in Seq(Segment)
           /\ Tiles(Tail(ss), lo + Head(ss).len, hi)
           /\ Tail(ss) # <<>> => Head(Tail(ss)).off = lo + Head(ss).len
           /\ \A k \in 1..Len(Tail(ss)) : k + 1 \in 1..Len(ss) /\ Tail(ss)[k] = ss[k + 1]
           /\ 1 \in 1..Len(ss) /\ Head(ss) = ss[1]
<1> DEFINE t == Tail(ss)
<1>1. ss \in Seq(Segment)
  BY DEF Tiles
<1>2. /\ t \in Seq(Segment) /\ Len(t) = Len(ss) - 1 /\ Len(ss) \in Nat \ {0}
      /\ \A i \in 1..Len(t) : t[i] = ss[i + 1]
  BY <1>1, HeadTailProperties, EmptySeq
<1>3. Head(ss) = ss[1]
  BY <1>1, <1>2
<1>4. \A i \in 1..Len(ss) : ss[i] \in Segment
  BY <1>1, ElementOfSeq
<1>5. (t = <<>> => Len(t) = 0) /\ (t # <<>> => Len(t) \in Nat \ {0} /\ Head(t) = t[1])
  <2> HIDE DEF t
  <2>1. t = <<>> => Len(t) = 0
    BY EmptySeq
  <2>2. t # <<>> => Len(t) \in Nat \ {0} /\ Head(t) = t[1]
    BY <1>2, EmptySeq
  <2> QED BY <2>1, <2>2
<1>6. Head(ss) \in Segment /\ Head(ss).off = lo /\ lo + Head(ss).len <= hi
  BY <1>2, <1>3, <1>4 DEF Tiles
<1> HIDE DEF t
<1>7. t = <<>> => lo + Head(ss).len = hi
  <2>1. t = <<>> => Len(ss) = 1
    BY <1>2, <1>5
  <2>2. ss[1].off = lo /\ ss[Len(ss)].off + ss[Len(ss)].len = hi
    BY DEF Tiles
  <2> QED BY <1>3, <2>1, <2>2
<1>8. t # <<>> => t[1].off = lo + Head(ss).len /\ t[Len(t)].off + t[Len(t)].len = hi
  <2> SUFFICES ASSUME t # <<>> PROVE t[1].off = lo + Head(ss).len /\ t[Len(t)].off + t[Len(t)].len = hi
    OBVIOUS
  <2>1. t[1] = ss[2] /\ t[Len(t)] = ss[Len(ss)] /\ 1 \in 1..Len(ss) - 1
    BY <1>2, <1>5
  <2> QED BY <1>3, <2>1 DEF Tiles
<1>9. \A i \in 1..Len(t) - 1 : t[i + 1].off = t[i].off + t[i].len
  <2> TAKE i \in 1..Len(t) - 1
  <2>1. t[i] = ss[i + 1] /\ t[i + 1] = ss[(i + 1) + 1] /\ i + 1 \in 1..Len(ss) - 1
    BY <1>2
  <2> QED BY <2>1 DEF Tiles
<1>10. \A i \in 1..Len(t) : lo + Head(ss).len <= t[i].off /\ t[i].off + t[i].len <= hi
  <2> DEFINE B(i) == lo + Head(ss).len <= t[i].off
             S == {n \in Nat : n + 1 \in 1..Len(t) => B(n + 1)}
  <2>1. 0 \in S
    BY <1>2, <1>5, <1>6, <1>8, SegmentNats
  <2>2. ASSUME NEW n \in Nat, n \in S PROVE n + 1 \in S
    <3> SUFFICES ASSUME (n + 1) + 1 \in 1..Len(t) PROVE B((n + 1) + 1)
      OBVIOUS
    <3>1. n + 1 \in 1..Len(t) - 1 /\ n + 1 \in 1..Len(t)
      BY <1>2
    <3>2. t[(n + 1) + 1].off = t[n + 1].off + t[n + 1].len
      BY <1>9, <3>1
    <3>3. t[n + 1] \in Segment
      BY <1>2, <3>1, ElementOfSeq
    <3> QED BY <1>6, <2>2, <3>1, <3>2, <3>3, SegmentNats
  <2>3. Nat \subseteq S
    <3> HIDE DEF S
    <3> QED BY <2>1, <2>2, SetInduction
  <2>4. \A i \in 1..Len(t) : B(i)
    <3> TAKE i \in 1..Len(t)
    <3>1. i - 1 \in Nat /\ (i - 1) + 1 = i
      BY <1>2
    <3>2. i - 1 \in S
      BY <2>3, <3>1
    <3> QED BY <3>1, <3>2
  <2>5. \A i \in 1..Len(t) : t[i].off + t[i].len <= hi
    BY <1>2 DEF Tiles
  <2> QED BY <2>4, <2>5
<1>11. \A k \in 1..Len(t) : k + 1 \in 1..Len(ss)
  BY <1>2
<1> QED BY <1>2, <1>3, <1>5, <1>6, <1>7, <1>8, <1>9, <1>10, <1>11, SegmentNats DEF Tiles, t

-----------------------------------------------------------------------------
(* What planSegments computes.                                               *)

\* Every block of segment s is, by the extents exts, where s says.
Placed(exts, s) ==
    \A j \in 0..s.len - 1 : \E e \in Range(exts) :
        /\ e.shared /\ e.log <= s.off + j /\ s.off + j < e.log + e.len
        /\ e.phys + ((s.off + j) - e.log) = s.phys + j

AllPlaced(exts, ss) == \A k \in 1..Len(ss) : ss[k].shared => Placed(exts, ss[k])

PlanGood(p, exts, size) ==
    p.pos \in 0..size /\ Tiles(p.segs, 0, p.pos) /\ AllPlaced(exts, p.segs)

LEMMA GapTiles ==
    ASSUME NEW lo \in Nat, NEW hi \in Nat, lo <= hi, NEW exts
    PROVE  Tiles(Gap(lo, hi), lo, hi) /\ AllPlaced(exts, Gap(lo, hi))
<1>1. CASE lo < hi
  <2> DEFINE s == [off |-> lo, len |-> hi - lo, phys |-> 0, shared |-> FALSE]
  <2>1. s \in Segment /\ s.off = lo /\ s.off + s.len = hi /\ ~s.shared
    BY <1>1 DEF Segment
  <2> HIDE DEF s
  <2>2. Tiles(<<s>>, lo, hi)
    BY <2>1, TilesOne
  <2>3. Gap(lo, hi) = <<s>>
    BY <1>1 DEF Gap, s
  <2>4. AllPlaced(exts, <<s>>)
    BY <2>1 DEF AllPlaced
  <2> QED BY <2>2, <2>3, <2>4
<1>2. CASE lo = hi
  <2>1. Gap(lo, hi) = <<>>
    BY <1>2 DEF Gap
  <2>2. AllPlaced(exts, <<>>)
    BY DEF AllPlaced
  <2> QED BY <1>2, <2>1, <2>2, TilesNone
<1> QED BY <1>1, <1>2

LEMMA PlacedConcat ==
    ASSUME NEW exts, NEW a \in Seq(Segment), NEW b \in Seq(Segment),
           AllPlaced(exts, a), AllPlaced(exts, b)
    PROVE  AllPlaced(exts, a \o b)
<1> SUFFICES ASSUME NEW k \in 1..Len(a \o b), (a \o b)[k].shared
             PROVE  Placed(exts, (a \o b)[k])
  BY DEF AllPlaced
<1>1. /\ Len(a) \in Nat /\ Len(b) \in Nat /\ Len(a \o b) = Len(a) + Len(b)
      /\ (a \o b)[k] = IF k <= Len(a) THEN a[k] ELSE b[k - Len(a)]
  BY ConcatProperties, LenProperties
<1>2. CASE k <= Len(a)
  <2>1. k \in 1..Len(a) /\ (a \o b)[k] = a[k]
    BY <1>1, <1>2
  <2> QED BY <2>1 DEF AllPlaced
<1>3. CASE ~(k <= Len(a))
  <2>1. k - Len(a) \in 1..Len(b) /\ (a \o b)[k] = b[k - Len(a)]
    BY <1>1, <1>3
  <2> QED BY <2>1 DEF AllPlaced
<1> QED BY <1>2, <1>3

LEMMA PlanExtentGood ==
    ASSUME NEW size \in Nat, NEW exts, Range(exts) \subseteq Extent, NEW e \in Range(exts),
           NEW p, PlanGood(p, exts, size)
    PROVE  PlanGood(PlanExtent(p, e, size), exts, size)
<1> DEFINE lo == Larger(e.log, p.pos)
           hi == Smaller(e.log + e.len, size)
           s == [off |-> lo, len |-> hi - lo, phys |-> e.phys + (lo - e.log), shared |-> TRUE]
<1>1. CASE hi <= lo \/ ~e.shared
  BY <1>1 DEF PlanExtent
<1>2. CASE ~(hi <= lo \/ ~e.shared)
  <2>1. /\ p.pos \in Nat /\ p.pos <= size /\ e.log \in Nat /\ e.len \in Nat /\ e.phys \in Nat
    BY DEF PlanGood, Extent
  <2>2. /\ lo \in Nat /\ hi \in Nat /\ lo < hi /\ p.pos <= lo /\ hi <= size
        /\ e.log <= lo /\ hi <= e.log + e.len
    BY <1>2, <2>1 DEF Larger, Smaller
  <2> HIDE DEF lo, hi
  <2>3. s \in Segment /\ s.off = lo /\ s.off + s.len = hi
    BY <2>1, <2>2 DEF Segment
  <2>4. Placed(exts, s)
    <3> SUFFICES ASSUME NEW j \in 0..s.len - 1
                 PROVE  /\ e.shared /\ e.log <= s.off + j /\ s.off + j < e.log + e.len
                        /\ e.phys + ((s.off + j) - e.log) = s.phys + j
      BY DEF Placed
    <3>1. s.len = hi - lo /\ s.off = lo /\ s.phys = e.phys + (lo - e.log)
      OBVIOUS
    <3> HIDE DEF s
    <3> QED BY <1>2, <2>1, <2>2, <3>1
  <2> HIDE DEF s
  <2>5. Tiles(<<s>>, lo, hi) /\ AllPlaced(exts, <<s>>)
    BY <2>3, <2>4, TilesOne DEF AllPlaced
  <2>6. Tiles(Gap(p.pos, lo), p.pos, lo) /\ AllPlaced(exts, Gap(p.pos, lo))
    BY <2>1, <2>2, GapTiles
  <2> DEFINE a == p.segs \o Gap(p.pos, lo)
  <2>7. Tiles(a, 0, lo)
    BY <2>1, <2>2, <2>6, TilesConcat DEF PlanGood
  <2>8. AllPlaced(exts, a)
    BY <2>6, PlacedConcat DEF PlanGood, Tiles
  <2> HIDE DEF a
  <2>9. Tiles(a \o <<s>>, 0, hi) /\ AllPlaced(exts, a \o <<s>>)
    <3>1. Tiles(a \o <<s>>, 0, hi)
      BY <2>2, <2>5, <2>7, TilesConcat
    <3>2. a \in Seq(Segment) /\ <<s>> \in Seq(Segment)
      BY <2>5, <2>7 DEF Tiles
    <3> QED BY <2>5, <2>8, <3>1, <3>2, PlacedConcat
  <2>10. PlanExtent(p, e, size) = [segs |-> a \o <<s>>, pos |-> hi]
    BY <1>2 DEF PlanExtent, a, s, lo, hi
  <2> QED BY <2>2, <2>9, <2>10 DEF PlanGood
<1> QED BY <1>1, <1>2

\* The recursive function of Plan exists.
LEMMA PlanDefined ==
    ASSUME NEW exts \in Seq(Extent), NEW size \in Nat
    PROVE  \E f : /\ f = [k \in 0..Len(exts) |->
                             IF k = 0 THEN [segs |-> <<>>, pos |-> 0] ELSE PlanExtent(f[k - 1], exts[k], size)]
                  /\ Plan(exts, size) = f[Len(exts)]
<1> DEFINE Is(f, n) == f = [k \in 0..n |->
                 IF k = 0 THEN [segs |-> <<>>, pos |-> 0] ELSE PlanExtent(f[k - 1], exts[k], size)]
           S == {n \in Nat : \E f : Is(f, n)}
<1>1. 0 \in S
  <2> DEFINE g == [k \in 0..0 |-> [segs |-> <<>>, pos |-> 0]]
  <2>1. Is(g, 0)
    OBVIOUS
  <2> QED BY <2>1
<1>2. ASSUME NEW n \in Nat, n \in S PROVE n + 1 \in S
  <2>1. PICK f : Is(f, n)
    BY <1>2
  <2> DEFINE g == [k \in 0..n + 1 |-> IF k <= n THEN f[k] ELSE PlanExtent(f[n], exts[n + 1], size)]
             Body(k) == IF k = 0 THEN [segs |-> <<>>, pos |-> 0] ELSE PlanExtent(g[k - 1], exts[k], size)
  <2>2. \A k \in 0..n + 1 : g[k] = Body(k)
    <3> TAKE k \in 0..n + 1
    <3>1. CASE k = 0
      BY <2>1, <3>1
    <3>2. CASE k # 0 /\ k <= n
      <4>1. g[k - 1] = f[k - 1] /\ g[k] = f[k] /\ k \in 0..n
        BY <3>2
      <4>2. f[k] = PlanExtent(f[k - 1], exts[k], size)
        BY <2>1, <3>2, <4>1
      <4> QED BY <3>2, <4>1, <4>2
    <3>3. CASE k = n + 1
      <4>1. g[k - 1] = f[n] /\ g[k] = PlanExtent(f[n], exts[n + 1], size)
        BY <3>3
      <4> QED BY <3>3, <4>1
    <3> QED BY <3>1, <3>2, <3>3
  <2>3. Is(g, n + 1)
    <3>1. g = [k \in 0..n + 1 |-> g[k]]
      OBVIOUS
    <3> HIDE DEF g
    <3> QED BY <2>2, <3>1
  <2>4. \E h : Is(h, n + 1)
    <3> HIDE DEF Is, g
    <3> QED BY <2>3
  <2> QED BY <2>4
<1>3. Len(exts) \in S
  <2>1. Len(exts) \in Nat
    BY LenProperties
  <2> HIDE DEF S
  <2> QED BY <1>1, <1>2, <2>1, SetInduction
<1>4. \E f : Is(f, Len(exts))
  BY <1>3
<1> DEFINE F == CHOOSE f : Is(f, Len(exts))
<1>5. Is(F, Len(exts))
  BY <1>4
<1>6. Plan(exts, size) = F[Len(exts)]
  BY DEF Plan
<1> QED BY <1>5, <1>6

\* planSegments tiles the file, whatever FIEMAP reports, and each shared segment is,
\* block by block, where one of the extents places it.
THEOREM PlanCorrect ==
    ASSUME NEW exts \in Seq(Extent), NEW size \in Nat
    PROVE  Tiles(PlanSegments(exts, size), 0, size) /\ AllPlaced(exts, PlanSegments(exts, size))
<1>1. Range(exts) \subseteq Extent /\ Len(exts) \in Nat /\ \A k \in 1..Len(exts) : exts[k] \in Range(exts)
  <2>1. Len(exts) \in Nat /\ DOMAIN exts = 1..Len(exts) /\ exts \in [1..Len(exts) -> Extent]
    BY LenProperties
  <2> QED BY <2>1 DEF Range
<1>2. PICK f : /\ f = [k \in 0..Len(exts) |->
                         IF k = 0 THEN [segs |-> <<>>, pos |-> 0] ELSE PlanExtent(f[k - 1], exts[k], size)]
               /\ Plan(exts, size) = f[Len(exts)]
  BY PlanDefined
<1> DEFINE S == {n \in Nat : n <= Len(exts) => PlanGood(f[n], exts, size)}
<1>3. 0 \in S
  <2>1. f[0] = [segs |-> <<>>, pos |-> 0]
    BY <1>1, <1>2
  <2>2. Tiles(<<>>, 0, 0) /\ AllPlaced(exts, <<>>)
    BY TilesNone DEF AllPlaced
  <2> QED BY <2>1, <2>2 DEF PlanGood
<1>4. ASSUME NEW n \in Nat, n \in S PROVE n + 1 \in S
  <2> SUFFICES ASSUME n + 1 <= Len(exts) PROVE PlanGood(f[n + 1], exts, size)
    OBVIOUS
  <2>1. n + 1 \in 0..Len(exts) /\ n + 1 # 0 /\ (n + 1) - 1 = n /\ n + 1 \in 1..Len(exts) /\ n <= Len(exts)
    BY <1>1
  <2>2. f[n + 1] = PlanExtent(f[n], exts[n + 1], size)
    BY <1>2, <2>1
  <2> QED BY <1>1, <1>4, <2>1, <2>2, PlanExtentGood
<1>5. PlanGood(Plan(exts, size), exts, size)
  <2>1. Len(exts) \in S
    <3> HIDE DEF S
    <3> QED BY <1>1, <1>3, <1>4, SetInduction
  <2> QED BY <1>1, <1>2, <2>1
<1> DEFINE p == Plan(exts, size)
<1>6. p.pos \in Nat /\ p.pos <= size
  BY <1>5 DEF PlanGood
<1>7. Tiles(p.segs, 0, p.pos) /\ AllPlaced(exts, p.segs)
  BY <1>5 DEF PlanGood
<1> HIDE DEF p
<1>8. Tiles(Gap(p.pos, size), p.pos, size) /\ AllPlaced(exts, Gap(p.pos, size))
  BY <1>6, GapTiles
<1>9. Tiles(p.segs \o Gap(p.pos, size), 0, size) /\ AllPlaced(exts, p.segs \o Gap(p.pos, size))
  <2>1. Tiles(p.segs \o Gap(p.pos, size), 0, size)
    BY <1>6, <1>7, <1>8, TilesConcat
  <2>2. p.segs \in Seq(Segment) /\ Gap(p.pos, size) \in Seq(Segment)
    BY <1>7, <1>8 DEF Tiles
  <2> QED BY <1>7, <1>8, <2>1, <2>2, PlacedConcat
<1> QED BY <1>9 DEF PlanSegments, p

-----------------------------------------------------------------------------
(* Shape.                                                                    *)

LEMMA BestFound ==
    ASSUME IndexOK, NEW s, Found(s) # {}
    PROVE  Best(s) \in Found(s)
<1>1. Found(s) \subseteq recs /\ IsFiniteSet(Found(s))
  <2>1. Found(s) \subseteq recs
    BY DEF Found
  <2> QED BY <2>1, FS_Subset DEF IndexOK
<1>2. \A r \in Found(s) : r.phys \in Nat /\ r.len \in Nat
  BY <1>1 DEF IndexOK, RecOK, Rec
<1>3. \A r, q \in Found(s) : r.phys = q.phys /\ r.len = q.len => r = q
  BY <1>1 DEF IndexOK
<1>4. \E m \in Found(s) : \A q \in Found(s) \ {m} : Later(m, q)
  BY <1>1, <1>2, <1>3, LastRecord
<1> QED BY <1>4 DEF Best

LEMMA VersionFacts ==
    ASSUME NEW c \in Copies, NEW v \in 1..Len(Versions[c])
    PROVE  /\ Versions[c][v].bytes \in Seq(Nat) /\ Len(Versions[c][v].bytes) \in Nat
           /\ \A i \in 1..Len(Versions[c][v].bytes) : Versions[c][v].bytes[i] \in Nat
           /\ Versions[c][v].exts \in Seq(Extent) /\ Range(Versions[c][v].exts) \subseteq Extent
           /\ \A e \in Range(Versions[c][v].exts) : e.log + e.len <= Len(Versions[c][v].bytes)
<1> DEFINE V == [bytes : Seq(Nat), mtime : Nat, exts : Seq(Extent)]
<1>1. Versions[c] \in Seq(V)
  BY SourceAssumption DEF Extent
<1>2. Versions[c][v] \in V /\ DOMAIN Versions[c] = 1..Len(Versions[c])
  BY <1>1, LenProperties
<1>3. Versions[c][v].bytes \in Seq(Nat) /\ Versions[c][v].exts \in Seq(Extent)
  BY <1>2
<1>4. \A e \in Range(Versions[c][v].exts) : e.log + e.len <= Len(Versions[c][v].bytes)
  BY <1>2, SourceAssumption
<1>5. Range(Versions[c][v].exts) \subseteq Extent
  BY <1>3, RangeOfSeq
<1>6. \A i \in 1..Len(Versions[c][v].bytes) : Versions[c][v].bytes[i] \in Nat
  BY <1>3, ElementOfSeq
<1>7. Len(Versions[c][v].bytes) \in Nat
  BY <1>3, LenProperties
<1> QED BY <1>3, <1>4, <1>5, <1>6, <1>7

LEMMA Sizes == \A c \in Copies : Len(Versions[c]) \in Nat /\ 1 \in 1..Len(Versions[c]) /\ Size(c) \in Nat
<1> SUFFICES ASSUME NEW c \in Copies
             PROVE  Len(Versions[c]) \in Nat /\ 1 \in 1..Len(Versions[c]) /\ Size(c) \in Nat
  OBVIOUS
<1>1. Len(Versions[c]) \in Nat \ {0}
  <2> DEFINE V == [bytes : Seq(Nat), mtime : Nat, exts : Seq(Extent)]
  <2>1. Versions[c] \in Seq(V) /\ Versions[c] # <<>>
    BY SourceAssumption DEF Extent
  <2> HIDE DEF V
  <2> QED BY <2>1, EmptySeq
<1>2. 1 \in 1..Len(Versions[c])
  BY <1>1
<1>3. Len(Versions[c][1].bytes) \in Nat
  BY <1>2, VersionFacts
<1> QED BY <1>1, <1>2, <1>3 DEF Size

\* What a step may do to a copy, so that the records of its file stay good.
Onward(b) ==
    /\ try'[b] \in Nat /\ try[b] <= try'[b]
    /\ ref[b] = "dead" /\ ref'[b] # "dead" => stage[b] = "map"
    /\ stage'[b] \in {"start", "map"} => (stage[b] \in {"start", "map"} /\ try'[b] = try[b]) \/ try[b] < try'[b]
    /\ ref[b] # "dead" /\ ref'[b] # "dead" => try'[b] = try[b] /\ Done(b)' \in Nat /\ Done(b) <= Done(b)'

\* What a step of another copy leaves alone.
Same(x) ==
    /\ segs'[x] = segs[x] /\ cloned'[x] = cloned[x] /\ ref'[x] = ref[x] /\ data'[x] = data[x]
    /\ found'[x] = found[x] /\ try'[x] = try[x] /\ since'[x] = since[x]
    /\ stage'[x] = stage[x] \/ (stage[x] = "waiting" /\ stage'[x] = "shared")
    /\ \A t : at'[DstOf[x]] = <<x, t>> => at[DstOf[x]] = <<x, t>>

LEMMA DoneNat == ASSUME Shape, NEW c \in Copies PROVE Done(c) \in Nat /\ Done(c) <= Size(c)
<1>1. Tiles(segs[c], Done(c), Size(c)) /\ Size(c) \in Nat
  BY Sizes DEF Shape, Core
<1>2. CASE segs[c] = <<>>
  BY <1>1, <1>2 DEF Done
<1>3. CASE segs[c] # <<>>
  <2>1. segs[c] \in Seq(Segment) /\ Head(segs[c]) \in Segment
    BY <1>1, <1>3, HeadTailProperties DEF Tiles
  <2>2. Done(c) \in Nat
    BY <1>3, <2>1, SegmentNats DEF Done
  <2> QED BY <1>1, <2>2 DEF Tiles
<1> QED BY <1>2, <1>3

LEMMA SameOnward == ASSUME Shape, NEW x \in Copies, Same(x) PROVE Onward(x)
<1>1. Done(x)' = Done(x)
  BY DEF Same, Done, Size
<1>2. Done(x) \in Nat
  BY DoneNat
<1> QED BY <1>1, <1>2 DEF Same, Onward, Shape, TypeInv

LEMMA SameCore == ASSUME Shape, NEW x \in Copies, Same(x) PROVE Core(x)'
<1>1. Done(x)' = Done(x)
  BY DEF Same, Done, Size
<1>2. Core(x)
  BY DEF Shape
<1> QED BY <1>1, <1>2 DEF Same, Core, Size, AtShared, Busy

LEMMA RecKept ==
    ASSUME Shape, NEW r, RecOK(r), \A b \in Copies : Onward(b)
    PROVE  RecOK(r)'
<1> DEFINE b == r.by
<1>1. r \in Rec /\ b \in Copies /\ r.try \in Nat /\ r.off \in Nat /\ r.len \in Nat /\ try[b] \in Nat
  BY DEF RecOK, Rec, Shape, TypeInv
<1>2. Onward(b)
  BY <1>1
<1>3. r.try <= try'[b]
  BY <1>1, <1>2 DEF RecOK, Onward
<1>4. stage'[b] \in {"start", "map"} => r.try < try'[b]
  BY <1>1, <1>2 DEF RecOK, Onward
<1>5. Live(r)' => Live(r) /\ ref[b] # "dead" /\ ref'[b] # "dead"
  BY <1>1, <1>2 DEF RecOK, Onward, Live, Shape, TypeInv
<1>6. Live(r)' => r.off + r.len <= Done(b)'
  <2> SUFFICES ASSUME Live(r)' PROVE r.off + r.len <= Done(b)'
    OBVIOUS
  <2>1. r.off + r.len <= Done(b) /\ Done(b) <= Done(b)' /\ Done(b)' \in Nat
    BY <1>2, <1>5 DEF RecOK, Onward
  <2>2. Done(b) \in Nat
    BY <1>1, DoneNat
  <2> QED BY <1>1, <2>1, <2>2
<1> QED BY <1>1, <1>3, <1>4, <1>6 DEF RecOK

LEMMA NowFacts ==
    ASSUME Shape, NEW c \in Copies
    PROVE  /\ ver[c] \in 1..Len(Versions[c]) /\ Size(c) \in Nat
           /\ Now(c).bytes \in Seq(Nat) /\ Len(Now(c).bytes) \in Nat
           /\ \A i \in 1..Len(Now(c).bytes) : Now(c).bytes[i] \in Nat
           /\ Now(c).exts \in Seq(Extent)
<1>1. ver[c] \in 1..Len(Versions[c])
  BY Sizes DEF Shape, TypeInv
<1> QED BY <1>1, VersionFacts, Sizes DEF Now

LEMMA Seen == ASSUME Shape, NEW c \in Copies PROVE ver[c] \in Nat /\ since[c] \in Nat /\ since[c] <= ver[c]
BY DEF Shape, TypeInv

\* The segment at hand, where there is one, and what comes after it.
LEMMA HeadFacts ==
    ASSUME Shape, NEW c \in Copies, segs[c] # <<>>
    PROVE  LET s == Head(segs[c]) IN
           /\ s \in Segment /\ s.off \in Nat /\ s.len \in Nat /\ s.len > 0 /\ s.phys \in Nat
           /\ s.off = Done(c) /\ s.off + s.len <= Size(c) /\ s = segs[c][1] /\ 1 \in 1..Len(segs[c])
<1>1. Tiles(segs[c], Done(c), Size(c)) /\ Done(c) \in Nat /\ Size(c) \in Nat
  BY DoneNat, Sizes DEF Shape, Core
<1>2. /\ Head(segs[c]) \in Segment /\ Head(segs[c]).off = Done(c) /\ Done(c) + Head(segs[c]).len <= Size(c)
      /\ Head(segs[c]) = segs[c][1] /\ 1 \in 1..Len(segs[c])
  BY <1>1, TilesTail
<1> QED BY <1>1, <1>2, SegmentNats

LEMMA AdvanceFacts ==
    ASSUME Shape, NEW c \in Copies, segs[c] # <<>>, segs'[c] = Tail(segs[c])
    PROVE  /\ Tiles(segs'[c], Done(c)', Size(c))
           /\ Done(c)' = Head(segs[c]).off + Head(segs[c]).len
           /\ Done(c)' \in Nat /\ Done(c) <= Done(c)'
           /\ \A k \in 1..Len(segs'[c]) : k + 1 \in 1..Len(segs[c]) /\ segs'[c][k] = segs[c][k + 1]
<1>1. Tiles(segs[c], Done(c), Size(c)) /\ Done(c) \in Nat /\ Size(c) \in Nat
  BY DoneNat, Sizes DEF Shape, Core
<1> DEFINE s == Head(segs[c])  t == Tail(segs[c])
<1>2. /\ Tiles(t, Done(c) + s.len, Size(c)) /\ s \in Segment
      /\ t # <<>> => Head(t).off = Done(c) + s.len
      /\ \A k \in 1..Len(t) : k + 1 \in 1..Len(segs[c]) /\ t[k] = segs[c][k + 1]
  BY <1>1, TilesTail
<1>3. s.off = Done(c) /\ s.len \in Nat
  BY HeadFacts
<1>4. t = <<>> => Done(c) + s.len = Size(c)
  BY <1>2 DEF Tiles
<1>5. Done(c)' = Done(c) + s.len
  BY <1>2, <1>4 DEF Done, Size
<1> QED BY <1>1, <1>2, <1>3, <1>5

LEMMA CopyRangeFacts ==
    ASSUME Shape, NEW c \in Copies, segs[c] # <<>>, Len(data[c]) = Size(c), CopyRange(c)
    PROVE  LET s == Head(segs[c])  b == Now(c).bytes IN
           /\ DOMAIN data' = Copies /\ \A x \in Copies \ {c} : data'[x] = data[x]
           /\ data'[c] \in Seq(Nat) /\ Len(data'[c]) = Size(c)
           /\ s.off + s.len <= Len(b)
           /\ \A i \in 1..Size(c) : data'[c][i] = IF i \in s.off + 1..s.off + s.len THEN b[i] ELSE data[c][i]
<1> DEFINE s == Head(segs[c])  b == Now(c).bytes
           f == [i \in 1..Size(c) |-> IF i \in s.off + 1..s.off + s.len THEN b[i] ELSE data[c][i]]
<1>1. DOMAIN data = Copies /\ data[c] \in Seq(Nat)
  BY DEF Shape, TypeInv, Core
<1>2. data' = [data EXCEPT ![c] = f] /\ s.off + s.len <= Len(b)
  BY DEF CopyRange
<1>3. s.off \in Nat /\ s.len \in Nat
  BY HeadFacts
<1>4. Len(b) \in Nat /\ \A i \in 1..Len(b) : b[i] \in Nat
  BY NowFacts
<1>5. \A i \in 1..Size(c) : data[c][i] \in Nat
  BY <1>1, ElementOfSeq
<1>6. \A i \in 1..Size(c) : (IF i \in s.off + 1..s.off + s.len THEN b[i] ELSE data[c][i]) \in Nat
  <2> TAKE i \in 1..Size(c)
  <2>1. CASE i \in s.off + 1..s.off + s.len
    <3>1. i \in 1..Len(b)
      BY <1>2, <1>3, <1>4, <2>1
    <3> QED BY <1>4, <2>1, <3>1
  <2> QED BY <1>5, <2>1
<1>7. f \in [1..Size(c) -> Nat]
  <2> HIDE DEF s, b
  <2> QED BY <1>6
<1> HIDE DEF f
<1>8. f \in Seq(Nat) /\ Len(f) = Size(c)
  BY <1>7, NowFacts, FunctionSeq
<1>9. DOMAIN data' = Copies /\ data'[c] = f /\ \A x \in Copies \ {c} : data'[x] = data[x]
  BY <1>1, <1>2
<1>10. \A i \in 1..Size(c) : f[i] = IF i \in s.off + 1..s.off + s.len THEN b[i] ELSE data[c][i]
  <2> HIDE DEF s, b
  <2> QED BY DEF f
<1> QED BY <1>2, <1>8, <1>9, <1>10

LEMMA BlankFacts == \A c \in Copies : Blank(c) \in Seq(Nat) /\ Len(Blank(c)) = Size(c)
<1> SUFFICES ASSUME NEW c \in Copies PROVE Blank(c) \in Seq(Nat) /\ Len(Blank(c)) = Size(c)
  OBVIOUS
<1>1. Size(c) \in Nat
  BY Sizes
<1>2. Blank(c) \in [1..Size(c) -> Nat]
  BY DEF Blank
<1> QED BY <1>1, <1>2, FunctionSeq

\* A step that leaves the file of c as it is, and does not start it again.
LEMMA QuietOnward ==
    ASSUME Shape, NEW c \in Copies, segs'[c] = segs[c], ref'[c] = ref[c], try'[c] = try[c],
           stage'[c] = stage[c] \/ stage'[c] \notin {"start", "map"}
    PROVE  Onward(c) /\ Done(c)' = Done(c)
<1>1. Done(c)' = Done(c)
  BY DEF Done, Size
<1>2. try[c] \in Nat
  BY DEF Shape, TypeInv
<1> QED BY <1>1, <1>2, DoneNat DEF Onward

\* What is to be shown of every step of a copy.
Result(c) == TypeInv' /\ Onward(c) /\ Core(c)' /\ \A x \in Copies \ {c} : Same(x)

LEMMA BeginResult == ASSUME Shape, NEW c \in Copies, Begin(c) PROVE Result(c)
<1> USE DEF Begin, Go
<1>1. TypeInv'
  <2>1. CASE stage' = [stage EXCEPT ![c] = "failed"] /\ UNCHANGED <<since, stat, data>>
    BY <2>1 DEF Shape, TypeInv, Stages, Busy, AtShared, indexVars
  <2>2. CASE /\ since' = [since EXCEPT ![c] = ver[c]] /\ data' = [data EXCEPT ![c] = Blank(c)]
             /\ DOMAIN stat' = Copies
             /\ \E next \in {"whole", "map"} : stage' = [stage EXCEPT ![c] = next]
    <3>1. since' \in [Copies -> Nat] /\ \A x \in Copies : 1 <= since'[x] /\ since'[x] <= ver[x]
      BY <2>2 DEF Shape, TypeInv
    <3>2. stage' \in [Copies -> Stages]
      BY <2>2 DEF Shape, TypeInv, Stages, Busy, AtShared
    <3> QED BY <2>2, <3>1, <3>2 DEF Shape, TypeInv, indexVars
  <2> QED BY <2>1, <2>2 DEF Shape, TypeInv
<1>2. Done(c)' = Done(c)
  BY DEF Done, Size
<1>3. Onward(c)
  BY <1>2, DoneNat DEF Onward, Shape, TypeInv, Core
<1>4. data'[c] \in Seq(Nat) /\ (stage'[c] = "map" => Len(data'[c]) = Size(c))
  BY BlankFacts DEF Shape, TypeInv, Core
<1>5. Core(c)'
  <2>1. Core(c) /\ stage'[c] \in {"failed", "whole", "map"}
    BY DEF Shape, TypeInv
  <2> QED BY <1>2, <1>4, <2>1 DEF Core, Size, AtShared, Busy
<1>6. \A x \in Copies \ {c} : Same(x)
  BY DEF Same, Shape, TypeInv, indexVars
<1> QED BY <1>1, <1>3, <1>5, <1>6 DEF Result

LEMMA WholeResult == ASSUME Shape, NEW c \in Copies, WholeCopy(c) PROVE Result(c)
<1> USE DEF WholeCopy, Go
<1>1. TypeInv'
  BY DEF Shape, TypeInv, Stages, Busy, AtShared, indexVars
<1>2. stage'[c] \in {"publish", "failed"}
  BY DEF Shape, TypeInv
<1>3. Onward(c) /\ Done(c)' = Done(c)
  BY <1>2, QuietOnward
<1>4. data'[c] \in Seq(Nat)
  <2>1. CASE data' = data
    BY <2>1 DEF Shape, Core
  <2>2. ASSUME NEW n \in {Len(Now(c).bytes), Smaller(Size(c), Len(Now(c).bytes))},
               data' = [data EXCEPT ![c] = SubSeq(Now(c).bytes, 1, n)]
        PROVE  data'[c] \in Seq(Nat)
    <3>1. n \in Int /\ \A i \in 1..n : Now(c).bytes[i] \in Nat
      BY NowFacts DEF Smaller
    <3>2. SubSeq(Now(c).bytes, 1, n) \in Seq(Nat)
      BY <3>1, SubSeqProperties
    <3> QED BY <2>2, <3>2 DEF Shape, TypeInv
  <2> QED BY <2>1, <2>2
<1>5. Core(c)'
  <2>1. Core(c) /\ stage'[c] \in {"failed", "publish"} /\ ref[c] = "dead"
    BY DEF Shape, TypeInv, Core
  <2> QED BY <1>3, <1>4, <2>1 DEF Core, Size, AtShared, Busy
<1>6. \A x \in Copies \ {c} : Same(x)
  BY DEF Same, Shape, TypeInv, indexVars
<1> QED BY <1>1, <1>3, <1>5, <1>6 DEF Result

LEMMA MapResult == ASSUME Shape, NEW c \in Copies, MapSource(c) PROVE Result(c)
<1> USE DEF MapSource, Go
<1> DEFINE plan == PlanSegments(Now(c).exts, Size(c))
<1>1. TypeInv'
  BY DEF Shape, TypeInv, Stages, Busy, AtShared, indexVars, Forget
<1>2. Core(c) /\ stage[c] = "map" /\ segs[c] = <<>> /\ cloned[c] = {} /\ ref[c] = "dead"
  BY DEF Shape, Core
<1>3. Onward(c)
  BY <1>2 DEF Onward, Shape, TypeInv, Forget
<1>4. Tiles(segs'[c], Done(c)', Size(c))
  <2>1. CASE segs'[c] = <<>>
    BY <2>1, TilesNone, Sizes DEF Done, Size
  <2>2. CASE segs'[c] = plan /\ plan # <<>>
    <3>1. Tiles(plan, 0, Size(c))
      BY NowFacts, PlanCorrect
    <3>2. Head(plan).off = 0
      BY <2>2, <3>1, TilesTail, Sizes
    <3> QED BY <2>2, <3>1, <3>2 DEF Done, Size
  <2> QED BY <2>1, <2>2 DEF Shape, TypeInv, Forget
<1>5. Core(c)'
  <2>1. cloned'[c] = {} /\ data'[c] = data[c] /\ at' = at /\ try' = try
    BY <1>2 DEF Shape, TypeInv, Forget
  <2>2. \/ stage'[c] = "segment" /\ ref'[c] = "temp"
        \/ stage'[c] = "whole" /\ ref'[c] = "dead" /\ segs'[c] = <<>>
    BY <1>2 DEF Shape, TypeInv, Forget
  <2> HIDE DEF MapSource
  <2> QED BY <1>2, <1>4, <2>1, <2>2 DEF Core, Size, AtShared, Busy
<1>6. \A x \in Copies \ {c} : Same(x)
  BY DEF Same, Shape, TypeInv, indexVars, Forget
<1> QED BY <1>1, <1>3, <1>5, <1>6 DEF Result

LEMMA EndSegmentsResult == ASSUME Shape, NEW c \in Copies, EndSegments(c) PROVE Result(c)
<1> USE DEF EndSegments, Go
<1>1. TypeInv'
  BY DEF Shape, TypeInv, Stages, Busy, AtShared, indexVars, fileVars
<1>2. stage'[c] \in {"check", "failed"}
  BY DEF Shape, TypeInv
<1>3. Onward(c) /\ Done(c)' = Done(c)
  BY <1>2, QuietOnward DEF fileVars
<1>4. Core(c)'
  <2>1. Core(c) /\ (stage'[c] = "failed" \/ (stage'[c] = "check" /\ segs[c] = <<>>))
    BY DEF Shape, TypeInv
  <2> QED BY <1>3, <2>1 DEF Core, Size, AtShared, Busy, fileVars
<1>5. \A x \in Copies \ {c} : Same(x)
  BY DEF Same, Shape, TypeInv, indexVars, fileVars
<1> QED BY <1>1, <1>3, <1>4, <1>5 DEF Result

LEMMA CopyUnsharedResult == ASSUME Shape, NEW c \in Copies, CopyUnshared(c) PROVE Result(c)
<1> USE DEF CopyUnshared, Go
<1>0. Core(c) /\ stage[c] = "segment" /\ segs[c] # <<>> /\ ref[c] = "temp" /\ Len(data[c]) = Size(c)
  BY DEF Shape, Core, Busy
<1>1. CASE CopyRange(c) /\ Advance(c) /\ stage' = stage
  <2>1. segs'[c] = Tail(segs[c]) /\ DOMAIN segs' = Copies
    BY <1>1 DEF Advance, Shape, TypeInv
  <2>2. /\ DOMAIN data' = Copies /\ \A x \in Copies \ {c} : data'[x] = data[x]
        /\ data'[c] \in Seq(Nat) /\ Len(data'[c]) = Size(c)
    BY <1>0, <1>1, CopyRangeFacts
  <2>3. TypeInv'
    BY <1>1, <2>1, <2>2 DEF Shape, TypeInv, indexVars
  <2>4. /\ Tiles(segs'[c], Done(c)', Size(c)) /\ Done(c)' \in Nat /\ Done(c) <= Done(c)' /\ Done(c) \in Nat
    BY <1>0, <2>1, AdvanceFacts, DoneNat
  <2>5. Onward(c)
    BY <1>0, <1>1, <2>4 DEF Onward, Shape, TypeInv
  <2>6. Core(c)'
    <3>1. \A s \in cloned[c] : s \in Segment /\ s.shared /\ s.off + s.len <= Done(c)'
      BY <1>0, <2>4, SegmentNats DEF Core
    <3> QED BY <1>0, <1>1, <2>2, <2>4, <3>1 DEF Core, Size, AtShared, Busy
  <2>7. \A x \in Copies \ {c} : Same(x)
    BY <1>1, <2>2 DEF Same, Shape, TypeInv, indexVars, Advance
  <2> QED BY <2>3, <2>5, <2>6, <2>7 DEF Result
<1>2. ASSUME NEW next \in ReadErrors(c), stage' = [stage EXCEPT ![c] = next], segs' = segs, data' = data
      PROVE  Result(c)
  <2>0. next \in {"changed", "failed"}
    BY DEF ReadErrors
  <2>1. TypeInv'
    BY <1>2, <2>0 DEF Shape, TypeInv, Stages, Busy, AtShared, indexVars
  <2>2. stage'[c] \in {"changed", "failed"}
    BY <1>2, <2>0 DEF Shape, TypeInv
  <2>3. Onward(c) /\ Done(c)' = Done(c)
    BY <1>2, <2>2, QuietOnward
  <2>4. Core(c)'
    <3>1. stage'[c] = next
      BY <1>2 DEF Shape, TypeInv
    <3> QED BY <1>0, <1>2, <2>0, <2>3, <3>1 DEF Core, Size, AtShared, Busy
  <2>5. \A x \in Copies \ {c} : Same(x)
    BY <1>2 DEF Same, Shape, TypeInv, indexVars
  <2> QED BY <2>1, <2>3, <2>4, <2>5 DEF Result
<1> QED BY <1>1, <1>2

LEMMA AcquireResult ==
    ASSUME Shape, NEW c \in Copies, Acquiring(c), NEW next \in {"clone", "waiting", "claimed"},
           stage' = [stage EXCEPT ![c] = next],
           UNCHANGED <<ver, canceled, fileVars, at>>,
           waitFor' \in [Copies -> Copies],
           DOMAIN found' = Copies, \A x \in Copies \ {c} : found'[x] = found[x]
    PROVE  Result(c)
<1>0. Core(c) /\ stage[c] \in {"segment", "shared"} /\ segs[c] # <<>> /\ Head(segs[c]).shared
  BY DEF Shape, Acquiring
<1>1. stage'[c] = next /\ stage' \in [Copies -> Stages] /\ \A x \in Copies \ {c} : stage'[x] = stage[x]
  BY DEF Shape, TypeInv, Stages, Busy, AtShared
<1>2. TypeInv'
  BY <1>1 DEF Shape, TypeInv, fileVars
<1>3. Onward(c) /\ Done(c)' = Done(c)
  BY <1>1, QuietOnward DEF fileVars
<1>4. Core(c)'
  BY <1>0, <1>1, <1>3 DEF Core, Size, AtShared, Busy, fileVars
<1>5. \A x \in Copies \ {c} : Same(x)
  BY <1>1 DEF Same, fileVars
<1> QED BY <1>2, <1>3, <1>4, <1>5 DEF Result

LEMMA AcquireRecordResult == ASSUME Shape, NEW c \in Copies, AcquireRecord(c) PROVE Result(c)
BY AcquireResult DEF AcquireRecord, Go, Shape, TypeInv

LEMMA AcquireWaitResult == ASSUME Shape, NEW c \in Copies, AcquireWait(c) PROVE Result(c)
<1>1. waitFor' \in [Copies -> Copies]
  BY DEF AcquireWait, Shape, TypeInv, IndexOK, Claim
<1> QED BY <1>1, AcquireResult DEF AcquireWait, Go, Shape, TypeInv

LEMMA AcquireClaimResult == ASSUME Shape, NEW c \in Copies, AcquireClaim(c) PROVE Result(c)
BY AcquireResult DEF AcquireClaim, Go, Shape, TypeInv

LEMMA StopWaitingResult == ASSUME Shape, NEW c \in Copies, StopWaiting(c) PROVE Result(c)
<1> USE DEF StopWaiting, Go
<1>1. Core(c) /\ stage'[c] = "failed" /\ stage[c] = "waiting"
  BY DEF Shape, TypeInv
<1>2. TypeInv'
  BY DEF Shape, TypeInv, Stages, Busy, AtShared, indexVars, fileVars
<1>3. Onward(c) /\ Done(c)' = Done(c)
  BY <1>1, QuietOnward DEF fileVars
<1>4. Core(c)'
  BY <1>1, <1>3 DEF Core, Size, AtShared, Busy, fileVars
<1>5. \A x \in Copies \ {c} : Same(x)
  BY DEF Same, Shape, TypeInv, indexVars, fileVars
<1> QED BY <1>2, <1>3, <1>4, <1>5 DEF Result

\* What a clone takes is in the filled part of the other file.
LEMMA CloneSource ==
    ASSUME Shape, NEW c \in Copies, stage[c] = "clone", Live(found[c])
    PROVE  LET r == found[c]  s == Head(segs[c])  from == r.off + s.phys - r.phys IN
           /\ r.by \in Copies /\ r.off \in Nat /\ r.phys \in Nat /\ r.len \in Nat /\ from \in Int
           /\ s.off \in Nat /\ s.len \in Nat /\ s.phys \in Nat /\ Done(r.by) \in Nat
           /\ Len(data[r.by]) = Size(r.by) /\ Done(r.by) <= Size(r.by)
           /\ \A i \in s.off + 1..s.off + s.len :
                 from + i - s.off \in r.off + 1..r.off + r.len /\ from + i - s.off \in 1..Done(r.by)
<1> DEFINE r == found[c]  s == Head(segs[c])  from == r.off + s.phys - r.phys
<1>1. RecOK(r) /\ Covers(r, s) /\ segs[c] # <<>>
  BY DEF Shape, FoundOK, Core, AtShared
<1>2. r.by \in Copies /\ r.off \in Nat /\ r.phys \in Nat /\ r.len \in Nat
  BY <1>1 DEF RecOK, Rec
<1>3. s.off \in Nat /\ s.len \in Nat /\ s.phys \in Nat
  BY <1>1, HeadFacts
<1>4. r.off + r.len <= Done(r.by) /\ Done(r.by) \in Nat /\ Done(r.by) <= Size(r.by) /\ Size(r.by) \in Nat
  BY <1>1, <1>2, DoneNat, Sizes DEF RecOK
<1>5. Len(data[r.by]) = Size(r.by)
  BY <1>2 DEF Live, Shape, Core
<1>6. r.phys <= s.phys /\ s.phys + s.len <= r.phys + r.len
  BY <1>1 DEF Covers
<1> HIDE DEF r, s
<1>7. \A i \in s.off + 1..s.off + s.len :
         from + i - s.off \in r.off + 1..r.off + r.len /\ from + i - s.off \in 1..Done(r.by)
  BY <1>2, <1>3, <1>4, <1>6
<1> QED BY <1>2, <1>3, <1>4, <1>5, <1>7 DEF r, s

\* The bytes of the record that was found take the place of the first segment.
Cloned(c) ==
    LET r == found[c]  s == Head(segs[c])  from == r.off + s.phys - r.phys IN
    data' = [data EXCEPT ![c] = [i \in 1..Size(c) |->
                IF i \in s.off + 1..s.off + s.len THEN data[r.by][from + i - s.off] ELSE @[i]]]

LEMMA CloneFacts ==
    ASSUME Shape, NEW c \in Copies, stage[c] = "clone", Live(found[c]), Cloned(c)
    PROVE  LET r == found[c]  s == Head(segs[c])  from == r.off + s.phys - r.phys IN
           /\ DOMAIN data' = Copies /\ \A x \in Copies \ {c} : data'[x] = data[x]
           /\ data'[c] \in Seq(Nat) /\ Len(data'[c]) = Size(c)
           /\ \A i \in 1..Size(c) : data'[c][i] =
                 IF i \in s.off + 1..s.off + s.len THEN data[r.by][from + i - s.off] ELSE data[c][i]
<1> DEFINE r == found[c]  s == Head(segs[c])  from == r.off + s.phys - r.phys
           f == [i \in 1..Size(c) |-> IF i \in s.off + 1..s.off + s.len THEN data[r.by][from + i - s.off] ELSE data[c][i]]
<1>1. DOMAIN data = Copies /\ data[c] \in Seq(Nat) /\ Len(data[c]) = Size(c)
  BY DEF Shape, TypeInv, Core, Busy, AtShared
<1>2. data' = [data EXCEPT ![c] = f]
  BY DEF Cloned
<1>3. /\ r.by \in Copies /\ Len(data[r.by]) = Size(r.by) /\ Done(r.by) <= Size(r.by) /\ Done(r.by) \in Nat
      /\ \A i \in s.off + 1..s.off + s.len : from + i - s.off \in 1..Done(r.by)
  BY CloneSource
<1>4. data[r.by] \in Seq(Nat) /\ Size(r.by) \in Nat
  BY <1>3, Sizes DEF Shape, Core
<1>5. /\ \A i \in 1..Size(c) : data[c][i] \in Nat
      /\ \A i \in 1..Size(r.by) : data[r.by][i] \in Nat
  BY <1>1, <1>3, <1>4, ElementOfSeq
<1> HIDE DEF r, s, from
<1>6. \A i \in s.off + 1..s.off + s.len : data[r.by][from + i - s.off] \in Nat
  <2> TAKE i \in s.off + 1..s.off + s.len
  <2>1. from + i - s.off \in 1..Size(r.by)
    BY <1>3, <1>4
  <2> QED BY <1>5, <2>1
<1>7. f \in [1..Size(c) -> Nat]
  BY <1>5, <1>6
<1> HIDE DEF f
<1>8. f \in Seq(Nat) /\ Len(f) = Size(c)
  BY <1>7, Sizes, FunctionSeq
<1>9. DOMAIN data' = Copies /\ data'[c] = f /\ \A x \in Copies \ {c} : data'[x] = data[x]
  BY <1>1, <1>2
<1>10. \A i \in 1..Size(c) : f[i] =
          IF i \in s.off + 1..s.off + s.len THEN data[r.by][from + i - s.off] ELSE data[c][i]
  BY DEF f
<1> QED BY <1>8, <1>9, <1>10 DEF r, s, from

LEMMA CloneResult == ASSUME Shape, NEW c \in Copies, Clone(c) PROVE Result(c)
<1>1. /\ Core(c) /\ stage[c] = "clone" /\ segs[c] # <<>> /\ ref[c] = "temp" /\ Len(data[c]) = Size(c)
      /\ Head(segs[c]).shared
  BY DEF Clone, Shape, Core, Busy, AtShared
<1>2. found' = [found EXCEPT ![c] = <<>>] /\ UNCHANGED <<ver, canceled, try, since, stat, ref, recs, claims, waitFor, at>>
  BY DEF Clone
<1> DEFINE r == found[c]  s == Head(segs[c])  from == r.off + s.phys - r.phys
<1>3. CASE /\ Reachable(r)
           /\ data' = [data EXCEPT ![c] = [i \in 1..Size(c) |->
                           IF i \in s.off + 1..s.off + s.len THEN data[r.by][from + i - s.off] ELSE @[i]]]
           /\ cloned' = [cloned EXCEPT ![c] = @ \cup {s}]
           /\ segs' = [segs EXCEPT ![c] = Tail(@)] /\ stage' = [stage EXCEPT ![c] = "segment"]
  <2>1. segs'[c] = Tail(segs[c]) /\ DOMAIN segs' = Copies
    <3>1. segs' = [segs EXCEPT ![c] = Tail(segs[c])]
      BY <1>3
    <3>2. DOMAIN segs = Copies
      BY DEF Shape, TypeInv
    <3> QED BY <3>1, <3>2
  <2>2. /\ DOMAIN data' = Copies /\ \A x \in Copies \ {c} : data'[x] = data[x]
        /\ data'[c] \in Seq(Nat) /\ Len(data'[c]) = Size(c)
    <3>1. Live(found[c])
      BY <1>3 DEF Reachable
    <3>2. Cloned(c)
      BY <1>3 DEF Cloned
    <3> QED BY <1>1, <3>1, <3>2, CloneFacts
  <2>3. TypeInv'
    BY <1>2, <1>3, <2>1, <2>2 DEF Shape, TypeInv, Stages, Busy
  <2>4. /\ Tiles(segs'[c], Done(c)', Size(c)) /\ Done(c)' \in Nat /\ Done(c) <= Done(c)' /\ Done(c) \in Nat
        /\ Done(c)' = s.off + s.len /\ s \in Segment
    BY <1>1, <2>1, AdvanceFacts, DoneNat, HeadFacts
  <2>5. stage'[c] = "segment" /\ ref' = ref /\ try' = try /\ at' = at /\ cloned'[c] = cloned[c] \cup {s}
    BY <1>2, <1>3 DEF Shape, TypeInv
  <2>6. Onward(c)
    BY <2>4, <2>5 DEF Onward, Shape, TypeInv
  <2>7. Core(c)'
    <3>1. \A q \in cloned'[c] : q \in Segment /\ q.shared /\ q.off + q.len <= Done(c)'
      <4> TAKE q \in cloned'[c]
      <4>1. CASE q = s
        BY <1>1, <2>4, <4>1
      <4>2. CASE q \in cloned[c]
        <5>1. \A z \in cloned[c] : z \in Segment /\ z.shared /\ z.off + z.len <= Done(c)
          BY <1>1 DEF Core
        <5>2. q \in Segment /\ q.shared /\ q.off + q.len <= Done(c)
          BY <4>2, <5>1
        <5> QED BY <2>4, <5>2, SegmentNats
      <4> QED BY <2>5, <4>1, <4>2
    <3> QED BY <1>1, <1>2, <2>2, <2>4, <2>5, <3>1 DEF Core, Size, AtShared, Busy
  <2>8. \A x \in Copies \ {c} : Same(x)
    BY <1>2, <1>3, <2>2 DEF Same, Shape, TypeInv
  <2> QED BY <2>3, <2>6, <2>7, <2>8 DEF Result
<1>4. CASE stage' = [stage EXCEPT ![c] = "recopy"] /\ UNCHANGED <<segs, cloned, data>>
  <2>1. TypeInv'
    BY <1>2, <1>4 DEF Shape, TypeInv, Stages, Busy, AtShared
  <2>2. stage'[c] = "recopy"
    BY <1>4 DEF Shape, TypeInv
  <2>3. Onward(c) /\ Done(c)' = Done(c)
    BY <1>2, <1>4, <2>2, QuietOnward
  <2>4. Core(c)'
    BY <1>1, <1>2, <1>4, <2>2, <2>3 DEF Core, Size, AtShared, Busy
  <2>5. \A x \in Copies \ {c} : Same(x)
    BY <1>2, <1>4 DEF Same, Shape, TypeInv
  <2> QED BY <2>1, <2>3, <2>4, <2>5 DEF Result
<1> QED BY <1>3, <1>4 DEF Clone, Go, Advance

LEMMA ReleaseFacts ==
    ASSUME Shape, NEW c \in Copies, NEW next \in Stages, Release(c, next)
    PROVE  /\ stage' \in [Copies -> Stages] /\ stage'[c] = next
           /\ \A x \in Copies \ {c} : stage'[x] = stage[x] \/ (stage[x] = "waiting" /\ stage'[x] = "shared")
BY DEF Release, Shape, TypeInv, Stages, Busy, AtShared

LEMMA CopySharedResult == ASSUME Shape, NEW c \in Copies, CopyShared(c) PROVE Result(c)
<1> USE DEF CopyShared, Go
<1>0. /\ Core(c) /\ stage[c] \in {"claimed", "recopy"} /\ segs[c] # <<>> /\ ref[c] = "temp"
      /\ Len(data[c]) = Size(c) /\ Head(segs[c]).shared
  BY DEF Shape, Core, Busy, AtShared
<1>1. CASE CopyRange(c) /\ stage' = [stage EXCEPT ![c] = "record"]
  <2>1. /\ DOMAIN data' = Copies /\ \A x \in Copies \ {c} : data'[x] = data[x]
        /\ data'[c] \in Seq(Nat) /\ Len(data'[c]) = Size(c)
    BY <1>0, <1>1, CopyRangeFacts
  <2>2. stage'[c] = "record" /\ stage' \in [Copies -> Stages] /\ \A x \in Copies \ {c} : stage'[x] = stage[x]
    BY <1>1 DEF Shape, TypeInv, Stages, Busy, AtShared
  <2>3. TypeInv'
    BY <2>1, <2>2 DEF Shape, TypeInv
  <2>4. Onward(c) /\ Done(c)' = Done(c)
    BY <2>2, QuietOnward
  <2>5. Core(c)'
    BY <1>0, <2>1, <2>2, <2>4 DEF Core, Size, AtShared, Busy
  <2>6. \A x \in Copies \ {c} : Same(x)
    BY <2>1, <2>2 DEF Same
  <2> QED BY <2>3, <2>4, <2>5, <2>6 DEF Result
<1>2. ASSUME NEW next \in ReadErrors(c), Release(c, next), data' = data PROVE Result(c)
  <2>1. next \in {"changed", "failed"} /\ next \in Stages
    BY DEF ReadErrors, Stages
  <2>2. /\ stage' \in [Copies -> Stages] /\ stage'[c] = next
        /\ \A x \in Copies \ {c} : stage'[x] = stage[x] \/ (stage[x] = "waiting" /\ stage'[x] = "shared")
    BY <1>2, <2>1, ReleaseFacts
  <2>3. TypeInv'
    BY <1>2, <2>2 DEF Shape, TypeInv
  <2>4. Onward(c) /\ Done(c)' = Done(c)
    BY <2>1, <2>2, QuietOnward
  <2>5. Core(c)'
    BY <1>0, <1>2, <2>1, <2>2, <2>4 DEF Core, Size, AtShared, Busy
  <2>6. \A x \in Copies \ {c} : Same(x)
    BY <1>2, <2>2 DEF Same
  <2> QED BY <2>3, <2>4, <2>5, <2>6 DEF Result
<1> QED BY <1>1, <1>2

LEMMA RecordResult == ASSUME Shape, NEW c \in Copies, Record(c) PROVE Result(c)
<1> USE DEF Record
<1>0. Core(c) /\ stage[c] = "record" /\ segs[c] # <<>> /\ ref[c] = "temp" /\ Len(data[c]) = Size(c)
  BY DEF Shape, Core, Busy, AtShared
<1>1. segs'[c] = Tail(segs[c]) /\ DOMAIN segs' = Copies /\ \A x \in Copies \ {c} : segs'[x] = segs[x]
  BY DEF Advance, Shape, TypeInv
<1>2. /\ stage' \in [Copies -> Stages] /\ stage'[c] = "segment"
      /\ \A x \in Copies \ {c} : stage'[x] = stage[x] \/ (stage[x] = "waiting" /\ stage'[x] = "shared")
  <2>1. "segment" \in Stages
    BY DEF Stages, Busy
  <2> QED BY <2>1, ReleaseFacts
<1>3. TypeInv'
  BY <1>1, <1>2 DEF Shape, TypeInv
<1>4. Tiles(segs'[c], Done(c)', Size(c)) /\ Done(c)' \in Nat /\ Done(c) <= Done(c)' /\ Done(c) \in Nat
  BY <1>0, <1>1, AdvanceFacts, DoneNat
<1>5. Onward(c)
  BY <1>2, <1>4 DEF Onward, Shape, TypeInv
<1>6. Core(c)'
  <2>1. \A s \in cloned[c] : s \in Segment /\ s.shared /\ s.off + s.len <= Done(c)'
    BY <1>0, <1>4, SegmentNats DEF Core
  <2> QED BY <1>0, <1>2, <1>4, <2>1 DEF Core, Size, AtShared, Busy
<1>7. \A x \in Copies \ {c} : Same(x)
  BY <1>1, <1>2 DEF Same
<1> QED BY <1>3, <1>5, <1>6, <1>7 DEF Result

LEMMA ForgetFacts ==
    ASSUME Shape, NEW c \in Copies, Forget(c)
    PROVE  /\ segs'[c] = <<>> /\ cloned'[c] = {}
           /\ DOMAIN segs' = Copies /\ DOMAIN cloned' = Copies /\ DOMAIN stat' = Copies
           /\ \A x \in Copies \ {c} : segs'[x] = segs[x] /\ cloned'[x] = cloned[x]
           /\ Done(c)' = Size(c) /\ Size(c) \in Nat /\ Tiles(segs'[c], Done(c)', Size(c))
<1>1. /\ segs'[c] = <<>> /\ cloned'[c] = {}
      /\ DOMAIN segs' = Copies /\ DOMAIN cloned' = Copies /\ DOMAIN stat' = Copies
      /\ \A x \in Copies \ {c} : segs'[x] = segs[x] /\ cloned'[x] = cloned[x]
  BY DEF Forget, Shape, TypeInv
<1>2. Done(c)' = Size(c)
  BY <1>1 DEF Done, Size
<1> QED BY <1>1, <1>2, Sizes, TilesNone

LEMMA CheckResult == ASSUME Shape, NEW c \in Copies, Check(c) PROVE Result(c)
<1> USE DEF Check, Go
<1>0. Core(c) /\ stage[c] = "check" /\ segs[c] = <<>> /\ ref[c] = "temp" /\ Len(data[c]) = Size(c)
  BY DEF Shape, Core, Busy, AtShared
<1>1. /\ stage'[c] \in {"publish", "changed"} /\ stage' \in [Copies -> Stages]
      /\ \A x \in Copies \ {c} : stage'[x] = stage[x]
  BY DEF Shape, TypeInv, Stages
<1>2. TypeInv'
  BY <1>1, ForgetFacts DEF Shape, TypeInv, indexVars
<1>3. Onward(c)
  BY <1>1, ForgetFacts, DoneNat DEF Onward, Shape, TypeInv
<1>4. Core(c)'
  BY <1>0, <1>1, ForgetFacts DEF Core, Size, AtShared, Busy
<1>5. \A x \in Copies \ {c} : Same(x)
  BY <1>1, ForgetFacts DEF Same, indexVars
<1> QED BY <1>2, <1>3, <1>4, <1>5 DEF Result

LEMMA RestartResult == ASSUME Shape, NEW c \in Copies, Restart(c) PROVE Result(c)
<1> USE DEF Restart, Go
<1>0. Core(c) /\ stage[c] = "changed"
  BY DEF Shape
<1>1. /\ stage'[c] = "whole" /\ stage' \in [Copies -> Stages] /\ \A x \in Copies \ {c} : stage'[x] = stage[x]
  BY DEF Shape, TypeInv, Stages
<1>2. /\ ref'[c] = "dead" /\ ref' \in [Copies -> {"temp", "path", "dead"}]
      /\ \A x \in Copies \ {c} : ref'[x] = ref[x]
  BY DEF Shape, TypeInv
<1>3. data'[c] = <<>> /\ DOMAIN data' = Copies /\ \A x \in Copies \ {c} : data'[x] = data[x]
  BY DEF Shape, TypeInv
<1>4. TypeInv'
  BY <1>1, <1>2, <1>3, ForgetFacts DEF Shape, TypeInv, indexVars
<1>5. Onward(c)
  BY <1>1, <1>2 DEF Onward, Shape, TypeInv
<1>6. Core(c)'
  <2>1. data'[c] \in Seq(Nat)
    BY <1>3
  <2> QED BY <1>0, <1>1, <1>2, <2>1, ForgetFacts DEF Core, Size, AtShared, Busy
<1>7. \A x \in Copies \ {c} : Same(x)
  BY <1>1, <1>2, <1>3, ForgetFacts DEF Same, indexVars
<1> QED BY <1>4, <1>5, <1>6, <1>7 DEF Result

LEMMA PublishResult == ASSUME Shape, NEW c \in Copies, Publish(c) PROVE Result(c)
<1> USE DEF Publish, Go
<1>0. Core(c) /\ stage[c] = "publish" /\ DstOf[c] \in DOMAIN at
  BY DEF Shape, TypeInv
<1>1. /\ stage'[c] \in {"commit", "failed"} /\ stage' \in [Copies -> Stages]
      /\ \A x \in Copies \ {c} : stage'[x] = stage[x]
  BY DEF Shape, TypeInv, Stages
<1>2. TypeInv'
  BY <1>1 DEF Shape, TypeInv, indexVars, fileVars
<1>3. Onward(c) /\ Done(c)' = Done(c)
  BY <1>1, QuietOnward DEF fileVars
<1>4. \A t : at'[DstOf[c]] = <<c, t>> => t \in Nat /\ t <= try[c] /\ (t = try[c] => stage'[c] \in {"commit", "done"})
  <2>1. try[c] \in Nat
    BY DEF Shape, TypeInv
  <2>2. CASE stage' = [stage EXCEPT ![c] = "commit"] /\ at' = [at EXCEPT ![DstOf[c]] = <<c, try[c]>>]
    <3>1. at'[DstOf[c]] = <<c, try[c]>> /\ stage'[c] = "commit"
      BY <1>0, <2>2 DEF Shape, TypeInv
    <3> QED BY <2>1, <3>1
  <2>3. CASE at' = at
    BY <1>0, <2>1, <2>3 DEF Core
  <2> QED BY <2>2, <2>3
<1>5. Core(c)'
  BY <1>0, <1>1, <1>3, <1>4 DEF Core, Size, AtShared, Busy, fileVars
<1>6. \A x \in Copies \ {c} : Same(x)
  <2> TAKE x \in Copies \ {c}
  <2>1. \A t : at'[DstOf[x]] = <<x, t>> => at[DstOf[x]] = <<x, t>>
    <3> DEFINE mine == <<c, try[c]>>
    <3>1. \A t : mine # <<x, t>>
      OBVIOUS
    <3> HIDE DEF mine
    <3>2. at' = [at EXCEPT ![DstOf[c]] = mine] \/ at' = at
      BY DEF mine
    <3>3. DstOf[x] \in DOMAIN at
      BY DEF Shape, TypeInv
    <3>4. at'[DstOf[x]] = mine \/ at'[DstOf[x]] = at[DstOf[x]]
      BY <3>2, <3>3
    <3> QED BY <3>1, <3>4
  <2> QED BY <1>1, <2>1 DEF Same, fileVars, indexVars
<1> QED BY <1>2, <1>3, <1>5, <1>6 DEF Result

LEMMA CommitResult == ASSUME Shape, NEW c \in Copies, Commit(c) PROVE Result(c)
<1> USE DEF Commit, Go
<1>0. Core(c) /\ stage[c] = "commit" /\ segs'[c] = segs[c]
  BY DEF Shape
<1>1. /\ stage'[c] = "done" /\ stage' \in [Copies -> Stages] /\ \A x \in Copies \ {c} : stage'[x] = stage[x]
  BY DEF Shape, TypeInv, Stages
<1>2. /\ ref'[c] = (IF ref[c] = "temp" THEN "path" ELSE ref[c])
      /\ ref' \in [Copies -> {"temp", "path", "dead"}] /\ \A x \in Copies \ {c} : ref'[x] = ref[x]
  BY DEF Shape, TypeInv
<1>3. TypeInv'
  BY <1>1, <1>2 DEF Shape, TypeInv, indexVars
<1>4. Done(c)' = Done(c) /\ Done(c) \in Nat
  BY DoneNat DEF Done, Size
<1>5. Onward(c)
  BY <1>1, <1>2, <1>4 DEF Onward, Shape, TypeInv
<1>6. Core(c)'
  BY <1>0, <1>1, <1>2, <1>4 DEF Core, Size, AtShared, Busy
<1>7. \A x \in Copies \ {c} : Same(x)
  BY <1>1, <1>2 DEF Same, indexVars
<1> QED BY <1>3, <1>5, <1>6, <1>7 DEF Result

LEMMA CleanUpResult == ASSUME Shape, NEW c \in Copies, CleanUp(c) PROVE Result(c)
<1> USE DEF CleanUp, RetryOrEnd, Go
<1>0. Core(c) /\ stage[c] = "failed" /\ try[c] \in 1..MaxAttempts /\ MaxAttempts \in Nat
  BY DedupAssumption DEF Shape, TypeInv
<1>1. /\ stage'[c] \in {"start", "done"} /\ stage' \in [Copies -> Stages]
      /\ \A x \in Copies \ {c} : stage'[x] = stage[x] /\ try'[x] = try[x]
      /\ try' \in [Copies -> 1..MaxAttempts] /\ try[c] <= try'[c]
      /\ stage'[c] = "start" => try[c] < try'[c]
  <2>1. CASE /\ try[c] < MaxAttempts /\ stage' = [stage EXCEPT ![c] = "start"]
             /\ try' = [try EXCEPT ![c] = @ + 1]
    <3>1. try[c] + 1 \in 1..MaxAttempts /\ try[c] <= try[c] + 1 /\ try[c] < try[c] + 1
      BY <1>0, <2>1
    <3>2. try' \in [Copies -> 1..MaxAttempts] /\ try'[c] = try[c] + 1 /\ \A x \in Copies \ {c} : try'[x] = try[x]
      BY <2>1, <3>1 DEF Shape, TypeInv
    <3>3. stage' \in [Copies -> Stages] /\ stage'[c] = "start" /\ \A x \in Copies \ {c} : stage'[x] = stage[x]
      BY <2>1 DEF Shape, TypeInv, Stages
    <3> QED BY <3>1, <3>2, <3>3
  <2>2. CASE stage' = [stage EXCEPT ![c] = "done"] /\ try' = try
    BY <1>0, <2>2 DEF Shape, TypeInv, Stages
  <2> QED BY <2>1, <2>2
<1>2. /\ ref'[c] = "dead" /\ ref' \in [Copies -> {"temp", "path", "dead"}]
      /\ \A x \in Copies \ {c} : ref'[x] = ref[x]
  BY DEF Shape, TypeInv
<1>3. data'[c] = <<>> /\ DOMAIN data' = Copies /\ \A x \in Copies \ {c} : data'[x] = data[x]
  BY DEF Shape, TypeInv
<1>4. TypeInv'
  BY <1>1, <1>2, <1>3, ForgetFacts DEF Shape, TypeInv, indexVars
<1>5. Onward(c)
  BY <1>0, <1>1, <1>2 DEF Onward
<1>6. Core(c)'
  <2>1. data'[c] \in Seq(Nat) /\ at' = at
    BY <1>3
  <2>2. \A t : at[DstOf[c]] = <<c, t>> => t \in Nat /\ t < try[c]
    BY <1>0 DEF Core
  <2>3. \A t : at'[DstOf[c]] = <<c, t>> => t \in Nat /\ t <= try'[c] /\ t # try'[c]
    BY <1>0, <1>1, <2>1, <2>2
  <2> QED BY <1>1, <1>2, <2>1, <2>3, ForgetFacts DEF Core, Size, AtShared, Busy
<1>7. \A x \in Copies \ {c} : Same(x)
  BY <1>1, <1>2, <1>3, ForgetFacts DEF Same, indexVars
<1> QED BY <1>4, <1>5, <1>6, <1>7 DEF Result

LEMMA StepResult == ASSUME Shape, NEW c \in Copies, CopyStep(c) PROVE Result(c)
BY BeginResult, WholeResult, MapResult, EndSegmentsResult, CopyUnsharedResult, AcquireRecordResult,
   AcquireWaitResult, AcquireClaimResult, StopWaitingResult, CloneResult, CopySharedResult, RecordResult,
   CheckResult, RestartResult, PublishResult, CommitResult, CleanUpResult DEF CopyStep

LEMMA StepOnward == ASSUME Shape, NEW c \in Copies, CopyStep(c) PROVE \A b \in Copies : Onward(b)
BY StepResult, SameOnward DEF Result

\* Which steps touch the index, and how the others leave the claims.
LEMMA Untouched ==
    ASSUME Shape, NEW c \in Copies, CopyStep(c),
           ~AcquireWait(c), ~AcquireClaim(c), ~CopyShared(c), ~Record(c)
    PROVE  /\ recs' = recs /\ claims' = claims /\ waitFor' = waitFor
           /\ \A x \in Copies \ {c} : stage'[x] = stage[x]
           /\ stage[c] \notin {"claimed", "record"} /\ stage'[c] # "waiting"
           /\ stage'[c] = "clone" => AcquireRecord(c)
<1> USE DEF Go, fileVars, indexVars, Shape, TypeInv
<1>1. CASE Begin(c)
  BY <1>1 DEF Begin
<1>2. CASE WholeCopy(c)
  BY <1>2 DEF WholeCopy
<1>3. CASE MapSource(c)
  BY <1>3 DEF MapSource
<1>4. CASE EndSegments(c)
  BY <1>4 DEF EndSegments
<1>5. CASE CopyUnshared(c)
  BY <1>5 DEF CopyUnshared, ReadErrors
<1>6. CASE AcquireRecord(c)
  BY <1>6 DEF AcquireRecord, Acquiring
<1>7. CASE StopWaiting(c)
  BY <1>7 DEF StopWaiting
<1>8. CASE Clone(c)
  BY <1>8 DEF Clone
<1>9. CASE Check(c)
  BY <1>9 DEF Check
<1>10. CASE Restart(c)
  BY <1>10 DEF Restart
<1>11. CASE Publish(c)
  BY <1>11 DEF Publish
<1>12. CASE Commit(c)
  BY <1>12 DEF Commit
<1>13. CASE CleanUp(c)
  BY <1>13 DEF CleanUp, RetryOrEnd
<1> QED
  BY <1>1, <1>2, <1>3, <1>4, <1>5, <1>6, <1>7, <1>8, <1>9, <1>10, <1>11, <1>12, <1>13 DEF CopyStep

LEMMA ReleaseClaims ==
    ASSUME Shape, NEW c \in Copies, NEW next \in Stages \ {"waiting"}, Release(c, next), waitFor' = waitFor,
           \A x \in Copies \ {c} : segs'[x] = segs[x]
    PROVE  claims' \subseteq Claim /\ ClaimsHeld'
<1>1. /\ stage'[c] = next
      /\ \A x \in Copies \ {c} : stage'[x] = IF stage[x] = "waiting" /\ waitFor[x] = c THEN "shared" ELSE stage[x]
  BY DEF Release
<1>2. claims' = {k \in claims : k.by # c} /\ claims \subseteq Claim /\ ClaimsHeld
  BY DEF Release, Shape, IndexOK
<1>3. \A k \in claims' : stage'[k.by] \in {"claimed", "record"}
  BY <1>1, <1>2 DEF ClaimsHeld, Claim
<1>4. \A k, l \in claims' : k.by = l.by \/ (k.phys = l.phys /\ k.len = l.len) => k = l
  BY <1>2 DEF ClaimsHeld
<1>5. ASSUME NEW x \in Copies, stage'[x] = "waiting"
      PROVE  \E k \in claims' : k.by = waitFor'[x] /\ Covers(k, Head(segs'[x]))
  <2>1. x # c /\ stage[x] = "waiting" /\ waitFor[x] # c
    BY <1>1, <1>5
  <2>2. PICK k \in claims : k.by = waitFor[x] /\ Covers(k, Head(segs[x]))
    BY <1>2, <2>1 DEF ClaimsHeld
  <2>3. k \in claims'
    BY <1>2, <2>1, <2>2
  <2> QED BY <2>1, <2>2, <2>3
<1> QED BY <1>2, <1>3, <1>4, <1>5 DEF ClaimsHeld

LEMMA ClaimsStep == ASSUME Shape, NEW c \in Copies, CopyStep(c) PROVE claims' \subseteq Claim /\ ClaimsHeld'
<1>0. claims \subseteq Claim /\ ClaimsHeld /\ Core(c)
  BY DEF Shape, IndexOK
<1>1. Result(c)
  BY StepResult
<1>2. \A x \in Copies \ {c} : segs'[x] = segs[x]
  BY <1>1 DEF Result, Same
<1>3. CASE CopyShared(c)
  <2>1. CASE stage' = [stage EXCEPT ![c] = "record"] /\ claims' = claims
    <3>1. stage'[c] = "record" /\ \A x \in Copies \ {c} : stage'[x] = stage[x]
      BY <2>1 DEF Shape, TypeInv
    <3>2. waitFor' = waitFor /\ segs' = segs
      BY <1>3 DEF CopyShared
    <3>3. \A k \in claims' : stage'[k.by] \in {"claimed", "record"}
      BY <1>0, <2>1, <3>1 DEF ClaimsHeld, Claim
    <3>4. \A x \in Copies : stage'[x] = "waiting" => stage[x] = "waiting"
      BY <3>1
    <3> QED BY <1>0, <2>1, <3>2, <3>3, <3>4 DEF ClaimsHeld
  <2>2. ASSUME NEW next \in ReadErrors(c), Release(c, next) PROVE claims' \subseteq Claim /\ ClaimsHeld'
    <3>1. next \in Stages \ {"waiting"} /\ waitFor' = waitFor
      BY <1>3 DEF CopyShared, ReadErrors, Stages
    <3> QED BY <1>2, <2>2, <3>1, ReleaseClaims
  <2> QED BY <1>3, <2>1, <2>2 DEF CopyShared, Go
<1>4. CASE Record(c)
  <2>1. "segment" \in Stages \ {"waiting"} /\ waitFor' = waitFor /\ Release(c, "segment")
    BY <1>4 DEF Record, Stages, Busy
  <2> QED BY <1>2, <2>1, ReleaseClaims
<1>5. CASE AcquireWait(c)
  <2>1. /\ stage'[c] = "waiting" /\ claims' = claims /\ segs' = segs /\ stage[c] \in {"segment", "shared"}
        /\ \A x \in Copies \ {c} : stage'[x] = stage[x] /\ waitFor'[x] = waitFor[x]
    BY <1>5 DEF AcquireWait, Acquiring, Go, fileVars, Shape, TypeInv
  <2>2. \E k \in claims : Covers(k, Head(segs[c])) /\ k.by = waitFor'[c]
    BY <1>5 DEF AcquireWait, Shape, TypeInv
  <2>3. \A k \in claims' : stage'[k.by] \in {"claimed", "record"}
    BY <1>0, <2>1 DEF ClaimsHeld, Claim
  <2>4. \A x \in Copies : stage'[x] = "waiting" => \E k \in claims' : k.by = waitFor'[x] /\ Covers(k, Head(segs'[x]))
    BY <1>0, <2>1, <2>2 DEF ClaimsHeld
  <2> QED BY <1>0, <2>1, <2>3, <2>4 DEF ClaimsHeld
<1>6. CASE AcquireClaim(c)
  <2> DEFINE k0 == [phys |-> Head(segs[c]).phys, len |-> Head(segs[c]).len, by |-> c]
  <2>1. /\ stage'[c] = "claimed" /\ claims' = claims \cup {k0} /\ segs' = segs /\ waitFor' = waitFor
        /\ stage[c] \in {"segment", "shared"} /\ segs[c] # <<>>
        /\ \A x \in Copies \ {c} : stage'[x] = stage[x]
        /\ \A k \in claims : ~Covers(k, Head(segs[c]))
    BY <1>6 DEF AcquireClaim, Acquiring, Go, fileVars, Shape, TypeInv
  <2>2. /\ Head(segs[c]).phys \in Nat /\ Head(segs[c]).len \in Nat /\ Head(segs[c]).len > 0
    BY <2>1, HeadFacts
  <2>3. k0 \in Claim /\ k0.phys = Head(segs[c]).phys /\ k0.len = Head(segs[c]).len /\ k0.by = c
    BY <2>2 DEF Claim
  <2> HIDE DEF k0
  <2>4. \A k \in claims' : stage'[k.by] \in {"claimed", "record"}
    BY <1>0, <2>1, <2>3 DEF ClaimsHeld, Claim
  <2>5. \A k \in claims : k.by # c /\ ~(k.phys = k0.phys /\ k.len = k0.len)
    <3> TAKE k \in claims
    <3>1. k.by # c
      BY <1>0, <2>1 DEF ClaimsHeld
    <3>2. k.phys = k0.phys /\ k.len = k0.len => Covers(k, Head(segs[c]))
      BY <2>2, <2>3 DEF Covers
    <3> QED BY <2>1, <3>1, <3>2
  <2>6. \A k, l \in claims' : k.by = l.by \/ (k.phys = l.phys /\ k.len = l.len) => k = l
    BY <1>0, <2>1, <2>3, <2>5 DEF ClaimsHeld
  <2>7. \A x \in Copies : stage'[x] = "waiting" => \E k \in claims' : k.by = waitFor'[x] /\ Covers(k, Head(segs'[x]))
    BY <1>0, <2>1 DEF ClaimsHeld
  <2> QED BY <1>0, <2>1, <2>3, <2>4, <2>6, <2>7 DEF ClaimsHeld
<1>7. CASE ~CopyShared(c) /\ ~Record(c) /\ ~AcquireWait(c) /\ ~AcquireClaim(c)
  <2>1. /\ claims' = claims /\ waitFor' = waitFor /\ \A x \in Copies \ {c} : stage'[x] = stage[x]
        /\ stage[c] \notin {"claimed", "record"} /\ stage'[c] # "waiting"
    BY <1>7, Untouched
  <2>2. \A k \in claims' : stage'[k.by] \in {"claimed", "record"}
    BY <1>0, <2>1 DEF ClaimsHeld, Claim
  <2>3. \A x \in Copies : stage'[x] = "waiting" => \E k \in claims' : k.by = waitFor'[x] /\ Covers(k, Head(segs'[x]))
    BY <1>0, <1>2, <2>1 DEF ClaimsHeld
  <2> QED BY <1>0, <2>1, <2>2, <2>3 DEF ClaimsHeld
<1> QED BY <1>3, <1>4, <1>5, <1>6, <1>7

\* The new record of a copy.
LEMMA InsertFacts ==
    ASSUME Shape, NEW c \in Copies, Record(c)
    PROVE  \E r \in Rec :
              /\ r.phys = Head(segs[c]).phys /\ r.len = Head(segs[c]).len /\ r.off = Head(segs[c]).off
              /\ r.by = c /\ r.try = try[c] /\ RecOK(r)'
              /\ \/ recs' = recs
                 \/ /\ Mapped(Now(c).exts, Head(segs[c]))
                    /\ recs' = {q \in recs : q.phys # r.phys \/ q.len # r.len} \cup {r}
<1>1. segs[c] # <<>> /\ stage[c] = "record" /\ try' = try /\ try[c] \in Nat \ {0}
  BY DEF Record, Shape, Core, TypeInv, AtShared
<1>2. PICK s : s = Head(segs[c])
  OBVIOUS
<1>3. s.off \in Nat /\ s.len \in Nat /\ s.len > 0 /\ s.phys \in Nat
  BY <1>1, <1>2, HeadFacts
<1>4. PICK r : r = [phys |-> s.phys, len |-> s.len, off |-> s.off, by |-> c, try |-> try[c]]
  OBVIOUS
<1>5. r \in Rec /\ r.phys = s.phys /\ r.len = s.len /\ r.off = s.off /\ r.by = c /\ r.try = try[c]
  BY <1>1, <1>3, <1>4 DEF Rec
<1>6. segs'[c] = Tail(segs[c]) /\ stage'[c] = "segment"
  BY DEF Record, Advance, Release, Shape, TypeInv
<1>7. Done(c)' = s.off + s.len
  BY <1>1, <1>2, <1>6, AdvanceFacts
<1>8. recs' = recs \/ (Mapped(Now(c).exts, s) /\ recs' = {q \in recs : q.phys # r.phys \/ q.len # r.len} \cup {r})
  BY <1>2, <1>4, <1>5 DEF Record, Insert
<1>9. RecOK(r)'
  <2>1. Done(r.by)' = s.off + s.len
    <3>1. Done(r.by)' = Done(c)'
      BY <1>5 DEF Done, Size
    <3> QED BY <1>7, <3>1
  <2>2. r.off + r.len <= Done(r.by)'
    BY <1>3, <1>5, <2>1
  <2>3. r.try <= try'[r.by] /\ ~(stage'[r.by] \in {"start", "map"})
    BY <1>1, <1>5, <1>6
  <2> QED BY <1>5, <2>2, <2>3 DEF RecOK
<1> QED BY <1>2, <1>5, <1>8, <1>9

LEMMA RecsStep ==
    ASSUME Shape, NEW c \in Copies, CopyStep(c)
    PROVE  /\ IsFiniteSet(recs') /\ \A r \in recs' : RecOK(r)'
           /\ \A r, q \in recs' : r.phys = q.phys /\ r.len = q.len => r = q
<1>0. /\ IsFiniteSet(recs) /\ \A r \in recs : RecOK(r)
      /\ \A r, q \in recs : r.phys = q.phys /\ r.len = q.len => r = q
  BY DEF Shape, IndexOK
<1>1. \A r \in recs : RecOK(r)'
  <2> TAKE r \in recs
  <2>1. RecOK(r) /\ \A b \in Copies : Onward(b)
    BY <1>0, StepOnward
  <2> QED BY <2>1, RecKept
<1>2. CASE recs' = recs
  BY <1>0, <1>1, <1>2
<1>3. CASE Record(c) /\ recs' # recs
  <2>1. PICK r \in Rec : RecOK(r)' /\ recs' = {q \in recs : q.phys # r.phys \/ q.len # r.len} \cup {r}
    BY <1>3, InsertFacts
  <2> DEFINE rest == {q \in recs : q.phys # r.phys \/ q.len # r.len}
  <2>2. IsFiniteSet(rest)
    BY <1>0, FS_Subset
  <2>3. IsFiniteSet(recs')
    BY <2>1, <2>2, FS_AddElement
  <2>4. \A q \in recs' : RecOK(q)'
    BY <1>1, <2>1
  <2>5. \A q, p \in recs' : q.phys = p.phys /\ q.len = p.len => q = p
    BY <1>0, <2>1
  <2> QED BY <2>3, <2>4, <2>5
<1>4. recs' # recs => Record(c)
  <2>1. AcquireWait(c) \/ AcquireClaim(c) \/ CopyShared(c) => recs' = recs
    BY DEF AcquireWait, AcquireClaim, CopyShared
  <2> QED BY <2>1, Untouched
<1> QED BY <1>2, <1>3, <1>4

\* A copy gets to clone by finding a record.
LEMMA Finding ==
    ASSUME Shape, NEW c \in Copies, CopyStep(c), stage'[c] = "clone"
    PROVE  AcquireRecord(c)
<1>1. ~AcquireWait(c) /\ ~AcquireClaim(c) /\ ~Record(c)
  BY DEF AcquireWait, AcquireClaim, Record, Go, Release, Shape, TypeInv
<1>2. ~CopyShared(c)
  BY DEF CopyShared, Go, Release, ReadErrors, Shape, TypeInv
<1> QED BY <1>1, <1>2, Untouched

LEMMA FindingFacts ==
    ASSUME Shape, NEW c \in Copies, AcquireRecord(c)
    PROVE  /\ found'[c] \in recs /\ Live(found'[c]) /\ Covers(found'[c], Head(segs[c]))
           /\ segs' = segs /\ segs[c] # <<>> /\ Head(segs[c]).shared
<1>1. Best(Head(segs[c])) \in Found(Head(segs[c])) /\ found'[c] = Best(Head(segs[c])) /\ segs' = segs
  BY BestFound DEF AcquireRecord, Shape, TypeInv, fileVars
<1> QED BY <1>1 DEF Found, AcquireRecord, Acquiring

LEMMA FoundStep == ASSUME Shape, NEW c \in Copies, CopyStep(c), NEW x \in Copies PROVE FoundOK(x)'
<1>0. \A b \in Copies : Onward(b)
  BY StepOnward
<1> SUFFICES ASSUME stage'[x] = "clone" PROVE FoundOK(x)'
  BY DEF FoundOK
<1>1. \E r : r = found'[x] /\ RecOK(r) /\ Covers(r, Head(segs'[x]))
  <2>1. CASE x # c
    <3>1. Same(x)
      BY <2>1, StepResult DEF Result
    <3>2. stage[x] = "clone" /\ found'[x] = found[x] /\ segs'[x] = segs[x]
      BY <3>1 DEF Same
    <3> QED BY <3>2 DEF Shape, FoundOK
  <2>2. CASE x = c
    <3>1. AcquireRecord(c)
      BY <2>2, Finding
    <3> QED BY <2>2, <3>1, FindingFacts DEF Shape, IndexOK
  <2> QED BY <2>1, <2>2
<1>2. PICK r : r = found'[x] /\ RecOK(r) /\ Covers(r, Head(segs'[x]))
  BY <1>1
<1>3. RecOK(r)'
  BY <1>0, <1>2, RecKept
<1> QED BY <1>2, <1>3 DEF FoundOK, RecOK, Live, Covers, Done, Size

LEMMA ShapeCopyStep == ASSUME Shape, NEW c \in Copies, CopyStep(c) PROVE Shape'
<1>1. TypeInv' /\ Core(c)' /\ \A x \in Copies \ {c} : Same(x)
  BY StepResult DEF Result
<1>2. \A x \in Copies : Core(x)' /\ FoundOK(x)'
  BY <1>1, SameCore, FoundStep
<1>3. IndexOK'
  BY ClaimsStep, RecsStep DEF IndexOK
<1> QED BY <1>1, <1>2, <1>3 DEF Shape

\* The source file system and the user do not touch what the copies have.
LEMMA MoveFacts ==
    ASSUME Shape, NEW c \in Copies, Move(c)
    PROVE  /\ ver' \in [Copies -> Nat] /\ \A x \in Copies : ver[x] <= ver'[x] /\ ver'[x] <= Len(Versions[x])
           /\ UNCHANGED <<canceled, stage, fileVars, indexVars, at>> /\ Consistent(ver')
<1>1. ver[c] \in Nat /\ ver[c] + 1 <= Len(Versions[c])
  <2>1. ver[c] \in Nat /\ Len(Versions[c]) \in Nat /\ ver[c] < Len(Versions[c])
    BY Sizes DEF Move, Shape, TypeInv
  <2> QED BY <2>1
<1>2. ver' = [ver EXCEPT ![c] = ver[c] + 1]
  BY DEF Move
<1>3. ver' \in [Copies -> Nat] /\ \A x \in Copies : ver[x] <= ver'[x] /\ ver'[x] <= Len(Versions[x])
  BY <1>1, <1>2 DEF Shape, TypeInv
<1> QED BY <1>3 DEF Move

LEMMA ShapeQuiet ==
    ASSUME Shape, UNCHANGED <<stage, fileVars, indexVars, at>>, canceled' \in BOOLEAN,
           ver' \in [Copies -> Nat], \A x \in Copies : ver[x] <= ver'[x] /\ ver'[x] <= Len(Versions[x])
    PROVE  Shape'
<1> USE DEF fileVars, indexVars
<1>1. TypeInv'
  <2>1. \A x \in Copies : 1 <= since[x] /\ since[x] <= ver'[x] /\ ver'[x] <= Len(Versions[x])
    <3> TAKE x \in Copies
    <3>1. since[x] \in Nat /\ ver[x] \in Nat /\ ver'[x] \in Nat /\ 1 <= since[x] /\ since[x] <= ver[x]
      BY DEF Shape, TypeInv
    <3> QED BY <3>1
  <2> QED BY <2>1 DEF Shape, TypeInv
<1>2. \A x \in Copies : Same(x)
  BY DEF Same
<1>3. \A x \in Copies : Core(x)'
  BY <1>2, SameCore
<1>4. \A r : RecOK(r) => RecOK(r)'
  <2>1. \A x \in Copies : Onward(x)
    BY <1>2, SameOnward
  <2> QED BY <2>1, RecKept
<1>5. \A x \in Copies : FoundOK(x)'
  <2> SUFFICES ASSUME NEW x \in Copies, stage[x] = "clone" PROVE FoundOK(x)'
    BY DEF FoundOK
  <2>1. PICK r : r = found[x] /\ RecOK(r) /\ Covers(r, Head(segs[x]))
    BY DEF Shape, FoundOK
  <2>2. RecOK(r)'
    BY <1>4, <2>1
  <2> QED BY <2>1, <2>2 DEF FoundOK, RecOK, Live, Covers, Done, Size
<1>6. IndexOK'
  BY <1>4 DEF Shape, IndexOK, ClaimsHeld
<1> QED BY <1>1, <1>3, <1>5, <1>6 DEF Shape

LEMMA ShapeInit == ASSUME Init PROVE Shape
<1> USE DEF Init
<1>1. TypeInv
  <2>1. 1 \in 1..MaxAttempts
    BY DedupAssumption
  <2>2. \A c \in Copies : 1 <= Len(Versions[c])
    BY Sizes
  <2>3. try \in [Copies -> 1..MaxAttempts]
    BY <2>1
  <2>4. \A c \in Copies : 1 <= since[c] /\ since[c] <= ver[c] /\ ver[c] <= Len(Versions[c])
    BY <2>2
  <2>5. /\ stage \in [Copies -> Stages] /\ ref \in [Copies -> {"temp", "path", "dead"}]
        /\ ver \in [Copies -> Nat] /\ since \in [Copies -> Nat] /\ canceled \in BOOLEAN
        /\ waitFor \in [Copies -> Copies]
    BY DEF Stages
  <2>6. /\ DOMAIN segs = Copies /\ DOMAIN cloned = Copies /\ DOMAIN data = Copies
        /\ DOMAIN found = Copies /\ DOMAIN stat = Copies /\ DOMAIN at = {DstOf[c] : c \in Copies}
    OBVIOUS
  <2> QED BY <2>3, <2>4, <2>5, <2>6 DEF TypeInv
<1>2. IndexOK
  BY FS_EmptySet DEF IndexOK, ClaimsHeld
<1>3. ASSUME NEW c \in Copies PROVE Core(c) /\ FoundOK(c)
  <2>1. Done(c) = Size(c) /\ Size(c) \in Nat /\ Tiles(<<>>, Size(c), Size(c))
    BY Sizes, TilesNone DEF Done
  <2>2. \A t : at[DstOf[c]] # <<c, t>>
    <3>1. at[DstOf[c]] = <<>>
      OBVIOUS
    <3> QED BY <3>1
  <2>3. data[c] \in Seq(Nat)
    OBVIOUS
  <2>4. segs[c] = <<>> /\ cloned[c] = {} /\ stage[c] = "start" /\ ref[c] = "dead"
    OBVIOUS
  <2> HIDE DEF Init
  <2> QED BY <2>1, <2>2, <2>3, <2>4 DEF Core, FoundOK, AtShared, Busy
<1> QED BY <1>1, <1>2, <1>3 DEF Shape

LEMMA ShapeStep == ASSUME Shape, [Next]_vars PROVE Shape'
<1>1. CASE \E c \in Copies : CopyStep(c)
  BY <1>1, ShapeCopyStep
<1>2. CASE \E c \in Copies : Move(c)
  <2>1. canceled' \in BOOLEAN
    BY <1>2, MoveFacts DEF Shape, TypeInv
  <2> QED BY <1>2, <2>1, MoveFacts, ShapeQuiet
<1>3. CASE Cancel \/ UNCHANGED vars
  <2>1. ver' = ver /\ canceled' \in BOOLEAN /\ UNCHANGED <<stage, fileVars, indexVars, at>>
    BY <1>3 DEF Cancel, vars, Shape, TypeInv
  <2>2. ver' \in [Copies -> Nat] /\ \A x \in Copies : ver[x] <= ver'[x] /\ ver'[x] <= Len(Versions[x])
    BY <2>1 DEF Shape, TypeInv
  <2> QED BY <2>1, <2>2, ShapeQuiet
<1> QED BY <1>1, <1>2, <1>3 DEF Next, Finished

LEMMA ShapeInvariant == Spec => []Shape
BY ShapeInit, ShapeStep, PTL DEF Spec

\* The types of the variables, and what acquire hands to cloneFrom.
THEOREM TypeCorrect == Spec => []TypeOK
<1>1. Shape => TypeOK
  <2> SUFFICES ASSUME Shape PROVE TypeOK
    OBVIOUS
  <2>1. \A c \in Copies : stage[c] = "clone" => found[c] # <<>> /\ Covers(found[c], Head(segs[c]))
    <3> SUFFICES ASSUME NEW c \in Copies, stage[c] = "clone"
                 PROVE  found[c] # <<>> /\ Covers(found[c], Head(segs[c]))
      OBVIOUS
    <3>1. found[c] \in Rec /\ Covers(found[c], Head(segs[c]))
      BY DEF Shape, FoundOK, RecOK
    <3>2. \A r \in Rec : DOMAIN r # DOMAIN <<>>
      BY DEF Rec
    <3> QED BY <3>1, <3>2
  <2>2. ASSUME NEW r \in recs PROVE r.by \in Copies /\ r.try \in 1..try[r.by]
    <3>1. r.by \in Copies /\ r.try \in Nat \ {0} /\ r.try <= try[r.by]
      BY DEF Shape, IndexOK, RecOK, Rec
    <3>2. try[r.by] \in Nat
      BY <3>1 DEF Shape, TypeInv
    <3> QED BY <3>1, <3>2
  <2>3. \A k \in claims : k.by \in Copies
    BY DEF Shape, IndexOK, Claim
  <2>4. ver \in [Copies -> Nat \ {0}] /\ since \in [Copies -> Nat \ {0}]
    BY DEF Shape, TypeInv
  <2> QED BY <2>1, <2>2, <2>3, <2>4 DEF Shape, TypeInv, TypeOK, Stages, Busy, AtShared
<1> QED BY <1>1, ShapeInvariant, PTL

\* A claim is held by a copy at work on it, nobody waits for a claim that is gone,
\* and an extent is copied by one copy at a time (acquire, record, release).
THEOREM ClaimsHeldCorrect == Spec => []ClaimsHeld
<1>1. Shape => ClaimsHeld
  BY DEF Shape, IndexOK
<1> QED BY <1>1, ShapeInvariant, PTL

\* A copy that is over, or starts again, keeps no handle open (CopyFile's deferred
\* kill and commit).
THEOREM HandlesClosedCorrect == Spec => []HandlesClosed
<1>1. Shape => HandlesClosed
  BY DEF Shape, Core, HandlesClosed
<1> QED BY <1>1, ShapeInvariant, PTL

-----------------------------------------------------------------------------
(* What the steps of a copy leave in place.                                  *)

LEMMA Still == ASSUME NEW c \in Copies, CopyStep(c) PROVE ver' = ver
BY DEF CopyStep, Begin, WholeCopy, MapSource, EndSegments, CopyUnshared, AcquireRecord, AcquireWait,
       AcquireClaim, StopWaiting, Clone, CopyShared, Record, Check, Restart, Publish, Commit, CleanUp

\* A range that is copied or cloned comes after what the file holds already.
LEMMA BeforeHead ==
    ASSUME Shape, NEW c \in Copies, segs[c] # <<>>, NEW i \in 1..Done(c)
    PROVE  i \in 1..Size(c) /\ i \notin Head(segs[c]).off + 1..Head(segs[c]).off + Head(segs[c]).len
<1>1. /\ Head(segs[c]).off = Done(c) /\ Done(c) \in Nat /\ Done(c) <= Size(c) /\ Size(c) \in Nat
      /\ Head(segs[c]).len \in Nat
  BY HeadFacts, DoneNat, Sizes
<1> QED BY <1>1

\* The filled part of a file that clones may be taken from stays as it is.
LEMMA Kept ==
    ASSUME Shape, NEW c \in Copies, CopyStep(c), NEW b \in Copies, ref[b] # "dead", ref'[b] # "dead"
    PROVE  \A i \in 1..Done(b) : data'[b][i] = data[b][i]
<1>1. CASE b # c
  BY <1>1, StepResult DEF Result, Same
<1>2. CASE b = c
  <2>1. CASE data' = data
    BY <2>1
  <2>2. CASE Begin(c) \/ WholeCopy(c)
    BY <1>2, <2>2 DEF Begin, WholeCopy, Shape, Core
  <2>3. CASE Restart(c) \/ CleanUp(c)
    BY <1>2, <2>3 DEF Restart, CleanUp, Shape, TypeInv
  <2>4. CASE CopyRange(c) /\ (CopyUnshared(c) \/ CopyShared(c))
    <3>1. segs[c] # <<>> /\ Len(data[c]) = Size(c)
      <4>1. segs[c] # <<>> /\ stage[c] \in {"segment", "claimed", "recopy"}
        BY <2>4 DEF CopyUnshared, CopyShared, Shape, Core, AtShared
      <4>2. stage[c] \in Busy
        BY <4>1 DEF Busy, AtShared
      <4> QED BY <4>1, <4>2 DEF Shape, Core
    <3> QED BY <1>2, <2>4, <3>1, CopyRangeFacts, BeforeHead
  <2>5. CASE Clone(c) /\ data' # data
    <3>1. stage[c] = "clone" /\ segs[c] # <<>> /\ Live(found[c])
      BY <2>5 DEF Clone, Shape, Core, AtShared, Reachable
    <3>2. Cloned(c)
      BY <2>5 DEF Clone, Cloned
    <3>3. \A i \in 1..Size(c) : i \notin Head(segs[c]).off + 1..Head(segs[c]).off + Head(segs[c]).len
                               => data'[c][i] = data[c][i]
      BY <3>1, <3>2, CloneFacts
    <3> QED BY <1>2, <3>1, <3>3, BeforeHead
  <2> QED
    BY <2>1, <2>2, <2>3, <2>4, <2>5
    DEF CopyStep, MapSource, EndSegments, CopyUnshared, AcquireRecord, AcquireWait, AcquireClaim,
        StopWaiting, CopyShared, Record, Check, Publish, Commit, fileVars
<1> QED BY <1>1, <1>2

LEMMA LiveKept ==
    ASSUME Shape, NEW c \in Copies, CopyStep(c), NEW r, RecOK(r), Live(r)'
    PROVE  /\ Live(r) /\ r.by \in Copies /\ r.off \in Nat /\ r.len \in Nat /\ r.phys \in Nat
           /\ \A j \in 0..r.len - 1 : data'[r.by][r.off + j + 1] = data[r.by][r.off + j + 1]
<1>1. r.by \in Copies /\ r.off \in Nat /\ r.len \in Nat /\ r.phys \in Nat
  BY DEF RecOK, Rec
<1>2. Onward(r.by)
  BY <1>1, StepOnward
<1>3. Live(r) /\ ref[r.by] # "dead" /\ ref'[r.by] # "dead"
  BY <1>1, <1>2 DEF RecOK, Onward, Live, Shape, TypeInv, Rec
<1>4. r.off + r.len <= Done(r.by) /\ Done(r.by) \in Nat
  BY <1>1, <1>3, DoneNat DEF RecOK
<1>5. \A j \in 0..r.len - 1 : r.off + j + 1 \in 1..Done(r.by)
  BY <1>1, <1>4
<1> QED BY <1>1, <1>3, <1>5, Kept

\* A copy at work on its segments goes on with them, or has just got them.
LEMMA Working ==
    ASSUME Shape, NEW c \in Copies, CopyStep(c), stage'[c] \in Busy, ~MapSource(c)
    PROVE  /\ stage[c] \in Busy /\ since'[c] = since[c] /\ ref[c] = "temp" /\ ref'[c] = "temp"
           /\ segs'[c] = segs[c] \/ (segs[c] # <<>> /\ segs'[c] = Tail(segs[c]))
           /\ cloned[c] \subseteq cloned'[c]
<1> USE DEF Go, Advance, Shape, TypeInv, Busy, AtShared, Core
<1>1. CASE EndSegments(c)
  BY <1>1 DEF EndSegments, fileVars
<1>2. CASE CopyUnshared(c)
  BY <1>2 DEF CopyUnshared
<1>3. CASE AcquireRecord(c) \/ AcquireWait(c) \/ AcquireClaim(c)
  BY <1>3 DEF AcquireRecord, AcquireWait, AcquireClaim, Acquiring, fileVars
<1>4. CASE Clone(c)
  BY <1>4 DEF Clone
<1>5. CASE CopyShared(c)
  BY <1>5 DEF CopyShared
<1>6. CASE Record(c)
  BY <1>6 DEF Record
<1>7. CASE Begin(c) \/ WholeCopy(c)
  BY <1>7 DEF Begin, WholeCopy
<1>8. CASE StopWaiting(c) \/ Check(c) \/ Restart(c) \/ Publish(c)
  BY <1>8 DEF StopWaiting, Check, Restart, Publish
<1>9. CASE Commit(c) \/ CleanUp(c)
  BY <1>9 DEF Commit, CleanUp, RetryOrEnd
<1> QED BY <1>1, <1>2, <1>3, <1>4, <1>5, <1>6, <1>7, <1>8, <1>9 DEF CopyStep

\* Bytes and blocks.
LEMMA AtFacts ==
    ASSUME NEW c \in Copies, NEW v \in 1..Len(Versions[c]), NEW i \in Nat, NEW p, At(c, v, i, p)
    PROVE  /\ i \in 0..Len(Versions[c][v].bytes) - 1 /\ i + 1 <= Len(Versions[c][v].bytes)
           /\ p \in Blocks /\ Versions[c][v].bytes[i + 1] \in Holds(c, v, p)
<1>1. PICK e \in Range(Versions[c][v].exts) :
               e.shared /\ e.log <= i /\ i < e.log + e.len /\ e.phys + (i - e.log) = p
  BY DEF At
<1>2. /\ e.log \in Nat /\ e.len \in Nat /\ e.phys \in Nat
      /\ e.log + e.len <= Len(Versions[c][v].bytes) /\ Len(Versions[c][v].bytes) \in Nat
  BY VersionFacts DEF Extent
<1>3. e.phys <= p /\ p < e.phys + e.len /\ e.log + p - e.phys + 1 = i + 1 /\ p \in e.phys..e.phys + e.len - 1
  BY <1>1, <1>2
<1>4. Versions[c][v].bytes[i + 1] \in Holds(c, v, p)
  <2>1. e \in {x \in Range(Versions[c][v].exts) : x.phys <= p /\ p < x.phys + x.len}
    BY <1>3
  <2> QED BY <1>3, <2>1 DEF Holds
<1>5. p \in Blocks
  <2>1. v \in DOMAIN Versions[c]
    BY SourceAssumption, LenProperties
  <2>2. p \in UNION {x.phys..x.phys + x.len - 1 : x \in Range(Versions[c][v].exts)}
    BY <1>3
  <2>3. p \in UNION {UNION {x.phys..x.phys + x.len - 1 : x \in Range(Versions[c][w].exts)} : w \in DOMAIN Versions[c]}
    BY <2>1, <2>2
  <2> QED BY <2>3 DEF Blocks
<1> QED BY <1>1, <1>2, <1>4, <1>5

LEMMA MappedAt ==
    ASSUME Shape, NEW c \in Copies, NEW s \in Segment, Mapped(Now(c).exts, s), NEW j \in 0..s.len - 1
    PROVE  At(c, ver[c], s.off + j, s.phys + j) /\ s.off + j \in Nat /\ s.phys + j \in Nat
<1>1. PICK i \in 1..Len(Now(c).exts) :
           LET e == Now(c).exts[i] IN
           e.log <= s.off /\ s.off + s.len <= e.log + e.len /\ e.shared /\ e.phys + (s.off - e.log) = s.phys
  BY DEF Mapped
<1> DEFINE e == Now(c).exts[i]
<1>2. Now(c).exts \in Seq(Extent)
  BY NowFacts
<1>3. e \in Extent /\ e \in Range(Now(c).exts)
  <2>1. DOMAIN Now(c).exts = 1..Len(Now(c).exts)
    BY <1>2, LenProperties
  <2> QED BY <1>2, <2>1, ElementOfSeq DEF Range
<1>4. e.log \in Nat /\ e.len \in Nat /\ e.phys \in Nat /\ s.off \in Nat /\ s.len \in Nat /\ s.phys \in Nat
  BY <1>3, SegmentNats DEF Extent
<1>5. e.log <= s.off /\ s.off + s.len <= e.log + e.len /\ e.shared /\ e.phys + (s.off - e.log) = s.phys
  BY <1>1
<1> HIDE DEF e
<1>6. e.log <= s.off + j /\ s.off + j < e.log + e.len /\ e.phys + ((s.off + j) - e.log) = s.phys + j
  <2>1. j \in Nat /\ j < s.len
    BY <1>4
  <2>2. e.log <= s.off + j /\ s.off + j < e.log + e.len
    BY <1>4, <1>5, <2>1
  <2>3. e.phys + ((s.off + j) - e.log) = (e.phys + (s.off - e.log)) + j
    BY <1>4, <2>1
  <2> QED BY <1>5, <2>2, <2>3
<1>7. At(c, ver[c], s.off + j, s.phys + j)
  BY <1>3, <1>5, <1>6 DEF At, Now
<1> QED BY <1>4, <1>7

\* Where the index gets its records, and a copy its right to record.
LEMMA RecsBy == ASSUME Shape, NEW c \in Copies, CopyStep(c), recs' # recs PROVE Record(c)
<1>1. AcquireWait(c) \/ AcquireClaim(c) \/ CopyShared(c) => recs' = recs
  BY DEF AcquireWait, AcquireClaim, CopyShared
<1> QED BY <1>1, Untouched

LEMMA Recording == ASSUME Shape, NEW c \in Copies, CopyStep(c), stage'[c] = "record" PROVE CopyShared(c)
<1> USE DEF Go, Shape, TypeInv
<1>1. ~Record(c) /\ ~AcquireRecord(c) /\ ~AcquireWait(c) /\ ~AcquireClaim(c)
  BY DEF Record, Release, AcquireRecord, AcquireWait, AcquireClaim
<1>2. ~Begin(c) /\ ~WholeCopy(c) /\ ~MapSource(c) /\ ~EndSegments(c) /\ ~StopWaiting(c) /\ ~Clone(c)
  BY DEF Begin, WholeCopy, MapSource, EndSegments, StopWaiting, Clone
<1>3. ~CopyUnshared(c)
  BY DEF CopyUnshared, ReadErrors
<1>4. ~Check(c) /\ ~Restart(c) /\ ~Publish(c) /\ ~Commit(c) /\ ~CleanUp(c)
  BY DEF Check, Restart, Publish, Commit, CleanUp, RetryOrEnd
<1> QED BY <1>1, <1>2, <1>3, <1>4 DEF CopyStep

-----------------------------------------------------------------------------
(* Honest.                                                                   *)

\* A block that is where it was has kept its bytes.
LEMMA Stayed ==
    ASSUME NoReturn, NEW c \in Copies, NEW v \in 1..Len(Versions[c]), NEW w \in 1..Len(Versions[c]),
           NEW x \in 1..Len(Versions[c]), v <= w, w <= x, NEW i \in Nat, NEW p, At(c, v, i, p), At(c, x, i, p)
    PROVE  At(c, w, i, p) /\ Versions[c][w].bytes[i + 1] = Versions[c][v].bytes[i + 1]
<1>1. i \in 0..Len(Versions[c][v].bytes) - 1 /\ p \in Blocks
  BY AtFacts
<1>2. DOMAIN Versions[c] = 1..Len(Versions[c])
  BY SourceAssumption, LenProperties
<1> QED BY <1>1, <1>2 DEF NoReturn

\* The second look at the source vouches for what was read after the first.
LEMMA RecordReads ==
    ASSUME NoReturn, Shape, NEW c \in Copies, NEW s \in Segment, ReadSince(c, s), Mapped(Now(c).exts, s),
           NEW j \in 0..s.len - 1
    PROVE  data[c][s.off + j + 1] \in Holds(c, ver[c], s.phys + j)
<1>1. PICK v, w \in since[c]..ver[c] :
               /\ v <= w /\ At(c, v, s.off + j, s.phys + j)
               /\ data[c][s.off + j + 1] = Versions[c][w].bytes[s.off + j + 1]
  BY DEF ReadSince
<1>2. At(c, ver[c], s.off + j, s.phys + j) /\ s.off + j \in Nat
  BY MappedAt
<1>3. /\ v \in 1..Len(Versions[c]) /\ w \in 1..Len(Versions[c]) /\ ver[c] \in 1..Len(Versions[c])
      /\ w <= ver[c] /\ v <= ver[c]
  BY NowFacts DEF Shape, TypeInv
<1>4. /\ Versions[c][w].bytes[s.off + j + 1] = Versions[c][v].bytes[s.off + j + 1]
      /\ Versions[c][ver[c]].bytes[s.off + j + 1] = Versions[c][v].bytes[s.off + j + 1]
  <2>1. PICK i, p : i = s.off + j /\ p = s.phys + j
    OBVIOUS
  <2>2. i \in Nat /\ At(c, v, i, p) /\ At(c, ver[c], i, p)
    BY <1>1, <1>2, <2>1
  <2>3. Versions[c][w].bytes[i + 1] = Versions[c][v].bytes[i + 1]
    BY <1>1, <1>3, <2>2, Stayed
  <2>4. Versions[c][ver[c]].bytes[i + 1] = Versions[c][v].bytes[i + 1]
    BY <1>3, <2>2, Stayed
  <2> QED BY <2>1, <2>3, <2>4
<1>5. Versions[c][ver[c]].bytes[s.off + j + 1] \in Holds(c, ver[c], s.phys + j)
  BY <1>2, <1>3, AtFacts
<1> QED BY <1>1, <1>4, <1>5

LEMMA PlacedAt == ASSUME NEW c, NEW v, NEW s, Placed(Versions[c][v].exts, s), NEW j \in 0..s.len - 1
                  PROVE  At(c, v, s.off + j, s.phys + j)
BY DEF Placed, At

LEMMA Within ==
    ASSUME NEW a \in Nat, NEW l \in Nat, NEW n \in Nat, a + l <= n, NEW j \in 0..l - 1
    PROVE  /\ a + j \in Nat /\ a + j + 1 \in a + 1..a + l /\ a + j + 1 \in 1..n /\ a + j + 1 <= n
OBVIOUS

LEMMA Position == ASSUME NEW a \in Nat, NEW l \in Nat, NEW i \in a + 1..a + l
                  PROVE  \E j \in 0..l - 1 : i = a + j + 1
<1>1. (i - a) - 1 \in 0..l - 1 /\ i = a + ((i - a) - 1) + 1
  OBVIOUS
<1> QED BY <1>1

LEMMA HonestSegs ==
    ASSUME Shape, Honest, NEW c \in Copies, CopyStep(c), NEW x \in Copies, stage'[x] \in Busy,
           NEW k \in 1..Len(segs'[x]), NEW s, s = segs'[x][k], s.shared
    PROVE  WasMapped(x, s)'
<1>1. ver' = ver
  BY Still
<1>2. CASE x # c
  <2>1. Same(x) /\ stage[x] \in Busy
    BY <1>2, StepResult DEF Result, Same, Busy, AtShared
  <2>2. WasMapped(x, s)
    BY <2>1 DEF Honest, Same
  <2> QED BY <1>1, <2>1, <2>2 DEF WasMapped, Same
<1>3. CASE x = c /\ ~MapSource(c)
  <2>1. /\ stage[c] \in Busy /\ since'[c] = since[c]
        /\ segs'[c] = segs[c] \/ (segs[c] # <<>> /\ segs'[c] = Tail(segs[c]))
    BY <1>3, Working
  <2>2. \E i \in 1..Len(segs[c]) : s = segs[c][i]
    <3>1. CASE segs'[c] = segs[c]
      BY <1>3, <3>1
    <3>2. CASE segs[c] # <<>> /\ segs'[c] = Tail(segs[c])
      BY <1>3, <3>2, AdvanceFacts
    <3> QED BY <2>1, <3>1, <3>2
  <2>3. WasMapped(c, s)
    BY <2>1, <2>2 DEF Honest
  <2> QED BY <1>1, <1>3, <2>1, <2>3 DEF WasMapped
<1>4. CASE x = c /\ MapSource(c)
  <2> DEFINE plan == PlanSegments(Now(c).exts, Size(c))
  <2>1. segs'[c] = plan /\ since' = since
    BY <1>4 DEF MapSource, Go, Shape, TypeInv, Busy, AtShared
  <2>2. AllPlaced(Now(c).exts, plan)
    BY NowFacts, PlanCorrect
  <2> HIDE DEF plan
  <2>3. Placed(Now(c).exts, s)
    BY <1>4, <2>1, <2>2 DEF AllPlaced
  <2>4. ver[c] \in since[c]..ver[c]
    BY DEF Shape, TypeInv
  <2>5. \A j \in 0..s.len - 1 : At(c, ver[c], s.off + j, s.phys + j)
    BY <2>3, PlacedAt DEF Now
  <2> QED BY <1>1, <1>4, <2>1, <2>4, <2>5 DEF WasMapped
<1> QED BY <1>2, <1>3, <1>4

LEMMA HonestReads ==
    ASSUME Shape, Honest, NEW c \in Copies, CopyStep(c), NEW x \in Copies, stage'[x] = "record",
           NEW s, s = Head(segs'[x])
    PROVE  ReadSince(x, s)'
<1>1. ver' = ver
  BY Still
<1>2. CASE x # c
  <2>1. Same(x) /\ stage[x] = "record"
    BY <1>2, StepResult DEF Result, Same
  <2>2. ReadSince(x, s)
    BY <2>1 DEF Honest, Same
  <2> QED BY <1>1, <2>1, <2>2 DEF ReadSince, Same
<1>3. CASE x = c
  <2>1. CopyShared(c) /\ stage'[c] = "record"
    <3>1. stage[c] # "record" \/ ~Record(c)
      BY <1>3 DEF Record, Release
    <3> QED BY <1>3, <3>1, Recording
  <2>2. CopyRange(c) /\ segs' = segs /\ since' = since /\ stage[c] \in {"claimed", "recopy"}
    BY <2>1 DEF CopyShared, ReadErrors, Release
  <2>3. segs[c] # <<>> /\ Head(segs[c]).shared /\ stage[c] \in Busy /\ Len(data[c]) = Size(c)
    BY <2>2 DEF Shape, Core, Busy, AtShared
  <2>4. s \in Segment /\ s = segs[c][1] /\ 1 \in 1..Len(segs[c]) /\ s.off \in Nat /\ s.len \in Nat /\ s.off + s.len <= Size(c)
    BY <1>3, <2>2, <2>3, HeadFacts
  <2>5. WasMapped(c, s)
    BY <2>3, <2>4 DEF Honest
  <2>6. /\ s.off + s.len <= Len(Now(c).bytes)
        /\ \A i \in 1..Size(c) : data'[c][i] = IF i \in s.off + 1..s.off + s.len THEN Now(c).bytes[i] ELSE data[c][i]
    BY <1>3, <2>2, <2>3, CopyRangeFacts
  <2>7. ver[c] \in Nat /\ since[c] \in Nat /\ since[c] <= ver[c] /\ Size(c) \in Nat /\ Len(Now(c).bytes) \in Nat
    BY Seen, NowFacts
  <2>8. ASSUME NEW j \in 0..s.len - 1
        PROVE  \E v, w \in since[c]..ver[c] :
                  /\ v <= w /\ At(c, v, s.off + j, s.phys + j)
                  /\ s.off + j + 1 <= Len(Versions[c][w].bytes)
                  /\ data'[c][s.off + j + 1] = Versions[c][w].bytes[s.off + j + 1]
    <3>1. PICK v \in since[c]..ver[c] : At(c, v, s.off + j, s.phys + j)
      BY <2>5 DEF WasMapped
    <3>2. v <= ver[c] /\ ver[c] \in since[c]..ver[c]
      BY <2>7
    <3>3. s.off + j + 1 \in s.off + 1..s.off + s.len /\ s.off + j + 1 \in 1..Size(c) /\ s.off + j + 1 <= Len(Now(c).bytes)
      BY <2>4, <2>6, <2>7, Within
    <3>4. data'[c][s.off + j + 1] = Now(c).bytes[s.off + j + 1]
      BY <2>6, <3>3
    <3> QED BY <3>1, <3>2, <3>3, <3>4 DEF Now
  <2> QED BY <1>1, <1>3, <2>2, <2>8 DEF ReadSince
<1> QED BY <1>2, <1>3

LEMMA HonestRecs ==
    ASSUME NoReturn, Shape, Honest, NEW c \in Copies, CopyStep(c), NEW r \in recs', Live(r)'
    PROVE  RecHeld(r)'
<1>1. ver' = ver
  BY Still
<1>2. CASE r \in recs
  <2>1. RecOK(r)
    BY <1>2 DEF Shape, IndexOK
  <2>2. /\ Live(r) /\ r.by \in Copies
        /\ \A j \in 0..r.len - 1 : data'[r.by][r.off + j + 1] = data[r.by][r.off + j + 1]
    BY <2>1, LiveKept
  <2>3. RecHeld(r)
    BY <1>2, <2>2 DEF Honest
  <2> QED BY <1>1, <2>2, <2>3 DEF RecHeld
<1>3. CASE r \notin recs
  <2>1. Record(c) /\ stage[c] = "record" /\ data' = data
    BY <1>3, RecsBy DEF Record
  <2>2. PICK q \in Rec :
           /\ q.phys = Head(segs[c]).phys /\ q.len = Head(segs[c]).len /\ q.off = Head(segs[c]).off /\ q.by = c
           /\ \/ recs' = recs
              \/ /\ Mapped(Now(c).exts, Head(segs[c]))
                 /\ recs' = {y \in recs : y.phys # q.phys \/ y.len # q.len} \cup {q}
    BY <2>1, InsertFacts
  <2>3. r = q /\ Mapped(Now(c).exts, Head(segs[c]))
    BY <1>3, <2>2
  <2>4. Head(segs[c]) \in Segment
    BY <2>1, HeadFacts DEF Shape, Core, AtShared
  <2>5. ReadSince(c, Head(segs[c]))
    BY <2>1 DEF Honest
  <2>6. \A j \in 0..r.len - 1 : data[c][r.off + j + 1] \in Holds(c, ver[c], r.phys + j)
    BY <2>2, <2>3, <2>4, <2>5, RecordReads
  <2>7. ver[c] \in 1..ver[c]
    BY NowFacts
  <2> QED BY <1>1, <2>1, <2>2, <2>3, <2>6, <2>7 DEF RecHeld
<1> QED BY <1>2, <1>3

LEMMA HonestCopyStep == ASSUME NoReturn, Shape, Honest, NEW c \in Copies, CopyStep(c) PROVE Honest'
<1>1. ASSUME NEW x \in Copies, stage'[x] \in Busy, NEW k \in 1..Len(segs'[x]), segs'[x][k].shared
      PROVE  WasMapped(x, segs[x][k])'
  <2>1. PICK s : s = segs'[x][k]
    OBVIOUS
  <2>2. WasMapped(x, s)'
    BY <1>1, <2>1, HonestSegs
  <2> QED BY <2>1, <2>2 DEF WasMapped
<1>2. ASSUME NEW x \in Copies, stage'[x] = "record" PROVE ReadSince(x, Head(segs[x]))'
  <2>1. PICK s : s = Head(segs'[x])
    OBVIOUS
  <2>2. ReadSince(x, s)'
    BY <1>2, <2>1, HonestReads
  <2> QED BY <2>1, <2>2 DEF ReadSince
<1>3. \A r \in recs' : Live(r)' => RecHeld(r)'
  BY HonestRecs
<1> QED BY <1>1, <1>2, <1>3 DEF Honest

\* Later versions only add to what was seen.
LEMMA HonestQuiet ==
    ASSUME Shape, Honest, UNCHANGED <<stage, fileVars, indexVars, at>>,
           ver' \in [Copies -> Nat], \A x \in Copies : ver[x] <= ver'[x]
    PROVE  Honest'
<1> USE DEF fileVars, indexVars
<1>1. \A x \in Copies : since[x]..ver[x] \subseteq since[x]..ver'[x] /\ 1..ver[x] \subseteq 1..ver'[x]
  BY DEF Shape, TypeInv
<1>2. ASSUME NEW x \in Copies, NEW s, WasMapped(x, s) PROVE WasMapped(x, s)'
  BY <1>1, <1>2 DEF WasMapped
<1>3. ASSUME NEW x \in Copies, stage[x] \in Busy, NEW k \in 1..Len(segs[x]), segs[x][k].shared
      PROVE  WasMapped(x, segs[x][k])'
  <2>1. WasMapped(x, segs[x][k])
    BY <1>3 DEF Honest
  <2> QED BY <1>1, <2>1 DEF WasMapped
<1>4. ASSUME NEW x \in Copies, stage[x] = "record" PROVE ReadSince(x, Head(segs[x]))'
  <2>1. ReadSince(x, Head(segs[x]))
    BY <1>4 DEF Honest
  <2> QED BY <1>1, <2>1 DEF ReadSince
<1>5. ASSUME NEW r \in recs, Live(r) PROVE RecHeld(r)'
  <2>1. RecHeld(r) /\ r.by \in Copies
    BY <1>5 DEF Honest, Shape, IndexOK, RecOK, Rec
  <2> QED BY <1>1, <2>1 DEF RecHeld
<1> QED BY <1>3, <1>4, <1>5 DEF Honest, Live

LEMMA HonestInit == ASSUME Init PROVE Honest
BY DEF Init, Honest, Busy, AtShared

LEMMA HonestStep == ASSUME NoReturn, Shape, Honest, [Next]_vars PROVE Honest'
<1>1. CASE \E c \in Copies : CopyStep(c)
  BY <1>1, HonestCopyStep
<1>2. CASE \E c \in Copies : Move(c)
  BY <1>2, MoveFacts, HonestQuiet
<1>3. CASE Cancel \/ UNCHANGED vars
  <2>1. ver' = ver /\ UNCHANGED <<stage, fileVars, indexVars, at>>
    BY <1>3 DEF Cancel, vars
  <2>2. ver' \in [Copies -> Nat] /\ \A x \in Copies : ver[x] <= ver'[x]
    BY <2>1 DEF Shape, TypeInv
  <2> QED BY <2>1, <2>2, HonestQuiet
<1> QED BY <1>1, <1>2, <1>3 DEF Next, Finished

\* A record that acquire may return leads to bytes that were in its physical blocks
\* (record maps the source again before it inserts), whatever the source does
\* afterwards: also if the blocks are used again.
THEOREM RecordsHonestCorrect == ASSUME NoReturn PROVE Spec => []RecordsHonest
<1>1. Shape /\ Honest => RecordsHonest
  <2> SUFFICES ASSUME Shape, Honest, NEW r \in recs, Reachable(r), NEW i \in 1..r.len
               PROVE  data[r.by][r.off + i] \in BytesAt(r.phys + i - 1)
    BY DEF RecordsHonest
  <2>1. r.by \in Copies /\ r.len \in Nat /\ r.phys \in Nat /\ r.off \in Nat
    BY DEF Shape, IndexOK, RecOK, Rec
  <2>2. i - 1 \in 0..r.len - 1 /\ r.off + (i - 1) + 1 = r.off + i /\ r.phys + (i - 1) = r.phys + i - 1
    BY <2>1
  <2>3. RecHeld(r)
    BY DEF Honest, Reachable
  <2>4. PICK v \in 1..ver[r.by] : data[r.by][r.off + i] \in Holds(r.by, v, r.phys + i - 1)
    BY <2>2, <2>3 DEF RecHeld
  <2> QED BY <2>1, <2>4 DEF BytesAt
<1>2. Init => Shape /\ Honest
  BY ShapeInit, HonestInit
<1>3. Shape /\ Honest /\ [Next]_vars => Shape' /\ Honest'
  BY ShapeStep, HonestStep
<1> QED BY <1>1, <1>2, <1>3, PTL DEF Spec

-----------------------------------------------------------------------------
(* Faithful.                                                                 *)

LEMMA HoldsBlocks ==
    ASSUME NEW c \in Copies, NEW v \in 1..Len(Versions[c]), NEW p \in Nat, NEW y \in Holds(c, v, p)
    PROVE  p \in Blocks
<1>1. PICK e \in Range(Versions[c][v].exts) : e.phys <= p /\ p < e.phys + e.len
  BY DEF Holds
<1>2. p \in e.phys..e.phys + e.len - 1
  <2>1. e.phys \in Nat /\ e.len \in Nat
    BY VersionFacts DEF Extent
  <2> QED BY <1>1, <2>1
<1>3. v \in DOMAIN Versions[c]
  BY SourceAssumption, LenProperties
<1>4. p \in UNION {x.phys..x.phys + x.len - 1 : x \in Range(Versions[c][v].exts)}
  BY <1>2
<1>5. p \in UNION {UNION {x.phys..x.phys + x.len - 1 : x \in Range(Versions[c][w].exts)} : w \in DOMAIN Versions[c]}
  BY <1>3, <1>4
<1> QED BY <1>5 DEF Blocks

\* A source that still, or again, has a segment where it was mapped has there what
\* the blocks hold now.
LEMMA MappedBytes ==
    ASSUME NoReturn, Shape, NEW c \in Copies, NEW s \in Segment, WasMapped(c, s), NEW j \in 0..s.len - 1,
           NEW x \in ver[c]..Len(Versions[c]), At(c, x, s.off + j, s.phys + j)
    PROVE  Versions[c][x].bytes[s.off + j + 1] \in Holds(c, ver[c], s.phys + j)
<1>1. PICK v \in since[c]..ver[c] : At(c, v, s.off + j, s.phys + j)
  BY DEF WasMapped
<1>2. /\ v \in 1..Len(Versions[c]) /\ x \in 1..Len(Versions[c]) /\ ver[c] \in 1..Len(Versions[c])
      /\ v <= ver[c] /\ ver[c] <= x /\ v <= x /\ x <= x
  BY NowFacts, Sizes DEF Shape, TypeInv
<1>3. s.off + j \in Nat
  BY SegmentNats
<1>4. /\ At(c, ver[c], s.off + j, s.phys + j)
      /\ Versions[c][ver[c]].bytes[s.off + j + 1] = Versions[c][v].bytes[s.off + j + 1]
      /\ Versions[c][x].bytes[s.off + j + 1] = Versions[c][v].bytes[s.off + j + 1]
  <2>1. PICK i, p : i = s.off + j /\ p = s.phys + j
    OBVIOUS
  <2>2. i \in Nat /\ At(c, v, i, p) /\ At(c, x, i, p)
    BY <1>1, <1>3, <2>1
  <2>3. At(c, ver[c], i, p) /\ Versions[c][ver[c]].bytes[i + 1] = Versions[c][v].bytes[i + 1]
    BY <1>2, <2>2, Stayed
  <2>4. Versions[c][x].bytes[i + 1] = Versions[c][v].bytes[i + 1]
    BY <1>2, <2>2, Stayed
  <2> QED BY <2>1, <2>3, <2>4
<1>5. Versions[c][ver[c]].bytes[s.off + j + 1] \in Holds(c, ver[c], s.phys + j)
  BY <1>2, <1>3, <1>4, AtFacts
<1> QED BY <1>4, <1>5

\* What a record that covers the segment offers fits it.
LEMMA Offset ==
    ASSUME NEW r \in Rec, NEW s \in Segment, Covers(r, s), NEW j \in 0..s.len - 1
    PROVE  /\ (s.phys - r.phys) + j \in 0..r.len - 1 /\ r.phys + ((s.phys - r.phys) + j) = s.phys + j
           /\ r.off + ((s.phys - r.phys) + j) + 1 = r.off + (s.phys - r.phys) + j + 1
<1>1. r.phys \in Nat /\ r.len \in Nat /\ r.off \in Nat /\ s.phys \in Nat /\ s.len \in Nat
  BY SegmentNats DEF Rec
<1>2. r.phys <= s.phys /\ s.phys + s.len <= r.phys + r.len
  BY DEF Covers
<1>3. j \in Nat /\ j < s.len
  BY <1>1
<1> QED BY <1>1, <1>2, <1>3

LEMMA FitsFound ==
    ASSUME NoReturn, Shape, NEW c \in Copies, NEW r, RecOK(r), RecCurrent(r), NEW s \in Segment,
           WasMapped(c, s), Covers(r, s)
    PROVE  Fits(c, s, r.by, r.off + (s.phys - r.phys))
<1> SUFFICES ASSUME NEW j \in 0..s.len - 1, NEW x \in ver[c]..Len(Versions[c]), At(c, x, s.off + j, s.phys + j)
             PROVE  data[r.by][r.off + (s.phys - r.phys) + j + 1] = Versions[c][x].bytes[s.off + j + 1]
  BY DEF Fits
<1>1. Versions[c][x].bytes[s.off + j + 1] \in Holds(c, ver[c], s.phys + j)
  BY MappedBytes
<1>2. PICK k : k = (s.phys - r.phys) + j
  OBVIOUS
<1>3. k \in 0..r.len - 1 /\ r.phys + k = s.phys + j /\ r.off + k + 1 = r.off + (s.phys - r.phys) + j + 1
  BY <1>2, Offset DEF RecOK
<1>4. Holds(c, ver[c], r.phys + k) \subseteq {data[r.by][r.off + k + 1]}
  BY <1>3 DEF RecCurrent
<1> QED BY <1>1, <1>3, <1>4

LEMMA FitsKept ==
    ASSUME NEW x \in Copies, NEW s, NEW b, NEW base, Fits(x, s, b, base),
           ver[x] \in Nat, ver'[x] \in Nat, ver[x] <= ver'[x], Len(Versions[x]) \in Nat,
           \A j \in 0..s.len - 1 : data'[b][base + j + 1] = data[b][base + j + 1]
    PROVE  Fits(x, s, b, base)'
<1>1. ver'[x]..Len(Versions[x]) \subseteq ver[x]..Len(Versions[x])
  OBVIOUS
<1> QED BY <1>1 DEF Fits

\* Steps that write to the file of a copy that has cloned.
LEMMA Filling ==
    ASSUME Shape, NEW c \in Copies, CopyStep(c), cloned'[c] # {}, data'[c] # data[c]
    PROVE  stage'[c] \in Busy /\ ~MapSource(c)
<1> USE DEF Shape, TypeInv, Core, Go
<1>1. CASE Begin(c) \/ WholeCopy(c)
  BY <1>1 DEF Begin, WholeCopy
<1>2. CASE Restart(c) \/ CleanUp(c)
  BY <1>2 DEF Restart, CleanUp, Forget
<1>3. CASE CopyUnshared(c)
  BY <1>3 DEF CopyUnshared, MapSource, Busy
<1>4. CASE Clone(c)
  BY <1>4 DEF Clone, MapSource, Busy
<1>5. CASE CopyShared(c)
  BY <1>5 DEF CopyShared, MapSource, Busy, AtShared
<1> QED
  BY <1>1, <1>2, <1>3, <1>4, <1>5
  DEF CopyStep, MapSource, EndSegments, AcquireRecord, AcquireWait, AcquireClaim,
      StopWaiting, Record, Check, Publish, Commit, fileVars

LEMMA NewClone ==
    ASSUME Shape, NEW c \in Copies, CopyStep(c), NEW s \in cloned'[c], s \notin cloned[c]
    PROVE  /\ Clone(c) /\ stage[c] = "clone" /\ Live(found[c]) /\ s = Head(segs[c]) /\ segs[c] # <<>>
           /\ Cloned(c)
<1> USE DEF Shape, TypeInv
<1>1. CASE Clone(c)
  <2>1. cloned' # cloned
    OBVIOUS
  <2>2. /\ stage[c] = "clone" /\ Reachable(found[c]) /\ cloned' = [cloned EXCEPT ![c] = @ \cup {Head(segs[c])}]
        /\ Cloned(c)
    BY <1>1, <2>1 DEF Clone, Cloned
  <2>3. cloned'[c] = cloned[c] \cup {Head(segs[c])}
    BY <2>2
  <2>4. s = Head(segs[c])
    BY <2>3
  <2>5. segs[c] # <<>> /\ Live(found[c])
    BY <2>2 DEF Core, AtShared, Reachable
  <2> QED BY <1>1, <2>2, <2>4, <2>5
<1>2. CASE MapSource(c) \/ Check(c) \/ Restart(c) \/ CleanUp(c)
  BY <1>2 DEF MapSource, Check, Restart, CleanUp, Forget
<1> QED
  BY <1>1, <1>2
  DEF CopyStep, Begin, WholeCopy, EndSegments, CopyUnshared, AcquireRecord, AcquireWait, AcquireClaim,
      StopWaiting, CopyShared, Record, Publish, Commit, fileVars

LEMMA ClonedStep ==
    ASSUME Shape, Faithful, NEW c \in Copies, CopyStep(c), NEW x \in Copies, NEW s \in cloned'[x]
    PROVE  Fits(x, s, x, s.off)'
<1>0. ver' = ver /\ ver[x] \in Nat /\ Len(Versions[x]) \in Nat /\ ver[x] <= ver[x]
  BY Still, Sizes DEF Shape, TypeInv
<1>1. CASE s \in cloned[x] /\ (x # c \/ data'[x] = data[x])
  <2>1. data'[x] = data[x]
    BY <1>1, StepResult DEF Result, Same
  <2>2. Fits(x, s, x, s.off)
    BY <1>1 DEF Faithful
  <2> QED BY <1>0, <2>1, <2>2, FitsKept
<1>2. CASE x = c /\ s \in cloned[c] /\ data'[c] # data[c]
  <2>1. ref[c] = "temp" /\ ref'[c] = "temp"
    BY <1>2, Filling, Working
  <2>2. \A i \in 1..Done(c) : data'[c][i] = data[c][i]
    BY <2>1, Kept
  <2>3. s.off \in Nat /\ s.len \in Nat /\ s.off + s.len <= Done(c) /\ Done(c) \in Nat
    BY <1>2, SegmentNats, DoneNat DEF Shape, Core
  <2>4. \A j \in 0..s.len - 1 : data'[c][s.off + j + 1] = data[c][s.off + j + 1]
    BY <2>2, <2>3, Within
  <2>5. Fits(c, s, c, s.off)
    BY <1>2 DEF Faithful
  <2> QED BY <1>0, <1>2, <2>4, <2>5, FitsKept
<1>3. CASE x = c /\ s \notin cloned[c]
  <2>1. PICK r : r = found[c]
    OBVIOUS
  <2>2. /\ stage[c] = "clone" /\ Live(r) /\ s = Head(segs[c]) /\ segs[c] # <<>> /\ RecOK(r) /\ Covers(r, s)
    BY <1>3, <2>1, NewClone DEF Shape, FoundOK
  <2>3. Fits(c, s, r.by, r.off + (s.phys - r.phys))
    BY <2>1, <2>2 DEF Faithful
  <2>4. \A i \in 1..Size(c) : i \in s.off + 1..s.off + s.len =>
            data'[c][i] = data[r.by][(r.off + s.phys - r.phys) + i - s.off]
    BY <1>3, <2>1, <2>2, NewClone, CloneFacts
  <2>5. /\ s.off \in Nat /\ s.len \in Nat /\ s.phys \in Nat /\ s.off + s.len <= Size(c) /\ Size(c) \in Nat
        /\ r.off \in Nat /\ r.phys \in Nat
    BY <2>2, HeadFacts, Sizes DEF RecOK, Rec
  <2>6. ASSUME NEW j \in 0..s.len - 1
        PROVE  data'[c][s.off + j + 1] = data[r.by][r.off + (s.phys - r.phys) + j + 1]
    <3>1. s.off + j + 1 \in 1..Size(c) /\ s.off + j + 1 \in s.off + 1..s.off + s.len
      BY <2>5, Within
    <3>2. (r.off + s.phys - r.phys) + (s.off + j + 1) - s.off = r.off + (s.phys - r.phys) + j + 1
      <4>1. \A a, p, q, o, n \in Int : (a + p - q) + (o + n + 1) - o = a + (p - q) + n + 1
        OBVIOUS
      <4> QED BY <2>5, <4>1
    <3> QED BY <2>4, <3>1, <3>2
  <2> QED BY <1>0, <1>3, <2>3, <2>6 DEF Fits
<1>4. x # c => s \in cloned[x]
  BY StepResult DEF Result, Same
<1> QED BY <1>1, <1>2, <1>3, <1>4

LEMMA FoundFits ==
    ASSUME NoReturn, Shape, Honest, Faithful, NEW c \in Copies, CopyStep(c), NEW x \in Copies,
           stage'[x] = "clone", NEW r, r = found'[x], Live(r)', NEW s, s = Head(segs'[x])
    PROVE  Fits(x, s, r.by, r.off + (s.phys - r.phys))'
<1>0. ver' = ver /\ ver[x] \in Nat /\ Len(Versions[x]) \in Nat /\ ver[x] <= ver[x]
  BY Still, Sizes DEF Shape, TypeInv
<1>1. CASE x # c
  <2>1. Same(x) /\ stage[x] = "clone" /\ r = found[x] /\ s = Head(segs[x])
    BY <1>1, StepResult DEF Result, Same
  <2>2. RecOK(r) /\ Covers(r, s) /\ s \in Segment
    BY <2>1, HeadFacts DEF Shape, FoundOK, Core, AtShared
  <2>3. Live(r) /\ \A k \in 0..r.len - 1 : data'[r.by][r.off + k + 1] = data[r.by][r.off + k + 1]
    BY <2>2, LiveKept
  <2>4. Fits(x, s, r.by, r.off + (s.phys - r.phys))
    BY <2>1, <2>3 DEF Faithful
  <2>5. ASSUME NEW j \in 0..s.len - 1
        PROVE  data'[r.by][r.off + (s.phys - r.phys) + j + 1] = data[r.by][r.off + (s.phys - r.phys) + j + 1]
    <3>1. PICK k : k = (s.phys - r.phys) + j
      OBVIOUS
    <3>2. k \in 0..r.len - 1 /\ r.off + k + 1 = r.off + (s.phys - r.phys) + j + 1
      BY <2>2, <3>1, Offset DEF RecOK
    <3> QED BY <2>3, <3>2
  <2> QED BY <1>0, <2>4, <2>5, FitsKept
<1>2. CASE x = c
  <2>1. AcquireRecord(c) /\ data' = data /\ stage[c] \in Busy
    BY <1>2, Finding DEF AcquireRecord, Acquiring, fileVars, Busy, AtShared
  <2>2. r \in recs /\ Live(r) /\ Covers(r, s) /\ s = Head(segs[c]) /\ segs[c] # <<>> /\ s.shared
    BY <1>2, <2>1, FindingFacts
  <2>3. RecOK(r) /\ RecCurrent(r)
    BY <2>2 DEF Shape, IndexOK, Faithful
  <2>4. s \in Segment /\ WasMapped(c, s)
    BY <2>1, <2>2, HeadFacts DEF Honest
  <2>5. Fits(c, s, r.by, r.off + (s.phys - r.phys))
    BY <2>2, <2>3, <2>4, FitsFound
  <2> QED BY <1>0, <1>2, <2>1, <2>5, FitsKept
<1> QED BY <1>1, <1>2

\* The positions that a step adds to the filled part are read or cloned.
LEMMA Filled ==
    ASSUME Shape, Honest, NEW c \in Copies, CopyStep(c), ~MapSource(c), stage'[c] \in Busy,
           segs'[c] # segs[c], NEW i \in 1..Size(c),
           i \in Head(segs[c]).off + 1..Head(segs[c]).off + Head(segs[c]).len
    PROVE  Own(c, i)' \/ Head(segs[c]) \in cloned'[c]
<1> USE DEF Shape, TypeInv
<1>0. /\ ver' = ver /\ since'[c] = since[c] /\ segs[c] # <<>> /\ ver[c] \in since[c]..ver[c]
      /\ stage[c] \in Busy
  BY Still, Working
<1>1. PICK s : s = Head(segs[c])
  OBVIOUS
<1>2. s.off \in Nat /\ s.len \in Nat /\ s.off + s.len <= Size(c) /\ Size(c) \in Nat /\ Len(Now(c).bytes) \in Nat
  BY <1>0, <1>1, HeadFacts, NowFacts
<1>3. CASE CopyUnshared(c)
  <2>1. CopyRange(c) /\ Len(data[c]) = Size(c)
    BY <1>0, <1>3 DEF CopyUnshared, Core, Busy
  <2>2. data'[c][i] = Now(c).bytes[i] /\ s.off + s.len <= Len(Now(c).bytes)
    BY <1>0, <1>1, <2>1, CopyRangeFacts
  <2>3. i <= Len(Now(c).bytes)
    BY <1>1, <1>2, <2>2
  <2> QED BY <1>0, <2>2, <2>3 DEF Own, Now
<1>4. CASE Clone(c)
  <2>1. cloned' = [cloned EXCEPT ![c] = @ \cup {Head(segs[c])}]
    BY <1>0, <1>4 DEF Clone
  <2> QED BY <2>1
<1>5. CASE Record(c)
  <2>1. ReadSince(c, s) /\ data' = data
    BY <1>1, <1>5 DEF Honest, Record
  <2>2. PICK j \in 0..s.len - 1 : i = s.off + j + 1
    <3>1. i \in s.off + 1..s.off + s.len
      BY <1>1
    <3> QED BY <1>2, <3>1, Position
  <2>3. PICK v, w \in since[c]..ver[c] :
           /\ v <= w /\ At(c, v, s.off + j, s.phys + j)
           /\ s.off + j + 1 <= Len(Versions[c][w].bytes)
           /\ data[c][s.off + j + 1] = Versions[c][w].bytes[s.off + j + 1]
    BY <2>1 DEF ReadSince
  <2> QED BY <1>0, <2>1, <2>2, <2>3 DEF Own
<1>6. ~Begin(c) /\ ~Restart(c) /\ ~CleanUp(c) /\ ~Check(c)
  BY <1>0 DEF Begin, Restart, CleanUp, RetryOrEnd, Check, Go, Busy, AtShared
<1> QED
  BY <1>3, <1>4, <1>5, <1>6
  DEF CopyStep, WholeCopy, EndSegments, AcquireRecord, AcquireWait, AcquireClaim,
      StopWaiting, CopyShared, Publish, Commit, fileVars

LEMMA FilledStep ==
    ASSUME Shape, Honest, Faithful, NEW c \in Copies, CopyStep(c), NEW x \in Copies, stage'[x] \in Busy,
           NEW i \in 1..Done(x)'
    PROVE  Own(x, i)' \/ \E s \in cloned'[x] : i \in s.off + 1..s.off + s.len
<1>0. ver' = ver
  BY Still
<1>1. CASE x # c
  <2>1. Same(x) /\ stage[x] \in Busy
    BY <1>1, StepResult DEF Result, Same, Busy, AtShared
  <2>2. i \in 1..Done(x)
    BY <2>1 DEF Same, Done, Size
  <2>3. Own(x, i) \/ \E s \in cloned[x] : i \in s.off + 1..s.off + s.len
    BY <2>1, <2>2 DEF Faithful
  <2>4. Own(x, i) => Own(x, i)'
    BY <1>0, <2>1 DEF Own, Same
  <2> QED BY <2>1, <2>3, <2>4 DEF Same
<1>2. CASE x = c /\ MapSource(c)
  <2> DEFINE plan == PlanSegments(Now(c).exts, Size(c))
  <2>1. segs'[c] = plan /\ AnyShared(plan)
    BY <1>2 DEF MapSource, Go, Shape, TypeInv, Busy, AtShared
  <2>2. Tiles(plan, 0, Size(c)) /\ Size(c) \in Nat
    BY NowFacts, PlanCorrect
  <2> HIDE DEF plan
  <2>3. plan # <<>>
    BY <2>1, EmptySeq DEF AnyShared
  <2>4. Head(plan).off = 0
    BY <2>2, <2>3, TilesTail
  <2>5. Done(c)' = 0
    BY <2>1, <2>3, <2>4 DEF Done
  <2> QED BY <1>2, <2>5
<1>3. CASE x = c /\ ~MapSource(c)
  <2>1. /\ stage[c] \in Busy /\ since'[c] = since[c] /\ ref[c] = "temp" /\ ref'[c] = "temp"
        /\ segs'[c] = segs[c] \/ (segs[c] # <<>> /\ segs'[c] = Tail(segs[c]))
        /\ cloned[c] \subseteq cloned'[c]
    BY <1>3, Working
  <2>2. CASE i \in 1..Done(c)
    <3>1. data'[c][i] = data[c][i]
      BY <2>1, <2>2, Kept
    <3>2. Own(c, i) \/ \E s \in cloned[c] : i \in s.off + 1..s.off + s.len
      BY <2>1, <2>2 DEF Faithful
    <3>3. Own(c, i) => Own(c, i)'
      BY <1>0, <2>1, <3>1 DEF Own
    <3> QED BY <1>3, <2>1, <3>2, <3>3
  <2>3. CASE i \notin 1..Done(c)
    <3>0. Done(c) \in Nat
      BY DoneNat
    <3>1. segs'[c] # segs[c]
      <4>1. segs'[c] = segs[c] => Done(c)' = Done(c)
        BY DEF Done, Size
      <4> QED BY <1>3, <2>3, <4>1
    <3>2. segs[c] # <<>> /\ Done(c)' = Head(segs[c]).off + Head(segs[c]).len
      BY <2>1, <3>1, AdvanceFacts
    <3>3. /\ Head(segs[c]).off = Done(c) /\ Head(segs[c]).len \in Nat /\ Size(c) \in Nat
          /\ Head(segs[c]).off + Head(segs[c]).len <= Size(c)
      BY <3>2, HeadFacts, Sizes
    <3>4. i \in 1..Size(c) /\ i \in Head(segs[c]).off + 1..Head(segs[c]).off + Head(segs[c]).len
      BY <1>3, <2>3, <3>0, <3>2, <3>3
    <3> QED BY <1>3, <3>1, <3>4, Filled
  <2> QED BY <2>2, <2>3
<1> QED BY <1>1, <1>2, <1>3

LEMMA CompleteKept ==
    ASSUME NEW x \in Copies, Complete(x), data'[x] = data[x], since'[x] = since[x], ver'[x] \in Nat,
           ver[x] \in Nat, since[x] \in Nat, ver[x] <= ver'[x]
    PROVE  Complete(x)'
<1>1. since[x]..ver[x] \subseteq since'[x]..ver'[x]
  OBVIOUS
<1>2. \A i : Own(x, i) => Own(x, i)'
  BY <1>1 DEF Own
<1>3. \A i \in 1..Len(data'[x]) : Own(x, i)'
  BY <1>2 DEF Complete
<1>4. Len(data'[x]) \in {Size(x)} \cup {Len(Versions[x][v].bytes) : v \in since'[x]..ver'[x]}
  BY <1>1 DEF Complete
<1> QED BY <1>3, <1>4 DEF Complete, Size

LEMMA WholeComplete ==
    ASSUME Shape, NEW c \in Copies, WholeCopy(c), stage'[c] = "publish"
    PROVE  Complete(c)'
<1>1. PICK n \in {Len(Now(c).bytes), Smaller(Size(c), Len(Now(c).bytes))} :
               data' = [data EXCEPT ![c] = SubSeq(Now(c).bytes, 1, n)]
  BY DEF WholeCopy, Go, Shape, TypeInv
<1>2. ver' = ver /\ since' = since /\ ver[c] \in since[c]..ver[c]
  BY DEF WholeCopy, Shape, TypeInv
<1>3. Len(Now(c).bytes) \in Nat /\ Size(c) \in Nat /\ \A i \in 1..Len(Now(c).bytes) : Now(c).bytes[i] \in Nat
  BY NowFacts
<1>4. n \in Nat /\ n <= Len(Now(c).bytes) /\ (n = Len(Now(c).bytes) \/ n = Size(c))
  BY <1>3 DEF Smaller
<1>5. data'[c] = SubSeq(Now(c).bytes, 1, n)
  BY <1>1 DEF Shape, TypeInv
<1>6. Len(data'[c]) = n /\ \A i \in 1..n : data'[c][i] = Now(c).bytes[i]
  <2>1. \A i \in 1..n : Now(c).bytes[i] \in Nat
    BY <1>3, <1>4
  <2> QED BY <1>4, <1>5, <2>1, SubSeqProperties
<1>7. \A i \in 1..Len(data'[c]) : Own(c, i)'
  <2> TAKE i \in 1..Len(data'[c])
  <2>1. i \in 1..n /\ i <= Len(Now(c).bytes) /\ data'[c][i] = Now(c).bytes[i]
    BY <1>3, <1>4, <1>6
  <2> QED BY <1>2, <2>1 DEF Own, Now
<1> QED BY <1>2, <1>4, <1>6, <1>7 DEF Complete, Now, Size

\* The check turns what fits the present source into what is in it.
LEMMA CheckComplete ==
    ASSUME Shape, Faithful, NEW c \in Copies, Check(c), stage'[c] = "publish"
    PROVE  Complete(c)'
<1>1. /\ stage[c] = "check" /\ data' = data /\ ver' = ver /\ since' = since
      /\ Len(Now(c).bytes) = Size(c) /\ \A s \in cloned[c] : Mapped(Now(c).exts, s)
  BY DEF Check, Go, Shape, TypeInv
<1>2. Done(c) = Size(c) /\ Len(data[c]) = Size(c) /\ Size(c) \in Nat /\ ver[c] \in since[c]..ver[c]
  BY <1>1, Sizes DEF Shape, TypeInv, Core, Done, Busy
<1>3. ASSUME NEW i \in 1..Size(c) PROVE Own(c, i)
  <2>1. Own(c, i) \/ \E s \in cloned[c] : i \in s.off + 1..s.off + s.len
    BY <1>1, <1>2 DEF Faithful, Busy
  <2>2. ASSUME NEW s \in cloned[c], i \in s.off + 1..s.off + s.len PROVE Own(c, i)
    <3>1. s \in Segment /\ s.off \in Nat /\ s.len \in Nat
      BY SegmentNats DEF Shape, Core
    <3>2. PICK j \in 0..s.len - 1 : i = s.off + j + 1
      BY <2>2, <3>1, Position
    <3>3. At(c, ver[c], s.off + j, s.phys + j)
      BY <1>1, <3>1, MappedAt
    <3>4. ver[c] \in ver[c]..Len(Versions[c])
      BY NowFacts, Sizes
    <3>5. data[c][s.off + j + 1] = Versions[c][ver[c]].bytes[s.off + j + 1]
      BY <3>3, <3>4 DEF Faithful, Fits
    <3>6. i <= Len(Versions[c][ver[c]].bytes)
      BY <1>1 DEF Now
    <3> QED BY <1>2, <3>2, <3>5, <3>6 DEF Own
  <2> QED BY <2>1, <2>2
<1>4. Complete(c)
  BY <1>2, <1>3 DEF Complete
<1> QED BY <1>1, <1>2, <1>4, CompleteKept DEF Shape, TypeInv

LEMMA CompleteStep ==
    ASSUME Shape, Faithful, NEW c \in Copies, CopyStep(c), NEW x \in Copies,
           stage'[x] \in {"publish", "commit"} \/ at'[DstOf[x]] = <<x, try'[x]>>
    PROVE  Complete(x)'
<1> USE DEF Go
<1>0. ver' = ver /\ ver[x] \in Nat /\ since[x] \in Nat /\ ver[x] <= ver[x]
  BY Still DEF Shape, TypeInv
<1>1. CASE x # c
  <2>1. Same(x)
    BY <1>1, StepResult DEF Result
  <2>2. Complete(x)
    BY <2>1 DEF Same, Faithful
  <2> QED BY <1>0, <2>1, <2>2, CompleteKept DEF Same
<1>2. CASE x = c /\ (Publish(c) \/ Commit(c))
  <2>1. stage[c] \in {"publish", "commit"} /\ data' = data /\ since' = since
    BY <1>2 DEF Publish, Commit, fileVars
  <2>2. Complete(c)
    BY <2>1 DEF Faithful
  <2> QED BY <1>0, <1>2, <2>1, <2>2, CompleteKept
<1>3. CASE x = c /\ ~Publish(c) /\ ~Commit(c)
  <2>1. at' = at /\ stage[c] \notin {"commit", "done"} /\ (try' = try \/ try'[c] = try[c] + 1)
    BY <1>3
    DEF CopyStep, Begin, WholeCopy, MapSource, EndSegments, CopyUnshared, AcquireRecord, AcquireWait,
        AcquireClaim, Acquiring, StopWaiting, Clone, CopyShared, Record, Check, Restart, CleanUp, RetryOrEnd,
        fileVars, Shape, TypeInv
  <2>2. \A t : at[DstOf[c]] = <<c, t>> => t \in Nat /\ t <= try[c] /\ t # try[c]
    BY <2>1 DEF Shape, Core
  <2>3. try[c] \in Nat /\ at'[DstOf[c]] # <<c, try'[c]>>
    BY <2>1, <2>2 DEF Shape, TypeInv
  <2>4. stage'[c] \in {"publish", "commit"}
    BY <1>3, <2>3
  <2>5. WholeCopy(c) \/ Check(c)
    <3> USE DEF Shape, TypeInv
    <3>1. ~Begin(c) /\ ~MapSource(c) /\ ~EndSegments(c) /\ ~StopWaiting(c) /\ ~Clone(c) /\ ~Restart(c)
      BY <2>4 DEF Begin, MapSource, EndSegments, StopWaiting, Clone, Restart
    <3>2. ~AcquireRecord(c) /\ ~AcquireWait(c) /\ ~AcquireClaim(c) /\ ~Record(c)
      BY <2>4 DEF AcquireRecord, AcquireWait, AcquireClaim, Record, Release
    <3>3. ~CopyUnshared(c)
      BY <2>4 DEF CopyUnshared, ReadErrors
    <3>4. ~CopyShared(c)
      BY <2>4 DEF CopyShared, ReadErrors, Release
    <3>5. ~CleanUp(c)
      BY <2>4 DEF CleanUp, RetryOrEnd
    <3> QED BY <1>3, <3>1, <3>2, <3>3, <3>4, <3>5 DEF CopyStep
  <2>6. stage'[c] = "publish"
    BY <2>4, <2>5 DEF WholeCopy, Check, Shape, TypeInv
  <2> QED BY <1>3, <2>5, <2>6, WholeComplete, CheckComplete
<1> QED BY <1>1, <1>2, <1>3

LEMMA CurrentStep ==
    ASSUME NoReturn, Shape, Honest, Faithful, NEW c \in Copies, CopyStep(c), NEW r \in recs', Live(r)'
    PROVE  RecCurrent(r)'
<1>0. ver' = ver
  BY Still
<1>1. CASE r \in recs
  <2>1. RecOK(r)
    BY <1>1 DEF Shape, IndexOK
  <2>2. Live(r) /\ \A j \in 0..r.len - 1 : data'[r.by][r.off + j + 1] = data[r.by][r.off + j + 1]
    BY <2>1, LiveKept
  <2>3. RecCurrent(r)
    BY <1>1, <2>2 DEF Faithful
  <2> QED BY <1>0, <2>2, <2>3 DEF RecCurrent
<1>2. CASE r \notin recs
  <2>1. Record(c) /\ stage[c] = "record" /\ data' = data
    BY <1>2, RecsBy DEF Record
  <2>2. PICK q \in Rec :
           /\ q.phys = Head(segs[c]).phys /\ q.len = Head(segs[c]).len /\ q.off = Head(segs[c]).off /\ q.by = c
           /\ \/ recs' = recs
              \/ /\ Mapped(Now(c).exts, Head(segs[c]))
                 /\ recs' = {y \in recs : y.phys # q.phys \/ y.len # q.len} \cup {q}
    BY <2>1, InsertFacts
  <2>3. PICK s : s = Head(segs[c])
    OBVIOUS
  <2>4. r = q /\ Mapped(Now(c).exts, s)
    BY <1>2, <2>2, <2>3
  <2>5. s \in Segment
    BY <2>1, <2>3, HeadFacts DEF Shape, Core, AtShared
  <2>6. ReadSince(c, s)
    BY <2>1, <2>3 DEF Honest
  <2>7. ASSUME NEW d \in Copies, NEW j \in 0..r.len - 1
        PROVE  Holds(d, ver[d], r.phys + j) \subseteq {data[c][r.off + j + 1]}
    <3>1. r.len = s.len /\ r.phys = s.phys /\ r.off = s.off
      BY <2>2, <2>3, <2>4
    <3>2. data[c][r.off + j + 1] \in Holds(c, ver[c], r.phys + j)
      BY <2>4, <2>5, <2>6, <3>1, RecordReads
    <3>3. At(c, ver[c], s.off + j, s.phys + j) /\ s.off + j \in Nat /\ ver[c] \in 1..Len(Versions[c])
      BY <2>4, <2>5, <3>1, MappedAt, NowFacts
    <3>4. r.phys + j \in Blocks
      BY <3>1, <3>3, AtFacts
    <3>5. \A x \in Holds(d, ver[d], r.phys + j), y \in Holds(c, ver[c], r.phys + j) : x = y
      BY <3>4 DEF Faithful, Consistent
    <3> QED BY <3>2, <3>5
  <2> QED BY <1>0, <2>1, <2>2, <2>4, <2>7 DEF RecCurrent
<1> QED BY <1>1, <1>2

LEMMA FaithfulCopyStep ==
    ASSUME NoReturn, Shape, Honest, Faithful, NEW c \in Copies, CopyStep(c) PROVE Faithful'
<1>1. Consistent(ver)'
  BY Still DEF Faithful, Consistent
<1>2. \A r \in recs' : Live(r)' => RecCurrent(r)'
  BY CurrentStep
<1>3. ASSUME NEW x \in Copies PROVE \A s \in cloned'[x] : Fits(x, s, x, s.off)'
  BY ClonedStep
<1>4. ASSUME NEW x \in Copies, stage'[x] = "clone", Live(found[x])'
      PROVE  Fits(x, Head(segs[x]), found[x].by, found[x].off + (Head(segs[x]).phys - found[x].phys))'
  <2>1. PICK r, s : r = found'[x] /\ s = Head(segs'[x])
    OBVIOUS
  <2>2. Live(r)'
    BY <1>4, <2>1 DEF Live
  <2>3. Fits(x, s, r.by, r.off + (s.phys - r.phys))'
    BY <1>4, <2>1, <2>2, FoundFits
  <2> QED BY <2>1, <2>3 DEF Fits
<1>5. ASSUME NEW x \in Copies, stage'[x] \in Busy, NEW i \in 1..Done(x)'
      PROVE  Own(x, i)' \/ \E s \in cloned'[x] : i \in s.off + 1..s.off + s.len
  BY <1>5, FilledStep
<1>6. ASSUME NEW x \in Copies, stage'[x] \in {"publish", "commit"} \/ at'[DstOf[x]] = <<x, try'[x]>>
      PROVE  Complete(x)'
  BY <1>6, CompleteStep
<1> QED BY <1>1, <1>2, <1>3, <1>4, <1>5, <1>6 DEF Faithful

LEMMA CompleteLater ==
    ASSUME Shape, NEW x \in Copies, Complete(x), UNCHANGED <<fileVars, at>>, ver'[x] \in Nat, ver[x] <= ver'[x]
    PROVE  Complete(x)'
BY CompleteKept DEF fileVars, Shape, TypeInv

\* A source is written elsewhere, or moved, and a block of a record gets no new owner
\* with other bytes.
LEMMA FaithfulQuiet ==
    ASSUME Shape, Faithful, UNCHANGED <<stage, fileVars, indexVars, at>>,
           ver' \in [Copies -> Nat], \A x \in Copies : ver[x] <= ver'[x],
           Consistent(ver'), \A r \in recs : Live(r) => RecCurrent(r)'
    PROVE  Faithful'
<1> USE DEF fileVars, indexVars
<1>0. \A x \in Copies : /\ ver[x] \in Nat /\ ver'[x] \in Nat /\ ver[x] <= ver'[x] /\ Len(Versions[x]) \in Nat
                        /\ since[x]..ver[x] \subseteq since[x]..ver'[x]
  BY Sizes DEF Shape, TypeInv
<1>1. ASSUME NEW x \in Copies, NEW s, NEW b, NEW base, Fits(x, s, b, base) PROVE Fits(x, s, b, base)'
  BY <1>0, <1>1, FitsKept
<1>2. ASSUME NEW x \in Copies PROVE \A s \in cloned'[x] : Fits(x, s, x, s.off)'
  BY <1>1 DEF Faithful
<1>3. ASSUME NEW x \in Copies, stage'[x] = "clone", Live(found[x])'
      PROVE  Fits(x, Head(segs[x]), found[x].by, found[x].off + (Head(segs[x]).phys - found[x].phys))'
  <2>1. PICK s, b, base : /\ s = Head(segs[x]) /\ b = found[x].by
                          /\ base = found[x].off + (Head(segs[x]).phys - found[x].phys)
    OBVIOUS
  <2>2. Fits(x, s, b, base)
    BY <1>3, <2>1 DEF Faithful, Live
  <2>3. Fits(x, s, b, base)'
    BY <1>1, <2>2
  <2> QED BY <2>1, <2>3 DEF Fits
<1>4. ASSUME NEW x \in Copies, stage'[x] \in Busy, NEW i \in 1..Done(x)'
      PROVE  Own(x, i)' \/ \E s \in cloned'[x] : i \in s.off + 1..s.off + s.len
  <2>1. i \in 1..Done(x)
    BY DEF Done, Size
  <2>2. Own(x, i) \/ \E s \in cloned[x] : i \in s.off + 1..s.off + s.len
    BY <1>4, <2>1 DEF Faithful
  <2> QED BY <1>0, <2>2 DEF Own
<1>5. ASSUME NEW x \in Copies, stage'[x] \in {"publish", "commit"} \/ at'[DstOf[x]] = <<x, try'[x]>>
      PROVE  Complete(x)'
  BY <1>0, <1>5, CompleteLater DEF Faithful
<1>6. Consistent(ver)'
  BY DEF Consistent
<1>7. \A r \in recs' : Live(r)' => RecCurrent(r)'
  BY DEF Live
<1> QED BY <1>2, <1>3, <1>4, <1>5, <1>6, <1>7 DEF Faithful

LEMMA CurrentMove ==
    ASSUME ~ReuseRecorded, Shape, Faithful, NEW c \in Copies, Move(c), NEW r \in recs, Live(r)
    PROVE  RecCurrent(r)'
<1>1. r \in Rec /\ r.phys \in Nat /\ r.len \in Nat /\ RecCurrent(r)
  BY DEF Shape, IndexOK, RecOK, Rec, Faithful
<1>2. /\ ver' \in [Copies -> Nat] /\ ver'[c] \in 1..Len(Versions[c]) /\ \A d \in Copies \ {c} : ver'[d] = ver[d]
      /\ data' = data
  <2>1. ver[c] \in Nat /\ 1 <= ver[c] /\ Len(Versions[c]) \in Nat
    BY NowFacts, Sizes
  <2>2. ver'[c] \in Nat /\ ver[c] <= ver'[c] /\ ver'[c] <= Len(Versions[c]) /\ ver' \in [Copies -> Nat]
    BY MoveFacts
  <2>3. \A d \in Copies \ {c} : ver'[d] = ver[d]
    BY DEF Move, Shape, TypeInv
  <2> QED BY <2>1, <2>2, <2>3 DEF Move, fileVars
<1>3. ASSUME NEW d \in Copies, NEW j \in 0..r.len - 1
      PROVE  Holds(d, ver'[d], r.phys + j) \subseteq {data[r.by][r.off + j + 1]}
  <2>1. Holds(d, ver[d], r.phys + j) \subseteq {data[r.by][r.off + j + 1]}
    BY <1>1 DEF RecCurrent
  <2>2. CASE d # c
    BY <1>2, <2>1, <2>2
  <2>3. CASE d = c /\ r.phys + j \in Blocks
    <3>1. r.phys + j \in r.phys..r.phys + r.len - 1
      BY <1>1
    <3>2. Holds(c, ver'[c], r.phys + j) \subseteq Holds(c, ver[c], r.phys + j)
      BY <2>3, <3>1 DEF Move
    <3> QED BY <2>1, <2>3, <3>2
  <2>4. CASE d = c /\ r.phys + j \notin Blocks
    <3>1. r.phys + j \in Nat
      BY <1>1
    <3> QED BY <1>2, <2>4, <3>1, HoldsBlocks
  <2> QED BY <2>2, <2>3, <2>4
<1> QED BY <1>2, <1>3 DEF RecCurrent

LEMMA FaithfulInit == ASSUME Init PROVE Faithful
<1>1. Consistent(ver)
  BY SourceAssumption DEF Init
<1>2. ASSUME NEW x \in Copies PROVE at[DstOf[x]] # <<x, try[x]>>
  <2>1. at[DstOf[x]] = <<>>
    BY DEF Init
  <2> QED BY <2>1
<1> QED BY <1>1, <1>2 DEF Init, Faithful, Busy, AtShared

LEMMA FaithfulStep ==
    ASSUME NoReturn, ~ReuseRecorded, Shape, Honest, Faithful, [Next]_vars PROVE Faithful'
<1>1. CASE \E c \in Copies : CopyStep(c)
  BY <1>1, FaithfulCopyStep
<1>2. CASE \E c \in Copies : Move(c)
  BY <1>2, MoveFacts, CurrentMove, FaithfulQuiet
<1>3. CASE Cancel \/ UNCHANGED vars
  <2>1. ver' = ver /\ UNCHANGED <<stage, fileVars, indexVars, at>>
    BY <1>3 DEF Cancel, vars
  <2>2. ver' \in [Copies -> Nat] /\ \A x \in Copies : ver[x] <= ver'[x]
    BY <2>1 DEF Shape, TypeInv
  <2>3. Consistent(ver')
    BY <2>1 DEF Faithful
  <2>4. \A r \in recs : Live(r) => RecCurrent(r)'
    BY <2>1 DEF Faithful, RecCurrent, fileVars
  <2> QED BY <2>1, <2>2, <2>3, <2>4, FaithfulQuiet
<1> QED BY <1>1, <1>2, <1>3 DEF Next, Finished

\* A published file holds, block by block, what its own source had while it was
\* copied, however the copies take from one another and the sources move; as long as
\* a physical block that a record names does not come to hold something else.
THEOREM CopyIsOwnCorrect == ASSUME NoReturn, ~ReuseRecorded PROVE Spec => []CopyIsOwn
<1>1. Faithful => CopyIsOwn
  BY DEF Faithful, Complete, Own, CopyIsOwn
<1>2. Init => Shape /\ Honest /\ Faithful
  BY ShapeInit, HonestInit, FaithfulInit
<1>3. Shape /\ Honest /\ Faithful /\ [Next]_vars => Shape' /\ Honest' /\ Faithful'
  BY ShapeStep, HonestStep, FaithfulStep
<1> QED BY <1>1, <1>2, <1>3, PTL DEF Spec

=============================================================================
