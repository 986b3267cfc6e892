--------------------------- MODULE ConnPoolProofs ---------------------------
(* Proofs about ConnPool, for any number of copies, files and connections.   *)
EXTENDS ConnPool, Integers, FiniteSetTheorems, SequenceTheorems, TLAPS

\* A dial is under way only if its connection fits; dials come one at a time.
DialFits == dialing => conns < MaxConnections

LEMMA ReserveTypes ==
    ASSUME TypeOK, NEW t \in Copies, NEW c \in 1..conns, Reserve(t, c)
    PROVE  TypeOK'
<1>1. c \in Conns
  BY ConnAssumption DEF TypeOK, Conns
<1>2. Append(files[t], c) \in Seq(Conns)
  BY <1>1, AppendProperties DEF TypeOK
<1>3. \A i \in 1..Len(Append(files[t], c)) : Append(files[t], c)[i] <= conns
  <2>1. \A i \in 1..Len(files[t]) : Append(files[t], c)[i] = files[t][i]
    BY <1>1, AppendProperties DEF TypeOK
  <2>2. Append(files[t], c)[Len(files[t]) + 1] = c /\ Len(Append(files[t], c)) = Len(files[t]) + 1
    BY <1>1, AppendProperties DEF TypeOK
  <2>3. Len(files[t]) \in Nat
    BY LenProperties DEF TypeOK
  <2> QED BY <2>1, <2>2, <2>3 DEF TypeOK, Conns
<1>4. \A u \in Copies : files'[u] = IF u = t THEN Append(files[t], c) ELSE files[u]
  BY DEF Reserve, TypeOK
<1>5. files' \in [Copies -> Seq(Conns)]
  BY <1>2 DEF Reserve, TypeOK
<1>6. load' \in [Conns -> Nat]
  BY <1>1 DEF Reserve, TypeOK
<1>7. \A u \in Copies : \A i \in 1..Len(files'[u]) : files'[u][i] <= conns
  BY <1>3, <1>4 DEF TypeOK
<1> QED BY <1>5, <1>6, <1>7 DEF Reserve, TypeOK, poolVars

\* The shorter sequence that CloseFile leaves.
LEMMA FrontOfFiles ==
    ASSUME TypeOK, NEW t \in Copies, files[t] # <<>>
    PROVE  LET n == Len(files[t]) IN
           /\ n \in Nat \ {0} /\ files[t][n] \in Conns
           /\ SubSeq(files[t], 1, n - 1) \in Seq(Conns)
           /\ Len(SubSeq(files[t], 1, n - 1)) = n - 1
           /\ \A i \in 1..(n - 1) : SubSeq(files[t], 1, n - 1)[i] = files[t][i]
<1> DEFINE n == Len(files[t])
<1>1. files[t] \in Seq(Conns) /\ n \in Nat /\ n # 0
  BY LenProperties, EmptySeq DEF TypeOK
<1>2. \A i \in 1..n : files[t][i] \in Conns
  BY <1>1, ElementOfSeq
<1>3. \A i \in 1..(n - 1) : files[t][i] \in Conns
  BY <1>1, <1>2
<1> HIDE DEF n
<1>4. /\ SubSeq(files[t], 1, n - 1) \in Seq(Conns)
      /\ Len(SubSeq(files[t], 1, n - 1)) = IF 1 <= n - 1 THEN (n - 1) - 1 + 1 ELSE 0
      /\ \A i \in 1..((n - 1) - 1 + 1) : SubSeq(files[t], 1, n - 1)[i] = files[t][1 + i - 1]
  BY <1>1, <1>3, SubSeqProperties
<1>5. Len(SubSeq(files[t], 1, n - 1)) = n - 1
  BY <1>1, <1>4
<1>6. \A i \in 1..(n - 1) : SubSeq(files[t], 1, n - 1)[i] = files[t][i]
  BY <1>1, <1>4
<1> QED BY <1>1, <1>2, <1>4, <1>5, <1>6 DEF n

LEMMA CloseTypes == ASSUME TypeOK, NEW t \in Copies, CloseFile(t) PROVE TypeOK'
<1> DEFINE n == Len(files[t])
<1>1. /\ n \in Nat \ {0} /\ files[t][n] \in Conns
      /\ SubSeq(files[t], 1, n - 1) \in Seq(Conns)
      /\ Len(SubSeq(files[t], 1, n - 1)) = n - 1
      /\ \A i \in 1..(n - 1) : SubSeq(files[t], 1, n - 1)[i] = files[t][i]
  BY FrontOfFiles DEF CloseFile
<1>f. files'[t] = SubSeq(files[t], 1, n - 1)
  BY DEF CloseFile, TypeOK
<1>2. files' \in [Copies -> Seq(Conns)]
  BY <1>1 DEF CloseFile, TypeOK
<1>3. load' \in [Conns -> Nat]
  BY <1>1 DEF CloseFile, TypeOK
<1>4. \A u \in Copies : \A i \in 1..Len(files'[u]) : files'[u][i] <= conns
  <2>1. \A u \in Copies \ {t} : files'[u] = files[u]
    BY DEF CloseFile, TypeOK
  <2>2. \A i \in 1..Len(files'[t]) : i \in 1..n /\ files'[t][i] = files[t][i]
    <3> HIDE DEF n
    <3> QED BY <1>f, <1>1
  <2>3. \A i \in 1..Len(files'[t]) : files'[t][i] <= conns
    BY <2>2 DEF TypeOK
  <2> QED BY <2>1, <2>3 DEF TypeOK
<1> QED BY <1>2, <1>3, <1>4 DEF CloseFile, TypeOK, poolVars

\* TypeOK needs DialFits: the connection a dial returns must have a number.
LEMMA TypeStep == ASSUME TypeOK, DialFits, [Next]_vars PROVE TypeOK' /\ DialFits'
<1> USE DEF DialFits
<1>1. ASSUME NEW t \in Copies, TakeFree(t) PROVE TypeOK' /\ DialFits'
  <2>1. PICK c \in Free : Reserve(t, c)
    BY <1>1 DEF TakeFree
  <2>2. c \in 1..conns
    BY DEF Free, TransferConns, TypeOK, Conns
  <2> QED BY <2>1, <2>2, ReserveTypes DEF Reserve, poolVars
<1>2. ASSUME NEW t \in Copies, Share(t) PROVE TypeOK' /\ DialFits'
  <2>1. PICK c \in 1..conns : Reserve(t, c)
    BY <1>2 DEF Share
  <2>2. TypeOK'
    BY <2>1, ReserveTypes
  <2> QED BY <2>1, <2>2 DEF Reserve, poolVars
<1>3. ASSUME NEW t \in Copies, DialAndWait(t) PROVE TypeOK' /\ DialFits'
  BY <1>3 DEF DialAndWait, CanGrow, TypeOK
<1>4. ASSUME NEW t \in Copies, EndCopy(t) PROVE TypeOK' /\ DialFits'
  BY <1>4 DEF EndCopy, TypeOK, poolVars
<1>5. ASSUME NEW t \in Copies, CloseFile(t) PROVE TypeOK' /\ DialFits'
  BY <1>5, CloseTypes DEF CloseFile, poolVars
<1>6. ASSUME NEW t \in Copies, SignalFree(t) PROVE TypeOK' /\ DialFits'
  BY <1>6 DEF SignalFree, TypeOK, poolVars
<1>7. CASE Dialled
  <2>1. conns' \in Conns /\ conns <= conns'
    BY <1>7, ConnAssumption DEF Dialled, TypeOK, Conns
  <2>2. \A t \in Copies : \A i \in 1..Len(files[t]) : files[t][i] \in Int
    <3> SUFFICES ASSUME NEW t \in Copies, NEW i \in 1..Len(files[t]) PROVE files[t][i] \in Int
      OBVIOUS
    <3>1. files[t] \in Seq(Conns)
      BY DEF TypeOK
    <3>2. files[t][i] \in Conns
      BY <3>1, ElementOfSeq
    <3> QED BY <3>2, ConnAssumption DEF Conns
  <2>3. \A t \in Copies : \A i \in 1..Len(files[t]) : files[t][i] <= conns'
    BY <2>1, <2>2 DEF TypeOK, Conns
  <2> QED BY <1>7, <2>1, <2>3 DEF Dialled, TypeOK
<1>8. CASE ClosePool
  BY <1>8 DEF ClosePool, TypeOK
<1>9. CASE BroadcastFree
  BY <1>9 DEF BroadcastFree, TypeOK, poolVars
<1>10. CASE UNCHANGED vars
  BY <1>10 DEF vars, TypeOK
<1> QED BY <1>1, <1>2, <1>3, <1>4, <1>5, <1>6, <1>7, <1>8, <1>9, <1>10 DEF Next, CopyStep, AllEnded

LEMMA TypeInit == ASSUME Init PROVE TypeOK /\ DialFits
<1>1. <<>> \in Seq(Conns) /\ Len(<<>>) = 0
  BY EmptySeq
<1>2. files \in [Copies -> Seq(Conns)] /\ \A t \in Copies : Len(files[t]) = 0
  BY <1>1 DEF Init
<1>3. \A t \in Copies : \A i \in 1..Len(files[t]) : files[t][i] <= conns
  BY <1>2
<1>4. 1 \in Conns /\ (dialing => conns < MaxConnections)
  BY ConnAssumption DEF Init, Conns
<1>5. load \in [Conns -> Nat] /\ conns \in Conns
  BY <1>4 DEF Init
<1> QED BY <1>2, <1>3, <1>4, <1>5 DEF Init, TypeOK, DialFits

\* The pool keeps its types, the ceiling on its connections among them.
THEOREM PoolBounded == Spec => []TypeOK
<1> QED BY TypeInit, TypeStep, PTL DEF Spec

LEMMA DialAlwaysFits == Spec => [](TypeOK /\ DialFits)
<1> QED BY TypeInit, TypeStep, PTL DEF Spec

-----------------------------------------------------------------------------
LEMMA WaitersStep == ASSUME WaitersHaveDial, [Next]_vars PROVE WaitersHaveDial'
<1> USE DEF WaitersHaveDial
<1>1. ASSUME NEW t \in Copies, CopyStep(t) PROVE WaitersHaveDial'
  BY <1>1 DEF CopyStep, TakeFree, Share, Reserve, DialAndWait, EndCopy, CloseFile, SignalFree, poolVars
<1>2. CASE Dialled \/ ClosePool \/ BroadcastFree
  BY <1>2 DEF Dialled, ClosePool, BroadcastFree, poolVars
<1>3. CASE UNCHANGED vars
  BY <1>3 DEF vars, poolVars
<1> QED BY <1>1, <1>2, <1>3 DEF Next, AllEnded

\* No copy waits for another copy to close a file: a dial is always under way.
THEOREM WaitersAlwaysHaveDial == Spec => []WaitersHaveDial
<1>1. Init => WaitersHaveDial
  BY DEF Init, WaitersHaveDial
<1> QED BY <1>1, WaitersStep, PTL DEF Spec

-----------------------------------------------------------------------------
LEMMA SharedStep ==
    ASSUME TypeOK, DialFits, SharedOnlyWhenFull, [Next]_vars
    PROVE  SharedOnlyWhenFull'
<1> USE DEF SharedOnlyWhenFull
<1>1. ASSUME NEW t \in Copies, TakeFree(t) PROVE SharedOnlyWhenFull'
  <2>1. PICK c \in Free : Reserve(t, c)
    BY <1>1 DEF TakeFree
  <2>2. load[c] = 0
    BY DEF Free
  <2>3. \A d \in Conns : load'[d] > 1 => load[d] > 1
    BY <2>1, <2>2 DEF Reserve, TypeOK
  <2> QED BY <2>1, <2>3 DEF Reserve, poolVars
<1>2. ASSUME NEW t \in Copies, Share(t) PROVE SharedOnlyWhenFull'
  BY <1>2, ConnAssumption DEF Share, CanGrow, Reserve, poolVars, TypeOK, Conns
<1>3. ASSUME NEW t \in Copies, CloseFile(t) PROVE SharedOnlyWhenFull'
  <2>1. \A d \in Conns : load'[d] > 1 => load[d] > 1
    BY <1>3 DEF CloseFile, TypeOK
  <2> QED BY <1>3, <2>1 DEF CloseFile, poolVars
<1>4. ASSUME NEW t \in Copies, DialAndWait(t) \/ EndCopy(t) \/ SignalFree(t) PROVE SharedOnlyWhenFull'
  BY <1>4 DEF DialAndWait, EndCopy, SignalFree, poolVars
<1>5. CASE Dialled
  BY <1>5, ConnAssumption DEF Dialled, DialFits, TypeOK, Conns
<1>6. CASE ClosePool \/ BroadcastFree
  BY <1>6 DEF ClosePool, BroadcastFree, poolVars
<1>7. CASE UNCHANGED vars
  BY <1>7 DEF vars
<1> QED BY <1>1, <1>2, <1>3, <1>4, <1>5, <1>6, <1>7 DEF Next, CopyStep, AllEnded

\* One connection per open file, until no further connection can be had.
THEOREM SharesOnlyWhenFull == Spec => []SharedOnlyWhenFull
<1>1. Init => SharedOnlyWhenFull
  BY DEF Init, SharedOnlyWhenFull
<1> QED BY <1>1, DialAlwaysFits, SharedStep, PTL DEF Spec

-----------------------------------------------------------------------------
\* Users(c) is finite because it only ever gains and loses one file at a time.
LoadInv == LoadsHonest /\ \A c \in Conns : IsFiniteSet(Users(c))

LEMMA UserIff ==
    ASSUME NEW c, NEW x
    PROVE  x \in Users(c) <=> \E t \in Copies : \E i \in 1..Len(files[t]) : files[t][i] = c /\ x = <<t, i>>
BY DEF Users

LEMMA UserIffNext ==
    ASSUME NEW c, NEW x
    PROVE  x \in Users(c)' <=> \E t \in Copies : \E i \in 1..Len(files'[t]) : files'[t][i] = c /\ x = <<t, i>>
BY DEF Users

LEMMA ReserveLoads ==
    ASSUME TypeOK, LoadInv, NEW t \in Copies, NEW c \in 1..conns, Reserve(t, c)
    PROVE  LoadInv'
<1> DEFINE n == Len(files[t])
           x == <<t, n + 1>>
<1>1. c \in Conns
  BY ConnAssumption DEF TypeOK, Conns
<1>2. /\ n \in Nat /\ Len(files'[t]) = n + 1 /\ files'[t][n + 1] = c
      /\ \A i \in 1..n : files'[t][i] = files[t][i]
  <2>1. files'[t] = Append(files[t], c) /\ files[t] \in Seq(Conns)
    BY DEF Reserve, TypeOK
  <2> QED BY <1>1, <2>1, AppendProperties, LenProperties
<1>3. \A u \in Copies \ {t} : files'[u] = files[u]
  BY DEF Reserve, TypeOK
<1>4. Users(c)' = Users(c) \cup {x}
  <2>1. ASSUME NEW y \in Users(c)' PROVE y \in Users(c) \cup {x}
    BY <2>1, <1>2, <1>3, UserIff, UserIffNext
  <2>2. ASSUME NEW y \in Users(c) PROVE y \in Users(c)'
    BY <2>2, <1>2, <1>3, UserIff, UserIffNext
  <2>3. x \in Users(c)'
    BY <1>2, UserIffNext
  <2> QED BY <2>1, <2>2, <2>3
<1>5. ASSUME NEW d \in Conns \ {c} PROVE Users(d)' = Users(d)
  <2>1. ASSUME NEW y \in Users(d)' PROVE y \in Users(d)
    BY <2>1, <1>2, <1>3, <1>5, UserIff, UserIffNext
  <2>2. ASSUME NEW y \in Users(d) PROVE y \in Users(d)'
    BY <2>2, <1>2, <1>3, <1>5, UserIff, UserIffNext
  <2> QED BY <2>1, <2>2
<1>6. x \notin Users(c)
  BY <1>2, UserIff
<1>7. IsFiniteSet(Users(c)') /\ Cardinality(Users(c)') = Cardinality(Users(c)) + 1
  BY <1>1, <1>4, <1>6, FS_AddElement DEF LoadInv
<1>8. \A d \in Conns : load'[d] = IF d = c THEN load[c] + 1 ELSE load[d]
  BY <1>1 DEF Reserve, TypeOK
<1> QED BY <1>1, <1>5, <1>7, <1>8 DEF LoadInv, LoadsHonest

LEMMA CloseLoads == ASSUME TypeOK, LoadInv, NEW t \in Copies, CloseFile(t) PROVE LoadInv'
<1> DEFINE n == Len(files[t])
           x == <<t, n>>
<1>c. PICK c : c = files[t][n]
  OBVIOUS
<1>1. /\ n \in Nat \ {0} /\ c \in Conns
      /\ Len(files'[t]) = n - 1
      /\ \A i \in 1..(n - 1) : files'[t][i] = files[t][i]
  <2>1. files'[t] = SubSeq(files[t], 1, n - 1)
    BY DEF CloseFile, TypeOK
  <2>2. files[t] # <<>>
    BY DEF CloseFile
  <2> QED BY <1>c, <2>1, <2>2, FrontOfFiles
<1>2. \A u \in Copies \ {t} : files'[u] = files[u]
  BY DEF CloseFile, TypeOK
<1>3. x \in Users(c)
  BY <1>c, <1>1, UserIff
<1>n. files[t][n] = c /\ n = Len(files[t])
  BY <1>c
<1> HIDE DEF n
<1>4. Users(c)' = Users(c) \ {x}
  <2>1. ASSUME NEW y \in Users(c)' PROVE y \in Users(c) \ {x}
    <3>1. PICK u \in Copies : \E i \in 1..Len(files'[u]) : files'[u][i] = c /\ y = <<u, i>>
      BY <2>1, UserIffNext
    <3>2. PICK i \in 1..Len(files'[u]) : files'[u][i] = c /\ y = <<u, i>>
      BY <3>1
    <3>3. i \in 1..Len(files[u]) /\ files[u][i] = c /\ (u = t => i # n)
      BY <3>2, <1>n, <1>1, <1>2
    <3> QED BY <3>2, <3>3, UserIff
  <2>2. ASSUME NEW y \in Users(c) \ {x} PROVE y \in Users(c)'
    <3>1. PICK u \in Copies : \E i \in 1..Len(files[u]) : files[u][i] = c /\ y = <<u, i>>
      BY <2>2, UserIff
    <3>2. PICK i \in 1..Len(files[u]) : files[u][i] = c /\ y = <<u, i>>
      BY <3>1
    <3>3. i \in 1..Len(files'[u]) /\ files'[u][i] = c
      BY <2>2, <3>2, <1>n, <1>1, <1>2
    <3> QED BY <3>2, <3>3, UserIffNext
  <2> QED BY <2>1, <2>2
<1>5. ASSUME NEW d \in Conns \ {c} PROVE Users(d)' = Users(d)
  <2>1. ASSUME NEW y \in Users(d)' PROVE y \in Users(d)
    <3>1. PICK u \in Copies : \E i \in 1..Len(files'[u]) : files'[u][i] = d /\ y = <<u, i>>
      BY <2>1, UserIffNext
    <3>2. PICK i \in 1..Len(files'[u]) : files'[u][i] = d /\ y = <<u, i>>
      BY <3>1
    <3>3. i \in 1..Len(files[u]) /\ files[u][i] = d
      BY <3>2, <1>n, <1>1, <1>2
    <3> QED BY <3>2, <3>3, UserIff
  <2>2. ASSUME NEW y \in Users(d) PROVE y \in Users(d)'
    <3>1. PICK u \in Copies : \E i \in 1..Len(files[u]) : files[u][i] = d /\ y = <<u, i>>
      BY <2>2, UserIff
    <3>2. PICK i \in 1..Len(files[u]) : files[u][i] = d /\ y = <<u, i>>
      BY <3>1
    <3>3. i \in 1..Len(files'[u]) /\ files'[u][i] = d
      BY <3>2, <1>n, <1>1, <1>2, <1>5
    <3> QED BY <3>2, <3>3, UserIffNext
  <2> QED BY <2>1, <2>2
<1>6. IsFiniteSet(Users(c)') /\ Cardinality(Users(c)') = Cardinality(Users(c)) - 1
  BY <1>1, <1>3, <1>4, FS_RemoveElement DEF LoadInv
<1>7. load[c] = Cardinality(Users(c)) /\ load[c] > 0
  BY <1>1, <1>3, FS_EmptySet DEF LoadInv, LoadsHonest, TypeOK
<1>8. \A d \in Conns : load'[d] = IF d = c THEN load[c] - 1 ELSE load[d]
  <2>1. load' = [load EXCEPT ![c] = IF @ > 0 THEN @ - 1 ELSE @]
    BY <1>c DEF CloseFile, n
  <2> QED BY <1>1, <1>7, <2>1 DEF TypeOK
<1> QED BY <1>1, <1>5, <1>6, <1>7, <1>8 DEF LoadInv, LoadsHonest

LEMMA LoadStep == ASSUME TypeOK, LoadInv, [Next]_vars PROVE LoadInv'
<1>1. ASSUME NEW t \in Copies, TakeFree(t) PROVE LoadInv'
  <2>1. PICK c \in Free : Reserve(t, c)
    BY <1>1 DEF TakeFree
  <2>2. c \in 1..conns
    BY DEF Free, TransferConns, TypeOK, Conns
  <2> QED BY <2>1, <2>2, ReserveLoads
<1>2. ASSUME NEW t \in Copies, Share(t) PROVE LoadInv'
  BY <1>2, ReserveLoads DEF Share
<1>3. ASSUME NEW t \in Copies, CloseFile(t) PROVE LoadInv'
  BY <1>3, CloseLoads
<1>4. ASSUME UNCHANGED <<load, files>> PROVE LoadInv'
  BY <1>4 DEF LoadInv, LoadsHonest, Users
<1> QED BY <1>1, <1>2, <1>3, <1>4
  DEF Next, CopyStep, DialAndWait, EndCopy, SignalFree, Dialled, ClosePool, BroadcastFree, AllEnded, vars

\* A connection's counter is the number of files open on it, in every state.
THEOREM LoadsAreHonest == Spec => []LoadsHonest
<1>1. Init => LoadInv
  <2> SUFFICES ASSUME Init PROVE LoadInv
    OBVIOUS
  <2>1. \A c \in Conns : Users(c) = {}
    BY UserIff, EmptySeq DEF Init
  <2> QED BY <2>1, FS_EmptySet DEF LoadInv, LoadsHonest, Init
<1>2. LoadInv => LoadsHonest
  BY DEF LoadInv
<1> QED BY <1>1, <1>2, PoolBounded, LoadStep, PTL DEF Spec
=============================================================================
