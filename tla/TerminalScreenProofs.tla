-------------------------- MODULE TerminalScreenProofs --------------------------
(***************************************************************************)
(* Theorems about OutputBridge and TerminalScreen for every buffer size,    *)
(* read size, set of streams and division of these into characters.  Of the *)
(* bridge (Spec): the hidden output stays within its limit, is the newest   *)
(* output without gaps, and nothing is lost before the limit is exceeded.   *)
(* Of the bridge with the terminal of its tab (ScreenSpec): a character     *)
(* that comes in one read is whole in its event, so the screen shows every  *)
(* byte delivered as it was received, unless its character was torn.        *)
(***************************************************************************)
EXTENDS TerminalScreen, SequenceTheorems, TLAPS

-----------------------------------------------------------------------------
(* Lemmas about the newest units of a sequence                              *)

\* The newest n units of a sequence, one by one.
LEMMA NewestElements ==
    ASSUME NEW S, NEW q \in Seq(S), NEW n \in 0..Len(q)
    PROVE  /\ Newest(n, q) \in Seq(S)
           /\ Len(Newest(n, q)) = n
           /\ \A i \in 1..n : Newest(n, q)[i] = q[Len(q) - n + i]
<1> DEFINE m == Len(q) - n + 1
<1>1. Len(q) \in Nat /\ m \in Int /\ Len(q) \in Int
  BY LenProperties
<1>2. \A i \in m..Len(q) : q[i] \in S
  BY <1>1, ElementOfSeq
<1>3. /\ SubSeq(q, m, Len(q)) \in Seq(S)
      /\ Len(SubSeq(q, m, Len(q))) = IF m <= Len(q) THEN Len(q) - m + 1 ELSE 0
      /\ \A i \in 1..Len(q) - m + 1 : SubSeq(q, m, Len(q))[i] = q[m + i - 1]
  BY <1>1, <1>2, SubSeqProperties
<1> QED
  BY <1>1, <1>3 DEF Newest

\* What is appended to both keeps the newest units the newest.
LEMMA NewestConcat ==
    ASSUME NEW S, NEW r \in Seq(S), NEW c \in Seq(S), NEW n \in 0..Len(r)
    PROVE  /\ n + Len(c) <= Len(r \o c)
           /\ Newest(n, r) \o c = Newest(n + Len(c), r \o c)
<1> DEFINE b == Newest(n, r)
           m == n + Len(c)
<1>1. /\ b \in Seq(S) /\ Len(b) = n
      /\ \A i \in 1..n : b[i] = r[Len(r) - n + i]
  BY NewestElements
<1>2. /\ Len(r) \in Nat /\ Len(c) \in Nat
      /\ b \o c \in Seq(S) /\ r \o c \in Seq(S)
      /\ Len(b \o c) = m /\ Len(r \o c) = Len(r) + Len(c)
  <2> HIDE DEF b
  <2> QED
    BY <1>1, LenProperties, ConcatProperties
<1>3. m \in 0..Len(r \o c)
  BY <1>2
<1>4. /\ Newest(m, r \o c) \in Seq(S) /\ Len(Newest(m, r \o c)) = m
      /\ \A i \in 1..m : Newest(m, r \o c)[i] = (r \o c)[Len(r \o c) - m + i]
  BY <1>2, <1>3, NewestElements
<1>5. ASSUME NEW i \in 1..m PROVE (b \o c)[i] = Newest(m, r \o c)[i]
  <2> HIDE DEF b
  <2>1. (b \o c)[i] = IF i <= n THEN b[i] ELSE c[i - n]
    BY <1>1, <1>2, ConcatProperties
  <2>2. Len(r \o c) - m + i \in 1..Len(r) + Len(c)
    BY <1>2
  <2>3. (r \o c)[Len(r \o c) - m + i] =
          IF Len(r \o c) - m + i <= Len(r) THEN r[Len(r \o c) - m + i]
                                           ELSE c[Len(r \o c) - m + i - Len(r)]
    BY <2>2, ConcatProperties
  <2> QED
    BY <1>1, <1>2, <1>4, <2>1, <2>3
<1>6. b \o c = Newest(m, r \o c)
  <2> HIDE DEF b, m
  <2> QED
    BY <1>2, <1>4, <1>5, SeqEqual
<1> QED
  BY <1>3, <1>6

\* The newest units of the newest units.
LEMMA NewestOfNewest ==
    ASSUME NEW S, NEW b \in Seq(S), NEW r \in Seq(S),
           Len(b) <= Len(r), b = Newest(Len(b), r), NEW k \in 0..Len(b)
    PROVE  Newest(k, b) = Newest(k, r)
<1>1. Len(b) \in Nat /\ Len(r) \in Nat /\ k \in 0..Len(r)
  BY LenProperties
<1>2. /\ Newest(k, b) \in Seq(S) /\ Len(Newest(k, b)) = k
      /\ \A i \in 1..k : Newest(k, b)[i] = b[Len(b) - k + i]
  BY NewestElements
<1>3. /\ Newest(k, r) \in Seq(S) /\ Len(Newest(k, r)) = k
      /\ \A i \in 1..k : Newest(k, r)[i] = r[Len(r) - k + i]
  BY <1>1, NewestElements
<1>4. \A i \in 1..Len(b) : b[i] = r[Len(r) - Len(b) + i]
  <2>1. Len(b) \in 0..Len(r)
    BY <1>1
  <2>2. \A i \in 1..Len(b) : Newest(Len(b), r)[i] = r[Len(r) - Len(b) + i]
    BY <2>1, NewestElements
  <2> QED
    BY <2>2, Zenon
<1>5. ASSUME NEW i \in 1..k PROVE Newest(k, b)[i] = Newest(k, r)[i]
  <2> DEFINE j == Len(b) - k + i
  <2>1. j \in 1..Len(b) /\ Len(r) - Len(b) + j = Len(r) - k + i
    BY <1>1
  <2>2. b[j] = r[Len(r) - Len(b) + j]
    BY <1>4, <2>1
  <2> QED
    BY <1>2, <1>3, <2>1, <2>2
<1> QED
  BY <1>2, <1>3, <1>5, SeqEqual

\* The newest units of a concatenation are those of its second part.
LEMMA NewestOfConcat ==
    ASSUME NEW S, NEW a \in Seq(S), NEW b \in Seq(S), NEW k \in 0..Len(b)
    PROVE  k <= Len(a \o b) /\ Newest(k, a \o b) = Newest(k, b)
<1>1. /\ Len(a) \in Nat /\ Len(b) \in Nat /\ a \o b \in Seq(S)
      /\ Len(a \o b) = Len(a) + Len(b)
  BY LenProperties, ConcatProperties
<1>2. k \in 0..Len(a \o b)
  BY <1>1
<1>3. /\ Newest(k, a \o b) \in Seq(S) /\ Len(Newest(k, a \o b)) = k
      /\ \A i \in 1..k : Newest(k, a \o b)[i] = (a \o b)[Len(a \o b) - k + i]
  BY <1>1, <1>2, NewestElements
<1>4. /\ Newest(k, b) \in Seq(S) /\ Len(Newest(k, b)) = k
      /\ \A i \in 1..k : Newest(k, b)[i] = b[Len(b) - k + i]
  BY NewestElements
<1>5. ASSUME NEW i \in 1..k PROVE (a \o b)[Len(a \o b) - k + i] = b[Len(b) - k + i]
  <2> DEFINE j == Len(a \o b) - k + i
  <2>1. j \in 1..Len(a) + Len(b) /\ j > Len(a) /\ j - Len(a) = Len(b) - k + i
    BY <1>1
  <2>2. (a \o b)[j] = IF j <= Len(a) THEN a[j] ELSE b[j - Len(a)]
    <3> HIDE DEF j
    <3> QED
      BY <2>1, ConcatProperties
  <2> QED
    BY <1>1, <2>1, <2>2
<1>6. \A i \in 1..k : Newest(k, a \o b)[i] = Newest(k, b)[i]
  BY <1>3, <1>4, <1>5
<1>7. Newest(k, a \o b) = Newest(k, b)
  BY <1>3, <1>4, <1>6, SeqEqual
<1> QED
  BY <1>2, <1>7

\* Two sequences with the same newest n units still have them in common, and more,
\* when the same units are appended to both.
LEMMA CommonConcat ==
    ASSUME NEW S, NEW k \in Seq(S), NEW r \in Seq(S), NEW c \in Seq(S),
           NEW h \in Nat, h <= Len(k), h <= Len(r), Newest(h, k) = Newest(h, r),
           NEW g \in Nat, g <= h + Len(c)
    PROVE  /\ g <= Len(k \o c)
           /\ Newest(g, k \o c) = Newest(g, r \o c)
<1>1. /\ Len(k) \in Nat /\ Len(r) \in Nat /\ Len(c) \in Nat
      /\ k \o c \in Seq(S) /\ r \o c \in Seq(S)
      /\ Len(k \o c) = Len(k) + Len(c) /\ Len(r \o c) = Len(r) + Len(c)
  BY LenProperties, ConcatProperties
<1>2. g \in 0..Len(k \o c) /\ g \in 0..Len(r \o c) /\ h \in 0..Len(k) /\ h \in 0..Len(r)
  BY <1>1
<1>3. /\ Newest(g, k \o c) \in Seq(S) /\ Len(Newest(g, k \o c)) = g
      /\ \A i \in 1..g : Newest(g, k \o c)[i] = (k \o c)[Len(k \o c) - g + i]
  BY <1>1, <1>2, NewestElements
<1>4. /\ Newest(g, r \o c) \in Seq(S) /\ Len(Newest(g, r \o c)) = g
      /\ \A i \in 1..g : Newest(g, r \o c)[i] = (r \o c)[Len(r \o c) - g + i]
  BY <1>1, <1>2, NewestElements
<1>5. \A i \in 1..h : Newest(h, k)[i] = k[Len(k) - h + i]
  BY <1>2, NewestElements
<1>6. \A i \in 1..h : Newest(h, r)[i] = r[Len(r) - h + i]
  BY <1>2, NewestElements
<1>7. \A i \in 1..h : k[Len(k) - h + i] = r[Len(r) - h + i]
  BY <1>5, <1>6
<1>8. ASSUME NEW i \in 1..g PROVE Newest(g, k \o c)[i] = Newest(g, r \o c)[i]
  <2>1. /\ Len(k \o c) - g + i \in 1..Len(k) + Len(c)
        /\ Len(r \o c) - g + i \in 1..Len(r) + Len(c)
    BY <1>1, <1>2
  <2>2. (k \o c)[Len(k \o c) - g + i] =
          IF Len(k \o c) - g + i <= Len(k) THEN k[Len(k \o c) - g + i]
                                           ELSE c[Len(k \o c) - g + i - Len(k)]
    BY <2>1, ConcatProperties
  <2>3. (r \o c)[Len(r \o c) - g + i] =
          IF Len(r \o c) - g + i <= Len(r) THEN r[Len(r \o c) - g + i]
                                           ELSE c[Len(r \o c) - g + i - Len(r)]
    BY <2>1, ConcatProperties
  <2>4. CASE i <= g - Len(c)
    <3> DEFINE j == h - g + Len(c) + i
    <3>1. j \in 1..h
      BY <1>1, <2>4
    <3>2. k[Len(k) - h + j] = r[Len(r) - h + j]
      BY <1>7, <3>1
    <3>3. /\ Len(k) - h + j = Len(k \o c) - g + i
          /\ Len(r) - h + j = Len(r \o c) - g + i
      BY <1>1, <3>1
    <3> QED
      BY <1>1, <1>3, <1>4, <2>2, <2>3, <2>4, <3>2, <3>3, SMTT(30)
  <2>5. CASE i > g - Len(c)
    BY <1>1, <1>3, <1>4, <2>2, <2>3, <2>5
  <2> QED
    BY <1>1, <2>4, <2>5
<1> QED
  BY <1>2, <1>3, <1>4, <1>8, SeqEqual

-----------------------------------------------------------------------------
(* The inductive invariant                                                 *)

\* One read is at most the pump's read buffer.
ChunkBounded == \A p \in Pumps : Len(chunk[p]) <= MaxRead

IInv ==
    /\ TypeOK
    /\ ChunkBounded
    /\ BufferBounded
    /\ VisibleIsFlushed
    /\ BufferIsNewest
    /\ NoLossBelowLimit
    /\ NewestHalfKept

\* The trim keeps the newest TrimTo units, and half of the limit when it is called.
LEMMA TrimProperties ==
    ASSUME TypeOK
    PROVE  /\ TrimTo \in 0..Len(outputBuffer)
           /\ TrimTo <= MaxBuffer \div 2
           /\ Len(outputBuffer) >= MaxBuffer \div 2 => TrimTo = MaxBuffer \div 2
           /\ Trimmed = Newest(TrimTo, outputBuffer)
           /\ Trimmed \in Seq(Unit)
           /\ Len(Trimmed) = TrimTo
<1>1. Len(outputBuffer) \in Nat /\ MaxBuffer \div 2 \in Nat
  BY SizesAssumption, LenProperties DEF TypeOK
<1>2. TrimTo \in 0..Len(outputBuffer)
  BY <1>1 DEF TrimTo
<1>3. Trimmed = Newest(TrimTo, outputBuffer)
  BY DEF Trimmed, Newest
<1>4. /\ TrimTo <= MaxBuffer \div 2
      /\ Len(outputBuffer) >= MaxBuffer \div 2 => TrimTo = MaxBuffer \div 2
  BY <1>1 DEF TrimTo
<1>5. outputBuffer \in Seq(Unit)
  BY DEF TypeOK
<1>6. Newest(TrimTo, outputBuffer) \in Seq(Unit) /\ Len(Newest(TrimTo, outputBuffer)) = TrimTo
  BY <1>2, <1>5, NewestElements
<1> QED
  BY <1>2, <1>3, <1>4, <1>6

\* Every step keeps the variables in their types and the reads within theirs.
LEMMA TypeStep ==
    ASSUME TypeOK, ChunkBounded, [Next]_vars
    PROVE  TypeOK' /\ ChunkBounded'
<1> USE SizesAssumption DEF TypeOK, ChunkBounded, remoteVars, screenVars
<1>1. ASSUME NEW p \in Pumps, RemoteWrites(p) PROVE TypeOK' /\ ChunkBounded'
  BY <1>1 DEF RemoteWrites
<1>2. ASSUME NEW p \in Pumps, PumpLoops(p) PROVE TypeOK' /\ ChunkBounded'
  BY <1>2 DEF PumpLoops
<1>3. ASSUME NEW p \in Pumps, PumpReads(p) PROVE TypeOK' /\ ChunkBounded'
  <2>1. PICK n \in 1..MaxRead :
          /\ taken[p] + n <= written[p]
          /\ chunk' = [chunk EXCEPT ![p] = [i \in 1..n |-> <<p, taken[p] + i>>]]
          /\ taken' = [taken EXCEPT ![p] = @ + n]
    BY <1>3 DEF PumpReads
  <2> DEFINE c == [i \in 1..n |-> <<p, taken[p] + i>>]
  <2>2. c \in Seq(Unit) /\ Len(c) = n
    <3>1. \A i \in 1..n : taken[p] + i \in 1..MaxOutput[p]
      BY <2>1
    <3>2. \A i \in 1..n : c[i] \in {p} \X (1..MaxOutput[p])
      BY <3>1
    <3> QED
      BY <3>2 DEF Unit
  <2> HIDE DEF c
  <2>3. chunk' = [chunk EXCEPT ![p] = c]
    BY <2>1 DEF c
  <2>4. taken[p] + n \in Nat
    BY <2>1
  <2>5. /\ chunk' \in [Pumps -> Seq(Unit)]
        /\ \A q \in Pumps : Len(chunk'[q]) <= MaxRead
    BY <2>2, <2>3
  <2> QED
    BY <1>3, <2>1, <2>4, <2>5 DEF PumpReads
<1>4. ASSUME NEW p \in Pumps, PumpEnds(p) PROVE TypeOK' /\ ChunkBounded'
  BY <1>4 DEF PumpEnds
<1>5. ASSUME NEW p \in Pumps, PumpDelivers(p) PROVE TypeOK' /\ ChunkBounded'
  <2>1. chunk[p] \in Seq(Unit) /\ <<>> \in Seq(Unit) /\ Len(<<>>) = 0
    BY EmptySeq
  <2>2. /\ shown \o chunk[p] \in Seq(Unit)
        /\ outputBuffer \o chunk[p] \in Seq(Unit)
        /\ received \o chunk[p] \in Seq(Unit)
    BY <2>1, ConcatProperties
  <2>3. Trimmed \o chunk[p] \in Seq(Unit)
    BY <2>1, TrimProperties, ConcatProperties
  <2>4. /\ chunk' \in [Pumps -> Seq(Unit)]
        /\ \A q \in Pumps : Len(chunk'[q]) <= MaxRead
    BY <1>5, <2>1 DEF PumpDelivers
  <2> QED
    BY <1>5, <2>2, <2>3, <2>4 DEF PumpDelivers
<1>6. ASSUME RemoteExits PROVE TypeOK' /\ ChunkBounded'
  BY <1>6 DEF RemoteExits
<1>7. ASSUME Close PROVE TypeOK' /\ ChunkBounded'
  BY <1>7 DEF Close
<1>8. ASSUME NEW v \in BOOLEAN, SetVisible(v) PROVE TypeOK' /\ ChunkBounded'
  <2>1. shown \o outputBuffer \in Seq(Unit) /\ <<>> \in Seq(Unit)
    BY ConcatProperties, EmptySeq
  <2> QED
    BY <1>8, <2>1 DEF SetVisible
<1>9. CASE UNCHANGED vars
  BY <1>9 DEF vars
<1> QED
  BY <1>1, <1>2, <1>3, <1>4, <1>5, <1>6, <1>7, <1>8, <1>9 DEF Next, readPump

\* Only the two critical sections of the bridge touch the screen and the buffer.
LEMMA QuietStep ==
    ASSUME [Next]_vars,
           \A p \in Pumps : ~PumpDelivers(p),
           \A v \in BOOLEAN : ~SetVisible(v)
    PROVE  UNCHANGED screenVars
BY DEF Next, readPump, RemoteWrites, RemoteExits, Close, PumpLoops, PumpReads, PumpEnds,
       screenVars, vars

\* SetVisible moves the whole buffer to the screen, or nothing.
LEMMA VisibleStep ==
    ASSUME IInv, NEW v \in BOOLEAN, SetVisible(v)
    PROVE  /\ BufferBounded' /\ VisibleIsFlushed' /\ BufferIsNewest'
           /\ NoLossBelowLimit' /\ NewestHalfKept'
<1> USE SizesAssumption
<1>1. /\ shown \in Seq(Unit) /\ outputBuffer \in Seq(Unit) /\ received \in Seq(Unit)
      /\ Len(received) \in Nat /\ Len(outputBuffer) \in Nat
  BY LenProperties DEF IInv, TypeOK
<1>2. shown' \o outputBuffer' = shown \o outputBuffer /\ received' = received
  <2>1. (shown \o outputBuffer) \o <<>> = shown \o outputBuffer
    BY <1>1, ConcatProperties, ConcatEmptySeq
  <2> QED
    BY <2>1 DEF SetVisible
<1>3. NoLossBelowLimit' /\ NewestHalfKept'
  BY <1>2 DEF IInv, NoLossBelowLimit, NewestHalfKept
<1>4. VisibleIsFlushed'
  BY DEF SetVisible, VisibleIsFlushed, IInv
<1>5. CASE outputBuffer' = outputBuffer
  BY <1>2, <1>3, <1>4, <1>5 DEF IInv, BufferBounded, BufferIsNewest
<1>6. CASE outputBuffer' = <<>>
  <2>1. Len(<<>>) = 0 /\ Newest(0, received) = <<>>
    BY <1>1, SubSeqEmpty DEF Newest
  <2> QED
    BY <1>1, <1>2, <1>3, <1>4, <1>6, <2>1 DEF BufferBounded, BufferIsNewest
<1> QED
  BY <1>5, <1>6 DEF SetVisible

\* A delivery to a visible tab, or into the buffer.
LEMMA DeliverStep ==
    ASSUME IInv, NEW p \in Pumps, PumpDelivers(p)
    PROVE  /\ BufferBounded' /\ VisibleIsFlushed' /\ BufferIsNewest'
           /\ NoLossBelowLimit' /\ NewestHalfKept'
<1> DEFINE c == chunk[p]
           kept == shown \o outputBuffer
           half == MaxBuffer \div 2
           Held(r) == IF Len(r) < half THEN Len(r) ELSE half
<1>1. /\ shown \in Seq(Unit) /\ outputBuffer \in Seq(Unit) /\ received \in Seq(Unit)
      /\ c \in Seq(Unit) /\ kept \in Seq(Unit)
      /\ Len(c) <= MaxRead
  BY ConcatProperties DEF IInv, TypeOK, ChunkBounded
<1>2. /\ Len(received) \in Nat /\ Len(outputBuffer) \in Nat /\ Len(c) \in Nat
      /\ Len(kept) \in Nat /\ half \in Nat /\ MaxBuffer \in Nat /\ MaxRead \in Nat
      /\ MaxRead + half <= MaxBuffer
  BY <1>1, LenProperties, SizesAssumption
<1>3. received' = received \o c /\ visible' = visible
  BY DEF PumpDelivers
<1>4. Len(received \o c) = Len(received) + Len(c)
  BY <1>1, ConcatProperties
<1>5. /\ Held(received) <= Len(kept)
      /\ Held(received) <= Len(received)
      /\ Newest(Held(received), kept) = Newest(Held(received), received)
  BY <1>2 DEF IInv, NewestHalfKept
<1>6. ASSUME shown' \o outputBuffer' = kept \o c
      PROVE  NoLossBelowLimit' /\ NewestHalfKept'
  <2>1. ASSUME Len(received') <= MaxBuffer PROVE shown' \o outputBuffer' = received'
    <3>1. Len(received) <= MaxBuffer
      <4> HIDE DEF c, half
      <4> QED
        BY <1>2, <1>3, <1>4, <2>1
    <3>2. kept = received
      BY <3>1 DEF IInv, NoLossBelowLimit
    <3> QED
      BY <1>3, <1>6, <3>2
  <2> DEFINE g == Held(received \o c)
  <2>2. g \in Nat /\ g <= Held(received) + Len(c) /\ Held(received) \in Nat
    <3> HIDE DEF c, half
    <3> QED
      BY <1>2, <1>4
  <2>3. g <= Len(kept \o c) /\ Newest(g, kept \o c) = Newest(g, received \o c)
    <3> HIDE DEF g, Held, c, kept
    <3> QED
      BY <1>1, <1>5, <2>2, CommonConcat
  <2> QED
    BY <1>3, <1>6, <2>1, <2>3 DEF NewestHalfKept, NoLossBelowLimit
<1>7. CASE visible
  <2>1. outputBuffer = <<>> /\ outputBuffer' = <<>> /\ shown' = shown \o c
    BY <1>7 DEF PumpDelivers, IInv, VisibleIsFlushed
  <2>2. shown' \o outputBuffer' = kept \o c
    BY <1>1, <2>1, ConcatProperties, ConcatEmptySeq
  <2>3. Len(<<>>) = 0 /\ Newest(0, received \o c) = <<>>
    BY <1>2, <1>4, SubSeqEmpty DEF Newest
  <2>4. BufferBounded' /\ VisibleIsFlushed' /\ BufferIsNewest'
    BY <1>2, <1>3, <1>4, <2>1, <2>3 DEF BufferBounded, VisibleIsFlushed, BufferIsNewest
  <2> QED
    BY <1>6, <2>2, <2>4
<1>8. CASE ~visible /\ Fits(c)
  <2>1. outputBuffer' = outputBuffer \o c /\ shown' = shown
    BY <1>8 DEF PumpDelivers
  <2>2. shown' \o outputBuffer' = kept \o c
    <3>1. (shown \o outputBuffer) \o c = shown \o (outputBuffer \o c)
      <4>1. \A s, q, u \in Seq(Unit) : (s \o q) \o u = s \o (q \o u)
        BY ConcatAssociative
      <4> HIDE DEF c
      <4> QED
        BY <1>1, <4>1, SMTT(30)
    <3> QED
      BY <2>1, <3>1
  <2>3. Len(outputBuffer \o c) = Len(outputBuffer) + Len(c)
    BY <1>1, ConcatProperties
  <2>4. BufferBounded' /\ VisibleIsFlushed'
    BY <1>3, <1>8, <2>1, <2>3 DEF BufferBounded, VisibleIsFlushed, Fits
  <2>5. BufferIsNewest'
    <3>1. Len(outputBuffer) <= Len(received) /\ outputBuffer = Newest(Len(outputBuffer), received)
      BY DEF IInv, BufferIsNewest
    <3>2. /\ Len(outputBuffer) + Len(c) <= Len(received \o c)
          /\ Newest(Len(outputBuffer), received) \o c
               = Newest(Len(outputBuffer) + Len(c), received \o c)
      <4>1. Len(outputBuffer) \in 0..Len(received)
        BY <1>2, <3>1
      <4> HIDE DEF c
      <4> QED
        BY <1>1, <4>1, NewestConcat
    <3> QED
      BY <1>3, <2>1, <2>3, <3>1, <3>2 DEF BufferIsNewest
  <2> QED
    BY <1>6, <2>2, <2>4, <2>5
<1>9. CASE ~visible /\ ~Fits(c)
  <2>1. outputBuffer' = Trimmed \o c /\ shown' = shown
    BY <1>9 DEF PumpDelivers
  <2>2. /\ TrimTo = half /\ half <= Len(outputBuffer)
        /\ Trimmed = Newest(half, outputBuffer)
        /\ Trimmed \in Seq(Unit) /\ Len(Trimmed) = half
    BY <1>1, <1>2, <1>9, TrimProperties, SMTT(30) DEF IInv, Fits
  <2>3. Len(Trimmed \o c) = half + Len(c)
    BY <1>1, <2>2, ConcatProperties
  <2>4. BufferBounded' /\ VisibleIsFlushed'
    <3>1. half + Len(c) <= MaxBuffer
      <4> HIDE DEF c, half
      <4> QED
        BY <1>1, <1>2
    <3> QED
      BY <1>3, <1>9, <2>1, <2>3, <3>1 DEF BufferBounded, VisibleIsFlushed
  <2>5. Len(outputBuffer) <= Len(received)
    BY DEF IInv, BufferIsNewest
  <2>6. Trimmed = Newest(half, received)
    BY <1>1, <1>2, <2>2, NewestOfNewest DEF IInv, BufferIsNewest
  <2>7. /\ Len(Trimmed \o c) <= Len(received \o c)
        /\ Trimmed \o c = Newest(Len(Trimmed \o c), received \o c)
    <3>1. half \in 0..Len(received)
      BY <1>1, <1>2, <2>2, <2>5
    <3>2. /\ half + Len(c) <= Len(received \o c)
          /\ Newest(half, received) \o c = Newest(half + Len(c), received \o c)
      <4> HIDE DEF c, half
      <4> QED
        BY <1>1, <3>1, NewestConcat
    <3> QED
      BY <2>3, <2>6, <3>2
  <2>8. BufferIsNewest'
    BY <1>3, <2>1, <2>7 DEF BufferIsNewest
  <2>9. NoLossBelowLimit'
    BY <1>2, <1>3, <1>4, <1>9, <2>5 DEF NoLossBelowLimit, Fits
  <2>10. NewestHalfKept'
    <3> DEFINE b == Trimmed \o c
               r == received \o c
               g == Held(r)
    <3>1. b \in Seq(Unit) /\ r \in Seq(Unit) /\ g \in 0..Len(b)
      <4>1. b \in Seq(Unit) /\ r \in Seq(Unit)
        BY <1>1, <2>2, ConcatProperties
      <4> HIDE DEF c, half
      <4> QED
        BY <1>2, <1>4, <2>3, <4>1
    <3>2. Newest(g, b) = Newest(g, r)
      <4> HIDE DEF b, r, g
      <4> QED
        BY <2>7, <3>1, NewestOfNewest DEF b, r
    <3>3. g <= Len(shown \o b) /\ Newest(g, shown \o b) = Newest(g, b)
      <4> HIDE DEF b, r, g
      <4> QED
        BY <1>1, <3>1, NewestOfConcat
    <3> QED
      BY <1>3, <2>1, <3>2, <3>3 DEF NewestHalfKept
  <2> QED
    BY <2>4, <2>8, <2>9, <2>10
<1> QED
  BY <1>7, <1>8, <1>9

-----------------------------------------------------------------------------
(* The theorems                                                            *)

\* The invariant holds before the first read.
LEMMA InitIInv == Init => IInv
<1> SUFFICES ASSUME Init PROVE IInv
  OBVIOUS
<1> USE SizesAssumption
<1>0. 0 <= MaxRead /\ 0 <= MaxBuffer /\ \A p \in Pumps : 0 <= MaxOutput[p]
  BY DEF SizesAssumption
<1>1. <<>> \in Seq(Unit) /\ Len(<<>>) = 0 /\ <<>> \o <<>> = <<>>
  BY EmptySeq, ConcatEmptySeq
<1>2. TypeOK /\ ChunkBounded
  <2>1. chunk \in [Pumps -> Seq(Unit)]
    BY <1>1 DEF Init
  <2>2. \A p \in Pumps : Len(chunk[p]) = 0
    BY <1>1 DEF Init
  <2>3. outputBuffer \in Seq(Unit) /\ shown \in Seq(Unit) /\ received \in Seq(Unit)
    BY <1>1 DEF Init
  <2>4. /\ written \in [Pumps -> Nat] /\ \A p \in Pumps : written[p] <= MaxOutput[p]
        /\ taken \in [Pumps -> Nat]
        /\ exited \in BOOLEAN /\ visible \in BOOLEAN
        /\ context \in {"live", "wait", "user"}
        /\ pump \in [Pumps -> {"loop", "read", "deliver", "done"}]
    BY <1>0 DEF Init
  <2>5. TypeOK
    BY <2>1, <2>3, <2>4 DEF TypeOK
  <2>6. ChunkBounded
    BY <1>0, <2>2 DEF ChunkBounded
  <2> QED
    BY <2>5, <2>6
<1>3. BufferBounded /\ VisibleIsFlushed /\ NoLossBelowLimit
  BY <1>1 DEF Init, BufferBounded, VisibleIsFlushed, NoLossBelowLimit
<1>4. BufferIsNewest /\ NewestHalfKept
  <2>1. Newest(0, <<>>) = <<>>
    BY <1>1, SubSeqEmpty DEF Newest
  <2>2. BufferIsNewest
    BY <1>1, <2>1 DEF Init, BufferIsNewest
  <2>3. NewestHalfKept
    BY <1>1 DEF Init, NewestHalfKept
  <2> QED
    BY <2>2, <2>3
<1> QED
  BY <1>2, <1>3, <1>4 DEF IInv

\* Every step preserves the invariant.
LEMMA StepIInv == IInv /\ [Next]_vars => IInv'
<1> SUFFICES ASSUME IInv, [Next]_vars PROVE IInv'
  OBVIOUS
<1>1. TypeOK' /\ ChunkBounded'
  BY TypeStep DEF IInv
<1>2. /\ BufferBounded' /\ VisibleIsFlushed' /\ BufferIsNewest'
      /\ NoLossBelowLimit' /\ NewestHalfKept'
  <2>1. CASE \E p \in Pumps : PumpDelivers(p)
    BY <2>1, DeliverStep
  <2>2. CASE \E v \in BOOLEAN : SetVisible(v)
    BY <2>2, VisibleStep
  <2>3. CASE UNCHANGED screenVars
    BY <2>3 DEF screenVars, IInv, BufferBounded, VisibleIsFlushed, BufferIsNewest,
                NoLossBelowLimit, NewestHalfKept
  <2> QED
    BY <2>1, <2>2, <2>3, QuietStep
<1> QED
  BY <1>1, <1>2 DEF IInv

\* IInv holds in every reachable state of a bridge.
THEOREM Invariance == Spec => []IInv
  BY InitIInv, StepIInv, PTL DEF Spec

\* Every variable of the bridge keeps its type.
THEOREM TypesOfBridge == Spec => []TypeOK
  BY Invariance, PTL DEF IInv

\* The hidden output stays within maxBufferSize.
THEOREM BufferStaysBounded == Spec => []BufferBounded
  BY Invariance, PTL DEF IInv

\* A visible tab has nothing buffered.
THEOREM VisibleTabsAreFlushed == Spec => []VisibleIsFlushed
  BY Invariance, PTL DEF IInv

\* The hidden output is the newest output, without gaps.
THEOREM BufferHoldsNewest == Spec => []BufferIsNewest
  BY Invariance, PTL DEF IInv

\* Below the limit the screen and the hidden output are what was received.
THEOREM NothingLostBelowLimit == Spec => []NoLossBelowLimit
  BY Invariance, PTL DEF IInv

\* The newest half-buffer of output is never lost.
THEOREM NewestHalfSurvives == Spec => []NewestHalfKept
  BY Invariance, PTL DEF IInv

-----------------------------------------------------------------------------
(* Lemmas about stretches of a sequence                                     *)

\* A stretch of s is the same stretch of what s grows to.
LEMMA StretchOfConcat ==
    ASSUME NEW S, NEW s \in Seq(S), NEW c \in Seq(S),
           NEW n \in 0..Len(s), NEW a \in 0..n
    PROVE  SubSeq(s \o c, a + 1, n) = SubSeq(s, a + 1, n)
<1>1. Len(s) \in Nat
  BY LenProperties
<1>2. CASE a = n
  BY <1>1, <1>2, SubSeqEmpty
<1>3. CASE a < n
  BY <1>1, <1>3, SubSeqOfConcat1
<1> QED
  BY <1>1, <1>2, <1>3

\* What follows s in s \o c is c.
LEMMA RestOfConcat ==
    ASSUME NEW S, NEW s \in Seq(S), NEW c \in Seq(S)
    PROVE  SubSeq(s \o c, Len(s) + 1, Len(s) + Len(c)) = c
<1>1. Len(s) \in Nat /\ Len(c) \in Nat
  BY LenProperties
<1>2. CASE Len(c) = 0
  BY <1>1, <1>2, SubSeqEmpty, EmptySeq
<1>3. CASE Len(c) > 0
  <2>1. /\ Len(s) + 1 \in Len(s) + 1 .. Len(s) + Len(c)
        /\ Len(s) + Len(c) \in Len(s) + 1 .. Len(s) + Len(c)
    BY <1>1, <1>3
  <2>2. SubSeq(s \o c, Len(s) + 1, Len(s) + Len(c))
          = SubSeq(c, (Len(s) + 1) - Len(s), (Len(s) + Len(c)) - Len(s))
    BY <2>1, SubSeqOfConcat2
  <2>3. (Len(s) + 1) - Len(s) = 1 /\ (Len(s) + Len(c)) - Len(s) = Len(c)
    BY <1>1
  <2> QED
    BY <2>2, <2>3, SubSeqFull
<1> QED
  BY <1>1, <1>2, <1>3

-----------------------------------------------------------------------------
(* Lemmas about whole characters                                            *)

\* A character that is whole in s is whole in what s grows to; cuts at the end of s and
\* behind it do not matter.
LEMMA WholeLeft ==
    ASSUME NEW s \in Seq(Unit), NEW c \in Seq(Unit), NEW cuts, NEW behind \in SUBSET Nat,
           \A k \in behind : k >= Len(s),
           NEW i \in 1..Len(s), Whole(s, cuts, i)
    PROVE  Whole(s \o c, cuts \cup behind, i)
<1>1. PICK a \in 1..i, b \in i..Len(s) :
        /\ Starts(s[a]) /\ s[b] \notin Joined
        /\ \A k \in a..(b - 1) : s[k] \in Joined /\ s[k + 1] = Succ(s[k]) /\ k \notin cuts
  BY DEF Whole
<1>2. Len(s) \in Nat /\ Len(c) \in Nat /\ Len(s \o c) = Len(s) + Len(c)
  BY LenProperties, ConcatProperties
<1>3. \A k \in 1..Len(s) : (s \o c)[k] = s[k]
  BY <1>2, ConcatProperties
<1>4. a \in 1..i /\ b \in i..Len(s \o c) /\ a \in 1..Len(s) /\ b \in 1..Len(s)
  BY <1>2
<1>5. \A k \in a..(b - 1) : k \in 1..Len(s) /\ k + 1 \in 1..Len(s) /\ k \notin behind
  BY <1>2, <1>4
<1> QED
  BY <1>1, <1>3, <1>4, <1>5 DEF Whole

\* A character that is whole in c is whole in what c is appended to, if no cut goes
\* through c.
LEMMA WholeRight ==
    ASSUME NEW s \in Seq(Unit), NEW c \in Seq(Unit), NEW cuts \in SUBSET Nat,
           \A k \in cuts : k <= Len(s) \/ k >= Len(s) + Len(c),
           NEW i \in 1..Len(c), Whole(c, {}, i)
    PROVE  Whole(s \o c, cuts, Len(s) + i)
<1> DEFINE m == Len(s)
<1>1. PICK a \in 1..i, b \in i..Len(c) :
        /\ Starts(c[a]) /\ c[b] \notin Joined
        /\ \A k \in a..(b - 1) : c[k] \in Joined /\ c[k + 1] = Succ(c[k])
  BY DEF Whole
<1>2. m \in Nat /\ Len(c) \in Nat /\ Len(s \o c) = m + Len(c)
  BY LenProperties, ConcatProperties
<1>3. \A k \in m + 1 .. m + Len(c) : (s \o c)[k] = c[k - m]
  BY <1>2, ConcatProperties
<1>4. /\ m + a \in 1..(m + i) /\ m + b \in (m + i)..Len(s \o c)
      /\ m + a \in m + 1 .. m + Len(c) /\ m + b \in m + 1 .. m + Len(c)
      /\ (m + a) - m = a /\ (m + b) - m = b
  BY <1>2
<1>5. Starts((s \o c)[m + a]) /\ (s \o c)[m + b] \notin Joined
  BY <1>1, <1>3, <1>4
<1>6. ASSUME NEW k \in (m + a)..(m + b - 1)
      PROVE  (s \o c)[k] \in Joined /\ (s \o c)[k + 1] = Succ((s \o c)[k]) /\ k \notin cuts
  <2>1. /\ k \in m + 1 .. m + Len(c) /\ k + 1 \in m + 1 .. m + Len(c)
        /\ k - m \in a..(b - 1) /\ (k + 1) - m = (k - m) + 1
    BY <1>2
  <2>2. k \notin cuts
    BY <1>2
  <2>3. (s \o c)[k] = c[k - m] /\ (s \o c)[k + 1] = c[(k - m) + 1]
    BY <1>3, <2>1
  <2> QED
    BY <1>1, <2>1, <2>2, <2>3
<1> DEFINE x == m + a
           y == m + b
<1>7. /\ x \in 1..(Len(s) + i) /\ y \in (Len(s) + i)..Len(s \o c)
      /\ Starts((s \o c)[x]) /\ (s \o c)[y] \notin Joined
      /\ \A k \in x..(y - 1) :
            (s \o c)[k] \in Joined /\ (s \o c)[k + 1] = Succ((s \o c)[k]) /\ k \notin cuts
  BY <1>4, <1>5, <1>6
<1> QED
  <2> HIDE DEF x, y
  <2> QED
    BY <1>7 DEF Whole

\* Fewer cuts leave whole what was whole.
LEMMA WholeFewer ==
    ASSUME NEW s, NEW i, NEW cuts, NEW fewer \in SUBSET cuts, Whole(s, cuts, i)
    PROVE  Whole(s, fewer, i)
BY DEF Whole

-----------------------------------------------------------------------------
(* The inductive invariant                                                  *)

\* While the bridge's events are listened for: a unit whose character came in one read is
\* whole in its chunk, in the buffer and in its event, and was shown as it is.
Listening == mount # "gone" /\ Len(received) <= MaxBuffer

WholeUnlessTorn(s, cuts, from) ==
    \A i \in from..Len(s) : s[i] \in torn \/ Whole(s, cuts, i)

ScreenIsStretch ==
    /\ \A n \in ends : n > delivered
    /\ mount = "open" => Len(screen) = delivered - first
    /\ mount = "open" /\ Listening =>
          \A i \in 1..Len(screen) :
              \/ screen[i] = shown[first + i]
              \/ screen[i] = Damaged /\ shown[first + i] \in torn

CharactersInv ==
    /\ mount # "gone" => \A p \in Pumps : WholeUnlessTorn(chunk[p], {}, 1)
    /\ Listening => /\ WholeUnlessTorn(outputBuffer, {}, 1)
                    /\ WholeUnlessTorn(shown, ends \cup {delivered}, delivered + 1)

ScreenInv == IInv /\ ScreenTypeOK /\ ScreenIsStretch /\ CharactersInv

\* What is known of the numbers and sequences of the terminal.
LEMMA ScreenTypes ==
    ASSUME ScreenInv
    PROVE  /\ shown \in Seq(Unit) /\ outputBuffer \in Seq(Unit) /\ received \in Seq(Unit)
           /\ \A p \in Pumps : chunk[p] \in Seq(Unit)
           /\ Len(shown) \in Nat /\ Len(outputBuffer) \in Nat /\ Len(received) \in Nat
           /\ MaxBuffer \in Nat /\ delivered \in Nat /\ delivered <= Len(shown)
           /\ first \in 0..delivered /\ ends \in SUBSET (1..Len(shown))
<1>1. /\ shown \in Seq(Unit) /\ outputBuffer \in Seq(Unit) /\ received \in Seq(Unit)
      /\ \A p \in Pumps : chunk[p] \in Seq(Unit)
  BY DEF ScreenInv, IInv, TypeOK
<1>2. Len(shown) \in Nat /\ Len(outputBuffer) \in Nat /\ Len(received) \in Nat
  BY <1>1, LenProperties
<1> QED
  BY <1>1, <1>2, SizesAssumption DEF ScreenInv, ScreenTypeOK

\* A step of the bridge adds to the emitted output, if anything, the whole buffer or one
\* chunk, and to the buffer one chunk; unless the limit is exceeded.
LEMMA BridgeEffect ==
    ASSUME IInv, [Next]_vars, Len(received') <= MaxBuffer
    PROVE  /\ Len(received) <= MaxBuffer
           /\ \/ UNCHANGED <<shown, outputBuffer>>
              \/ shown' = shown \o outputBuffer /\ outputBuffer' = <<>>
              \/ \E p \in Pumps : shown' = shown \o chunk[p] /\ UNCHANGED outputBuffer
              \/ \E p \in Pumps : UNCHANGED shown /\ outputBuffer' = outputBuffer \o chunk[p]
<1>1. /\ received \in Seq(Unit) /\ Len(received) \in Nat /\ Len(outputBuffer) \in Nat
      /\ \A p \in Pumps : chunk[p] \in Seq(Unit)
      /\ Len(outputBuffer) <= Len(received)
  BY LenProperties DEF IInv, TypeOK, BufferIsNewest
<1>2. ASSUME NEW p \in Pumps, PumpDelivers(p)
      PROVE  Len(received) + Len(chunk[p]) <= MaxBuffer /\ Len(chunk[p]) \in Nat
  <2>1. Len(received \o chunk[p]) = Len(received) + Len(chunk[p])
    BY <1>1, ConcatProperties
  <2> QED
    BY <1>1, <1>2, <2>1, LenProperties DEF PumpDelivers
<1>3. CASE \E p \in Pumps : PumpDelivers(p)
  <2>1. PICK p \in Pumps : PumpDelivers(p)
    BY <1>3
  <2>2. Len(received) <= MaxBuffer /\ Fits(chunk[p])
    BY <1>1, <1>2, <2>1, SizesAssumption DEF Fits
  <2> QED
    BY <2>1, <2>2 DEF PumpDelivers
<1>4. CASE \E v \in BOOLEAN : SetVisible(v)
  BY <1>4 DEF SetVisible
<1>5. CASE UNCHANGED screenVars
  BY <1>5 DEF screenVars
<1> QED
  BY <1>3, <1>4, <1>5, QuietStep

\* A step of the bridge leaves what was emitted alone or adds to it.
LEMMA ShownGrows ==
    ASSUME IInv, [Next]_vars
    PROVE  \E c \in Seq(Unit) : shown' = shown \o c
<1>1. /\ shown \in Seq(Unit) /\ outputBuffer \in Seq(Unit)
      /\ \A p \in Pumps : chunk[p] \in Seq(Unit)
  BY DEF IInv, TypeOK
<1>2. <<>> \in Seq(Unit) /\ shown \o <<>> = shown
  BY <1>1, EmptySeq, ConcatEmptySeq
<1>3. CASE \E p \in Pumps : PumpDelivers(p)
  BY <1>1, <1>2, <1>3 DEF PumpDelivers
<1>4. CASE \E v \in BOOLEAN : SetVisible(v)
  BY <1>1, <1>2, <1>4 DEF SetVisible
<1>5. CASE UNCHANGED screenVars
  BY <1>2, <1>5 DEF screenVars
<1> QED
  BY <1>3, <1>4, <1>5, QuietStep

\* Characters that are whole in s and in c are whole in what c is appended to, where the
\* only new cut is at the end of the whole.
LEMMA WholeConcat ==
    ASSUME NEW s \in Seq(Unit), NEW c \in Seq(Unit), NEW cuts \in SUBSET (0..Len(s)),
           NEW from \in 1..Len(s) + 1, NEW new \in SUBSET {Len(s) + Len(c)},
           WholeUnlessTorn(s, cuts, from), WholeUnlessTorn(c, {}, 1)
    PROVE  WholeUnlessTorn(s \o c, cuts \cup new, from)
<1>1. Len(s) \in Nat /\ Len(c) \in Nat /\ Len(s \o c) = Len(s) + Len(c)
  BY LenProperties, ConcatProperties
<1> SUFFICES ASSUME NEW i \in from..Len(s \o c), (s \o c)[i] \notin torn
             PROVE  Whole(s \o c, cuts \cup new, i)
  BY DEF WholeUnlessTorn
<1>2. CASE i <= Len(s)
  <2>1. i \in 1..Len(s) /\ i \in from..Len(s) /\ (s \o c)[i] = s[i]
    BY <1>1, <1>2, ConcatProperties
  <2>2. Whole(s, cuts, i)
    BY <2>1 DEF WholeUnlessTorn
  <2>3. new \in SUBSET Nat /\ \A k \in new : k >= Len(s)
    BY <1>1
  <2> QED
    BY <2>1, <2>2, <2>3, WholeLeft
<1>3. CASE i > Len(s)
  <2> DEFINE j == i - Len(s)
  <2>1. j \in 1..Len(c) /\ Len(s) + j = i /\ (s \o c)[i] = c[j]
    BY <1>1, <1>3, ConcatProperties
  <2>2. Whole(c, {}, j)
    BY <2>1 DEF WholeUnlessTorn
  <2>3. /\ cuts \cup new \in SUBSET Nat
        /\ \A k \in cuts \cup new : k <= Len(s) \/ k >= Len(s) + Len(c)
    BY <1>1
  <2> HIDE DEF j
  <2>4. Whole(s \o c, cuts \cup new, Len(s) + j)
    BY <2>1, <2>2, <2>3, WholeRight
  <2> QED
    BY <2>1, <2>4
<1> QED
  BY <1>1, <1>2, <1>3

\* A step of the bridge keeps whole what is whole, and moves nothing that is shown.
LEMMA BridgeStep ==
    ASSUME ScreenInv, BridgeSteps, IInv'
    PROVE  ScreenTypeOK' /\ ScreenIsStretch' /\ CharactersInv'
<1> USE CharactersAssumption
<1>1. /\ [Next]_vars
      /\ ends' = IF mount = "gone" THEN {} ELSE ends \cup ({Len(shown')} \ {Len(shown)})
      /\ torn' = IF mount = "gone" THEN {} ELSE torn \cup UNION {Torn(chunk'[p]) : p \in Pumps}
      /\ mount' = mount /\ delivered' = delivered /\ screen' = screen /\ first' = first
  BY DEF BridgeSteps, terminalVars
<1>2. PICK c \in Seq(Unit) : shown' = shown \o c
  BY <1>1, ShownGrows DEF ScreenInv
<1>3. /\ Len(shown') = Len(shown) + Len(c) /\ Len(c) \in Nat
      /\ \A i \in 1..Len(shown) : shown'[i] = shown[i]
  BY <1>2, ScreenTypes, ConcatProperties, LenProperties
<1>4. mount # "gone" => torn \subseteq torn'
  BY <1>1
<1>5. ScreenTypeOK'
  <2>1. torn' \in SUBSET Unit
    <3>1. \A p \in Pumps : Torn(chunk'[p]) \subseteq Unit
      <4>1. \A p \in Pumps : \A i \in 1..Len(chunk'[p]) : chunk'[p][i] \in Unit
        BY ElementOfSeq DEF IInv, TypeOK
      <4> QED
        BY <4>1 DEF Torn
    <3> QED
      BY <1>1, <3>1 DEF ScreenInv, ScreenTypeOK
  <2>2. ends' \in SUBSET (1..Len(shown'))
    BY <1>1, <1>3, ScreenTypes
  <2>3. delivered' \in 0..Len(shown')
    BY <1>1, <1>3, ScreenTypes
  <2> QED
    BY <1>1, <2>1, <2>2, <2>3 DEF ScreenInv, ScreenTypeOK
<1>6. Len(received') <= MaxBuffer => Len(received) <= MaxBuffer
  BY <1>1, BridgeEffect DEF ScreenInv
<1>7. ScreenIsStretch'
  <2>1. \A n \in ends' : n > delivered'
    BY <1>1, <1>3, ScreenTypes DEF ScreenInv, ScreenIsStretch
  <2>2. ASSUME mount = "open" PROVE Len(screen') = delivered' - first'
    BY <1>1, <2>2 DEF ScreenInv, ScreenIsStretch
  <2>3. ASSUME mount' = "open", Listening', NEW i \in 1..Len(screen')
        PROVE  \/ screen'[i] = shown'[first' + i]
               \/ screen'[i] = Damaged /\ shown'[first' + i] \in torn'
    <3>1. mount = "open" /\ Listening
      BY <1>1, <1>6, <2>3 DEF Listening
    <3>2. first + i \in 1..Len(shown) /\ i \in 1..Len(screen)
      BY <1>1, <2>3, <3>1, ScreenTypes DEF ScreenInv, ScreenIsStretch
    <3>3. shown'[first' + i] = shown[first + i]
      BY <1>1, <1>3, <3>2
    <3> QED
      BY <1>1, <1>4, <3>1, <3>2, <3>3 DEF ScreenInv, ScreenIsStretch
  <2> QED
    BY <1>1, <2>1, <2>2, <2>3 DEF ScreenIsStretch
<1>8. ASSUME mount # "gone", NEW p \in Pumps
      PROVE  WholeUnlessTorn(chunk[p], {}, 1)'
  <2>1. \A i \in 1..Len(chunk'[p]) : chunk'[p][i] \in Torn(chunk'[p]) \/ Whole(chunk'[p], {}, i)
    BY DEF Torn
  <2>2. Torn(chunk'[p]) \subseteq torn'
    BY <1>1, <1>8
  <2> QED
    BY <2>1, <2>2 DEF WholeUnlessTorn
<1>9. ASSUME Listening'
      PROVE  /\ WholeUnlessTorn(outputBuffer, {}, 1)'
             /\ WholeUnlessTorn(shown, ends \cup {delivered}, delivered + 1)'
  <2> DEFINE cuts == ends \cup {delivered}
             new == {Len(shown')} \ {Len(shown)}
  <2>1. /\ mount # "gone" /\ Listening
        /\ Len(received') <= MaxBuffer
        /\ ends' \cup {delivered'} = cuts \cup new
        /\ torn \subseteq torn'
    BY <1>1, <1>4, <1>6, <1>9 DEF Listening
  <2>2. /\ WholeUnlessTorn(outputBuffer, {}, 1)
        /\ WholeUnlessTorn(shown, cuts, delivered + 1)
        /\ \A p \in Pumps : WholeUnlessTorn(chunk[p], {}, 1)
    BY <2>1 DEF ScreenInv, CharactersInv
  <2>3. /\ WholeUnlessTorn(outputBuffer', {}, 1)
        /\ WholeUnlessTorn(shown', cuts \cup new, delivered + 1)
    <3>1. cuts \in SUBSET (0..Len(shown)) /\ delivered + 1 \in 1..Len(shown) + 1
      BY ScreenTypes
    <3>2. new \in SUBSET {Len(shown) + Len(c)}
      BY <1>3
    <3>3. ASSUME WholeUnlessTorn(c, {}, 1)
          PROVE  WholeUnlessTorn(shown', cuts \cup new, delivered + 1)
      <4> HIDE DEF cuts, new
      <4> QED
        BY <1>2, <2>2, <3>1, <3>2, <3>3, ScreenTypes, WholeConcat
    <3>4. ASSUME NEW d \in Seq(Unit), shown' = shown \o d
          PROVE  c = d
      BY <1>2, <3>4, ScreenTypes, ConcatSimplifications
    <3>5. CASE UNCHANGED <<shown, outputBuffer>>
      <4>1. cuts \cup new = cuts
        BY <3>5
      <4> QED
        BY <2>2, <3>5, <4>1
    <3>6. CASE shown' = shown \o outputBuffer /\ outputBuffer' = <<>>
      <4>1. WholeUnlessTorn(<<>>, {}, 1)
        <5>1. Len(<<>>) = 0
          BY EmptySeq
        <5> QED
          BY <5>1 DEF WholeUnlessTorn
      <4>2. c = outputBuffer
        BY <3>4, <3>6, ScreenTypes
      <4> QED
        BY <2>2, <3>3, <3>6, <4>1, <4>2
    <3>7. ASSUME NEW p \in Pumps, shown' = shown \o chunk[p], UNCHANGED outputBuffer
          PROVE  /\ WholeUnlessTorn(outputBuffer', {}, 1)
                 /\ WholeUnlessTorn(shown', cuts \cup new, delivered + 1)
      <4>1. c = chunk[p]
        BY <3>4, <3>7, ScreenTypes
      <4> QED
        BY <2>2, <3>3, <3>7, <4>1
    <3>8. ASSUME NEW p \in Pumps, UNCHANGED shown, outputBuffer' = outputBuffer \o chunk[p]
          PROVE  /\ WholeUnlessTorn(outputBuffer', {}, 1)
                 /\ WholeUnlessTorn(shown', cuts \cup new, delivered + 1)
      <4>1. cuts \cup new = cuts
        BY <3>8
      <4>2. WholeUnlessTorn(outputBuffer \o chunk[p], {} \cup {}, 1)
        <5>1. /\ 1 \in 1..Len(outputBuffer) + 1
              /\ {} \in SUBSET (0..Len(outputBuffer))
              /\ {} \in SUBSET {Len(outputBuffer) + Len(chunk[p])}
          BY ScreenTypes
        <5> QED
          BY <2>2, <5>1, ScreenTypes, WholeConcat
      <4> QED
        BY <2>2, <3>8, <4>1, <4>2
    <3> QED
      BY <1>1, <2>1, <3>5, <3>6, <3>7, <3>8, BridgeEffect DEF ScreenInv
  <2>4. \A i \in 1..Len(outputBuffer') :
            outputBuffer'[i] \in torn' \/ Whole(outputBuffer', {}, i)
    BY <2>1, <2>3 DEF WholeUnlessTorn
  <2>5. \A i \in delivered + 1 .. Len(shown') :
            shown'[i] \in torn' \/ Whole(shown', ends' \cup {delivered'}, i)
    <3> HIDE DEF cuts, new
    <3> QED
      BY <2>1, <2>3 DEF WholeUnlessTorn
  <2> QED
    BY <1>1, <2>4, <2>5 DEF WholeUnlessTorn
<1>10. CharactersInv'
  BY <1>1, <1>8, <1>9 DEF CharactersInv
<1> QED
  BY <1>5, <1>7, <1>10

\* The delivery of an event: a unit whose character came in one read is shown as it is.
LEMMA OutputStep ==
    ASSUME ScreenInv, Output
    PROVE  ScreenTypeOK' /\ ScreenIsStretch' /\ CharactersInv'
<1>1. PICK n \in ends :
        /\ \A m \in ends : n <= m
        /\ delivered' = n
        /\ ends' = ends \ {n}
        /\ screen' = IF mount = "open" THEN screen \o Decoded(n) ELSE screen
        /\ UNCHANGED <<vars, mount, first, torn>>
  BY DEF Output
<1>2. /\ n \in Nat /\ n > delivered /\ n <= Len(shown)
      /\ \A m \in ends' : m > n
  BY <1>1, ScreenTypes DEF ScreenInv, ScreenIsStretch
<1>3. /\ shown' = shown /\ outputBuffer' = outputBuffer /\ received' = received
      /\ chunk' = chunk /\ mount' = mount /\ first' = first /\ torn' = torn
  BY <1>1 DEF vars
<1> DEFINE d == Decoded(n)
<1>4. /\ d \in Seq(Unit \cup {Damaged}) /\ Len(d) = n - delivered
      /\ \A i \in 1..(n - delivered) :
            d[i] = IF Whole(shown, ends \cup {delivered}, delivered + i)
                   THEN shown[delivered + i] ELSE Damaged
  <2>1. \A i \in 1..(n - delivered) : shown[delivered + i] \in Unit
    <3>1. \A i \in 1..(n - delivered) : delivered + i \in 1..Len(shown)
      BY <1>2, ScreenTypes
    <3> QED
      BY <3>1, ScreenTypes, ElementOfSeq
  <2>2. n - delivered \in Nat
    BY <1>2, ScreenTypes
  <2> QED
    BY <2>1, <2>2 DEF Decoded
<1> HIDE DEF d
<1>5. /\ screen \in Seq(Unit \cup {Damaged}) /\ Len(screen) \in Nat
      /\ screen \o d \in Seq(Unit \cup {Damaged})
      /\ Len(screen \o d) = Len(screen) + (n - delivered)
      /\ \A i \in 1..Len(screen) : (screen \o d)[i] = screen[i]
      /\ \A i \in Len(screen) + 1 .. Len(screen) + (n - delivered) :
            (screen \o d)[i] = d[i - Len(screen)]
  <2>1. screen \in Seq(Unit \cup {Damaged}) /\ Len(screen) \in Nat
    BY LenProperties DEF ScreenInv, ScreenTypeOK
  <2>2. n - delivered \in Nat
    BY <1>2, ScreenTypes
  <2> QED
    BY <1>4, <2>1, <2>2, ConcatProperties
<1>6. mount = "open" => screen' = screen \o d
  BY <1>1 DEF d
<1>7. ScreenTypeOK'
  <2>1. screen' \in Seq(Unit \cup {Damaged})
    BY <1>1, <1>5, <1>6
  <2>2. first' \in 0..delivered' /\ delivered' \in 0..Len(shown')
    BY <1>1, <1>2, <1>3, ScreenTypes
  <2>3. ends' \in SUBSET (1..Len(shown'))
    BY <1>1, <1>3, ScreenTypes
  <2> QED
    BY <1>3, <2>1, <2>2, <2>3 DEF ScreenInv, ScreenTypeOK
<1>8. ASSUME mount = "open"
      PROVE  Len(screen) = delivered - first /\ Len(screen') = delivered' - first'
  <2>1. Len(screen) = delivered - first
    BY <1>8 DEF ScreenInv, ScreenIsStretch
  <2> QED
    BY <1>1, <1>2, <1>3, <1>5, <1>6, <1>8, <2>1, ScreenTypes
<1>9. ASSUME mount = "open", Listening, NEW i \in 1..Len(screen')
      PROVE  \/ screen'[i] = shown[first + i]
             \/ screen'[i] = Damaged /\ shown[first + i] \in torn
  <2>1. CASE i <= Len(screen)
    <3>1. i \in 1..Len(screen) /\ screen'[i] = screen[i]
      BY <1>5, <1>6, <1>9, <2>1
    <3> QED
      BY <1>9, <3>1 DEF ScreenInv, ScreenIsStretch
  <2>2. CASE i > Len(screen)
    <3> DEFINE j == i - Len(screen)
    <3>0. /\ i \in Len(screen) + 1 .. Len(screen) + (n - delivered)
          /\ Len(screen) = delivered - first
          /\ delivered \in Nat /\ first \in Nat
      BY <1>2, <1>5, <1>6, <1>8, <1>9, <2>2, ScreenTypes
    <3>1. j \in 1..(n - delivered) /\ delivered + j = first + i
      BY <1>2, <3>0
    <3>2. screen'[i] = d[j]
      BY <1>5, <1>6, <1>9, <3>0
    <3>3. first + i \in delivered + 1 .. Len(shown)
      BY <1>2, <3>1, ScreenTypes
    <3>4. shown[first + i] \in torn \/ Whole(shown, ends \cup {delivered}, first + i)
      BY <1>9, <3>3 DEF ScreenInv, CharactersInv, WholeUnlessTorn
    <3> HIDE DEF j
    <3> QED
      BY <1>4, <3>1, <3>2, <3>4
  <2> QED
    BY <1>5, <1>9, <2>1, <2>2
<1>10. ScreenIsStretch'
  BY <1>1, <1>2, <1>3, <1>8, <1>9 DEF ScreenIsStretch, Listening
<1>11. CharactersInv'
  <2>1. ASSUME Listening, NEW i \in n + 1 .. Len(shown), shown[i] \notin torn
        PROVE  Whole(shown, ends' \cup {n}, i)
    <3>1. i \in delivered + 1 .. Len(shown)
      BY <1>2, ScreenTypes
    <3>2. Whole(shown, ends \cup {delivered}, i)
      BY <2>1, <3>1 DEF ScreenInv, CharactersInv, WholeUnlessTorn
    <3>3. ends' \cup {n} \in SUBSET (ends \cup {delivered})
      BY <1>1
    <3> QED
      BY <3>2, <3>3, WholeFewer
  <2>2. ASSUME Listening PROVE WholeUnlessTorn(shown, ends \cup {delivered}, delivered + 1)'
    BY <1>1, <1>3, <2>1, <2>2 DEF WholeUnlessTorn
  <2>3. Listening' = Listening
    BY <1>3 DEF Listening
  <2>4. ASSUME Listening PROVE WholeUnlessTorn(outputBuffer, {}, 1)'
    BY <1>3, <2>4 DEF ScreenInv, CharactersInv, WholeUnlessTorn
  <2>5. ASSUME mount # "gone", NEW p \in Pumps PROVE WholeUnlessTorn(chunk[p], {}, 1)'
    BY <1>3, <2>5 DEF ScreenInv, CharactersInv, WholeUnlessTorn
  <2> QED
    BY <1>3, <2>2, <2>3, <2>4, <2>5 DEF CharactersInv
<1> QED
  BY <1>7, <1>10, <1>11

\* Mounting, unmounting and the delivery of an event.
LEMMA TerminalStep ==
    ASSUME ScreenInv, XtermTerminal
    PROVE  ScreenTypeOK' /\ ScreenIsStretch' /\ CharactersInv' /\ UNCHANGED vars
<1>1. <<>> \in Seq(Unit \cup {Damaged}) /\ Len(<<>>) = 0
  BY EmptySeq
<1>2. CASE Mount
  <2>1. /\ UNCHANGED vars /\ mount = "none" /\ mount' = "open" /\ screen' = <<>>
        /\ first' = delivered /\ UNCHANGED <<ends, delivered, torn>>
    BY <1>2 DEF Mount
  <2>2. /\ shown' = shown /\ outputBuffer' = outputBuffer /\ received' = received
        /\ chunk' = chunk
    BY <2>1 DEF vars
  <2>3. ScreenTypeOK'
    BY <1>1, <2>1, <2>2, ScreenTypes DEF ScreenInv, ScreenTypeOK
  <2>4. ScreenIsStretch'
    BY <1>1, <2>1, <2>2, ScreenTypes DEF ScreenInv, ScreenIsStretch
  <2>5. CharactersInv'
    BY <2>1, <2>2 DEF ScreenInv, CharactersInv, WholeUnlessTorn, Listening
  <2> QED
    BY <2>1, <2>3, <2>4, <2>5
<1>3. CASE Unmount
  <2>1. /\ UNCHANGED vars /\ mount' = "gone" /\ screen' = <<>>
        /\ first' = 0 /\ delivered' = 0 /\ ends' = {} /\ torn' = {} /\ shown' = shown
    BY <1>3 DEF Unmount, vars
  <2>2. ScreenTypeOK'
    BY <1>1, <2>1, ScreenTypes DEF ScreenTypeOK
  <2> QED
    BY <2>1, <2>2 DEF ScreenIsStretch, CharactersInv, Listening
<1>4. CASE Output
  BY <1>4, OutputStep DEF Output
<1> QED
  BY <1>2, <1>3, <1>4 DEF XtermTerminal

\* Before the first read there is nothing to be torn.
LEMMA InitScreenInv == ScreenInit => ScreenInv
<1> SUFFICES ASSUME ScreenInit PROVE ScreenInv
  OBVIOUS
<1>1. IInv
  BY InitIInv DEF ScreenInit
<1>2. shown = <<>> /\ outputBuffer = <<>> /\ \A p \in Pumps : chunk[p] = <<>>
  BY DEF ScreenInit, Init
<1>3. Len(<<>>) = 0 /\ <<>> \in Seq(Unit \cup {Damaged})
  BY EmptySeq
<1>4. ScreenTypeOK /\ ScreenIsStretch
  BY <1>2, <1>3 DEF ScreenInit, ScreenTypeOK, ScreenIsStretch
<1>5. CharactersInv
  BY <1>2, <1>3 DEF ScreenInit, CharactersInv, WholeUnlessTorn
<1> QED
  BY <1>1, <1>4, <1>5 DEF ScreenInv

\* Every step preserves the invariant.
LEMMA StepScreenInv == ScreenInv /\ [ScreenNext]_screenSpecVars => ScreenInv'
<1> SUFFICES ASSUME ScreenInv, [ScreenNext]_screenSpecVars PROVE ScreenInv'
  OBVIOUS
<1>1. CASE BridgeSteps
  <2>1. IInv'
    BY <1>1, StepIInv DEF ScreenInv, BridgeSteps
  <2> QED
    BY <1>1, <2>1, BridgeStep DEF ScreenInv
<1>2. CASE XtermTerminal
  BY <1>2, TerminalStep, StepIInv DEF ScreenInv
<1>3. CASE UNCHANGED screenSpecVars
  <2>1. /\ UNCHANGED vars /\ UNCHANGED <<mount, delivered, screen, first, ends, torn>>
    BY <1>3 DEF screenSpecVars, terminalVars
  <2>2. IInv'
    BY <2>1, StepIInv DEF ScreenInv
  <2>3. /\ shown' = shown /\ outputBuffer' = outputBuffer /\ received' = received
        /\ chunk' = chunk
    BY <2>1 DEF vars
  <2> QED
    BY <2>1, <2>2, <2>3
    DEF ScreenInv, ScreenTypeOK, ScreenIsStretch, CharactersInv, WholeUnlessTorn, Listening
<1> QED
  BY <1>1, <1>2, <1>3 DEF ScreenNext

-----------------------------------------------------------------------------
(* The theorems                                                             *)

\* The invariant says where every received unit is, and what became of it.
LEMMA NothingMissing == ScreenInv => ScreenIsOutput
<1> SUFFICES ASSUME ScreenInv, mount = "open", Len(received) <= MaxBuffer
             PROVE  /\ first + Len(screen) = delivered
                    /\ \A i \in 1..Len(screen) :
                          \/ screen[i] = received[first + i]
                          \/ screen[i] = Damaged /\ received[first + i] \in torn
                    /\ SubSeq(shown, delivered + 1, Len(shown)) \o outputBuffer
                          = SubSeq(received, delivered + 1, Len(received))
  BY DEF ScreenIsOutput
<1>1. Len(screen) = delivered - first /\ Listening
  BY DEF ScreenInv, ScreenIsStretch, Listening
<1>2. shown \o outputBuffer = received
  BY DEF ScreenInv, IInv, NoLossBelowLimit
<1>3. Len(received) = Len(shown) + Len(outputBuffer)
  BY <1>2, ScreenTypes, ConcatProperties
<1>4. \A i \in 1..Len(shown) : received[i] = shown[i]
  BY <1>2, ScreenTypes, ConcatProperties
<1>5. ASSUME NEW i \in 1..Len(screen)
      PROVE  \/ screen[i] = received[first + i]
             \/ screen[i] = Damaged /\ received[first + i] \in torn
  <2>1. first + i \in 1..Len(shown)
    BY <1>1, ScreenTypes
  <2> QED
    BY <1>1, <1>4, <2>1 DEF ScreenInv, ScreenIsStretch
<1>6. SubSeq(shown, delivered + 1, Len(shown)) = SubSeq(received, delivered + 1, Len(shown))
  <2>1. Len(shown) \in 0..Len(shown) /\ delivered \in 0..Len(shown)
    BY ScreenTypes
  <2> QED
    BY <1>2, <2>1, ScreenTypes, StretchOfConcat
<1>7. outputBuffer = SubSeq(received, Len(shown) + 1, Len(received))
  BY <1>2, <1>3, ScreenTypes, RestOfConcat
<1>8. SubSeq(received, delivered + 1, Len(shown)) \o SubSeq(received, Len(shown) + 1, Len(received))
        = SubSeq(received, delivered + 1, Len(received))
  <2>1. /\ delivered + 1 \in 1 .. Len(received) + 1
        /\ Len(shown) \in (delivered + 1) - 1 .. Len(received)
        /\ Len(received) \in Len(shown) .. Len(received)
    BY <1>3, ScreenTypes
  <2> QED
    BY <2>1, ScreenTypes, ConcatAdjacentSubSeq
<1>9. first + Len(screen) = delivered
  BY <1>1, ScreenTypes
<1> QED
  BY <1>5, <1>6, <1>7, <1>8, <1>9

\* The terminal of a tab shows what was delivered, byte for byte except where a character
\* came in two reads, and all else that was received is on the way or buffered; as long
\* as the buffer did not overflow, for every limit, read size and set of characters.
THEOREM ScreenShowsOutput == ScreenSpec => []ScreenIsOutput
<1>1. ScreenSpec => []ScreenInv
  BY InitScreenInv, StepScreenInv, PTL DEF ScreenSpec
<1> QED
  BY <1>1, NothingMissing, PTL

\* Events and mounting do not disturb the bridge: whatever OutputBridge promises holds
\* in front of a terminal as well.
THEOREM ScreenImplementsBridge == ScreenSpec => Spec
<1>1. ScreenInit => Init
  BY DEF ScreenInit
<1>2. [ScreenNext]_screenSpecVars => [Next]_vars
  BY DEF ScreenNext, BridgeSteps, XtermTerminal, Mount, Unmount, Output, screenSpecVars
<1> QED
  BY <1>1, <1>2, PTL DEF ScreenSpec, Spec
=============================================================================
