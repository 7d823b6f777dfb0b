--------------------------- MODULE SequenceFacts ---------------------------
(***************************************************************************)
(* Facts about sequences of any length that the proofs of several          *)
(* components rest on: induction, the ends of a queue, the elements of a   *)
(* sequence, and what FlattenSeq and FoldLeft return.                      *)
(*                                                                         *)
(* The operator that is folded is a constant here, of which nothing is     *)
(* assumed: a module that folds Step says INSTANCE SequenceFacts WITH      *)
(* Op <- Step, and the facts that are not about folds hold for any Op.     *)
(***************************************************************************)
EXTENDS Integers, Sequences, FiniteSets, SequencesExt, FiniteSetTheorems, SequenceTheorems, TLAPS

CONSTANT Op(_, _)

(* Induction over the members of a set: were n not in S, subtracting one   *)
(* would map the numbers up to n outside S to fewer, one to one.           *)
LEMMA Induction ==
    ASSUME NEW S, 0 \in S, \A n \in Nat : n \in S => n + 1 \in S
    PROVE  \A n \in Nat : n \in S
<1> SUFFICES ASSUME NEW n \in Nat, n \notin S
             PROVE  FALSE
  OBVIOUS
<1> DEFINE Others == {k \in 0 .. n : k \notin S}
           pred == [k \in Others |-> k - 1]
<1>1. IsFiniteSet(0 .. n)
  BY FS_Interval
<1>2. IsFiniteSet(Others)
  BY <1>1, FS_Subset
<1>3. n \in Others
  OBVIOUS
<1>4. pred \in [Others -> Others \ {n}]
  <2>1. ASSUME NEW k \in Others
        PROVE  k - 1 \in Others \ {n}
    <3>1. k # 0
      OBVIOUS
    <3>2. k - 1 \in Nat /\ (k - 1) + 1 = k
      BY <3>1
    <3> QED  BY <3>2
  <2> QED  BY <2>1
<1>5. /\ IsFiniteSet(Others \ {n})
      /\ Cardinality(Others \ {n}) = Cardinality(Others) - 1
  BY <1>2, <1>3, FS_RemoveElement
<1>6. Cardinality(Others) \in Nat
  BY <1>2, FS_CardinalityType
<1> HIDE DEF Others, pred
<1>7. PICK x \in Others, y \in Others : x # y /\ pred[x] = pred[y]
  BY <1>2, <1>4, <1>5, <1>6, FS_PigeonHole
<1> QED  BY <1>7 DEF Others, pred

(* The same up to a bound.                                                 *)
LEMMA InductionUpTo ==
    ASSUME NEW S, NEW n \in Nat, 0 \in S, \A k \in 0 .. n - 1 : k \in S => k + 1 \in S
    PROVE  \A k \in 0 .. n : k \in S
<1> DEFINE T == {k \in Nat : k <= n => k \in S}
<1>1. 0 \in T
  OBVIOUS
<1>2. \A k \in Nat : k \in T => k + 1 \in T
  OBVIOUS
<1> HIDE DEF T
<1>3. \A k \in Nat : k \in T
  BY <1>1, <1>2, Induction
<1> QED  BY <1>3 DEF T

(* Sequences are what Append makes of the empty one.                       *)
LEMMA SequenceInduction ==
    ASSUME NEW T, NEW S, <<>> \in S,
           \A seq \in Seq(T), x \in T : seq \in S => Append(seq, x) \in S
    PROVE  \A seq \in Seq(T) : seq \in S
<1> DEFINE Holds(n) == \A seq \in Seq(T) : Len(seq) = n => seq \in S
           N == {n \in Nat : Holds(n)}
<1>1. Holds(0)
  <2>1. \A seq \in Seq(T) : Len(seq) = 0 => seq = <<>>
    BY EmptySeq
  <2> QED  BY <2>1
<1>2. ASSUME NEW n \in Nat, Holds(n)
      PROVE  Holds(n + 1)
  <2> SUFFICES ASSUME NEW seq \in Seq(T), Len(seq) = n + 1
               PROVE  seq \in S
    OBVIOUS
  <2> DEFINE front == [i \in 1 .. n |-> seq[i]]
  <2>1. /\ front \in Seq(T)
        /\ Len(front) = n
        /\ seq[n + 1] \in T
    OBVIOUS
  <2>2. Append(front, seq[n + 1]) = seq
    <3>1. /\ Append(front, seq[n + 1]) \in Seq(T)
          /\ Len(Append(front, seq[n + 1])) = n + 1
          /\ \A i \in 1 .. n + 1 : Append(front, seq[n + 1])[i] = seq[i]
      BY <2>1
    <3> QED  BY <3>1, SeqEqual
  <2> HIDE DEF front
  <2>3. front \in S
    BY <1>2, <2>1
  <2> QED  BY <2>1, <2>2, <2>3
<1> HIDE DEF Holds
<1>3. 0 \in N /\ \A n \in Nat : n \in N => n + 1 \in N
  BY <1>1, <1>2
<1> HIDE DEF N
<1>4. \A n \in Nat : n \in N
  BY <1>3, Induction
<1>5. \A seq \in Seq(T) : Holds(Len(seq))
  BY <1>4, LenProperties DEF N
<1> QED  BY <1>5 DEF Holds

-----------------------------------------------------------------------------
(* The queues at both ends.                                                *)
LEMMA AppendAddsLast ==
    ASSUME NEW T, NEW queue \in Seq(T), NEW x \in T
    PROVE  /\ Append(queue, x) \in Seq(T)
           /\ Len(queue) + 1 \notin DOMAIN queue
           /\ DOMAIN Append(queue, x) = DOMAIN queue \cup {Len(queue) + 1}
           /\ \A i \in DOMAIN queue : Append(queue, x)[i] = queue[i]
           /\ Append(queue, x)[Len(queue) + 1] = x
  OBVIOUS

LEMMA TailDropsFirst ==
    ASSUME NEW T, NEW queue \in Seq(T), queue # <<>>
    PROVE  /\ Tail(queue) \in Seq(T)
           /\ DOMAIN Tail(queue) \subseteq Nat \ {0}
           /\ \A i \in DOMAIN Tail(queue) :
                 i + 1 \in DOMAIN queue \ {1} /\ Tail(queue)[i] = queue[i + 1]
  OBVIOUS

LEMMA HeadIsFirst ==
    ASSUME NEW T, NEW queue \in Seq(T), queue # <<>>
    PROVE  /\ 1 \in DOMAIN queue
           /\ Head(queue) = queue[1]
           /\ queue[1] \in T
  OBVIOUS

LEMMA ElementsAreTyped ==
    ASSUME NEW T, NEW queue \in Seq(T)
    PROVE  \A i \in DOMAIN queue : queue[i] \in T
  OBVIOUS

(* What a sequence holds, and that it holds nothing twice.                 *)
Elements(seq) == {seq[i] : i \in DOMAIN seq}

Distinct(seq) == \A i, j \in DOMAIN seq : seq[i] = seq[j] => i = j

LEMMA AppendedElements ==
    ASSUME NEW T, NEW seq \in Seq(T), NEW x \in T
    PROVE  /\ Append(seq, x) \in Seq(T)
           /\ Elements(Append(seq, x)) = Elements(seq) \cup {x}
           /\ Distinct(seq) /\ x \notin Elements(seq) => Distinct(Append(seq, x))
           /\ Distinct(Append(seq, x)) => Distinct(seq) /\ x \notin Elements(seq)
<1> DEFINE longer == Append(seq, x)
           last == Len(seq) + 1
<1>1. /\ longer \in Seq(T)
      /\ last \notin DOMAIN seq
      /\ DOMAIN longer = DOMAIN seq \cup {last}
      /\ \A i \in DOMAIN seq : longer[i] = seq[i]
      /\ longer[last] = x
  OBVIOUS
<1> HIDE DEF longer, last
<1> QED  BY <1>1 DEF Elements, Distinct, longer

LEMMA TwoInARow ==
    ASSUME NEW x, NEW y
    PROVE  <<x>> \o <<y>> = <<x, y>>
<1>1. <<x>> \in Seq({x, y}) /\ <<y>> \in Seq({x, y}) /\ <<x, y>> \in Seq({x, y})
  OBVIOUS
<1>2. /\ <<x>> \o <<y>> \in Seq({x, y})
      /\ Len(<<x>> \o <<y>>) = 2
      /\ (<<x>> \o <<y>>)[1] = x
      /\ (<<x>> \o <<y>>)[2] = y
  BY <1>1, ConcatProperties
<1>3. PICK whole : whole = <<x>> \o <<y>>
  OBVIOUS
<1>4. PICK pair : pair = <<x, y>>
  OBVIOUS
<1>5. Len(pair) = 2 /\ pair[1] = x /\ pair[2] = y /\ pair \in Seq({x, y})
  BY <1>1, <1>4
<1>6. \A i \in 1 .. 2 : whole[i] = pair[i]
  <2>1. \A i \in 1 .. 2 : i = 1 \/ i = 2
    OBVIOUS
  <2> QED  BY <1>2, <1>3, <1>5, <2>1
<1>7. whole = pair
  BY <1>2, <1>3, <1>5, <1>6, SeqEqual
<1> QED  BY <1>3, <1>4, <1>7

LEMMA AppendToConcat ==
    ASSUME NEW T, NEW s \in Seq(T), NEW t \in Seq(T), NEW x \in T
    PROVE  s \o Append(t, x) = Append(s \o t, x)
<1>1. /\ s \o Append(t, x) \in Seq(T)
      /\ Append(s \o t, x) \in Seq(T)
      /\ Len(s \o Append(t, x)) = Len(s) + Len(t) + 1
      /\ Len(Append(s \o t, x)) = Len(s) + Len(t) + 1
  OBVIOUS
<1>2. \A i \in 1 .. Len(s) + Len(t) + 1 : (s \o Append(t, x))[i] = Append(s \o t, x)[i]
  OBVIOUS
<1> QED  BY <1>1, <1>2, SeqEqual

-----------------------------------------------------------------------------
(* FlattenSeq, the concatenation of a sequence of sequences.               *)
Flattens(f, n, seqs) ==
    f = [i \in 1 .. n |-> IF i = 1 THEN seqs[i] ELSE f[i - 1] \o seqs[i]]

LEMMA FlatteningExists ==
    ASSUME NEW n \in Nat, NEW seqs
    PROVE  \E f : Flattens(f, n, seqs)
<1> DEFINE Exists(m) == \E f : Flattens(f, m, seqs)
           S == {m \in Nat : Exists(m)}
<1>1. Exists(0)
  <2>1. 1 .. 0 = {}
    OBVIOUS
  <2>2. [i \in 1 .. 0 |-> <<>>]
          = [i \in 1 .. 0 |-> IF i = 1 THEN seqs[i]
                              ELSE [j \in 1 .. 0 |-> <<>>][i - 1] \o seqs[i]]
    BY <2>1
  <2>3. Flattens([i \in 1 .. 0 |-> <<>>], 0, seqs)
    BY <2>2 DEF Flattens
  <2> QED  BY <2>3
<1>2. ASSUME NEW m \in Nat, Exists(m)
      PROVE  Exists(m + 1)
  <2>1. PICK f : Flattens(f, m, seqs)
    BY <1>2
  <2>2. \A i \in 1 .. m : f[i] = IF i = 1 THEN seqs[i] ELSE f[i - 1] \o seqs[i]
    BY <2>1 DEF Flattens
  <2> DEFINE longer == [i \in 1 .. m + 1 |->
                 IF i <= m THEN f[i]
                 ELSE IF i = 1 THEN seqs[i] ELSE f[m] \o seqs[i]]
  <2>3. ASSUME NEW i \in 1 .. m + 1
        PROVE  longer[i] = IF i = 1 THEN seqs[i] ELSE longer[i - 1] \o seqs[i]
    <3>1. i # 1 => i - 1 \in 1 .. m /\ longer[i - 1] = f[i - 1]
      OBVIOUS
    <3>2. CASE i \in 1 .. m
      <4>1. longer[i] = f[i]
        BY <3>2
      <4> QED  BY <2>2, <3>1, <3>2, <4>1
    <3>3. CASE i = m + 1
      <4>1. longer[i] = IF i = 1 THEN seqs[i] ELSE f[m] \o seqs[i]
        BY <3>3
      <4>2. i # 1 => i - 1 = m
        BY <3>3
      <4> HIDE DEF longer
      <4> QED  BY <3>1, <4>1, <4>2
    <3> QED  BY <3>2, <3>3
  <2>4. longer = [i \in 1 .. m + 1 |-> longer[i]]
    OBVIOUS
  <2> HIDE DEF longer
  <2>5. Flattens(longer, m + 1, seqs)
    BY <2>3, <2>4 DEF Flattens
  <2> QED  BY <2>5
<1> HIDE DEF Exists
<1>3. 0 \in S /\ \A m \in Nat : m \in S => m + 1 \in S
  BY <1>1, <1>2
<1> HIDE DEF S
<1>4. \A m \in Nat : m \in S
  BY <1>3, Induction
<1>5. Exists(n)
  BY <1>4 DEF S
<1> QED  BY <1>5 DEF Exists

LEMMA FlattenSeqRuns ==
    ASSUME NEW T, NEW seqs \in Seq(T), Len(seqs) # 0
    PROVE  \E f : /\ \A i \in 1 .. Len(seqs) :
                        f[i] = IF i = 1 THEN seqs[i] ELSE f[i - 1] \o seqs[i]
                  /\ FlattenSeq(seqs) = f[Len(seqs)]
<1> DEFINE n == Len(seqs)
           f == CHOOSE g : Flattens(g, n, seqs)
<1>1. n \in Nat
  BY LenProperties
<1>2. FlattenSeq(seqs) = f[n]
  BY DEF FlattenSeq, Flattens
<1> HIDE DEF n
<1>3. Flattens(f, n, seqs)
  BY <1>1, FlatteningExists
<1> HIDE DEF f
<1>4. \A i \in 1 .. n : f[i] = IF i = 1 THEN seqs[i] ELSE f[i - 1] \o seqs[i]
  BY <1>3 DEF Flattens
<1> QED  BY <1>2, <1>4 DEF n

LEMMA FlattenSeqEmpty == FlattenSeq(<<>>) = <<>>
<1>1. Len(<<>>) = 0
  BY EmptySeq
<1> QED  BY <1>1 DEF FlattenSeq

LEMMA FlattenSeqAppend ==
    ASSUME NEW T, NEW seqs \in Seq(Seq(T)), NEW s \in Seq(T)
    PROVE  FlattenSeq(Append(seqs, s)) = FlattenSeq(seqs) \o s
<1> DEFINE n == Len(seqs)
           longer == Append(seqs, s)
<1>1. /\ n \in Nat
      /\ longer \in Seq(Seq(T))
      /\ Len(longer) = n + 1
      /\ \A i \in 1 .. n : longer[i] = seqs[i]
      /\ longer[n + 1] = s
  OBVIOUS
<1> HIDE DEF longer, n
<1>5. n \in Nat
  BY <1>1
<1>2. PICK g : /\ \A i \in 1 .. n + 1 :
                     g[i] = IF i = 1 THEN longer[i] ELSE g[i - 1] \o longer[i]
               /\ FlattenSeq(longer) = g[n + 1]
  <2>1. Len(longer) # 0
    BY <1>1
  <2> QED  BY <1>1, <2>1, FlattenSeqRuns
<1>3. CASE n = 0
  <2>1. seqs = <<>>
    BY <1>3, EmptySeq DEF n
  <2>2. FlattenSeq(seqs) = <<>>
    BY <2>1, FlattenSeqEmpty
  <2>3. g[n + 1] = s
    BY <1>1, <1>2, <1>3
  <2> QED  BY <1>2, <2>2, <2>3, ConcatEmptySeq DEF longer
<1>4. CASE n # 0
  <2>1. PICK f : /\ \A i \in 1 .. n :
                       f[i] = IF i = 1 THEN seqs[i] ELSE f[i - 1] \o seqs[i]
                 /\ FlattenSeq(seqs) = f[n]
    BY <1>4, FlattenSeqRuns DEF n
  <2> DEFINE S == {i \in 0 .. n : i # 0 => f[i] = g[i]}
  <2>2. 0 \in S
    BY <1>1
  <2>3. ASSUME NEW i \in 0 .. n - 1, i \in S
        PROVE  i + 1 \in S
    <3>1. /\ i + 1 \in 1 .. n
          /\ i + 1 \in 0 .. n
          /\ i + 1 \in 1 .. n + 1
          /\ (i + 1) - 1 = i
      BY <1>5
    <3>4. longer[i + 1] = seqs[i + 1]
      BY <1>1, <3>1
    <3>2. f[i + 1] = IF i + 1 = 1 THEN seqs[i + 1] ELSE f[i] \o seqs[i + 1]
      BY <2>1, <3>1
    <3>3. g[i + 1] = IF i + 1 = 1 THEN longer[i + 1] ELSE g[i] \o longer[i + 1]
      BY <1>2, <3>1
    <3>5. i # 0 => f[i] = g[i]
      BY <2>3
    <3>6. f[i + 1] = g[i + 1]
      BY <1>5, <3>2, <3>3, <3>4, <3>5
    <3> QED  BY <3>1, <3>6
  <2> HIDE DEF S
  <2>4. \A i \in 0 .. n : i \in S
    BY <1>1, <2>2, <2>3, InductionUpTo
  <2>5. f[n] = g[n]
    BY <1>1, <1>4, <2>4 DEF S
  <2>6. g[n + 1] = g[n] \o s
    <3>1. n + 1 \in 1 .. n + 1 /\ (n + 1) - 1 = n /\ n + 1 # 1
      BY <1>4, <1>5
    <3> QED  BY <1>1, <1>2, <3>1
  <2> QED  BY <1>2, <2>1, <2>5, <2>6 DEF longer
<1> QED  BY <1>3, <1>4

LEMMA FlattenSeqTyped ==
    ASSUME NEW T
    PROVE  \A seqs \in Seq(Seq(T)) : FlattenSeq(seqs) \in Seq(T)
<1> DEFINE S == {seqs \in Seq(Seq(T)) : FlattenSeq(seqs) \in Seq(T)}
<1>1. <<>> \in S
  BY FlattenSeqEmpty, EmptySeq
<1>2. \A seqs \in Seq(Seq(T)), s \in Seq(T) : seqs \in S => Append(seqs, s) \in S
  BY FlattenSeqAppend, AppendProperties, ConcatProperties
<1> HIDE DEF S
<1>3. \A seqs \in Seq(Seq(T)) : seqs \in S
  BY <1>1, <1>2, SequenceInduction
<1> QED  BY <1>3 DEF S

-----------------------------------------------------------------------------
(* Two queues in a row: what is taken from the head of the second and put   *)
(* at the end of the first leaves their concatenation alone.               *)
LEMMA HeadMovesOver ==
    ASSUME NEW T, NEW s \in Seq(T), NEW t \in Seq(T), t # <<>>
    PROVE  Append(s, Head(t)) \o Tail(t) = s \o t
<1>1. /\ Head(t) \in T
      /\ Tail(t) \in Seq(T)
      /\ <<Head(t)>> \in Seq(T)
      /\ t = <<Head(t)>> \o Tail(t)
  OBVIOUS
<1>2. Append(s, Head(t)) = s \o <<Head(t)>>
  BY <1>1
<1>3. (s \o <<Head(t)>>) \o Tail(t) = s \o (<<Head(t)>> \o Tail(t))
  BY <1>1, ConcatAssociative
<1> QED  BY <1>1, <1>2, <1>3

LEMMA FirstMovesOver ==
    ASSUME NEW T, NEW s \in Seq(T), NEW t \in Seq(T), NEW x \in T
    PROVE  Append(s, x) \o t = s \o (<<x>> \o t)
<1>1. <<x>> \in Seq(T) /\ Append(s, x) = s \o <<x>>
  OBVIOUS
<1>2. (s \o <<x>>) \o t = s \o (<<x>> \o t)
  BY <1>1, ConcatAssociative
<1> QED  BY <1>1, <1>2

LEMMA PrefixOfConcat ==
    ASSUME NEW T, NEW s \in Seq(T), NEW t \in Seq(T)
    PROVE  IsPrefix(s, s \o t)
<1>1. /\ s \o t \in Seq(T)
      /\ Len(s \o t) = Len(s) + Len(t)
      /\ Len(s) \in Nat /\ Len(t) \in Nat
      /\ \A i \in 1 .. Len(s) : (s \o t)[i] = s[i]
  OBVIOUS
<1>2. Len(s) <= Len(s \o t)
  BY <1>1
<1>3. SubSeq(s, 1, Len(s)) = SubSeq(s \o t, 1, Len(s))
  <2>1. SubSeq(s, 1, Len(s)) = [i \in 1 .. Len(s) |-> s[i]]
    OBVIOUS
  <2>2. SubSeq(s \o t, 1, Len(s)) = [i \in 1 .. Len(s) |-> (s \o t)[i]]
    BY <1>1
  <2> QED  BY <1>1, <2>1, <2>2
<1> QED  BY <1>2, <1>3 DEF IsPrefix

(* A sequence in two pieces, and a flattened one, hold what the pieces hold. *)
LEMMA PiecesAreHeld ==
    ASSUME NEW T, NEW s \in Seq(T), NEW t \in Seq(T)
    PROVE  Elements(s) \cup Elements(t) \subseteq Elements(s \o t)
<1>1. /\ s \o t \in Seq(T)
      /\ Len(s \o t) = Len(s) + Len(t)
      /\ Len(s) \in Nat /\ Len(t) \in Nat
      /\ \A i \in 1 .. Len(s) : (s \o t)[i] = s[i]
      /\ \A i \in 1 .. Len(t) : (s \o t)[Len(s) + i] = t[i]
  OBVIOUS
<1>2. /\ DOMAIN s = 1 .. Len(s)
      /\ DOMAIN t = 1 .. Len(t)
      /\ DOMAIN (s \o t) = 1 .. Len(s) + Len(t)
  BY <1>1, LenProperties
<1>3. \A i \in 1 .. Len(s) : i \in 1 .. Len(s) + Len(t)
  BY <1>1
<1>4. \A i \in 1 .. Len(t) : Len(s) + i \in 1 .. Len(s) + Len(t)
  BY <1>1
<1> QED  BY <1>1, <1>2, <1>3, <1>4 DEF Elements

LEMMA PartsAreHeld ==
    ASSUME NEW T
    PROVE  \A seqs \in Seq(Seq(T)) : \A k \in DOMAIN seqs :
              Elements(seqs[k]) \subseteq Elements(FlattenSeq(seqs))
<1> DEFINE Holds(seqs) == \A k \in DOMAIN seqs :
                             Elements(seqs[k]) \subseteq Elements(FlattenSeq(seqs))
           S == {seqs \in Seq(Seq(T)) : Holds(seqs)}
<1>1. <<>> \in S
  <2>1. <<>> \in Seq(Seq(T)) /\ DOMAIN <<>> = {}
    BY EmptySeq
  <2> QED  BY <2>1
<1>2. ASSUME NEW seqs \in Seq(Seq(T)), NEW s \in Seq(T), Holds(seqs)
      PROVE  Holds(Append(seqs, s))
  <2>1. FlattenSeq(Append(seqs, s)) = FlattenSeq(seqs) \o s
    BY FlattenSeqAppend
  <2>2. FlattenSeq(seqs) \in Seq(T)
    BY FlattenSeqTyped
  <2>3. /\ Elements(FlattenSeq(seqs)) \subseteq Elements(FlattenSeq(seqs) \o s)
        /\ Elements(s) \subseteq Elements(FlattenSeq(seqs) \o s)
    BY <2>2, PiecesAreHeld
  <2>4. /\ DOMAIN Append(seqs, s) = DOMAIN seqs \cup {Len(seqs) + 1}
        /\ \A k \in DOMAIN seqs : Append(seqs, s)[k] = seqs[k]
        /\ Append(seqs, s)[Len(seqs) + 1] = s
    BY AppendAddsLast
  <2>5. PICK longer : longer = Append(seqs, s)
    OBVIOUS
  <2>6. PICK last : last = Len(seqs) + 1
    OBVIOUS
  <2>7. \A k \in DOMAIN longer : Elements(longer[k]) \subseteq Elements(FlattenSeq(longer))
    <3> SUFFICES ASSUME NEW k \in DOMAIN longer
                 PROVE  Elements(longer[k]) \subseteq Elements(FlattenSeq(longer))
      OBVIOUS
    <3>1. CASE k \in DOMAIN seqs
      BY <1>2, <2>1, <2>3, <2>4, <2>5, <3>1
    <3>2. CASE k = last
      BY <2>1, <2>3, <2>4, <2>5, <2>6, <3>2
    <3> QED  BY <2>4, <2>5, <2>6, <3>1, <3>2
  <2> QED  BY <2>5, <2>7
<1> HIDE DEF Holds
<1>3. \A seqs \in Seq(Seq(T)), s \in Seq(T) : seqs \in S => Append(seqs, s) \in S
  BY <1>2, AppendProperties
<1> HIDE DEF S
<1>4. \A seqs \in Seq(Seq(T)) : seqs \in S
  BY <1>1, <1>3, SequenceInduction
<1> QED  BY <1>4 DEF S, Holds

-----------------------------------------------------------------------------
(* What comes last of a kind.                                              *)
(* Of the elements of S, x comes last in the sequence.                     *)
LastOf(seq, S, x) ==
    \E i \in DOMAIN seq : seq[i] = x /\ \A j \in DOMAIN seq : j > i => seq[j] \notin S

LEMMA ConcatParts ==
    ASSUME NEW T, NEW s \in Seq(T), NEW t \in Seq(T)
    PROVE  /\ Len(s) \in Nat /\ Len(t) \in Nat
           /\ DOMAIN s = 1 .. Len(s) /\ DOMAIN t = 1 .. Len(t)
           /\ DOMAIN (s \o t) = 1 .. Len(s) + Len(t)
           /\ \A i \in 1 .. Len(s) : (s \o t)[i] = s[i]
           /\ \A i \in 1 .. Len(t) : (s \o t)[Len(s) + i] = t[i]
  OBVIOUS

LEMMA LastInTheEnd ==
    ASSUME NEW T, NEW s \in Seq(T), NEW t \in Seq(T), NEW S, NEW x, LastOf(t, S, x)
    PROVE  LastOf(s \o t, S, x)
  <1> DEFINE m == Len(s)
             n == Len(t)
  <1>1. PICK whole : whole = s \o t
    OBVIOUS
  <1>2. /\ m \in Nat /\ n \in Nat
        /\ DOMAIN t = 1 .. n
        /\ DOMAIN whole = 1 .. m + n
        /\ \A i \in 1 .. n : whole[m + i] = t[i]
    BY <1>1, ConcatParts
  <1>3. PICK i \in 1 .. n : t[i] = x /\ \A j \in 1 .. n : j > i => t[j] \notin S
    BY <1>2 DEF LastOf
  <1> HIDE DEF m, n
  <1>4. m + i \in 1 .. m + n /\ whole[m + i] = x
    BY <1>2, <1>3
  <1>5. ASSUME NEW j \in 1 .. m + n, j > m + i
        PROVE  whole[j] \notin S
    <2>1. j - m \in 1 .. n /\ j - m > i /\ m + (j - m) = j
      BY <1>2, <1>5
    <2>2. whole[m + (j - m)] = t[j - m]
      BY <1>2, <2>1
    <2> QED  BY <1>3, <2>1, <2>2
  <1>6. LastOf(whole, S, x)
    BY <1>2, <1>4, <1>5 DEF LastOf
  <1> QED  BY <1>1, <1>6

LEMMA LastBeforeSilence ==
    ASSUME NEW T, NEW s \in Seq(T), NEW t \in Seq(T), NEW S, NEW x, LastOf(s, S, x),
           Elements(t) \cap S = {}
    PROVE  LastOf(s \o t, S, x)
  <1> DEFINE m == Len(s)
             n == Len(t)
  <1>1. PICK whole : whole = s \o t
    OBVIOUS
  <1>2. /\ m \in Nat /\ n \in Nat
        /\ DOMAIN s = 1 .. m /\ DOMAIN t = 1 .. n
        /\ DOMAIN whole = 1 .. m + n
        /\ \A i \in 1 .. m : whole[i] = s[i]
        /\ \A i \in 1 .. n : whole[m + i] = t[i]
    BY <1>1, ConcatParts
  <1>3. PICK i \in 1 .. m : s[i] = x /\ \A j \in 1 .. m : j > i => s[j] \notin S
    BY <1>2 DEF LastOf
  <1>7. \A j \in 1 .. n : t[j] \notin S
    BY <1>2 DEF Elements
  <1> HIDE DEF m, n
  <1>4. i \in 1 .. m + n /\ whole[i] = x
    BY <1>2, <1>3
  <1>5. ASSUME NEW j \in 1 .. m + n, j > i
        PROVE  whole[j] \notin S
    <2>1. CASE j \in 1 .. m
      BY <1>2, <1>3, <1>5, <2>1
    <2>2. CASE j \notin 1 .. m
      <3>1. j - m \in 1 .. n /\ m + (j - m) = j
        BY <1>2, <2>2
      <3>2. whole[m + (j - m)] = t[j - m]
        BY <1>2, <3>1
      <3> QED  BY <1>7, <3>1, <3>2
    <2> QED  BY <2>1, <2>2
  <1>6. LastOf(whole, S, x)
    BY <1>2, <1>4, <1>5 DEF LastOf
  <1> QED  BY <1>1, <1>6

(* In a flattened sequence it comes last if it does in a part after which   *)
(* no part has any.                                                        *)
LastInPart(seqs, S, x) ==
    \E k \in DOMAIN seqs : /\ LastOf(seqs[k], S, x)
                           /\ \A j \in DOMAIN seqs : j > k => Elements(seqs[j]) \cap S = {}

LEMMA LastOfParts ==
    ASSUME NEW T, NEW S, NEW x
    PROVE  \A seqs \in Seq(Seq(T)) :
              LastInPart(seqs, S, x) => LastOf(FlattenSeq(seqs), S, x)
  <1> DEFINE Holds(seqs) == LastInPart(seqs, S, x) => LastOf(FlattenSeq(seqs), S, x)
             R == {seqs \in Seq(Seq(T)) : Holds(seqs)}
  <1>1. <<>> \in R
    <2>1. <<>> \in Seq(Seq(T)) /\ DOMAIN <<>> = {}
      BY EmptySeq
    <2>2. ~LastInPart(<<>>, S, x)
      BY <2>1 DEF LastInPart
    <2> QED  BY <2>1, <2>2
  <1>2. ASSUME NEW seqs \in Seq(Seq(T)), NEW s \in Seq(T), Holds(seqs)
        PROVE  Holds(Append(seqs, s))
    <2>1. PICK longer : longer = Append(seqs, s)
      OBVIOUS
    <2>2. FlattenSeq(longer) = FlattenSeq(seqs) \o s
      BY <2>1, FlattenSeqAppend
    <2>3. FlattenSeq(seqs) \in Seq(T)
      BY FlattenSeqTyped
    <2>4. /\ DOMAIN longer = DOMAIN seqs \cup {Len(seqs) + 1}
          /\ \A k \in DOMAIN seqs : longer[k] = seqs[k]
          /\ longer[Len(seqs) + 1] = s
          /\ \A k \in DOMAIN seqs : Len(seqs) + 1 > k
          /\ \A k \in DOMAIN seqs : k \in Nat
          /\ Len(seqs) \in Nat
      <3>1. /\ DOMAIN longer = DOMAIN seqs \cup {Len(seqs) + 1}
            /\ \A k \in DOMAIN seqs : longer[k] = seqs[k]
            /\ longer[Len(seqs) + 1] = s
        BY <2>1, AppendAddsLast
      <3>2. DOMAIN seqs = 1 .. Len(seqs) /\ Len(seqs) \in Nat
        BY LenProperties
      <3> QED  BY <3>1, <3>2
    <2>5. PICK n : n = Len(seqs) + 1
      OBVIOUS
    <2>6. SUFFICES ASSUME LastInPart(longer, S, x)
                   PROVE  LastOf(FlattenSeq(seqs) \o s, S, x)
      BY <2>1, <2>2
    <2>7. PICK k \in DOMAIN longer :
            /\ LastOf(longer[k], S, x)
            /\ \A j \in DOMAIN longer : j > k => Elements(longer[j]) \cap S = {}
      BY <2>6 DEF LastInPart
    <2>8. CASE k = n
      <3>1. LastOf(s, S, x)
        BY <2>4, <2>5, <2>7, <2>8
      <3> QED  BY <2>3, <3>1, LastInTheEnd
    <2>9. CASE k # n
      <3>1. k \in DOMAIN seqs
        BY <2>4, <2>5, <2>9
      <3>2. n \in DOMAIN longer /\ n > k /\ longer[n] = s
        BY <2>4, <2>5, <3>1
      <3>3. Elements(s) \cap S = {}
        BY <2>7, <3>2
      <3>4. LastOf(seqs[k], S, x)
        BY <2>4, <2>7, <3>1
      <3>5. \A j \in DOMAIN seqs : j > k => Elements(seqs[j]) \cap S = {}
        BY <2>4, <2>7
      <3>6. LastOf(FlattenSeq(seqs), S, x)
        BY <1>2, <3>1, <3>4, <3>5 DEF LastInPart
      <3> QED  BY <2>3, <3>3, <3>6, LastBeforeSilence
    <2> QED  BY <2>8, <2>9
  <1> HIDE DEF Holds
  <1>3. \A seqs \in Seq(Seq(T)), s \in Seq(T) : seqs \in R => Append(seqs, s) \in R
    BY <1>2, AppendProperties
  <1> HIDE DEF R
  <1>4. \A seqs \in Seq(Seq(T)) : seqs \in R
    BY <1>1, <1>3, SequenceInduction
  <1> QED  BY <1>4 DEF R, Holds

-----------------------------------------------------------------------------
(* FoldLeft goes through the elements of a sequence as the greatest of the *)
(* positions that are left.                                                *)
LEMMA GreatestIs ==
    ASSUME NEW m \in Nat, NEW s \in SUBSET (1 .. m), m \in s
    PROVE  Max(s) = m
<1>1. \A x \in s : (\A y \in s : x >= y) => x = m
  OBVIOUS
<1>2. \A y \in s : m >= y
  OBVIOUS
<1>3. Max(s) \in s /\ \A y \in s : Max(s) >= y
  BY <1>2 DEF Max
<1> QED  BY <1>1, <1>3

Iterates(iter, n, base, seq) ==
    iter = [s \in SUBSET (1 .. n) |->
               IF s = {} THEN base ELSE Op(iter[s \ {Max(s)}], seq[Max(s)])]

LEMMA IterationExists ==
    ASSUME NEW n \in Nat, NEW base, NEW seq
    PROVE  \E iter : Iterates(iter, n, base, seq)
<1> DEFINE Exists(m) == \E iter : Iterates(iter, m, base, seq)
           S == {m \in Nat : Exists(m)}
<1>1. Exists(0)
  <2> DEFINE iter == [s \in SUBSET (1 .. 0) |-> base]
  <2>1. \A s \in SUBSET (1 .. 0) : s = {}
    OBVIOUS
  <2>2. Iterates(iter, 0, base, seq)
    BY <2>1 DEF Iterates
  <2> HIDE DEF iter
  <2> QED  BY <2>2
<1>2. ASSUME NEW m \in Nat, Exists(m)
      PROVE  Exists(m + 1)
  <2>1. PICK iter : Iterates(iter, m, base, seq)
    BY <1>2
  <2> DEFINE longer == [s \in SUBSET (1 .. m + 1) |->
                 IF m + 1 \in s THEN Op(iter[s \ {m + 1}], seq[m + 1]) ELSE iter[s]]
  <2>2. \A s \in SUBSET (1 .. m) : s \in SUBSET (1 .. m + 1) /\ m + 1 \notin s
    OBVIOUS
  <2>7. \A s \in SUBSET (1 .. m) :
           iter[s] = IF s = {} THEN base ELSE Op(iter[s \ {Max(s)}], seq[Max(s)])
    BY <2>1 DEF Iterates
  <2>3. ASSUME NEW s \in SUBSET (1 .. m + 1)
        PROVE  longer[s] = IF s = {} THEN base ELSE Op(longer[s \ {Max(s)}], seq[Max(s)])
    <3>1. CASE m + 1 \in s
      <4>1. Max(s) = m + 1
        BY <3>1, GreatestIs
      <4>2. s \ {m + 1} \in SUBSET (1 .. m)
        OBVIOUS
      <4>3. longer[s \ {m + 1}] = iter[s \ {m + 1}]
        BY <2>2, <4>2
      <4> QED  BY <3>1, <4>1, <4>3
    <3>2. CASE m + 1 \notin s
      <4>1. s \in SUBSET (1 .. m)
        BY <3>2
      <4>2. s \ {Max(s)} \in SUBSET (1 .. m)
        BY <4>1
      <4>3. longer[s \ {Max(s)}] = iter[s \ {Max(s)}]
        BY <2>2, <4>2
      <4>4. longer[s] = iter[s]
        BY <3>2
      <4> QED  BY <2>7, <4>1, <4>3, <4>4
    <3> QED  BY <3>1, <3>2
  <2>4. longer = [s \in SUBSET (1 .. m + 1) |-> longer[s]]
    OBVIOUS
  <2> HIDE DEF longer
  <2>5. Iterates(longer, m + 1, base, seq)
    BY <2>3, <2>4 DEF Iterates
  <2> QED  BY <2>5
<1> HIDE DEF Exists
<1>3. 0 \in S /\ \A m \in Nat : m \in S => m + 1 \in S
  BY <1>1, <1>2
<1> HIDE DEF S
<1>4. \A m \in Nat : m \in S
  BY <1>3, Induction
<1>5. Exists(n)
  BY <1>4 DEF S
<1> QED  BY <1>5 DEF Exists

Fold(base, seq) == FoldLeft(Op, base, seq)

(* ... so that what it returns is the last of a run through the sequence.  *)
Runs(run, base, seq) ==
    /\ run[0] = base
    /\ \A i \in 1 .. Len(seq) : run[i] = Op(run[i - 1], seq[i])

LEMMA FoldRuns ==
    ASSUME NEW T, NEW seq \in Seq(T), NEW base
    PROVE  \E run : Runs(run, base, seq) /\ Fold(base, seq) = run[Len(seq)]
<1> DEFINE n == Len(seq)
<1>1. n \in Nat /\ DOMAIN seq = 1 .. n
  BY LenProperties
<1> HIDE DEF n
<1> DEFINE iter == CHOOSE f : Iterates(f, n, base, seq)
           run == [i \in 0 .. n |-> iter[1 .. i]]
<1>2. Fold(base, seq) = iter[1 .. n]
  BY <1>1 DEF Fold, FoldLeft, MapThenFoldSet, Iterates
<1>3. Iterates(iter, n, base, seq)
  BY <1>1, IterationExists
<1> HIDE DEF iter
<1>4. \A s \in SUBSET (1 .. n) :
         iter[s] = IF s = {} THEN base ELSE Op(iter[s \ {Max(s)}], seq[Max(s)])
  BY <1>3 DEF Iterates
<1>5. run[0] = base
  <2>1. 1 .. 0 = {} /\ {} \in SUBSET (1 .. n) /\ 0 \in 0 .. n
    BY <1>1
  <2> QED  BY <1>4, <2>1
<1>6. ASSUME NEW i \in 1 .. n
      PROVE  run[i] = Op(run[i - 1], seq[i])
  <2>1. /\ i \in Nat
        /\ 1 .. i \in SUBSET (1 .. n)
        /\ 1 .. i \in SUBSET (1 .. i)
        /\ 1 .. i # {}
        /\ i \in 1 .. i
        /\ (1 .. i) \ {i} = 1 .. i - 1
    BY <1>1
  <2>2. Max(1 .. i) = i
    BY <2>1, GreatestIs
  <2>3. iter[1 .. i] = Op(iter[1 .. i - 1], seq[i])
    BY <1>4, <2>1, <2>2
  <2>4. i \in 0 .. n /\ i - 1 \in 0 .. n
    BY <1>1
  <2>5. run[i] = iter[1 .. i] /\ run[i - 1] = iter[1 .. i - 1]
    BY <2>4
  <2> QED  BY <2>3, <2>5
<1>7. run[n] = iter[1 .. n]
  BY <1>1
<1> HIDE DEF run
<1> QED  BY <1>2, <1>5, <1>6, <1>7 DEF Runs, n

LEMMA RunsAgree ==
    ASSUME NEW n \in Nat, NEW run, NEW other, run[0] = other[0], NEW seq,
           \A i \in 1 .. n : run[i] = Op(run[i - 1], seq[i]),
           \A i \in 1 .. n : other[i] = Op(other[i - 1], seq[i])
    PROVE  run[n] = other[n]
<1> DEFINE S == {i \in 0 .. n : run[i] = other[i]}
<1>1. 0 \in S
  OBVIOUS
<1>2. \A i \in 0 .. n - 1 : i \in S => i + 1 \in S
  <2> SUFFICES ASSUME NEW i \in 0 .. n - 1, run[i] = other[i]
               PROVE  run[i + 1] = other[i + 1]
    OBVIOUS
  <2>1. i + 1 \in 1 .. n /\ (i + 1) - 1 = i
    OBVIOUS
  <2>2. run[i + 1] = Op(run[i], seq[i + 1]) /\ other[i + 1] = Op(other[i], seq[i + 1])
    BY <2>1
  <2> QED  BY <2>2
<1> HIDE DEF S
<1>3. \A i \in 0 .. n : i \in S
  BY <1>1, <1>2, InductionUpTo
<1> QED  BY <1>3 DEF S

(* Nothing is done for the empty sequence, and the last element last.      *)
LEMMA FoldEmpty ==
    ASSUME NEW base
    PROVE  Fold(base, <<>>) = base
<1>1. <<>> \in Seq({}) /\ Len(<<>>) = 0
  BY EmptySeq
<1>2. PICK run : Runs(run, base, <<>>) /\ Fold(base, <<>>) = run[Len(<<>>)]
  BY <1>1, FoldRuns
<1> QED  BY <1>1, <1>2 DEF Runs

LEMMA FoldAppend ==
    ASSUME NEW T, NEW seq \in Seq(T), NEW x \in T, NEW base
    PROVE  Fold(base, Append(seq, x)) = Op(Fold(base, seq), x)
<1> DEFINE n == Len(seq)
           longer == Append(seq, x)
<1>1. /\ n \in Nat
      /\ longer \in Seq(T)
      /\ Len(longer) = n + 1
      /\ \A i \in 1 .. n : longer[i] = seq[i]
      /\ longer[n + 1] = x
  OBVIOUS
<1> HIDE DEF longer, n
<1>2. PICK run : Runs(run, base, seq) /\ Fold(base, seq) = run[n]
  BY FoldRuns DEF n
<1>3. PICK other : Runs(other, base, longer) /\ Fold(base, longer) = other[n + 1]
  BY <1>1, FoldRuns
<1>4. other[n + 1] = Op(other[n], x)
  <2>1. n + 1 \in 1 .. n + 1 /\ (n + 1) - 1 = n
    BY <1>1
  <2> QED  BY <1>1, <1>3, <2>1 DEF Runs
<1>5. run[n] = other[n]
  <2>1. \A i \in 1 .. n : i \in 1 .. n + 1
    BY <1>1
  <2>2. /\ run[0] = other[0]
        /\ \A i \in 1 .. n : run[i] = Op(run[i - 1], seq[i])
        /\ \A i \in 1 .. n : other[i] = Op(other[i - 1], seq[i])
    BY <1>1, <1>2, <1>3, <2>1 DEF Runs, n
  <2> QED  BY <1>1, <2>2, RunsAgree
<1> QED  BY <1>2, <1>3, <1>4, <1>5 DEF longer

LEMMA FoldSingle ==
    ASSUME NEW base, NEW x
    PROVE  Fold(base, <<x>>) = Op(base, x)
<1>1. <<>> \in Seq({x}) /\ Append(<<>>, x) = <<x>>
  BY EmptySeq
<1>2. Fold(base, Append(<<>>, x)) = Op(Fold(base, <<>>), x)
  BY <1>1, FoldAppend
<1> QED  BY <1>1, <1>2, FoldEmpty

(* Values of a kind stay of the kind.                                      *)
LEMMA FoldTyped ==
    ASSUME NEW T, NEW B, NEW base \in B,
           \A v \in B, x \in T : Op(v, x) \in B
    PROVE  \A seq \in Seq(T) : Fold(base, seq) \in B
<1> DEFINE S == {seq \in Seq(T) : Fold(base, seq) \in B}
<1>1. <<>> \in S
  BY FoldEmpty, EmptySeq
<1>2. \A seq \in Seq(T), x \in T : seq \in S => Append(seq, x) \in S
  BY FoldAppend, AppendProperties
<1> HIDE DEF S
<1>3. \A seq \in Seq(T) : seq \in S
  BY <1>1, <1>2, SequenceInduction
<1> QED  BY <1>3 DEF S

(* One sequence after another.                                             *)
LEMMA FoldConcat ==
    ASSUME NEW T, NEW base, NEW s \in Seq(T)
    PROVE  \A t \in Seq(T) : Fold(base, s \o t) = Fold(Fold(base, s), t)
<1> DEFINE S == {t \in Seq(T) :
                    Fold(base, s \o t) = Fold(Fold(base, s), t)}
<1>1. <<>> \in S
  <2>1. s \o <<>> = s /\ <<>> \in Seq(T)
    BY EmptySeq, ConcatEmptySeq
  <2> QED  BY <2>1, FoldEmpty
<1>2. ASSUME NEW t \in Seq(T), NEW x \in T, t \in S
      PROVE  Append(t, x) \in S
  <2>1. s \o t \in Seq(T) /\ Append(t, x) \in Seq(T)
    BY ConcatProperties, AppendProperties
  <2>2. Fold(base, Append(s \o t, x)) = Op(Fold(base, s \o t), x)
    BY <2>1, FoldAppend
  <2>3. Fold(Fold(base, s), Append(t, x))
          = Op(Fold(Fold(base, s), t), x)
    BY FoldAppend
  <2>4. s \o Append(t, x) = Append(s \o t, x)
    BY AppendToConcat
  <2> QED  BY <1>2, <2>1, <2>2, <2>3, <2>4
<1> HIDE DEF S
<1>3. \A t \in Seq(T) : t \in S
  BY <1>1, <1>2, SequenceInduction
<1> QED  BY <1>3 DEF S

=============================================================================
