------------------------- MODULE Conversation_proofs -------------------------
(***************************************************************************)
(* What an agent reads, for any turns, calls, frames, editors and limits:  *)
(* the answers of the model (module ModelStream), the history a request is *)
(* built from (module History) and the stores of its memory (Memory).      *)
(***************************************************************************)
EXTENDS Memory, History, ModelStream, FiniteSetTheorems, SequenceTheorems, WellFoundedInduction, TLAPS

(* A set of naturals with a member has a least one.                         *)
LEMMA LeastOf ==
  ASSUME NEW S \in SUBSET Nat, S # {}
  PROVE  \E c \in S : \A d \in S : c <= d
<1> DEFINE R == StrictSubsetOrdering(Nat)
           T == {0..c : c \in S}
<1>1. IsWellFoundedOn(R, FiniteSubsetsOf(Nat))
  BY FS_StrictSubsetOrderingWellFounded
<1>2. T \subseteq FiniteSubsetsOf(Nat) /\ T # {}
  <2>1. \A c \in S : IsFiniteSet(0..c) /\ 0..c \subseteq Nat
    BY FS_Interval
  <2> QED
    BY <2>1 DEF FiniteSubsetsOf
<1> HIDE DEF R
<1>3. \E x \in T : \A y \in T : ~(<<y, x>> \in R)
  BY <1>1, <1>2, WFMin
<1>4. PICK c \in S : \A d \in S : ~(<<0..d, 0..c>> \in R)
  BY <1>3
<1>5. \A d \in S : c <= d
  <2> TAKE d \in S
  <2>1. ~(<<0..d, 0..c>> \in R)
    BY <1>4
  <2>2. d < c => 0..d \subseteq 0..c /\ c \in 0..c /\ c \notin 0..d
    OBVIOUS
  <2>3. d < c => <<0..d, 0..c>> \in R
    BY <2>2 DEF R, StrictSubsetOrdering
  <2> QED
    BY <2>1, <2>3
<1> QED
  BY <1>5

(* Induction over a range of positions, with a set for the property.        *)
LEMMA Upwards ==
  ASSUME NEW N \in Nat, NEW P, 0 \in P, \A n \in 0..N : n \in P /\ n < N => n + 1 \in P
  PROVE  \A n \in 0..N : n \in P
<1> SUFFICES ASSUME NEW n \in 0..N, n \notin P PROVE FALSE
  OBVIOUS
<1> DEFINE Bad == {m \in 0..N : m \notin P}
<1>1. Bad \in SUBSET Nat /\ Bad # {}
  OBVIOUS
<1> HIDE DEF Bad
<1>2. PICK c \in Bad : \A d \in Bad : c <= d
  BY <1>1, LeastOf
<1>3. c \in 0..N /\ c \notin P /\ c # 0
  BY <1>2 DEF Bad
<1>4. c - 1 \in 0..N /\ c - 1 < N /\ c - 1 \notin Bad
  BY <1>1, <1>2, <1>3
<1>5. c - 1 \in P
  BY <1>4 DEF Bad
<1> QED
  BY <1>3, <1>4, <1>5

(* The earliest of places is one of them, before the others.                *)
LEMMA EarliestIsOne ==
  ASSUME NEW S \in SUBSET Nat, S # {}
  PROVE  Earliest(S) \in S /\ \A d \in S : Earliest(S) <= d
<1>1. \E c \in S : \A d \in S : c <= d
  BY LeastOf
<1> QED
  BY <1>1 DEF Earliest

(* Which of some places is the earliest.                                   *)
LEMMA EarliestIs ==
  ASSUME NEW S \in SUBSET Nat, NEW c \in S, \A d \in S : c <= d
  PROVE  Earliest(S) = c
<1>1. PICK e : e = Earliest(S)
  OBVIOUS
<1>2. e \in S /\ \A d \in S : e <= d
  BY <1>1, EarliestIsOne
<1>3. e \in Nat /\ c \in Nat /\ e <= c /\ c <= e
  BY <1>2
<1> QED
  BY <1>1, <1>3

(* ... and stays it when a later place joins them.                          *)
LEMMA EarliestStays ==
  ASSUME NEW S \in SUBSET Nat, NEW n \in Nat, \A d \in S : d < n
  PROVE  Earliest(S \union {n}) = IF S = {} THEN n ELSE Earliest(S)
<1>1. CASE S = {}
  <2>1. S \union {n} = {n} /\ {n} \in SUBSET Nat
    BY <1>1
  <2> QED
    BY <1>1, <2>1, EarliestIs
<1>2. CASE S # {}
  <2>1. PICK c \in S : c = Earliest(S) /\ \A d \in S : c <= d
    BY <1>2, EarliestIsOne
  <2>2. S \union {n} \in SUBSET Nat /\ c \in S \union {n} /\ \A d \in S \union {n} : c <= d
    BY <2>1
  <2> QED
    BY <1>2, <2>1, <2>2, EarliestIs
<1> QED
  BY <1>1, <1>2

-----------------------------------------------------------------------------
(* The pieces of an index, fragment by fragment: the recursion in MeantArgs.*)

IsPieces(s, i, f) ==
  f = [n \in 0..Len(s) |->
        IF n = 0 THEN <<>> ELSE IF s[n].index = i THEN f[n - 1] \o s[n].pieces ELSE f[n - 1]]
Pieces(s, i) == CHOOSE f : IsPieces(s, i, f)

(* What a call was meant to be given, by that recursion.                   *)
LEMMA MeantArgsIs == ASSUME NEW i PROVE MeantArgs(i) = Pieces(received, i)[Len(received)]
BY DEF MeantArgs, Pieces, IsPieces

(* Two such functions agree where both are defined.                         *)
LEMMA PiecesAgree ==
  ASSUME NEW S, NEW s \in Seq(S), NEW t \in Seq(S), NEW i, NEW f, NEW g, IsPieces(s, i, f), IsPieces(t, i, g),
         Len(s) <= Len(t), \A n \in 1..Len(s) : s[n] = t[n]
  PROVE  \A n \in 0..Len(s) : f[n] = g[n]
<1> DEFINE P == {n \in 0..Len(s) : f[n] = g[n]}
<1>1. Len(s) \in Nat /\ Len(t) \in Nat
  OBVIOUS
<1>a. \A n \in 0..Len(s) : f[n] = IF n = 0 THEN <<>> ELSE IF s[n].index = i THEN f[n - 1] \o s[n].pieces ELSE f[n - 1]
  BY <1>1 DEF IsPieces
<1>b. \A n \in 0..Len(t) : g[n] = IF n = 0 THEN <<>> ELSE IF t[n].index = i THEN g[n - 1] \o t[n].pieces ELSE g[n - 1]
  BY <1>1 DEF IsPieces
<1>2. 0 \in P
  BY <1>1, <1>a, <1>b
<1>3. ASSUME NEW n \in 0..Len(s), n \in P, n < Len(s) PROVE n + 1 \in P
  <2>1. n + 1 \in 0..Len(s) /\ n + 1 \in 0..Len(t) /\ n + 1 # 0 /\ (n + 1) - 1 = n /\ f[n] = g[n]
    BY <1>1, <1>3
  <2>2. s[n + 1] = t[n + 1]
    BY <1>1, <1>3
  <2> QED
    BY <1>a, <1>b, <2>1, <2>2
<1> HIDE DEF P
<1>4. \A n \in 0..Len(s) : n \in P
  BY <1>1, <1>2, <1>3, Upwards
<1> QED
  BY <1>4 DEF P

(* There is one for each sequence of fragments.                             *)
LEMMA PiecesExist ==
  ASSUME NEW S, NEW s \in Seq(S), NEW i
  PROVE  IsPieces(s, i, Pieces(s, i))
<1> DEFINE Upto(n, f) ==
      f = [m \in 0..n |->
            IF m = 0 THEN <<>> ELSE IF s[m].index = i THEN f[m - 1] \o s[m].pieces ELSE f[m - 1]]
           P == {n \in 0..Len(s) : \E f : Upto(n, f)}
<1>1. Len(s) \in Nat
  OBVIOUS
<1>2. 0 \in P
  <2>1. \E f : Upto(0, f)
    <3>1. Upto(0, [m \in 0..0 |-> <<>>])
      OBVIOUS
    <3> HIDE DEF Upto
    <3> QED
      BY <3>1
  <2> HIDE DEF Upto
  <2> QED
    BY <1>1, <2>1
<1>3. ASSUME NEW n \in 0..Len(s), n \in P, n < Len(s) PROVE n + 1 \in P
  <2>1. PICK f : Upto(n, f)
    BY <1>3
  <2> DEFINE last == IF s[n + 1].index = i THEN f[n] \o s[n + 1].pieces ELSE f[n]
             g == [m \in 0..(n + 1) |-> IF m = n + 1 THEN last ELSE f[m]]
  <2>2. ASSUME NEW m \in 0..(n + 1)
        PROVE  g[m] = IF m = 0 THEN <<>> ELSE IF s[m].index = i THEN g[m - 1] \o s[m].pieces ELSE g[m - 1]
    <3>1. CASE m = n + 1
      <4>1. m - 1 = n /\ n \in 0..(n + 1) /\ n # n + 1 /\ m # 0
        BY <1>1, <3>1
      <4>2. g[m - 1] = f[n] /\ g[m] = last
        BY <3>1, <4>1
      <4> QED
        BY <3>1, <4>1, <4>2
    <3>2. CASE m # n + 1
      <4>1. m \in 0..n /\ g[m] = f[m]
        BY <1>1, <3>2
      <4>2. m # 0 => m - 1 \in 0..(n + 1) /\ m - 1 # n + 1 /\ g[m - 1] = f[m - 1]
        BY <1>1, <4>1
      <4> HIDE DEF g
      <4> QED
        BY <2>1, <4>1, <4>2
    <3> QED
      BY <3>1, <3>2
  <2>3. g = [m \in 0..(n + 1) |-> g[m]]
    OBVIOUS
  <2> HIDE DEF g
  <2>4. Upto(n + 1, g)
    BY <2>2, <2>3
  <2> HIDE DEF Upto
  <2> QED
    BY <1>1, <1>3, <2>4
<1> HIDE DEF P
<1>4. \A n \in 0..Len(s) : n \in P
  BY <1>1, <1>2, <1>3, Upwards
<1>5. \E f : IsPieces(s, i, f)
  <2> HIDE DEF Upto
  <2>1. PICK f : Upto(Len(s), f)
    BY <1>1, <1>4 DEF P
  <2>2. IsPieces(s, i, f)
    BY <2>1 DEF Upto, IsPieces
  <2> QED
    BY <2>2
<1> QED
  BY <1>5 DEF Pieces

(* A fragment adds its pieces to those of its index.                        *)
LEMMA PiecesAppend ==
  ASSUME NEW S, NEW s \in Seq(S), NEW i, NEW f \in S
  PROVE  Pieces(Append(s, f), i)[Len(s) + 1]
           = IF f.index = i THEN Pieces(s, i)[Len(s)] \o f.pieces ELSE Pieces(s, i)[Len(s)]
<1> DEFINE t == Append(s, f)
<1>1. /\ t \in Seq(S) /\ Len(t) = Len(s) + 1 /\ Len(s) \in Nat /\ t[Len(s) + 1] = f
      /\ \A n \in 1..Len(s) : s[n] = t[n]
  BY AppendProperties
<1> HIDE DEF t
<1>2. PICK g : g = Pieces(s, i)
  OBVIOUS
<1>3. PICK h : h = Pieces(t, i)
  OBVIOUS
<1>4. IsPieces(s, i, g) /\ IsPieces(t, i, h)
  BY <1>1, <1>2, <1>3, PiecesExist
<1>5. g[Len(s)] = h[Len(s)]
  BY <1>1, <1>4, PiecesAgree
<1>6. \A n \in 0..Len(t) : h[n] = IF n = 0 THEN <<>> ELSE IF t[n].index = i THEN h[n - 1] \o t[n].pieces ELSE h[n - 1]
  BY <1>1, <1>4 DEF IsPieces
<1>7. Len(s) + 1 \in 0..Len(t) /\ Len(s) + 1 # 0 /\ (Len(s) + 1) - 1 = Len(s)
  BY <1>1
<1>8. h[Len(s) + 1] = IF f.index = i THEN g[Len(s)] \o f.pieces ELSE g[Len(s)]
  BY <1>1, <1>5, <1>6, <1>7
<1> QED
  BY <1>2, <1>3, <1>8 DEF t

(* ... and an index none of the fragments has has none.                     *)
LEMMA PiecesNone ==
  ASSUME NEW S, NEW s \in Seq(S), NEW i, \A n \in 1..Len(s) : s[n].index # i
  PROVE  Pieces(s, i)[Len(s)] = <<>>
<1>1. Len(s) \in Nat
  OBVIOUS
<1>2. PICK f : f = Pieces(s, i)
  OBVIOUS
<1>3. IsPieces(s, i, f)
  BY <1>2, PiecesExist
<1>4. \A n \in 0..Len(s) : f[n] = IF n = 0 THEN <<>> ELSE IF s[n].index = i THEN f[n - 1] \o s[n].pieces ELSE f[n - 1]
  BY <1>1, <1>3 DEF IsPieces
<1> DEFINE P == {n \in 0..Len(s) : f[n] = <<>>}
<1>5. 0 \in P
  BY <1>1, <1>4
<1>6. ASSUME NEW n \in 0..Len(s), n \in P, n < Len(s) PROVE n + 1 \in P
  <2>1. n + 1 \in 0..Len(s) /\ n + 1 \in 1..Len(s) /\ n + 1 # 0 /\ (n + 1) - 1 = n /\ f[n] = <<>>
    BY <1>1, <1>6
  <2> QED
    BY <1>4, <2>1
<1> HIDE DEF P
<1>7. \A n \in 0..Len(s) : n \in P
  BY <1>1, <1>5, <1>6, Upwards
<1> QED
  BY <1>1, <1>2, <1>7 DEF P

-----------------------------------------------------------------------------
(* The model client: one fragment more.                                     *)

(* What a fragment adds to what is known of a call, as in ReceiveFragment.  *)
Grown(call, f) ==
  [id |-> OrElse(call.id, f.id), name |-> OrElse(call.name, f.name), args |-> call.args \o f.pieces]
Begun == [id |-> Unset, name |-> Unset, args |-> <<>>]
IsSequence(s) == s \in Seq({s[p] : p \in DOMAIN s})
Rank(i) == Cardinality({j \in Indices : FirstPlace(j) <= FirstPlace(i)})

(* Positions and their fragments, before and after.                         *)
LEMMA Received ==
  ASSUME received \in Seq(Fragments), NEW f \in Fragments, received' = Append(received, f)
  PROVE  /\ Len(received) \in Nat /\ received' \in Seq(Fragments)
         /\ DOMAIN received = 1..Len(received) /\ DOMAIN received' = 1..(Len(received) + 1)
         /\ Len(received') = Len(received) + 1
         /\ \A k \in 1..Len(received) : received'[k] = received[k]
         /\ received'[Len(received) + 1] = f
BY AppendProperties

(* A fragment more belongs to its index alone.                             *)
LEMMA FragmentsGrow ==
  ASSUME received \in Seq(Fragments), NEW f \in Fragments, received' = Append(received, f), NEW i
  PROVE  /\ FragmentsOf(i) \in SUBSET (1..Len(received))
         /\ FragmentsOf(i)' = IF f.index = i THEN FragmentsOf(i) \union {Len(received) + 1}
                                             ELSE FragmentsOf(i)
BY Received DEF FragmentsOf

(* The first id and the first name an index was given.                      *)
LEMMA MeantIdGrows ==
  ASSUME received \in Seq(Fragments), NEW f \in Fragments, received' = Append(received, f), NEW i
  PROVE  MeantId(i)' = IF f.index = i THEN OrElse(MeantId(i), f.id) ELSE MeantId(i)
<1> DEFINE given == {k \in FragmentsOf(i) : received[k].id # Unset}
           after == {k \in FragmentsOf(i)' : received'[k].id # Unset}
           n == Len(received) + 1
<1>1. PICK g : g = given
  OBVIOUS
<1>2. PICK h : h = after
  OBVIOUS
<1>3. /\ n \in Nat /\ received'[n] = f /\ \A k \in 1..Len(received) : received'[k] = received[k] /\ k < n /\ k \in Nat
      /\ FragmentsOf(i) \in SUBSET (1..Len(received))
      /\ FragmentsOf(i)' = IF f.index = i THEN FragmentsOf(i) \union {n} ELSE FragmentsOf(i)
  BY Received, FragmentsGrow
<1>4. g \in SUBSET Nat /\ g \subseteq 1..Len(received) /\ \A d \in g : d < n
  BY <1>1, <1>3
<1>5. h = IF f.index = i /\ f.id # Unset THEN g \union {n} ELSE g
  BY <1>1, <1>2, <1>3
<1>6. MeantId(i) = IF g = {} THEN Unset ELSE received[Earliest(g)].id
  BY <1>1 DEF MeantId
<1>7. MeantId(i)' = IF h = {} THEN Unset ELSE received'[Earliest(h)].id
  BY <1>2 DEF MeantId, Earliest
<1>8. g # {} => Earliest(g) \in g
  BY <1>4, EarliestIsOne
<1>9. \A k \in g : received[k].id # Unset
  BY <1>1
<1> HIDE DEF given, after, n
<1>10. CASE f.index = i /\ f.id # Unset
  <2>1. Earliest(h) = IF g = {} THEN n ELSE Earliest(g)
    BY <1>3, <1>4, <1>5, <1>10, EarliestStays
  <2> QED
    BY <1>3, <1>4, <1>5, <1>6, <1>7, <1>8, <1>9, <1>10, <2>1 DEF OrElse
<1>11. CASE ~(f.index = i /\ f.id # Unset)
  BY <1>3, <1>4, <1>5, <1>6, <1>7, <1>8, <1>9, <1>11 DEF OrElse
<1> QED
  BY <1>10, <1>11

(* The first name, likewise.                                               *)
LEMMA MeantNameGrows ==
  ASSUME received \in Seq(Fragments), NEW f \in Fragments, received' = Append(received, f), NEW i
  PROVE  MeantName(i)' = IF f.index = i THEN OrElse(MeantName(i), f.name) ELSE MeantName(i)
<1> DEFINE given == {k \in FragmentsOf(i) : received[k].name # Unset}
           after == {k \in FragmentsOf(i)' : received'[k].name # Unset}
           n == Len(received) + 1
<1>1. PICK g : g = given
  OBVIOUS
<1>2. PICK h : h = after
  OBVIOUS
<1>3. /\ n \in Nat /\ received'[n] = f /\ \A k \in 1..Len(received) : received'[k] = received[k] /\ k < n /\ k \in Nat
      /\ FragmentsOf(i) \in SUBSET (1..Len(received))
      /\ FragmentsOf(i)' = IF f.index = i THEN FragmentsOf(i) \union {n} ELSE FragmentsOf(i)
  BY Received, FragmentsGrow
<1>4. g \in SUBSET Nat /\ g \subseteq 1..Len(received) /\ \A d \in g : d < n
  BY <1>1, <1>3
<1>5. h = IF f.index = i /\ f.name # Unset THEN g \union {n} ELSE g
  BY <1>1, <1>2, <1>3
<1>6. MeantName(i) = IF g = {} THEN Unset ELSE received[Earliest(g)].name
  BY <1>1 DEF MeantName
<1>7. MeantName(i)' = IF h = {} THEN Unset ELSE received'[Earliest(h)].name
  BY <1>2 DEF MeantName, Earliest
<1>8. g # {} => Earliest(g) \in g
  BY <1>4, EarliestIsOne
<1>9. \A k \in g : received[k].name # Unset
  BY <1>1
<1> HIDE DEF given, after, n
<1>10. CASE f.index = i /\ f.name # Unset
  <2>1. Earliest(h) = IF g = {} THEN n ELSE Earliest(g)
    BY <1>3, <1>4, <1>5, <1>10, EarliestStays
  <2> QED
    BY <1>3, <1>4, <1>5, <1>6, <1>7, <1>8, <1>9, <1>10, <2>1 DEF OrElse
<1>11. CASE ~(f.index = i /\ f.name # Unset)
  BY <1>3, <1>4, <1>5, <1>6, <1>7, <1>8, <1>9, <1>11 DEF OrElse
<1> QED
  BY <1>10, <1>11

(* A fragment adds to the call it belongs to, and to no other.              *)
LEMMA MeantGrows ==
  ASSUME received \in Seq(Fragments), NEW f \in Fragments, received' = Append(received, f), NEW i
  PROVE  Meant(i)' = IF f.index = i THEN Grown(Meant(i), f) ELSE Meant(i)
<1>1. MeantArgs(i) = Pieces(received, i)[Len(received)]
  BY MeantArgsIs
<1>2. MeantArgs(i)' = Pieces(received', i)[Len(received')]
  BY DEF MeantArgs, Pieces, IsPieces
<1>3. MeantArgs(i)' = IF f.index = i THEN MeantArgs(i) \o f.pieces ELSE MeantArgs(i)
  BY <1>1, <1>2, Received, PiecesAppend
<1>4. /\ MeantId(i)' = IF f.index = i THEN OrElse(MeantId(i), f.id) ELSE MeantId(i)
      /\ MeantName(i)' = IF f.index = i THEN OrElse(MeantName(i), f.name) ELSE MeantName(i)
  BY MeantIdGrows, MeantNameGrows
<1>5. Meant(i) = [id |-> MeantId(i), name |-> MeantName(i), args |-> MeantArgs(i)]
  BY DEF Meant
<1>6. Meant(i)' = [id |-> MeantId(i)', name |-> MeantName(i)', args |-> MeantArgs(i)']
  BY DEF Meant
<1>7. Grown(Meant(i), f) = [id |-> OrElse(MeantId(i), f.id), name |-> OrElse(MeantName(i), f.name),
                            args |-> MeantArgs(i) \o f.pieces]
  BY <1>5 DEF Grown
<1> QED
  BY <1>3, <1>4, <1>5, <1>6, <1>7

(* Nothing is meant by an index that has not come.                          *)
LEMMA MeantNothing ==
  ASSUME received \in Seq(Fragments), NEW i, i \notin Indices
  PROVE  Meant(i) = Begun
<1>1. DOMAIN received = 1..Len(received) /\ \A n \in 1..Len(received) : received[n].index # i
  BY DEF Indices
<1>2. FragmentsOf(i) = {}
  BY <1>1 DEF FragmentsOf
<1>3. MeantId(i) = Unset /\ MeantName(i) = Unset
  BY <1>2 DEF MeantId, MeantName
<1>4. MeantArgs(i) = <<>>
  BY <1>1, MeantArgsIs, PiecesNone
<1> QED
  BY <1>3, <1>4 DEF Meant, Begun

(* The first place of an index stays.                                       *)
LEMMA FirstPlaces ==
  ASSUME received \in Seq(Fragments), NEW f \in Fragments, received' = Append(received, f)
  PROVE  /\ Indices' = Indices \union {f.index}
         /\ \A i \in Indices : FirstPlace(i)' = FirstPlace(i) /\ FirstPlace(i) \in 1..Len(received)
         /\ f.index \notin Indices => FirstPlace(f.index)' = Len(received) + 1
<1>1. Indices' = Indices \union {f.index}
  BY Received DEF Indices
<1>2. ASSUME NEW i
      PROVE  /\ i \in Indices => FirstPlace(i)' = FirstPlace(i) /\ FirstPlace(i) \in 1..Len(received)
             /\ f.index = i /\ i \notin Indices => FirstPlace(i)' = Len(received) + 1
  <2>1. PICK g : g = FragmentsOf(i)
    OBVIOUS
  <2>2. PICK h : h = FragmentsOf(i)'
    OBVIOUS
  <2>3. FirstPlace(i) = Earliest(g) /\ FirstPlace(i)' = Earliest(h)
    BY <2>1, <2>2 DEF FirstPlace, Earliest
  <2>4. PICK n : n = Len(received) + 1
    OBVIOUS
  <2>5. /\ n \in Nat /\ g \in SUBSET (1..Len(received)) /\ Len(received) \in Nat
        /\ h = IF f.index = i THEN g \union {n} ELSE g
    BY <2>1, <2>2, <2>4, Received, FragmentsGrow
  <2>6. g \in SUBSET Nat /\ \A d \in g : d < n
    BY <2>4, <2>5
  <2>7. i \in Indices <=> g # {}
    BY <2>1 DEF Indices, FragmentsOf
  <2>8. Earliest(g \union {n}) = IF g = {} THEN n ELSE Earliest(g)
    BY <2>5, <2>6, EarliestStays
  <2>9. g # {} => Earliest(g) \in g
    BY <2>6, EarliestIsOne
  <2> QED
    BY <2>3, <2>4, <2>5, <2>7, <2>8, <2>9
<1> QED
  BY <1>1, <1>2

(* The inductive invariant: each index has a place, in the order they began,*)
(* and the call there is what its fragments say.                            *)
CallsHeld ==
  /\ \A i \in Indices : /\ slot[i] \in 1..Len(calls) /\ slot[i] = Rank(i)
                        /\ calls[slot[i]] = Meant(i)
  /\ \A i, j \in Indices : slot[i] = slot[j] => i = j
  /\ \A p \in 1..Len(calls) : \E i \in Indices : slot[i] = p
ModelInv ==
  /\ received \in Seq(Fragments) /\ IsSequence(calls)
  /\ IsFiniteSet(Indices) /\ slot \in [Indices -> Nat] /\ Len(calls) = Cardinality(Indices)
  /\ CallsHeld
  /\ DOMAIN response = {"text", "stop", "outcome"} /\ response = [k \in DOMAIN response |-> response[k]]
  /\ response.outcome = "final" => CallsAreValid
  /\ response.outcome = "invalid" => ~CallsAreValid \/ (~response.text /\ calls = <<>>)

(* A sequence with an element more, or with another in a place.             *)
LEMMA SequenceGrows ==
  ASSUME NEW s, IsSequence(s), NEW e
  PROVE  /\ Len(s) \in Nat /\ DOMAIN s = 1..Len(s) /\ IsSequence(Append(s, e))
         /\ Len(Append(s, e)) = Len(s) + 1 /\ Append(s, e)[Len(s) + 1] = e
         /\ \A p \in 1..Len(s) : Append(s, e)[p] = s[p]
         /\ \A p \in 1..Len(s) : /\ IsSequence([s EXCEPT ![p] = e]) /\ Len([s EXCEPT ![p] = e]) = Len(s)
                                 /\ [s EXCEPT ![p] = e][p] = e
                                 /\ \A q \in 1..Len(s) : q # p => [s EXCEPT ![p] = e][q] = s[q]
<1> DEFINE S == {s[p] : p \in DOMAIN s}
           T == S \union {e}
<1>1. s \in Seq(S)
  BY DEF IsSequence
<1>2. Len(s) \in Nat /\ DOMAIN s = 1..Len(s) /\ \A p \in 1..Len(s) : s[p] \in S
  BY <1>1
<1> HIDE DEF S
<1>3. s \in Seq(T) /\ e \in T
  BY <1>1, SeqMonotonic
<1> HIDE DEF T
<1>4. ASSUME NEW U, NEW t \in Seq(U) PROVE IsSequence(t)
  <2> DEFINE V == {t[p] : p \in DOMAIN t}
  <2>1. DOMAIN t = 1..Len(t) /\ Len(t) \in Nat
    OBVIOUS
  <2>2. t \in [1..Len(t) -> V]
    BY <2>1
  <2> HIDE DEF V
  <2>3. t \in Seq(V)
    BY <2>1, <2>2
  <2> QED
    BY <2>3 DEF V, IsSequence
<1>5. /\ Append(s, e) \in Seq(T) /\ Len(Append(s, e)) = Len(s) + 1 /\ Append(s, e)[Len(s) + 1] = e
      /\ \A p \in 1..Len(s) : Append(s, e)[p] = s[p]
  BY <1>3, AppendProperties
<1>6. ASSUME NEW p \in 1..Len(s)
      PROVE  /\ [s EXCEPT ![p] = e] \in Seq(T) /\ Len([s EXCEPT ![p] = e]) = Len(s)
             /\ [s EXCEPT ![p] = e][p] = e
             /\ \A q \in 1..Len(s) : q # p => [s EXCEPT ![p] = e][q] = s[q]
  BY <1>3, ExceptSeq
<1> QED
  BY <1>2, <1>4, <1>5, <1>6

(* A fragment of an index that has come.                                    *)
LEMMA KnownFragment ==
  ASSUME ModelInv, NEW f \in Fragments, ReceiveFragment(f), f.index \in Indices
  PROVE  ModelInv'
<1> DEFINE x == f.index
<1>1. /\ received \in Seq(Fragments) /\ IsSequence(calls) /\ received' = Append(received, f)
      /\ slot \in [Indices -> Nat] /\ x \in Indices /\ DOMAIN slot = Indices /\ CallsHeld
      /\ Streams /\ UNCHANGED response
  BY DEF ModelInv, ReceiveFragment
<1>2. PICK p : p = slot[x]
  OBVIOUS
<1>3. PICK c : c = Grown(Meant(x), f)
  OBVIOUS
<1>4. p \in 1..Len(calls) /\ calls[p] = Meant(x)
  BY <1>1, <1>2 DEF CallsHeld
<1>5. Place(f) = p
  BY <1>1, <1>2 DEF Place
<1>6. /\ Len(calls) \in Nat /\ IsSequence([calls EXCEPT ![p] = c]) /\ Len([calls EXCEPT ![p] = c]) = Len(calls)
      /\ [calls EXCEPT ![p] = c][p] = c
      /\ \A q \in 1..Len(calls) : q # p => [calls EXCEPT ![p] = c][q] = calls[q]
  BY <1>1, <1>4, SequenceGrows
<1>7. calls' = [calls EXCEPT ![p] = c] /\ slot' = [i \in DOMAIN slot \union {x} |-> IF i = x THEN p ELSE slot[i]]
  <2>1. p <= Len(calls)
    BY <1>4, <1>6
  <2> QED
    BY <1>3, <1>4, <1>5, <2>1 DEF ReceiveFragment, Grown
<1>8. slot' = slot
  BY <1>1, <1>2, <1>7
<1>9. Indices' = Indices /\ \A i \in Indices : FirstPlace(i)' = FirstPlace(i)
  BY <1>1, FirstPlaces
<1>10. \A i \in Indices : Rank(i)' = Rank(i)
  <2> SUFFICES ASSUME NEW i \in Indices PROVE Rank(i)' = Rank(i)
    OBVIOUS
  <2>1. {j \in Indices : FirstPlace(j) <= FirstPlace(i)}' = {j \in Indices : FirstPlace(j) <= FirstPlace(i)}
    BY <1>9
  <2> QED
    BY <2>1 DEF Rank
<1>11. CallsHeld'
  <2>1. ASSUME NEW i \in Indices'
        PROVE  slot'[i] \in 1..Len(calls') /\ slot'[i] = Rank(i)' /\ calls'[slot'[i]] = Meant(i)'
    <3>1. /\ i \in Indices /\ slot'[i] = slot[i] /\ slot[i] \in 1..Len(calls) /\ slot[i] = Rank(i)
          /\ calls[slot[i]] = Meant(i)
      BY <1>1, <1>8, <1>9 DEF CallsHeld
    <3>2. Meant(i)' = IF x = i THEN Grown(Meant(i), f) ELSE Meant(i)
      BY <1>1, MeantGrows
    <3>3. i # x => slot[i] # p
      BY <1>1, <1>2, <3>1 DEF CallsHeld
    <3>4. calls'[slot'[i]] = Meant(i)'
      BY <1>2, <1>3, <1>6, <1>7, <3>1, <3>2, <3>3
    <3> QED
      BY <1>6, <1>7, <1>10, <3>1, <3>4
  <2>2. \A i, j \in Indices' : slot'[i] = slot'[j] => i = j
    BY <1>1, <1>8, <1>9 DEF CallsHeld
  <2>3. \A q \in 1..Len(calls') : \E i \in Indices' : slot'[i] = q
    BY <1>1, <1>6, <1>7, <1>8, <1>9 DEF CallsHeld
  <2> QED
    BY <2>1, <2>2, <2>3 DEF CallsHeld
<1>12. received' \in Seq(Fragments)
  BY <1>1, Received
<1>13. /\ IsSequence(calls') /\ IsFiniteSet(Indices') /\ slot' \in [Indices' -> Nat]
       /\ Len(calls') = Cardinality(Indices')
  BY <1>1, <1>6, <1>7, <1>8, <1>9 DEF ModelInv
<1>14. /\ DOMAIN response' = {"text", "stop", "outcome"} /\ response' = [k \in DOMAIN response' |-> response'[k]]
       /\ response'.outcome = "streaming"
  BY <1>1 DEF ModelInv, Streams
<1> QED
  BY <1>11, <1>12, <1>13, <1>14 DEF ModelInv

(* A fragment of a new one.                                                 *)
LEMMA NewFragment ==
  ASSUME ModelInv, NEW f \in Fragments, ReceiveFragment(f), f.index \notin Indices
  PROVE  ModelInv'
<1> DEFINE x == f.index
<1>1. /\ received \in Seq(Fragments) /\ IsSequence(calls) /\ received' = Append(received, f)
      /\ slot \in [Indices -> Nat] /\ x \notin Indices /\ DOMAIN slot = Indices /\ CallsHeld
      /\ Streams /\ UNCHANGED response /\ IsFiniteSet(Indices) /\ Len(calls) = Cardinality(Indices)
  BY DEF ModelInv, ReceiveFragment
<1>2. PICK p : p = Len(calls) + 1
  OBVIOUS
<1>3. PICK c : c = Grown(Begun, f)
  OBVIOUS
<1>4. Place(f) = p
  BY <1>1, <1>2 DEF Place
<1>5. /\ Len(calls) \in Nat /\ IsSequence(Append(calls, c)) /\ Len(Append(calls, c)) = p
      /\ Append(calls, c)[p] = c /\ \A q \in 1..Len(calls) : Append(calls, c)[q] = calls[q]
  BY <1>1, <1>2, SequenceGrows
<1>6. calls' = Append(calls, c) /\ slot' = [i \in DOMAIN slot \union {x} |-> IF i = x THEN p ELSE slot[i]]
  <2>1. ~(p <= Len(calls))
    BY <1>2, <1>5
  <2> QED
    BY <1>3, <1>4, <2>1 DEF ReceiveFragment, Grown, Begun
<1>7. Indices' = Indices \union {x}
  BY <1>1, FirstPlaces
<1>8. slot' \in [Indices' -> Nat] /\ slot'[x] = p /\ \A i \in Indices : slot'[i] = slot[i]
  BY <1>1, <1>2, <1>5, <1>6, <1>7
<1>9. /\ \A i \in Indices : FirstPlace(i)' = FirstPlace(i) /\ FirstPlace(i) \in 1..Len(received)
      /\ FirstPlace(x)' = Len(received) + 1 /\ Len(received) \in Nat
  BY <1>1, FirstPlaces, Received
<1>10. IsFiniteSet(Indices') /\ Cardinality(Indices') = p
  <2>1. PICK I : I = Indices
    OBVIOUS
  <2>2. IsFiniteSet(I \union {x}) /\ Cardinality(I \union {x}) = Cardinality(I) + 1
    BY <1>1, <2>1, FS_AddElement
  <2> QED
    BY <1>1, <1>2, <1>7, <2>1, <2>2
<1>11. \A i \in Indices : Rank(i)' = Rank(i)
  <2> SUFFICES ASSUME NEW i \in Indices PROVE Rank(i)' = Rank(i)
    OBVIOUS
  <2>1. {j \in Indices : FirstPlace(j) <= FirstPlace(i)}' = {j \in Indices : FirstPlace(j) <= FirstPlace(i)}
    BY <1>7, <1>9
  <2> QED
    BY <2>1 DEF Rank
<1>12. Rank(x)' = p
  <2>1. {j \in Indices : FirstPlace(j) <= FirstPlace(x)}' = Indices'
    BY <1>7, <1>9
  <2> QED
    BY <1>10, <2>1 DEF Rank
<1>13. CallsHeld'
  <2>1. ASSUME NEW i \in Indices'
        PROVE  slot'[i] \in 1..Len(calls') /\ slot'[i] = Rank(i)' /\ calls'[slot'[i]] = Meant(i)'
    <3>1. Meant(i)' = IF x = i THEN Grown(Meant(i), f) ELSE Meant(i)
      BY <1>1, MeantGrows
    <3>2. CASE i = x
      <4>1. Meant(i)' = c
        BY <1>1, <1>3, <3>1, <3>2, MeantNothing
      <4> QED
        BY <1>2, <1>5, <1>6, <1>8, <1>12, <3>2, <4>1
    <3>3. CASE i # x
      <4>1. /\ i \in Indices /\ slot'[i] = slot[i] /\ slot[i] \in 1..Len(calls) /\ slot[i] = Rank(i)
            /\ calls[slot[i]] = Meant(i)
        BY <1>1, <1>7, <1>8, <3>3 DEF CallsHeld
      <4>2. calls'[slot[i]] = calls[slot[i]]
        BY <1>5, <1>6, <4>1
      <4>3. slot[i] \in 1..Len(calls')
        BY <1>2, <1>5, <1>6, <4>1
      <4> QED
        BY <1>11, <3>1, <3>3, <4>1, <4>2, <4>3
    <3> QED
      BY <3>2, <3>3
  <2>2. \A i, j \in Indices' : slot'[i] = slot'[j] => i = j
    <3>1. \A i \in Indices : slot'[i] # p
      BY <1>1, <1>2, <1>5, <1>8 DEF CallsHeld
    <3> QED
      BY <1>1, <1>7, <1>8, <3>1 DEF CallsHeld
  <2>3. \A q \in 1..Len(calls') : \E i \in Indices' : slot'[i] = q
    <3>1. \A q \in 1..Len(calls') : q = p \/ q \in 1..Len(calls)
      BY <1>2, <1>5, <1>6
    <3> QED
      BY <1>1, <1>7, <1>8, <3>1 DEF CallsHeld
  <2> QED
    BY <2>1, <2>2, <2>3 DEF CallsHeld
<1>14. received' \in Seq(Fragments)
  BY <1>1, Received
<1> QED
  BY <1>1, <1>5, <1>6, <1>8, <1>10, <1>13, <1>14 DEF ModelInv, Streams

(* The answer ends, and what it holds was checked.                          *)
LEMMA AnswerEnds ==
  ASSUME ModelInv, NEW marked \in BOOLEAN, StreamEnds(marked)
  PROVE  ModelInv'
<1> DEFINE end == CASE ~marked /\ ~response.stop -> "interrupted"
                    [] (marked \/ response.stop) /\ CallsAreValid /\ (response.text \/ calls # <<>>) -> "final"
                    [] OTHER -> "invalid"
<1>1. PICK o : o = end
  OBVIOUS
<1>2. response' = [response EXCEPT !.outcome = o] /\ UNCHANGED <<calls, slot, received>> /\ Streams
  BY <1>1 DEF StreamEnds
<1>3. o = "final" => CallsAreValid
  BY <1>1
<1>4. o = "invalid" => ~CallsAreValid \/ (~response.text /\ calls = <<>>)
  BY <1>1
<1>5. /\ response'.outcome = o /\ response'.text = response.text /\ DOMAIN response' = {"text", "stop", "outcome"}
      /\ response' = [k \in DOMAIN response' |-> response'[k]]
  BY <1>2 DEF ModelInv, Streams
<1>6. CallsAreValid' = CallsAreValid /\ Indices' = Indices /\ CallsHeld' = CallsHeld
  BY <1>2 DEF CallsAreValid, Indices, CallsHeld, Rank, FirstPlace, FragmentsOf, Earliest, Meant, MeantId,
              MeantName, MeantArgs
<1> QED
  BY <1>2, <1>3, <1>4, <1>5, <1>6 DEF ModelInv

(* Nothing has come.                                                        *)
LEMMA InitModel == ModelInit => ModelInv
<1> SUFFICES ASSUME ModelInit PROVE ModelInv
  OBVIOUS
<1>1. Indices = {}
  BY DEF ModelInit, Indices
<1>2. IsFiniteSet(Indices) /\ Cardinality(Indices) = 0
  BY <1>1, FS_EmptySet
<1>3. CallsHeld /\ slot \in [Indices -> Nat] /\ Len(calls) = 0
  BY <1>1 DEF ModelInit, CallsHeld
<1>4. received \in Seq(Fragments) /\ IsSequence(calls)
  BY DEF ModelInit, IsSequence
<1>5. DOMAIN response = {"text", "stop", "outcome"} /\ response = [k \in DOMAIN response |-> response[k]]
  BY DEF ModelInit
<1>6. response.outcome # "final" /\ response.outcome # "invalid"
  BY DEF ModelInit
<1> QED
  BY <1>2, <1>3, <1>4, <1>5, <1>6 DEF ModelInv

(* Every frame keeps the invariant.                                         *)
LEMMA NextModel == ModelInv /\ [ModelNext]_modelVars => ModelInv'
<1> SUFFICES ASSUME ModelInv, [ModelNext]_modelVars PROVE ModelInv'
  OBVIOUS
<1>1. ASSUME UNCHANGED <<calls, slot, received>>,
             DOMAIN response' = {"text", "stop", "outcome"}, response' = [k \in DOMAIN response' |-> response'[k]],
             response'.text = response.text \/ response'.outcome # "invalid",
             response'.outcome = response.outcome \/ response'.outcome \notin {"final", "invalid"}
      PROVE  ModelInv'
  <2>1. CallsAreValid' = CallsAreValid /\ Indices' = Indices /\ CallsHeld' = CallsHeld
    BY <1>1 DEF CallsAreValid, Indices, CallsHeld, Rank, FirstPlace, FragmentsOf, Earliest, Meant, MeantId,
                MeantName, MeantArgs
  <2> QED
    BY <1>1, <2>1 DEF ModelInv
<1>2. CASE UNCHANGED <<calls, slot, response, received>>
  BY <1>1, <1>2 DEF ModelInv
<1>3. ASSUME NEW f \in Fragments, ReceiveFragment(f) PROVE ModelInv'
  BY <1>3, KnownFragment, NewFragment
<1>4. CASE ReceiveText
  BY <1>1, <1>4 DEF ReceiveText, Streams, ModelInv
<1>5. CASE ReceiveStopReason
  BY <1>1, <1>5 DEF ReceiveStopReason, Streams, ModelInv
<1>6. CASE StreamBreaks
  BY <1>1, <1>6 DEF StreamBreaks, Streams, ModelInv
<1>7. ASSUME NEW marked \in BOOLEAN, StreamEnds(marked) PROVE ModelInv'
  BY <1>7, AnswerEnds
<1> QED
  BY <1>2, <1>3, <1>4, <1>5, <1>6, <1>7 DEF ModelNext, modelVars

(* What was checked of the calls holds of what the provider meant.          *)
LEMMA ModelPromise == ModelInv => CallsAssembled
<1> SUFFICES ASSUME ModelInv PROVE CallsAssembled
  OBVIOUS
<1>1. DOMAIN calls = 1..Len(calls) /\ Len(calls) = Cardinality(Indices)
  BY DEF ModelInv, IsSequence
<1>2. /\ \A i \in Indices : /\ slot[i] \in DOMAIN calls /\ slot[i] = Rank(i)
                            /\ calls[slot[i]] = Meant(i)
      /\ \A i, j \in Indices : slot[i] = slot[j] => i = j
      /\ \A p \in DOMAIN calls : \E i \in Indices : slot[i] = p
  BY <1>1 DEF ModelInv, CallsHeld
<1>3. WellMeant <=> CallsAreValid
  <2>1. ASSUME CallsAreValid PROVE WellMeant
    BY <1>2, <2>1 DEF CallsAreValid, WellMeant
  <2>2. ASSUME WellMeant PROVE CallsAreValid
    <3>1. ASSUME NEW p \in DOMAIN calls
          PROVE  calls[p].id # Unset /\ calls[p].name # Unset /\ calls[p].args \in ValidJson
      BY <1>2, <2>2 DEF WellMeant
    <3>2. ASSUME NEW p \in DOMAIN calls, NEW q \in DOMAIN calls, calls[p].id = calls[q].id
          PROVE  p = q
      <4>1. PICK i \in Indices, j \in Indices : slot[i] = p /\ slot[j] = q
        BY <1>2
      <4>2. Meant(i).id = Meant(j).id
        BY <1>2, <3>2, <4>1
      <4>3. i = j
        BY <2>2, <4>2 DEF WellMeant
      <4> QED
        BY <4>1, <4>3
    <3> QED
      BY <3>1, <3>2 DEF CallsAreValid
  <2> QED
    BY <2>1, <2>2
<1>4. calls = <<>> => received = <<>>
  <2> SUFFICES ASSUME calls = <<>> PROVE received = <<>>
    OBVIOUS
  <2>1. Indices = {}
    BY <1>1, <1>2
  <2>2. received \in Seq(Fragments)
    BY DEF ModelInv
  <2>3. DOMAIN received = {}
    BY <2>1 DEF Indices
  <2> QED
    BY <2>2, <2>3
<1>5. \A i \in Indices :
        calls[Cardinality({j \in Indices : FirstPlace(j) <= FirstPlace(i)})] = Meant(i)
  BY <1>2 DEF Rank
<1> QED
  BY <1>1, <1>3, <1>4, <1>5 DEF ModelInv, CallsAssembled

(* An answer handed on holds the calls the provider meant, each whole and in*)
(* the order they began, and one refused was wrong (Stream, for any indices *)
(* and fragments).                                                          *)
THEOREM ResponsesAreExact == ModelSpec => []CallsAssembled
BY InitModel, NextModel, ModelPromise, PTL DEF ModelSpec

(* The types of an answer under way, with the invariant.                    *)
ModelTyped ==
  /\ ModelInv /\ Len(received) <= MaxFragments /\ response.text \in BOOLEAN /\ response.stop \in BOOLEAN
  /\ response.outcome \in {"streaming", "final", "broken", "interrupted", "invalid"}

(* Every index of the provider names a place among the calls, and every call*)
(* there has its three parts (Stream, for any indices and fragments).       *)
THEOREM AnswersAreTyped == ModelSpec => []ModelTypeOK
<1>1. ModelInit => ModelTyped
  BY InitModel, FragmentsAssumption DEF ModelInit, ModelTyped, FragmentsAssumption
<1>2. ModelTyped /\ [ModelNext]_modelVars => ModelTyped'
  <2> SUFFICES ASSUME ModelTyped, [ModelNext]_modelVars PROVE ModelTyped'
    OBVIOUS
  <2>1. ModelInv'
    BY NextModel DEF ModelTyped
  <2>2. /\ received \in Seq(Fragments) /\ DOMAIN response = {"text", "stop", "outcome"}
        /\ Len(received) <= MaxFragments /\ response.text \in BOOLEAN /\ response.stop \in BOOLEAN
        /\ response.outcome \in {"streaming", "final", "broken", "interrupted", "invalid"}
    BY DEF ModelTyped, ModelInv
  <2>3. ASSUME NEW f \in Fragments, ReceiveFragment(f)
        PROVE  Len(received') <= MaxFragments /\ UNCHANGED response
    <3>1. Len(received') = Len(received) + 1 /\ Len(received) \in Nat /\ Len(received) < MaxFragments
      BY <2>2, <2>3, Received DEF ReceiveFragment
    <3> QED
      BY <2>3, <3>1, FragmentsAssumption DEF ReceiveFragment, FragmentsAssumption
  <2>4. ASSUME NEW marked \in BOOLEAN, StreamEnds(marked)
        PROVE  /\ UNCHANGED received /\ response'.text = response.text /\ response'.stop = response.stop
               /\ response'.outcome \in {"final", "interrupted", "invalid"}
    BY <2>2, <2>4 DEF StreamEnds
  <2>5. CASE ReceiveText \/ ReceiveStopReason \/ StreamBreaks \/ UNCHANGED modelVars
    <3>1. /\ UNCHANGED received /\ response'.text \in BOOLEAN /\ response'.stop \in BOOLEAN
          /\ response'.outcome \in {response.outcome, "broken"}
      BY <2>2, <2>5 DEF ReceiveText, ReceiveStopReason, StreamBreaks, modelVars
    <3> QED
      BY <2>1, <2>2, <3>1 DEF ModelTyped
  <2>6. ASSUME NEW f \in Fragments, ReceiveFragment(f) PROVE ModelTyped'
    BY <2>1, <2>2, <2>3, <2>6 DEF ModelTyped
  <2>7. ASSUME NEW marked \in BOOLEAN, StreamEnds(marked) PROVE ModelTyped'
    BY <2>1, <2>2, <2>4, <2>7 DEF ModelTyped
  <2> QED
    BY <2>5, <2>6, <2>7 DEF ModelNext
<1>3. ModelTyped => ModelTypeOK
  <2> SUFFICES ASSUME ModelTyped PROVE ModelTypeOK
    OBVIOUS
  <2>1. /\ DOMAIN calls = 1..Len(calls) /\ DOMAIN slot = Indices /\ slot = [i \in Indices |-> slot[i]]
        /\ response = [k \in DOMAIN response |-> response[k]] /\ DOMAIN response = {"text", "stop", "outcome"}
    BY DEF ModelTyped, ModelInv, IsSequence
  <2>2. /\ \A i \in Indices : slot[i] \in 1..Len(calls) /\ calls[slot[i]] = Meant(i)
        /\ \A p \in 1..Len(calls) : \E i \in Indices : slot[i] = p
    BY DEF ModelTyped, ModelInv, CallsHeld
  <2>3. \A p \in DOMAIN calls : DOMAIN calls[p] = {"id", "name", "args"}
    <3>1. \A i : DOMAIN Meant(i) = {"id", "name", "args"}
      BY DEF Meant
    <3> QED
      BY <2>1, <2>2, <3>1
  <2>4. slot \in [DOMAIN slot -> DOMAIN calls]
    BY <2>1, <2>2
  <2>5. response \in [text : BOOLEAN, stop : BOOLEAN,
                      outcome : {"streaming", "final", "broken", "interrupted", "invalid"}]
    BY <2>1 DEF ModelTyped
  <2> QED
    BY <2>3, <2>4, <2>5 DEF ModelTyped, ModelTypeOK
<1> QED
  BY <1>1, <1>2, <1>3, PTL DEF ModelSpec

-----------------------------------------------------------------------------
(* The history of a conversation.                                          *)

(* A message of these histories: only a turn of the model has calls.        *)
Said == {m \in Messages : m.role # "assistant" => m.calls = <<>>}

(* The message at t is the last that is no result; its calls; the ids of    *)
(* P are those of its calls that may be unanswered still.                   *)
IsLast(s, t) == s[t].role # "tool" /\ \A k \in (t + 1)..Len(s) : s[k].role = "tool"
Asked(s) == {id \in CallIds : \E t \in 1..Len(s) : IsLast(s, t) /\ id \in ToSet(s[t].calls)}
Answers(s, i, id) == \E j \in 1..Len(s) : Follows(s, i, j) /\ s[j].id = id
Sound(s, P) ==
  /\ \A i \in 1..Len(s) : \A id \in ToSet(s[i].calls) : Answers(s, i, id) \/ (id \in P /\ IsLast(s, i))
  /\ \A j \in 1..Len(s) :
       s[j].role = "tool" => \E t \in 1..Len(s) : Follows(s, t, j) /\ s[j].id \in ToSet(s[t].calls)
  /\ P \subseteq Asked(s)
Once(s, P) ==
  /\ AnsweredOnce(s)
  /\ \A t, j \in 1..Len(s) : IsLast(s, t) /\ Follows(s, t, j) => s[j].id \notin P

(* The inductive invariant of a history.                                    *)
HistoryInv ==
  /\ history \in Seq(Said) /\ carried \in Seq(Said)
  /\ undelivered \in Seq(CallIds) /\ IsInjective(undelivered)
  /\ history # <<>> /\ history[1] = System
  /\ Sound(history, ToSet(undelivered))
  /\ kind = "root" => Once(history, ToSet(undelivered))

WithSpoken(spoken, m) == IF m.role = "tool" THEN spoken ELSE Append(spoken, m)
Unanswered == [out |-> <<>>, pending |-> <<>>]

(* The recursion in Spoken, message by message.                              *)
IsSpokenRun(s, f) ==
  f = [n \in 0..Len(s) |-> IF n = 0 THEN <<>> ELSE WithSpoken(f[n - 1], s[n])]
SpokenRun(s) == CHOOSE f : IsSpokenRun(s, f)

(* Two such functions agree where both are defined.                         *)
LEMMA SpokenAgree ==
  ASSUME NEW S, NEW s \in Seq(S), NEW t \in Seq(S), NEW f, NEW g, IsSpokenRun(s, f), IsSpokenRun(t, g),
         Len(s) <= Len(t), \A n \in 1..Len(s) : s[n] = t[n]
  PROVE  \A n \in 0..Len(s) : f[n] = g[n]
<1> DEFINE P == {n \in 0..Len(s) : f[n] = g[n]}
<1>1. Len(s) \in Nat /\ Len(t) \in Nat
  OBVIOUS
<1>2. /\ \A n \in 0..Len(s) : f[n] = IF n = 0 THEN <<>> ELSE WithSpoken(f[n - 1], s[n])
      /\ \A n \in 0..Len(t) : g[n] = IF n = 0 THEN <<>> ELSE WithSpoken(g[n - 1], t[n])
  BY <1>1 DEF IsSpokenRun
<1>3. 0 \in P
  BY <1>1, <1>2
<1>4. ASSUME NEW n \in 0..Len(s), n \in P, n < Len(s) PROVE n + 1 \in P
  <2>1. n + 1 \in 0..Len(s) /\ n + 1 \in 0..Len(t) /\ n + 1 # 0 /\ (n + 1) - 1 = n /\ f[n] = g[n]
    BY <1>1, <1>4
  <2>2. s[n + 1] = t[n + 1]
    BY <1>1, <1>4
  <2> QED
    BY <1>2, <2>1, <2>2
<1> HIDE DEF P
<1>5. \A n \in 0..Len(s) : n \in P
  BY <1>1, <1>3, <1>4, Upwards
<1> QED
  BY <1>5 DEF P

(* There is one for each sequence of messages.                              *)
LEMMA SpokenExists ==
  ASSUME NEW S, NEW s \in Seq(S)
  PROVE  IsSpokenRun(s, SpokenRun(s))
<1> DEFINE Upto(n, f) == f = [m \in 0..n |-> IF m = 0 THEN <<>> ELSE WithSpoken(f[m - 1], s[m])]
           P == {n \in 0..Len(s) : \E f : Upto(n, f)}
<1>1. Len(s) \in Nat
  OBVIOUS
<1>2. 0 \in P
  <2>1. \E f : Upto(0, f)
    <3>1. Upto(0, [m \in 0..0 |-> <<>>])
      OBVIOUS
    <3> HIDE DEF Upto
    <3> QED
      BY <3>1
  <2> HIDE DEF Upto
  <2> QED
    BY <1>1, <2>1
<1>3. ASSUME NEW n \in 0..Len(s), n \in P, n < Len(s) PROVE n + 1 \in P
  <2>1. PICK f : Upto(n, f)
    BY <1>3
  <2> DEFINE last == WithSpoken(f[n], s[n + 1])
             g == [m \in 0..(n + 1) |-> IF m = n + 1 THEN last ELSE f[m]]
  <2>2. ASSUME NEW m \in 0..(n + 1)
        PROVE  g[m] = IF m = 0 THEN <<>> ELSE WithSpoken(g[m - 1], s[m])
    <3>1. CASE m = n + 1
      <4>1. m - 1 = n /\ n \in 0..(n + 1) /\ n # n + 1 /\ m # 0
        BY <1>1, <3>1
      <4>2. g[m - 1] = f[n] /\ g[m] = last
        BY <3>1, <4>1
      <4> QED
        BY <3>1, <4>1, <4>2
    <3>2. CASE m # n + 1
      <4>1. m \in 0..n /\ g[m] = f[m]
        BY <1>1, <3>2
      <4>2. m # 0 => m - 1 \in 0..(n + 1) /\ m - 1 # n + 1 /\ g[m - 1] = f[m - 1]
        BY <1>1, <4>1
      <4> HIDE DEF g
      <4> QED
        BY <2>1, <4>1, <4>2
    <3> QED
      BY <3>1, <3>2
  <2>3. g = [m \in 0..(n + 1) |-> g[m]]
    OBVIOUS
  <2> HIDE DEF g
  <2>4. Upto(n + 1, g)
    BY <2>2, <2>3
  <2> HIDE DEF Upto
  <2> QED
    BY <1>1, <1>3, <2>4
<1> HIDE DEF P
<1>4. \A n \in 0..Len(s) : n \in P
  BY <1>1, <1>2, <1>3, Upwards
<1>5. \E f : IsSpokenRun(s, f)
  <2> HIDE DEF Upto
  <2>1. PICK f : Upto(Len(s), f)
    BY <1>1, <1>4 DEF P
  <2>2. IsSpokenRun(s, f)
    BY <2>1 DEF Upto, IsSpokenRun
  <2> QED
    BY <2>2
<1> QED
  BY <1>5 DEF SpokenRun

(* A message more.                                                           *)
LEMMA SpokenAppendRun ==
  ASSUME NEW S, NEW s \in Seq(S), NEW m \in S
  PROVE  /\ SpokenRun(<<>>)[0] = <<>>
         /\ SpokenRun(Append(s, m))[Len(Append(s, m))] = WithSpoken(SpokenRun(s)[Len(s)], m)
<1> DEFINE t == Append(s, m)
<1>1. /\ t \in Seq(S) /\ Len(t) = Len(s) + 1 /\ Len(s) \in Nat /\ t[Len(s) + 1] = m
      /\ \A n \in 1..Len(s) : s[n] = t[n]
  BY AppendProperties
<1> HIDE DEF t
<1>2. PICK g : g = SpokenRun(s)
  OBVIOUS
<1>3. PICK h : h = SpokenRun(t)
  OBVIOUS
<1>4. IsSpokenRun(s, g) /\ IsSpokenRun(t, h)
  BY <1>1, <1>2, <1>3, SpokenExists
<1>5. g[Len(s)] = h[Len(s)]
  BY <1>1, <1>4, SpokenAgree
<1>6. \A n \in 0..Len(t) : h[n] = IF n = 0 THEN <<>> ELSE WithSpoken(h[n - 1], t[n])
  BY <1>1, <1>4 DEF IsSpokenRun
<1>7. Len(s) + 1 \in 0..Len(t) /\ Len(s) + 1 # 0 /\ (Len(s) + 1) - 1 = Len(s)
  BY <1>1
<1>8. h[Len(s) + 1] = WithSpoken(g[Len(s)], m)
  BY <1>1, <1>5, <1>6, <1>7
<1>9. SpokenRun(<<>>)[0] = <<>>
  <2>1. PICK e : e = SpokenRun(<<>>)
    OBVIOUS
  <2>2. <<>> \in Seq(S) /\ Len(<<>>) = 0
    OBVIOUS
  <2>3. IsSpokenRun(<<>>, e)
    BY <2>1, <2>2, SpokenExists
  <2> QED
    BY <2>1, <2>2, <2>3 DEF IsSpokenRun
<1> QED
  BY <1>1, <1>2, <1>3, <1>8, <1>9 DEF t

(* The recursion in CompleteHistory, message by message.                     *)
IsCompletionRun(s, f) ==
  f = [n \in 0..Len(s) |-> IF n = 0 THEN Unanswered ELSE Completed(f[n - 1], s[n])]
CompletionRun(s) == CHOOSE f : IsCompletionRun(s, f)

(* Two such functions agree where both are defined.                         *)
LEMMA CompletionAgree ==
  ASSUME NEW S, NEW s \in Seq(S), NEW t \in Seq(S), NEW f, NEW g, IsCompletionRun(s, f), IsCompletionRun(t, g),
         Len(s) <= Len(t), \A n \in 1..Len(s) : s[n] = t[n]
  PROVE  \A n \in 0..Len(s) : f[n] = g[n]
<1> DEFINE P == {n \in 0..Len(s) : f[n] = g[n]}
<1>1. Len(s) \in Nat /\ Len(t) \in Nat
  OBVIOUS
<1>2. /\ \A n \in 0..Len(s) : f[n] = IF n = 0 THEN Unanswered ELSE Completed(f[n - 1], s[n])
      /\ \A n \in 0..Len(t) : g[n] = IF n = 0 THEN Unanswered ELSE Completed(g[n - 1], t[n])
  BY <1>1 DEF IsCompletionRun
<1>3. 0 \in P
  BY <1>1, <1>2
<1>4. ASSUME NEW n \in 0..Len(s), n \in P, n < Len(s) PROVE n + 1 \in P
  <2>1. n + 1 \in 0..Len(s) /\ n + 1 \in 0..Len(t) /\ n + 1 # 0 /\ (n + 1) - 1 = n /\ f[n] = g[n]
    BY <1>1, <1>4
  <2>2. s[n + 1] = t[n + 1]
    BY <1>1, <1>4
  <2> QED
    BY <1>2, <2>1, <2>2
<1> HIDE DEF P
<1>5. \A n \in 0..Len(s) : n \in P
  BY <1>1, <1>3, <1>4, Upwards
<1> QED
  BY <1>5 DEF P

(* There is one for each sequence of messages.                              *)
LEMMA CompletionExists ==
  ASSUME NEW S, NEW s \in Seq(S)
  PROVE  IsCompletionRun(s, CompletionRun(s))
<1> DEFINE Upto(n, f) == f = [m \in 0..n |-> IF m = 0 THEN Unanswered ELSE Completed(f[m - 1], s[m])]
           P == {n \in 0..Len(s) : \E f : Upto(n, f)}
<1>1. Len(s) \in Nat
  OBVIOUS
<1>2. 0 \in P
  <2>1. \E f : Upto(0, f)
    <3>1. Upto(0, [m \in 0..0 |-> Unanswered])
      OBVIOUS
    <3> HIDE DEF Upto
    <3> QED
      BY <3>1
  <2> HIDE DEF Upto
  <2> QED
    BY <1>1, <2>1
<1>3. ASSUME NEW n \in 0..Len(s), n \in P, n < Len(s) PROVE n + 1 \in P
  <2>1. PICK f : Upto(n, f)
    BY <1>3
  <2> DEFINE last == Completed(f[n], s[n + 1])
             g == [m \in 0..(n + 1) |-> IF m = n + 1 THEN last ELSE f[m]]
  <2>2. ASSUME NEW m \in 0..(n + 1)
        PROVE  g[m] = IF m = 0 THEN Unanswered ELSE Completed(g[m - 1], s[m])
    <3>1. CASE m = n + 1
      <4>1. m - 1 = n /\ n \in 0..(n + 1) /\ n # n + 1 /\ m # 0
        BY <1>1, <3>1
      <4>2. g[m - 1] = f[n] /\ g[m] = last
        BY <3>1, <4>1
      <4> QED
        BY <3>1, <4>1, <4>2
    <3>2. CASE m # n + 1
      <4>1. m \in 0..n /\ g[m] = f[m]
        BY <1>1, <3>2
      <4>2. m # 0 => m - 1 \in 0..(n + 1) /\ m - 1 # n + 1 /\ g[m - 1] = f[m - 1]
        BY <1>1, <4>1
      <4> HIDE DEF g
      <4> QED
        BY <2>1, <4>1, <4>2
    <3> QED
      BY <3>1, <3>2
  <2>3. g = [m \in 0..(n + 1) |-> g[m]]
    OBVIOUS
  <2> HIDE DEF g
  <2>4. Upto(n + 1, g)
    BY <2>2, <2>3
  <2> HIDE DEF Upto
  <2> QED
    BY <1>1, <1>3, <2>4
<1> HIDE DEF P
<1>4. \A n \in 0..Len(s) : n \in P
  BY <1>1, <1>2, <1>3, Upwards
<1>5. \E f : IsCompletionRun(s, f)
  <2> HIDE DEF Upto
  <2>1. PICK f : Upto(Len(s), f)
    BY <1>1, <1>4 DEF P
  <2>2. IsCompletionRun(s, f)
    BY <2>1 DEF Upto, IsCompletionRun
  <2> QED
    BY <2>2
<1> QED
  BY <1>5 DEF CompletionRun

(* A message more.                                                           *)
LEMMA CompletionAppend ==
  ASSUME NEW S, NEW s \in Seq(S), NEW m \in S
  PROVE  /\ CompletionRun(<<>>)[0] = Unanswered
         /\ CompletionRun(Append(s, m))[Len(Append(s, m))] = Completed(CompletionRun(s)[Len(s)], m)
<1> DEFINE t == Append(s, m)
<1>1. /\ t \in Seq(S) /\ Len(t) = Len(s) + 1 /\ Len(s) \in Nat /\ t[Len(s) + 1] = m
      /\ \A n \in 1..Len(s) : s[n] = t[n]
  BY AppendProperties
<1> HIDE DEF t
<1>2. PICK g : g = CompletionRun(s)
  OBVIOUS
<1>3. PICK h : h = CompletionRun(t)
  OBVIOUS
<1>4. IsCompletionRun(s, g) /\ IsCompletionRun(t, h)
  BY <1>1, <1>2, <1>3, CompletionExists
<1>5. g[Len(s)] = h[Len(s)]
  BY <1>1, <1>4, CompletionAgree
<1>6. \A n \in 0..Len(t) : h[n] = IF n = 0 THEN Unanswered ELSE Completed(h[n - 1], t[n])
  BY <1>1, <1>4 DEF IsCompletionRun
<1>7. Len(s) + 1 \in 0..Len(t) /\ Len(s) + 1 # 0 /\ (Len(s) + 1) - 1 = Len(s)
  BY <1>1
<1>8. h[Len(s) + 1] = Completed(g[Len(s)], m)
  BY <1>1, <1>5, <1>6, <1>7
<1>9. CompletionRun(<<>>)[0] = Unanswered
  <2>1. PICK e : e = CompletionRun(<<>>)
    OBVIOUS
  <2>2. <<>> \in Seq(S) /\ Len(<<>>) = 0
    OBVIOUS
  <2>3. IsCompletionRun(<<>>, e)
    BY <2>1, <2>2, CompletionExists
  <2> QED
    BY <2>1, <2>2, <2>3 DEF IsCompletionRun
<1> QED
  BY <1>1, <1>2, <1>3, <1>8, <1>9 DEF t

(* What a history says, by that recursion.                                 *)
LEMMA SpokenIs == ASSUME NEW s PROVE Spoken(s) = SpokenRun(s)[Len(s)]
BY DEF Spoken, SpokenRun, IsSpokenRun, WithSpoken

End(s) == CompletionRun(s)[Len(s)]

(* What completeHistory makes of a history: what it has built in the end,  *)
(* and results for the calls still pending.                                *)
LEMMA CompleteHistoryIs ==
  ASSUME NEW s PROVE CompleteHistory(s) = End(s).out \o Results(End(s).pending)
BY DEF CompleteHistory, End, CompletionRun, IsCompletionRun, Unanswered

(* One message more is one more turn of its loop.                          *)
LEMMA EndAppend ==
  ASSUME NEW S, NEW s \in Seq(S), NEW m \in S
  PROVE  End(<<>>) = Unanswered /\ End(Append(s, m)) = Completed(End(s), m)
<1>1. Len(<<>>) = 0
  OBVIOUS
<1> QED
  BY <1>1, CompletionAppend DEF End

(* A history says what a message more says.                                *)
LEMMA SpokenAppend ==
  ASSUME NEW S, NEW s \in Seq(S), NEW m \in S
  PROVE  /\ Spoken(<<>>) = <<>>
         /\ Spoken(Append(s, m)) = IF m.role = "tool" THEN Spoken(s) ELSE Append(Spoken(s), m)
<1>1. Len(<<>>) = 0
  OBVIOUS
<1> QED
  BY <1>1, SpokenAppendRun, SpokenIs DEF WithSpoken

(* Induction over the sequences, with a set for the property.               *)
LEMMA BySequence ==
  ASSUME NEW S, NEW P, <<>> \in P, \A s \in Seq(S) : \A e \in S : s \in P => Append(s, e) \in P
  PROVE  \A s \in Seq(S) : s \in P
<1> SUFFICES ASSUME NEW s \in Seq(S) PROVE s \in P
  OBVIOUS
<1> DEFINE Q == {n \in 0..Len(s) : \A t \in Seq(S) : Len(t) = n => t \in P}
<1>1. Len(s) \in Nat
  OBVIOUS
<1>2. 0 \in Q
  <2>1. \A t \in Seq(S) : Len(t) = 0 => t = <<>>
    BY EmptySeq
  <2> QED
    BY <1>1, <2>1
<1>3. ASSUME NEW n \in 0..Len(s), n \in Q, n < Len(s) PROVE n + 1 \in Q
  <2>1. ASSUME NEW t \in Seq(S), Len(t) = n + 1 PROVE t \in P
    <3>1. t # <<>>
      BY <1>1, <2>1
    <3>2. PICK u \in Seq(S), e \in S : t = Append(u, e)
      BY <3>1, SequenceEmptyOrAppend
    <3>3. Len(t) = Len(u) + 1 /\ Len(u) \in Nat
      BY <3>2, AppendProperties
    <3>4. u \in P
      BY <1>3, <2>1, <3>3
    <3> QED
      BY <3>2, <3>4
  <2> QED
    BY <1>1, <1>3, <2>1
<1> HIDE DEF Q
<1>4. \A n \in 0..Len(s) : n \in Q
  BY <1>1, <1>2, <1>3, Upwards
<1> QED
  BY <1>1, <1>4 DEF Q

(* Removing the first id from a sequence that repeats none.                 *)
LEMMA RemovesOne ==
  ASSUME NEW S, NEW p \in Seq(S), IsInjective(p), NEW id, Contains(p, id)
  PROVE  /\ RemoveFirst(p, id) \in Seq(S) /\ IsInjective(RemoveFirst(p, id))
         /\ ToSet(RemoveFirst(p, id)) = ToSet(p) \ {id}
<1>1. Len(p) \in Nat /\ DOMAIN p = 1..Len(p) /\ \A i \in 1..Len(p) : p[i] \in S
  OBVIOUS
<1>2. PICK k \in 1..Len(p) : p[k] = id
  BY DEF Contains
<1>3. \A i \in 1..Len(p) : p[i] = id => i = k
  BY <1>1, <1>2 DEF IsInjective
<1>4. SelectInSeq(p, LAMBDA v : v = id) = k
  <2>1. {i \in 1..Len(p) : p[i] = id} = {k}
    BY <1>2, <1>3
  <2>2. Min({k}) = k
    BY <1>1 DEF Min
  <2> QED
    BY <2>1, <2>2 DEF SelectInSeq
<1>5. PICK a : a = SubSeq(p, 1, k - 1)
  OBVIOUS
<1>6. PICK b : b = SubSeq(p, k + 1, Len(p))
  OBVIOUS
<1>7. a \in Seq(S) /\ Len(a) = k - 1 /\ \A i \in 1..(k - 1) : a[i] = p[i]
  <2>1. \A i \in 1..(k - 1) : p[i] \in S
    BY <1>1, <1>2
  <2> QED
    BY <1>1, <1>2, <1>5, <2>1, SubSeqProperties
<1>8. b \in Seq(S) /\ Len(b) = Len(p) - k /\ \A i \in 1..(Len(p) - k) : b[i] = p[k + i]
  <2>1. \A i \in (k + 1)..Len(p) : p[i] \in S
    BY <1>1, <1>2
  <2>2. k + 1 \in Int /\ Len(p) \in Int
    BY <1>1
  <2>3. /\ b \in Seq(S) /\ Len(b) = IF k + 1 <= Len(p) THEN Len(p) - (k + 1) + 1 ELSE 0
        /\ \A i \in 1..(Len(p) - (k + 1) + 1) : b[i] = p[(k + 1) + i - 1]
    BY <1>6, <2>1, <2>2, SubSeqProperties
  <2>4. k \in Int /\ k <= Len(p) /\ Len(p) - (k + 1) + 1 = Len(p) - k
    BY <1>1
  <2>5. Len(b) = Len(p) - k
    <3>1. ASSUME NEW n \in Int, k <= n, ~(k + 1 <= n) PROVE n - k = 0
      BY <2>4, <3>1
    <3>2. CASE k + 1 <= Len(p)
      BY <2>3, <2>4, <3>2
    <3>3. CASE ~(k + 1 <= Len(p))
      BY <2>2, <2>3, <2>4, <3>1, <3>3
    <3> QED
      BY <3>2, <3>3
  <2>6. ASSUME NEW i \in 1..(Len(p) - k) PROVE b[i] = p[k + i]
    <3>1. (k + 1) + i - 1 = k + i
      BY <2>4
    <3> QED
      BY <2>3, <2>4, <3>1
  <2> QED
    BY <2>3, <2>5, <2>6
<1>9. PICK q : q = a \o b
  OBVIOUS
<1>10. q \in Seq(S) /\ Len(q) = Len(p) - 1
       /\ \A i \in 1..(Len(p) - 1) : q[i] = IF i < k THEN p[i] ELSE p[i + 1]
  <2>1. /\ q \in Seq(S) /\ Len(q) = Len(a) + Len(b)
        /\ \A i \in 1..Len(a) + Len(b) : q[i] = IF i <= Len(a) THEN a[i] ELSE b[i - Len(a)]
    BY <1>7, <1>8, <1>9, ConcatProperties
  <2>2. Len(a) = k - 1 /\ Len(b) = Len(p) - k
    BY <1>7, <1>8
  <2>3. Len(a) + Len(b) = Len(p) - 1
    BY <1>1, <2>2
  <2>4. ASSUME NEW i \in 1..(Len(p) - 1) PROVE q[i] = IF i < k THEN p[i] ELSE p[i + 1]
    <3>1. q[i] = IF i <= k - 1 THEN a[i] ELSE b[i - (k - 1)]
      BY <2>1, <2>2, <2>3
    <3>2. CASE i < k
      <4>1. i <= k - 1 /\ i \in 1..(k - 1)
        BY <1>1, <3>2
      <4> QED
        BY <1>7, <3>1, <3>2, <4>1
    <3>3. CASE ~(i < k)
      <4>1. ~(i <= k - 1) /\ i - (k - 1) \in 1..(Len(p) - k) /\ k + (i - (k - 1)) = i + 1
        BY <1>1, <3>3
      <4> QED
        BY <1>8, <3>1, <3>3, <4>1
    <3> QED
      BY <3>2, <3>3
  <2> QED
    BY <2>1, <2>3, <2>4
<1>11. RemoveFirst(p, id) = q
  BY <1>2, <1>4, <1>5, <1>6, <1>9 DEF RemoveFirst, RemoveAt
<1>12. DOMAIN q = 1..(Len(p) - 1)
  BY <1>1, <1>10
<1>13. IsInjective(q)
  <2> SUFFICES ASSUME NEW i \in 1..(Len(p) - 1), NEW j \in 1..(Len(p) - 1), q[i] = q[j]
               PROVE  i = j
    BY <1>12 DEF IsInjective
  <2> DEFINE at(n) == IF n < k THEN n ELSE n + 1
  <2>1. \A n \in 1..(Len(p) - 1) : at(n) \in 1..Len(p) /\ q[n] = p[at(n)]
    BY <1>1, <1>10
  <2>2. at(i) = at(j)
    <3> HIDE DEF at
    <3> QED
      BY <1>1, <2>1 DEF IsInjective
  <2> QED
    BY <1>1, <2>2
<1>14. ToSet(q) = ToSet(p) \ {id}
  <2>1. ASSUME NEW i \in 1..(Len(p) - 1) PROVE q[i] \in ToSet(p) /\ q[i] # id
    BY <1>1, <1>2, <1>3, <1>10 DEF ToSet
  <2>2. ASSUME NEW i \in 1..Len(p), i # k PROVE p[i] \in ToSet(q)
    <3>1. CASE i < k
      BY <1>1, <1>2, <1>10, <1>12, <3>1 DEF ToSet
    <3>2. CASE i > k
      <4>1. i - 1 \in 1..(Len(p) - 1) /\ ~(i - 1 < k) /\ (i - 1) + 1 = i
        BY <1>1, <1>2, <3>2
      <4>2. q[i - 1] = p[i]
        BY <1>10, <4>1
      <4> QED
        BY <1>12, <4>1, <4>2 DEF ToSet
    <3> QED
      BY <1>1, <2>2, <3>1, <3>2
  <2> QED
    BY <1>1, <1>2, <1>12, <2>1, <2>2 DEF ToSet
<1> QED
  BY <1>10, <1>11, <1>13, <1>14

(* Only a turn of the model has calls.                                      *)
LEMMA WhoCalls ==
  ASSUME NEW m \in Said, NEW id \in ToSet(m.calls)
  PROVE  m.role = "assistant" /\ m.role # "tool" /\ id \in CallIds
<1>1. m.calls # <<>>
  BY DEF ToSet
<1>2. m.role = "assistant" /\ m.calls \in Turns
  BY <1>1 DEF Said, Messages
<1> QED
  BY <1>2 DEF CallIds

(* How positions relate when a message is appended.                         *)
Joined(s, m, t, n) ==
  /\ n \in Nat /\ t \in Seq(Said) /\ Len(t) = n + 1 /\ t[n + 1] = m /\ \A i \in 1..n : t[i] = s[i]
  /\ \A i, j \in 1..n : Follows(t, i, j) <=> Follows(s, i, j)
  /\ \A i \in 1..n : Follows(t, i, n + 1) <=> m.role = "tool" /\ \A k \in (i + 1)..n : s[k].role = "tool"
  /\ \A i \in 1..(n + 1) : ~Follows(t, n + 1, i)
  /\ \A i \in 1..n : IsLast(t, i) <=> m.role = "tool" /\ IsLast(s, i)
  /\ IsLast(t, n + 1) <=> m.role # "tool"

(* So they do for every message and history.                               *)
LEMMA AppendShape ==
  ASSUME NEW s \in Seq(Said), NEW m \in Said, NEW t, t = Append(s, m), NEW n, n = Len(s)
  PROVE  Joined(s, m, t, n)
<1>1. n \in Nat /\ t \in Seq(Said) /\ Len(t) = n + 1 /\ t[n + 1] = m /\ \A i \in 1..n : t[i] = s[i]
  BY AppendProperties
<1>2. ASSUME NEW i \in 1..n, NEW j \in 1..n PROVE Follows(t, i, j) <=> Follows(s, i, j)
  <2>1. \A k \in (i + 1)..j : k \in 1..n /\ t[k] = s[k]
    BY <1>1
  <2> QED
    BY <2>1 DEF Follows
<1>3. ASSUME NEW i \in 1..n
      PROVE  /\ \A k \in (i + 1)..n : k \in 1..n /\ k \in (i + 1)..(n + 1) /\ t[k] = s[k]
             /\ \A k \in (i + 1)..(n + 1) : k = n + 1 \/ k \in (i + 1)..n
             /\ n + 1 \in (i + 1)..(n + 1) /\ i < n + 1
  BY <1>1
<1>4. ASSUME NEW i \in 1..n
      PROVE  Follows(t, i, n + 1) <=> m.role = "tool" /\ \A k \in (i + 1)..n : s[k].role = "tool"
  BY <1>1, <1>3 DEF Follows
<1>5. \A i \in 1..(n + 1) : ~Follows(t, n + 1, i)
  BY <1>1 DEF Follows
<1>6. ASSUME NEW i \in 1..n PROVE IsLast(t, i) <=> m.role = "tool" /\ IsLast(s, i)
  BY <1>1, <1>3 DEF IsLast
<1>7. IsLast(t, n + 1) <=> m.role # "tool"
  BY <1>1 DEF IsLast
<1> QED
  BY <1>1, <1>2, <1>4, <1>5, <1>6, <1>7 DEF Joined

(* Whose calls are open, after one message more.                            *)
LEMMA AskedAppend ==
  ASSUME NEW s \in Seq(Said), NEW m \in Said
  PROVE  /\ m.role = "tool" => Asked(Append(s, m)) = Asked(s)
         /\ m.role # "tool" => Asked(Append(s, m)) = ToSet(m.calls)
<1>1. PICK t : t = Append(s, m)
  OBVIOUS
<1>2. PICK n : n = Len(s)
  OBVIOUS
<1>3. /\ n \in Nat /\ Len(t) = n + 1 /\ t[n + 1] = m /\ \A i \in 1..n : t[i] = s[i]
      /\ \A i \in 1..n : IsLast(t, i) <=> m.role = "tool" /\ IsLast(s, i)
      /\ IsLast(t, n + 1) <=> m.role # "tool"
  <2>1. Joined(s, m, t, n)
    BY <1>1, <1>2, AppendShape
  <2> QED
    BY <1>2, <2>1 DEF Joined
<1>4. \A i \in 1..(n + 1) : i \in 1..n \/ i = n + 1
  BY <1>3
<1>5. CASE m.role = "tool"
  <2>1. \A id : (\E i \in 1..(n + 1) : IsLast(t, i) /\ id \in ToSet(t[i].calls))
                 <=> \E i \in 1..n : IsLast(s, i) /\ id \in ToSet(s[i].calls)
    BY <1>3, <1>4, <1>5
  <2> QED
    BY <1>1, <1>2, <1>3, <1>5, <2>1 DEF Asked
<1>6. CASE m.role # "tool"
  <2>1. \A id : (\E i \in 1..(n + 1) : IsLast(t, i) /\ id \in ToSet(t[i].calls)) <=> id \in ToSet(m.calls)
    BY <1>3, <1>4, <1>6
  <2>2. \A id \in ToSet(m.calls) : id \in CallIds
    BY WhoCalls
  <2> QED
    BY <1>1, <1>3, <1>6, <2>1, <2>2 DEF Asked
<1> QED
  BY <1>5, <1>6

(* Once every call is answered, a turn may follow: its calls are open.      *)
LEMMA SoundTurn ==
  ASSUME NEW s \in Seq(Said), NEW m \in Said, m.role # "tool", Sound(s, {})
  PROVE  Sound(Append(s, m), ToSet(m.calls))
<1>1. PICK t : t = Append(s, m)
  OBVIOUS
<1>2. PICK n : n = Len(s)
  OBVIOUS
<1>3. /\ n \in Nat /\ t \in Seq(Said) /\ Len(t) = n + 1 /\ t[n + 1] = m /\ \A i \in 1..n : t[i] = s[i]
      /\ \A i, j \in 1..n : Follows(t, i, j) <=> Follows(s, i, j)
      /\ IsLast(t, n + 1)
  <2>1. Joined(s, m, t, n)
    BY <1>1, <1>2, AppendShape
  <2> QED
    BY <1>2, <2>1 DEF Joined
<1>4. \A i \in 1..(n + 1) : i \in 1..n \/ i = n + 1
  BY <1>3
<1>5. \A i \in 1..n : i \in 1..(n + 1)
  BY <1>3
<1>6. ASSUME NEW i \in 1..(n + 1), NEW id \in ToSet(t[i].calls)
      PROVE  Answers(t, i, id) \/ (id \in ToSet(m.calls) /\ IsLast(t, i))
  <2>1. CASE i \in 1..n
    <3>1. \E j \in 1..n : Follows(s, i, j) /\ s[j].id = id
      BY <1>2, <1>3, <1>6, <2>1 DEF Sound, Answers
    <3> QED
      BY <1>3, <1>5, <2>1, <3>1 DEF Answers
  <2>2. CASE i = n + 1
    BY <1>3, <1>6, <2>2
  <2> QED
    BY <1>4, <2>1, <2>2
<1>7. ASSUME NEW j \in 1..(n + 1), t[j].role = "tool"
      PROVE  \E i \in 1..(n + 1) : Follows(t, i, j) /\ t[j].id \in ToSet(t[i].calls)
  <2>1. j \in 1..n
    BY <1>3, <1>4, <1>7
  <2>2. \E i \in 1..n : Follows(s, i, j) /\ s[j].id \in ToSet(s[i].calls)
    BY <1>2, <1>3, <1>7, <2>1 DEF Sound
  <2> QED
    BY <1>3, <1>5, <2>1, <2>2
<1>8. ToSet(m.calls) \subseteq Asked(t)
  BY <1>1, AskedAppend
<1> QED
  BY <1>1, <1>3, <1>6, <1>7, <1>8 DEF Sound

(* ... and none of its calls is answered yet.                              *)
LEMMA OnceTurn ==
  ASSUME NEW s \in Seq(Said), NEW m \in Said, m.role # "tool", AnsweredOnce(s), NEW P
  PROVE  Once(Append(s, m), P)
<1>1. PICK t : t = Append(s, m)
  OBVIOUS
<1>2. PICK n : n = Len(s)
  OBVIOUS
<1>3. /\ n \in Nat /\ t \in Seq(Said) /\ Len(t) = n + 1 /\ t[n + 1] = m /\ \A i \in 1..n : t[i] = s[i]
      /\ \A i, j \in 1..n : Follows(t, i, j) <=> Follows(s, i, j)
      /\ \A i \in 1..n : ~Follows(t, i, n + 1)
      /\ \A i \in 1..(n + 1) : ~Follows(t, n + 1, i)
      /\ \A i \in 1..n : ~IsLast(t, i)
  <2>1. Joined(s, m, t, n)
    BY <1>1, <1>2, AppendShape
  <2> QED
    BY <1>2, <2>1 DEF Joined
<1>4. \A i \in 1..(n + 1) : i \in 1..n \/ i = n + 1
  BY <1>3
<1>5. AnsweredOnce(t)
  <2> SUFFICES ASSUME NEW i \in 1..(n + 1), NEW j \in 1..(n + 1), NEW h \in 1..(n + 1),
                      Follows(t, h, i), Follows(t, h, j), t[h].role # "tool", t[i].id = t[j].id
               PROVE  i = j
    BY <1>3 DEF AnsweredOnce
  <2>1. h \in 1..n /\ i \in 1..n /\ j \in 1..n
    BY <1>3, <1>4
  <2> QED
    BY <1>2, <1>3, <2>1 DEF AnsweredOnce
<1>6. \A h, j \in 1..(n + 1) : ~(IsLast(t, h) /\ Follows(t, h, j))
  BY <1>3, <1>4
<1> QED
  BY <1>1, <1>3, <1>5, <1>6 DEF Once

(* A result answers a call that is open, ...                                *)
LEMMA SoundResult ==
  ASSUME NEW s \in Seq(Said), NEW m \in Said, m.role = "tool", NEW P, Sound(s, P), m.id \in P
  PROVE  Sound(Append(s, m), P \ {m.id})
<1>1. PICK t : t = Append(s, m)
  OBVIOUS
<1>2. PICK n : n = Len(s)
  OBVIOUS
<1>3. /\ n \in Nat /\ t \in Seq(Said) /\ Len(t) = n + 1 /\ t[n + 1] = m /\ \A i \in 1..n : t[i] = s[i]
      /\ \A i, j \in 1..n : Follows(t, i, j) <=> Follows(s, i, j)
      /\ \A i \in 1..n : IsLast(s, i) => Follows(t, i, n + 1)
      /\ \A i \in 1..n : IsLast(t, i) <=> IsLast(s, i)
  <2>1. Joined(s, m, t, n)
    BY <1>1, <1>2, AppendShape
  <2> QED
    BY <1>2, <2>1 DEF Joined, IsLast
<1>4. \A i \in 1..(n + 1) : i \in 1..n \/ i = n + 1
  BY <1>3
<1>5. \A i \in 1..n : i \in 1..(n + 1)
  BY <1>3
<1>0. n + 1 \in 1..(n + 1) /\ m.calls = <<>> /\ ToSet(m.calls) = {}
  BY <1>3 DEF Said, ToSet
<1>6. ASSUME NEW i \in 1..(n + 1), NEW id \in ToSet(t[i].calls)
      PROVE  Answers(t, i, id) \/ (id \in P \ {m.id} /\ IsLast(t, i))
  <2>1. i \in 1..n
    BY <1>0, <1>3, <1>4, <1>6
  <2>2. Answers(s, i, id) \/ (id \in P /\ IsLast(s, i))
    BY <1>2, <1>3, <1>6, <2>1 DEF Sound
  <2>3. CASE Answers(s, i, id)
    BY <1>2, <1>3, <1>5, <2>1, <2>3 DEF Answers
  <2>4. CASE id \in P /\ IsLast(s, i)
    BY <1>0, <1>3, <2>1, <2>4 DEF Answers
  <2> QED
    BY <2>2, <2>3, <2>4
<1>7. ASSUME NEW j \in 1..(n + 1), t[j].role = "tool"
      PROVE  \E i \in 1..(n + 1) : Follows(t, i, j) /\ t[j].id \in ToSet(t[i].calls)
  <2>1. CASE j \in 1..n
    <3>1. \E i \in 1..n : Follows(s, i, j) /\ s[j].id \in ToSet(s[i].calls)
      BY <1>2, <1>3, <1>7, <2>1 DEF Sound
    <3> QED
      BY <1>3, <1>5, <2>1, <3>1
  <2>2. CASE j = n + 1
    <3>1. \E i \in 1..n : IsLast(s, i) /\ m.id \in ToSet(s[i].calls)
      BY <1>2 DEF Sound, Asked
    <3> QED
      BY <1>3, <1>5, <2>2, <3>1
  <2> QED
    BY <1>4, <2>1, <2>2
<1>8. P \ {m.id} \subseteq Asked(t)
  BY <1>1, AskedAppend DEF Sound
<1> QED
  BY <1>1, <1>3, <1>6, <1>7, <1>8 DEF Sound

(* ... which is not answered again.                                        *)
LEMMA OnceResult ==
  ASSUME NEW s \in Seq(Said), NEW m \in Said, m.role = "tool", NEW P, Once(s, P), m.id \in P
  PROVE  Once(Append(s, m), P \ {m.id})
<1>1. PICK t : t = Append(s, m)
  OBVIOUS
<1>2. PICK n : n = Len(s)
  OBVIOUS
<1>3. /\ n \in Nat /\ t \in Seq(Said) /\ Len(t) = n + 1 /\ t[n + 1] = m /\ \A i \in 1..n : t[i] = s[i]
      /\ \A i, j \in 1..n : Follows(t, i, j) <=> Follows(s, i, j)
      /\ \A i \in 1..n : Follows(t, i, n + 1) /\ s[i].role # "tool" => IsLast(s, i)
      /\ \A i \in 1..(n + 1) : ~Follows(t, n + 1, i)
      /\ \A i \in 1..n : IsLast(t, i) <=> IsLast(s, i)
  <2>1. Joined(s, m, t, n)
    BY <1>1, <1>2, AppendShape
  <2> QED
    BY <1>2, <2>1 DEF Joined, IsLast
<1>4. \A i \in 1..(n + 1) : i \in 1..n \/ i = n + 1
  BY <1>3
<1>5. \A h, j \in 1..n : IsLast(s, h) /\ Follows(s, h, j) => s[j].id \notin P
  BY <1>2 DEF Once
<1>6. AnsweredOnce(t)
  <2> SUFFICES ASSUME NEW i \in 1..(n + 1), NEW j \in 1..(n + 1), NEW h \in 1..(n + 1),
                      Follows(t, h, i), Follows(t, h, j), t[h].role # "tool", t[i].id = t[j].id
               PROVE  i = j
    BY <1>3 DEF AnsweredOnce
  <2>1. h \in 1..n
    BY <1>3, <1>4
  <2>2. CASE i \in 1..n /\ j \in 1..n
    BY <1>2, <1>3, <2>1, <2>2 DEF Once, AnsweredOnce
  <2>3. CASE i = n + 1 /\ j \in 1..n
    <3>1. IsLast(s, h) /\ Follows(s, h, j) /\ s[j].id = m.id
      BY <1>3, <2>1, <2>3
    <3> QED
      BY <1>5, <2>1, <2>3, <3>1
  <2>4. CASE i \in 1..n /\ j = n + 1
    <3>1. IsLast(s, h) /\ Follows(s, h, i) /\ s[i].id = m.id
      BY <1>3, <2>1, <2>4
    <3> QED
      BY <1>5, <2>1, <2>4, <3>1
  <2> QED
    BY <1>4, <2>2, <2>3, <2>4
<1>7. ASSUME NEW h \in 1..(n + 1), NEW j \in 1..(n + 1), IsLast(t, h), Follows(t, h, j)
      PROVE  t[j].id \notin P \ {m.id}
  <2>1. h \in 1..n
    BY <1>3, <1>4, <1>7
  <2> QED
    BY <1>3, <1>4, <1>5, <1>7, <2>1
<1> QED
  BY <1>1, <1>3, <1>6, <1>7 DEF Once

(* ... and so it did in a sound history that ends with one.                 *)
LEMMA ResultWas ==
  ASSUME NEW s \in Seq(Said), NEW m \in Said, m.role = "tool", NEW P,
         Sound(Append(s, m), P), Once(Append(s, m), P)
  PROVE  Sound(s, P \union {m.id}) /\ Once(s, P \union {m.id}) /\ m.id \notin P
<1>1. PICK t : t = Append(s, m)
  OBVIOUS
<1>2. PICK n : n = Len(s)
  OBVIOUS
<1>3. /\ n \in Nat /\ t \in Seq(Said) /\ Len(t) = n + 1 /\ t[n + 1] = m /\ \A i \in 1..n : t[i] = s[i]
      /\ \A i, j \in 1..n : Follows(t, i, j) <=> Follows(s, i, j)
      /\ \A i \in 1..n : s[i].role # "tool" => (Follows(t, i, n + 1) <=> IsLast(s, i))
      /\ \A i \in 1..(n + 1) : ~Follows(t, n + 1, i)
      /\ \A i \in 1..n : IsLast(t, i) <=> IsLast(s, i)
  <2>1. Joined(s, m, t, n)
    BY <1>1, <1>2, AppendShape
  <2> QED
    BY <1>2, <2>1 DEF Joined, IsLast
<1>4. \A i \in 1..(n + 1) : i \in 1..n \/ i = n + 1
  BY <1>3
<1>5. (\A i \in 1..n : i \in 1..(n + 1)) /\ n + 1 \in 1..(n + 1) /\ n + 1 \notin 1..n
  BY <1>3
<1>6. \A i \in 1..n : \A id \in ToSet(s[i].calls) : s[i].role # "tool"
  <2>1. \A i \in 1..n : s[i] \in Said
    BY <1>2
  <2> QED
    BY <2>1, WhoCalls
<1>7. /\ \A i \in 1..(n + 1) : \A id \in ToSet(t[i].calls) : Answers(t, i, id) \/ (id \in P /\ IsLast(t, i))
      /\ \A j \in 1..(n + 1) :
           t[j].role = "tool" => \E i \in 1..(n + 1) : Follows(t, i, j) /\ t[j].id \in ToSet(t[i].calls)
      /\ P \subseteq Asked(t)
      /\ \A h, j \in 1..(n + 1) : IsLast(t, h) /\ Follows(t, h, j) => t[j].id \notin P
      /\ \A i, j, h \in 1..(n + 1) :
           Follows(t, h, i) /\ Follows(t, h, j) /\ t[h].role # "tool" /\ t[i].id = t[j].id => i = j
  BY <1>1, <1>3 DEF Sound, Once, AnsweredOnce
<1>8. PICK h \in 1..n : IsLast(s, h) /\ m.id \in ToSet(s[h].calls) /\ Follows(t, h, n + 1)
  <2>1. PICK h \in 1..(n + 1) : Follows(t, h, n + 1) /\ m.id \in ToSet(t[h].calls)
    BY <1>3, <1>5, <1>7
  <2>2. h \in 1..n
    BY <1>3, <1>4, <2>1
  <2> QED
    BY <1>3, <1>6, <2>1, <2>2
<1>9. m.id \notin P
  BY <1>3, <1>5, <1>7, <1>8
<1>10. ASSUME NEW i \in 1..n, NEW id \in ToSet(s[i].calls)
       PROVE  Answers(s, i, id) \/ (id \in P \union {m.id} /\ IsLast(s, i))
  <2>1. Answers(t, i, id) \/ (id \in P /\ IsLast(t, i))
    BY <1>3, <1>5, <1>7, <1>10
  <2>2. CASE id \in P /\ IsLast(t, i)
    BY <1>3, <1>10, <2>2
  <2>3. CASE Answers(t, i, id)
    <3>1. PICK j \in 1..(n + 1) : Follows(t, i, j) /\ t[j].id = id
      BY <1>3, <2>3 DEF Answers
    <3>2. CASE j \in 1..n
      BY <1>2, <1>3, <1>10, <3>1, <3>2 DEF Answers
    <3>3. CASE j = n + 1
      BY <1>3, <1>6, <1>10, <3>1, <3>3
    <3> QED
      BY <1>4, <3>2, <3>3
  <2> QED
    BY <2>1, <2>2, <2>3
<1>11. ASSUME NEW j \in 1..n, s[j].role = "tool"
       PROVE  \E i \in 1..n : Follows(s, i, j) /\ s[j].id \in ToSet(s[i].calls)
  <2>1. PICK i \in 1..(n + 1) : Follows(t, i, j) /\ t[j].id \in ToSet(t[i].calls)
    BY <1>3, <1>5, <1>7, <1>11
  <2>2. i \in 1..n
    BY <1>3, <1>4, <1>5, <1>11, <2>1
  <2> QED
    BY <1>3, <1>11, <2>1, <2>2
<1>12. P \union {m.id} \subseteq Asked(s)
  <2>1. m.id \in CallIds
    BY <1>2, <1>8, WhoCalls
  <2>2. Asked(t) = Asked(s)
    BY <1>1, AskedAppend
  <2>3. m.id \in Asked(s)
    BY <1>2, <1>8, <2>1 DEF Asked
  <2> QED
    BY <1>7, <2>2, <2>3
<1>13. AnsweredOnce(s)
  <2> SUFFICES ASSUME NEW i \in 1..n, NEW j \in 1..n, NEW g \in 1..n,
                      Follows(s, g, i), Follows(s, g, j), s[g].role # "tool", s[i].id = s[j].id
               PROVE  i = j
    BY <1>2 DEF AnsweredOnce
  <2> QED
    BY <1>3, <1>5, <1>7
<1>14. ASSUME NEW g \in 1..n, NEW j \in 1..n, IsLast(s, g), Follows(s, g, j)
       PROVE  s[j].id \notin P \union {m.id}
  <2>1. IsLast(t, g) /\ Follows(t, g, j) /\ t[j] = s[j] /\ t[g] = s[g] /\ s[g].role # "tool"
    BY <1>3, <1>14 DEF IsLast
  <2>2. s[j].id \notin P
    BY <1>5, <1>7, <1>14, <2>1
  <2>3. Follows(t, g, n + 1)
    BY <1>3, <1>14, <2>1
  <2>4. s[j].id # m.id
    BY <1>3, <1>5, <1>7, <1>14, <2>1, <2>3
  <2> QED
    BY <2>2, <2>4
<1> QED
  BY <1>2, <1>9, <1>10, <1>11, <1>12, <1>13, <1>14 DEF Sound, Once

(* Before a message that is no result, every call was answered.             *)
LEMMA TurnWas ==
  ASSUME NEW s \in Seq(Said), NEW m \in Said, m.role # "tool", NEW P,
         Sound(Append(s, m), P), Once(Append(s, m), P)
  PROVE  Sound(s, {}) /\ Once(s, {}) /\ P = ToSet(m.calls)
<1>1. PICK t : t = Append(s, m)
  OBVIOUS
<1>2. PICK n : n = Len(s)
  OBVIOUS
<1>3. /\ n \in Nat /\ t \in Seq(Said) /\ Len(t) = n + 1 /\ t[n + 1] = m /\ \A i \in 1..n : t[i] = s[i]
      /\ \A i, j \in 1..n : Follows(t, i, j) <=> Follows(s, i, j)
      /\ \A i \in 1..n : ~Follows(t, i, n + 1)
      /\ \A i \in 1..(n + 1) : ~Follows(t, n + 1, i)
      /\ \A i \in 1..n : ~IsLast(t, i)
  <2>1. Joined(s, m, t, n)
    BY <1>1, <1>2, AppendShape
  <2> QED
    BY <1>2, <2>1 DEF Joined
<1>4. \A i \in 1..(n + 1) : i \in 1..n \/ i = n + 1
  BY <1>3
<1>5. (\A i \in 1..n : i \in 1..(n + 1)) /\ n + 1 \in 1..(n + 1) /\ n + 1 \notin 1..n
  BY <1>3
<1>7. /\ \A i \in 1..(n + 1) : \A id \in ToSet(t[i].calls) : Answers(t, i, id) \/ (id \in P /\ IsLast(t, i))
      /\ \A j \in 1..(n + 1) :
           t[j].role = "tool" => \E i \in 1..(n + 1) : Follows(t, i, j) /\ t[j].id \in ToSet(t[i].calls)
      /\ P \subseteq Asked(t)
      /\ \A i, j, h \in 1..(n + 1) :
           Follows(t, h, i) /\ Follows(t, h, j) /\ t[h].role # "tool" /\ t[i].id = t[j].id => i = j
  BY <1>1, <1>3 DEF Sound, Once, AnsweredOnce
<1>8. P = ToSet(m.calls)
  <2>1. Asked(t) = ToSet(m.calls)
    BY <1>1, AskedAppend
  <2>2. \A id \in ToSet(m.calls) : ~Answers(t, n + 1, id)
    BY <1>3 DEF Answers
  <2>3. \A id \in ToSet(m.calls) : id \in P
    BY <1>3, <1>5, <1>7, <2>2
  <2>4. P \subseteq ToSet(m.calls) /\ ToSet(m.calls) \subseteq P
    BY <1>7, <2>1, <2>3
  <2> QED
    BY <2>4
<1>10. ASSUME NEW i \in 1..n, NEW id \in ToSet(s[i].calls)
       PROVE  Answers(s, i, id)
  <2>1. Answers(t, i, id)
    BY <1>3, <1>5, <1>7, <1>10
  <2>2. PICK j \in 1..(n + 1) : Follows(t, i, j) /\ t[j].id = id
    BY <1>3, <2>1 DEF Answers
  <2>3. j \in 1..n
    BY <1>3, <1>4, <1>10, <2>2
  <2> QED
    BY <1>2, <1>3, <1>10, <2>2, <2>3 DEF Answers
<1>11. ASSUME NEW j \in 1..n, s[j].role = "tool"
       PROVE  \E i \in 1..n : Follows(s, i, j) /\ s[j].id \in ToSet(s[i].calls)
  <2>1. PICK i \in 1..(n + 1) : Follows(t, i, j) /\ t[j].id \in ToSet(t[i].calls)
    BY <1>3, <1>5, <1>7, <1>11
  <2>2. i \in 1..n
    BY <1>3, <1>4, <1>5, <1>11, <2>1
  <2> QED
    BY <1>3, <1>11, <2>1, <2>2
<1>13. AnsweredOnce(s)
  <2> SUFFICES ASSUME NEW i \in 1..n, NEW j \in 1..n, NEW g \in 1..n,
                      Follows(s, g, i), Follows(s, g, j), s[g].role # "tool", s[i].id = s[j].id
               PROVE  i = j
    BY <1>2 DEF AnsweredOnce
  <2> QED
    BY <1>3, <1>5, <1>7
<1> QED
  BY <1>2, <1>8, <1>10, <1>11, <1>13 DEF Sound, Once

(* A sequence of results is one of messages.                                *)
LEMMA ResultsAre ==
  ASSUME NEW p \in Seq(CallIds)
  PROVE  /\ Results(p) \in Seq(Said) /\ Len(Results(p)) = Len(p)
         /\ \A k \in 1..Len(p) : Results(p)[k] = Result(p[k])
         /\ \A id \in CallIds : Result(id) \in Said /\ Result(id).role = "tool" /\ Result(id).id = id
<1>1. ASSUME NEW id \in CallIds PROVE Result(id) \in Said /\ Result(id).role = "tool" /\ Result(id).id = id
  BY DEF Result, Message, Said, Messages
<1>2. Len(p) \in Nat /\ \A k \in 1..Len(p) : Result(p[k]) \in Said
  BY <1>1
<1>3. Results(p) \in [1..Len(p) -> Said]
  BY <1>2 DEF Results
<1>4. Results(p) \in Seq(Said) /\ Len(Results(p)) = Len(p)
  BY <1>2, <1>3
<1> QED
  BY <1>1, <1>4 DEF Results

(* A history whose open calls are answered, one after the other.            *)
IsFilled(s, P, w) ==
  /\ w \in Seq(Said) /\ Sound(w, {}) /\ (Once(s, P) => Once(w, {}))
  /\ Asked(w) = Asked(s) /\ Spoken(w) = Spoken(s)
  /\ s # <<>> => w # <<>> /\ w[1] = s[1]

(* Results for its open calls make a sound history whole.                  *)
LEMMA Filled ==
  ASSUME NEW s \in Seq(Said), NEW p \in Seq(CallIds), IsInjective(p), Sound(s, ToSet(p))
  PROVE  IsFilled(s, ToSet(p), s \o Results(p))
<1> DEFINE N == Len(s)
           K == Len(p)
           Fill(k) == [j \in 1..(N + k) |-> IF j <= N THEN s[j] ELSE Result(p[j - N])]
           Rest(k) == {p[j] : j \in (k + 1)..K}
           Q == {k \in 0..K : /\ Fill(k) \in Seq(Said) /\ Sound(Fill(k), Rest(k))
                              /\ Once(s, ToSet(p)) => Once(Fill(k), Rest(k))
                              /\ Asked(Fill(k)) = Asked(s) /\ Spoken(Fill(k)) = Spoken(s)}
<1>1. N \in Nat /\ K \in Nat /\ DOMAIN p = 1..K /\ \A k \in 1..K : p[k] \in CallIds
  OBVIOUS
<1>2. Rest(0) = ToSet(p) /\ Rest(K) = {}
  BY <1>1 DEF ToSet
<1>3. Fill(0) = s
  <2>1. s = [j \in 1..N |-> s[j]]
    OBVIOUS
  <2>2. Fill(0) = [j \in 1..N |-> s[j]]
    BY <1>1
  <2> QED
    BY <2>1, <2>2
<1>4. 0 \in Q
  <2> HIDE DEF Fill, Rest
  <2> QED
    BY <1>1, <1>2, <1>3
<1>5. ASSUME NEW k \in 0..K, k \in Q, k < K PROVE k + 1 \in Q
  <2>1. PICK a : a = Fill(k)
    OBVIOUS
  <2>2. PICK R : R = Rest(k)
    OBVIOUS
  <2>3. PICK m : m = Result(p[k + 1])
    OBVIOUS
  <2>4. /\ a \in Seq(Said) /\ Sound(a, R) /\ (Once(s, ToSet(p)) => Once(a, R))
        /\ Asked(a) = Asked(s) /\ Spoken(a) = Spoken(s)
    BY <1>5, <2>1, <2>2
  <2>5. k + 1 \in 1..K /\ m \in Said /\ m.role = "tool" /\ m.id = p[k + 1]
    BY <1>1, <1>5, <2>3, ResultsAre
  <2>6. m.id \in R /\ Rest(k + 1) = R \ {m.id}
    <3>1. \A j \in (k + 1)..K : j = k + 1 \/ j \in (k + 2)..K
      BY <1>1, <1>5
    <3>2. \A j \in (k + 2)..K : j \in (k + 1)..K /\ j \in 1..K /\ j # k + 1
      BY <1>1, <1>5
    <3>3. \A j \in 1..K : p[j] = p[k + 1] => j = k + 1
      BY <1>1, <2>5 DEF IsInjective
    <3>4. k + 1 \in (k + 1)..K /\ (k + 1) + 1 = k + 2
      BY <1>1, <1>5
    <3> QED
      BY <2>2, <2>5, <3>1, <3>2, <3>3, <3>4
  <2>7. Fill(k + 1) = Append(a, m)
    <3>1. Len(a) = N + k /\ \A j \in 1..(N + k) : a[j] = IF j <= N THEN s[j] ELSE Result(p[j - N])
      <4>1. DOMAIN a = 1..(N + k) /\ N + k \in Nat
        BY <1>1, <2>1
      <4>2. Len(a) = N + k
        BY <2>4, <4>1
      <4> QED
        BY <2>1, <4>2
    <3>2. PICK t : t = Append(a, m)
      OBVIOUS
    <3>3. /\ t \in Seq(Said) /\ Len(t) = N + k + 1 /\ t[N + k + 1] = m
          /\ \A j \in 1..(N + k) : t[j] = a[j]
      <4>1. /\ t \in Seq(Said) /\ Len(t) = Len(a) + 1 /\ t[Len(a) + 1] = m
            /\ \A j \in 1..Len(a) : t[j] = a[j]
        BY <2>4, <2>5, <3>2, AppendProperties
      <4> QED
        BY <3>1, <4>1
    <3>4. ASSUME NEW j \in 1..(N + k + 1)
          PROVE  t[j] = IF j <= N THEN s[j] ELSE Result(p[j - N])
      <4>1. CASE j = N + k + 1
        <5>1. ~(j <= N) /\ j - N = k + 1
          BY <1>1, <4>1
        <5> QED
          BY <2>3, <3>3, <4>1, <5>1
      <4>2. CASE j # N + k + 1
        <5>1. j \in 1..(N + k)
          BY <1>1, <4>2
        <5> QED
          BY <3>1, <3>3, <4>2, <5>1
      <4> QED
        BY <4>1, <4>2
    <3>5. N + (k + 1) = N + k + 1
      BY <1>1
    <3>6. t = [j \in 1..(N + k + 1) |-> t[j]]
      BY <3>3
    <3>7. t = [j \in 1..(N + k + 1) |-> IF j <= N THEN s[j] ELSE Result(p[j - N])]
      BY <3>4, <3>6
    <3> QED
      BY <3>2, <3>5, <3>7
  <2>8. /\ Append(a, m) \in Seq(Said) /\ Sound(Append(a, m), R \ {m.id})
        /\ Once(s, ToSet(p)) => Once(Append(a, m), R \ {m.id})
    BY <2>4, <2>5, <2>6, SoundResult, OnceResult, AppendProperties
  <2>9. Asked(Append(a, m)) = Asked(s) /\ Spoken(Append(a, m)) = Spoken(s)
    BY <2>4, <2>5, AskedAppend, SpokenAppend
  <2>10. k + 1 \in 0..K
    BY <1>1, <1>5
  <2> HIDE DEF Fill, Rest
  <2> QED
    BY <2>6, <2>7, <2>8, <2>9, <2>10
<1> HIDE DEF Q
<1>6. \A k \in 0..K : k \in Q
  BY <1>1, <1>4, <1>5, Upwards
<1>7. Fill(K) = s \o Results(p)
  <2>1. PICK r : r = Results(p)
    OBVIOUS
  <2>2. r \in Seq(Said) /\ Len(r) = K /\ \A k \in 1..K : r[k] = Result(p[k])
    BY <2>1, ResultsAre
  <2>3. PICK w : w = s \o r
    OBVIOUS
  <2>4. w \in Seq(Said) /\ Len(w) = N + K /\ \A j \in 1..(N + K) : w[j] = IF j <= N THEN s[j] ELSE r[j - N]
    <3>1. /\ w \in Seq(Said) /\ Len(w) = Len(s) + Len(r)
          /\ \A j \in 1..Len(s) + Len(r) : w[j] = IF j <= Len(s) THEN s[j] ELSE r[j - Len(s)]
      <4>1. r \in Seq(Said)
        BY <2>2
      <4> QED
        BY <2>3, <4>1, ConcatProperties
    <3> QED
      BY <2>2, <3>1
  <2>5. \A j \in 1..(N + K) : ~(j <= N) => j - N \in 1..K
    BY <1>1
  <2>6. w = [j \in 1..(N + K) |-> w[j]]
    BY <2>4
  <2>7. \A j \in 1..(N + K) : w[j] = IF j <= N THEN s[j] ELSE Result(p[j - N])
    BY <2>2, <2>4, <2>5
  <2>8. w = [j \in 1..(N + K) |-> IF j <= N THEN s[j] ELSE Result(p[j - N])]
    BY <2>6, <2>7
  <2> QED
    BY <2>1, <2>3, <2>8
<1>8. PICK w : w = s \o Results(p)
  OBVIOUS
<1>9. /\ w \in Seq(Said) /\ Sound(w, {}) /\ (Once(s, ToSet(p)) => Once(w, {}))
      /\ Asked(w) = Asked(s) /\ Spoken(w) = Spoken(s)
  <2> HIDE DEF Fill, Rest
  <2>1. K \in Q
    BY <1>1, <1>6
  <2> QED
    BY <1>2, <1>7, <1>8, <2>1 DEF Q
<1>10. s # <<>> => w # <<>> /\ w[1] = s[1]
  <2>1. s # <<>> => N > 0
    BY <1>1
  <2>2. s # <<>> => 1 \in 1..(N + K) /\ 1 <= N
    BY <1>1, <2>1
  <2>3. w = [j \in 1..(N + K) |-> IF j <= N THEN s[j] ELSE Result(p[j - N])]
    BY <1>7, <1>8
  <2>4. Len(w) = N + K
    BY <1>1, <1>9, <2>3
  <2> QED
    BY <1>1, <2>1, <2>2, <2>3, <2>4
<1> QED
  BY <1>8, <1>9, <1>10 DEF IsFilled

(* A part of a history keeps who follows whom.                              *)
LEMMA PartShape ==
  ASSUME NEW s \in Seq(Said), NEW w \in Seq(Said), NEW d \in Nat, d + Len(w) <= Len(s),
         \A i \in 1..Len(w) : w[i] = s[d + i]
  PROVE  \A i, j \in 1..Len(w) : Follows(w, i, j) <=> Follows(s, d + i, d + j)
<1> SUFFICES ASSUME NEW i \in 1..Len(w), NEW j \in 1..Len(w)
             PROVE  Follows(w, i, j) <=> Follows(s, d + i, d + j)
  OBVIOUS
<1>1. Len(w) \in Nat /\ Len(s) \in Nat
  OBVIOUS
<1>2. \A k \in (i + 1)..j : k \in 1..Len(w) /\ d + k \in (d + i + 1)..(d + j) /\ w[k] = s[d + k]
  BY <1>1
<1>3. \A k \in (d + i + 1)..(d + j) : k - d \in (i + 1)..j /\ d + (k - d) = k
  BY <1>1
<1>4. i < j <=> d + i < d + j
  BY <1>1
<1>5. (\A k \in (i + 1)..j : w[k].role = "tool") <=> \A k \in (d + i + 1)..(d + j) : s[k].role = "tool"
  <2>1. ASSUME \A k \in (i + 1)..j : w[k].role = "tool", NEW k \in (d + i + 1)..(d + j)
        PROVE  s[k].role = "tool"
    <3>1. PICK h \in (i + 1)..j : d + h = k
      BY <1>3
    <3> QED
      BY <1>2, <2>1, <3>1
  <2>2. ASSUME \A k \in (d + i + 1)..(d + j) : s[k].role = "tool", NEW k \in (i + 1)..j
        PROVE  w[k].role = "tool"
    BY <1>2, <2>2
  <2> QED
    BY <2>1, <2>2
<1> QED
  BY <1>4, <1>5 DEF Follows

(* What follows a message that is no result is sound by itself.             *)
LEMMA SoundSuffix ==
  ASSUME NEW s \in Seq(Said), Sound(s, {}), NEW k \in 1..Len(s), s[k].role # "tool"
  PROVE  /\ SubSeq(s, k, Len(s)) \in Seq(Said) /\ Sound(SubSeq(s, k, Len(s)), {})
         /\ AnsweredOnce(s) => AnsweredOnce(SubSeq(s, k, Len(s)))
<1>1. PICK n : n = Len(s)
  OBVIOUS
<1>2. PICK w : w = SubSeq(s, k, n)
  OBVIOUS
<1>3. PICK d : d = k - 1
  OBVIOUS
<1>4. n \in Nat /\ k \in 1..n /\ d \in Nat /\ k = d + 1 /\ d < n
  BY <1>1, <1>3
<1>5. w \in Seq(Said) /\ Len(w) = n - d /\ \A i \in 1..(n - d) : w[i] = s[d + i]
  <2>1. \A i \in k..n : s[i] \in Said
    BY <1>1, <1>4
  <2>2. /\ w \in Seq(Said) /\ Len(w) = IF k <= n THEN n - k + 1 ELSE 0
        /\ \A i \in 1..(n - k + 1) : w[i] = s[k + i - 1]
    BY <1>2, <1>4, <2>1, SubSeqProperties
  <2>3. n - k + 1 = n - d /\ k <= n /\ \A i \in Nat : k + i - 1 = d + i
    BY <1>4
  <2>4. ASSUME NEW i \in 1..(n - d) PROVE w[i] = s[d + i]
    <3>1. i \in Nat
      BY <1>4
    <3> QED
      BY <2>2, <2>3, <3>1
  <2> QED
    BY <2>2, <2>3, <2>4
<1>6. PICK l : l = n - d
  OBVIOUS
<1>7. /\ l \in Nat /\ Len(w) = l /\ \A i \in 1..l : w[i] = s[d + i] /\ d + i \in 1..n
      /\ \A j \in 1..n : j >= k => j - d \in 1..l /\ d + (j - d) = j
  BY <1>4, <1>5, <1>6
<1>8. \A i, j \in 1..l : Follows(w, i, j) <=> Follows(s, d + i, d + j)
  <2>1. d + Len(w) <= Len(s)
    BY <1>1, <1>4, <1>6, <1>7
  <2> QED
    BY <1>4, <1>5, <1>7, <2>1, PartShape
<1>9. /\ \A i \in 1..n : \A id \in ToSet(s[i].calls) : Answers(s, i, id)
      /\ \A j \in 1..n : s[j].role = "tool" => \E i \in 1..n : Follows(s, i, j) /\ s[j].id \in ToSet(s[i].calls)
  BY <1>1 DEF Sound
<1>10. ASSUME NEW i \in 1..l, NEW id \in ToSet(w[i].calls) PROVE Answers(w, i, id)
  <2>1. PICK j \in 1..n : Follows(s, d + i, j) /\ s[j].id = id
    BY <1>1, <1>7, <1>9, <1>10 DEF Answers
  <2>2. j >= k
    BY <1>4, <2>1 DEF Follows
  <2> QED
    BY <1>7, <1>8, <2>1, <2>2 DEF Answers
<1>11. ASSUME NEW j \in 1..l, w[j].role = "tool"
       PROVE  \E i \in 1..l : Follows(w, i, j) /\ w[j].id \in ToSet(w[i].calls)
  <2>1. PICK i \in 1..n : Follows(s, i, d + j) /\ s[d + j].id \in ToSet(s[i].calls)
    BY <1>7, <1>9, <1>11
  <2>2. i >= k
    <3>1. i < k => k \in (i + 1)..(d + j)
      BY <1>4
    <3> QED
      BY <1>4, <2>1, <3>1 DEF Follows
  <2>3. PICK h \in 1..l : d + h = i
    BY <1>7, <2>2
  <2> QED
    BY <1>7, <1>8, <2>1, <2>3
<1>12. AnsweredOnce(s) => AnsweredOnce(w)
  <2> SUFFICES ASSUME AnsweredOnce(s), NEW i \in 1..l, NEW j \in 1..l, NEW h \in 1..l,
                      Follows(w, h, i), Follows(w, h, j), w[h].role # "tool", w[i].id = w[j].id
               PROVE  i = j
    BY <1>7 DEF AnsweredOnce
  <2>1. \A e \in 1..l : w[e] = s[d + e] /\ d + e \in 1..n
    BY <1>7
  <2>2. Follows(s, d + h, d + i) /\ Follows(s, d + h, d + j)
    BY <1>8
  <2>3. \A x, y, z \in 1..n :
          Follows(s, z, x) /\ Follows(s, z, y) /\ s[z].role # "tool" /\ s[x].id = s[y].id => x = y
    BY <1>1 DEF AnsweredOnce
  <2>4. d + i = d + j
    BY <2>1, <2>2, <2>3
  <2> QED
    BY <1>4, <1>7, <2>4
<1> QED
  BY <1>1, <1>2, <1>5, <1>7, <1>10, <1>11, <1>12 DEF Sound

(* Two sound histories make one.                                            *)
LEMMA SoundConcat ==
  ASSUME NEW a \in Seq(Said), NEW b \in Seq(Said), Sound(a, {}), Sound(b, {})
  PROVE  /\ a \o b \in Seq(Said) /\ Sound(a \o b, {})
         /\ AnsweredOnce(a) /\ AnsweredOnce(b) => AnsweredOnce(a \o b)
<1>1. PICK n : n = Len(a)
  OBVIOUS
<1>2. PICK l : l = Len(b)
  OBVIOUS
<1>3. PICK c : c = a \o b
  OBVIOUS
<1>4. /\ n \in Nat /\ l \in Nat /\ c \in Seq(Said) /\ Len(c) = n + l
      /\ \A i \in 1..n : c[i] = a[i] /\ i \in 1..(n + l)
      /\ \A i \in 1..l : c[n + i] = b[i] /\ n + i \in 1..(n + l)
  <2>1. /\ c \in Seq(Said) /\ Len(c) = Len(a) + Len(b)
        /\ \A i \in 1..Len(a) + Len(b) : c[i] = IF i <= Len(a) THEN a[i] ELSE b[i - Len(a)]
    BY <1>3, ConcatProperties
  <2>2. n \in Nat /\ l \in Nat
    BY <1>1, <1>2
  <2>3. \A i \in 1..l : ~(n + i <= n) /\ (n + i) - n = i /\ n + i \in 1..(n + l)
    BY <2>2
  <2>4. Len(c) = n + l /\ \A i \in 1..(n + l) : c[i] = IF i <= n THEN a[i] ELSE b[i - n]
    BY <1>1, <1>2, <2>1
  <2>5. \A i \in 1..n : c[i] = a[i] /\ i \in 1..(n + l)
    BY <2>2, <2>4
  <2>6. \A i \in 1..l : c[n + i] = b[i] /\ n + i \in 1..(n + l)
    BY <2>3, <2>4
  <2> QED
    BY <2>1, <2>2, <2>4, <2>5, <2>6
<1>5. \A j \in 1..(n + l) : j \in 1..n \/ \E i \in 1..l : j = n + i
  <2> SUFFICES ASSUME NEW j \in 1..(n + l), j \notin 1..n PROVE \E i \in 1..l : j = n + i
    OBVIOUS
  <2>1. j - n \in 1..l /\ j = n + (j - n)
    BY <1>4
  <2> QED
    BY <2>1
<1>6. \A i, j \in 1..n : Follows(a, i, j) <=> Follows(c, i, j)
  <2>1. 0 + Len(a) <= Len(c) /\ \A i \in 1..Len(a) : a[i] = c[0 + i]
    BY <1>1, <1>4
  <2>2. \A i, j \in 1..Len(a) : Follows(a, i, j) <=> Follows(c, 0 + i, 0 + j)
    BY <1>4, <2>1, PartShape
  <2>3. \A i \in 1..n : 0 + i = i
    BY <1>4
  <2> QED
    BY <1>1, <2>2, <2>3
<1>7. \A i, j \in 1..l : Follows(b, i, j) <=> Follows(c, n + i, n + j)
  <2>1. n + Len(b) <= Len(c) /\ \A i \in 1..Len(b) : b[i] = c[n + i]
    BY <1>2, <1>4
  <2> QED
    BY <1>2, <1>4, <2>1, PartShape
<1>8. ASSUME NEW i \in 1..n, NEW j \in 1..l PROVE ~Follows(c, i, n + j) /\ ~Follows(c, n + j, i)
  <2>1. 1 \in 1..l /\ b[1].role # "tool"
    <3>1. 1 \in 1..l
      BY <1>4
    <3>2. ASSUME NEW h \in 1..l PROVE ~Follows(b, h, 1)
      BY <1>4 DEF Follows
    <3> QED
      BY <1>2, <3>1, <3>2 DEF Sound
  <2>2. c[n + 1].role # "tool"
    BY <1>4, <2>1
  <2>3. n + 1 \in (i + 1)..(n + j) /\ ~(n + j < i)
    BY <1>4
  <2> QED
    BY <2>2, <2>3 DEF Follows
<1>9. /\ \A i \in 1..n : \A id \in ToSet(a[i].calls) : Answers(a, i, id)
      /\ \A j \in 1..n : a[j].role = "tool" => \E i \in 1..n : Follows(a, i, j) /\ a[j].id \in ToSet(a[i].calls)
      /\ \A i \in 1..l : \A id \in ToSet(b[i].calls) : Answers(b, i, id)
      /\ \A j \in 1..l : b[j].role = "tool" => \E i \in 1..l : Follows(b, i, j) /\ b[j].id \in ToSet(b[i].calls)
  BY <1>1, <1>2 DEF Sound
<1>10. ASSUME NEW i \in 1..(n + l), NEW id \in ToSet(c[i].calls) PROVE Answers(c, i, id)
  <2>1. CASE i \in 1..n
    <3>1. PICK j \in 1..n : Follows(a, i, j) /\ a[j].id = id
      BY <1>1, <1>4, <1>9, <1>10, <2>1 DEF Answers
    <3> QED
      BY <1>4, <1>6, <2>1, <3>1 DEF Answers
  <2>2. ASSUME NEW h \in 1..l, i = n + h PROVE Answers(c, i, id)
    <3>1. PICK j \in 1..l : Follows(b, h, j) /\ b[j].id = id
      BY <1>2, <1>4, <1>9, <1>10, <2>2 DEF Answers
    <3> QED
      BY <1>4, <1>7, <2>2, <3>1 DEF Answers
  <2> QED
    BY <1>5, <2>1, <2>2
<1>11. ASSUME NEW j \in 1..(n + l), c[j].role = "tool"
       PROVE  \E i \in 1..(n + l) : Follows(c, i, j) /\ c[j].id \in ToSet(c[i].calls)
  <2>1. CASE j \in 1..n
    <3>1. PICK i \in 1..n : Follows(a, i, j) /\ a[j].id \in ToSet(a[i].calls)
      BY <1>4, <1>9, <1>11, <2>1
    <3> QED
      BY <1>4, <1>6, <2>1, <3>1
  <2>2. ASSUME NEW h \in 1..l, j = n + h
        PROVE  \E i \in 1..(n + l) : Follows(c, i, j) /\ c[j].id \in ToSet(c[i].calls)
    <3>1. PICK i \in 1..l : Follows(b, i, h) /\ b[h].id \in ToSet(b[i].calls)
      BY <1>4, <1>9, <1>11, <2>2
    <3> QED
      BY <1>4, <1>7, <2>2, <3>1
  <2> QED
    BY <1>5, <2>1, <2>2
<1>12. AnsweredOnce(a) /\ AnsweredOnce(b) => AnsweredOnce(c)
  <2> SUFFICES ASSUME AnsweredOnce(a), AnsweredOnce(b),
                      NEW i \in 1..(n + l), NEW j \in 1..(n + l), NEW h \in 1..(n + l),
                      Follows(c, h, i), Follows(c, h, j), c[h].role # "tool", c[i].id = c[j].id
               PROVE  i = j
    BY <1>4 DEF AnsweredOnce
  <2>1. CASE h \in 1..n
    <3>1. i \in 1..n /\ j \in 1..n
      BY <1>5, <1>8, <2>1
    <3> QED
      BY <1>1, <1>4, <1>6, <2>1, <3>1 DEF AnsweredOnce
  <2>2. ASSUME NEW g \in 1..l, h = n + g PROVE i = j
    <3>1. PICK x \in 1..l : i = n + x
      BY <1>5, <1>8, <2>2
    <3>2. PICK y \in 1..l : j = n + y
      BY <1>5, <1>8, <2>2
    <3>3. x = y
      BY <1>2, <1>4, <1>7, <2>2, <3>1, <3>2 DEF AnsweredOnce
    <3> QED
      BY <3>1, <3>2, <3>3
  <2> QED
    BY <1>5, <2>1, <2>2
<1> QED
  BY <1>3, <1>4, <1>10, <1>11, <1>12 DEF Sound

(* The first message of a longer history.                                   *)
LEMMA FirstAppend ==
  ASSUME NEW S, NEW s \in Seq(S), NEW m \in S
  PROVE  /\ Append(s, m) # <<>> /\ Append(s, m)[1] = IF s = <<>> THEN m ELSE s[1]
         /\ s # <<>> => Len(s) > 0
<1>1. Len(s) \in Nat /\ (s # <<>> => Len(s) > 0) /\ (s = <<>> => Len(s) = 0)
  BY EmptySeq
<1>2. /\ Append(s, m) # <<>> /\ Append(s, m)[Len(s) + 1] = m
      /\ \A i \in 1..Len(s) : Append(s, m)[i] = s[i]
  BY AppendProperties
<1>3. s # <<>> => 1 \in 1..Len(s)
  BY <1>1
<1>4. CASE s = <<>>
  <2>1. Len(s) + 1 = 1
    BY <1>1, <1>4
  <2> QED
    BY <1>1, <1>2, <1>4, <2>1
<1>5. CASE s # <<>>
  BY <1>1, <1>2, <1>3, <1>5
<1> QED
  BY <1>4, <1>5

(* What completeHistory has built after each message: a sound history whose *)
(* open calls are those pending, and which says what it was given.          *)
Built(s, out, pending) ==
  /\ out \in Seq(Said) /\ pending \in Seq(CallIds) /\ IsInjective(pending)
  /\ Sound(out, ToSet(pending)) /\ Once(out, ToSet(pending))
  /\ Spoken(out) = Spoken(s) /\ Asked(out) = Asked(s)
  /\ s = <<>> => out = <<>> /\ pending = <<>>
  /\ s # <<>> /\ s[1].role # "tool" => out # <<>> /\ out[1] = s[1]

(* The empty history is sound.                                             *)
LEMMA NothingIsSound == Sound(<<>>, {}) /\ Once(<<>>, {}) /\ ToSet(<<>>) = {} /\ IsInjective(<<>>)
<1>1. Len(<<>>) = 0 /\ DOMAIN <<>> = {} /\ 1..0 = {}
  OBVIOUS
<1> QED
  BY <1>1 DEF Sound, Once, AnsweredOnce, Asked, ToSet, IsInjective

(* So it is after every message, whatever the history.                     *)
LEMMA BuiltIs ==
  ASSUME NEW s \in Seq(Said)
  PROVE  Built(s, End(s).out, End(s).pending)
<1> DEFINE Q == {t \in Seq(Said) : Built(t, End(t).out, End(t).pending)}
<1>1. <<>> \in Q
  <2>1. End(<<>>) = Unanswered
    <3>1. System \in Said
      BY DEF System, Message, Said, Messages
    <3>2. <<>> \in Seq(Said)
      OBVIOUS
    <3> QED
      BY <3>1, <3>2, EndAppend
  <2>2. End(<<>>).out = <<>> /\ End(<<>>).pending = <<>>
    BY <2>1 DEF Unanswered
  <2>3. <<>> \in Seq(Said) /\ <<>> \in Seq(CallIds)
    OBVIOUS
  <2>4. Built(<<>>, <<>>, <<>>)
    BY <2>3, NothingIsSound DEF Built
  <2> QED
    BY <2>2, <2>3, <2>4
<1>2. ASSUME NEW t \in Seq(Said), NEW m \in Said, t \in Q PROVE Append(t, m) \in Q
  <2>1. PICK out : out = End(t).out
    OBVIOUS
  <2>2. PICK pending : pending = End(t).pending
    OBVIOUS
  <2>3. PICK u : u = Append(t, m)
    OBVIOUS
  <2>4. u \in Seq(Said)
    BY <2>3, AppendProperties
  <2>5. Built(t, out, pending)
    BY <1>2, <2>1, <2>2
  <2>6. End(u) = Completed(End(t), m)
    BY <2>3, EndAppend
  <2>7. /\ Spoken(u) = IF m.role = "tool" THEN Spoken(t) ELSE Append(Spoken(t), m)
        /\ m.role = "tool" => Asked(u) = Asked(t)
        /\ m.role # "tool" => Asked(u) = ToSet(m.calls)
        /\ u # <<>> /\ u[1] = IF t = <<>> THEN m ELSE t[1]
    BY <2>3, SpokenAppend, AskedAppend, FirstAppend
  <2>8. /\ out \in Seq(Said) /\ pending \in Seq(CallIds) /\ IsInjective(pending)
        /\ Sound(out, ToSet(pending)) /\ Once(out, ToSet(pending))
        /\ Spoken(out) = Spoken(t) /\ Asked(out) = Asked(t)
        /\ t = <<>> => out = <<>> /\ pending = <<>>
        /\ t # <<>> /\ t[1].role # "tool" => out # <<>> /\ out[1] = t[1]
    BY <2>5 DEF Built
  <2>9. CASE m.role = "tool" /\ Contains(pending, m.id)
    <3>1. PICK o : o = Append(out, m)
      OBVIOUS
    <3>2. PICK p : p = RemoveFirst(pending, m.id)
      OBVIOUS
    <3>3. End(u).out = o /\ End(u).pending = p
      BY <2>1, <2>2, <2>6, <2>9, <3>1, <3>2 DEF Completed
    <3>4. p \in Seq(CallIds) /\ IsInjective(p) /\ ToSet(p) = ToSet(pending) \ {m.id}
      BY <2>8, <2>9, <3>2, RemovesOne
    <3>5. m.id \in ToSet(pending)
      <4>1. DOMAIN pending = 1..Len(pending)
        BY <2>8
      <4> QED
        BY <2>9, <4>1 DEF Contains, ToSet
    <3>6. o \in Seq(Said) /\ Sound(o, ToSet(p)) /\ Once(o, ToSet(p))
      BY <2>8, <2>9, <3>1, <3>4, <3>5, SoundResult, OnceResult, AppendProperties
    <3>7. Spoken(o) = Spoken(u) /\ Asked(o) = Asked(u)
      BY <2>7, <2>8, <2>9, <3>1, SpokenAppend, AskedAppend
    <3>8. u[1].role # "tool" => o # <<>> /\ o[1] = u[1]
      BY <2>7, <2>8, <2>9, <3>1, FirstAppend
    <3>9. Built(u, o, p)
      BY <2>7, <3>4, <3>6, <3>7, <3>8 DEF Built
    <3> QED
      BY <2>3, <2>4, <3>3, <3>9
  <2>10. CASE m.role = "tool" /\ ~Contains(pending, m.id)
    <3>1. End(u).out = out /\ End(u).pending = pending
      BY <2>1, <2>2, <2>6, <2>10 DEF Completed
    <3>2. Built(u, out, pending)
      BY <2>7, <2>8, <2>10 DEF Built
    <3> QED
      BY <2>3, <2>4, <3>1, <3>2
  <2>11. CASE m.role # "tool"
    <3>1. PICK w : w = out \o Results(pending)
      OBVIOUS
    <3>2. PICK o : o = Append(w, m)
      OBVIOUS
    <3>3. PICK p : p = m.calls
      OBVIOUS
    <3>4. End(u).out = o /\ End(u).pending = p
      <4>1. End(u) = [out |-> o, pending |-> p]
        BY <2>1, <2>2, <2>6, <2>11, <3>1, <3>2, <3>3 DEF Completed
      <4> QED
        BY <4>1
    <3>5. IsFilled(out, ToSet(pending), w)
      BY <2>8, <3>1, Filled
    <3>6. /\ w \in Seq(Said) /\ Sound(w, {}) /\ AnsweredOnce(w) /\ Spoken(w) = Spoken(t)
          /\ out # <<>> => w # <<>> /\ w[1] = out[1]
      BY <2>8, <3>5 DEF IsFilled, Once
    <3>7. p \in Seq(CallIds) /\ IsInjective(p)
      <4>1. CASE p = <<>>
        BY <4>1, NothingIsSound
      <4>2. CASE p \in Turns
        <5>1. p \in Seq(ToSet(p)) /\ IsInjective(p)
          BY <4>2, HistoryAssumption DEF HistoryAssumption
        <5>2. ToSet(p) \subseteq CallIds
          BY <4>2 DEF CallIds
        <5> QED
          BY <5>1, <5>2, SeqMonotonic
      <4> QED
        BY <3>3, <4>1, <4>2 DEF Said, Messages
    <3>8. o \in Seq(Said) /\ Sound(o, ToSet(p)) /\ Once(o, ToSet(p))
      BY <2>11, <3>2, <3>3, <3>6, SoundTurn, OnceTurn, AppendProperties
    <3>9. Spoken(o) = Spoken(u) /\ Asked(o) = Asked(u)
      BY <2>7, <2>11, <3>2, <3>6, SpokenAppend, AskedAppend
    <3>10. u[1].role # "tool" => o # <<>> /\ o[1] = u[1]
      <4>1. o # <<>> /\ o[1] = IF w = <<>> THEN m ELSE w[1]
        BY <3>2, <3>6, FirstAppend
      <4>2. CASE t = <<>>
        <5>1. w = <<>>
          <6>1. out = <<>> /\ pending = <<>> /\ Results(pending) \in Seq(Said) /\ Len(Results(pending)) = Len(pending)
            BY <2>8, <4>2, ResultsAre
          <6>2. Results(pending) = <<>>
            BY <6>1, EmptySeq
          <6> QED
            BY <3>1, <6>1, <6>2
        <5> QED
          BY <2>7, <4>1, <4>2, <5>1
      <4>3. CASE t # <<>>
        BY <2>7, <2>8, <3>6, <4>1, <4>3
      <4> QED
        BY <4>2, <4>3
    <3>11. Built(u, o, p)
      BY <2>7, <3>7, <3>8, <3>9, <3>10 DEF Built
    <3> QED
      BY <2>3, <2>4, <3>4, <3>11
  <2> QED
    BY <2>9, <2>10, <2>11
<1> HIDE DEF Q
<1>3. s \in Q
  BY <1>1, <1>2, BySequence
<1> QED
  BY <1>3 DEF Q

(* A history that is sound already is built as it is.                       *)
LEMMA BuiltAsItIs ==
  ASSUME NEW s \in Seq(Said), NEW P, Sound(s, P), Once(s, P)
  PROVE  End(s).out = s /\ ToSet(End(s).pending) = P
<1> DEFINE Same(t) == \A R : Sound(t, R) /\ Once(t, R) => End(t).out = t /\ ToSet(End(t).pending) = R
           Q == {t \in Seq(Said) : Same(t)}
<1>1. <<>> \in Q
  <2>1. End(<<>>) = Unanswered
    <3>1. System \in Said
      BY DEF System, Message, Said, Messages
    <3>2. <<>> \in Seq(Said)
      OBVIOUS
    <3> QED
      BY <3>1, <3>2, EndAppend
  <2>2. End(<<>>).out = <<>> /\ End(<<>>).pending = <<>>
    BY <2>1 DEF Unanswered
  <2>3. \A R : Sound(<<>>, R) => R = {}
    <3>1. Len(<<>>) = 0 /\ 1..0 = {}
      OBVIOUS
    <3> QED
      BY <3>1 DEF Sound, Asked
  <2>4. <<>> \in Seq(Said)
    OBVIOUS
  <2> QED
    BY <2>2, <2>3, <2>4, NothingIsSound
<1>2. ASSUME NEW t \in Seq(Said), NEW m \in Said, t \in Q PROVE Append(t, m) \in Q
  <2>1. PICK u : u = Append(t, m)
    OBVIOUS
  <2>2. u \in Seq(Said) /\ End(u) = Completed(End(t), m)
    BY <2>1, EndAppend, AppendProperties
  <2>3. PICK pending : pending = End(t).pending
    OBVIOUS
  <2>4. pending \in Seq(CallIds) /\ IsInjective(pending) /\ DOMAIN pending = 1..Len(pending)
    <3>1. pending \in Seq(CallIds) /\ IsInjective(pending)
      BY <2>3, BuiltIs DEF Built
    <3> QED
      BY <3>1
  <2>5. ASSUME NEW R, Sound(u, R), Once(u, R) PROVE End(u).out = u /\ ToSet(End(u).pending) = R
    <3>1. CASE m.role = "tool"
      <4>1. Sound(t, R \union {m.id}) /\ Once(t, R \union {m.id}) /\ m.id \notin R
        BY <2>1, <2>5, <3>1, ResultWas
      <4>2. End(t).out = t /\ ToSet(pending) = R \union {m.id}
        BY <1>2, <2>3, <4>1
      <4>3. Contains(pending, m.id)
        BY <2>4, <4>2 DEF Contains, ToSet
      <4>4. End(u).out = u /\ End(u).pending = RemoveFirst(pending, m.id)
        BY <2>1, <2>2, <2>3, <3>1, <4>2, <4>3 DEF Completed
      <4>5. ToSet(RemoveFirst(pending, m.id)) = ToSet(pending) \ {m.id}
        BY <2>4, <4>3, RemovesOne
      <4> QED
        BY <4>1, <4>2, <4>4, <4>5
    <3>2. CASE m.role # "tool"
      <4>1. Sound(t, {}) /\ Once(t, {}) /\ R = ToSet(m.calls)
        BY <2>1, <2>5, <3>2, TurnWas
      <4>2. End(t).out = t /\ ToSet(pending) = {}
        BY <1>2, <2>3, <4>1
      <4>3. Len(pending) = 0
        <5>1. Len(pending) \in Nat /\ 1..Len(pending) = {}
          BY <2>4, <4>2 DEF ToSet
        <5> QED
          BY <5>1
      <4>4. Results(pending) = <<>>
        BY <2>4, <4>3, ResultsAre, EmptySeq
      <4>5. End(u).out = Append(t \o <<>>, m) /\ End(u).pending = m.calls
        BY <2>2, <2>3, <3>2, <4>2, <4>4 DEF Completed
      <4>6. t \o <<>> = t
        BY ConcatEmptySeq
      <4> QED
        BY <2>1, <4>1, <4>5, <4>6
    <3> QED
      BY <3>1, <3>2
  <2> HIDE DEF Same
  <2>6. Same(u)
    BY <2>5 DEF Same
  <2> QED
    BY <2>1, <2>2, <2>6
<1> HIDE DEF Q
<1>3. s \in Q
  BY <1>1, <1>2, BySequence
<1> QED
  BY <1>3 DEF Q

(* completeHistory, for every sequence of messages: what it returns is sound*)
(* and answers each call once, says what it was given, asks what it asked,  *)
(* and is what it was given when that was sound.                            *)
LEMMA Completes ==
  ASSUME NEW s \in Seq(Said)
  PROVE  /\ CompleteHistory(s) \in Seq(Said)
         /\ Sound(CompleteHistory(s), {}) /\ Once(CompleteHistory(s), {})
         /\ Spoken(CompleteHistory(s)) = Spoken(s) /\ Asked(CompleteHistory(s)) = Asked(s)
         /\ s # <<>> /\ s[1].role # "tool" => CompleteHistory(s) # <<>> /\ CompleteHistory(s)[1] = s[1]
         /\ Sound(s, {}) /\ Once(s, {}) => CompleteHistory(s) = s
<1>1. PICK out : out = End(s).out
  OBVIOUS
<1>2. PICK pending : pending = End(s).pending
  OBVIOUS
<1>3. PICK w : w = CompleteHistory(s)
  OBVIOUS
<1>4. w = out \o Results(pending)
  BY <1>1, <1>2, <1>3, CompleteHistoryIs
<1>5. Built(s, out, pending)
  BY <1>1, <1>2, BuiltIs
<1>6. /\ out \in Seq(Said) /\ pending \in Seq(CallIds) /\ IsInjective(pending)
      /\ Sound(out, ToSet(pending)) /\ Once(out, ToSet(pending))
      /\ Spoken(out) = Spoken(s) /\ Asked(out) = Asked(s)
      /\ s # <<>> /\ s[1].role # "tool" => out # <<>> /\ out[1] = s[1]
  BY <1>5 DEF Built
<1>7. IsFilled(out, ToSet(pending), w)
  BY <1>4, <1>6, Filled
<1>8. ASSUME Sound(s, {}), Once(s, {}) PROVE w = s
  <2>1. out = s /\ ToSet(pending) = {}
    BY <1>1, <1>2, <1>8, BuiltAsItIs
  <2>2. DOMAIN pending = 1..Len(pending) /\ Len(pending) \in Nat
    BY <1>6
  <2>3. Len(pending) = 0
    <3>1. 1..Len(pending) = {}
      BY <2>1, <2>2 DEF ToSet
    <3>2. ASSUME NEW n \in Nat, 1..n = {} PROVE n = 0
      BY <3>2
    <3> QED
      BY <2>2, <3>1, <3>2
  <2>4. Results(pending) = <<>>
    BY <1>6, <2>3, ResultsAre, EmptySeq
  <2> QED
    BY <1>4, <2>1, <2>4, ConcatEmptySeq
<1> QED
  BY <1>3, <1>6, <1>7, <1>8 DEF IsFilled

(* No calls are open in a sound history: it has no orphans.                 *)
LEMMA SoundIsWhole ==
  ASSUME NEW s \in Seq(Said)
  PROVE  NoOrphans(s) <=> Sound(s, {})
BY DEF NoOrphans, Sound, Answers

(* No call is open: the answers given are all there is to say.             *)
LEMMA OnceIs ==
  ASSUME NEW s, NEW P, AnsweredOnce(s), P = {}
  PROVE  Once(s, P)
BY DEF Once

(* Without its instructions, a sound history is sound.                      *)
LEMMA WithoutInstructionsIs ==
  ASSUME NEW s \in Seq(Said), Sound(s, {}), AnsweredOnce(s)
  PROVE  /\ WithoutInstructions(s) \in Seq(Said) /\ Sound(WithoutInstructions(s), {})
         /\ AnsweredOnce(WithoutInstructions(s))
<1>1. CASE ~(s # <<>> /\ s[1].role = "system")
  BY <1>1 DEF WithoutInstructions
<1>2. CASE s # <<>> /\ s[1].role = "system"
  <2>1. WithoutInstructions(s) = SubSeq(s, 2, Len(s))
    BY <1>2, TailIsSubSeq DEF WithoutInstructions
  <2>2. Len(s) \in Nat /\ Len(s) > 0
    BY <1>2, EmptySeq
  <2>3. CASE Len(s) = 1
    <3>1. SubSeq(s, 2, Len(s)) = <<>>
      BY <2>3, SubSeqEmpty
    <3>2. <<>> \in Seq(Said)
      OBVIOUS
    <3> QED
      BY <2>1, <3>1, <3>2, NothingIsSound DEF Once
  <2>4. CASE Len(s) # 1
    <3>1. 2 \in 1..Len(s) /\ 1 \in 1..Len(s)
      <4>1. ASSUME NEW n \in Nat, n > 0, n # 1 PROVE 2 \in 1..n /\ 1 \in 1..n
        BY <4>1
      <4> QED
        BY <2>2, <2>4, <4>1
    <3>2. s[2].role # "tool"
      <4>1. SUFFICES ASSUME s[2].role = "tool" PROVE FALSE
        OBVIOUS
      <4>2. PICK t \in 1..Len(s) : Follows(s, t, 2) /\ s[2].id \in ToSet(s[t].calls)
        BY <3>1, <4>1 DEF Sound
      <4>3. t = 1
        BY <2>2, <4>2 DEF Follows
      <4>4. s[1] \in Said
        BY <3>1
      <4>5. s[1].role = "assistant"
        BY <4>2, <4>3, <4>4, WhoCalls
      <4> QED
        BY <1>2, <4>5
    <3> QED
      BY <2>1, <3>1, <3>2, SoundSuffix
  <2> QED
    BY <2>3, <2>4
<1> QED
  BY <1>1, <1>2

(* The messages that begin a history.                                       *)
LEMMA Beginnings ==
  /\ System \in Said /\ User \in Said /\ System.role # "tool" /\ User.role # "tool"
  /\ System.calls = <<>> /\ User.calls = <<>> /\ ToSet(<<>>) = {}
  /\ \A turn \in Turns :
       /\ Assistant(turn) \in Said /\ Assistant(turn).role # "tool" /\ Assistant(turn).calls = turn
       /\ turn \in Seq(CallIds) /\ IsInjective(turn)
<1>1. System \in Said /\ User \in Said /\ System.role # "tool" /\ User.role # "tool"
      /\ System.calls = <<>> /\ User.calls = <<>>
  BY DEF System, User, Message, Said, Messages
<1>2. ASSUME NEW turn \in Turns
      PROVE  /\ Assistant(turn) \in Said /\ Assistant(turn).role # "tool" /\ Assistant(turn).calls = turn
             /\ turn \in Seq(CallIds) /\ IsInjective(turn)
  <2>1. Assistant(turn) \in Said /\ Assistant(turn).role # "tool" /\ Assistant(turn).calls = turn
    BY DEF Assistant, Message, Said, Messages
  <2>2. turn \in Seq(ToSet(turn)) /\ IsInjective(turn)
    BY HistoryAssumption DEF HistoryAssumption
  <2>3. ToSet(turn) \subseteq CallIds
    BY DEF CallIds
  <2> QED
    BY <2>1, <2>2, <2>3, SeqMonotonic
<1>3. ToSet(<<>>) = {}
  BY NothingIsSound
<1> QED
  BY <1>1, <1>2, <1>3

(* One message, then another of the user: nothing is open.                  *)
LEMMA BeginsSound ==
  /\ <<System>> \in Seq(Said) /\ Sound(<<System>>, {}) /\ AnsweredOnce(<<System>>)
  /\ <<System, User>> \in Seq(Said) /\ Sound(<<System, User>>, {}) /\ AnsweredOnce(<<System, User>>)
<1>1. <<>> \in Seq(Said) /\ Append(<<>>, System) = <<System>> /\ Append(<<System>>, User) = <<System, User>>
  <2>1. PICK x \in Said, y \in Said : x = System /\ y = User
    BY Beginnings
  <2>2. <<>> \in Seq(Said) /\ <<x>> \in Seq(Said) /\ <<y>> \in Seq(Said)
    OBVIOUS
  <2>3. Append(<<>>, x) = <<x>>
    OBVIOUS
  <2>4. Append(<<x>>, y) = <<x, y>>
    <3>1. PICK s : s = <<x>>
      OBVIOUS
    <3>2. s \in Seq(Said) /\ Len(s) = 1 /\ s[1] = x
      BY <3>1
    <3>3. /\ Append(s, y) \in Seq(Said) /\ Len(Append(s, y)) = 2
          /\ Append(s, y)[1] = x /\ Append(s, y)[2] = y
      <4>1. /\ Append(s, y) \in Seq(Said) /\ Len(Append(s, y)) = Len(s) + 1
            /\ \A i \in 1..Len(s) : Append(s, y)[i] = s[i]
            /\ Append(s, y)[Len(s) + 1] = y
        <5>1. s \in Seq(Said)
          BY <3>2
        <5> QED
          BY <5>1, AppendProperties
      <4>2. Len(s) + 1 = 2 /\ 1 \in 1..Len(s)
        BY <3>2
      <4> QED
        BY <3>2, <4>1, <4>2
    <3>4. PICK t : t = <<x, y>>
      OBVIOUS
    <3>5. t \in Seq(Said) /\ Len(t) = 2 /\ t[1] = x /\ t[2] = y
      BY <3>4
    <3>6. Append(s, y) = t
      BY <3>3, <3>5, SeqEqual
    <3> QED
      BY <3>1, <3>4, <3>6
  <2> QED
    BY <2>1, <2>2, <2>3, <2>4
<1>2. <<System>> \in Seq(Said) /\ Sound(<<System>>, {}) /\ Once(<<System>>, {})
  <2>1. Append(<<>>, System) \in Seq(Said)
    BY <1>1, Beginnings, AppendProperties
  <2>2. Sound(Append(<<>>, System), ToSet(System.calls))
    BY <1>1, Beginnings, NothingIsSound, SoundTurn
  <2>3. Once(Append(<<>>, System), {})
    BY <1>1, Beginnings, NothingIsSound, OnceTurn DEF Once
  <2> QED
    BY <1>1, <2>1, <2>2, <2>3, Beginnings
<1>3. <<System, User>> \in Seq(Said) /\ Sound(<<System, User>>, {}) /\ Once(<<System, User>>, {})
  <2>1. Append(<<System>>, User) \in Seq(Said)
    BY <1>2, Beginnings, AppendProperties
  <2>2. Sound(Append(<<System>>, User), ToSet(User.calls))
    BY <1>2, Beginnings, SoundTurn
  <2>3. Once(Append(<<System>>, User), {})
    BY <1>2, Beginnings, OnceTurn DEF Once
  <2> QED
    BY <1>1, <2>1, <2>2, <2>3, Beginnings
<1> QED
  BY <1>2, <1>3 DEF Once

-----------------------------------------------------------------------------
(* Every step keeps the invariant of a history.                             *)

(* A task begins with its instructions.                                    *)
LEMMA InitHistory == HistoryInit => HistoryInv
<1> SUFFICES ASSUME HistoryInit PROVE HistoryInv
  OBVIOUS
<1>1. history = <<System>> /\ undelivered = <<>> /\ carried = <<>>
  BY DEF HistoryInit
<1>2. Sound(history, ToSet(undelivered)) /\ Once(history, ToSet(undelivered)) /\ history \in Seq(Said)
  BY <1>1, BeginsSound, Beginnings, OnceIs
<1>3. history # <<>> /\ history[1] = System /\ carried \in Seq(Said) /\ undelivered \in Seq(CallIds)
  BY <1>1
<1>4. IsInjective(undelivered)
  BY <1>1, NothingIsSound
<1> QED
  BY <1>2, <1>3, <1>4 DEF HistoryInv

(* With no result to come, the history of the task is whole.                *)
LEMMA Delivered ==
  ASSUME HistoryInv, undelivered = <<>>
  PROVE  /\ Sound(history, {}) /\ ToSet(undelivered) = {}
         /\ kind = "root" => AnsweredOnce(history)
BY Beginnings DEF HistoryInv, Once

(* An input, and what the previous root left.                              *)
LEMMA InputKeeps == HistoryInv /\ ConsumeInput => HistoryInv'
<1> SUFFICES ASSUME HistoryInv, ConsumeInput PROVE HistoryInv'
  OBVIOUS
<1>1. PICK h : h = history
  OBVIOUS
<1>2. PICK c : c = CompleteHistory(carried)
  OBVIOUS
<1>3. PICK w : w = WithoutInstructions(c)
  OBVIOUS
<1>4. PICK b : b = h \o w
  OBVIOUS
<1>5. /\ undelivered = <<>> /\ undelivered' = <<>> /\ kind' = kind /\ carried' = <<>>
      /\ history' = Append(b, User)
  BY <1>1, <1>2, <1>3, <1>4 DEF ConsumeInput, Grows
<1>6. h \in Seq(Said) /\ h # <<>> /\ h[1] = System /\ Sound(h, {}) /\ (kind = "root" => AnsweredOnce(h))
  BY <1>1, <1>5, Delivered DEF HistoryInv
<1>7. c \in Seq(Said) /\ Sound(c, {}) /\ AnsweredOnce(c)
  BY <1>2, Completes DEF HistoryInv, Once
<1>8. w \in Seq(Said) /\ Sound(w, {}) /\ AnsweredOnce(w)
  BY <1>3, <1>7, WithoutInstructionsIs
<1>9. b \in Seq(Said) /\ Sound(b, {}) /\ (kind = "root" => AnsweredOnce(b))
  BY <1>4, <1>6, <1>8, SoundConcat
<1>10. b # <<>> /\ b[1] = System
  <2>1. Len(h) \in Nat /\ Len(h) > 0 /\ Len(w) \in Nat
    BY <1>6, <1>8, EmptySeq
  <2>2. /\ Len(b) = Len(h) + Len(w)
        /\ \A i \in 1..Len(h) + Len(w) : b[i] = IF i <= Len(h) THEN h[i] ELSE w[i - Len(h)]
    BY <1>4, <1>6, <1>8, ConcatProperties
  <2>3. 1 \in 1..Len(h) + Len(w) /\ 1 <= Len(h) /\ Len(b) > 0
    BY <2>1, <2>2
  <2> QED
    BY <1>6, <2>2, <2>3
<1>11. PICK g : g = Append(b, User)
  OBVIOUS
<1>12. g \in Seq(Said) /\ Sound(g, {}) /\ (kind = "root" => Once(g, {})) /\ g # <<>> /\ g[1] = System
  <2>1. Sound(g, ToSet(User.calls))
    BY <1>9, <1>11, Beginnings, SoundTurn
  <2>2. kind = "root" => Once(g, {})
    BY <1>9, <1>11, Beginnings, OnceTurn
  <2>3. g \in Seq(Said) /\ g # <<>> /\ g[1] = System
    BY <1>9, <1>10, <1>11, Beginnings, FirstAppend, AppendProperties
  <2> QED
    BY <2>1, <2>2, <2>3, Beginnings
<1>13. /\ undelivered' \in Seq(CallIds) /\ IsInjective(undelivered') /\ carried' \in Seq(Said)
       /\ ToSet(undelivered') = {} /\ history' = g
  BY <1>5, <1>11, NothingIsSound
<1> QED
  BY <1>5, <1>12, <1>13 DEF HistoryInv

(* A turn: its calls are open.                                             *)
LEMMA AnswerKeeps ==
  ASSUME HistoryInv, NEW turn \in Turns, ModelAnswers(turn)
  PROVE  HistoryInv'
<1>1. PICK h : h = history
  OBVIOUS
<1>2. PICK g : g = Append(h, Assistant(turn))
  OBVIOUS
<1>3. /\ undelivered = <<>> /\ undelivered' = turn /\ kind' = kind /\ carried' = carried /\ history' = g
  BY <1>1, <1>2 DEF ModelAnswers, Grows
<1>4. h \in Seq(Said) /\ h # <<>> /\ h[1] = System /\ Sound(h, {}) /\ (kind = "root" => AnsweredOnce(h))
  BY <1>1, <1>3, Delivered DEF HistoryInv
<1>5. /\ Assistant(turn) \in Said /\ Assistant(turn).role # "tool" /\ Assistant(turn).calls = turn
      /\ turn \in Seq(CallIds) /\ IsInjective(turn)
  BY Beginnings
<1>6. Sound(g, ToSet(turn)) /\ (kind = "root" => Once(g, ToSet(turn)))
  BY <1>2, <1>4, <1>5, SoundTurn, OnceTurn
<1>7. g \in Seq(Said) /\ g # <<>> /\ g[1] = System
  BY <1>2, <1>4, <1>5, FirstAppend, AppendProperties
<1> QED
  BY <1>3, <1>5, <1>6, <1>7 DEF HistoryInv

(* A result is delivered: its call is open no more.                        *)
LEMMA DeliveryKeeps == HistoryInv /\ DeliverResult => HistoryInv'
<1> SUFFICES ASSUME HistoryInv, DeliverResult PROVE HistoryInv'
  OBVIOUS
<1>1. PICK h : h = history
  OBVIOUS
<1>2. PICK p : p = undelivered
  OBVIOUS
<1>3. PICK m : m = Result(Head(p))
  OBVIOUS
<1>4. PICK g : g = Append(h, m)
  OBVIOUS
<1>5. PICK q : q = Tail(p)
  OBVIOUS
<1>6. p # <<>> /\ undelivered' = q /\ kind' = kind /\ carried' = carried /\ history' = g
  BY <1>1, <1>2, <1>3, <1>4, <1>5 DEF DeliverResult, Grows
<1>7. /\ h \in Seq(Said) /\ h # <<>> /\ h[1] = System /\ p \in Seq(CallIds) /\ IsInjective(p)
      /\ Sound(h, ToSet(p)) /\ (kind = "root" => Once(h, ToSet(p))) /\ carried \in Seq(Said)
  BY <1>1, <1>2 DEF HistoryInv
<1>8. /\ Len(p) \in Nat \ {0} /\ Head(p) = p[1] /\ Head(p) \in CallIds /\ DOMAIN p = 1..Len(p)
      /\ q \in Seq(CallIds) /\ Len(q) = Len(p) - 1 /\ DOMAIN q = 1..Len(q)
      /\ \A i \in 1..Len(q) : q[i] = p[i + 1]
  <2>1. Head(p) \in CallIds /\ q \in Seq(CallIds) /\ Len(q) = Len(p) - 1 /\ \A i \in 1..Len(q) : q[i] = p[i + 1]
    BY <1>5, <1>6, <1>7, HeadTailProperties
  <2>2. Len(p) \in Nat \ {0} /\ Head(p) = p[1] /\ DOMAIN p = 1..Len(p)
    BY <1>6, <1>7, EmptySeq
  <2>3. DOMAIN q = 1..Len(q)
    BY <2>1
  <2> QED
    BY <2>1, <2>2, <2>3
<1>9. m \in Said /\ m.role = "tool" /\ m.id = p[1]
  BY <1>3, <1>8, <1>7, ResultsAre
<1>10. m.id \in ToSet(p) /\ ToSet(q) = ToSet(p) \ {m.id} /\ IsInjective(q)
  <2>1. \A i \in 1..Len(p) : i = 1 \/ (i - 1 \in 1..Len(q) /\ (i - 1) + 1 = i)
    BY <1>8
  <2>2. \A i \in 1..Len(q) : i + 1 \in 1..Len(p) /\ i + 1 # 1
    BY <1>8
  <2>3. 1 \in 1..Len(p)
    BY <1>8
  <2>4. \A i \in 1..Len(p) : p[i] = p[1] => i = 1
    BY <1>7, <1>8, <2>3 DEF IsInjective
  <2>5. \A id : id \in ToSet(q) <=> id \in ToSet(p) /\ id # p[1]
    <3> SUFFICES ASSUME NEW id PROVE id \in ToSet(q) <=> id \in ToSet(p) /\ id # p[1]
      OBVIOUS
    <3>1. ASSUME id \in ToSet(q) PROVE id \in ToSet(p) /\ id # p[1]
      BY <1>8, <2>2, <2>4, <3>1 DEF ToSet
    <3>2. ASSUME id \in ToSet(p), id # p[1] PROVE id \in ToSet(q)
      <4>1. PICK i \in 1..Len(p) : p[i] = id
        BY <1>8, <3>2 DEF ToSet
      <4>2. PICK k \in 1..Len(q) : k + 1 = i
        BY <2>1, <3>2, <4>1
      <4> QED
        BY <1>8, <4>1, <4>2 DEF ToSet
    <3> QED
      BY <3>1, <3>2
  <2>6. IsInjective(q)
    <3> SUFFICES ASSUME NEW i \in 1..Len(q), NEW j \in 1..Len(q), q[i] = q[j] PROVE i = j
      BY <1>8 DEF IsInjective
    <3>1. i + 1 \in DOMAIN p /\ j + 1 \in DOMAIN p /\ p[i + 1] = p[j + 1]
      BY <1>8, <2>2
    <3>2. i + 1 = j + 1
      BY <1>7, <3>1 DEF IsInjective
    <3> QED
      BY <3>2
  <2> QED
    BY <1>8, <1>9, <2>3, <2>5, <2>6 DEF ToSet
<1>11. Sound(g, ToSet(q)) /\ (kind = "root" => Once(g, ToSet(q)))
  BY <1>4, <1>7, <1>9, <1>10, SoundResult, OnceResult
<1>12. g \in Seq(Said) /\ g # <<>> /\ g[1] = System
  BY <1>4, <1>7, <1>9, FirstAppend, AppendProperties
<1> QED
  BY <1>6, <1>7, <1>8, <1>10, <1>11, <1>12 DEF HistoryInv

(* Compaction cuts at a message that is no result.                         *)
LEMMA CompactKeeps == HistoryInv /\ Compact => HistoryInv'
<1> SUFFICES ASSUME HistoryInv, Compact PROVE HistoryInv'
  OBVIOUS
<1>1. PICK h : h = history
  OBVIOUS
<1>2. PICK cut \in Boundaries(h) : history' = Compacted(h, cut)
  BY <1>1 DEF Compact, Grows
<1>3. undelivered = <<>> /\ undelivered' = undelivered /\ kind' = kind /\ carried' = carried
  BY DEF Compact
<1>4. h \in Seq(Said) /\ h[1] = System /\ Sound(h, {}) /\ (kind = "root" => AnsweredOnce(h))
  BY <1>1, <1>3, Delivered DEF HistoryInv
<1>5. cut \in 1..Len(h) /\ h[cut].role # "tool"
  BY <1>2 DEF Boundaries, Heads
<1>6. PICK w : w = SubSeq(h, cut, Len(h))
  OBVIOUS
<1>7. w \in Seq(Said) /\ Sound(w, {}) /\ (kind = "root" => AnsweredOnce(w))
  BY <1>4, <1>5, <1>6, SoundSuffix
<1>8. PICK a : a = <<System, User>>
  OBVIOUS
<1>9. a \in Seq(Said) /\ Sound(a, {}) /\ AnsweredOnce(a) /\ Len(a) = 2 /\ a[1] = System
  BY <1>8, BeginsSound
<1>10. PICK g : g = a \o w
  OBVIOUS
<1>11. history' = g
  BY <1>2, <1>4, <1>6, <1>8, <1>10 DEF Compacted
<1>12. g \in Seq(Said) /\ Sound(g, {}) /\ (kind = "root" => AnsweredOnce(g))
  BY <1>7, <1>9, <1>10, SoundConcat
<1>13. g # <<>> /\ g[1] = System
  <2>1. /\ Len(g) = Len(a) + Len(w)
        /\ \A i \in 1..Len(a) + Len(w) : g[i] = IF i <= Len(a) THEN a[i] ELSE w[i - Len(a)]
    BY <1>7, <1>9, <1>10, ConcatProperties
  <2>2. Len(w) \in Nat
    BY <1>7
  <2>3. 1 \in 1..Len(a) + Len(w) /\ 1 <= Len(a) /\ Len(g) > 0
    BY <1>9, <2>1, <2>2
  <2> QED
    BY <1>9, <2>1, <2>3
<1>14. ToSet(undelivered) = {} /\ undelivered \in Seq(CallIds) /\ IsInjective(undelivered) /\ carried \in Seq(Said)
  BY <1>3, Beginnings DEF HistoryInv
<1>15. kind = "root" => Once(g, {})
  BY <1>12, OnceIs
<1> QED
  BY <1>3, <1>11, <1>12, <1>13, <1>14, <1>15 DEF HistoryInv

(* The next root begins anew.                                              *)
LEMMA NextRootKeeps == HistoryInv /\ NextRoot => HistoryInv'
<1> SUFFICES ASSUME HistoryInv, NextRoot PROVE HistoryInv'
  OBVIOUS
<1>1. history' = <<System>> /\ undelivered' = <<>> /\ carried' = history
  BY DEF NextRoot
<1>2. PICK g : g = <<System>>
  OBVIOUS
<1>3. g \in Seq(Said) /\ Sound(g, {}) /\ Once(g, {}) /\ g # <<>> /\ g[1] = System
  BY <1>2, BeginsSound, OnceIs
<1>4. PICK e : e = <<>>
  OBVIOUS
<1>5. e \in Seq(CallIds) /\ IsInjective(e) /\ ToSet(e) = {}
  BY <1>4, NothingIsSound
<1> QED
  BY <1>1, <1>2, <1>3, <1>4, <1>5 DEF HistoryInv

(* A child resumed goes on from a whole history; what was undelivered is   *)
(* delivered still.                                                        *)
LEMMA FollowupKeeps == HistoryInv /\ Followup => HistoryInv'
<1> SUFFICES ASSUME HistoryInv, Followup PROVE HistoryInv'
  OBVIOUS
<1>1. PICK h : h = history
  OBVIOUS
<1>2. PICK g : g = CompleteHistory(h)
  OBVIOUS
<1>3. kind = "child" /\ kind' = kind /\ undelivered' = undelivered /\ carried' = carried /\ history' = g
  BY <1>1, <1>2 DEF Followup, Grows
<1>4. /\ h \in Seq(Said) /\ h # <<>> /\ h[1] = System /\ Sound(h, ToSet(undelivered)) /\ carried \in Seq(Said)
      /\ undelivered \in Seq(CallIds) /\ IsInjective(undelivered)
  BY <1>1 DEF HistoryInv
<1>5. g \in Seq(Said) /\ Sound(g, {}) /\ Asked(g) = Asked(h) /\ g # <<>> /\ g[1] = System
  BY <1>2, <1>4, Beginnings, Completes
<1>6. Sound(g, ToSet(undelivered))
  BY <1>4, <1>5 DEF Sound
<1> QED
  BY <1>3, <1>4, <1>5, <1>6 DEF HistoryInv

(* Every step keeps the invariant.                                         *)
LEMMA NextHistory == HistoryInv /\ [HistoryNext]_historyVars => HistoryInv'
<1> SUFFICES ASSUME HistoryInv, [HistoryNext]_historyVars PROVE HistoryInv'
  OBVIOUS
<1>1. CASE UNCHANGED <<kind, history, undelivered, carried, phase>>
  BY <1>1 DEF HistoryInv
<1>2. ASSUME NEW turn \in Turns, ModelAnswers(turn) PROVE HistoryInv'
  BY <1>2, AnswerKeeps
<1> QED
  BY <1>1, <1>2, InputKeeps, DeliveryKeeps, CompactKeeps, NextRootKeeps, FollowupKeeps DEF HistoryNext, historyVars

(* The invariant makes requests well formed, and completeHistory the repair.*)
LEMMA HistoryPromise == HistoryInv => RequestsWellFormed
<1> SUFFICES ASSUME HistoryInv PROVE RequestsWellFormed
  OBVIOUS
<1>1. PICK h : h = history
  OBVIOUS
<1>2. PICK w : w = CompleteHistory(h)
  OBVIOUS
<1>3. h \in Seq(Said)
  BY <1>1 DEF HistoryInv
<1>4. /\ w \in Seq(Said) /\ Sound(w, {}) /\ Once(w, {}) /\ Spoken(w) = Spoken(h)
      /\ Sound(h, {}) /\ Once(h, {}) => w = h
  BY <1>2, <1>3, Completes
<1>5. NoOrphans(w) /\ AnsweredOnce(w)
  BY <1>4, SoundIsWhole DEF Once
<1>6. NoOrphans(h) /\ AnsweredOnce(h) => w = h
  BY <1>3, <1>4, SoundIsWhole, OnceIs
<1>7. undelivered = <<>> => NoOrphans(h) /\ (kind = "root" => AnsweredOnce(h))
  BY <1>1, <1>3, Delivered, SoundIsWhole
<1> QED
  BY <1>1, <1>2, <1>4, <1>5, <1>6, <1>7 DEF RequestsWellFormed

(* No request to the model holds a call without a result or a result without*)
(* a call, wherever tasks stop and histories are cut, and completeHistory   *)
(* repairs every history while it says nothing new and leaves a whole one as*)
(* it is (context.go, for any turns and histories of any length).           *)
THEOREM RequestsAreWellFormed == HistorySpec => []RequestsWellFormed
BY InitHistory, NextHistory, HistoryPromise, PTL DEF HistorySpec

(* The types of a history and of what is under way, with the invariant.     *)
HistoryTyped == HistoryInv /\ kind \in {"root", "child"} /\ phase \in {"input", "ask", "done"}

(* A history is made of messages, whatever it is cut, completed and carried *)
(* to (context.go).                                                         *)
THEOREM HistoriesAreMessages == HistorySpec => []HistoryTypeOK
<1>1. HistoryInit => HistoryTyped
  BY InitHistory DEF HistoryInit, HistoryTyped
<1>2. HistoryTyped /\ [HistoryNext]_historyVars => HistoryTyped'
  <2> SUFFICES ASSUME HistoryTyped, [HistoryNext]_historyVars PROVE HistoryTyped'
    OBVIOUS
  <2>1. HistoryInv'
    BY NextHistory DEF HistoryTyped
  <2>2. kind' \in {"root", "child"} /\ phase' \in {"input", "ask", "done"}
    BY DEF HistoryTyped, HistoryNext, historyVars, ConsumeInput, DeliverResult, Compact, NextRoot, Followup,
           ModelAnswers
  <2> QED
    BY <2>1, <2>2 DEF HistoryTyped
<1>3. HistoryTyped => HistoryTypeOK
  <2> SUFFICES ASSUME HistoryTyped PROVE HistoryTypeOK
    OBVIOUS
  <2>1. history \in Seq(Said) /\ carried \in Seq(Said) /\ undelivered \in Seq(CallIds)
    BY DEF HistoryTyped, HistoryInv
  <2>2. Said \subseteq Messages
    BY DEF Said
  <2>3. history \in Seq(Messages) /\ carried \in Seq(Messages)
    BY <2>1, <2>2, SeqMonotonic
  <2> QED
    BY <2>1, <2>3 DEF HistoryTyped, HistoryTypeOK
<1> QED
  BY <1>1, <1>2, <1>3, PTL DEF HistorySpec

-----------------------------------------------------------------------------
(* The stores of memory.                                                   *)

(* The types the argument needs: rows, and what editors remember of them.  *)
MemoryTypes ==
  /\ entry \in [Paths -> MemoryRows]
  /\ revisions \in [Paths -> SUBSET MemoryRows]
  /\ seen \in [Editors -> [path : Paths \union {NoPath}, row : MemoryRows]]

(* The inductive invariant: the two promises are inductive with their types.*)
MemIInv == MemoryTypes /\ MemoryExact

(* Nothing is written or seen.                                             *)
LEMMA InitMem == MemoryInit => MemIInv
<1> SUFFICES ASSUME MemoryInit PROVE MemIInv
  OBVIOUS
<1>1. Missing \in MemoryRows
  BY DEF Missing, MemoryRows
<1>2. MemoryTypes
  BY <1>1 DEF MemoryInit, MemoryTypes
<1>3. NoLostUpdate
  BY MemoryAssumption DEF MemoryInit, NoLostUpdate, MemoryAssumption
<1>4. HistoryKept
  BY DEF MemoryInit, HistoryKept, Missing
<1> QED BY <1>2, <1>3, <1>4 DEF MemIInv, MemoryExact

(* What an editor remembers is a row of the table, or none.                *)
LEMMA SawType ==
  ASSUME MemoryTypes, NEW e \in Editors, NEW p \in Paths, NEW row \in MemoryRows, Saw(e, p, row)
  PROVE  seen' \in [Editors -> [path : Paths \union {NoPath}, row : MemoryRows]]
<1>1. [path |-> p, row |-> row] \in [path : Paths \union {NoPath}, row : MemoryRows]
  OBVIOUS
<1> QED BY <1>1 DEF Saw, MemoryTypes

(* Reading remembers the row as it is.                                     *)
LEMMA KeepsRead ==
  ASSUME MemIInv, NEW e \in Editors, NEW p \in Paths, ReadEntry(e, p)
  PROVE  MemIInv'
<1>1. Saw(e, p, entry[p]) /\ entry[p] \in MemoryRows /\ UNCHANGED <<entry, revisions>>
  BY DEF ReadEntry, MemIInv, MemoryTypes
<1>2. MemoryTypes'
  BY <1>1, SawType DEF MemIInv, MemoryTypes
<1>3. NoLostUpdate'
  <2> SUFFICES ASSUME NEW f \in Editors, NEW q \in Paths, seen'[f].path = q
               PROVE  /\ seen'[f].row.version <= entry[q].version
                      /\ seen'[f].row.version = entry[q].version => seen'[f].row = entry[q]
    BY <1>1 DEF NoLostUpdate
  <2>1. CASE f = e
    <3>1. seen'[f] = [path |-> p, row |-> entry[p]]
      BY <1>1, <2>1 DEF Saw, MemIInv, MemoryTypes
    <3>2. entry[p].version \in Nat
      BY <1>1 DEF MemoryRows
    <3> QED BY <3>1, <3>2
  <2>2. CASE f # e
    <3>1. seen'[f] = seen[f]
      BY <1>1, <2>2 DEF Saw, MemIInv, MemoryTypes
    <3> QED BY <3>1 DEF MemIInv, MemoryExact, NoLostUpdate
  <2> QED BY <2>1, <2>2
<1>4. HistoryKept'
  BY <1>1 DEF HistoryKept, MemIInv, MemoryExact
<1> QED BY <1>2, <1>3, <1>4 DEF MemIInv, MemoryExact

(* A write makes the next version of the row it expected, and one revision.*)
LEMMA KeepsChange ==
  ASSUME MemIInv, NEW e \in Editors, NEW p \in Paths, NEW expected \in 0..MaxVersion,
         NEW content \in Contents \union {NoContent}, Change(e, p, expected, content)
  PROVE  MemIInv'
<1> DEFINE row == SavedRow(expected, content)
<1>1. /\ row \in MemoryRows /\ row.version = expected + 1 /\ expected \in Nat
      /\ entry[p].version = expected
  BY MemoryAssumption DEF SavedRow, MemoryRows, MemoryAssumption, Change
<1>2. /\ entry' = [entry EXCEPT ![p] = row]
      /\ revisions' = [revisions EXCEPT ![p] = Kept(p, row)]
      /\ Saw(e, p, row) \/ UNCHANGED seen
  BY DEF Change
<1>3. /\ entry \in [Paths -> MemoryRows] /\ revisions \in [Paths -> SUBSET MemoryRows]
      /\ seen \in [Editors -> [path : Paths \union {NoPath}, row : MemoryRows]]
  BY DEF MemIInv, MemoryTypes
<1> HIDE DEF row
<1>4. Kept(p, row) \subseteq MemoryRows
  BY <1>1, <1>3 DEF Kept
<1>5. MemoryTypes'
  <2>1. entry' \in [Paths -> MemoryRows] /\ revisions' \in [Paths -> SUBSET MemoryRows]
    BY <1>1, <1>2, <1>3, <1>4
  <2>2. seen' \in [Editors -> [path : Paths \union {NoPath}, row : MemoryRows]]
    BY <1>1, <1>2, <1>3, SawType DEF MemIInv
  <2> QED BY <2>1, <2>2 DEF MemoryTypes
<1>6. NoLostUpdate'
  <2> SUFFICES ASSUME NEW f \in Editors, NEW q \in Paths, seen'[f].path = q
               PROVE  /\ seen'[f].row.version <= entry'[q].version
                      /\ seen'[f].row.version = entry'[q].version => seen'[f].row = entry'[q]
    BY DEF NoLostUpdate
  <2>1. CASE seen'[f] = [path |-> p, row |-> row]
    BY <1>1, <1>2, <1>3, <2>1
  <2>2. CASE seen'[f] = seen[f]
    <3>1. /\ seen[f].row.version <= entry[q].version
          /\ seen[f].row.version = entry[q].version => seen[f].row = entry[q]
      BY <2>2 DEF MemIInv, MemoryExact, NoLostUpdate
    <3>2. CASE q = p
      <4>1. entry'[q] = row /\ entry[q].version = expected
        BY <1>1, <1>2, <1>3, <3>2
      <4>2. seen[f].row.version \in Nat
        BY <1>3 DEF MemoryRows
      <4> QED BY <1>1, <2>2, <3>1, <4>1, <4>2
    <3>3. CASE q # p
      <4>1. entry'[q] = entry[q]
        BY <1>2, <1>3, <3>3
      <4> QED BY <2>2, <3>1, <4>1
    <3> QED BY <3>2, <3>3
  <2>3. seen'[f] = [path |-> p, row |-> row] \/ seen'[f] = seen[f]
    BY <1>2, <1>3 DEF Saw
  <2> QED BY <2>1, <2>2, <2>3
<1>7. HistoryKept'
  <2> SUFFICES ASSUME NEW q \in Paths
               PROVE  /\ \A r, s \in revisions'[q] : r.version = s.version => r = s
                      /\ \A r \in revisions'[q] : r.version \in 1..entry'[q].version
                      /\ \A v \in 1..entry'[q].version :
                           v + HistoryKeep > entry'[q].version <=> \E r \in revisions'[q] : r.version = v
                      /\ entry'[q].version > 0 => entry'[q] \in revisions'[q]
    BY DEF HistoryKept
  <2>1. /\ \A r, s \in revisions[q] : r.version = s.version => r = s
        /\ \A r \in revisions[q] : r.version \in 1..entry[q].version
        /\ \A v \in 1..entry[q].version :
             v + HistoryKeep > entry[q].version <=> \E r \in revisions[q] : r.version = v
        /\ entry[q].version > 0 => entry[q] \in revisions[q]
    BY DEF MemIInv, MemoryExact, HistoryKept
  <2>2. CASE q # p
    <3>1. entry'[q] = entry[q] /\ revisions'[q] = revisions[q]
      BY <1>2, <1>3, <2>2
    <3> QED BY <2>1, <3>1
  <2>3. CASE q = p
    <3>1. entry'[q] = row /\ revisions'[q] = Kept(p, row) /\ entry[q].version = expected
      BY <1>1, <1>2, <1>3, <2>3
    <3>2. HistoryKeep \in Nat \ {0}
      BY MemoryAssumption DEF MemoryAssumption
    <3>3. \A r \in Kept(p, row) :
            /\ r = row \/ (r \in revisions[q] /\ r.version \in 1..expected)
            /\ r.version + HistoryKeep > expected + 1
      BY <1>1, <2>1, <2>3, <3>1 DEF Kept
    <3>4. row \in Kept(p, row)
      BY <1>1, <3>2 DEF Kept
    <3>5. ASSUME NEW v \in 1..(expected + 1), v + HistoryKeep > expected + 1
          PROVE  \E r \in Kept(p, row) : r.version = v
      <4>1. CASE v = expected + 1
        BY <1>1, <3>4, <4>1
      <4>2. CASE v # expected + 1
        <5>1. v \in 1..expected /\ v + HistoryKeep > expected
          BY <1>1, <3>2, <3>5, <4>2
        <5>2. PICK r \in revisions[q] : r.version = v
          BY <2>1, <3>1, <5>1
        <5> QED BY <1>1, <2>3, <3>5, <5>2 DEF Kept
      <4> QED BY <4>1, <4>2
    <3>6. \A r, s \in Kept(p, row) : r.version = s.version => r = s
      BY <1>1, <2>1, <3>3
    <3>7. \A r \in Kept(p, row) : r.version \in 1..(expected + 1)
      BY <1>1, <3>3
    <3> QED BY <1>1, <3>1, <3>3, <3>4, <3>5, <3>6, <3>7
  <2> QED BY <2>2, <2>3
<1> QED BY <1>5, <1>6, <1>7 DEF MemIInv, MemoryExact

(* Every step of the store keeps the invariant.                            *)
LEMMA NextMem == MemIInv /\ [MemoryNext]_memoryVars => MemIInv'
<1> SUFFICES ASSUME MemIInv, [MemoryNext]_memoryVars PROVE MemIInv'
  OBVIOUS
<1>1. CASE UNCHANGED <<entry, revisions, seen>>
  BY <1>1 DEF MemIInv, MemoryTypes, MemoryExact, NoLostUpdate, HistoryKept
<1>2. ASSUME NEW e \in Editors, NEW p \in Paths, ReadEntry(e, p) PROVE MemIInv'
  BY <1>2, KeepsRead
<1>3. ASSUME NEW e \in Editors, NEW p \in Paths, NEW expected \in 0..MaxVersion,
             NEW content \in Contents \union {NoContent}, Change(e, p, expected, content)
      PROVE  MemIInv'
  BY <1>3, KeepsChange
<1>4. ASSUME NEW p \in Paths, NEW expected \in 0..MaxVersion, Conflicting(p, expected) PROVE MemIInv'
  BY <1>1, <1>4 DEF Conflicting
<1> QED BY <1>1, <1>2, <1>3, <1>4 DEF MemoryNext, memoryVars

(* Whoever writes with the version it saw replaces exactly what it saw, and*)
(* the last versions of an entry each have their revision (change, for any *)
(* number of editors, entries and versions).                               *)
THEOREM NoUpdateIsLost == MemorySpec => []MemoryExact
<1>1. MemIInv => MemoryExact
  BY DEF MemIInv
<1> QED BY InitMem, NextMem, <1>1, PTL DEF MemorySpec
=============================================================================
