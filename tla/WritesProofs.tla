---------------------------- MODULE WritesProofs -----------------------------
(***************************************************************************)
(* What append accepts is stored.  A batch is followed by the places of    *)
(* its values, through every narrowing, encoding and sorting; the store,   *)
(* each call and what it has stored so far make the inductive invariant.   *)
(* A question asked meanwhile leaves all three alone, so the invariant is  *)
(* one of the steps of Queries.                                            *)
(***************************************************************************)
EXTENDS Queries, Counting

LOCAL INSTANCE SequencesExt

-----------------------------------------------------------------------------
(* Sequences flattened, by the places of their elements.                   *)

\* Where the elements of sequences stand.
Places(ss) == UNION {{<<k, m>> : m \in DOMAIN ss[k]} : k \in DOMAIN ss}

\* A sequence of sequences.
SequencesOf(ss) == Listing(ss) /\ \A k \in DOMAIN ss : Listing(ss[k])

\* `f` is the concatenation of the first sequences of `ss`, so far as it goes.
Unfolds(f, ss, n) == f = [i \in 1..n |-> IF i = 1 THEN ss[i] ELSE f[i - 1] \o ss[i]]

\* FlattenSeq is that concatenation, carried through.
LEMMA FlattenUnfolds ==
  ASSUME NEW ss, SequencesOf(ss), Len(ss) # 0
  PROVE  \E f : Unfolds(f, ss, Len(ss)) /\ FlattenSeq(ss) = f[Len(ss)]
<1>1. Len(ss) \in Nat
  BY DEF SequencesOf, Listing
<1> DEFINE T == {n \in Nat : ~\E f : Unfolds(f, ss, n)}
<1>2. T = {}
  <2> SUFFICES ASSUME T # {} PROVE FALSE
    OBVIOUS
  <2>1. PICK n \in T : \A m \in T : n <= m
    BY LeastNatural
  <2>2. n # 0
    <3>1. Unfolds(<<>>, ss, 0)
      BY DEF Unfolds
    <3> QED BY <3>1
  <2>3. n - 1 \in Nat /\ n - 1 \notin T
    BY <2>1, <2>2
  <2>4. PICK f : Unfolds(f, ss, n - 1)
    BY <2>3
  <2> DEFINE g == [i \in 1..n |-> IF i = n THEN IF n = 1 THEN ss[n] ELSE f[n - 1] \o ss[n] ELSE f[i]]
  <2>5. \A i \in 1..n : g[i] = IF i = 1 THEN ss[i] ELSE g[i - 1] \o ss[i]
    <3> SUFFICES ASSUME NEW i \in 1..n PROVE g[i] = IF i = 1 THEN ss[i] ELSE g[i - 1] \o ss[i]
      OBVIOUS
    <3>1. CASE i = n
      BY <3>1, <2>1
    <3>2. CASE i # n
      <4>1. i \in 1..(n - 1) /\ g[i] = f[i]
        BY <3>2, <2>1
      <4>2. f[i] = IF i = 1 THEN ss[i] ELSE f[i - 1] \o ss[i]
        BY <2>4, <4>1 DEF Unfolds
      <4>3. i # 1 => i - 1 \in 1..n /\ i - 1 # n
        BY <4>1, <2>1
      <4> QED
        BY <4>1, <4>2, <4>3
    <3> QED BY <3>1, <3>2
  <2>6. g = [i \in 1..n |-> IF i = 1 THEN ss[i] ELSE g[i - 1] \o ss[i]]
    <3> HIDE DEF g
    <3>1. g = [i \in 1..n |-> g[i]]
      BY DEF g
    <3> QED BY <3>1, <2>5
  <2>7. Unfolds(g, ss, n)
    BY <2>6 DEF Unfolds
  <2> QED BY <2>7, <2>1
<1>3. \E f : Unfolds(f, ss, Len(ss))
  BY <1>1, <1>2
<1> DEFINE h == CHOOSE f : f = [i \in 1..Len(ss) |-> IF i = 1 THEN ss[i] ELSE f[i - 1] \o ss[i]]
<1>4. Unfolds(h, ss, Len(ss))
  BY <1>3, Zenon DEF Unfolds
<1>5. FlattenSeq(ss) = h[Len(ss)]
  BY DEF FlattenSeq
<1> QED BY <1>4, <1>5

\* `flat` lists what stands at the places `o` numbers: those of the first `n` sequences.
Flattens(flat, o, ss, n) ==
  /\ flat \in Seq(UNION {ToSet(ss[k]) : k \in DOMAIN ss})
  /\ DOMAIN o = DOMAIN flat
  /\ \A p \in DOMAIN o : /\ o[p] \in Places(ss) /\ o[p][1] <= n
                         /\ flat[p] = ss[o[p][1]][o[p][2]]
  /\ \A k \in 1..n : \A m \in DOMAIN ss[k] : \E p \in DOMAIN o : o[p] = <<k, m>>
  /\ \A p, q \in DOMAIN o : o[p] = o[q] => p = q

\* One sequence more is flattened by appending it.
LEMMA FlattenStep ==
  ASSUME NEW ss, SequencesOf(ss), NEW n \in Nat, n + 1 \in DOMAIN ss,
         NEW flat, NEW o, Flattens(flat, o, ss, n)
  PROVE  \E u : Flattens(flat \o ss[n + 1], u, ss, n + 1)
<1> DEFINE next == ss[n + 1]
           all  == UNION {ToSet(ss[k]) : k \in DOMAIN ss}
           a    == Len(flat)
           whole == flat \o next
           u    == [p \in 1..(a + Len(next)) |-> IF p <= a THEN o[p] ELSE <<n + 1, p - a>>]
<1>1. /\ next \in Seq(all) /\ flat \in Seq(all) /\ a \in Nat /\ Len(next) \in Nat
      /\ DOMAIN flat = 1..a /\ DOMAIN next = 1..Len(next)
  <2>1. ToSet(next) \subseteq all
    OBVIOUS
  <2>2. next \in Seq(ToSet(next))
    BY DEF SequencesOf, Listing
  <2>3. next \in Seq(all)
    <3> HIDE DEF all, next
    <3> QED BY <2>1, <2>2
  <2>4. flat \in Seq(all)
    BY DEF Flattens
  <2> HIDE DEF all, next
  <2> QED BY <2>3, <2>4
<1>2. /\ whole \in Seq(all) /\ DOMAIN whole = 1..(a + Len(next))
      /\ \A p \in 1..a : whole[p] = flat[p]
      /\ \A p \in (a + 1)..(a + Len(next)) : whole[p] = next[p - a]
  <2> HIDE DEF all, next
  <2> QED BY <1>1
<1>3. DOMAIN u = DOMAIN whole
  BY <1>2
<1>4. \A p \in 1..a : u[p] = o[p] /\ p \in DOMAIN o
  BY <1>1 DEF Flattens
<1>5. \A p \in (a + 1)..(a + Len(next)) : u[p] = <<n + 1, p - a>> /\ p - a \in DOMAIN next
  <2> HIDE DEF next, whole
  <2> QED BY <1>1
<1>6. ASSUME NEW p \in DOMAIN u
      PROVE  /\ u[p] \in Places(ss) /\ u[p][1] <= n + 1
             /\ whole[p] = ss[u[p][1]][u[p][2]]
  <2>1. CASE p \in 1..a
    <3>1. o[p] \in Places(ss) /\ o[p][1] <= n /\ flat[p] = ss[o[p][1]][o[p][2]] /\ u[p] = o[p]
      BY <2>1, <1>4 DEF Flattens
    <3>2. o[p][1] \in Nat
      BY <3>1 DEF Places, SequencesOf, Listing
    <3> QED BY <3>1, <3>2, <2>1, <1>2
  <2>2. CASE p \in (a + 1)..(a + Len(next))
    <3>1. u[p] = <<n + 1, p - a>> /\ p - a \in DOMAIN next /\ whole[p] = next[p - a]
      BY <2>2, <1>5, <1>2
    <3>2. <<n + 1, p - a>> \in Places(ss)
      BY <3>1 DEF Places
    <3> QED BY <3>1, <3>2
  <2> HIDE DEF u, whole, next
  <2> QED BY <2>1, <2>2, <1>1, <1>2, <1>3
<1>7. ASSUME NEW k \in 1..(n + 1), NEW m \in DOMAIN ss[k]
      PROVE  \E p \in DOMAIN u : u[p] = <<k, m>>
  <2>1. CASE k \in 1..n
    <3>1. PICK p \in DOMAIN o : o[p] = <<k, m>>
      BY <2>1 DEF Flattens
    <3>2. p \in 1..a
      BY <1>1 DEF Flattens
    <3>3. p \in DOMAIN u /\ u[p] = o[p]
      <4> HIDE DEF next
      <4> QED BY <3>2, <1>1
    <3> QED BY <3>1, <3>3
  <2>2. CASE k = n + 1
    <3>1. m \in 1..Len(next)
      BY <2>2, <1>1
    <3>2. m + a \in (a + 1)..(a + Len(next)) /\ (m + a) - a = m
      <4> HIDE DEF next
      <4> QED BY <3>1, <1>1
    <3>3. m + a \in DOMAIN u /\ u[m + a] = <<n + 1, m>>
      <4> HIDE DEF next
      <4> QED BY <3>2, <1>1
    <3> QED BY <3>3, <2>2
  <2> QED BY <2>1, <2>2
<1>8. ASSUME NEW p \in DOMAIN u, NEW q \in DOMAIN u, u[p] = u[q] PROVE p = q
  <2>1. p \in 1..a \/ p \in (a + 1)..(a + Len(next))
    <3> HIDE DEF next
    <3> QED BY <1>1
  <2>2. q \in 1..a \/ q \in (a + 1)..(a + Len(next))
    <3> HIDE DEF next
    <3> QED BY <1>1
  <2>3. \A x \in 1..a : u[x][1] # n + 1
    <3> SUFFICES ASSUME NEW x \in 1..a PROVE u[x][1] # n + 1
      OBVIOUS
    <3>1. u[x] = o[x] /\ o[x][1] <= n /\ o[x] \in Places(ss)
      BY <1>4 DEF Flattens
    <3>2. o[x][1] \in Nat
      BY <3>1 DEF Places, SequencesOf, Listing
    <3> HIDE DEF u
    <3> QED BY <3>1, <3>2
  <2>4. \A x \in (a + 1)..(a + Len(next)) : u[x][1] = n + 1 /\ u[x][2] = x - a
    BY <1>5
  <2>5. CASE p \in 1..a /\ q \in 1..a
    <3>1. o[p] = o[q] /\ p \in DOMAIN o /\ q \in DOMAIN o
      BY <1>4, <1>8, <2>5
    <3> QED BY <3>1 DEF Flattens
  <2>6. CASE p \in (a + 1)..(a + Len(next)) /\ q \in (a + 1)..(a + Len(next))
    <3>1. p - a = q - a
      BY <2>4, <2>6, <1>8
    <3> HIDE DEF next
    <3> QED BY <3>1, <1>1, <2>6
  <2>7. CASE p \in 1..a /\ q \in (a + 1)..(a + Len(next))
    BY <2>3, <2>4, <2>7, <1>8
  <2>8. CASE q \in 1..a /\ p \in (a + 1)..(a + Len(next))
    BY <2>3, <2>4, <2>8, <1>8
  <2> QED BY <2>1, <2>2, <2>5, <2>6, <2>7, <2>8
<1> HIDE DEF u
<1> QED
  BY <1>2, <1>3, <1>6, <1>7, <1>8 DEF Flattens

\* A flattening lists each element of each of its sequences, each place once.
LEMMA FlattenPlaces ==
  ASSUME NEW ss, SequencesOf(ss)
  PROVE  \E o : Flattens(FlattenSeq(ss), o, ss, Len(ss))
<1>1. Len(ss) \in Nat /\ DOMAIN ss = 1..Len(ss)
  BY DEF SequencesOf, Listing
<1>2. CASE Len(ss) = 0
  <2>1. FlattenSeq(ss) = ss /\ ss = <<>>
    BY <1>2 DEF FlattenSeq, SequencesOf, Listing
  <2> QED BY <2>1, <1>2, <1>1 DEF Flattens
<1>3. CASE Len(ss) # 0
  <2>1. PICK f : Unfolds(f, ss, Len(ss)) /\ FlattenSeq(ss) = f[Len(ss)]
    BY <1>3, FlattenUnfolds
  <2> DEFINE T == {n \in Nat : n \in 1..Len(ss) /\ ~\E o : Flattens(f[n], o, ss, n)}
  <2> SUFFICES ASSUME T # {} PROVE FALSE
    BY <1>1, <1>3, <2>1
  <2>2. PICK n \in T : \A m \in T : n <= m
    BY LeastNatural
  <2>3. CASE n = 1
    <3>1. f[1] = ss[1]
      BY <2>1, <1>1, <1>3 DEF Unfolds
    <3>2. \E u : Flattens(<<>> \o ss[1], u, ss, 1)
      <4>1. Flattens(<<>>, <<>>, ss, 0)
        BY DEF Flattens
      <4>2. 0 + 1 \in DOMAIN ss
        BY <1>1, <1>3
      <4>3. \E u : Flattens(<<>> \o ss[0 + 1], u, ss, 0 + 1)
        BY <4>1, <4>2, FlattenStep
      <4>4. 0 + 1 = 1
        OBVIOUS
      <4> QED BY <4>3, <4>4
    <3>3. <<>> \o ss[1] = ss[1]
      BY <1>1, <1>3 DEF SequencesOf, Listing
    <3> QED BY <3>1, <3>2, <3>3, <2>2, <2>3
  <2>4. CASE n # 1
    <3>1. n - 1 \in 1..Len(ss) /\ n - 1 \in Nat /\ n \in DOMAIN ss /\ n \in 1..Len(ss)
      BY <2>2, <2>4, <1>1
    <3>2. n - 1 \notin T
      BY <2>2, <3>1
    <3>3. PICK o : Flattens(f[n - 1], o, ss, n - 1)
      BY <3>1, <3>2
    <3>4. f[n] = f[n - 1] \o ss[n]
      BY <2>1, <2>4, <3>1 DEF Unfolds
    <3>5. n - 1 + 1 = n
      BY <3>1
    <3>6. \E u : Flattens(f[n - 1] \o ss[n - 1 + 1], u, ss, n - 1 + 1)
      BY <3>1, <3>3, <3>5, FlattenStep
    <3>7. \E u : Flattens(f[n], u, ss, n)
      BY <3>4, <3>5, <3>6
    <3> QED BY <3>7, <2>2
  <2> QED BY <2>3, <2>4
<1> QED BY <1>2, <1>3

\* What a call is handed.
IsBatch(b) == Listing(b) /\ \A n \in DOMAIN b : IsDelivery(b[n])

\* Where the values of a batch stand: the delivery, and the value in it.
PlacesOf(b) == UNION {{<<n, m>> : m \in DOMAIN b[n].intervals} : n \in DOMAIN b}

\* The value that stands at a place, and what the store makes of it.
ValueAt(b, place) == b[place[1]].intervals[place[2]]

GivenAt(b, place) == Incoming(b[place[1]], ValueAt(b, place))

\* `given` numbers what stands at each place of a batch.
Numbers(given, o, b) ==
  /\ Listing(given) /\ DOMAIN o = DOMAIN given
  /\ \A p \in DOMAIN o : o[p] \in PlacesOf(b) /\ given[p] = GivenAt(b, o[p])
  /\ \A place \in PlacesOf(b) : \E p \in DOMAIN o : o[p] = place
  /\ \A p, q \in DOMAIN o : o[p] = o[q] => p = q

\* A sequence of a set is one of its elements.
LEMMA ListingOf ==
  ASSUME NEW s, NEW S, s \in Seq(S)
  PROVE  Listing(s)
BY DEF Listing, ToSet

\* What is built element by element is a sequence.
LEMMA BuiltListing ==
  ASSUME NEW n \in Nat, NEW s, DOMAIN s = 1..n, s = [k \in 1..n |-> s[k]]
  PROVE  Listing(s) /\ Len(s) = n
<1>1. s \in [1..n -> ToSet(s)]
  BY DEF ToSet
<1>2. s \in Seq(ToSet(s)) /\ Len(s) = n
  <2> HIDE DEF ToSet
  <2> QED BY <1>1
<1> QED BY <1>2 DEF Listing

\* The parts of a batch are sequences.
LEMMA BatchShape ==
  ASSUME NEW b, IsBatch(b)
  PROVE  /\ Len(b) \in Nat /\ DOMAIN b = 1..Len(b)
         /\ \A n \in DOMAIN b : /\ IsDelivery(b[n]) /\ Listing(b[n].intervals)
                                /\ Len(b[n].intervals) \in Nat
                                /\ DOMAIN b[n].intervals = 1..Len(b[n].intervals)
BY DEF IsBatch, IsDelivery, Listing

\* The values of a batch are listed, each place once.
LEMMA IncomingPlaces ==
  ASSUME NEW b, IsBatch(b)
  PROVE  \E o : Numbers(IncomingOf(b), o, b)
<1> DEFINE of(n) == [m \in DOMAIN b[n].intervals |-> Incoming(b[n], b[n].intervals[m])]
           ss == [n \in DOMAIN b |-> of(n)]
<1>1. \A n \in DOMAIN b : Listing(of(n))
  <2> TAKE n \in DOMAIN b
  <2>1. DOMAIN of(n) = 1..Len(b[n].intervals) /\ Len(b[n].intervals) \in Nat
    BY BatchShape
  <2>2. of(n) = [k \in 1..Len(b[n].intervals) |-> of(n)[k]]
    BY <2>1
  <2> HIDE DEF of
  <2> QED BY <2>1, <2>2, BuiltListing
<1>2. Listing(ss)
  <2>1. DOMAIN ss = 1..Len(b) /\ Len(b) \in Nat /\ ss = [k \in 1..Len(b) |-> ss[k]]
    BY BatchShape
  <2> HIDE DEF ss
  <2> QED BY <2>1, BuiltListing
<1>3. SequencesOf(ss)
  <2> HIDE DEF of
  <2> QED BY <1>1, <1>2 DEF SequencesOf
<1>4. PICK o : Flattens(FlattenSeq(ss), o, ss, Len(ss))
  BY <1>3, FlattenPlaces
<1>5. IncomingOf(b) = FlattenSeq(ss)
  BY DEF IncomingOf
<1> DEFINE given == FlattenSeq(ss)
<1>6. Listing(given) /\ DOMAIN o = DOMAIN given
  BY <1>4, ListingOf DEF Flattens
<1>7. Places(ss) = PlacesOf(b)
  BY DEF Places, PlacesOf
<1>8. \A place \in PlacesOf(b) : ss[place[1]][place[2]] = GivenAt(b, place) /\ place[1] \in DOMAIN b
                                 /\ place[2] \in DOMAIN of(place[1]) /\ place = <<place[1], place[2]>>
  BY DEF PlacesOf, GivenAt, ValueAt
<1>9. DOMAIN b = 1..Len(ss)
  BY <1>2, BatchShape DEF Listing
<1>10. \A p \in DOMAIN o : o[p] \in PlacesOf(b) /\ given[p] = GivenAt(b, o[p])
  <2> HIDE DEF ss, given
  <2> QED BY <1>4, <1>7, <1>8 DEF Flattens, given
<1>11. \A place \in PlacesOf(b) : \E p \in DOMAIN o : o[p] = place
  <2> TAKE place \in PlacesOf(b)
  <2>1. place[1] \in 1..Len(ss) /\ place[2] \in DOMAIN ss[place[1]]
    BY <1>8, <1>9
  <2>2. \E p \in DOMAIN o : o[p] = <<place[1], place[2]>>
    <3> HIDE DEF ss
    <3> QED BY <2>1, <1>4 DEF Flattens
  <2> QED BY <2>2, <1>8
<1>12. \A p, q \in DOMAIN o : o[p] = o[q] => p = q
  BY <1>4 DEF Flattens
<1> HIDE DEF given, ss
<1> QED
  BY <1>5, <1>6, <1>10, <1>11, <1>12 DEF Numbers, given

-----------------------------------------------------------------------------
(* Batches narrowed to some of their values.                               *)

\* What `keep` keeps of the values of a delivery, and of a batch.
KeptOf(d, keeps) ==
  FlattenSeq([m \in DOMAIN d.intervals |-> IF keeps[m] THEN <<d.intervals[m]>> ELSE <<>>])

NarrowBy(b, keep) ==
  FlattenSeq([n \in DOMAIN b |-> IF KeptOf(b[n], keep[n]) = <<>> THEN <<>>
                                 ELSE <<[b[n] EXCEPT !.intervals = KeptOf(b[n], keep[n])]>>])

\* `s` lists what `of` says of the numbers `o` picks, in a list of `n` numbers.
Selects(s, o, n, picked, of) ==
  /\ Listing(s) /\ DOMAIN o = DOMAIN s
  /\ \A p \in DOMAIN o : o[p] \in 1..n /\ picked[o[p]] /\ s[p] = of[o[p]]
  /\ \A k \in 1..n : picked[k] => \E p \in DOMAIN o : o[p] = k
  /\ \A p, q \in DOMAIN o : o[p] = o[q] => p = q

\* Flattening sequences of one element or of none picks those of one.
LEMMA FlattenSelects ==
  ASSUME NEW n \in Nat, NEW picked, NEW of
  PROVE  \E o : Selects(FlattenSeq([k \in 1..n |-> IF picked[k] THEN <<of[k]>> ELSE <<>>]),
                        o, n, picked, of)
<1> DEFINE ss == [k \in 1..n |-> IF picked[k] THEN <<of[k]>> ELSE <<>>]
           s == FlattenSeq(ss)
<1>1. Listing(ss) /\ Len(ss) = n /\ DOMAIN ss = 1..n
  <2>1. DOMAIN ss = 1..n /\ ss = [k \in 1..n |-> ss[k]]
    OBVIOUS
  <2> HIDE DEF ss
  <2> QED BY <2>1, BuiltListing
<1>2. ASSUME NEW k \in 1..n PROVE Listing(ss[k])
  <2>1. CASE picked[k]
    <3>1. ss[k] = <<of[k]>> /\ <<of[k]>> \in Seq({of[k]})
      BY <2>1
    <3> QED BY <3>1, ListingOf
  <2>2. CASE ~picked[k]
    <3>1. ss[k] = <<>> /\ <<>> \in Seq({})
      BY <2>2
    <3> QED BY <3>1, ListingOf
  <2> QED BY <2>1, <2>2
<1>3. SequencesOf(ss)
  <2> HIDE DEF ss
  <2> QED BY <1>1, <1>2 DEF SequencesOf
<1>4. PICK u : Flattens(FlattenSeq(ss), u, ss, Len(ss))
  BY <1>3, FlattenPlaces
<1> DEFINE o == [p \in DOMAIN u |-> u[p][1]]
<1>5. Listing(s) /\ DOMAIN u = DOMAIN s
  <2> HIDE DEF ss
  <2> QED BY <1>4, ListingOf DEF Flattens, s
<1>6. ASSUME NEW p \in DOMAIN u
      PROVE  /\ u[p] = <<u[p][1], 1>> /\ u[p][1] \in 1..n /\ picked[u[p][1]] /\ s[p] = of[u[p][1]]
  <2>1. u[p] \in Places(ss) /\ s[p] = ss[u[p][1]][u[p][2]]
    <3> HIDE DEF ss
    <3> QED BY <1>4 DEF Flattens, s
  <2>2. PICK k \in 1..n : \E m \in DOMAIN ss[k] : u[p] = <<k, m>>
    BY <2>1, <1>1 DEF Places
  <2>6. PICK m \in DOMAIN ss[k] : u[p] = <<k, m>>
    BY <2>2
  <2>3. picked[k]
    BY <2>6
  <2>4. ss[k] = <<of[k]>> /\ m = 1
    BY <2>6, <2>3
  <2>5. u[p][1] = k /\ u[p][2] = m
    BY <2>6
  <2> HIDE DEF ss, s
  <2> QED BY <2>1, <2>6, <2>3, <2>4, <2>5
<1>7. ASSUME NEW k \in 1..n, picked[k] PROVE \E p \in DOMAIN u : u[p][1] = k
  <2>1. 1 \in DOMAIN ss[k]
    BY <1>7
  <2>2. \E p \in DOMAIN u : u[p] = <<k, 1>>
    <3> HIDE DEF ss
    <3> QED BY <2>1, <1>1, <1>4 DEF Flattens
  <2> QED BY <2>2
<1>8. ASSUME NEW p \in DOMAIN u, NEW q \in DOMAIN u, u[p][1] = u[q][1] PROVE p = q
  <2>1. u[p] = u[q]
    BY <1>6, <1>8
  <2> HIDE DEF ss
  <2> QED BY <2>1, <1>4 DEF Flattens
<1>9. Selects(s, o, n, picked, of)
  <2> HIDE DEF s
  <2> QED BY <1>5, <1>6, <1>7, <1>8 DEF Selects
<1> QED BY <1>9

\* What is kept of a delivery are the values `keeps` picks.
LEMMA KeptPlaces ==
  ASSUME NEW d, IsDelivery(d), NEW keeps
  PROVE  \E o : Selects(KeptOf(d, keeps), o, Len(d.intervals), keeps, d.intervals)
<1>1. Len(d.intervals) \in Nat /\ DOMAIN d.intervals = 1..Len(d.intervals)
  BY DEF IsDelivery, Listing
<1> QED BY <1>1, FlattenSelects DEF KeptOf

\* A delivery narrowed to some of its values is one.
LEMMA NarrowedDelivery ==
  ASSUME NEW d, IsDelivery(d), NEW keeps
  PROVE  IsDelivery([d EXCEPT !.intervals = KeptOf(d, keeps)])
<1> DEFINE e == [d EXCEPT !.intervals = KeptOf(d, keeps)]
<1>1. PICK o : Selects(KeptOf(d, keeps), o, Len(d.intervals), keeps, d.intervals)
  BY KeptPlaces
<1>2. /\ DOMAIN e = DOMAIN d /\ e.intervals = KeptOf(d, keeps) /\ e.label = d.label /\ e.rec = d.rec
      /\ e.extra = d.extra
  BY DEF IsDelivery
<1>3. Listing(e.intervals)
  BY <1>1, <1>2 DEF Selects
<1>4. \A i \in ToSet(e.intervals) : i \in ToSet(d.intervals)
  <2>1. \A p \in DOMAIN e.intervals : e.intervals[p] \in ToSet(d.intervals)
    BY <1>1, <1>2 DEF Selects, ToSet, IsDelivery, Listing
  <2> QED BY <2>1 DEF ToSet
<1> HIDE DEF e
<1> QED
  BY <1>2, <1>3, <1>4 DEF IsDelivery, e

\* What is kept of a batch are the deliveries that something is kept of.
LEMMA NarrowSelects ==
  ASSUME NEW b, IsBatch(b), NEW keep
  PROVE  \E v : Selects(NarrowBy(b, keep), v, Len(b), [n \in DOMAIN b |-> KeptOf(b[n], keep[n]) # <<>>],
                        [n \in DOMAIN b |-> [b[n] EXCEPT !.intervals = KeptOf(b[n], keep[n])]])
<1> DEFINE picked == [n \in DOMAIN b |-> KeptOf(b[n], keep[n]) # <<>>]
           of == [n \in DOMAIN b |-> [b[n] EXCEPT !.intervals = KeptOf(b[n], keep[n])]]
<1>1. Len(b) \in Nat /\ DOMAIN b = 1..Len(b)
  BY BatchShape
<1>2. NarrowBy(b, keep) = FlattenSeq([k \in 1..Len(b) |-> IF picked[k] THEN <<of[k]>> ELSE <<>>])
  <2>1. [n \in DOMAIN b |-> IF KeptOf(b[n], keep[n]) = <<>> THEN <<>>
                            ELSE <<[b[n] EXCEPT !.intervals = KeptOf(b[n], keep[n])]>>]
          = [k \in 1..Len(b) |-> IF picked[k] THEN <<of[k]>> ELSE <<>>]
    BY <1>1
  <2> QED BY <2>1 DEF NarrowBy
<1> HIDE DEF picked, of
<1>3. \E v : Selects(NarrowBy(b, keep), v, Len(b), picked, of)
  BY <1>1, <1>2, FlattenSelects
<1> QED BY <1>3 DEF picked, of

\* What stands at a place of a narrowed batch stands at a kept place of the batch.
Narrows(N, u, b, keep) ==
  /\ IsBatch(N)
  /\ DOMAIN u = PlacesOf(N)
  /\ \A p \in PlacesOf(N) :
       /\ u[p] \in PlacesOf(b) /\ keep[u[p][1]][u[p][2]]
       /\ ValueAt(N, p) = ValueAt(b, u[p])
       /\ \E kept : N[p[1]] = [b[u[p][1]] EXCEPT !.intervals = kept]
  /\ \A place \in PlacesOf(b) : keep[place[1]][place[2]] => \E p \in PlacesOf(N) : u[p] = place
  /\ \A p, q \in PlacesOf(N) : u[p] = u[q] => p = q

\* A place names a delivery and a value of it.
LEMMA PlaceShape ==
  ASSUME NEW b, NEW p \in PlacesOf(b)
  PROVE  p = <<p[1], p[2]>> /\ p[1] \in DOMAIN b /\ p[2] \in DOMAIN b[p[1]].intervals
BY DEF PlacesOf

\* A value of a delivery has a place.
LEMMA PlaceIn ==
  ASSUME NEW b, NEW n \in DOMAIN b, NEW m \in DOMAIN b[n].intervals
  PROVE  <<n, m>> \in PlacesOf(b)
BY DEF PlacesOf

\* A narrowed batch holds the kept values, each once.
LEMMA NarrowPlaces ==
  ASSUME NEW b, IsBatch(b), NEW keep
  PROVE  \E u : Narrows(NarrowBy(b, keep), u, b, keep)
<1> DEFINE N == NarrowBy(b, keep)
           kept(n) == KeptOf(b[n], keep[n])
           picked == [n \in DOMAIN b |-> kept(n) # <<>>]
           of == [n \in DOMAIN b |-> [b[n] EXCEPT !.intervals = kept(n)]]
           w == [n \in DOMAIN b |-> CHOOSE o : Selects(kept(n), o, Len(b[n].intervals), keep[n], b[n].intervals)]
<1>1. PICK v : Selects(N, v, Len(b), picked, of)
  BY NarrowSelects
<1>2. Len(b) \in Nat /\ DOMAIN b = 1..Len(b)
  BY BatchShape
<1>3. ASSUME NEW n \in DOMAIN b
      PROVE  Selects(kept(n), w[n], Len(b[n].intervals), keep[n], b[n].intervals)
  <2>1. \E o : Selects(kept(n), o, Len(b[n].intervals), keep[n], b[n].intervals)
    BY KeptPlaces, BatchShape
  <2> HIDE DEF kept
  <2> QED BY <2>1
<1>4. ASSUME NEW k \in DOMAIN N
      PROVE  /\ v[k] \in DOMAIN b /\ kept(v[k]) # <<>> /\ N[k] = of[v[k]]
             /\ N[k] = [b[v[k]] EXCEPT !.intervals = kept(v[k])]
             /\ N[k].intervals = kept(v[k]) /\ IsDelivery(N[k])
  <2>1. v[k] \in DOMAIN b /\ picked[v[k]] /\ N[k] = of[v[k]]
    <3> HIDE DEF N, picked, of
    <3> QED BY <1>1, <1>2 DEF Selects
  <2>2. N[k] = [b[v[k]] EXCEPT !.intervals = kept(v[k])] /\ kept(v[k]) # <<>>
    <3> HIDE DEF N, kept
    <3> QED BY <2>1
  <2>3. IsDelivery(b[v[k]])
    BY <2>1, BatchShape
  <2>4. IsDelivery(N[k])
    BY <2>2, <2>3, NarrowedDelivery
  <2>5. N[k].intervals = kept(v[k])
    <3> HIDE DEF N, kept
    <3> QED BY <2>2, <2>3 DEF IsDelivery
  <2> QED BY <2>1, <2>2, <2>4, <2>5
<1>5. IsBatch(N)
  <2> HIDE DEF N
  <2> QED BY <1>1, <1>4 DEF IsBatch, Selects
<1> DEFINE u == [p \in PlacesOf(N) |-> <<v[p[1]], w[v[p[1]]][p[2]]>>]
<1> HIDE DEF N, kept, w, of, picked
<1>6. ASSUME NEW p \in PlacesOf(N)
      PROVE  /\ p = <<p[1], p[2]>> /\ p[1] \in DOMAIN N /\ v[p[1]] \in DOMAIN b
             /\ u[p][1] = v[p[1]] /\ u[p][2] = w[v[p[1]]][p[2]]
             /\ p[2] \in DOMAIN w[v[p[1]]]
             /\ u[p] \in PlacesOf(b) /\ keep[u[p][1]][u[p][2]]
             /\ ValueAt(N, p) = ValueAt(b, u[p])
             /\ N[p[1]] = [b[u[p][1]] EXCEPT !.intervals = kept(u[p][1])]
  <2>1. p = <<p[1], p[2]>> /\ p[1] \in DOMAIN N /\ p[2] \in DOMAIN N[p[1]].intervals
    BY PlaceShape
  <2>2. v[p[1]] \in DOMAIN b /\ N[p[1]].intervals = kept(v[p[1]])
        /\ N[p[1]] = [b[v[p[1]]] EXCEPT !.intervals = kept(v[p[1]])]
    BY <2>1, <1>4
  <2> DEFINE x == v[p[1]]
  <2>3. Selects(kept(x), w[x], Len(b[x].intervals), keep[x], b[x].intervals)
    BY <2>2, <1>3
  <2>4. p[2] \in DOMAIN w[x] /\ w[x][p[2]] \in 1..Len(b[x].intervals) /\ keep[x][w[x][p[2]]]
        /\ kept(x)[p[2]] = b[x].intervals[w[x][p[2]]]
    BY <2>1, <2>2, <2>3 DEF Selects
  <2>5. w[x][p[2]] \in DOMAIN b[x].intervals
    BY <2>2, <2>4, BatchShape
  <2>6. u[p] = <<x, w[x][p[2]]>>
    OBVIOUS
  <2>7. u[p][1] = x /\ u[p][2] = w[x][p[2]]
    BY <2>6
  <2> HIDE DEF u, x
  <2>8. u[p] \in PlacesOf(b)
    BY <2>2, <2>5, <2>6, PlaceIn DEF x
  <2>9. ValueAt(N, p) = ValueAt(b, u[p])
    BY <2>2, <2>4, <2>7 DEF ValueAt, x
  <2> QED BY <2>1, <2>2, <2>4, <2>7, <2>8, <2>9 DEF x
<1>7. ASSUME NEW place \in PlacesOf(b), keep[place[1]][place[2]] PROVE \E p \in PlacesOf(N) : u[p] = place
  <2> DEFINE n == place[1]
             m == place[2]
  <2>1. place = <<n, m>> /\ n \in DOMAIN b /\ m \in DOMAIN b[n].intervals /\ m \in 1..Len(b[n].intervals)
    BY PlaceShape, BatchShape
  <2> HIDE DEF n, m
  <2>2. PICK q \in DOMAIN w[n] : w[n][q] = m
    BY <2>1, <1>3, <1>7 DEF Selects, n, m
  <2>3. q \in DOMAIN kept(n)
    BY <2>1, <2>2, <1>3 DEF Selects
  <2>4. kept(n) # <<>>
    BY <2>3
  <2>5. picked[n]
    BY <2>1, <2>4 DEF picked
  <2>6. PICK k \in DOMAIN v : v[k] = n
    BY <2>1, <2>5, <1>1, <1>2 DEF Selects
  <2>7. k \in DOMAIN N
    BY <1>1 DEF Selects
  <2>8. q \in DOMAIN N[k].intervals
    BY <2>3, <2>6, <2>7, <1>4
  <2>9. <<k, q>> \in PlacesOf(N)
    BY <2>7, <2>8, PlaceIn
  <2>10. u[<<k, q>>] = <<n, m>>
    BY <2>9, <2>2, <2>6
  <2> QED BY <2>9, <2>10, <2>1
<1>8. ASSUME NEW p \in PlacesOf(N), NEW q \in PlacesOf(N), u[p] = u[q] PROVE p = q
  <2> HIDE DEF u
  <2>1. /\ p = <<p[1], p[2]>> /\ p[1] \in DOMAIN N /\ v[p[1]] \in DOMAIN b
        /\ u[p][1] = v[p[1]] /\ u[p][2] = w[v[p[1]]][p[2]] /\ p[2] \in DOMAIN w[v[p[1]]]
    BY <1>6
  <2>2. /\ q = <<q[1], q[2]>> /\ q[1] \in DOMAIN N /\ v[q[1]] \in DOMAIN b
        /\ u[q][1] = v[q[1]] /\ u[q][2] = w[v[q[1]]][q[2]] /\ q[2] \in DOMAIN w[v[q[1]]]
    BY <1>6
  <2>3. v[p[1]] = v[q[1]] /\ w[v[p[1]]][p[2]] = w[v[p[1]]][q[2]]
    BY <2>1, <2>2, <1>8
  <2>4. p[1] = q[1]
    BY <2>1, <2>2, <2>3, <1>1 DEF Selects
  <2>5. \A x, y \in DOMAIN w[v[p[1]]] : w[v[p[1]]][x] = w[v[p[1]]][y] => x = y
    BY <2>1, <1>3 DEF Selects
  <2>6. p[2] = q[2]
    BY <2>1, <2>2, <2>3, <2>4, <2>5
  <2> QED BY <2>1, <2>2, <2>4, <2>6
<1>9. Narrows(N, u, b, keep)
  <2>1. DOMAIN u = PlacesOf(N)
    OBVIOUS
  <2> HIDE DEF u
  <2>2. \A p \in PlacesOf(N) :
          /\ u[p] \in PlacesOf(b) /\ keep[u[p][1]][u[p][2]] /\ ValueAt(N, p) = ValueAt(b, u[p])
          /\ \E x : N[p[1]] = [b[u[p][1]] EXCEPT !.intervals = x]
    BY <1>6
  <2>3. \A place \in PlacesOf(b) : keep[place[1]][place[2]] => \E p \in PlacesOf(N) : u[p] = place
    BY <1>7
  <2>4. \A p, q \in PlacesOf(N) : u[p] = u[q] => p = q
    BY <1>8
  <2> QED BY <2>1, <2>2, <2>3, <2>4, <1>5 DEF Narrows
<1> QED BY <1>9 DEF N

-----------------------------------------------------------------------------
(* Batches encoded.                                                        *)

\* The row made of the value at a place.
RowAt(tbl, b, place) == RowOf(tbl, b[place[1]], ValueAt(b, place))

\* The rows of a batch, one for each place.
Renders(rows, o, tbl, b) ==
  /\ Listing(rows) /\ DOMAIN o = DOMAIN rows
  /\ \A p \in DOMAIN o : o[p] \in PlacesOf(b) /\ rows[p] = RowAt(tbl, b, o[p])
  /\ \A place \in PlacesOf(b) : \E p \in DOMAIN o : o[p] = place
  /\ \A p, q \in DOMAIN o : o[p] = o[q] => p = q

\* The value at a place has a row.
EncodableAt(tbl, b, place) ==
  /\ EncodableInterval(tbl, b[place[1]], ValueAt(b, place))
  /\ ResolveExtra(tbl, b[place[1]].extra) # {}

\* Encoding a batch makes a row of each value, or fails.
LEMMA EncodedPlaces ==
  ASSUME NEW tbl, NEW b, IsBatch(b), NEW rows \in Encode(tbl, b)
  PROVE  /\ \E o : Renders(rows, o, tbl, b)
         /\ \A place \in PlacesOf(b) : EncodableAt(tbl, b, place)
         /\ Encode(tbl, b) = {rows}
<1> DEFINE of(n) == RowsOfDelivery(tbl, b[n])
           ss == [n \in DOMAIN b |-> of(n)]
<1>1. ASSUME NEW n \in DOMAIN b
      PROVE  Listing(of(n)) /\ DOMAIN of(n) = DOMAIN b[n].intervals
  <2>1. DOMAIN of(n) = 1..Len(b[n].intervals) /\ Len(b[n].intervals) \in Nat
        /\ DOMAIN b[n].intervals = 1..Len(b[n].intervals)
    BY BatchShape DEF RowsOfDelivery
  <2>2. of(n) = [k \in 1..Len(b[n].intervals) |-> of(n)[k]]
    BY <2>1 DEF RowsOfDelivery
  <2> HIDE DEF of
  <2> QED BY <2>1, <2>2, BuiltListing
<1>2. Listing(ss)
  <2>1. DOMAIN ss = 1..Len(b) /\ Len(b) \in Nat /\ ss = [k \in 1..Len(b) |-> ss[k]]
    BY BatchShape
  <2> HIDE DEF ss
  <2> QED BY <2>1, BuiltListing
<1>3. SequencesOf(ss)
  <2> HIDE DEF of
  <2> QED BY <1>1, <1>2 DEF SequencesOf
<1>4. PICK o : Flattens(FlattenSeq(ss), o, ss, Len(ss))
  BY <1>3, FlattenPlaces
<1>5. rows = FlattenSeq(ss) /\ Encode(tbl, b) = {rows} /\ \A n \in DOMAIN b : Encodable(tbl, b[n])
  BY DEF Encode
<1>6. Listing(rows) /\ DOMAIN o = DOMAIN rows
  <2> HIDE DEF ss
  <2> QED BY <1>4, <1>5, ListingOf DEF Flattens
<1>7. Places(ss) = PlacesOf(b)
  <2>1. \A n \in DOMAIN b : DOMAIN ss[n] = DOMAIN b[n].intervals
    BY <1>1
  <2>2. DOMAIN ss = DOMAIN b
    OBVIOUS
  <2> HIDE DEF ss
  <2> QED BY <2>1, <2>2 DEF Places, PlacesOf
<1>8. ASSUME NEW place \in PlacesOf(b)
      PROVE  /\ ss[place[1]][place[2]] = RowAt(tbl, b, place) /\ place[1] \in DOMAIN b
             /\ place[2] \in DOMAIN ss[place[1]] /\ place = <<place[1], place[2]>>
  <2>1. place = <<place[1], place[2]>> /\ place[1] \in DOMAIN b /\ place[2] \in DOMAIN b[place[1]].intervals
    BY PlaceShape
  <2> QED BY <2>1, <1>1 DEF RowsOfDelivery, RowAt, ValueAt
<1>9. DOMAIN b = 1..Len(ss)
  BY <1>2, BatchShape DEF Listing
<1> HIDE DEF ss
<1>10. \A p \in DOMAIN o : o[p] \in PlacesOf(b) /\ rows[p] = RowAt(tbl, b, o[p])
  BY <1>4, <1>5, <1>7, <1>8 DEF Flattens
<1>11. \A place \in PlacesOf(b) : \E p \in DOMAIN o : o[p] = place
  <2> TAKE place \in PlacesOf(b)
  <2>1. place[1] \in 1..Len(ss) /\ place[2] \in DOMAIN ss[place[1]]
    BY <1>8, <1>9
  <2>2. \E p \in DOMAIN o : o[p] = <<place[1], place[2]>>
    BY <2>1, <1>4 DEF Flattens
  <2> QED BY <2>2, <1>8
<1>12. \A p, q \in DOMAIN o : o[p] = o[q] => p = q
  BY <1>4 DEF Flattens
<1>13. Renders(rows, o, tbl, b)
  BY <1>6, <1>10, <1>11, <1>12 DEF Renders
<1>14. ASSUME NEW place \in PlacesOf(b) PROVE EncodableAt(tbl, b, place)
  <2>1. place[1] \in DOMAIN b /\ place[2] \in DOMAIN b[place[1]].intervals
    BY PlaceShape
  <2>2. Encodable(tbl, b[place[1]]) /\ b[place[1]].intervals # <<>>
    BY <2>1, <1>5
  <2> QED BY <2>1, <2>2 DEF Encodable, EncodableAt, ValueAt
<1> QED BY <1>5, <1>13, <1>14

\* A delivery narrowed says of each value it keeps what it said of it before.
LEMMA NarrowedSame ==
  ASSUME NEW b, IsBatch(b), NEW N, NEW u, NEW keep, Narrows(N, u, b, keep), NEW p \in PlacesOf(N), NEW tbl
  PROVE  /\ GivenAt(N, p) = GivenAt(b, u[p])
         /\ RowAt(tbl, N, p) = RowAt(tbl, b, u[p])
         /\ EncodableAt(tbl, N, p) <=> EncodableAt(tbl, b, u[p])
         /\ N[p[1]].extra = b[u[p][1]].extra
<1> DEFINE n == N[p[1]]
           d == b[u[p][1]]
           i == ValueAt(b, u[p])
<1>1. PICK kept : n = [d EXCEPT !.intervals = kept]
  BY DEF Narrows
<1>2. ValueAt(N, p) = i /\ u[p][1] \in DOMAIN b
  BY PlaceShape DEF Narrows
<1>3. IsDelivery(d)
  BY <1>2, BatchShape
<1>4. /\ n.sparte = d.sparte /\ n.unit = d.unit /\ n.obis = d.obis /\ n.melo = d.melo /\ n.res = d.res
      /\ n.source = d.source /\ n.prov = d.prov /\ n.label = d.label /\ n.rec = d.rec /\ n.extra = d.extra
  BY <1>1, <1>3 DEF IsDelivery
<1> HIDE DEF n, d, i
<1>5. Incoming(n, i) = Incoming(d, i) /\ ObisFor(n, i) = ObisFor(d, i)
  BY <1>4 DEF Incoming, ObisFor
<1>6. RowOf(tbl, n, i) = RowOf(tbl, d, i)
  BY <1>4, <1>5 DEF RowOf
<1>7. EncodableInterval(tbl, n, i) <=> EncodableInterval(tbl, d, i)
  BY <1>4, <1>5 DEF EncodableInterval
<1> QED
  BY <1>2, <1>4, <1>5, <1>6, <1>7 DEF GivenAt, RowAt, EncodableAt, n, d, i

-----------------------------------------------------------------------------
(* Sorting.                                                                *)

\* A strict total order of a set, as the pairs in it.
StrictOrder(D, R) ==
  /\ \A m, n \in D : <<m, n>> \in R => <<n, m>> \notin R
  /\ \A k, m, n \in D : <<k, m>> \in R /\ <<m, n>> \in R => <<k, n>> \in R
  /\ \A m, n \in D : m # n => <<m, n>> \in R \/ <<n, m>> \in R

\* A finite set is listed in a strict order of it, each member once.
LEMMA ListedOnce ==
  ASSUME NEW D, IsFiniteSet(D), NEW R, StrictOrder(D, R)
  PROVE  /\ Cardinality(D) \in Nat /\ DOMAIN Listed(D, R) = 1..Cardinality(D)
         /\ \A k \in 1..Cardinality(D) : Listed(D, R)[k] \in D
         /\ \A n \in D : \E k \in 1..Cardinality(D) : Listed(D, R)[k] = n
         /\ \A k, l \in 1..Cardinality(D) : Listed(D, R)[k] = Listed(D, R)[l] => k = l
<1> DEFINE N == Cardinality(D)
           below(n) == {m \in D : <<m, n>> \in R}
           rank == [n \in D |-> Cardinality(below(n)) + 1]
<1>1. N \in Nat
  BY FS_CardinalityType
<1>2. ASSUME NEW n \in D
      PROVE  IsFiniteSet(below(n)) /\ Cardinality(below(n)) \in Nat /\ Cardinality(below(n)) < N
  <2>1. below(n) \in SUBSET D /\ n \notin below(n)
    BY DEF StrictOrder
  <2> HIDE DEF below
  <2>2. IsFiniteSet(below(n)) /\ Cardinality(below(n)) <= N /\ (N = Cardinality(below(n)) => D = below(n))
    BY <2>1, FS_Subset
  <2>3. Cardinality(below(n)) \in Nat
    BY <2>2, FS_CardinalityType
  <2> HIDE DEF N
  <2> QED BY <2>1, <2>2, <2>3, <1>1
<1>3. ASSUME NEW m \in D, NEW n \in D, <<m, n>> \in R PROVE Cardinality(below(m)) < Cardinality(below(n))
  <2>1. below(m) \in SUBSET below(n) /\ m \in below(n) /\ m \notin below(m)
    BY <1>3 DEF StrictOrder
  <2> HIDE DEF below
  <2>2. /\ Cardinality(below(m)) <= Cardinality(below(n))
        /\ Cardinality(below(n)) = Cardinality(below(m)) => below(n) = below(m)
    BY <2>1, <1>2, FS_Subset
  <2> QED BY <2>1, <2>2, <1>2
<1>4. rank \in [D -> 1..N] /\ \A m, n \in D : rank[m] = rank[n] => m = n
  <2>1. \A n \in D : rank[n] \in 1..N
    <3> HIDE DEF below, N
    <3> QED BY <1>1, <1>2
  <2>2. ASSUME NEW m \in D, NEW n \in D, rank[m] = rank[n] PROVE m = n
    <3> HIDE DEF below
    <3>1. Cardinality(below(m)) = Cardinality(below(n))
      BY <1>2, <2>2
    <3>2. <<m, n>> \notin R /\ <<n, m>> \notin R
      BY <3>1, <1>2, <1>3
    <3> QED BY <3>2 DEF StrictOrder
  <2>3. rank \in [D -> 1..N]
    BY <2>1
  <2> HIDE DEF rank
  <2> QED BY <2>2, <2>3
<1>5. IsFiniteSet(1..N) /\ Cardinality(1..N) = N
  <2> HIDE DEF N
  <2> QED BY <1>1, FS_Interval
<1>6. \A k \in 1..N : \E n \in D : rank[n] = k
  <2> HIDE DEF rank, N
  <2>1. Cardinality(D) = Cardinality(1..N)
    BY <1>5 DEF N
  <2> DEFINE E == 1..N
  <2>2. rank \in [D -> E] /\ IsFiniteSet(E) /\ Cardinality(D) = Cardinality(E)
    BY <1>4, <1>5, <2>1
  <2> HIDE DEF E
  <2>3. \A e \in E : \E x \in D : rank[x] = e
    BY <2>2, <1>4, OntoIfOneToOne
  <2> QED BY <2>3 DEF E
<1>7. ASSUME NEW k \in 1..N
      PROVE  Listed(D, R)[k] \in D /\ rank[Listed(D, R)[k]] = k
  <2>1. PICK n \in D : rank[n] = k
    BY <1>6
  <2>2. Cardinality(below(n)) = k - 1
    <3> HIDE DEF below
    <3> QED BY <2>1, <1>2
  <2>3. Listed(D, R)[k] = CHOOSE x \in D : Cardinality(below(x)) = k - 1
    BY DEF Listed
  <2>4. Listed(D, R)[k] \in D /\ Cardinality(below(Listed(D, R)[k])) = k - 1
    <3> HIDE DEF below
    <3> QED BY <2>2, <2>3
  <2> HIDE DEF below
  <2> QED BY <2>4, <1>1
<1>8. DOMAIN Listed(D, R) = 1..N
  BY DEF Listed
<1> HIDE DEF N
<1>9. \A n \in D : \E k \in 1..N : Listed(D, R)[k] = n
  <2> TAKE n \in D
  <2>1. rank[n] \in 1..N
    BY <1>4
  <2>2. rank[Listed(D, R)[rank[n]]] = rank[n] /\ Listed(D, R)[rank[n]] \in D
    BY <2>1, <1>7
  <2>3. Listed(D, R)[rank[n]] = n
    <3> HIDE DEF rank
    <3> QED BY <2>2, <1>4
  <2> QED BY <2>1, <2>3
<1> HIDE DEF rank
<1>10. \A k, l \in 1..N : Listed(D, R)[k] = Listed(D, R)[l] => k = l
  BY <1>7
<1> QED BY <1>1, <1>7, <1>8, <1>9, <1>10 DEF N

\* `t` holds what `s` does, each place of the one being a place of the other.
Rearranges(t, s) ==
  /\ Listing(t) /\ Len(t) = Len(s)
  /\ \E o : /\ DOMAIN o = DOMAIN t
            /\ \A k \in DOMAIN t : o[k] \in DOMAIN s /\ t[k] = s[o[k]]
            /\ \A n \in DOMAIN s : \E k \in DOMAIN t : o[k] = n
            /\ \A k, l \in DOMAIN t : o[k] = o[l] => k = l

\* Sorting keeps the places.
LEMMA ArrangedRearranges ==
  ASSUME NEW rows, Listing(rows), NEW R, StrictOrder(DOMAIN rows, R)
  PROVE  Rearranges(Arranged(rows, R), rows)
<1> DEFINE D == DOMAIN rows
           o == Listed(D, R)
           t == [k \in DOMAIN rows |-> rows[o[k]]]
<1>1. Len(rows) \in Nat /\ D = 1..Len(rows)
  BY DEF Listing
<1>2. IsFiniteSet(D) /\ Cardinality(D) = Len(rows)
  <2> DEFINE N == Len(rows)
  <2>1. N \in Nat /\ D = 1..N
    BY <1>1
  <2> HIDE DEF D, N
  <2>2. IsFiniteSet(1..N) /\ Cardinality(1..N) = N
    BY <2>1, FS_Interval
  <2> QED BY <2>1, <2>2 DEF N
<1>4. Arranged(rows, R) = t
  BY DEF Arranged
<1>5. /\ DOMAIN o = 1..Len(rows)
      /\ \A k \in 1..Len(rows) : o[k] \in D
      /\ \A n \in D : \E k \in 1..Len(rows) : o[k] = n
      /\ \A k, l \in 1..Len(rows) : o[k] = o[l] => k = l
  <2>1. StrictOrder(D, R)
    OBVIOUS
  <2> HIDE DEF D
  <2> QED BY <1>2, <2>1, ListedOnce
<1> HIDE DEF o
<1>6. DOMAIN t = 1..Len(rows) /\ t = [k \in 1..Len(rows) |-> t[k]]
  BY <1>1
<1>7. Listing(t) /\ Len(t) = Len(rows)
  <2> HIDE DEF t
  <2> QED BY <1>1, <1>6, BuiltListing
<1>8. \A k \in DOMAIN t : t[k] = rows[o[k]]
  OBVIOUS
<1> HIDE DEF t
<1> QED BY <1>1, <1>4, <1>5, <1>6, <1>7, <1>8 DEF Rearranges

\* So does the order of a cold file.
LEMMA SortedRearranges ==
  ASSUME NEW rows, Listing(rows), \A n \in DOMAIN rows : rows[n].from \in Int
  PROVE  Rearranges(SortedForStorage(rows), rows)
<1> DEFINE D == DOMAIN rows
           R == StorageOrder(rows)
<1>1. Len(rows) \in Nat /\ D = 1..Len(rows)
  BY DEF Listing
<1>3. StrictOrder(D, R)
  <2>1. \A m, n \in D : <<m, n>> \in R <=> \/ rows[m].from < rows[n].from
                                           \/ rows[m].from = rows[n].from /\ m < n
    BY DEF StorageOrder
  <2>2. \A n \in D : n \in Int /\ rows[n].from \in Int
    BY <1>1
  <2> HIDE DEF R, D
  <2> QED BY <2>1, <2>2 DEF StrictOrder
<1> QED BY <1>3, ArrangedRearranges DEF SortedForStorage

\* A finite set in some order, each member once.
LEMMA SetListed ==
  ASSUME NEW S, IsFiniteSet(S)
  PROVE  /\ Listing(InSomeOrder(S)) /\ Len(InSomeOrder(S)) = Cardinality(S) /\ ToSet(InSomeOrder(S)) = S
         /\ \A m, n \in DOMAIN InSomeOrder(S) : InSomeOrder(S)[m] = InSomeOrder(S)[n] => m = n
<1> DEFINE N == Cardinality(S)
           f == InSomeOrder(S)
<1>1. N \in Nat /\ \E g \in [1..N -> S] : \A x, y \in 1..N : g[x] = g[y] => x = y
  BY Numbered
<1>3. f \in [1..N -> S] /\ \A x, y \in 1..N : f[x] = f[y] => x = y
  <2>1. f = CHOOSE g \in [1..N -> S] : \A x, y \in DOMAIN g : g[x] = g[y] => x = y
    BY DEF InSomeOrder
  <2>2. \A g \in [1..N -> S] : DOMAIN g = 1..N
    OBVIOUS
  <2> HIDE DEF f
  <2> QED BY <2>1, <2>2, <1>1
<1> HIDE DEF f
<1>5. IsFiniteSet(1..N) /\ Cardinality(1..N) = N
  BY <1>1, FS_Interval
<1>6. \A e \in S : \E k \in 1..N : f[k] = e
  <2> DEFINE E == 1..N
  <2>2. f \in [E -> S] /\ IsFiniteSet(E) /\ Cardinality(S) = Cardinality(E)
        /\ \A x, y \in E : f[x] = f[y] => x = y
    BY <1>3, <1>5 DEF N
  <2> HIDE DEF E
  <2>3. \A e \in S : \E x \in E : f[x] = e
    BY <2>2, OntoIfOneToOne
  <2> QED BY <2>3 DEF E
<1>7. DOMAIN f = 1..N /\ f = [k \in 1..N |-> f[k]]
  BY <1>3
<1>8. Listing(f) /\ Len(f) = N
  BY <1>1, <1>7, BuiltListing
<1>9. ToSet(f) = S
  BY <1>3, <1>6, <1>7 DEF ToSet
<1>10. \A m, n \in DOMAIN f : f[m] = f[n] => m = n
  BY <1>3, <1>7
<1> QED BY <1>8, <1>9, <1>10 DEF f

-----------------------------------------------------------------------------
(* The parts of a batch.                                                   *)

HotKeep(b, at)  == [n \in DOMAIN b |-> [m \in DOMAIN b[n].intervals |-> b[n].intervals[m].from >= at]]
ColdKeep(b, at) == [n \in DOMAIN b |-> [m \in DOMAIN b[n].intervals |-> b[n].intervals[m].from < at]]
KeyKeep(b, keys) ==
  [n \in DOMAIN b |-> [m \in DOMAIN b[n].intervals |-> KeyOf(table, Incoming(b[n], b[n].intervals[m])) \in keys]]

\* The parts of a batch are narrowings of it.
LEMMA PartsNarrow ==
  ASSUME NEW b, IsBatch(b), NEW at, NEW keys
  PROVE  /\ HotPart(b, at) = NarrowBy(b, HotKeep(b, at))
         /\ ColdPart(b, at) = NarrowBy(b, ColdKeep(b, at))
         /\ Retained(b, keys) = NarrowBy(b, KeyKeep(b, keys))
<1>1. ASSUME NEW n \in DOMAIN b
      PROVE  /\ [m \in DOMAIN b[n].intervals |-> IF b[n].intervals[m].from >= at THEN <<b[n].intervals[m]>> ELSE <<>>]
                  = [m \in DOMAIN b[n].intervals |-> IF HotKeep(b, at)[n][m] THEN <<b[n].intervals[m]>> ELSE <<>>]
             /\ [m \in DOMAIN b[n].intervals |-> IF b[n].intervals[m].from < at THEN <<b[n].intervals[m]>> ELSE <<>>]
                  = [m \in DOMAIN b[n].intervals |-> IF ColdKeep(b, at)[n][m] THEN <<b[n].intervals[m]>> ELSE <<>>]
             /\ [m \in DOMAIN b[n].intervals |-> IF KeyOf(table, Incoming(b[n], b[n].intervals[m])) \in keys
                                                THEN <<b[n].intervals[m]>> ELSE <<>>]
                  = [m \in DOMAIN b[n].intervals |-> IF KeyKeep(b, keys)[n][m] THEN <<b[n].intervals[m]>> ELSE <<>>]
  BY DEF HotKeep, ColdKeep, KeyKeep
<1>2. HotPart(b, at) = NarrowBy(b, HotKeep(b, at))
  <2> DEFINE of(s) == FlattenSeq([m \in DOMAIN s.intervals |->
                        IF s.intervals[m].from >= at THEN <<s.intervals[m]>> ELSE <<>>])
  <2>1. \A n \in DOMAIN b : of(b[n]) = KeptOf(b[n], HotKeep(b, at)[n])
    BY <1>1 DEF KeptOf
  <2>2. HotPart(b, at) = FlattenSeq([n \in DOMAIN b |->
          IF of(b[n]) = <<>> THEN <<>> ELSE <<[b[n] EXCEPT !.intervals = of(b[n])]>>])
    BY DEF HotPart, Narrow
  <2> HIDE DEF of
  <2>3. [n \in DOMAIN b |-> IF of(b[n]) = <<>> THEN <<>> ELSE <<[b[n] EXCEPT !.intervals = of(b[n])]>>]
          = [n \in DOMAIN b |-> IF KeptOf(b[n], HotKeep(b, at)[n]) = <<>> THEN <<>>
                                ELSE <<[b[n] EXCEPT !.intervals = KeptOf(b[n], HotKeep(b, at)[n])]>>]
    BY <2>1
  <2> QED BY <2>2, <2>3 DEF NarrowBy
<1>3. ColdPart(b, at) = NarrowBy(b, ColdKeep(b, at))
  <2> DEFINE of(s) == FlattenSeq([m \in DOMAIN s.intervals |->
                        IF s.intervals[m].from < at THEN <<s.intervals[m]>> ELSE <<>>])
  <2>1. \A n \in DOMAIN b : of(b[n]) = KeptOf(b[n], ColdKeep(b, at)[n])
    BY <1>1 DEF KeptOf
  <2>2. ColdPart(b, at) = FlattenSeq([n \in DOMAIN b |->
          IF of(b[n]) = <<>> THEN <<>> ELSE <<[b[n] EXCEPT !.intervals = of(b[n])]>>])
    BY DEF ColdPart, Narrow
  <2> HIDE DEF of
  <2>3. [n \in DOMAIN b |-> IF of(b[n]) = <<>> THEN <<>> ELSE <<[b[n] EXCEPT !.intervals = of(b[n])]>>]
          = [n \in DOMAIN b |-> IF KeptOf(b[n], ColdKeep(b, at)[n]) = <<>> THEN <<>>
                                ELSE <<[b[n] EXCEPT !.intervals = KeptOf(b[n], ColdKeep(b, at)[n])]>>]
    BY <2>1
  <2> QED BY <2>2, <2>3 DEF NarrowBy
<1>4. Retained(b, keys) = NarrowBy(b, KeyKeep(b, keys))
  <2> DEFINE of(s) == FlattenSeq([m \in DOMAIN s.intervals |->
                        IF KeyOf(table, Incoming(s, s.intervals[m])) \in keys THEN <<s.intervals[m]>> ELSE <<>>])
  <2>1. \A n \in DOMAIN b : of(b[n]) = KeptOf(b[n], KeyKeep(b, keys)[n])
    BY <1>1 DEF KeptOf
  <2>2. Retained(b, keys) = FlattenSeq([n \in DOMAIN b |->
          IF of(b[n]) = <<>> THEN <<>> ELSE <<[b[n] EXCEPT !.intervals = of(b[n])]>>])
    BY DEF Retained, Narrow
  <2> HIDE DEF of
  <2>3. [n \in DOMAIN b |-> IF of(b[n]) = <<>> THEN <<>> ELSE <<[b[n] EXCEPT !.intervals = of(b[n])]>>]
          = [n \in DOMAIN b |-> IF KeptOf(b[n], KeyKeep(b, keys)[n]) = <<>> THEN <<>>
                                ELSE <<[b[n] EXCEPT !.intervals = KeptOf(b[n], KeyKeep(b, keys)[n])]>>]
    BY <2>1
  <2> QED BY <2>2, <2>3 DEF NarrowBy
<1> QED BY <1>2, <1>3, <1>4

\* The parts of a batch hold the values on their side of the boundary, each once.
LEMMA PartPlaces ==
  ASSUME NEW b, IsBatch(b), NEW at, NEW keys
  PROVE  /\ \E u : Narrows(HotPart(b, at), u, b, HotKeep(b, at))
         /\ \E u : Narrows(ColdPart(b, at), u, b, ColdKeep(b, at))
         /\ \E u : Narrows(Retained(b, keys), u, b, KeyKeep(b, keys))
BY PartsNarrow, NarrowPlaces

\* What each of them keeps at a place.
LEMMA KeepAt ==
  ASSUME NEW b, NEW place \in PlacesOf(b), NEW at, NEW keys
  PROVE  /\ HotKeep(b, at)[place[1]][place[2]] <=> ValueAt(b, place).from >= at
         /\ ColdKeep(b, at)[place[1]][place[2]] <=> ValueAt(b, place).from < at
         /\ KeyKeep(b, keys)[place[1]][place[2]] <=> KeyOf(table, GivenAt(b, place)) \in keys
BY PlaceShape DEF HotKeep, ColdKeep, KeyKeep, ValueAt, GivenAt

\* An empty batch has no places.
LEMMA EmptyPlaces == PlacesOf(<<>>) = {}
BY DEF PlacesOf

-----------------------------------------------------------------------------
(* Rows, and what they keep of a value.                                    *)

\* The columns cut an instant to their grid.
LEMMA OnGrid ==
  ASSUME NEW t \in Nat
  PROVE  /\ Micros(t) \in Nat /\ Micros(t) % 2 = 0 /\ Micros(t) <= t /\ t <= Micros(t) + 1
         /\ t % 2 = 0 => Micros(t) = t
  BY DEF Micros

\* A value that fits the column comes back unchanged.
LEMMA Scaled ==
  ASSUME NEW v \in Int, ToScaled(v) # {}
  PROVE  (CHOOSE raw \in ToScaled(v) : TRUE) \in Int /\ FromScaled(CHOOSE raw \in ToScaled(v) : TRUE) = v
<1>1. v % 2 # 1 /\ ToScaled(v) = {v \div 2}
  BY DEF ToScaled
<1>2. (CHOOSE raw \in ToScaled(v) : TRUE) = v \div 2
  BY <1>1
<1>3. v \div 2 \in Int /\ 2 * (v \div 2) = v
  BY <1>1
<1> QED BY <1>2, <1>3 DEF FromScaled

\* What the columns hold of the declared values of a delivery.
Resolved(tbl, supplied) == CHOOSE resolved \in ResolveExtra(tbl, supplied) : TRUE

\* What a delivery resolves to spells its identity the one way there is.
LEMMA ResolvedIdentity ==
  ASSUME NEW tbl, BuildAccepts(tbl), NEW supplied,
         \A name \in DOMAIN supplied : supplied[name] \in Texts \cup {Null},
         ResolveExtra(tbl, supplied) # {}, NEW c \in tbl.columns, c.identity
  PROVE  /\ c.name \in DOMAIN supplied /\ Resolved(tbl, supplied)[c.name] \in Texts
         /\ CheckDeclaredValue(c, supplied[c.name]) = {Resolved(tbl, supplied)[c.name]}
         /\ CheckDeclaredValue(c, Resolved(tbl, supplied)[c.name]) = {Resolved(tbl, supplied)[c.name]}
<1>1. ResolveColumn(c, supplied) # {} /\ ~c.nullable
  BY DEF ResolveExtra, BuildAccepts
<1>2. Resolved(tbl, supplied) = [name \in {x.name : x \in tbl.columns} |->
             CHOOSE v \in Texts \cup {Null} :
               \E x \in tbl.columns : x.name = name /\ v \in ResolveColumn(x, supplied)]
  BY DEF Resolved, ResolveExtra
<1>3. Resolved(tbl, supplied)[c.name] = CHOOSE v \in Texts \cup {Null} :
               \E x \in tbl.columns : x.name = c.name /\ v \in ResolveColumn(x, supplied)
  BY <1>2
<1>4. \A v : (\E x \in tbl.columns : x.name = c.name /\ v \in ResolveColumn(x, supplied)) <=> v \in ResolveColumn(c, supplied)
  BY DEF BuildAccepts
<1>5. c.name \in DOMAIN supplied /\ supplied[c.name] # Null /\ SuppliedFor(c, supplied) = {supplied[c.name]}
  BY <1>1 DEF ResolveColumn, SuppliedFor
<1>6. ResolveColumn(c, supplied) = CheckDeclaredValue(c, supplied[c.name])
  BY <1>5 DEF ResolveColumn
<1>7. supplied[c.name] \in Texts
  BY <1>5
<1>8. PICK v \in Texts : CheckDeclaredValue(c, supplied[c.name]) = {v} /\ CheckDeclaredValue(c, v) = {v}
  BY <1>1, <1>5, <1>6, <1>7, EncodingAssumption DEF CheckDeclaredValue, CanonicalCode, KnownChecks
<1>9. Resolved(tbl, supplied)[c.name] = v
  <2>1. \A x : (\E y \in tbl.columns : y.name = c.name /\ x \in ResolveColumn(y, supplied)) <=> x = v
    BY <1>4, <1>6, <1>8
  <2> QED BY <1>3, <1>8, <2>1
<1> QED BY <1>5, <1>8, <1>9

\* A row begins at an instant.
LEMMA RowFrom ==
  ASSUME NEW tbl, NEW r, IsRow(tbl, r)
  PROVE  r.from \in Nat /\ r.from <= LastInstant /\ r.from % 2 = 0 /\ r.version \in Int /\ r.rec \in Int
BY DEF IsRow, Instants

\* What a row is made of.
LEMMA RowFields ==
  ASSUME NEW tbl, NEW d, NEW i
  PROVE  LET row == RowOf(tbl, d, i)
         IN /\ row.from = Micros(i.from) /\ row.obis = ObisFor(d, i) /\ row.melo = d.melo
            /\ row.value = (CHOOSE raw \in ToScaled(i.value) : TRUE)
            /\ row.version = d.label.version /\ row.scope = d.label.scope
            /\ row.rec = Micros(d.rec) /\ row.q = i.q /\ row.unit = d.unit
            /\ row.extra = Resolved(tbl, d.extra)
BY DEF RowOf, Incoming, Resolved

\* Two rows of the same channel, start and identity have the same key.
LEMMA SameKey ==
  ASSUME NEW tbl, NEW r, NEW s
  PROVE  KeyOf(tbl, r) = KeyOf(tbl, s) <=>
           r.obis = s.obis /\ r.from = s.from /\ \A name \in Discriminators(tbl) : Column(r, name) = Column(s, name)
<1>1. KeyOf(tbl, r) = KeyOf(tbl, s) <=>
        r.obis = s.obis /\ r.from = s.from /\ DiscriminatorValues(tbl, r) = DiscriminatorValues(tbl, s)
  BY DEF KeyOf
<1>2. DiscriminatorValues(tbl, r) = DiscriminatorValues(tbl, s) <=>
        \A name \in Discriminators(tbl) : Column(r, name) = Column(s, name)
  BY DEF DiscriminatorValues
<1> QED BY <1>1, <1>2

\* What a value is stored as.
LEMMA StoredFields ==
  ASSUME NEW d, NEW i
  PROVE  LET s == AsStored(Incoming(d, i))
         IN /\ s.from = Micros(i.from) /\ s.obis = ObisFor(d, i) /\ s.melo = d.melo
            /\ s.extra = Resolved(table, d.extra)
BY DEF AsStored, Incoming, Resolved

\* What a row keeps of the value it was made of.
Keeps(r, given) ==
  /\ KeyOf(table, r) = StoredKey(given)
  /\ r.version = given.version /\ FromScaled(r.value) = given.value /\ r.melo = given.melo

\* What a value is given as.
LEMMA GivenFields ==
  ASSUME NEW d, NEW i
  PROVE  LET g == Incoming(d, i)
         IN /\ g.from = i.from /\ g.value = i.value /\ g.obis = ObisFor(d, i) /\ g.melo = d.melo
            /\ g.version = d.label.version /\ g.extra = d.extra /\ g.scope = d.label.scope
BY DEF Incoming

\* The row made of a value is one of the table, and keeps what the value says.
LEMMA RowFacts ==
  ASSUME NEW b, IsBatch(b), NEW place \in PlacesOf(b), BuildAccepts(table), EncodableAt(table, b, place)
  PROVE  /\ IsRow(table, RowAt(table, b, place)) /\ Keeps(RowAt(table, b, place), GivenAt(b, place))
         /\ RowAt(table, b, place).from = Micros(GivenAt(b, place).from)
         /\ GivenAt(b, place).from \in Nat
<1> DEFINE d == b[place[1]]
           i == ValueAt(b, place)
           row == RowOf(table, d, i)
           g == Incoming(d, i)
<1>1. IsDelivery(d) /\ i.from \in Instants /\ i.from \in Nat /\ i.value \in Int /\ i.obis \in Texts \cup {Null}
  <2>1. IsDelivery(d) /\ i = d.intervals[place[2]] /\ place[2] \in DOMAIN d.intervals
    BY PlaceShape, BatchShape DEF ValueAt
  <2> HIDE DEF d, i
  <2>2. i \in ToSet(d.intervals)
    BY <2>1 DEF ToSet
  <2> QED BY <2>1, <2>2 DEF IsDelivery, Instants
<1>2. EncodableInterval(table, d, i) /\ ResolveExtra(table, d.extra) # {}
  BY DEF EncodableAt
<1>3. RowAt(table, b, place) = row /\ GivenAt(b, place) = g
  BY DEF RowAt, GivenAt
<1> HIDE DEF d, i
<1>4. /\ row.from = Micros(i.from) /\ row.obis = ObisFor(d, i) /\ row.melo = d.melo
      /\ row.value = (CHOOSE raw \in ToScaled(i.value) : TRUE)
      /\ row.version = d.label.version /\ row.rec = Micros(d.rec) /\ row.extra = Resolved(table, d.extra)
  BY RowFields
<1>5. /\ g.from = i.from /\ g.value = i.value /\ g.obis = ObisFor(d, i) /\ g.melo = d.melo
      /\ g.version = d.label.version /\ g.extra = d.extra
  BY GivenFields
<1> DEFINE st == AsStored(g)
<1>6. st.from = Micros(i.from) /\ st.obis = ObisFor(d, i) /\ st.melo = d.melo /\ st.extra = Resolved(table, d.extra)
  BY StoredFields
<1> HIDE DEF row, g, st
<1>7. KeyOf(table, row) = KeyOf(table, st)
  BY <1>4, <1>6, SameKey DEF Column
<1>8. KeyOf(table, row) = StoredKey(g)
  BY <1>2, <1>5, <1>7 DEF StoredKey, st
<1>9. FromScaled(row.value) = g.value
  BY <1>1, <1>2, <1>4, <1>5, Scaled DEF EncodableInterval
<1>10. \A c \in table.columns : c.identity =>
         row.extra[c.name] \in Texts /\ CheckDeclaredValue(c, row.extra[c.name]) = {row.extra[c.name]}
  <2>1. \A name \in DOMAIN d.extra : d.extra[name] \in Texts \cup {Null}
    BY <1>1 DEF IsDelivery
  <2> SUFFICES ASSUME NEW c \in table.columns, c.identity
               PROVE  row.extra[c.name] \in Texts /\ CheckDeclaredValue(c, row.extra[c.name]) = {row.extra[c.name]}
    OBVIOUS
  <2>2. /\ Resolved(table, d.extra)[c.name] \in Texts
        /\ CheckDeclaredValue(c, Resolved(table, d.extra)[c.name]) = {Resolved(table, d.extra)[c.name]}
    BY <2>1, <1>2, ResolvedIdentity
  <2> QED BY <2>2, <1>4
<1>11. IsRow(table, row)
  <2>1. d.label.version \in Int /\ Micros(d.rec) \in Int
    BY <1>1 DEF IsDelivery, Micros
  <2>2. Micros(i.from) \in Instants
    <3>1. i.from \in Nat /\ i.from <= LastInstant
      BY <1>1 DEF Instants
    <3>2. Micros(i.from) \in Nat /\ Micros(i.from) <= i.from
      BY <3>1, OnGrid
    <3> QED BY <3>1, <3>2, PredicatesAssumption DEF Instants
  <2>3. {row.obis, row.melo} \subseteq Texts \cup {Null}
    BY <1>1, <1>4 DEF IsDelivery, ObisFor
  <2> QED BY <1>1, <1>4, <1>10, <2>1, <2>2, <2>3, OnGrid DEF IsRow
<1> QED BY <1>1, <1>3, <1>4, <1>5, <1>8, <1>9, <1>11 DEF Keeps

\* A row stored under the key a value gives is stored under the key the value is stored under.
LEMMA GivenKeyStored ==
  ASSUME NEW b, IsBatch(b), NEW place \in PlacesOf(b), BuildAccepts(table),
         NEW r, IsRow(table, r), KeyOf(table, r) = KeyOf(table, GivenAt(b, place))
  PROVE  KeyOf(table, r) = StoredKey(GivenAt(b, place))
<1> DEFINE d == b[place[1]]
           i == ValueAt(b, place)
           g == Incoming(d, i)
           st == AsStored(g)
<1>1. IsDelivery(d) /\ i.from \in Nat
  <2>1. IsDelivery(d) /\ i = d.intervals[place[2]] /\ place[2] \in DOMAIN d.intervals
    BY PlaceShape, BatchShape DEF ValueAt
  <2> HIDE DEF d, i
  <2>2. i \in ToSet(d.intervals)
    BY <2>1 DEF ToSet
  <2> QED BY <2>1, <2>2 DEF IsDelivery, Instants
<1>2. GivenAt(b, place) = g
  BY DEF GivenAt
<1> HIDE DEF d, i
<1>3. g.from = i.from /\ g.obis = ObisFor(d, i) /\ g.melo = d.melo /\ g.extra = d.extra
  BY GivenFields
<1>4. st.from = Micros(i.from) /\ st.obis = ObisFor(d, i) /\ st.melo = d.melo /\ st.extra = Resolved(table, d.extra)
  BY StoredFields
<1> HIDE DEF g
<1>5. StoredKey(g) = KeyOf(table, IF ResolveExtra(table, d.extra) = {} THEN g ELSE st)
  BY <1>3 DEF StoredKey
<1> HIDE DEF st
<1>6. CASE ResolveExtra(table, d.extra) = {}
  BY <1>2, <1>5, <1>6
<1>7. CASE ResolveExtra(table, d.extra) # {}
  <2>1. r.obis = g.obis /\ r.from = g.from /\ \A name \in Discriminators(table) : Column(r, name) = Column(g, name)
    BY <1>2, SameKey
  <2>2. r.from = st.from
    BY <2>1, <1>1, <1>3, <1>4, OnGrid DEF IsRow
  <2>3. ASSUME NEW name \in Discriminators(table) PROVE Column(r, name) = Column(st, name)
    <3>1. CASE name = "melo"
      BY <3>1, <2>1, <1>3, <1>4 DEF Column
    <3>2. CASE name # "melo"
      <4>1. PICK c \in table.columns : c.identity /\ c.name = name
        BY <3>2 DEF Discriminators, IdentityColumns
      <4>2. r.extra[name] = d.extra[name]
        BY <3>2, <2>1, <1>3 DEF Column
      <4>3. CheckDeclaredValue(c, d.extra[name]) = {Resolved(table, d.extra)[name]}
        BY <4>1, <1>1, <1>7, ResolvedIdentity DEF IsDelivery
      <4>4. CheckDeclaredValue(c, r.extra[name]) = {r.extra[name]}
        BY <4>1 DEF IsRow
      <4> QED BY <3>2, <4>2, <4>3, <4>4, <1>4 DEF Column
    <3> QED BY <3>1, <3>2
  <2>4. KeyOf(table, r) = KeyOf(table, st)
    BY <2>1, <2>2, <2>3, <1>3, <1>4, SameKey
  <2> QED BY <2>4, <1>2, <1>5, <1>7
<1> QED BY <1>6, <1>7

-----------------------------------------------------------------------------
(* The store, and archival.                                                *)

\* A boundary is on the grid, and windows begin at boundaries.
LEMMA Grid ==
  ASSUME NEW b \in Nat, b % Step = 0
  PROVE  /\ b % 2 = 0 /\ b + Step \in Nat /\ (b + Step) % Step = 0
         /\ \A t \in Nat : Window(t) = b <=> b <= t /\ t < b + Step
<1>1. Step \in Nat \ {0} /\ Step % 2 = 0
  BY WritesAssumption
<1> DEFINE p == b \div Step
           h == Step \div 2
<1>2. p \in Int /\ b = Step * p
  BY <1>1, Divided
<1>3. h \in Int /\ Step = 2 * h
  BY <1>1
<1> HIDE DEF p, h
<1>4. b % 2 = 0
  <2>1. b = 2 * (h * p) /\ h * p \in Int
    BY <1>2, <1>3
  <2>2. (2 * (h * p)) % 2 = 0
    BY <2>1
  <2> QED BY <2>1, <2>2
<1>5. (b + Step) % Step = 0
  <2>1. b + Step = Step * (p + 1) /\ p + 1 \in Int
    BY <1>1, <1>2
  <2>2. (Step * (p + 1)) % Step = 0
    BY <2>1, <1>1, Multiple
  <2> QED BY <2>1, <2>2
<1>6. ASSUME NEW t \in Nat PROVE Window(t) = b <=> b <= t /\ t < b + Step
  <2> DEFINE q == t \div Step
             x == t % Step
  <2>1. q \in Int /\ x \in 0..(Step - 1) /\ t = Step * q + x
    BY <1>1, Divided
  <2>2. Window(t) = Step * q /\ Step * q \in Int
    BY <2>1, <1>1 DEF Window
  <2> HIDE DEF q, x
  <2>3. Window(t) = b => b <= t /\ t < b + Step
    BY <2>1, <2>2, <1>1
  <2>4. ASSUME b <= t, t < b + Step PROVE Window(t) = b
    <3>1. t - b \in 0..(Step - 1) /\ Step * p + (t - b) = Step * q + x
      BY <2>1, <2>4, <1>1, <1>2
    <3>2. p = q
      BY <3>1, <1>1, <1>2, <2>1, SameQuotient
    <3> QED BY <3>2, <2>2, <1>2
  <2> QED BY <2>3, <2>4
<1> QED BY <1>1, <1>4, <1>5, <1>6

\* A window holds the instants it is that of.
LEMMA WindowBefore ==
  ASSUME NEW t \in Nat
  PROVE  t < Window(t) + Step /\ Window(t) <= t /\ Window(t) \in Int
<1>1. Step \in Nat \ {0}
  BY WritesAssumption
<1>2. t % Step \in 0..(Step - 1)
  BY <1>1, Divided
<1> QED BY <1>1, <1>2 DEF Window

\* The files of the cold tier: none is empty, and every row is one and lies below the boundary.
ColdFilesOk ==
  /\ Listing(cold)
  /\ \A f \in DOMAIN cold :
       /\ Listing(cold[f]) /\ cold[f] # <<>>
       /\ \A n \in DOMAIN cold[f] : IsRow(table, cold[f][n]) /\ cold[f][n].from < boundary

\* The inductive invariant of the store.
StoreOk ==
  /\ scene \in Scenes
  /\ boundary \in Nat /\ boundary % Step = 0
  /\ IsFiniteSet(hot) /\ \A r \in hot : IsRow(table, r)
  /\ \A d \in detached : d \in Nat /\ d + Step <= boundary
  /\ ColdFilesOk

\* A file of rows of the table, all below a boundary.
FileOf(rows, b) ==
  /\ Listing(rows) /\ rows # <<>>
  /\ \A n \in DOMAIN rows : IsRow(table, rows[n]) /\ rows[n].from < b

\* A file is committed after the others, which stay.
LEMMA ColdAppended ==
  ASSUME StoreOk, NEW rows, FileOf(rows, boundary'), table' = table,
         boundary' \in Nat, boundary <= boundary', cold' = Append(cold, rows)
  PROVE  /\ ColdFilesOk'
         /\ \A f \in DOMAIN cold : f \in DOMAIN cold' /\ cold'[f] = cold[f]
         /\ Len(cold) + 1 \in DOMAIN cold' /\ cold'[Len(cold) + 1] = rows
         /\ DOMAIN cold' = DOMAIN cold \cup {Len(cold) + 1} /\ Len(cold') = Len(cold) + 1
<1>1. Listing(cold) /\ Len(cold) \in Nat /\ DOMAIN cold = 1..Len(cold)
  BY DEF StoreOk, ColdFilesOk, Listing
<1> DEFINE S == ToSet(cold) \cup {rows}
<1>2. cold \in Seq(S) /\ rows \in S
  <2>1. cold \in Seq(ToSet(cold)) /\ ToSet(cold) \subseteq S
    BY <1>1 DEF Listing
  <2> HIDE DEF S
  <2>2. cold \in Seq(S)
    BY <2>1
  <2> QED BY <2>2 DEF S
<1> HIDE DEF S
<1>3. /\ cold' \in Seq(S) /\ Len(cold') = Len(cold) + 1
      /\ \A f \in 1..Len(cold) : cold'[f] = cold[f]
      /\ cold'[Len(cold) + 1] = rows
  BY <1>1, <1>2
<1>4. DOMAIN cold' = 1..(Len(cold) + 1)
  BY <1>3, <1>1
<1>5. Listing(cold')
  BY <1>3, ListingOf
<1>6. ASSUME NEW f \in DOMAIN cold'
      PROVE  /\ Listing(cold'[f]) /\ cold'[f] # <<>>
             /\ \A n \in DOMAIN cold'[f] : IsRow(table', cold'[f][n]) /\ cold'[f][n].from < boundary'
  <2>1. CASE f \in 1..Len(cold)
    <3>1. cold'[f] = cold[f] /\ f \in DOMAIN cold
      BY <2>1, <1>1, <1>3
    <3>2. \A n \in DOMAIN cold[f] : IsRow(table, cold[f][n]) /\ cold[f][n].from < boundary /\ cold[f][n].from \in Nat
      BY <3>1, RowFrom DEF StoreOk, ColdFilesOk
    <3>3. boundary \in Nat
      BY DEF StoreOk
    <3> QED BY <3>1, <3>2, <3>3 DEF StoreOk, ColdFilesOk
  <2>2. CASE f = Len(cold) + 1
    BY <2>2, <1>3 DEF FileOf
  <2> QED BY <2>1, <2>2, <1>1, <1>4
<1>7. Listing(cold)'
  BY <1>5 DEF Listing
<1>8. ColdFilesOk'
  BY <1>6, <1>7 DEF ColdFilesOk, Listing
<1> QED BY <1>1, <1>3, <1>4, <1>8

\* Sorting a file keeps its rows.
LEMMA SortedFile ==
  ASSUME NEW b, NEW rows, FileOf(rows, b)
  PROVE  /\ FileOf(SortedForStorage(rows), b) /\ Rearranges(SortedForStorage(rows), rows)
         /\ \A n \in DOMAIN rows : \E k \in DOMAIN SortedForStorage(rows) : SortedForStorage(rows)[k] = rows[n]
<1> DEFINE t == SortedForStorage(rows)
<1>1. Rearranges(t, rows)
  BY SortedRearranges DEF FileOf, IsRow, Instants
<1> HIDE DEF t
<1>2. PICK o : /\ DOMAIN o = DOMAIN t
               /\ \A k \in DOMAIN t : o[k] \in DOMAIN rows /\ t[k] = rows[o[k]]
               /\ \A n \in DOMAIN rows : \E k \in DOMAIN t : o[k] = n
  BY <1>1 DEF Rearranges
<1>3. Listing(t) /\ Len(t) = Len(rows)
  BY <1>1 DEF Rearranges
<1>4. t # <<>>
  <2>1. rows # <<>> /\ Listing(rows)
    BY DEF FileOf
  <2>2. Len(rows) # 0
    BY <2>1 DEF Listing
  <2> QED BY <2>2, <1>3
<1>5. \A n \in DOMAIN rows : \E k \in DOMAIN t : t[k] = rows[n]
  BY <1>2
<1> QED BY <1>1, <1>2, <1>3, <1>4, <1>5 DEF FileOf, t

\* The rows of the cold tier are those of its files.
LEMMA InColdRows ==
  ASSUME NEW r
  PROVE  r \in ColdRows <=> \E f \in DOMAIN cold : \E n \in DOMAIN cold[f] : r = cold[f][n]
BY DEF ColdRows, ToSet

\* So they are after a step.
LEMMA InColdRowsNext ==
  ASSUME NEW r
  PROVE  r \in ColdRows' <=> \E f \in DOMAIN cold' : \E n \in DOMAIN cold'[f] : r = cold'[f][n]
BY DEF ColdRows, ToSet

\* The rows of the cold tier lie below the boundary.
LEMMA ColdBelow ==
  ASSUME StoreOk, NEW r \in ColdRows
  PROVE  IsRow(table, r) /\ r.from < boundary
BY InColdRows DEF StoreOk, ColdFilesOk

\* Archiving a window moves its rows.
LEMMA ArchiveStore ==
  ASSUME StoreOk, Archive
  PROVE  /\ StoreOk' /\ Visible \subseteq Visible' /\ scene' = scene /\ call' = call /\ boundary <= boundary'
         /\ \A f \in DOMAIN cold : f \in DOMAIN cold' /\ cold'[f] = cold[f]
         /\ hot' = hot /\ boundary' = boundary + Step /\ detached' = detached \cup {boundary}
         /\ ColdRows' = ColdRows \cup {r \in hot : Window(r.from) = boundary}
<1> DEFINE window == {r \in hot : Window(r.from) = boundary}
           listed == InSomeOrder(window)
           file == SortedForStorage(listed)
<1>1. /\ boundary \in Nat /\ boundary % Step = 0 /\ scene' = scene /\ hot' = hot
      /\ boundary' = boundary + Step /\ detached' = detached \cup {boundary} /\ call' = call
      /\ cold' = IF window = {} THEN cold ELSE Append(cold, file)
      /\ Step \in Nat \ {0}
  <2>1. boundary \in Nat /\ boundary % Step = 0 /\ Step \in Nat \ {0}
    BY WritesAssumption DEF StoreOk
  <2>2. cold' = IF window = {} THEN cold ELSE Append(cold, file)
    BY DEF Archive
  <2> HIDE DEF file, window
  <2> QED BY <2>1, <2>2 DEF Archive
<1>2. /\ boundary' \in Nat /\ boundary' % Step = 0 /\ boundary <= boundary' /\ table' = table
      /\ \A t \in Nat : Window(t) = boundary <=> boundary <= t /\ t < boundary'
  BY <1>1, Grid DEF table
<1>3. \A r \in window : r \in hot /\ IsRow(table, r) /\ r.from \in Nat /\ r.from < boundary' /\ boundary <= r.from
  BY <1>2, RowFrom DEF StoreOk
<1>4. IsFiniteSet(window)
  BY FS_Subset DEF StoreOk
<1>5. /\ Listing(listed) /\ Len(listed) = Cardinality(window) /\ ToSet(listed) = window
      /\ Cardinality(window) \in Nat /\ DOMAIN listed = 1..Cardinality(window)
  <2> HIDE DEF window
  <2>1. Listing(listed) /\ Len(listed) = Cardinality(window) /\ ToSet(listed) = window
    BY <1>4, SetListed
  <2> HIDE DEF listed
  <2> QED BY <2>1, <1>4, FS_CardinalityType DEF Listing
<1>6. \A n \in DOMAIN listed : listed[n] \in window
  <2> HIDE DEF listed, window
  <2> QED BY <1>5 DEF ToSet
<1>7. \A r \in window : \E n \in DOMAIN listed : listed[n] = r
  <2> HIDE DEF listed, window
  <2> QED BY <1>5 DEF ToSet
<1> HIDE DEF listed, file
<1>8. ASSUME window # {}
      PROVE  /\ FileOf(file, boundary')
             /\ \A r \in window : \E k \in DOMAIN file : file[k] = r
             /\ \A k \in DOMAIN file : file[k] \in window
  <2> HIDE DEF window
  <2>1. listed # <<>>
    BY <1>7, <1>8
  <2>2. FileOf(listed, boundary')
    BY <1>3, <1>5, <1>6, <2>1 DEF FileOf
  <2>3. FileOf(file, boundary') /\ Rearranges(file, listed)
        /\ \A n \in DOMAIN listed : \E k \in DOMAIN file : file[k] = listed[n]
    BY <2>2, SortedFile DEF file
  <2>4. \A k \in DOMAIN file : file[k] \in window
    BY <2>3, <1>6 DEF Rearranges
  <2> QED BY <2>3, <2>4, <1>7
<1>9. /\ ColdFilesOk' /\ \A f \in DOMAIN cold : f \in DOMAIN cold' /\ cold'[f] = cold[f]
      /\ ColdRows' = ColdRows \cup window
  <2>1. CASE window = {}
    <3>1. cold' = cold
      BY <2>1, <1>1
    <3>2. ColdRows' = ColdRows
      BY <3>1 DEF ColdRows
    <3>3. \A f \in DOMAIN cold : \A n \in DOMAIN cold[f] : cold[f][n].from \in Nat
      BY DEF StoreOk, ColdFilesOk, IsRow, Instants
    <3>4. ColdFilesOk'
      <4>1. \A x, y, z \in Int : x < y /\ y <= z => x < z
        OBVIOUS
      <4>2. \A f \in DOMAIN cold : \A n \in DOMAIN cold[f] : cold[f][n].from < boundary'
        <5> SUFFICES ASSUME NEW f \in DOMAIN cold, NEW n \in DOMAIN cold[f] PROVE cold[f][n].from < boundary'
          OBVIOUS
        <5>1. cold[f][n].from \in Nat /\ cold[f][n].from < boundary
          BY <3>3 DEF StoreOk, ColdFilesOk
        <5> QED BY <5>1, <1>1, <1>2
      <4> QED BY <3>1, <4>2, <1>2 DEF StoreOk, ColdFilesOk, Listing
    <3> QED BY <3>1, <3>2, <3>4, <2>1
  <2>2. CASE window # {}
    <3> HIDE DEF window
    <3>1. cold' = Append(cold, file) /\ FileOf(file, boundary')
      BY <2>2, <1>1, <1>8
    <3>2. /\ ColdFilesOk' /\ \A f \in DOMAIN cold : f \in DOMAIN cold' /\ cold'[f] = cold[f]
          /\ Len(cold) + 1 \in DOMAIN cold' /\ cold'[Len(cold) + 1] = file
          /\ DOMAIN cold' = DOMAIN cold \cup {Len(cold) + 1}
      BY <3>1, <1>2, ColdAppended
    <3>3. \A r : r \in ColdRows' <=> r \in ColdRows \/ r \in window
      <4> SUFFICES ASSUME NEW r PROVE r \in ColdRows' <=> r \in ColdRows \/ r \in window
        OBVIOUS
      <4>1. r \in ColdRows' <=> \E f \in DOMAIN cold' : \E n \in DOMAIN cold'[f] : r = cold'[f][n]
        BY InColdRowsNext
      <4>2. (\E f \in DOMAIN cold' : \E n \in DOMAIN cold'[f] : r = cold'[f][n])
              <=> (\E f \in DOMAIN cold : \E n \in DOMAIN cold[f] : r = cold[f][n]) \/ \E n \in DOMAIN file : r = file[n]
        BY <3>2
      <4>3. (\E n \in DOMAIN file : r = file[n]) <=> r \in window
        BY <1>8, <2>2
      <4> QED BY <4>1, <4>2, <4>3, InColdRows
    <3> QED BY <3>2, <3>3
  <2> QED BY <2>1, <2>2
<1>10. StoreOk'
  <2>1. scene' \in Scenes /\ IsFiniteSet(hot)' /\ \A r \in hot' : IsRow(table', r)
    BY <1>1, <1>2 DEF StoreOk
  <2>2. \A d \in detached' : d \in Nat /\ d + Step <= boundary'
    BY <1>1 DEF StoreOk
  <2> QED BY <1>2, <1>9, <2>1, <2>2 DEF StoreOk
<1>11. Visible \subseteq Visible'
  <2>1. ASSUME NEW r \in Visible PROVE r \in Visible'
    <3>1. CASE r \in ColdRows /\ r.from < boundary
      <4>1. r.from \in Nat
        BY <3>1, ColdBelow DEF IsRow, Instants
      <4>2. r \in ColdRows' /\ r.from < boundary'
        BY <3>1, <4>1, <1>1, <1>2, <1>9
      <4> QED BY <4>2 DEF Visible
    <3>2. CASE r \in hot /\ r.from >= boundary
      <4>1. r.from \in Nat
        BY <3>2 DEF StoreOk, IsRow, Instants
      <4>2. CASE r.from >= boundary'
        BY <4>2, <3>2, <1>1 DEF Visible
      <4>3. CASE ~(r.from >= boundary')
        <5>1. Window(r.from) = boundary /\ r.from < boundary'
          BY <4>1, <4>3, <3>2, <1>1, <1>2
        <5>2. r \in ColdRows'
          BY <5>1, <3>2, <1>9
        <5> QED BY <5>1, <5>2 DEF Visible
      <4> QED BY <4>2, <4>3
    <3> QED BY <3>1, <3>2 DEF Visible
  <2> QED BY <2>1
<1> QED BY <1>1, <1>2, <1>9, <1>10, <1>11

\* Dropping what was archived loses nothing a query sees.
LEMMA DropStore ==
  ASSUME StoreOk, DropDetached
  PROVE  /\ StoreOk' /\ Visible \subseteq Visible' /\ scene' = scene /\ call' = call /\ boundary' = boundary
         /\ cold' = cold /\ hot' \subseteq hot /\ detached' = {}
         /\ \A r \in hot : r.from >= boundary => r \in hot'
<1>1. /\ scene' = scene /\ cold' = cold /\ boundary' = boundary /\ call' = call
      /\ hot' = Attached /\ detached' = {} /\ table' = table /\ boundary \in Nat
  BY DEF DropDetached, StoreOk, table
<1>2. hot' \subseteq hot /\ IsFiniteSet(hot')
  BY <1>1, FS_Subset DEF Attached, StoreOk
<1>3. ASSUME NEW r \in hot, r.from >= boundary PROVE r \in hot'
  <2>1. r.from \in Nat
    BY DEF StoreOk, IsRow, Instants
  <2>2. Step \in Nat \ {0} /\ r.from < Window(r.from) + Step /\ Window(r.from) \in Int
    BY <2>1, WindowBefore, WritesAssumption
  <2>3. Window(r.from) \notin detached
    <3> SUFFICES ASSUME Window(r.from) \in detached PROVE FALSE
      OBVIOUS
    <3>1. Window(r.from) + Step <= boundary
      BY DEF StoreOk
    <3> QED BY <3>1, <2>1, <2>2, <1>1, <1>3
  <2> QED BY <2>3, <1>1 DEF Attached
<1>4. Visible \subseteq Visible'
  BY <1>1, <1>3 DEF Visible, ColdRows
<1>5. ColdFilesOk'
  BY <1>1 DEF StoreOk, ColdFilesOk, Listing
<1>6. StoreOk'
  BY <1>1, <1>2, <1>5 DEF StoreOk
<1> QED BY <1>1, <1>2, <1>3, <1>4, <1>6

-----------------------------------------------------------------------------
(* Authoring again: the merge of what is out of force.                     *)

\* A highest version is one of those compared.
LEMMA BestIs ==
  ASSUME NEW values, IsFiniteSet(values), values # {}, \A v \in values : v.label.version \in Int
  PROVE  BestValue(values) \in values /\ \A u \in values : u.label.version <= BestValue(values).label.version
<1> DEFINE R == {p \in values \X values : p[1].label.version > p[2].label.version}
<1>1. \A x, y \in values : <<x, y>> \in R <=> x.label.version > y.label.version
  OBVIOUS
<1> HIDE DEF R
<1>2. \A x \in values : <<x, x>> \notin R
  BY <1>1
<1>3. \A x, y, z \in values : <<x, y>> \in R /\ <<y, z>> \in R => <<x, z>> \in R
  BY <1>1
<1>4. \E x \in values : \A y \in values : <<y, x>> \notin R
  BY <1>2, <1>3, FiniteExtreme
<1>5. \E v \in values : \A u \in values : u.label.version <= v.label.version
  <2>1. PICK x \in values : \A y \in values : <<y, x>> \notin R
    BY <1>4
  <2>2. \A u \in values : ~(u.label.version > x.label.version)
    BY <1>1, <2>1
  <2>3. \A u \in values : u.label.version <= x.label.version
    BY <2>2
  <2> QED BY <2>3
<1> QED BY <1>5 DEF BestValue

\* Of some places one comes first.
LEMMA FirstIs ==
  ASSUME NEW places, places # {}, \A p \in places : p[1] \in Nat /\ p[2] \in Nat
  PROVE  FirstOf(places) \in places
<1> DEFINE T == {p[1] : p \in places}
<1>1. PICK n \in T : \A m \in T : n <= m
  BY LeastNatural
<1> DEFINE U == {p[2] : p \in {o \in places : o[1] = n}}
<1>2. U # {} /\ U \subseteq Nat
  BY <1>1
<1>3. PICK m \in U : \A k \in U : m <= k
  BY <1>2, LeastNatural
<1>4. PICK p \in places : p[1] = n /\ p[2] = m
  BY <1>3
<1>5. \A o \in places : p[1] < o[1] \/ (p[1] = o[1] /\ p[2] <= o[2])
  <2> SUFFICES ASSUME NEW o \in places PROVE p[1] < o[1] \/ (p[1] = o[1] /\ p[2] <= o[2])
    OBVIOUS
  <2>1. p[1] <= o[1] /\ o[1] \in Nat /\ p[1] \in Nat
    BY <1>1, <1>4
  <2>2. o[1] = n => o[2] \in U
    OBVIOUS
  <2> QED BY <2>1, <2>2, <1>3, <1>4
<1> QED BY <1>5 DEF FirstOf

\* A report of what a write displaced names what held the reading, where it was held.
ReportOk(d) ==
  d.effect # "Inserted" =>
    {"scope", "version"} \subseteq DOMAIN d.superseded.label /\ d.superseded.label.version \in Int

\* A value authored again is a delivery of one value.
LEMMA ReauthoredDelivery ==
  ASSUME NEW b, IsBatch(b), NEW d, ReportOk(d), d.effect # "Inserted", Located(b, d) # {}
  PROVE  /\ IsDelivery(Reauthored(b, d))
         /\ 1 \in DOMAIN Reauthored(b, d).intervals
<1> DEFINE place == FirstOf(Located(b, d))
           given == b[place[1]]
           i == given.intervals[place[2]]
           e == [given EXCEPT !.intervals = <<i>>, !.label = NextVersion(d.superseded.label)]
<1>1. Located(b, d) \subseteq PlacesOf(b)
  BY DEF Located, PlacesOf
<1>2. place \in PlacesOf(b)
  <2>1. \A p \in Located(b, d) : p[1] \in Nat /\ p[2] \in Nat
    BY <1>1, PlaceShape, BatchShape
  <2> QED BY <2>1, <1>1, FirstIs
<1>3. place[1] \in DOMAIN b /\ place[2] \in DOMAIN given.intervals
  BY <1>2, PlaceShape
<1>4. IsDelivery(given) /\ i \in ToSet(given.intervals)
  BY <1>3, BatchShape DEF ToSet
<1>5. Reauthored(b, d) = e
  BY DEF Reauthored
<1> HIDE DEF place, given, i
<1>6. /\ DOMAIN e = DOMAIN given /\ e.intervals = <<i>> /\ e.label = NextVersion(d.superseded.label)
      /\ e.rec = given.rec /\ e.extra = given.extra /\ e.obis = given.obis /\ e.melo = given.melo
  BY <1>4 DEF IsDelivery
<1>7. {"scope", "version"} \subseteq DOMAIN e.label /\ e.label.version \in Int
  BY <1>6 DEF ReportOk, NextVersion
<1>8. Listing(<<i>>) /\ ToSet(<<i>>) = {i} /\ 1 \in DOMAIN <<i>>
  <2>1. <<i>> \in Seq({i}) /\ DOMAIN <<i>> = {1} /\ <<i>>[1] = i
    OBVIOUS
  <2>2. ToSet(<<i>>) = {i}
    BY <2>1 DEF ToSet
  <2> QED BY <2>1, <2>2, ListingOf
<1> HIDE DEF e
<1>9. IsDelivery(e)
  BY <1>4, <1>6, <1>7, <1>8 DEF IsDelivery
<1> QED BY <1>5, <1>6, <1>8, <1>9

\* What follows a start of merged rows is values of theirs.
LEMMA MergedValues ==
  ASSUME NEW rows, IsBatch(rows), NEW n
  PROVE  /\ Listing(MergedFrom(rows, n))
         /\ \A i \in ToSet(MergedFrom(rows, n)) : \E k \in DOMAIN rows : i \in ToSet(rows[k].intervals)
<1> DEFINE ss == [k \in DOMAIN rows |->
                    IF k >= n /\ MergeStarts(rows) \cap ((n + 1)..k) = {} THEN rows[k].intervals ELSE <<>>]
           flat == FlattenSeq(ss)
<1>1. MergedFrom(rows, n) = flat
  BY DEF MergedFrom
<1>2. DOMAIN ss = DOMAIN rows
  OBVIOUS
<1>3. ASSUME NEW k \in DOMAIN rows
      PROVE  Listing(ss[k]) /\ \A m \in DOMAIN ss[k] : ss[k][m] \in ToSet(rows[k].intervals)
  <2>1. ss[k] = rows[k].intervals \/ ss[k] = <<>>
    OBVIOUS
  <2>2. Listing(rows[k].intervals)
    BY BatchShape
  <2>3. Listing(<<>>)
    <3>1. <<>> \in Seq({})
      OBVIOUS
    <3> QED BY <3>1, ListingOf
  <2> HIDE DEF ss
  <2> QED BY <2>1, <2>2, <2>3 DEF ToSet
<1>4. Listing(ss)
  <2>1. DOMAIN ss = 1..Len(rows) /\ Len(rows) \in Nat /\ ss = [k \in 1..Len(rows) |-> ss[k]]
    BY BatchShape
  <2> HIDE DEF ss
  <2> QED BY <2>1, BuiltListing
<1> HIDE DEF ss
<1>5. SequencesOf(ss)
  BY <1>2, <1>3, <1>4 DEF SequencesOf
<1>6. PICK o : Flattens(flat, o, ss, Len(ss))
  BY <1>5, FlattenPlaces
<1>7. Listing(flat) /\ DOMAIN o = DOMAIN flat
  BY <1>6, ListingOf DEF Flattens
<1>8. \A p \in DOMAIN flat : \E k \in DOMAIN rows : flat[p] \in ToSet(rows[k].intervals)
  <2> SUFFICES ASSUME NEW p \in DOMAIN flat PROVE \E k \in DOMAIN rows : flat[p] \in ToSet(rows[k].intervals)
    OBVIOUS
  <2>1. o[p] \in Places(ss) /\ flat[p] = ss[o[p][1]][o[p][2]]
    BY <1>6, <1>7 DEF Flattens
  <2>2. PICK k \in DOMAIN ss : \E m \in DOMAIN ss[k] : o[p] = <<k, m>>
    BY <2>1 DEF Places
  <2>3. PICK m \in DOMAIN ss[k] : o[p] = <<k, m>>
    BY <2>2
  <2>4. flat[p] = ss[k][m]
    BY <2>1, <2>3
  <2> QED BY <2>2, <2>3, <2>4, <1>2, <1>3
<1> HIDE DEF flat
<1> QED BY <1>1, <1>7, <1>8 DEF ToSet

\* The order authored rows are merged in is strict.
LEMMA MergeIsStrict ==
  ASSUME NEW rows, IsBatch(rows), \A n \in DOMAIN rows : rows[n].intervals[1].from \in Int
  PROVE  StrictOrder(DOMAIN rows, MergeOrder(rows))
<1> DEFINE D == DOMAIN rows
           R == MergeOrder(rows)
           v(n) == rows[n].label.version
           t(n) == rows[n].intervals[1].from
<1>1. \A n \in D : v(n) \in Int /\ t(n) \in Int /\ n \in Int
  BY BatchShape DEF IsDelivery
<1>2. ASSUME NEW m \in D, NEW n \in D
      PROVE  <<m, n>> \in R <=> \/ v(m) < v(n)
                                \/ v(m) = v(n) /\ t(m) < t(n)
                                \/ v(m) = v(n) /\ t(m) = t(n) /\ m < n
  <2> DEFINE key(x) == <<v(x), t(x), x>>
  <2>1. <<m, n>> \in R <=> \E k \in 1..3 : /\ \A j \in 1..(k - 1) : key(m)[j] = key(n)[j]
                                           /\ key(m)[k] < key(n)[k]
    BY DEF MergeOrder
  <2>2. \A x : key(x)[1] = v(x) /\ key(x)[2] = t(x) /\ key(x)[3] = x
    OBVIOUS
  <2> HIDE DEF key, v, t, R, D
  <2>3. (\E k \in 1..3 : (\A j \in 1..(k - 1) : key(m)[j] = key(n)[j]) /\ key(m)[k] < key(n)[k])
          <=> \/ key(m)[1] < key(n)[1]
              \/ key(m)[1] = key(n)[1] /\ key(m)[2] < key(n)[2]
              \/ key(m)[1] = key(n)[1] /\ key(m)[2] = key(n)[2] /\ key(m)[3] < key(n)[3]
    <3>1. \A k \in 1..3 : k = 1 \/ k = 2 \/ k = 3
      OBVIOUS
    <3>2. /\ \A j : j \in 1..(1 - 1) <=> FALSE
          /\ \A j : j \in 1..(2 - 1) <=> j = 1
          /\ \A j : j \in 1..(3 - 1) <=> j = 1 \/ j = 2
          /\ 1 \in 1..3 /\ 2 \in 1..3 /\ 3 \in 1..3
      OBVIOUS
    <3> QED BY <3>1, <3>2
  <2> QED BY <2>1, <2>2, <2>3
<1> HIDE DEF R, D, v, t
<1>3. StrictOrder(D, R)
  BY <1>1, <1>2 DEF StrictOrder
<1> QED BY <1>3 DEF D, R

\* What is authored again is deliveries.
LEMMA MergedBatch ==
  ASSUME NEW rows, IsBatch(rows), \A n \in DOMAIN rows : 1 \in DOMAIN rows[n].intervals
  PROVE  IsBatch(MergeAuthored(rows))
<1> DEFINE sorted == Arranged(rows, MergeOrder(rows))
           picked == [n \in DOMAIN sorted |-> n \in MergeStarts(sorted)]
           of == [n \in DOMAIN sorted |-> [sorted[n] EXCEPT !.intervals = MergedFrom(sorted, n)]]
           merged == MergeAuthored(rows)
<1>1. \A n \in DOMAIN rows : rows[n].intervals[1].from \in Int
  BY BatchShape DEF IsDelivery, ToSet, Instants
<1>2. Rearranges(sorted, rows)
  BY <1>1, MergeIsStrict, ArrangedRearranges DEF IsBatch
<1> HIDE DEF sorted
<1>3. IsBatch(sorted)
  BY <1>2 DEF Rearranges, IsBatch
<1>4. Len(sorted) \in Nat /\ DOMAIN sorted = 1..Len(sorted)
  BY <1>3, BatchShape
<1>5. merged = FlattenSeq([k \in 1..Len(sorted) |-> IF picked[k] THEN <<of[k]>> ELSE <<>>])
  <2>1. [k \in DOMAIN sorted |-> IF k \in MergeStarts(sorted)
                                   THEN <<[sorted[k] EXCEPT !.intervals = MergedFrom(sorted, k)]>> ELSE <<>>]
          = [k \in 1..Len(sorted) |-> IF picked[k] THEN <<of[k]>> ELSE <<>>]
    BY <1>4
  <2> QED BY <2>1 DEF MergeAuthored, sorted
<1> HIDE DEF picked, merged
<1>6. PICK o : Selects(merged, o, Len(sorted), picked, of)
  <2> HIDE DEF of
  <2> QED BY <1>4, <1>5, FlattenSelects
<1>7. ASSUME NEW k \in DOMAIN merged PROVE IsDelivery(merged[k])
  <2>1. o[k] \in DOMAIN sorted /\ merged[k] = of[o[k]]
    <3> HIDE DEF of
    <3> QED BY <1>4, <1>6 DEF Selects
  <2> DEFINE n == o[k]
             d == sorted[n]
             e == [d EXCEPT !.intervals = MergedFrom(sorted, n)]
  <2>2. merged[k] = e
    BY <2>1
  <2>3. IsDelivery(d)
    BY <2>1, <1>3, BatchShape
  <2>4. Listing(MergedFrom(sorted, n))
        /\ \A i \in ToSet(MergedFrom(sorted, n)) : \E l \in DOMAIN sorted : i \in ToSet(sorted[l].intervals)
    BY <1>3, MergedValues
  <2>5. \A i \in ToSet(MergedFrom(sorted, n)) :
          i.from \in Instants /\ i.value \in Int /\ i.obis \in Texts \cup {Null}
    BY <2>4, <1>3, BatchShape DEF IsDelivery
  <2> HIDE DEF d
  <2>6. /\ DOMAIN e = DOMAIN d /\ e.intervals = MergedFrom(sorted, n) /\ e.label = d.label /\ e.rec = d.rec
        /\ e.extra = d.extra /\ e.obis = d.obis /\ e.melo = d.melo
    BY <2>3 DEF IsDelivery
  <2> HIDE DEF e, n
  <2> QED BY <2>2, <2>3, <2>4, <2>5, <2>6 DEF IsDelivery
<1>8. Listing(merged)
  BY <1>6 DEF Selects
<1>9. IsBatch(merged)
  BY <1>7, <1>8 DEF IsBatch
<1> QED BY <1>9 DEF merged

\* What did not take effect is reports that did not.
LEMMA OutOfForceIs ==
  ASSUME NEW w, Listing(call[w].displaced)
  PROVE  /\ Listing(OutOfForce(w))
         /\ \A n \in DOMAIN OutOfForce(w) : \E k \in DOMAIN call[w].displaced :
              OutOfForce(w)[n] = call[w].displaced[k] /\ ~TookEffect(call[w].displaced[k])
<1> DEFINE s == call[w].displaced
           picked == [k \in DOMAIN s |-> ~TookEffect(s[k])]
           out == OutOfForce(w)
<1>1. Len(s) \in Nat /\ DOMAIN s = 1..Len(s)
  BY DEF Listing
<1>2. out = FlattenSeq([k \in 1..Len(s) |-> IF picked[k] THEN <<s[k]>> ELSE <<>>])
  <2>1. [k \in DOMAIN s |-> IF TookEffect(s[k]) THEN <<>> ELSE <<s[k]>>]
          = [k \in 1..Len(s) |-> IF picked[k] THEN <<s[k]>> ELSE <<>>]
    BY <1>1
  <2> QED BY <2>1 DEF OutOfForce
<1> HIDE DEF out
<1>3. PICK o : Selects(out, o, Len(s), picked, s)
  <2> HIDE DEF picked, s
  <2> QED BY <1>1, <1>2, FlattenSelects
<1>4. \A n \in DOMAIN out : \E k \in DOMAIN s : out[n] = s[k] /\ ~TookEffect(s[k])
  <2> SUFFICES ASSUME NEW n \in DOMAIN out PROVE \E k \in DOMAIN s : out[n] = s[k] /\ ~TookEffect(s[k])
    OBVIOUS
  <2>1. o[n] \in 1..Len(s) /\ picked[o[n]] /\ out[n] = s[o[n]]
    <3> HIDE DEF picked, s
    <3> QED BY <1>3 DEF Selects
  <2> QED BY <2>1, <1>1
<1> QED BY <1>3, <1>4 DEF Selects, out

-----------------------------------------------------------------------------
(* Encoded rows and reports.                                               *)

\* An encoded batch: one row for each value, which keeps what the value says.
LEMMA EncodedRows ==
  ASSUME NEW b, IsBatch(b), BuildAccepts(table), NEW rows \in Encode(table, b)
  PROVE  /\ Listing(rows) /\ Encode(table, b) = {rows} /\ (CHOOSE x \in Encode(table, b) : TRUE) = rows
         /\ \A n \in DOMAIN rows : IsRow(table, rows[n]) /\ \E place \in PlacesOf(b) : rows[n] = RowAt(table, b, place)
         /\ \A place \in PlacesOf(b) : \E n \in DOMAIN rows : rows[n] = RowAt(table, b, place)
         /\ \A place \in PlacesOf(b) :
              /\ EncodableAt(table, b, place) /\ Keeps(RowAt(table, b, place), GivenAt(b, place))
              /\ RowAt(table, b, place).from = Micros(GivenAt(b, place).from) /\ GivenAt(b, place).from \in Nat
<1>1. /\ \E o : Renders(rows, o, table, b)
      /\ \A place \in PlacesOf(b) : EncodableAt(table, b, place)
      /\ Encode(table, b) = {rows}
  BY EncodedPlaces
<1>2. PICK o : Renders(rows, o, table, b)
  BY <1>1
<1>3. (CHOOSE x \in Encode(table, b) : TRUE) = rows
  BY <1>1
<1>4. ASSUME NEW place \in PlacesOf(b)
      PROVE  /\ EncodableAt(table, b, place) /\ IsRow(table, RowAt(table, b, place))
             /\ Keeps(RowAt(table, b, place), GivenAt(b, place))
             /\ RowAt(table, b, place).from = Micros(GivenAt(b, place).from) /\ GivenAt(b, place).from \in Nat
  BY <1>1, RowFacts
<1>5. /\ Listing(rows) /\ DOMAIN o = DOMAIN rows
      /\ \A p \in DOMAIN o : o[p] \in PlacesOf(b) /\ rows[p] = RowAt(table, b, o[p])
      /\ \A place \in PlacesOf(b) : \E p \in DOMAIN o : o[p] = place
  BY <1>2 DEF Renders
<1> QED BY <1>1, <1>3, <1>4, <1>5

\* Finitely many rows are visible, and each is one of the table.
LEMMA VisibleFinite ==
  ASSUME StoreOk
  PROVE  IsFiniteSet(ColdRows) /\ IsFiniteSet(Visible) /\ \A r \in Visible : IsRow(table, r)
<1> DEFINE F == {ToSet(cold[f]) : f \in DOMAIN cold}
           g == [f \in DOMAIN cold |-> ToSet(cold[f])]
<1>1. Len(cold) \in Nat /\ DOMAIN cold = 1..Len(cold)
  BY DEF StoreOk, ColdFilesOk, Listing
<1>2. IsFiniteSet(DOMAIN cold)
  BY <1>1, FS_Interval
<1>3. IsFiniteSet(F)
  <2>1. F = {g[f] : f \in DOMAIN cold}
    OBVIOUS
  <2> HIDE DEF g
  <2> QED BY <2>1, <1>2, ImageFinite
<1>4. ASSUME NEW f \in DOMAIN cold PROVE IsFiniteSet(ToSet(cold[f]))
  <2>1. Len(cold[f]) \in Nat /\ DOMAIN cold[f] = 1..Len(cold[f])
    BY DEF StoreOk, ColdFilesOk, Listing
  <2>2. IsFiniteSet(DOMAIN cold[f])
    BY <2>1, FS_Interval
  <2>3. ToSet(cold[f]) = {cold[f][n] : n \in DOMAIN cold[f]}
    BY DEF ToSet
  <2>4. \A D, h : IsFiniteSet(D) => IsFiniteSet({h[n] : n \in D})
    BY ImageFinite
  <2> QED BY <2>2, <2>3, <2>4
<1>5. IsFiniteSet(ColdRows)
  BY <1>3, <1>4, FS_UNION DEF ColdRows
<1>6. IsFiniteSet({r \in ColdRows : r.from < boundary}) /\ IsFiniteSet({r \in hot : r.from >= boundary})
  BY <1>5, FS_Subset DEF StoreOk
<1>7. IsFiniteSet(Visible)
  BY <1>6, FS_Union DEF Visible
<1>8. \A r \in Visible : IsRow(table, r)
  BY ColdBelow DEF Visible, StoreOk
<1> QED BY <1>5, <1>7, <1>8

\* What a value superseded is one of those held before, if there were any.
LEMMA EffectOk ==
  ASSUME NEW held, IsFiniteSet(held), NEW written, NEW replayed, NEW key,
         \A v \in held : {"scope", "version"} \subseteq DOMAIN v.label /\ v.label.version \in Int,
         replayed => held # {}
  PROVE  ReportOk(Displacement(key, EffectOn(held, written, replayed), BestOrNull(held), written))
<1> DEFINE d == Displacement(key, EffectOn(held, written, replayed), BestOrNull(held), written)
<1>1. d.effect = EffectOn(held, written, replayed) /\ d.superseded = BestOrNull(held)
  BY DEF Displacement
<1> HIDE DEF d
<1>2. CASE held = {}
  <2>1. EffectOn(held, written, replayed) = "Inserted"
    BY <1>2 DEF EffectOn
  <2> QED BY <2>1, <1>1 DEF ReportOk, d
<1>3. CASE held # {}
  <2>1. d.superseded = BestValue(held) /\ BestValue(held) \in held
    BY <1>1, <1>3, BestIs DEF BestOrNull
  <2> QED BY <2>1 DEF ReportOk, d
<1> QED BY <1>2, <1>3

\* What a report compares.
LEMMA LabelOf ==
  ASSUME NEW r
  PROVE  /\ StoredValue(r).label = [scope |-> r.scope, version |-> r.version]
         /\ AssertedValue(r).label = [scope |-> r.scope, version |-> r.version]
         /\ StoredValue(r).value = FromScaled(r.value) /\ AssertedValue(r).value = r.value
BY DEF StoredValue, AssertedValue, Label

\* The hot report names what held each reading.
LEMMA HotReportOk ==
  ASSUME NEW prior, IsFiniteSet(prior), \A r \in prior : IsRow(table, r),
         NEW rows, Listing(rows), \A n \in DOMAIN rows : IsRow(table, rows[n])
  PROVE  /\ Listing(HotReport(prior, rows)) /\ DOMAIN HotReport(prior, rows) = DOMAIN rows
         /\ \A n \in DOMAIN rows : ReportOk(HotReport(prior, rows)[n])
<1>1. Len(rows) \in Nat /\ DOMAIN rows = 1..Len(rows) /\ IsFiniteSet(DOMAIN rows)
  BY FS_Interval DEF Listing
<1>2. ASSUME NEW n \in DOMAIN rows PROVE ReportOk(HotReport(prior, rows)[n])
  <2> DEFINE A == {p \in prior : KeyOf(table, p) = KeyOf(table, rows[n])}
             B == {k \in DOMAIN rows :
                     /\ KeyOf(table, rows[k]) = KeyOf(table, rows[n])
                     /\ rows[k].version < rows[n].version \/ (rows[k].version = rows[n].version /\ k < n)}
             held == HeldBefore(prior, rows, n)
             replayed == \E p \in prior : SameVersion(p, rows[n])
  <2>1. held = {StoredValue(r) : r \in A} \cup {StoredValue(rows[m]) : m \in B}
    BY DEF HeldBefore
  <2>2. IsFiniteSet(A) /\ IsFiniteSet(B)
    BY <1>1, FS_Subset
  <2>3. IsFiniteSet({StoredValue(r) : r \in A}) /\ IsFiniteSet({StoredValue(rows[m]) : m \in B})
    <3> DEFINE f == [r \in A |-> StoredValue(r)]
               g == [m \in B |-> StoredValue(rows[m])]
    <3>1. {StoredValue(r) : r \in A} = {f[r] : r \in A} /\ {StoredValue(rows[m]) : m \in B} = {g[m] : m \in B}
      OBVIOUS
    <3> HIDE DEF A, B, f, g
    <3>2. IsFiniteSet({f[r] : r \in A}) /\ IsFiniteSet({g[m] : m \in B})
      BY <2>2, ImageFinite
    <3> QED BY <3>1, <3>2
  <2>4. IsFiniteSet(held)
    BY <2>1, <2>3, FS_Union
  <2>5. \A v \in held : {"scope", "version"} \subseteq DOMAIN v.label /\ v.label.version \in Int
    <3> SUFFICES ASSUME NEW v \in held PROVE {"scope", "version"} \subseteq DOMAIN v.label /\ v.label.version \in Int
      OBVIOUS
    <3>1. CASE \E r \in A : v = StoredValue(r)
      <4>1. PICK r \in A : v = StoredValue(r)
        BY <3>1
      <4>2. r.version \in Int /\ v.label = [scope |-> r.scope, version |-> r.version]
        BY <4>1, LabelOf DEF IsRow
      <4> QED BY <4>2
    <3>2. CASE \E m \in B : v = StoredValue(rows[m])
      <4>1. PICK m \in B : v = StoredValue(rows[m])
        BY <3>2
      <4>2. rows[m].version \in Int /\ v.label = [scope |-> rows[m].scope, version |-> rows[m].version]
        BY <4>1, LabelOf DEF IsRow
      <4> QED BY <4>2
    <3> HIDE DEF A, B, held
    <3> QED BY <3>1, <3>2, <2>1
  <2>6. replayed => held # {}
    BY <2>1 DEF SameVersion, Again
  <2>7. HotReport(prior, rows)[n] = Displacement(KeyOf(table, rows[n]), EffectOn(held, StoredValue(rows[n]), replayed),
                                                 BestOrNull(held), StoredValue(rows[n]))
    BY DEF HotReport
  <2> HIDE DEF held, replayed
  <2> QED BY <2>4, <2>5, <2>6, <2>7, EffectOk
<1>3. DOMAIN HotReport(prior, rows) = 1..Len(rows)
      /\ HotReport(prior, rows) = [k \in 1..Len(rows) |-> HotReport(prior, rows)[k]]
  BY <1>1 DEF HotReport
<1>4. Listing(HotReport(prior, rows))
  BY <1>1, <1>3, BuiltListing
<1> QED BY <1>1, <1>2, <1>3, <1>4

\* So does the cold one.
LEMMA ColdReportOk ==
  ASSUME StoreOk, NEW incoming, Listing(incoming), \A n \in DOMAIN incoming : incoming[n].version \in Int
  PROVE  /\ Listing(ColdReport(Stored(incoming), incoming))
         /\ DOMAIN ColdReport(Stored(incoming), incoming) = DOMAIN incoming
         /\ \A n \in DOMAIN incoming : ReportOk(ColdReport(Stored(incoming), incoming)[n])
<1> DEFINE stored == Stored(incoming)
<1>1. Len(incoming) \in Nat /\ DOMAIN incoming = 1..Len(incoming)
  BY DEF Listing
<1>2. IsFiniteSet(stored) /\ \A r \in stored : IsRow(table, r)
  BY VisibleFinite, FS_Subset DEF Stored
<1> HIDE DEF stored
<1>3. ASSUME NEW n \in DOMAIN incoming PROVE ReportOk(ColdReport(stored, incoming)[n])
  <2> DEFINE A == StoredUnder(stored, KeyOf(table, incoming[n]))
             B == EarlierUnder(incoming, n)
             held == ColdHeldBefore(stored, incoming, n)
             replayed == ColdReplay(stored, incoming, n)
  <2>1. held = {StoredValue(r) : r \in A} \cup {AssertedValue(incoming[m]) : m \in B}
    BY DEF ColdHeldBefore
  <2>2. IsFiniteSet(A) /\ A \subseteq stored
    BY <1>2, FS_Subset DEF StoredUnder
  <2>3. IsFiniteSet(B) /\ B \subseteq DOMAIN incoming
    <3>4. n - 1 \in Int /\ 1 \in Int /\ 1..(n - 1) \subseteq DOMAIN incoming
      BY <1>1
    <3>1. IsFiniteSet(1..(n - 1))
      BY <3>4, FS_Interval
    <3>2. B \subseteq 1..(n - 1)
      BY DEF EarlierUnder
    <3> QED BY <3>1, <3>2, <3>4, FS_Subset
  <2>4. IsFiniteSet(held)
    <3>1. IsFiniteSet({StoredValue(r) : r \in A}) /\ IsFiniteSet({AssertedValue(incoming[m]) : m \in B})
      <4> DEFINE f == [r \in A |-> StoredValue(r)]
                 g == [m \in B |-> AssertedValue(incoming[m])]
      <4>1. {StoredValue(r) : r \in A} = {f[r] : r \in A} /\ {AssertedValue(incoming[m]) : m \in B} = {g[m] : m \in B}
        OBVIOUS
      <4> HIDE DEF A, B, f, g
      <4>2. IsFiniteSet({f[r] : r \in A}) /\ IsFiniteSet({g[m] : m \in B})
        BY <2>2, <2>3, ImageFinite
      <4> QED BY <4>1, <4>2
    <3> QED BY <2>1, <3>1, FS_Union
  <2>5. \A v \in held : {"scope", "version"} \subseteq DOMAIN v.label /\ v.label.version \in Int
    <3> SUFFICES ASSUME NEW v \in held PROVE {"scope", "version"} \subseteq DOMAIN v.label /\ v.label.version \in Int
      OBVIOUS
    <3>1. CASE \E r \in A : v = StoredValue(r)
      <4>1. PICK r \in A : v = StoredValue(r)
        BY <3>1
      <4>2. r.version \in Int /\ v.label = [scope |-> r.scope, version |-> r.version]
        BY <4>1, <2>2, <1>2, LabelOf DEF IsRow
      <4> QED BY <4>2
    <3>2. CASE \E m \in B : v = AssertedValue(incoming[m])
      <4>1. PICK m \in B : v = AssertedValue(incoming[m])
        BY <3>2
      <4>2. incoming[m].version \in Int /\ v.label = [scope |-> incoming[m].scope, version |-> incoming[m].version]
        BY <4>1, <2>3, LabelOf
      <4> QED BY <4>2
    <3> HIDE DEF A, B, held
    <3> QED BY <3>1, <3>2, <2>1
  <2>6. replayed => held # {}
    BY DEF ColdReplay, SaidBefore
  <2>7. ColdReport(stored, incoming)[n] =
          Displacement(KeyOf(table, incoming[n]), EffectOn(held, AssertedValue(incoming[n]), replayed),
                       BestOrNull(held), AssertedValue(incoming[n]))
    BY DEF ColdReport
  <2> HIDE DEF held, replayed
  <2> QED BY <2>4, <2>5, <2>6, <2>7, EffectOk
<1>4. DOMAIN ColdReport(stored, incoming) = 1..Len(incoming)
      /\ ColdReport(stored, incoming) = [k \in 1..Len(incoming) |-> ColdReport(stored, incoming)[k]]
  BY <1>1 DEF ColdReport
<1>5. Listing(ColdReport(stored, incoming))
  BY <1>1, <1>4, BuiltListing
<1> QED BY <1>1, <1>3, <1>4, <1>5 DEF stored

-----------------------------------------------------------------------------
(* Calls: what their steps leave of them, one by one.                      *)

\* The fields of a call under way, and the steps at which it is routed.
CallFields ==
  {"pc", "authored", "batch", "pending", "base", "routings", "rounds", "prior", "displaced", "raced"}

Routed == {"select", "insert", "cold", "recheck"}

\* The inductive invariant of a call: what it was asked and what it still has to write are
\* deliveries, what it was reported names what held each reading, and it was routed at a
\* boundary that was one.
CallShape(c, tbl, at) ==
  /\ c.pc \in Finished \cup {"route"} \cup Routed
  /\ c.pc # "idle" => IsBatch(c.batch)
  /\ c.pc \notin Finished =>
       /\ CallFields = DOMAIN c
       /\ IsBatch(c.pending) /\ (~c.authored => c.pending = c.batch)
       /\ Listing(c.displaced) /\ \A n \in DOMAIN c.displaced : ReportOk(c.displaced[n])
       /\ IsFiniteSet(c.prior) /\ \A r \in c.prior : IsRow(tbl, r)
  /\ c.pc \in Routed => c.base \in Nat /\ c.base <= at
  /\ c.pc \in {"select", "insert"} => Encode(tbl, HotPart(c.pending, c.base)) # {}

\* Every call is one.
CallsOk ==
  writes \in Nat /\ DOMAIN call = Writers /\ \A w \in Writers : CallShape(call[w], table, boundary)

\* What another's step leaves of a call.
Undisturbed(v) ==
  \/ call'[v] = call[v]
  \/ call[v].pc \notin Finished /\ \E x : call'[v] = [call[v] EXCEPT !.raced = x]

\* Such a step leaves what the call goes by.
LEMMA UndisturbedFields ==
  ASSUME NEW v, NEW tbl, NEW at, CallShape(call[v], tbl, at), Undisturbed(v)
  PROVE  /\ call'[v].pc = call[v].pc /\ DOMAIN call'[v] = DOMAIN call[v]
         /\ call[v].pc \notin Finished =>
              /\ call'[v].authored = call[v].authored /\ call'[v].batch = call[v].batch
              /\ call'[v].pending = call[v].pending /\ call'[v].base = call[v].base
              /\ call'[v].prior = call[v].prior /\ call'[v].displaced = call[v].displaced
              /\ call'[v].rounds = call[v].rounds /\ call'[v].routings = call[v].routings
         /\ call[v].pc \in Finished => call'[v] = call[v]
<1>1. CASE call'[v] = call[v]
  BY <1>1
<1>2. CASE call[v].pc \notin Finished /\ \E x : call'[v] = [call[v] EXCEPT !.raced = x]
  <2>1. DOMAIN call[v] = CallFields
    BY <1>2 DEF CallShape
  <2> QED BY <1>2, <2>1 DEF CallFields
<1> QED BY <1>1, <1>2 DEF Undisturbed

\* So the call stays one, at a later boundary too.
LEMMA UndisturbedShape ==
  ASSUME NEW v, NEW tbl, NEW at \in Nat, NEW later \in Nat, at <= later,
         CallShape(call[v], tbl, at), Undisturbed(v)
  PROVE  CallShape(call'[v], tbl, later)
<1>1. CASE call[v].pc \in Finished
  <2>1. call'[v] = call[v] /\ call[v].pc \notin Routed
    BY <1>1, UndisturbedFields DEF Finished, Routed
  <2> QED BY <1>1, <2>1 DEF CallShape, Routed
<1>2. CASE call[v].pc \notin Finished
  <2>1. /\ call'[v].pc = call[v].pc /\ DOMAIN call'[v] = DOMAIN call[v]
        /\ call'[v].authored = call[v].authored /\ call'[v].batch = call[v].batch
        /\ call'[v].pending = call[v].pending /\ call'[v].base = call[v].base
        /\ call'[v].prior = call[v].prior /\ call'[v].displaced = call[v].displaced
    BY <1>2, UndisturbedFields
  <2>2. call[v].pc \in Routed => call[v].base \in Nat /\ call[v].base <= later
    BY DEF CallShape
  <2> QED BY <1>2, <2>1, <2>2 DEF CallShape
<1> QED BY <1>1, <1>2

\* A step that leaves the store alone.
StoreSame == scene' = scene /\ hot' = hot /\ detached' = detached /\ cold' = cold /\ boundary' = boundary

\* Such a step keeps its invariant.
LEMMA SameStore ==
  ASSUME StoreOk, StoreSame
  PROVE  StoreOk' /\ Visible' = Visible /\ table' = table
BY DEF StoreOk, StoreSame, ColdFilesOk, Listing, Visible, ColdRows, table

\* A batch some scene writes.
LEMMA SceneBatch ==
  ASSUME scene \in Scenes, NEW k \in 1..Len(scene.writes)
  PROVE  IsBatch(scene.writes[k].batch) /\ BuildAccepts(table)
<1>1. IsScene(scene)
  BY WritesAssumption
<1>2. Listing(scene.writes) /\ \A c \in ToSet(scene.writes) : Listing(c.batch) /\ \A d \in ToSet(c.batch) : IsDelivery(d)
  BY <1>1 DEF IsScene
<1>3. k \in DOMAIN scene.writes
  BY <1>2 DEF Listing
<1>4. scene.writes[k] \in ToSet(scene.writes)
  BY <1>3 DEF ToSet
<1>5. IsBatch(scene.writes[k].batch)
  BY <1>2, <1>4 DEF IsBatch, ToSet
<1> QED BY <1>1, <1>5 DEF IsScene, table

\* The table of a scene is one that could be built.
LEMMA TableBuilt == ASSUME scene \in Scenes PROVE BuildAccepts(table)
BY WritesAssumption DEF IsScene, table

-----------------------------------------------------------------------------

\* What a step of a call changes: its own call, and of the others what raced it.
Steps(w) ==
  /\ DOMAIN call' = Writers /\ scene' = scene /\ boundary' = boundary
  /\ \A v \in Writers \ {w} : Undisturbed(v)

\* Only its own record changes.
LEMMA OwnStep ==
  ASSUME CallsOk, NEW w \in Writers, NEW new, call' = [call EXCEPT ![w] = new],
         scene' = scene, boundary' = boundary
  PROVE  Steps(w) /\ call'[w] = new
<1>1. DOMAIN call = Writers
  BY DEF CallsOk
<1>2. DOMAIN call' = Writers /\ call'[w] = new /\ \A v \in Writers \ {w} : call'[v] = call[v]
  BY <1>1
<1> QED BY <1>2 DEF Steps, Undisturbed

\* Its own record changes, and the others are told what was stored.
LEMMA RacingStep ==
  ASSUME CallsOk, NEW w \in Writers, NEW keys, NEW new, call' = [Race(w, keys) EXCEPT ![w] = new],
         scene' = scene, boundary' = boundary
  PROVE  Steps(w) /\ call'[w] = new
<1> DEFINE R == Race(w, keys)
<1>1. DOMAIN R = Writers
  BY DEF Race
<1>2. \A v \in Writers \ {w} : R[v] = call[v] \/ (call[v].pc \notin Finished /\ \E x : R[v] = [call[v] EXCEPT !.raced = x])
  BY DEF Race
<1> HIDE DEF R
<1>3. call' = [R EXCEPT ![w] = new]
  BY DEF R
<1>4. DOMAIN call' = Writers /\ call'[w] = new /\ \A v \in Writers \ {w} : call'[v] = R[v]
  BY <1>1, <1>3
<1>5. ASSUME NEW v \in Writers \ {w} PROVE Undisturbed(v)
  <2>1. CASE R[v] = call[v]
    BY <2>1, <1>4 DEF Undisturbed
  <2>2. CASE call[v].pc \notin Finished /\ \E x : R[v] = [call[v] EXCEPT !.raced = x]
    <3>1. PICK x : R[v] = [call[v] EXCEPT !.raced = x]
      BY <2>2
    <3>2. call'[v] = [call[v] EXCEPT !.raced = x]
      BY <3>1, <1>4
    <3> QED BY <3>2, <2>2 DEF Undisturbed
  <2> QED BY <2>1, <2>2, <1>2
<1> QED BY <1>4, <1>5 DEF Steps

\* What is stored races the others, not the call that stores it.
LEMMA RaceOwn == ASSUME NEW w \in Writers, NEW keys PROVE Race(w, keys)[w] = call[w]
BY DEF Race

\* An ended call is one.
LEMMA EndShape ==
  ASSUME NEW w, NEW tbl, NEW at, CallShape(call[w], tbl, at), call[w].pc # "idle",
         NEW result \in {"ok", "refused"}
  PROVE  /\ CallShape(End(w, result), tbl, at) /\ End(w, result).pc = result
         /\ End(w, result).batch = call[w].batch /\ End(w, result).authored = call[w].authored
BY DEF End, CallShape, Finished, Routed

\* A call begins with deliveries of its scene, routed or refused.
LEMMA BeginShape ==
  ASSUME StoreOk, CallsOk, NEW w \in Writers, Begin(w)
  PROVE  StoreSame /\ Steps(w) /\ CallShape(call'[w], table, boundary) /\ call'[w].pc \in {"route", "refused"} /\ writes' \in Nat
<1> DEFINE c == scene.writes[writes + 1]
           new == [pc |-> IF Admitted(c) THEN "route" ELSE "refused", authored |-> c.authored,
                   batch |-> c.batch, pending |-> c.batch, base |-> 0, routings |-> 1, rounds |-> 1,
                   prior |-> {}, displaced |-> <<>>, raced |-> {}]
<1>1. call' = [call EXCEPT ![w] = new] /\ StoreSame /\ writes' = writes + 1 /\ writes < Len(scene.writes)
  BY DEF Begin, StoreSame
<1>2. scene \in Scenes /\ writes \in Nat
  BY DEF StoreOk, CallsOk
<1>3. Len(scene.writes) \in Nat
  BY <1>2, WritesAssumption DEF IsScene, Listing
<1>4. writes + 1 \in 1..Len(scene.writes) /\ writes' \in Nat
  BY <1>1, <1>2, <1>3
<1>5. IsBatch(c.batch)
  BY <1>2, <1>4, SceneBatch
<1>6. /\ new.pc \in {"route", "refused"} /\ DOMAIN new = CallFields /\ new.batch = c.batch /\ new.pending = c.batch
      /\ new.displaced = <<>> /\ new.prior = {}
  BY DEF CallFields
<1> HIDE DEF new, c
<1>7. IsFiniteSet({}) /\ Listing(<<>>) /\ DOMAIN <<>> = {}
  <2>1. <<>> \in Seq({}) /\ DOMAIN <<>> = {}
    OBVIOUS
  <2> QED BY <2>1, ListingOf, FS_EmptySet
<1>8. CallShape(new, table, boundary)
  BY <1>5, <1>6, <1>7 DEF CallShape, Finished, Routed
<1>9. Steps(w) /\ call'[w] = new
  BY <1>1, OwnStep DEF StoreSame
<1> QED BY <1>1, <1>4, <1>6, <1>8, <1>9

\* A part of a batch is one.
LEMMA PartBatch ==
  ASSUME NEW b, IsBatch(b), NEW at, NEW keys
  PROVE  IsBatch(HotPart(b, at)) /\ IsBatch(ColdPart(b, at)) /\ IsBatch(Retained(b, keys))
BY PartPlaces DEF Narrows

\* Routing reads the boundary, and goes to the first part there is.
LEMMA RouteShape ==
  ASSUME StoreOk, CallsOk, NEW w \in Writers, Route(w)
  PROVE  /\ StoreSame /\ Steps(w) /\ CallShape(call'[w], table, boundary) /\ writes' \in Nat
         /\ call'[w].batch = call[w].batch /\ call'[w].authored = call[w].authored
         /\ \/ call'[w].pc = "refused"
            \/ /\ call'[w].pc = FirstPart(w) /\ FirstPart(w) \in {"select", "cold", "recheck"}
               /\ call'[w].base = boundary /\ call'[w].pending = call[w].pending
<1> DEFINE c == call[w]
           new == [c EXCEPT !.pc = FirstPart(w), !.base = boundary]
<1>1. CallShape(c, table, boundary) /\ boundary \in Nat /\ writes \in Nat
  BY DEF CallsOk, StoreOk
<1>2. c.pc = "route" /\ StoreSame /\ writes' = writes
  BY DEF Route, StoreSame
<1>3. FirstPart(w) \in {"select", "cold", "recheck"}
  BY DEF FirstPart, ThenCold
<1>4. CASE Encode(table, HotPart(call[w].pending, boundary)) = {}
  <2>1. call' = [call EXCEPT ![w] = End(w, "refused")]
    BY <1>4 DEF Route
  <2>2. Steps(w) /\ call'[w] = End(w, "refused")
    BY <2>1, <1>2, OwnStep DEF StoreSame
  <2> QED BY <2>2, <1>1, <1>2, EndShape
<1>5. CASE Encode(table, HotPart(call[w].pending, boundary)) # {}
  <2>1. call' = [call EXCEPT ![w] = new]
    BY <1>5, <1>1 DEF Route, CallsOk
  <2>2. Steps(w) /\ call'[w] = new
    <3> HIDE DEF new
    <3> QED BY <2>1, <1>2, OwnStep DEF StoreSame
  <2>3. DOMAIN c = CallFields
    BY <1>1, <1>2 DEF CallShape, Finished
  <2>4. /\ new.pc = FirstPart(w) /\ new.base = boundary /\ new.authored = c.authored /\ new.batch = c.batch
        /\ new.pending = c.pending /\ new.prior = c.prior /\ new.displaced = c.displaced /\ DOMAIN new = CallFields
    BY <2>3 DEF CallFields
  <2> HIDE DEF new
  <2>5. CallShape(new, table, boundary)
    BY <1>1, <1>2, <1>3, <1>5, <2>4 DEF CallShape, Finished, Routed
  <2> QED BY <1>1, <1>2, <1>3, <2>2, <2>4, <2>5
<1> QED BY <1>4, <1>5

\* Reading what is stored already leaves what the call is to write.
LEMMA SelectShape ==
  ASSUME StoreOk, CallsOk, NEW w \in Writers, SelectPrior(w)
  PROVE  /\ StoreSame /\ Steps(w) /\ CallShape(call'[w], table, boundary) /\ writes' \in Nat
         /\ call'[w].pc \in {"insert", "refused"}
         /\ call'[w].batch = call[w].batch /\ call'[w].authored = call[w].authored
<1> DEFINE c == call[w]
           prior == PriorFor(Attached, HotRows(w))
           new == [c EXCEPT !.pc = "insert", !.prior = prior, !.raced = c.raced \ KeysOf(HotRows(w))]
<1>1. CallShape(c, table, boundary) /\ boundary \in Nat /\ writes \in Nat
  BY DEF CallsOk, StoreOk
<1>2. c.pc = "select" /\ StoreSame /\ writes' = writes
  BY DEF SelectPrior, StoreSame
<1>3. IsFiniteSet(prior) /\ \A r \in prior : IsRow(table, r)
  <2>1. prior \subseteq hot
    BY DEF PriorFor, Attached
  <2> HIDE DEF prior
  <2> QED BY <2>1, FS_Subset DEF StoreOk
<1>4. CASE ~StoredInOneScope(prior)
  <2>1. call' = [call EXCEPT ![w] = End(w, "refused")]
    BY <1>4 DEF SelectPrior
  <2>2. Steps(w) /\ call'[w] = End(w, "refused")
    BY <2>1, <1>2, OwnStep DEF StoreSame
  <2> QED BY <2>2, <1>1, <1>2, EndShape
<1>5. CASE StoredInOneScope(prior)
  <2>1. call' = [call EXCEPT ![w] = new]
    <3>1. call' = [call EXCEPT ![w] = IF StoredInOneScope(prior) THEN new ELSE End(w, "refused")]
      BY DEF SelectPrior
    <3> HIDE DEF new
    <3> QED BY <3>1, <1>5
  <2>2. Steps(w) /\ call'[w] = new
    <3> HIDE DEF new
    <3> QED BY <2>1, <1>2, OwnStep DEF StoreSame
  <2>3. DOMAIN c = CallFields
    BY <1>1, <1>2 DEF CallShape, Finished
  <2> HIDE DEF prior
  <2>4. /\ new.pc = "insert" /\ new.base = c.base /\ new.authored = c.authored /\ new.batch = c.batch
        /\ new.pending = c.pending /\ new.prior = prior /\ new.displaced = c.displaced /\ DOMAIN new = CallFields
    BY <2>3 DEF CallFields
  <2> HIDE DEF new
  <2>5. CallShape(new, table, boundary)
    BY <1>1, <1>2, <1>3, <2>4 DEF CallShape, Finished, Routed
  <2> QED BY <1>1, <1>2, <2>2, <2>4, <2>5
<1> QED BY <1>4, <1>5

\* A refused part leaves the store alone.
LEMMA RefusedShape ==
  ASSUME StoreOk, CallsOk, NEW w \in Writers, InsertRefused(w) \/ AppendColdRefused(w)
  PROVE  StoreSame /\ Steps(w) /\ CallShape(call'[w], table, boundary) /\ writes' \in Nat /\ call'[w].pc = "refused"
<1>1. CallShape(call[w], table, boundary) /\ writes \in Nat
  BY DEF CallsOk
<1>2. /\ call[w].pc \in {"insert", "cold"} /\ StoreSame /\ writes' = writes
      /\ call' = [call EXCEPT ![w] = End(w, "refused")]
  BY DEF InsertRefused, AppendColdRefused, StoreSame
<1>3. Steps(w) /\ call'[w] = End(w, "refused")
  BY <1>2, OwnStep DEF StoreSame
<1> QED BY <1>1, <1>2, <1>3, EndShape

\* Routing again leaves the store alone.
LEMMA RerouteShape ==
  ASSUME StoreOk, CallsOk, NEW w \in Writers, Reroute(w)
  PROVE  StoreSame /\ Steps(w) /\ CallShape(call'[w], table, boundary) /\ writes' \in Nat /\ call'[w].pc \in {"route", "refused"}
<1> DEFINE c == call[w]
           new == [c EXCEPT !.pc = "route", !.routings = c.routings + 1]
<1>1. CallShape(c, table, boundary) /\ writes \in Nat
  BY DEF CallsOk
<1>2. c.pc = "recheck" /\ StoreSame /\ writes' = writes
  BY DEF Reroute, StoreSame
<1>4. CASE ~(c.routings < BoundaryAttempts)
  <2>1. call' = [call EXCEPT ![w] = End(w, "refused")]
    BY <1>4 DEF Reroute
  <2>2. Steps(w) /\ call'[w] = End(w, "refused")
    BY <2>1, <1>2, OwnStep DEF StoreSame
  <2> QED BY <2>2, <1>1, <1>2, EndShape
<1>5. CASE c.routings < BoundaryAttempts
  <2>1. call' = [call EXCEPT ![w] = new]
    <3>1. call' = [call EXCEPT ![w] = IF c.routings < BoundaryAttempts THEN new ELSE End(w, "refused")]
      BY DEF Reroute
    <3> HIDE DEF new
    <3> QED BY <3>1, <1>5
  <2>2. Steps(w) /\ call'[w] = new
    <3> HIDE DEF new
    <3> QED BY <2>1, <1>2, OwnStep DEF StoreSame
  <2>3. DOMAIN c = CallFields
    BY <1>1, <1>2 DEF CallShape, Finished
  <2>4. /\ new.pc = "route" /\ new.authored = c.authored /\ new.batch = c.batch
        /\ new.pending = c.pending /\ new.prior = c.prior /\ new.displaced = c.displaced /\ DOMAIN new = CallFields
    BY <2>3 DEF CallFields
  <2> HIDE DEF new
  <2>5. CallShape(new, table, boundary)
    BY <1>1, <1>2, <2>4 DEF CallShape, Finished, Routed
  <2> QED BY <1>1, <1>2, <2>2, <2>4, <2>5
<1> QED BY <1>4, <1>5

\* A call is done at the boundary it was routed at.
LEMMA FinishShape ==
  ASSUME StoreOk, CallsOk, NEW w \in Writers, Finish(w)
  PROVE  /\ StoreSame /\ Steps(w) /\ CallShape(call'[w], table, boundary) /\ writes' \in Nat /\ call'[w].pc = "ok"
         /\ call'[w].batch = call[w].batch /\ call'[w].authored = call[w].authored
         /\ call[w].pc = "recheck" /\ ~BoundaryMovedUnder(w)
<1>1. CallShape(call[w], table, boundary) /\ writes \in Nat
  BY DEF CallsOk
<1>2. /\ call[w].pc = "recheck" /\ StoreSame /\ writes' = writes /\ ~BoundaryMovedUnder(w)
      /\ call' = [call EXCEPT ![w] = End(w, "ok")]
  BY DEF Finish, StoreSame
<1>3. Steps(w) /\ call'[w] = End(w, "ok")
  BY <1>2, OwnStep DEF StoreSame
<1> QED BY <1>1, <1>2, <1>3, EndShape

\* A round of authoring again writes deliveries.
LEMMA AuthorShape ==
  ASSUME StoreOk, CallsOk, NEW w \in Writers, AuthorAgain(w)
  PROVE  /\ StoreSame /\ Steps(w) /\ CallShape(call'[w], table, boundary) /\ writes' \in Nat
         /\ call'[w].pc \in {"route", "refused"}
<1> DEFINE c == call[w]
           shadowed == OutOfForce(w)
           again == [n \in DOMAIN shadowed |-> Reauthored(c.pending, shadowed[n])]
           new == [c EXCEPT !.pc = "route", !.routings = 1, !.rounds = c.rounds + 1, !.displaced = <<>>,
                            !.pending = MergeAuthored(again)]
           mayAgain == c.rounds < AuthoritativeAttempts /\ \A n \in DOMAIN shadowed : Located(c.pending, shadowed[n]) # {}
<1>1. CallShape(c, table, boundary) /\ writes \in Nat
  BY DEF CallsOk
<1>2. c.pc = "recheck" /\ StoreSame /\ writes' = writes /\ c.authored
  BY DEF AuthorAgain, StoreSame
<1>4. CASE ~mayAgain
  <2>1. call' = [call EXCEPT ![w] = End(w, "refused")]
    BY <1>4 DEF AuthorAgain
  <2>2. Steps(w) /\ call'[w] = End(w, "refused")
    BY <2>1, <1>2, OwnStep DEF StoreSame
  <2> QED BY <2>2, <1>1, <1>2, EndShape
<1>5. CASE mayAgain
  <2>1. call' = [call EXCEPT ![w] = new]
    <3>1. call' = [call EXCEPT ![w] = IF mayAgain THEN new ELSE End(w, "refused")]
      BY DEF AuthorAgain
    <3> HIDE DEF new, mayAgain
    <3> QED BY <3>1, <1>5
  <2>2. Steps(w) /\ call'[w] = new
    <3> HIDE DEF new
    <3> QED BY <2>1, <1>2, OwnStep DEF StoreSame
  <2>3. DOMAIN c = CallFields /\ IsBatch(c.pending) /\ Listing(c.displaced)
        /\ \A n \in DOMAIN c.displaced : ReportOk(c.displaced[n])
    BY <1>1, <1>2 DEF CallShape, Finished
  <2>4. Listing(shadowed) /\ \A n \in DOMAIN shadowed : ReportOk(shadowed[n]) /\ ~TookEffect(shadowed[n])
    <3>1. Listing(shadowed) /\ \A n \in DOMAIN shadowed : \E k \in DOMAIN c.displaced :
            shadowed[n] = c.displaced[k] /\ ~TookEffect(c.displaced[k])
      BY <2>3, OutOfForceIs
    <3> HIDE DEF shadowed, c
    <3> QED BY <2>3, <3>1
  <2>5. \A n \in DOMAIN shadowed : shadowed[n].effect # "Inserted"
    BY <2>4 DEF TookEffect, ChangedCurrentValue
  <2>6. \A n \in DOMAIN shadowed : Located(c.pending, shadowed[n]) # {}
    BY <1>5
  <2> HIDE DEF shadowed
  <2>7. \A n \in DOMAIN shadowed : IsDelivery(again[n]) /\ 1 \in DOMAIN again[n].intervals
    BY <2>3, <2>4, <2>5, <2>6, ReauthoredDelivery
  <2>8. IsBatch(again) /\ \A n \in DOMAIN again : 1 \in DOMAIN again[n].intervals
    <3>1. Len(shadowed) \in Nat /\ DOMAIN again = 1..Len(shadowed) /\ again = [k \in 1..Len(shadowed) |-> again[k]]
          /\ DOMAIN again = DOMAIN shadowed
      BY <2>4 DEF Listing
    <3> HIDE DEF again
    <3>2. Listing(again)
      BY <3>1, BuiltListing
    <3> QED BY <2>7, <3>1, <3>2 DEF IsBatch
  <2> HIDE DEF again
  <2>9. IsBatch(MergeAuthored(again))
    BY <2>8, MergedBatch
  <2>10. /\ new.pc = "route" /\ new.authored = c.authored /\ new.batch = c.batch
         /\ new.pending = MergeAuthored(again) /\ new.prior = c.prior /\ new.displaced = <<>> /\ DOMAIN new = CallFields
    BY <2>3 DEF CallFields
  <2> HIDE DEF new
  <2>11. Listing(<<>>) /\ DOMAIN <<>> = {}
    <3>1. <<>> \in Seq({}) /\ DOMAIN <<>> = {}
      OBVIOUS
    <3> QED BY <3>1, ListingOf
  <2>12. CallShape(new, table, boundary)
    BY <1>1, <1>2, <2>9, <2>10, <2>11 DEF CallShape, Finished, Routed
  <2> QED BY <1>1, <1>2, <2>2, <2>10, <2>12
<1> QED BY <1>4, <1>5

-----------------------------------------------------------------------------
(* The insert into the hot tier.                                           *)

\* What is stored where a value is looked for.
Has(g) == \E r \in Visible : Keeps(r, g)

\* Equality of the primary key is an equivalence.
LEMMA SameVersionIs ==
  ASSUME NEW r, NEW s, NEW t
  PROVE  /\ SameVersion(r, r) /\ (SameVersion(r, s) => SameVersion(s, r) /\ r.from = s.from)
         /\ (SameVersion(r, s) /\ SameVersion(s, t) => SameVersion(r, t))
BY SameKey DEF SameVersion, Again

\* Each row of an insert is stored afterwards under its version, by itself or by another.
LEMMA InsertedVersion ==
  ASSUME NEW rows, Listing(rows), NEW n \in DOMAIN rows
  PROVE  \E r \in Attached \cup FreshRows(rows) : SameVersion(r, rows[n])
<1>1. DOMAIN rows = 1..Len(rows) /\ Len(rows) \in Nat
  BY DEF Listing
<1> DEFINE T == {m \in DOMAIN rows : SameVersion(rows[m], rows[n])}
<1>2. n \in T /\ T \subseteq Nat
  BY <1>1, SameVersionIs
<1>3. PICK k \in T : \A m \in T : k <= m
  BY <1>2, LeastNatural
<1>4. CASE ~Skipped(rows, k)
  BY <1>3, <1>4 DEF FreshRows
<1>5. CASE \E r \in Attached : SameVersion(r, rows[k])
  BY <1>3, <1>5, SameVersionIs
<1>6. CASE \E m \in 1..(k - 1) : SameVersion(rows[m], rows[k])
  <2>1. PICK m \in 1..(k - 1) : SameVersion(rows[m], rows[k])
    BY <1>6
  <2>2. m \in DOMAIN rows /\ m < k
    BY <1>1, <1>3
  <2>3. m \in T
    BY <2>1, <2>2, <1>3, SameVersionIs
  <2> QED BY <2>2, <2>3, <1>1, <1>3
<1> QED BY <1>4, <1>5, <1>6 DEF Skipped

\* A value at or above the boundary is stored at or above it.
LEMMA AboveBoundary ==
  ASSUME StoreOk, NEW t \in Nat
  PROVE  Micros(t) >= boundary <=> t >= boundary
<1>1. boundary \in Nat /\ boundary % 2 = 0
  BY Grid DEF StoreOk
<1>2. /\ Micros(t) \in Nat /\ Micros(t) <= t /\ t <= Micros(t) + 1 /\ Micros(t) % 2 = 0
  BY OnGrid
<1>3. \A x, y \in Nat : x % 2 = 0 /\ y % 2 = 0 => x # y + 1
  OBVIOUS
<1> QED BY <1>1, <1>2, <1>3

\* The rows of an insert are those of the hot part.
LEMMA HotRowsAre ==
  ASSUME StoreOk, CallsOk, NEW w \in Writers, call[w].pc \in {"select", "insert"}
  PROVE  /\ IsBatch(call[w].pending) /\ IsBatch(HotPart(call[w].pending, call[w].base))
         /\ HotRows(w) \in Encode(table, HotPart(call[w].pending, call[w].base))
         /\ Listing(HotRows(w)) /\ \A n \in DOMAIN HotRows(w) : IsRow(table, HotRows(w)[n])
<1>1. CallShape(call[w], table, boundary) /\ BuildAccepts(table)
  BY TableBuilt DEF CallsOk, StoreOk
<1>2. IsBatch(call[w].pending) /\ Encode(table, HotPart(call[w].pending, call[w].base)) # {}
  BY <1>1 DEF CallShape, Finished
<1>3. IsBatch(HotPart(call[w].pending, call[w].base))
  BY <1>2, PartBatch
<1>4. HotRows(w) \in Encode(table, HotPart(call[w].pending, call[w].base))
  BY <1>2 DEF HotRows
<1> QED BY <1>1, <1>2, <1>3, <1>4, EncodedRows

\* A batch's value on the hot side is a row of the insert.
LEMMA HotPlace ==
  ASSUME StoreOk, CallsOk, NEW w \in Writers, call[w].pc \in {"select", "insert"},
         NEW place \in PlacesOf(call[w].pending), GivenAt(call[w].pending, place).from >= call[w].base
  PROVE  \E n \in DOMAIN HotRows(w) :
           /\ Keeps(HotRows(w)[n], GivenAt(call[w].pending, place))
           /\ HotRows(w)[n].from = Micros(GivenAt(call[w].pending, place).from)
           /\ GivenAt(call[w].pending, place).from \in Nat
<1> DEFINE b == call[w].pending
           at == call[w].base
           part == HotPart(b, at)
           rows == HotRows(w)
           g == GivenAt(b, place)
<1>1. BuildAccepts(table) /\ IsBatch(b) /\ IsBatch(part) /\ rows \in Encode(table, part)
  BY HotRowsAre, TableBuilt DEF StoreOk
<1>2. PICK u : Narrows(part, u, b, HotKeep(b, at))
  BY <1>1, PartPlaces
<1>3. HotKeep(b, at)[place[1]][place[2]]
  <2>1. g.from = ValueAt(b, place).from
    BY GivenFields DEF GivenAt
  <2> QED BY <2>1, KeepAt
<1> HIDE DEF part, rows
<1>4. PICK p \in PlacesOf(part) : u[p] = place
  BY <1>2, <1>3 DEF Narrows
<1>5. GivenAt(part, p) = g
  BY <1>1, <1>2, <1>4, NarrowedSame
<1>6. /\ \E n \in DOMAIN rows : rows[n] = RowAt(table, part, p)
      /\ Keeps(RowAt(table, part, p), GivenAt(part, p))
      /\ RowAt(table, part, p).from = Micros(GivenAt(part, p).from) /\ GivenAt(part, p).from \in Nat
  BY <1>1, <1>4, EncodedRows
<1> QED BY <1>5, <1>6 DEF rows

\* An insert stores every value of the hot part that the boundary has not passed.
LEMMA InsertLands ==
  ASSUME StoreOk, CallsOk, NEW w \in Writers, Insert(w),
         NEW place \in PlacesOf(call[w].pending), GivenAt(call[w].pending, place).from >= call[w].base,
         GivenAt(call[w].pending, place).from >= boundary
  PROVE  \E r \in Visible' : Keeps(r, GivenAt(call[w].pending, place))
<1> DEFINE g == GivenAt(call[w].pending, place)
           rows == HotRows(w)
<1>1. /\ call[w].pc = "insert" /\ InsertAccepts(rows) /\ hot' = hot \cup FreshRows(rows)
      /\ boundary' = boundary /\ cold' = cold
  BY DEF Insert
<1>2. Listing(rows)
  BY <1>1, HotRowsAre
<1>3. PICK n \in DOMAIN rows : Keeps(rows[n], g) /\ rows[n].from = Micros(g.from) /\ g.from \in Nat
  BY <1>1, HotPlace
<1> HIDE DEF rows, g
<1>4. PICK r \in Attached \cup FreshRows(rows) : SameVersion(r, rows[n])
  BY <1>2, InsertedVersion
<1>5. \E s \in Attached \cup FreshRows(rows) : SameVersion(s, rows[n]) /\ s.value = rows[n].value /\ s.melo = rows[n].melo
  <2>1. CASE ~Skipped(rows, n)
    <3>1. rows[n] \in FreshRows(rows)
      BY <2>1 DEF FreshRows
    <3> QED BY <3>1, SameVersionIs
  <2>2. CASE Skipped(rows, n)
    <3>1. ~Restated(rows)
      BY <2>2, <1>1 DEF InsertAccepts
    <3> QED BY <3>1, <1>4 DEF Restated
  <2> QED BY <2>1, <2>2
<1>6. PICK s \in Attached \cup FreshRows(rows) : SameVersion(s, rows[n]) /\ s.value = rows[n].value /\ s.melo = rows[n].melo
  BY <1>5
<1>7. Keeps(s, g)
  BY <1>3, <1>6 DEF Keeps, SameVersion, Again
<1>8. s.from >= boundary
  <2>1. s.from = rows[n].from
    BY <1>6, SameVersionIs
  <2>2. g.from >= boundary
    BY DEF g
  <2> QED BY <2>1, <2>2, <1>3, AboveBoundary
<1>9. s \in hot'
  BY <1>1, <1>6 DEF Attached
<1>10. s \in Visible'
  BY <1>1, <1>8, <1>9 DEF Visible
<1> QED BY <1>7, <1>10 DEF g

\* Two reports make one.
LEMMA ReportsJoined ==
  ASSUME NEW s, NEW t, Listing(s), Listing(t),
         \A n \in DOMAIN s : ReportOk(s[n]), \A n \in DOMAIN t : ReportOk(t[n])
  PROVE  Listing(s \o t) /\ \A n \in DOMAIN (s \o t) : ReportOk((s \o t)[n])
<1> DEFINE S == ToSet(s) \cup ToSet(t)
<1>1. s \in Seq(S) /\ t \in Seq(S)
  <2>1. s \in Seq(ToSet(s)) /\ t \in Seq(ToSet(t)) /\ ToSet(s) \subseteq S /\ ToSet(t) \subseteq S
    BY DEF Listing
  <2> HIDE DEF S
  <2> QED BY <2>1
<1> HIDE DEF S
<1>2. s \o t \in Seq(S) /\ DOMAIN (s \o t) = 1..(Len(s) + Len(t)) /\ Len(s) \in Nat /\ Len(t) \in Nat
      /\ DOMAIN s = 1..Len(s) /\ DOMAIN t = 1..Len(t)
  BY <1>1
<1>3. \A n \in 1..(Len(s) + Len(t)) : IF n <= Len(s) THEN (s \o t)[n] = s[n] /\ n \in DOMAIN s
                                     ELSE (s \o t)[n] = t[n - Len(s)] /\ n - Len(s) \in DOMAIN t
  BY <1>1, <1>2
<1>4. \A n \in DOMAIN (s \o t) : ReportOk((s \o t)[n])
  BY <1>2, <1>3
<1> QED BY <1>2, <1>4, ListingOf

\* An insert adds rows of the table to the hot tier, and goes on to the cold part.
LEMMA InsertShape ==
  ASSUME StoreOk, CallsOk, NEW w \in Writers, Insert(w)
  PROVE  /\ StoreOk' /\ Visible \subseteq Visible' /\ hot \subseteq hot'
         /\ scene' = scene /\ cold' = cold /\ boundary' = boundary /\ detached' = detached
         /\ hot' = hot \cup FreshRows(HotRows(w)) /\ InsertAccepts(HotRows(w))
         /\ Steps(w) /\ CallShape(call'[w], table, boundary) /\ writes' \in Nat
         /\ \/ call'[w].pc = "refused"
            \/ /\ call'[w].pc = ThenCold(w, call[w].base) /\ ThenCold(w, call[w].base) \in {"cold", "recheck"}
               /\ call'[w].base = call[w].base /\ call'[w].pending = call[w].pending
         /\ call'[w].batch = call[w].batch /\ call'[w].authored = call[w].authored
<1> DEFINE c == call[w]
           rows == HotRows(w)
           prior == c.prior
           keys == {KeyOf(table, r) : r \in FreshRows(rows)}
           next == ThenCold(w, c.base)
           displaced == c.displaced \o HotReport(prior, rows)
           new == [c EXCEPT !.pc = next, !.prior = {}, !.displaced = displaced]
<1>1. CallShape(c, table, boundary) /\ writes \in Nat
  BY DEF CallsOk
<1>2. /\ c.pc = "insert" /\ InsertAccepts(rows) /\ hot' = hot \cup FreshRows(rows) /\ writes' = writes
      /\ scene' = scene /\ cold' = cold /\ boundary' = boundary /\ detached' = detached
      /\ table' = table
  BY DEF Insert, table
<1>3. next \in {"cold", "recheck"}
  BY DEF ThenCold
<1>4. Listing(rows) /\ \A n \in DOMAIN rows : IsRow(table, rows[n])
  BY <1>2, HotRowsAre
<1> HIDE DEF rows
<1>5. IsFiniteSet(FreshRows(rows)) /\ \A r \in FreshRows(rows) : IsRow(table, r)
  <2> DEFINE D == {m \in DOMAIN rows : ~Skipped(rows, m)}
  <2>1. IsFiniteSet(DOMAIN rows)
    BY <1>4, FS_Interval DEF Listing
  <2>2. IsFiniteSet(D)
    BY <2>1, FS_Subset
  <2>3. FreshRows(rows) = {rows[m] : m \in D}
    BY DEF FreshRows
  <2>4. \A m \in D : m \in DOMAIN rows
    OBVIOUS
  <2> HIDE DEF D
  <2>5. IsFiniteSet({rows[m] : m \in D})
    BY <2>2, ImageFinite
  <2> QED BY <2>3, <2>4, <2>5, <1>4
<1>6. StoreOk'
  <2>1. IsFiniteSet(hot') /\ \A r \in hot' : IsRow(table, r)
    BY <1>2, <1>5, FS_Union DEF StoreOk
  <2>2. ColdFilesOk'
    BY <1>2 DEF StoreOk, ColdFilesOk, Listing
  <2> QED BY <1>2, <2>1, <2>2 DEF StoreOk
<1>7. Visible \subseteq Visible' /\ hot \subseteq hot'
  BY <1>2 DEF Visible, ColdRows
<1>8. CASE ~Reportable(prior, rows)
  <2>1. call' = [Race(w, keys) EXCEPT ![w] = End(w, "refused")]
    BY <1>8 DEF Insert, rows
  <2>2. Steps(w) /\ call'[w] = End(w, "refused")
    <3> HIDE DEF keys
    <3> QED BY <2>1, <1>2, RacingStep
  <2>3. CallShape(call'[w], table, boundary) /\ call'[w].pc = "refused"
        /\ call'[w].batch = call[w].batch /\ call'[w].authored = call[w].authored
    BY <2>2, <1>1, <1>2, EndShape
  <2> QED BY <2>2, <2>3, <1>1, <1>2, <1>6, <1>7 DEF rows
<1>9. CASE Reportable(prior, rows)
  <2>0. Race(w, keys)[w] = c
    BY RaceOwn
  <2>1. call' = [Race(w, keys) EXCEPT ![w] = new]
    <3>1. call' = [Race(w, keys) EXCEPT ![w] =
             IF Reportable(prior, rows)
               THEN [Race(w, keys)[w] EXCEPT !.pc = next, !.prior = {}, !.displaced = displaced]
               ELSE End(w, "refused")]
      BY DEF Insert, rows
    <3>2. [Race(w, keys)[w] EXCEPT !.pc = next, !.prior = {}, !.displaced = displaced] = new
      BY <2>0
    <3> HIDE DEF new, keys, next, displaced, prior
    <3> QED BY <3>1, <3>2, <1>9
  <2>2. Steps(w) /\ call'[w] = new
    <3> HIDE DEF new, keys
    <3> QED BY <2>1, <1>2, RacingStep
  <2>3. DOMAIN c = CallFields /\ IsFiniteSet(prior) /\ \A r \in prior : IsRow(table, r)
    BY <1>1, <1>2 DEF CallShape, Finished
  <2>4. Listing(displaced) /\ \A n \in DOMAIN displaced : ReportOk(displaced[n])
    <3>1. Listing(HotReport(prior, rows)) /\ \A n \in DOMAIN HotReport(prior, rows) : ReportOk(HotReport(prior, rows)[n])
      BY <2>3, <1>4, HotReportOk
    <3>2. Listing(c.displaced) /\ \A n \in DOMAIN c.displaced : ReportOk(c.displaced[n])
      BY <1>1, <1>2 DEF CallShape, Finished
    <3> QED BY <3>1, <3>2, ReportsJoined
  <2> HIDE DEF displaced, next
  <2>5. /\ new.pc = next /\ new.base = c.base /\ new.authored = c.authored /\ new.batch = c.batch
        /\ new.pending = c.pending /\ new.prior = {} /\ new.displaced = displaced /\ DOMAIN new = CallFields
    BY <2>3 DEF CallFields
  <2> HIDE DEF new
  <2>6. IsFiniteSet({})
    BY FS_EmptySet
  <2>7. CallShape(new, table, boundary)
    BY <1>1, <1>2, <1>3, <2>4, <2>5, <2>6 DEF CallShape, Finished, Routed
  <2> QED BY <1>1, <1>2, <1>3, <1>6, <1>7, <2>2, <2>5, <2>7 DEF rows, next
<1> QED BY <1>8, <1>9

-----------------------------------------------------------------------------
(* The append to the cold tier.                                            *)

\* The cold part of what a call writes, and its values.
ColdOf(w) == ColdPart(call[w].pending, call[w].base)
GivenCold(w) == IncomingOf(ColdOf(w))

\* The cold part is a batch, and so is what is left of it to write.
LEMMA ColdShape ==
  ASSUME StoreOk, CallsOk, NEW w \in Writers, call[w].pc = "cold"
  PROVE  /\ IsBatch(call[w].pending) /\ IsBatch(ColdOf(w)) /\ IsBatch(ColdToWrite(w, GivenCold(w)))
         /\ BuildAccepts(table) /\ Listing(GivenCold(w))
         /\ \A n \in DOMAIN GivenCold(w) : GivenCold(w)[n].version \in Int
<1>1. CallShape(call[w], table, boundary) /\ BuildAccepts(table)
  BY TableBuilt DEF CallsOk, StoreOk
<1>2. IsBatch(call[w].pending)
  BY <1>1 DEF CallShape, Finished
<1>3. IsBatch(ColdOf(w))
  BY <1>2, PartBatch DEF ColdOf
<1>4. IsBatch(ColdToWrite(w, GivenCold(w)))
  BY <1>3, PartBatch DEF ColdToWrite, ColdOf
<1>5. PICK o : Numbers(GivenCold(w), o, ColdOf(w))
  BY <1>3, IncomingPlaces DEF GivenCold
<1>6. ASSUME NEW n \in DOMAIN GivenCold(w) PROVE GivenCold(w)[n].version \in Int
  <2>1. o[n] \in PlacesOf(ColdOf(w)) /\ GivenCold(w)[n] = GivenAt(ColdOf(w), o[n])
    BY <1>5 DEF Numbers
  <2>2. IsDelivery(ColdOf(w)[o[n][1]])
    BY <2>1, <1>3, PlaceShape, BatchShape
  <2> QED BY <2>1, <2>2, GivenFields DEF GivenAt, IsDelivery
<1> QED BY <1>1, <1>2, <1>3, <1>4, <1>5, <1>6 DEF Numbers

\* What reconciles and is not written is stored: with the first of a batch that says so.
LEMMA Reconciled ==
  ASSUME NEW stored, NEW incoming, Listing(incoming), ReconcileAccepts(stored, incoming),
         NEW n \in DOMAIN incoming, KeyOf(table, incoming[n]) \notin Kept(ColdReport(stored, incoming))
  PROVE  \E r \in stored : /\ KeyOf(table, r) = KeyOf(table, incoming[n]) /\ r.version = incoming[n].version
                           /\ FromScaled(r.value) = incoming[n].value /\ r.melo = incoming[n].melo
<1> DEFINE key == KeyOf(table, incoming[n])
           report == ColdReport(stored, incoming)
           T == {m \in DOMAIN incoming : KeyOf(table, incoming[m]) = key /\ incoming[m].version = incoming[n].version}
<1>1. DOMAIN incoming = 1..Len(incoming) /\ Len(incoming) \in Nat
  BY DEF Listing
<1>2. n \in T /\ T \subseteq Nat
  BY <1>1
<1>3. PICK k \in T : \A m \in T : k <= m
  BY <1>2, LeastNatural
<1>4. \A m \in DOMAIN incoming :
        /\ report[m].key = KeyOf(table, incoming[m])
        /\ report[m].effect = EffectOn(ColdHeldBefore(stored, incoming, m), AssertedValue(incoming[m]),
                                       ColdReplay(stored, incoming, m))
  BY DEF ColdReport, Displacement
<1>5. DOMAIN report = DOMAIN incoming
  BY DEF ColdReport
<1> HIDE DEF report
<1>17. \A x : StoredValue(x).label.version = x.version /\ AssertedValue(x).label.version = x.version
  BY DEF StoredValue, AssertedValue, Label
<1>6. report[k].effect = "Duplicate"
  <2>1. report[k].key = key /\ k \in DOMAIN report
    BY <1>3, <1>4, <1>5
  <2> QED BY <2>1 DEF Kept, report
<1>7. ColdReplay(stored, incoming, k)
  BY <1>3, <1>4, <1>6 DEF EffectOn
<1>8. PICK v \in ColdHeldBefore(stored, incoming, k) : v.label.version = incoming[k].version
  BY <1>7 DEF ColdReplay, SaidBefore
<1>9. ~\E m \in EarlierUnder(incoming, k) : v = AssertedValue(incoming[m])
  <2> SUFFICES ASSUME NEW m \in EarlierUnder(incoming, k), v = AssertedValue(incoming[m]) PROVE FALSE
    OBVIOUS
  <2>1. m \in 1..(k - 1) /\ KeyOf(table, incoming[m]) = KeyOf(table, incoming[k])
    BY DEF EarlierUnder
  <2>2. m \in DOMAIN incoming /\ m < k
    BY <2>1, <1>1, <1>3
  <2>3. incoming[m].version = incoming[k].version
    BY <1>8, <1>17
  <2>4. m \in T
    BY <2>1, <2>2, <2>3, <1>3
  <2> QED BY <2>2, <2>4, <1>1, <1>3
<1>10. PICK r \in StoredUnder(stored, KeyOf(table, incoming[k])) : v = StoredValue(r)
  BY <1>8, <1>9 DEF ColdHeldBefore
<1>11. r \in StoredUnder(stored, key) /\ r.version = incoming[n].version /\ r \in stored /\ KeyOf(table, r) = key
  BY <1>3, <1>8, <1>10, <1>17 DEF StoredUnder
<1>12. SameMelo(stored, incoming, n) /\ SameAssertion(stored, incoming, n)
  BY DEF ReconcileAccepts, Reconciles
<1>13. r.melo = incoming[n].melo
  BY <1>11, <1>12 DEF SameMelo
<1>14. StoredValue(r) \in SaidBefore(stored, incoming, n)
  BY <1>11, <1>17 DEF SaidBefore, ColdHeldBefore
<1>15. FromScaled(r.value) = incoming[n].value
  BY <1>12, <1>14, LabelOf DEF SameAssertion
<1> QED BY <1>11, <1>13, <1>15

\* A file of what is to be written, if there is any.
LEMMA ColdFile ==
  ASSUME StoreOk, CallsOk, NEW w \in Writers, call[w].pc = "cold",
         NEW rows \in Encode(table, ColdToWrite(w, GivenCold(w))), rows # <<>>
  PROVE  FileOf(rows, boundary)
<1> DEFINE b == ColdOf(w)
           keys == Kept(ColdReport(Stored(GivenCold(w)), GivenCold(w)))
           N == Retained(b, keys)
<1>1. IsBatch(call[w].pending) /\ IsBatch(b) /\ BuildAccepts(table) /\ N = ColdToWrite(w, GivenCold(w)) /\ IsBatch(N)
  BY ColdShape DEF ColdToWrite, ColdOf
<1>2. PICK u : Narrows(N, u, b, KeyKeep(b, keys))
  BY <1>1, PartPlaces
<1>3. PICK v : Narrows(b, v, call[w].pending, ColdKeep(call[w].pending, call[w].base))
  BY <1>1, PartPlaces DEF ColdOf
<1>4. call[w].base \in Nat /\ call[w].base <= boundary /\ boundary \in Nat
  BY DEF CallsOk, CallShape, Routed, StoreOk
<1> HIDE DEF N, b
<1>5. ASSUME NEW n \in DOMAIN rows PROVE IsRow(table, rows[n]) /\ rows[n].from < boundary
  <2>1. IsRow(table, rows[n]) /\ \E place \in PlacesOf(N) : rows[n] = RowAt(table, N, place)
    BY <1>1, EncodedRows
  <2>2. PICK place \in PlacesOf(N) : rows[n] = RowAt(table, N, place)
    BY <2>1
  <2>3. /\ RowAt(table, N, place).from = Micros(GivenAt(N, place).from) /\ GivenAt(N, place).from \in Nat
    BY <1>1, EncodedRows
  <2>4. u[place] \in PlacesOf(b) /\ GivenAt(N, place) = GivenAt(b, u[place])
    <3>1. u[place] \in PlacesOf(b)
      BY <1>2 DEF Narrows
    <3>2. GivenAt(N, place) = GivenAt(b, u[place])
      BY <1>1, <1>2, NarrowedSame
    <3> QED BY <3>1, <3>2
  <2>5. /\ GivenAt(b, u[place]) = GivenAt(call[w].pending, v[u[place]])
        /\ v[u[place]] \in PlacesOf(call[w].pending)
        /\ ColdKeep(call[w].pending, call[w].base)[v[u[place]][1]][v[u[place]][2]]
    <3>1. /\ v[u[place]] \in PlacesOf(call[w].pending)
          /\ ColdKeep(call[w].pending, call[w].base)[v[u[place]][1]][v[u[place]][2]]
      BY <1>3, <2>4 DEF Narrows
    <3>2. GivenAt(b, u[place]) = GivenAt(call[w].pending, v[u[place]])
      BY <1>1, <1>3, <2>4, NarrowedSame
    <3> QED BY <3>1, <3>2
  <2>6. ValueAt(call[w].pending, v[u[place]]).from < call[w].base
    BY <2>5, KeepAt
  <2>7. GivenAt(N, place).from < call[w].base
    BY <2>4, <2>5, <2>6, GivenFields DEF GivenAt
  <2>8. Micros(GivenAt(N, place).from) \in Nat /\ Micros(GivenAt(N, place).from) <= GivenAt(N, place).from
    BY <2>3, OnGrid
  <2> QED BY <2>1, <2>2, <2>3, <2>7, <2>8, <1>4
<1>6. Listing(rows)
  BY <1>1, EncodedRows
<1> QED BY <1>5, <1>6 DEF FileOf

\* What an append to the cold tier leaves there.
LEMMA ColdWritten ==
  ASSUME StoreOk, CallsOk, NEW w \in Writers, call[w].pc = "cold",
         NEW rows \in Encode(table, ColdToWrite(w, GivenCold(w))),
         cold' = IF rows = <<>> THEN cold ELSE Append(cold, SortedForStorage(rows)),
         scene' = scene, hot' = hot, detached' = detached, boundary' = boundary
  PROVE  /\ StoreOk' /\ Visible \subseteq Visible'
         /\ \A f \in DOMAIN cold : f \in DOMAIN cold' /\ cold'[f] = cold[f]
         /\ ColdRows' = ColdRows \cup {rows[n] : n \in DOMAIN rows}
<1>1. table' = table /\ boundary \in Nat
  BY DEF table, StoreOk
<1>2. /\ ColdFilesOk' /\ \A f \in DOMAIN cold : f \in DOMAIN cold' /\ cold'[f] = cold[f]
      /\ ColdRows' = ColdRows \cup {rows[n] : n \in DOMAIN rows}
  <2>1. CASE rows = <<>>
    <3>1. cold' = cold /\ {rows[n] : n \in DOMAIN rows} = {}
      BY <2>1
    <3>2. ColdFilesOk'
      BY <3>1, <1>1 DEF StoreOk, ColdFilesOk, Listing
    <3> QED BY <3>1, <3>2 DEF ColdRows
  <2>2. CASE rows # <<>>
    <3> DEFINE file == SortedForStorage(rows)
    <3>1. FileOf(rows, boundary)
      BY <2>2, ColdFile
    <3>2. /\ FileOf(file, boundary) /\ Rearranges(file, rows)
          /\ \A n \in DOMAIN rows : \E k \in DOMAIN file : file[k] = rows[n]
      BY <3>1, SortedFile
    <3>3. \A k \in DOMAIN file : \E n \in DOMAIN rows : file[k] = rows[n]
      <4> HIDE DEF file
      <4> QED BY <3>2 DEF Rearranges
    <3>4. cold' = Append(cold, file)
      BY <2>2
    <3> HIDE DEF file
    <3>5. /\ ColdFilesOk' /\ \A f \in DOMAIN cold : f \in DOMAIN cold' /\ cold'[f] = cold[f]
          /\ Len(cold) + 1 \in DOMAIN cold' /\ cold'[Len(cold) + 1] = file
          /\ DOMAIN cold' = DOMAIN cold \cup {Len(cold) + 1}
      BY <3>2, <3>4, <1>1, ColdAppended
    <3>6. \A r : r \in ColdRows' <=> r \in ColdRows \/ r \in {rows[n] : n \in DOMAIN rows}
      <4> SUFFICES ASSUME NEW r PROVE r \in ColdRows' <=> r \in ColdRows \/ r \in {rows[n] : n \in DOMAIN rows}
        OBVIOUS
      <4>1. r \in ColdRows' <=> \E f \in DOMAIN cold' : \E n \in DOMAIN cold'[f] : r = cold'[f][n]
        BY InColdRowsNext
      <4>2. (\E f \in DOMAIN cold' : \E n \in DOMAIN cold'[f] : r = cold'[f][n])
              <=> (\E f \in DOMAIN cold : \E n \in DOMAIN cold[f] : r = cold[f][n]) \/ \E n \in DOMAIN file : r = file[n]
        BY <3>5
      <4>3. (\E n \in DOMAIN file : r = file[n]) <=> r \in {rows[n] : n \in DOMAIN rows}
        BY <3>2, <3>3
      <4> QED BY <4>1, <4>2, <4>3, InColdRows
    <3> QED BY <3>5, <3>6
  <2> QED BY <2>1, <2>2
<1>3. StoreOk'
  BY <1>1, <1>2 DEF StoreOk
<1>4. Visible \subseteq Visible'
  BY <1>2 DEF Visible
<1> QED BY <1>2, <1>3, <1>4

\* An append to the cold tier stores every value of the cold part, or finds it stored.
LEMMA ColdLands ==
  ASSUME StoreOk, CallsOk, NEW w \in Writers, AppendCold(w),
         NEW place \in PlacesOf(call[w].pending), GivenAt(call[w].pending, place).from < call[w].base
  PROVE  \E r \in Visible' : Keeps(r, GivenAt(call[w].pending, place))
<1> DEFINE b == call[w].pending
           g == GivenAt(b, place)
           part == ColdOf(w)
           given == GivenCold(w)
           keys == Kept(ColdReport(Stored(given), given))
           N == Retained(part, keys)
<1>1. /\ call[w].pc = "cold" /\ ReconcileAccepts(Stored(given), given)
      /\ scene' = scene /\ hot' = hot /\ detached' = detached /\ boundary' = boundary
      /\ \E rows \in Encode(table, ColdToWrite(w, given)) :
           cold' = IF rows = <<>> THEN cold ELSE Append(cold, SortedForStorage(rows))
  BY DEF AppendCold, ColdAccepts, GivenCold, ColdOf
<1>2. PICK rows \in Encode(table, ColdToWrite(w, given)) :
           cold' = IF rows = <<>> THEN cold ELSE Append(cold, SortedForStorage(rows))
  BY <1>1
<1>3. /\ IsBatch(b) /\ IsBatch(part) /\ BuildAccepts(table) /\ N = ColdToWrite(w, given) /\ IsBatch(N) /\ Listing(given)
  BY <1>1, ColdShape DEF ColdToWrite, ColdOf
<1>4. /\ Visible \subseteq Visible' /\ ColdRows' = ColdRows \cup {rows[n] : n \in DOMAIN rows}
  BY <1>1, <1>2, ColdWritten
<1>5. PICK v : Narrows(part, v, b, ColdKeep(b, call[w].base))
  BY <1>3, PartPlaces DEF ColdOf
<1>6. ColdKeep(b, call[w].base)[place[1]][place[2]]
  BY KeepAt, GivenFields DEF GivenAt
<1> HIDE DEF part
<1>7. PICK p \in PlacesOf(part) : v[p] = place
  BY <1>5, <1>6 DEF Narrows
<1>8. GivenAt(part, p) = g
  BY <1>3, <1>5, <1>7, NarrowedSame
<1>9. PICK o : Numbers(given, o, part)
  BY <1>3, IncomingPlaces DEF GivenCold, part
<1>10. PICK n \in DOMAIN given : o[n] = p /\ given[n] = g
  BY <1>7, <1>8, <1>9 DEF Numbers
<1>11. CASE KeyOf(table, g) \in keys
  <2>1. PICK u : Narrows(N, u, part, KeyKeep(part, keys))
    BY <1>3, PartPlaces
  <2>2. KeyKeep(part, keys)[p[1]][p[2]]
    BY <1>7, <1>8, <1>11, KeepAt
  <2> HIDE DEF N, keys
  <2>3. PICK q \in PlacesOf(N) : u[q] = p
    BY <1>7, <2>1, <2>2 DEF Narrows
  <2>4. GivenAt(N, q) = g
    BY <1>3, <1>8, <2>1, <2>3, NarrowedSame
  <2>5. /\ \E k \in DOMAIN rows : rows[k] = RowAt(table, N, q)
        /\ Keeps(RowAt(table, N, q), GivenAt(N, q))
    BY <1>2, <1>3, <2>3, EncodedRows
  <2>6. PICK k \in DOMAIN rows : rows[k] = RowAt(table, N, q)
    BY <2>5
  <2>7. FileOf(rows, boundary)
    BY <1>1, <1>2, <2>6, ColdFile
  <2>8. rows[k] \in Visible'
    BY <2>6, <2>7, <1>1, <1>4 DEF Visible, FileOf
  <2> QED BY <2>4, <2>5, <2>6, <2>8 DEF g
<1>12. CASE KeyOf(table, g) \notin keys
  <2>1. PICK r \in Stored(given) : /\ KeyOf(table, r) = KeyOf(table, given[n]) /\ r.version = given[n].version
                             /\ FromScaled(r.value) = given[n].value /\ r.melo = given[n].melo
    <3> HIDE DEF g, given
    <3> QED BY <1>1, <1>3, <1>10, <1>12, Reconciled DEF keys
  <2>2. r \in Visible
    BY <2>1 DEF Stored
  <2>3. IsRow(table, r)
    BY <2>2, VisibleFinite
  <2>4. KeyOf(table, r) = StoredKey(g)
    <3> HIDE DEF given
    <3>1. KeyOf(table, r) = KeyOf(table, g)
      BY <2>1, <1>10
    <3> QED BY <2>3, <3>1, <1>3, GivenKeyStored
  <2>5. Keeps(r, g)
    BY <2>1, <2>4, <1>10 DEF Keeps
  <2> QED BY <2>2, <2>5, <1>4 DEF g
<1> QED BY <1>11, <1>12

\* An append to the cold tier adds one file at most.
LEMMA ColdAppendShape ==
  ASSUME StoreOk, CallsOk, NEW w \in Writers, AppendCold(w)
  PROVE  /\ StoreOk' /\ Visible \subseteq Visible' /\ hot' = hot
         /\ scene' = scene /\ boundary' = boundary /\ detached' = detached
         /\ \A f \in DOMAIN cold : f \in DOMAIN cold' /\ cold'[f] = cold[f]
         /\ Steps(w) /\ CallShape(call'[w], table, boundary) /\ writes' \in Nat
         /\ call'[w].pc = "recheck" /\ call'[w].base = call[w].base /\ call'[w].pending = call[w].pending
         /\ call'[w].batch = call[w].batch /\ call'[w].authored = call[w].authored
<1> DEFINE c == call[w]
           given == GivenCold(w)
           report == ColdReport(Stored(given), given)
           displaced == c.displaced \o report
<1>1. CallShape(c, table, boundary) /\ writes \in Nat
  BY DEF CallsOk
<1>2. /\ c.pc = "cold" /\ writes' = writes /\ scene' = scene /\ hot' = hot /\ boundary' = boundary /\ detached' = detached
  BY DEF AppendCold
<1>3. PICK rows \in Encode(table, ColdToWrite(w, given)) :
        /\ cold' = IF rows = <<>> THEN cold ELSE Append(cold, SortedForStorage(rows))
        /\ call' = [Race(w, KeysOf(rows)) EXCEPT ![w] =
              [@ EXCEPT !.pc = "recheck", !.displaced = displaced,
                        !.raced = c.raced \ KeysOf(given)]]
  BY DEF AppendCold, GivenCold, ColdOf
<1>4. /\ StoreOk' /\ Visible \subseteq Visible'
      /\ \A f \in DOMAIN cold : f \in DOMAIN cold' /\ cold'[f] = cold[f]
  BY <1>2, <1>3, ColdWritten
<1> DEFINE keys == KeysOf(rows)
           raced == c.raced \ KeysOf(given)
           new == [c EXCEPT !.pc = "recheck", !.displaced = displaced, !.raced = raced]
<1>5. Listing(displaced) /\ \A n \in DOMAIN displaced : ReportOk(displaced[n])
  <2>1. Listing(given) /\ \A n \in DOMAIN given : given[n].version \in Int
    BY <1>2, ColdShape
  <2>2. Listing(report) /\ \A n \in DOMAIN report : ReportOk(report[n])
    <3> HIDE DEF given
    <3> QED BY <2>1, ColdReportOk
  <2>3. Listing(c.displaced) /\ \A n \in DOMAIN c.displaced : ReportOk(c.displaced[n])
    BY <1>1, <1>2 DEF CallShape, Finished
  <2> HIDE DEF report
  <2> QED BY <2>2, <2>3, ReportsJoined
<1> HIDE DEF displaced, keys, given
<1>6. call' = [Race(w, keys) EXCEPT ![w] = new]
  <2>1. Race(w, keys)[w] = c
    BY RaceOwn
  <2>2. [Race(w, keys)[w] EXCEPT !.pc = "recheck", !.displaced = displaced, !.raced = raced] = new
    BY <2>1
  <2>3. call' = [Race(w, keys) EXCEPT ![w] =
              [Race(w, keys)[w] EXCEPT !.pc = "recheck", !.displaced = displaced, !.raced = raced]]
    BY <1>3 DEF keys
  <2> HIDE DEF new, raced
  <2> QED BY <2>2, <2>3
<1>7. Steps(w) /\ call'[w] = new
  <2> HIDE DEF new
  <2> QED BY <1>2, <1>6, RacingStep
<1>8. DOMAIN c = CallFields
  BY <1>1, <1>2 DEF CallShape, Finished
<1> HIDE DEF raced
<1>9. /\ new.pc = "recheck" /\ new.base = c.base /\ new.authored = c.authored /\ new.batch = c.batch
      /\ new.pending = c.pending /\ new.prior = c.prior /\ new.displaced = displaced /\ DOMAIN new = CallFields
  BY <1>8 DEF CallFields
<1> HIDE DEF new
<1>10. CallShape(new, table, boundary)
  BY <1>1, <1>2, <1>5, <1>9 DEF CallShape, Finished, Routed
<1> QED BY <1>1, <1>2, <1>4, <1>7, <1>9, <1>10

-----------------------------------------------------------------------------
(* What a call has stored.                                                 *)

\* What a call has stored of what it is to write: the hot part once it is past it, but for
\* what the boundary passed since, then the cold part; and everything once it is done.
Landed(w) ==
  /\ call[w].pc \in {"cold", "recheck"} =>
       \A place \in PlacesOf(call[w].pending) :
         LET g == GivenAt(call[w].pending, place)
         IN g.from >= call[w].base => g.from < boundary \/ Has(g)
  /\ call[w].pc = "recheck" =>
       \A place \in PlacesOf(call[w].pending) :
         LET g == GivenAt(call[w].pending, place) IN g.from < call[w].base => Has(g)
  /\ call[w].pc = "ok" /\ ~call[w].authored =>
       \A place \in PlacesOf(call[w].batch) : Has(GivenAt(call[w].batch, place))

\* The inductive invariant.
WritesInv == StoreOk /\ CallsOk /\ \A w \in Writers : Landed(w)

\* A value begins at an instant, under a version.
LEMMA GivenFrom ==
  ASSUME NEW b, IsBatch(b), NEW place \in PlacesOf(b)
  PROVE  GivenAt(b, place).from \in Nat /\ GivenAt(b, place).from = ValueAt(b, place).from
         /\ GivenAt(b, place).version \in Int
<1>1. IsDelivery(b[place[1]]) /\ place[2] \in DOMAIN b[place[1]].intervals
  BY PlaceShape, BatchShape
<1>2. ValueAt(b, place) \in ToSet(b[place[1]].intervals)
  BY <1>1 DEF ValueAt, ToSet
<1> QED BY <1>1, <1>2, GivenFields DEF GivenAt, IsDelivery, Instants

\* Where a part is empty, nothing stands on its side.
LEMMA EmptyPart ==
  ASSUME NEW b, IsBatch(b), NEW at
  PROVE  /\ HotPart(b, at) = <<>> => \A place \in PlacesOf(b) : ~(GivenAt(b, place).from >= at)
         /\ ColdPart(b, at) = <<>> => \A place \in PlacesOf(b) : ~(GivenAt(b, place).from < at)
<1>1. ASSUME NEW N, NEW u, NEW keep, Narrows(N, u, b, keep), N = <<>>, NEW place \in PlacesOf(b)
      PROVE  ~keep[place[1]][place[2]]
  BY <1>1, EmptyPlaces DEF Narrows
<1>2. \E u : Narrows(HotPart(b, at), u, b, HotKeep(b, at))
  BY PartPlaces
<1>3. \E u : Narrows(ColdPart(b, at), u, b, ColdKeep(b, at))
  BY PartPlaces
<1>4. \A place \in PlacesOf(b) :
        /\ HotKeep(b, at)[place[1]][place[2]] <=> GivenAt(b, place).from >= at
        /\ ColdKeep(b, at)[place[1]][place[2]] <=> GivenAt(b, place).from < at
  BY KeepAt, GivenFrom
<1> QED BY <1>1, <1>2, <1>3, <1>4

\* A step of another keeps what a call has stored.
LEMMA LandedStays ==
  ASSUME StoreOk, CallsOk, NEW w \in Writers, Landed(w), Undisturbed(w), Visible \subseteq Visible',
         table' = table, boundary' \in Nat, boundary <= boundary'
  PROVE  Landed(w)'
<1>1. CallShape(call[w], table, boundary) /\ boundary \in Nat
  BY DEF CallsOk, StoreOk
<1>2. \A g : Has(g) => Has(g)'
  <2>1. \A r, g : Keeps(r, g)' <=> Keeps(r, g)
    BY DEF Keeps, StoredKey, AsStored
  <2> QED BY <2>1 DEF Has
<1>3. call'[w].pc = call[w].pc
  BY <1>1, UndisturbedFields
<1>4. CASE call[w].pc \in {"cold", "recheck"}
  <2>1. call'[w].pending = call[w].pending /\ call'[w].base = call[w].base /\ call[w].pc \notin {"ok"}
        /\ IsBatch(call[w].pending)
    BY <1>1, <1>4, UndisturbedFields DEF Finished, CallShape
  <2>2. \A place \in PlacesOf(call[w].pending) : GivenAt(call[w].pending, place).from \in Nat
    BY <2>1, GivenFrom
  <2>3. \A x \in Nat : x < boundary => x < boundary'
    BY <1>1
  <2> QED BY <1>2, <1>3, <1>4, <2>1, <2>2, <2>3 DEF Landed
<1>5. CASE call[w].pc \notin {"cold", "recheck"}
  <2>1. CASE call[w].pc = "ok"
    <3>1. call'[w] = call[w]
      BY <2>1, <1>1, UndisturbedFields DEF Finished
    <3> QED BY <3>1, <2>1, <1>2 DEF Landed
  <2>2. CASE call[w].pc # "ok"
    BY <1>3, <1>5, <2>2 DEF Landed
  <2> QED BY <2>1, <2>2
<1> QED BY <1>4, <1>5

\* What a step of a write leaves of the store.
LEMMA WriteKeeps ==
  ASSUME StoreOk, CallsOk, NEW w \in Writers, WriteStep(w)
  PROVE  /\ StoreOk' /\ Visible \subseteq Visible' /\ hot \subseteq hot'
         /\ scene' = scene /\ table' = table /\ boundary' = boundary /\ detached' = detached
         /\ \A f \in DOMAIN cold : f \in DOMAIN cold' /\ cold'[f] = cold[f]
         /\ Steps(w) /\ CallShape(call'[w], table, boundary) /\ writes' \in Nat
<1>1. ASSUME StoreSame, Steps(w) /\ CallShape(call'[w], table, boundary) /\ writes' \in Nat
      PROVE  /\ StoreOk' /\ Visible \subseteq Visible' /\ hot \subseteq hot'
             /\ scene' = scene /\ table' = table /\ boundary' = boundary /\ detached' = detached
             /\ \A f \in DOMAIN cold : f \in DOMAIN cold' /\ cold'[f] = cold[f]
             /\ Steps(w) /\ CallShape(call'[w], table, boundary) /\ writes' \in Nat
  BY <1>1, SameStore DEF StoreSame
<1>2. CASE Begin(w)
  BY <1>1, <1>2, BeginShape
<1>3. CASE Route(w)
  BY <1>1, <1>3, RouteShape
<1>4. CASE SelectPrior(w)
  BY <1>1, <1>4, SelectShape
<1>5. CASE Insert(w)
  BY <1>5, InsertShape DEF table
<1>6. CASE InsertRefused(w) \/ AppendColdRefused(w)
  BY <1>1, <1>6, RefusedShape
<1>7. CASE AppendCold(w)
  BY <1>7, ColdAppendShape DEF table
<1>8. CASE Reroute(w)
  BY <1>1, <1>8, RerouteShape
<1>9. CASE Finish(w)
  BY <1>1, <1>9, FinishShape
<1>10. CASE AuthorAgain(w)
  BY <1>1, <1>10, AuthorShape
<1> QED BY <1>2, <1>3, <1>4, <1>5, <1>6, <1>7, <1>8, <1>9, <1>10 DEF WriteStep

\* A step of a write keeps every call one.
LEMMA CallsStay ==
  ASSUME StoreOk, CallsOk, NEW w \in Writers, WriteStep(w)
  PROVE  CallsOk'
<1>1. /\ table' = table /\ boundary' = boundary /\ boundary \in Nat
      /\ Steps(w) /\ CallShape(call'[w], table, boundary) /\ writes' \in Nat
  BY WriteKeeps DEF StoreOk
<1>2. \A v \in Writers : CallShape(call'[v], table, boundary)
  <2>1. ASSUME NEW v \in Writers \ {w} PROVE CallShape(call'[v], table, boundary)
    <3>1. CallShape(call[v], table, boundary) /\ Undisturbed(v)
      BY <1>1 DEF CallsOk, Steps
    <3> QED BY <3>1, <1>1, UndisturbedShape
  <2> QED BY <2>1, <1>1
<1> QED BY <1>1, <1>2 DEF CallsOk, Steps

\* A call has stored what it is past.
LEMMA OwnLands ==
  ASSUME StoreOk, CallsOk, NEW w \in Writers, Landed(w), WriteStep(w)
  PROVE  Landed(w)'
<1> DEFINE c == call[w]
           HasNext(g) == \E r \in Visible' : Keeps(r, g)
<1>1. /\ CallShape(c, table, boundary) /\ StoreOk' /\ Visible \subseteq Visible'
      /\ table' = table /\ boundary' = boundary /\ boundary \in Nat
  BY WriteKeeps DEF CallsOk, StoreOk
<1>2. /\ \A g : Has(g)' <=> HasNext(g)
      /\ \A g : Has(g) => HasNext(g)
  <2>1. \A r, g : Keeps(r, g)' <=> Keeps(r, g)
    BY <1>1 DEF Keeps, StoredKey, AsStored
  <2> QED BY <1>1, <2>1 DEF Has
<1> HIDE DEF HasNext
<1>3. ASSUME call'[w].pc \notin {"cold", "recheck", "ok"} PROVE Landed(w)'
  BY <1>3 DEF Landed
<1>4. CASE Begin(w)
  BY <1>3, <1>4, BeginShape
<1>5. CASE Route(w)
  <2>1. \/ call'[w].pc = "refused"
        \/ /\ call'[w].pc = FirstPart(w) /\ FirstPart(w) \in {"select", "cold", "recheck"}
           /\ call'[w].base = boundary /\ call'[w].pending = c.pending
    BY <1>5, RouteShape
  <2>2. IsBatch(c.pending)
    BY <1>1, <1>5 DEF Route, CallShape, Finished
  <2>3. CASE call'[w].pc = "cold"
    <3>1. HotPart(c.pending, boundary) = <<>>
      BY <2>1, <2>3 DEF FirstPart
    <3>2. \A place \in PlacesOf(c.pending) : ~(GivenAt(c.pending, place).from >= boundary)
      BY <2>2, <3>1, EmptyPart
    <3>3. call'[w].base = boundary /\ call'[w].pending = c.pending
      BY <2>1, <2>3
    <3> QED BY <2>3, <3>2, <3>3 DEF Landed
  <2>4. CASE call'[w].pc = "recheck"
    <3>1. HotPart(c.pending, boundary) = <<>> /\ ColdPart(c.pending, boundary) = <<>>
      BY <2>1, <2>4 DEF FirstPart, ThenCold
    <3>2. \A place \in PlacesOf(c.pending) : /\ ~(GivenAt(c.pending, place).from >= boundary)
                                             /\ ~(GivenAt(c.pending, place).from < boundary)
      BY <2>2, <3>1, EmptyPart
    <3>3. call'[w].base = boundary /\ call'[w].pending = c.pending
      BY <2>1, <2>4
    <3> QED BY <2>4, <3>2, <3>3 DEF Landed
  <2> QED BY <1>3, <2>1, <2>3, <2>4
<1>6. CASE SelectPrior(w)
  BY <1>3, <1>6, SelectShape
<1>7. CASE InsertRefused(w) \/ AppendColdRefused(w)
  BY <1>3, <1>7, RefusedShape
<1>8. CASE Insert(w)
  <2>1. \/ call'[w].pc = "refused"
        \/ /\ call'[w].pc = ThenCold(w, c.base) /\ ThenCold(w, c.base) \in {"cold", "recheck"}
           /\ call'[w].base = c.base /\ call'[w].pending = c.pending
    BY <1>8, InsertShape
  <2>2. IsBatch(c.pending) /\ c.base \in Nat
    BY <1>1, <1>8 DEF Insert, CallShape, Finished, Routed
  <2>3. CASE call'[w].pc \in {"cold", "recheck"}
    <3>1. call'[w].base = c.base /\ call'[w].pending = c.pending /\ call'[w].pc = ThenCold(w, c.base)
      BY <2>1, <2>3
    <3>2. ASSUME NEW place \in PlacesOf(c.pending), GivenAt(c.pending, place).from >= c.base
          PROVE  GivenAt(c.pending, place).from < boundary \/ HasNext(GivenAt(c.pending, place))
      <4>1. GivenAt(c.pending, place).from \in Nat
        BY <2>2, GivenFrom
      <4>2. CASE GivenAt(c.pending, place).from >= boundary
        BY <1>8, <3>2, <4>2, InsertLands DEF HasNext
      <4> QED BY <4>1, <4>2, <1>1
    <3>3. call'[w].pc = "recheck" => \A place \in PlacesOf(c.pending) : ~(GivenAt(c.pending, place).from < c.base)
      <4>1. call'[w].pc = "recheck" => ColdPart(c.pending, c.base) = <<>>
        BY <3>1 DEF ThenCold
      <4> QED BY <4>1, <2>2, EmptyPart
    <3> QED BY <1>1, <1>2, <2>3, <3>1, <3>2, <3>3 DEF Landed
  <2> QED BY <1>3, <2>1, <2>3
<1>9. CASE AppendCold(w)
  <2>1. call'[w].pc = "recheck" /\ call'[w].base = c.base /\ call'[w].pending = c.pending
    BY <1>9, ColdAppendShape
  <2>2. c.pc = "cold"
    BY <1>9 DEF AppendCold
  <2>3. \A place \in PlacesOf(c.pending) : GivenAt(c.pending, place).from < c.base => HasNext(GivenAt(c.pending, place))
    BY <1>9, ColdLands DEF HasNext
  <2>4. \A place \in PlacesOf(c.pending) :
          GivenAt(c.pending, place).from >= c.base =>
            GivenAt(c.pending, place).from < boundary \/ HasNext(GivenAt(c.pending, place))
    BY <1>2, <2>2 DEF Landed
  <2> QED BY <1>1, <1>2, <2>1, <2>3, <2>4 DEF Landed
<1>10. CASE Reroute(w)
  BY <1>3, <1>10, RerouteShape
<1>11. CASE AuthorAgain(w)
  BY <1>3, <1>11, AuthorShape
<1>12. CASE Finish(w)
  <2>1. /\ call'[w].pc = "ok" /\ call'[w].batch = c.batch /\ call'[w].authored = c.authored
        /\ c.pc = "recheck" /\ ~BoundaryMovedUnder(w)
    BY <1>12, FinishShape
  <2>2. IsBatch(c.pending) /\ (~c.authored => c.pending = c.batch) /\ c.base \in Nat
    BY <1>1, <2>1 DEF CallShape, Finished, Routed
  <2>3. \A place \in PlacesOf(c.pending) : HasNext(GivenAt(c.pending, place))
    <3> SUFFICES ASSUME NEW place \in PlacesOf(c.pending) PROVE HasNext(GivenAt(c.pending, place))
      OBVIOUS
    <3>1. GivenAt(c.pending, place).from \in Nat /\ GivenAt(c.pending, place).from = ValueAt(c.pending, place).from
      BY <2>2, GivenFrom
    <3>2. ~(GivenAt(c.pending, place).from >= c.base /\ GivenAt(c.pending, place).from < boundary)
      <4>1. place[1] \in DOMAIN c.pending /\ place[2] \in DOMAIN c.pending[place[1]].intervals
        BY PlaceShape
      <4> QED BY <2>1, <3>1, <4>1 DEF BoundaryMovedUnder, ValueAt
    <3>3. Has(GivenAt(c.pending, place))
      BY <2>1, <2>2, <3>1, <3>2 DEF Landed
    <3> QED BY <3>3, <1>2
  <2> QED BY <1>2, <2>1, <2>2, <2>3, <1>1 DEF Landed
<1> QED BY <1>4, <1>5, <1>6, <1>7, <1>8, <1>9, <1>10, <1>11, <1>12 DEF WriteStep

\* The invariant holds of the scenes.
LEMMA WritesStart == QInit => WritesInv
<1> SUFFICES ASSUME QInit PROVE WritesInv
  OBVIOUS
<1>1. /\ scene \in Scenes /\ hot = scene.hot /\ detached = {} /\ cold = scene.cold /\ boundary = scene.boundary
      /\ call = [w \in Writers |-> Idle] /\ writes = 0
  BY DEF QInit, Init
<1>2. IsScene(scene)
  BY <1>1, WritesAssumption
<1>3. ColdFilesOk
  <2>1. Listing(cold) /\ \A f \in DOMAIN cold : cold[f] \in ToSet(cold)
    BY <1>1, <1>2 DEF IsScene, ToSet
  <2>2. \A f \in DOMAIN cold : \A n \in DOMAIN cold[f] : cold[f][n] \in ToSet(cold[f])
    BY DEF ToSet
  <2>3. \A f \in DOMAIN cold : Listing(cold[f]) /\ cold[f] # <<>>
                               /\ \A r \in ToSet(cold[f]) : IsRow(table, r) /\ r.from < boundary
    BY <1>1, <1>2, <2>1 DEF IsScene, table
  <2> QED BY <2>1, <2>2, <2>3 DEF ColdFilesOk
<1>4. StoreOk
  BY <1>1, <1>2, <1>3 DEF StoreOk, IsScene, table
<1>5. \A w \in Writers : call[w].pc = "idle"
  BY <1>1 DEF Idle
<1>6. CallsOk
  BY <1>1, <1>5 DEF CallsOk, CallShape, Finished, Routed
<1>7. \A w \in Writers : Landed(w)
  BY <1>5 DEF Landed
<1> QED BY <1>4, <1>6, <1>7 DEF WritesInv

\* Archival moves what is stored, and reclaiming drops what was moved.
LEMMA MovedStays ==
  ASSUME WritesInv, StoreOk', Visible \subseteq Visible', scene' = scene, call' = call, writes' = writes,
         boundary <= boundary'
  PROVE  WritesInv'
<1>1. table' = table /\ boundary \in Nat /\ boundary' \in Nat
  BY DEF table, WritesInv, StoreOk
<1>2. \A w \in Writers : Undisturbed(w)
  BY DEF Undisturbed
<1>3. CallsOk'
  BY <1>1, <1>2, UndisturbedShape DEF WritesInv, CallsOk
<1>4. \A w \in Writers : Landed(w)'
  BY <1>1, <1>2, LandedStays DEF WritesInv
<1> QED BY <1>3, <1>4 DEF WritesInv

\* Every step keeps the invariant.
LEMMA WritesStep == WritesInv /\ [Next]_vars => WritesInv'
<1> SUFFICES ASSUME WritesInv, [Next]_vars PROVE WritesInv'
  OBVIOUS
<1>0. StoreOk /\ CallsOk
  BY DEF WritesInv
<1>1. ASSUME UNCHANGED writeVars PROVE WritesInv'
  <2>1. StoreSame /\ call' = call /\ writes' = writes
    BY <1>1 DEF writeVars, StoreSame
  <2>2. StoreOk' /\ Visible' = Visible /\ boundary' = boundary
    BY <2>1, <1>0, SameStore DEF StoreSame
  <2>3. boundary \in Nat
    BY <1>0 DEF StoreOk
  <2> QED BY <2>1, <2>2, <2>3, MovedStays DEF StoreSame
<1>2. ASSUME NEW w \in Writers, WriteStep(w) PROVE WritesInv'
  <2>1. /\ StoreOk' /\ Visible \subseteq Visible' /\ table' = table /\ boundary' = boundary /\ boundary \in Nat /\ Steps(w)
    BY <1>0, <1>2, WriteKeeps DEF StoreOk
  <2>2. CallsOk'
    BY <1>0, <1>2, CallsStay
  <2>3. \A v \in Writers : Landed(v)'
    <3>1. Landed(w)'
      BY <1>0, <1>2, OwnLands DEF WritesInv
    <3>2. \A v \in Writers \ {w} : Landed(v)'
      BY <1>0, <2>1, LandedStays DEF WritesInv, Steps
    <3> QED BY <3>1, <3>2
  <2> QED BY <2>1, <2>2, <2>3 DEF WritesInv
<1>3. CASE Archive
  <2>1. StoreOk' /\ Visible \subseteq Visible' /\ scene' = scene /\ call' = call /\ boundary <= boundary'
    BY <1>0, <1>3, ArchiveStore
  <2>2. writes' = writes
    BY <1>3 DEF Archive
  <2> QED BY <2>1, <2>2, MovedStays
<1>4. CASE Reclaim
  <2>1. DropDetached
    BY <1>4 DEF Reclaim
  <2>2. StoreOk' /\ Visible \subseteq Visible' /\ scene' = scene /\ call' = call /\ boundary' = boundary
    BY <1>0, <2>1, DropStore
  <2>3. writes' = writes /\ boundary \in Nat
    BY <1>0, <2>1 DEF DropDetached, StoreOk
  <2> QED BY <2>2, <2>3, MovedStays
<1>5. ASSUME NEW q \in Readers,
             (\E question \in scene.questions : Ask(q, question)) \/ ReadBoundary(q) \/ ScanCold(q) \/ Answer(q)
      PROVE  UNCHANGED writeVars
  BY <1>5 DEF Ask, ReadBoundary, ScanCold, Answer
<1>6. CASE UNCHANGED vars
  BY <1>1, <1>6 DEF vars, writeVars
<1> QED BY <1>1, <1>2, <1>3, <1>4, <1>5, <1>6 DEF Next

\* The store keeps its shape, each call what it was asked and what it has still to write, and
\* a call has stored what it is past, over every interleaving of writers, archival and
\* reclaiming (store.rs:853-1163).
THEOREM WritesInvariant == Spec => []WritesInv
BY WritesStart, WritesStep, PTL DEF Spec

\* A call that is done has stored what it accepted.
LEMMA LandedIsAccepted == WritesInv => AcceptedIsStored
<1> SUFFICES ASSUME WritesInv, NEW w \in Writers, call[w].pc = "ok", ~call[w].authored,
                    NEW n \in DOMAIN IncomingOf(call[w].batch)
             PROVE  \E r \in Visible :
                      /\ KeyOf(table, r) = StoredKey(IncomingOf(call[w].batch)[n])
                      /\ r.version = IncomingOf(call[w].batch)[n].version
                      /\ FromScaled(r.value) = IncomingOf(call[w].batch)[n].value
                      /\ r.melo = IncomingOf(call[w].batch)[n].melo
  BY DEF AcceptedIsStored
<1>1. IsBatch(call[w].batch)
  BY DEF WritesInv, CallsOk, CallShape
<1>2. PICK o : Numbers(IncomingOf(call[w].batch), o, call[w].batch)
  BY <1>1, IncomingPlaces
<1>3. o[n] \in PlacesOf(call[w].batch) /\ IncomingOf(call[w].batch)[n] = GivenAt(call[w].batch, o[n])
  BY <1>2 DEF Numbers
<1>4. Has(GivenAt(call[w].batch, o[n]))
  BY <1>3 DEF WritesInv, Landed
<1> QED BY <1>3, <1>4 DEF Has, Keeps

\* What append reports as accepted stays visible in the tier that owns it, whatever is routed,
\* archived and reclaimed meanwhile (store.rs:899, 929, 1163, 1558).
THEOREM AcceptedIsAlwaysStored == Spec => []AcceptedIsStored
BY WritesInvariant, LandedIsAccepted, PTL
=============================================================================
