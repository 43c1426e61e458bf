------------------------- MODULE EventStreamProofs --------------------------
(* Proofs about EventStream, for every stream and every way of cutting it  *)
(* into packets.                                                           *)
EXTENDS EventStream, FiniteSetTheorems, WellFoundedInduction, TLAPS

-----------------------------------------------------------------------------
(* Induction: a set of numbers that holds 0 and the successor of each of   *)
(* its members is all of them.                                             *)

LEMMA LeastNumber ==
  ASSUME NEW T \in SUBSET Nat, T # {}
  PROVE  \E m \in T : \A k \in T : m <= k
<1>1. IsWellFoundedOn(OpToRel(<, Nat), Nat)
  BY NatLessThanWellFounded
<1> DEFINE R == OpToRel(<, Nat)
<1>2. IsWellFoundedOn(R, Nat)
  BY <1>1
<1>3. \A x, y \in Nat : <<y, x>> \in R <=> y < x
  BY DEF OpToRel
<1> HIDE DEF R
<1>4. PICK m \in T : \A k \in T : ~ (<<k, m>> \in R)
  BY <1>2, WFMin
<1>5. \A k \in T : ~ (k < m)
  BY <1>3, <1>4
<1>6. \A k \in T : m <= k
  BY <1>5
<1>7. QED
  BY <1>6

LEMMA NatInduct ==
  ASSUME NEW T \in SUBSET Nat, 0 \in T, \A n \in T : n + 1 \in T
  PROVE  T = Nat
<1> SUFFICES ASSUME Nat \ T # {} PROVE FALSE
  OBVIOUS
<1>1. PICK m \in Nat \ T : \A k \in Nat \ T : m <= k
  BY LeastNumber
<1>2. m # 0
  BY <1>1
<1>3. m - 1 \in Nat /\ m - 1 \in T
  BY <1>1, <1>2
<1>4. QED
  BY <1>1, <1>3

-----------------------------------------------------------------------------
(* Sequences                                                               *)

IsSeq(s) == \E S : s \in Seq(S)

LEMMA EmptyFacts == Len(<<>>) = 0 /\ IsSeq(<<>>)
<1>1. <<>> \in Seq({})
  OBVIOUS
<1>2. IsSeq(<<>>)
  BY <1>1 DEF IsSeq
<1>3. Len(<<>>) = 0
  OBVIOUS
<1>4. QED
  BY <1>2, <1>3

LEMMA OneSeq == \A x : IsSeq(<<x>>) /\ Len(<<x>>) = 1 /\ <<x>>[1] = x
<1> SUFFICES ASSUME NEW x PROVE IsSeq(<<x>>) /\ Len(<<x>>) = 1 /\ <<x>>[1] = x
  OBVIOUS
<1>1. <<x>> \in Seq({x}) /\ Len(<<x>>) = 1 /\ <<x>>[1] = x
  OBVIOUS
<1>2. QED
  BY <1>1 DEF IsSeq

LEMMA SeqFacts ==
  ASSUME NEW s, IsSeq(s)
  PROVE  Len(s) \in Nat /\ DOMAIN s = 1 .. Len(s)
BY DEF IsSeq

LEMMA AppendFacts ==
  ASSUME NEW s, IsSeq(s), NEW x
  PROVE  /\ IsSeq(Append(s, x)) /\ Len(Append(s, x)) = Len(s) + 1
         /\ Append(s, x)[Len(s) + 1] = x
         /\ \A i \in 1 .. Len(s) : Append(s, x)[i] = s[i]
<1>1. PICK S : s \in Seq(S)
  BY DEF IsSeq
<1>2. s \in Seq(S \cup {x})
  BY <1>1
<1>3. Append(s, x) \in Seq(S \cup {x})
  BY <1>2
<1>4. QED
  BY <1>2, <1>3 DEF IsSeq

LEMMA ConcatFacts ==
  ASSUME NEW s, IsSeq(s), NEW t, IsSeq(t)
  PROVE  /\ IsSeq(s \o t) /\ Len(s \o t) = Len(s) + Len(t)
         /\ \A i \in 1 .. Len(s) : (s \o t)[i] = s[i]
         /\ \A i \in 1 .. Len(t) : (s \o t)[Len(s) + i] = t[i]
<1>1. PICK S : s \in Seq(S)
  BY DEF IsSeq
<1>2. PICK R : t \in Seq(R)
  BY DEF IsSeq
<1>3. s \in Seq(S \cup R) /\ t \in Seq(S \cup R)
  BY <1>1, <1>2
<1>4. s \o t \in Seq(S \cup R)
  BY <1>3
<1>5. QED
  BY <1>3, <1>4 DEF IsSeq

LEMMA SubSeqFacts ==
  ASSUME NEW s, IsSeq(s), NEW m \in 1 .. Len(s) + 1, NEW n \in 0 .. Len(s), m <= n + 1
  PROVE  /\ IsSeq(SubSeq(s, m, n)) /\ Len(SubSeq(s, m, n)) = n - m + 1
         /\ \A i \in 1 .. n - m + 1 : SubSeq(s, m, n)[i] = s[m + i - 1]
<1>1. PICK S : s \in Seq(S)
  BY DEF IsSeq
<1>2. SubSeq(s, m, n) \in Seq(S)
  BY <1>1
<1>3. QED
  BY <1>1, <1>2 DEF IsSeq

LEMMA SameSeq ==
  ASSUME NEW s, IsSeq(s), NEW t, IsSeq(t), Len(s) = Len(t), \A i \in 1 .. Len(s) : s[i] = t[i]
  PROVE  s = t
<1>1. PICK S : s \in Seq(S)
  BY DEF IsSeq
<1>2. PICK R : t \in Seq(R)
  BY DEF IsSeq
<1>3. s \in Seq(S \cup R) /\ t \in Seq(S \cup R)
  BY <1>1, <1>2
<1>4. QED
  BY <1>3

-----------------------------------------------------------------------------
(* The loops                                                               *)

\* A loop that steps the value before it is what its equation says.
LEMMA DrainDefined ==
  ASSUME NEW bytes, NEW n \in Nat
  PROVE  \E f : f = [k \in 0 .. n |-> IF k = 0 THEN Drained(<<>>, bytes, FALSE, FALSE)
                                               ELSE DrainOn(f[k - 1])]
<1> DEFINE Is(f, m) == f = [k \in 0 .. m |-> IF k = 0 THEN Drained(<<>>, bytes, FALSE, FALSE)
                                                        ELSE DrainOn(f[k - 1])]
           T == {m \in Nat : \E f : Is(f, m)}
<1>1. 0 \in T
  <2>1. Is([k \in 0 .. 0 |-> Drained(<<>>, bytes, FALSE, FALSE)], 0)
    OBVIOUS
  <2>2. QED
    BY <2>1
<1>2. ASSUME NEW m \in T
      PROVE  m + 1 \in T
  <2>1. PICK f : Is(f, m)
    OBVIOUS
  <2> DEFINE g == [k \in 0 .. m + 1 |-> IF k = m + 1 THEN DrainOn(f[m]) ELSE f[k]]
  <2>2. \A k \in 0 .. m + 1 : g[k] = IF k = 0 THEN Drained(<<>>, bytes, FALSE, FALSE)
                                              ELSE DrainOn(g[k - 1])
    BY <2>1
  <2>3. Is(g, m + 1)
    BY <2>2
  <2>4. m + 1 \in Nat
    OBVIOUS
  <2> HIDE DEF g
  <2>5. QED
    BY <2>3, <2>4, Zenon
<1>3. T = Nat
  <2> HIDE DEF T
  <2>1. T \in SUBSET Nat
    BY DEF T
  <2>2. QED
    BY <1>1, <1>2, <2>1, NatInduct
<1>4. QED
  BY <1>3

LEMMA DrainTurns ==
  ASSUME NEW bytes, Len(bytes) \in Nat
  PROVE  \E f : /\ f[0] = Drained(<<>>, bytes, FALSE, FALSE)
                /\ \A k \in 1 .. Len(bytes) : f[k] = DrainOn(f[k - 1])
                /\ Drain(bytes) = f[Len(bytes)]
<1> DEFINE F == CHOOSE f : f = [k \in 0 .. Len(bytes) |->
                  IF k = 0 THEN Drained(<<>>, bytes, FALSE, FALSE) ELSE DrainOn(f[k - 1])]
<1>1. F = [k \in 0 .. Len(bytes) |->
             IF k = 0 THEN Drained(<<>>, bytes, FALSE, FALSE) ELSE DrainOn(F[k - 1])]
  BY DrainDefined
<1>2. Drain(bytes) = F[Len(bytes)]
  BY DEF Drain
<1> HIDE DEF F
<1>3. F[0] = Drained(<<>>, bytes, FALSE, FALSE)
  BY <1>1
<1>4. \A k \in 1 .. Len(bytes) : F[k] = DrainOn(F[k - 1])
  BY <1>1
<1>5. QED
  BY <1>2, <1>3, <1>4

-----------------------------------------------------------------------------
(* What the first m events of a list say                                   *)

TrustedTo(L, m) == {i \in 1 .. m : \A j \in 1 .. i : ~Refused(L, j)}
StartsTo(L, m) == {i \in TrustedTo(L, m) : IsLifecycle(L[i])}
FinalsTo(L, m) == {i \in TrustedTo(L, m) : Ends(L[i])}
ErrorsTo(L, m) == {i \in TrustedTo(L, m) : NameOf(L[i]) = "error"}

IdAgrees(L, m, s) ==
  /\ StartsTo(L, m) = {} => s.id = None
  /\ \A i \in StartsTo(L, m) : Said(L[i]).id = s.id

SummaryAgrees(L, m, s) ==
  /\ FinalsTo(L, m) = {} => s.terminal = Unreadable
  /\ \A i \in FinalsTo(L, m) : Said(L[i]) = s.terminal

Single(S, T) == Cardinality(S) = IF T = {} THEN 0 ELSE 1

SeenAgrees(L, m, s) ==
  /\ IsSeq(s.seen)
  /\ Single(Of(s.seen, "id"), StartsTo(L, m))
  /\ \A k \in Of(s.seen, "id") : s.seen[k] = SeesId(s.id)
  /\ Single(Of(s.seen, "terminal"), FinalsTo(L, m))
  /\ \A k \in Of(s.seen, "terminal") :
       s.seen[k] = SeesTerminal(s.terminal) /\ \E j \in Of(s.seen, "id") : j < k
  /\ Cardinality(Of(s.seen, "error")) = Cardinality(ErrorsTo(L, m))

Troubles == {"malformed", "ids", "terminals"}

FailAgrees(L, m, s) ==
  /\ s.failure \in Troubles \cup {None}
  /\ s.failure = None <=> TrustedTo(L, m) = 1 .. m

\* The observer's fields are what the first m events say.
AgreesTo(L, m, s) ==
  IdAgrees(L, m, s) /\ SummaryAgrees(L, m, s) /\ SeenAgrees(L, m, s) /\ FailAgrees(L, m, s)

LEMMA SameList ==
  ASSUME NEW L, NEW M, NEW m \in Nat, \A i \in 1 .. m : L[i] = M[i],
         NEW s, AgreesTo(L, m, s)
  PROVE  AgreesTo(M, m, s)
<1>1. \A i \in 1 .. m : Refused(L, i) <=> Refused(M, i)
  BY DEF Refused
<1>2. TrustedTo(L, m) = TrustedTo(M, m)
  BY <1>1 DEF TrustedTo
<1>3. TrustedTo(L, m) \subseteq 1 .. m
  BY DEF TrustedTo
<1>4. /\ StartsTo(L, m) = StartsTo(M, m) /\ FinalsTo(L, m) = FinalsTo(M, m)
      /\ ErrorsTo(L, m) = ErrorsTo(M, m)
  BY <1>2, <1>3 DEF StartsTo, FinalsTo, ErrorsTo
<1>5. IdAgrees(M, m, s) /\ SummaryAgrees(M, m, s)
  <2>1. StartsTo(L, m) \subseteq 1 .. m /\ FinalsTo(L, m) \subseteq 1 .. m
    BY <1>3 DEF StartsTo, FinalsTo
  <2>2. QED
    BY <1>4, <2>1 DEF AgreesTo, IdAgrees, SummaryAgrees
<1>6. SeenAgrees(M, m, s) /\ FailAgrees(M, m, s)
  BY <1>2, <1>4 DEF AgreesTo, SeenAgrees, FailAgrees
<1>7. QED
  BY <1>5, <1>6 DEF AgreesTo

LEMMA OfFinite ==
  ASSUME NEW s, IsSeq(s), NEW kind
  PROVE  Of(s, kind) \subseteq 1 .. Len(s) /\ IsFiniteSet(Of(s, kind)) /\ Cardinality(Of(s, kind)) \in Nat
<1>1. Len(s) \in Nat /\ DOMAIN s = 1 .. Len(s)
  BY SeqFacts
<1>2. Of(s, kind) \subseteq 1 .. Len(s)
  BY <1>1 DEF Of
<1>3. IsFiniteSet(1 .. Len(s))
  BY <1>1, FS_Interval
<1>4. IsFiniteSet(Of(s, kind))
  BY <1>2, <1>3, FS_Subset
<1>5. QED
  BY <1>2, <1>4, FS_CardinalityType

LEMMA OfAppend ==
  ASSUME NEW s, IsSeq(s), NEW x, NEW kind
  PROVE  /\ x.sees # kind => Of(Append(s, x), kind) = Of(s, kind)
         /\ x.sees = kind => /\ Of(Append(s, x), kind) = Of(s, kind) \cup {Len(s) + 1}
                             /\ Cardinality(Of(Append(s, x), kind)) = Cardinality(Of(s, kind)) + 1
<1>1. /\ Len(s) \in Nat /\ DOMAIN s = 1 .. Len(s)
      /\ DOMAIN Append(s, x) = 1 .. Len(s) + 1
      /\ Append(s, x)[Len(s) + 1] = x
      /\ \A i \in 1 .. Len(s) : Append(s, x)[i] = s[i]
  BY SeqFacts, AppendFacts
<1>2. /\ x.sees # kind => Of(Append(s, x), kind) = Of(s, kind)
      /\ x.sees = kind => Of(Append(s, x), kind) = Of(s, kind) \cup {Len(s) + 1}
  BY <1>1 DEF Of
<1>3. Len(s) + 1 \notin Of(s, kind) /\ IsFiniteSet(Of(s, kind))
  BY <1>1, OfFinite
<1>4. Cardinality(Of(s, kind) \cup {Len(s) + 1}) = Cardinality(Of(s, kind)) + 1
  BY <1>3, FS_AddElement
<1>5. QED
  BY <1>2, <1>4

LEMMA SawId ==
  ASSUME NEW s, IsSeq(s), NEW id
  PROVE  /\ IsSeq(Append(s, SeesId(id))) /\ Append(s, SeesId(id))[Len(s) + 1] = SeesId(id)
         /\ \A k \in 1 .. Len(s) : Append(s, SeesId(id))[k] = s[k]
         /\ Of(Append(s, SeesId(id)), "id") = Of(s, "id") \cup {Len(s) + 1}
         /\ Cardinality(Of(Append(s, SeesId(id)), "id")) = Cardinality(Of(s, "id")) + 1
         /\ Of(Append(s, SeesId(id)), "terminal") = Of(s, "terminal")
         /\ Of(Append(s, SeesId(id)), "error") = Of(s, "error")
<1> DEFINE x == SeesId(id)
           t == Append(s, x)
<1>1. x.sees = "id"
  BY DEF SeesId
<1> HIDE DEF x
<1>2. IsSeq(t) /\ t[Len(s) + 1] = x /\ \A k \in 1 .. Len(s) : t[k] = s[k]
  BY AppendFacts
<1>3. /\ Of(t, "id") = Of(s, "id") \cup {Len(s) + 1}
      /\ Cardinality(Of(t, "id")) = Cardinality(Of(s, "id")) + 1
  BY <1>1, OfAppend, Zenon
<1>4. x.sees # "terminal" /\ x.sees # "error"
  BY <1>1
<1>5. Of(t, "terminal") = Of(s, "terminal") /\ Of(t, "error") = Of(s, "error")
  BY <1>4, OfAppend, Zenon
<1>6. QED
  BY <1>2, <1>3, <1>5 DEF x

LEMMA SawTerminal ==
  ASSUME NEW s, IsSeq(s), NEW said
  PROVE  /\ IsSeq(Append(s, SeesTerminal(said))) /\ Append(s, SeesTerminal(said))[Len(s) + 1] = SeesTerminal(said)
         /\ \A k \in 1 .. Len(s) : Append(s, SeesTerminal(said))[k] = s[k]
         /\ Of(Append(s, SeesTerminal(said)), "terminal") = Of(s, "terminal") \cup {Len(s) + 1}
         /\ Cardinality(Of(Append(s, SeesTerminal(said)), "terminal")) = Cardinality(Of(s, "terminal")) + 1
         /\ Of(Append(s, SeesTerminal(said)), "id") = Of(s, "id")
         /\ Of(Append(s, SeesTerminal(said)), "error") = Of(s, "error")
<1> DEFINE x == SeesTerminal(said)
           t == Append(s, x)
<1>1. x.sees = "terminal"
  BY DEF SeesTerminal
<1> HIDE DEF x
<1>2. IsSeq(t) /\ t[Len(s) + 1] = x /\ \A k \in 1 .. Len(s) : t[k] = s[k]
  BY AppendFacts
<1>3. /\ Of(t, "terminal") = Of(s, "terminal") \cup {Len(s) + 1}
      /\ Cardinality(Of(t, "terminal")) = Cardinality(Of(s, "terminal")) + 1
  BY <1>1, OfAppend, Zenon
<1>4. x.sees # "id" /\ x.sees # "error"
  BY <1>1
<1>5. Of(t, "id") = Of(s, "id") /\ Of(t, "error") = Of(s, "error")
  BY <1>4, OfAppend, Zenon
<1>6. QED
  BY <1>2, <1>3, <1>5 DEF x

LEMMA NoneOf ==
  ASSUME NEW s, IsSeq(s), NEW kind
  PROVE  Cardinality(Of(s, kind)) = 0 <=> Of(s, kind) = {}
<1>1. IsFiniteSet(Of(s, kind))
  BY OfFinite
<1>2. QED
  BY <1>1, FS_EmptySet

LEMMA SingleSays ==
  ASSUME NEW S, NEW T
  PROVE  /\ T = {} => (Single(S, T) <=> Cardinality(S) = 0)
         /\ T # {} => (Single(S, T) <=> Cardinality(S) = 1)
BY DEF Single

\* A trusted event that starts names a response.
LEMMA TrustedSays ==
  ASSUME NEW L, NEW m \in Nat, NEW s, AgreesTo(L, m, s)
  PROVE  /\ s.id = None <=> StartsTo(L, m) = {}
         /\ s.terminal = Unreadable <=> FinalsTo(L, m) = {}
         /\ FinalsTo(L, m) \subseteq StartsTo(L, m)
<1>1. ASSUME NEW i \in StartsTo(L, m)
      PROVE  Said(L[i]).id # None
  <2>1. i \in 1 .. m /\ ~Refused(L, i) /\ IsLifecycle(L[i])
    BY DEF StartsTo, TrustedTo
  <2>2. QED
    BY <2>1 DEF Refused
<1>2. ASSUME NEW i \in FinalsTo(L, m)
      PROVE  Said(L[i]) # Unreadable
  BY DEF FinalsTo, Ends, Unreadable, TerminalStatus, None
<1>3. QED
  BY <1>1, <1>2 DEF AgreesTo, IdAgrees, SummaryAgrees, FinalsTo, StartsTo, Ends

\* The trusted events end at the first refused one.
LEMMA TrustedGrows ==
  ASSUME NEW L, NEW m \in Nat
  PROVE  /\ TrustedTo(L, m) # 1 .. m => TrustedTo(L, m + 1) = TrustedTo(L, m)
         /\ Refused(L, m + 1) => TrustedTo(L, m + 1) = TrustedTo(L, m)
         /\ TrustedTo(L, m + 1) = 1 .. m + 1 <=>
              TrustedTo(L, m) = 1 .. m /\ ~Refused(L, m + 1)
<1>1. TrustedTo(L, m + 1) \cap 1 .. m = TrustedTo(L, m)
  BY DEF TrustedTo
<1>2. m + 1 \in TrustedTo(L, m + 1) <=> TrustedTo(L, m) = 1 .. m /\ ~Refused(L, m + 1)
  BY DEF TrustedTo
<1>3. TrustedTo(L, m + 1) \subseteq 1 .. m + 1 /\ TrustedTo(L, m) \subseteq 1 .. m
  BY DEF TrustedTo
<1>4. 1 .. m + 1 = (1 .. m) \cup {m + 1} /\ m + 1 \notin 1 .. m
  OBVIOUS
<1>5. m + 1 \notin TrustedTo(L, m + 1) => TrustedTo(L, m + 1) = TrustedTo(L, m)
  BY <1>1, <1>3, <1>4
<1>6. m + 1 \in TrustedTo(L, m + 1) => TrustedTo(L, m + 1) = TrustedTo(L, m) \cup {m + 1}
  BY <1>1, <1>3, <1>4
<1>7. QED
  BY <1>2, <1>3, <1>4, <1>5, <1>6

\* One more trusted event.
LEMMA ListsGrow ==
  ASSUME NEW L, NEW m \in Nat, TrustedTo(L, m) = 1 .. m, ~Refused(L, m + 1)
  PROVE  /\ IsLifecycle(L[m + 1]) => StartsTo(L, m + 1) = StartsTo(L, m) \cup {m + 1}
         /\ ~IsLifecycle(L[m + 1]) => StartsTo(L, m + 1) = StartsTo(L, m)
         /\ Ends(L[m + 1]) => FinalsTo(L, m + 1) = FinalsTo(L, m) \cup {m + 1}
         /\ ~Ends(L[m + 1]) => FinalsTo(L, m + 1) = FinalsTo(L, m)
         /\ NameOf(L[m + 1]) = "error" =>
              Cardinality(ErrorsTo(L, m + 1)) = Cardinality(ErrorsTo(L, m)) + 1
         /\ NameOf(L[m + 1]) # "error" => ErrorsTo(L, m + 1) = ErrorsTo(L, m)
<1>1. TrustedTo(L, m + 1) = (1 .. m) \cup {m + 1} /\ m + 1 \notin 1 .. m
  BY TrustedGrows
<1>2. /\ IsLifecycle(L[m + 1]) => StartsTo(L, m + 1) = StartsTo(L, m) \cup {m + 1}
      /\ ~IsLifecycle(L[m + 1]) => StartsTo(L, m + 1) = StartsTo(L, m)
  BY <1>1 DEF StartsTo
<1>3. /\ Ends(L[m + 1]) => FinalsTo(L, m + 1) = FinalsTo(L, m) \cup {m + 1}
      /\ ~Ends(L[m + 1]) => FinalsTo(L, m + 1) = FinalsTo(L, m)
  BY <1>1 DEF FinalsTo
<1>4. /\ NameOf(L[m + 1]) = "error" => ErrorsTo(L, m + 1) = ErrorsTo(L, m) \cup {m + 1}
      /\ NameOf(L[m + 1]) # "error" => ErrorsTo(L, m + 1) = ErrorsTo(L, m)
  BY <1>1 DEF ErrorsTo
<1>5. ErrorsTo(L, m) \subseteq 1 .. m
  BY DEF ErrorsTo
<1>6. IsFiniteSet(ErrorsTo(L, m))
  <2>1. IsFiniteSet(1 .. m)
    BY FS_Interval
  <2>2. QED
    BY <1>5, <2>1, FS_Subset
<1>7. Cardinality(ErrorsTo(L, m) \cup {m + 1}) = Cardinality(ErrorsTo(L, m)) + 1
  BY <1>1, <1>5, <1>6, FS_AddElement
<1>8. QED
  BY <1>2, <1>3, <1>4, <1>7

\* The observer refuses the events that contradict the ones before them.
LEMMA RefusedAsTrouble ==
  ASSUME NEW L, NEW m \in Nat, NEW s, AgreesTo(L, m, s), s.failure = None,
         IsLifecycle(L[m + 1])
  PROVE  /\ Trouble(s, L[m + 1]) \in Troubles \cup {None}
         /\ Refused(L, m + 1) <=> Trouble(s, L[m + 1]) # None
<1> DEFINE said == Said(L[m + 1])
<1>1. TrustedTo(L, m) = 1 .. m
  BY DEF AgreesTo, FailAgrees
<1>2. \A j \in 1 .. m : IsLifecycle(L[j]) <=> j \in StartsTo(L, m)
  BY <1>1 DEF StartsTo
<1>3. \A j \in 1 .. m : Ends(L[j]) <=> j \in FinalsTo(L, m)
  BY <1>1 DEF FinalsTo
<1>4. StartsTo(L, m) \subseteq 1 .. m /\ FinalsTo(L, m) \subseteq 1 .. m
  BY <1>1 DEF StartsTo, FinalsTo
<1>5. s.id \notin {None, said.id} <=>
        \E j \in 1 .. m : IsLifecycle(L[j]) /\ Said(L[j]).id # said.id
  BY <1>2, <1>4, TrustedSays DEF AgreesTo, IdAgrees
<1>6. s.terminal \notin {Unreadable, said} <=>
        \E j \in 1 .. m : Ends(L[j]) /\ Said(L[j]) # said
  BY <1>3, <1>4, TrustedSays DEF AgreesTo, SummaryAgrees
<1>7. Ends(L[m + 1]) <=> said.status \in TerminalStatus
  BY DEF Ends
<1>8. (m + 1) - 1 = m
  OBVIOUS
<1>9. Refused(L, m + 1) <=>
        \/ said.id = None
        \/ said.type \notin {None, NameOf(L[m + 1])}
        \/ s.id \notin {None, said.id}
        \/ said.status \in TerminalStatus /\ s.terminal \notin {Unreadable, said}
  BY <1>5, <1>6, <1>7, <1>8 DEF Refused
<1>10. QED
  BY <1>9 DEF Trouble, Troubles, None

\* An observer that has failed knows all it will.
LEMMA StaysAgreed ==
  ASSUME NEW L, NEW m \in Nat, NEW s, AgreesTo(L, m, s), s.failure # None
  PROVE  AgreesTo(L, m + 1, s)
<1>1. TrustedTo(L, m) # 1 .. m
  BY DEF AgreesTo, FailAgrees
<1>2. TrustedTo(L, m + 1) = TrustedTo(L, m) /\ TrustedTo(L, m + 1) # 1 .. m + 1
  BY <1>1, TrustedGrows
<1>3. /\ StartsTo(L, m + 1) = StartsTo(L, m) /\ FinalsTo(L, m + 1) = FinalsTo(L, m)
      /\ ErrorsTo(L, m + 1) = ErrorsTo(L, m)
  BY <1>2 DEF StartsTo, FinalsTo, ErrorsTo
<1>4. FailAgrees(L, m + 1, s)
  BY <1>1, <1>2 DEF AgreesTo, FailAgrees
<1>5. QED
  BY <1>3, <1>4 DEF AgreesTo, IdAgrees, SummaryAgrees, SeenAgrees

\* The first event that is refused fails it.
LEMMA RefusalAgrees ==
  ASSUME NEW L, NEW m \in Nat, NEW s, AgreesTo(L, m, s), s.failure = None,
         Refused(L, m + 1), NEW trouble \in Troubles
  PROVE  AgreesTo(L, m + 1, State(s.id, s.terminal, trouble, s.seen))
<1> DEFINE t == State(s.id, s.terminal, trouble, s.seen)
<1>1. t.id = s.id /\ t.terminal = s.terminal /\ t.seen = s.seen /\ t.failure = trouble
  BY DEF State
<1> HIDE DEF t
<1>2. TrustedTo(L, m + 1) = TrustedTo(L, m) /\ TrustedTo(L, m + 1) # 1 .. m + 1
  BY TrustedGrows
<1>3. /\ StartsTo(L, m + 1) = StartsTo(L, m) /\ FinalsTo(L, m + 1) = FinalsTo(L, m)
      /\ ErrorsTo(L, m + 1) = ErrorsTo(L, m)
  BY <1>2 DEF StartsTo, FinalsTo, ErrorsTo
<1>4. trouble # None
  BY DEF Troubles, None
<1>5. FailAgrees(L, m + 1, t)
  BY <1>1, <1>2, <1>4 DEF FailAgrees
<1>6. AgreesTo(L, m + 1, t)
  BY <1>1, <1>3, <1>5 DEF AgreesTo, IdAgrees, SummaryAgrees, SeenAgrees
<1>7. QED
  BY <1>6 DEF t

\* An event that does not belong to the lifecycle is at most an error.
LEMMA OtherAgrees ==
  ASSUME NEW L, NEW m \in Nat, NEW s, AgreesTo(L, m, s), s.failure = None,
         ~IsLifecycle(L[m + 1]),
         NEW seen, NameOf(L[m + 1]) = "error" => seen = Append(s.seen, SeesError),
         NameOf(L[m + 1]) # "error" => seen = s.seen
  PROVE  AgreesTo(L, m + 1, State(s.id, s.terminal, None, seen))
<1> DEFINE t == State(s.id, s.terminal, None, seen)
<1>1. t.id = s.id /\ t.terminal = s.terminal /\ t.seen = seen /\ t.failure = None
  BY DEF State
<1> HIDE DEF t
<1>2. ~Refused(L, m + 1) /\ ~Ends(L[m + 1])
  BY DEF Refused, Ends
<1>3. TrustedTo(L, m) = 1 .. m
  BY DEF AgreesTo, FailAgrees
<1>4. FailAgrees(L, m + 1, t)
  BY <1>1, <1>2, <1>3, TrustedGrows DEF FailAgrees
<1>5. StartsTo(L, m + 1) = StartsTo(L, m) /\ FinalsTo(L, m + 1) = FinalsTo(L, m)
  BY <1>2, <1>3, ListsGrow
<1>6. IdAgrees(L, m + 1, t) /\ SummaryAgrees(L, m + 1, t)
  BY <1>1, <1>5 DEF AgreesTo, IdAgrees, SummaryAgrees
<1>7. SeenAgrees(L, m, s)
  BY DEF AgreesTo
<1>8. SeenAgrees(L, m + 1, t)
  <2>1. CASE NameOf(L[m + 1]) # "error"
    <3>1. ErrorsTo(L, m + 1) = ErrorsTo(L, m)
      BY <1>2, <1>3, <2>1, ListsGrow
    <3>2. QED
      BY <1>1, <1>5, <1>7, <2>1, <3>1 DEF SeenAgrees
  <2>2. CASE NameOf(L[m + 1]) = "error"
    <3>1. IsSeq(s.seen) /\ seen = Append(s.seen, SeesError)
      BY <1>7, <2>2 DEF SeenAgrees
    <3>2. SeesError.sees = "error"
      BY DEF SeesError
    <3>3. /\ Of(seen, "id") = Of(s.seen, "id")
          /\ Of(seen, "terminal") = Of(s.seen, "terminal")
          /\ Cardinality(Of(seen, "error")) = Cardinality(Of(s.seen, "error")) + 1
      BY <3>1, <3>2, OfAppend
    <3>4. /\ IsSeq(seen)
          /\ \A k \in Of(s.seen, "id") \cup Of(s.seen, "terminal") : seen[k] = s.seen[k]
      BY <3>1, AppendFacts, OfFinite
    <3>5. Cardinality(ErrorsTo(L, m + 1)) = Cardinality(ErrorsTo(L, m)) + 1
      BY <1>2, <1>3, <2>2, ListsGrow
    <3>6. QED
      BY <1>1, <1>5, <1>7, <3>3, <3>4, <3>5 DEF SeenAgrees
  <2>3. QED
    BY <2>1, <2>2
<1>9. AgreesTo(L, m + 1, t)
  BY <1>4, <1>6, <1>8 DEF AgreesTo
<1>10. QED
  BY <1>9 DEF t

LEMMA NoTrouble ==
  \A s, e : Trouble(s, e) = None =>
    /\ Said(e).id # None /\ Said(e).type \in {None, NameOf(e)} /\ s.id \in {None, Said(e).id}
    /\ Said(e).status \in TerminalStatus => s.terminal \in {Unreadable, Said(e)}
BY DEF Trouble, None

\* A lifecycle event without trouble: the first one names the response, the
\* first final one gives the summary.
LEMMA LifecycleAgrees ==
  ASSUME NEW L, NEW m \in Nat, NEW s, AgreesTo(L, m, s), s.failure = None,
         IsLifecycle(L[m + 1]), Trouble(s, L[m + 1]) = None,
         NEW last, NEW named, NEW seen,
         s.id = None => named = Append(s.seen, SeesId(Said(L[m + 1]).id)),
         s.id # None => named = s.seen,
         Ends(L[m + 1]) /\ s.terminal = Unreadable =>
           seen = Append(named, SeesTerminal(Said(L[m + 1]))) /\ last = Said(L[m + 1]),
         ~(Ends(L[m + 1]) /\ s.terminal = Unreadable) => seen = named /\ last = s.terminal
  PROVE  AgreesTo(L, m + 1, State(Said(L[m + 1]).id, last, None, seen))
<1> DEFINE said == Said(L[m + 1])
           id == said.id
           t == State(id, last, None, seen)
<1>1. t.id = id /\ t.terminal = last /\ t.seen = seen /\ t.failure = None
  BY DEF State
<1> HIDE DEF t
<1>2. ~Refused(L, m + 1)
  BY RefusedAsTrouble
<1>3. TrustedTo(L, m) = 1 .. m
  BY DEF AgreesTo, FailAgrees
<1>4. FailAgrees(L, m + 1, t)
  BY <1>1, <1>2, <1>3, TrustedGrows DEF FailAgrees
<1>5. StartsTo(L, m + 1) = StartsTo(L, m) \cup {m + 1}
  BY <1>2, <1>3, ListsGrow
<1>6. /\ id # None /\ s.id \in {None, id}
      /\ Ends(L[m + 1]) => s.terminal \in {Unreadable, said}
  BY NoTrouble DEF Ends
<1>7. /\ s.id = None <=> StartsTo(L, m) = {}
      /\ s.terminal = Unreadable <=> FinalsTo(L, m) = {}
  BY TrustedSays
<1>8. IdAgrees(L, m + 1, t)
  <2>1. \A i \in StartsTo(L, m) : Said(L[i]).id = id
    BY <1>6, <1>7 DEF AgreesTo, IdAgrees
  <2>2. QED
    BY <1>1, <1>5, <2>1 DEF IdAgrees
<1>9. SummaryAgrees(L, m, s)
  BY DEF AgreesTo
<1>10. SummaryAgrees(L, m + 1, t)
  <2>1. CASE Ends(L[m + 1])
    <3>1. FinalsTo(L, m + 1) = FinalsTo(L, m) \cup {m + 1}
      BY <1>2, <1>3, <2>1, ListsGrow
    <3>2. last = said
      BY <1>6, <2>1
    <3>3. \A i \in FinalsTo(L, m) : Said(L[i]) = said
      BY <1>6, <1>7, <1>9, <2>1 DEF SummaryAgrees
    <3>4. QED
      BY <1>1, <3>1, <3>2, <3>3 DEF SummaryAgrees
  <2>2. CASE ~Ends(L[m + 1])
    <3>1. FinalsTo(L, m + 1) = FinalsTo(L, m) /\ last = s.terminal
      BY <1>2, <1>3, <2>2, ListsGrow
    <3>2. QED
      BY <1>1, <1>9, <3>1 DEF SummaryAgrees
  <2>3. QED
    BY <2>1, <2>2
<1>11. SeenAgrees(L, m, s) /\ IsSeq(s.seen)
  BY DEF AgreesTo, SeenAgrees
<1>12. SeesId(id).sees = "id" /\ SeesTerminal(said).sees = "terminal"
  BY DEF SeesId, SeesTerminal
<1>13. /\ IsSeq(named) /\ Single(Of(named, "id"), StartsTo(L, m + 1))
       /\ \A k \in Of(named, "id") : named[k] = SeesId(id)
       /\ Of(named, "id") # {}
       /\ Of(named, "terminal") = Of(s.seen, "terminal")
       /\ \A k \in Of(s.seen, "terminal") : named[k] = s.seen[k]
       /\ Of(named, "error") = Of(s.seen, "error")
  <2>1. CASE s.id = None
    <3> named = Append(s.seen, SeesId(id))
      BY <2>1
    <3>1. /\ IsSeq(named) /\ named[Len(s.seen) + 1] = SeesId(id)
          /\ \A k \in 1 .. Len(s.seen) : named[k] = s.seen[k]
      BY <1>11, SawId, Zenon
    <3>2. /\ Of(named, "id") = Of(s.seen, "id") \cup {Len(s.seen) + 1}
          /\ Cardinality(Of(named, "id")) = Cardinality(Of(s.seen, "id")) + 1
          /\ Of(named, "terminal") = Of(s.seen, "terminal")
          /\ Of(named, "error") = Of(s.seen, "error")
      BY <1>11, SawId, Zenon
    <3>3. Cardinality(Of(s.seen, "id")) = 0
      BY <1>7, <1>11, <2>1, SingleSays DEF SeenAgrees
    <3>4. Of(s.seen, "id") = {}
      BY <1>11, <3>3, NoneOf
    <3>5. Of(s.seen, "terminal") \subseteq 1 .. Len(s.seen)
      BY <1>11, OfFinite
    <3>6. Single(Of(named, "id"), StartsTo(L, m + 1))
      <4>1. Cardinality(Of(named, "id")) = 1
        BY <3>2, <3>3
      <4>2. QED
        BY <1>5, <4>1, SingleSays
    <3>7. QED
      BY <3>1, <3>2, <3>4, <3>5, <3>6
  <2>2. CASE s.id # None
    <3>1. named = s.seen /\ s.id = id
      BY <1>6, <2>2
    <3>2. Cardinality(Of(s.seen, "id")) = 1
      BY <1>7, <1>11, <2>2, SingleSays DEF SeenAgrees
    <3>3. Of(s.seen, "id") # {}
      BY <1>11, <3>2, NoneOf
    <3>4. Single(Of(named, "id"), StartsTo(L, m + 1))
      BY <1>5, <3>1, <3>2, SingleSays
    <3>5. QED
      BY <1>11, <3>1, <3>3, <3>4 DEF SeenAgrees
  <2>3. QED
    BY <2>1, <2>2
<1>14. NameOf(L[m + 1]) # "error"
  BY DEF IsLifecycle, Lifecycle
<1>15. ErrorsTo(L, m + 1) = ErrorsTo(L, m)
  BY <1>2, <1>3, <1>14, ListsGrow
<1>16. SeenAgrees(L, m + 1, t)
  <2>1. CASE Ends(L[m + 1]) /\ s.terminal = Unreadable
    <3> seen = Append(named, SeesTerminal(said)) /\ last = said
      BY <2>1
    <3>1. /\ IsSeq(seen) /\ seen[Len(named) + 1] = SeesTerminal(said)
          /\ \A k \in 1 .. Len(named) : seen[k] = named[k]
      BY <1>13, SawTerminal, Zenon
    <3>2. /\ Of(seen, "id") = Of(named, "id")
          /\ Of(seen, "terminal") = Of(named, "terminal") \cup {Len(named) + 1}
          /\ Cardinality(Of(seen, "terminal")) = Cardinality(Of(named, "terminal")) + 1
          /\ Of(seen, "error") = Of(named, "error")
      BY <1>13, SawTerminal, Zenon
    <3>3. Cardinality(Of(named, "terminal")) = 0
      BY <1>7, <1>11, <1>13, <2>1, SingleSays DEF SeenAgrees
    <3>4. Of(named, "terminal") = {}
      BY <1>13, <3>3, NoneOf
    <3>5. Of(named, "id") \subseteq 1 .. Len(named) /\ Len(named) \in Nat
      BY <1>13, OfFinite, SeqFacts
    <3>6. FinalsTo(L, m + 1) = FinalsTo(L, m) \cup {m + 1}
      BY <1>2, <1>3, <2>1, ListsGrow
    <3>7. Single(Of(seen, "terminal"), FinalsTo(L, m + 1))
      <4>1. Cardinality(Of(seen, "terminal")) = 1
        BY <3>2, <3>3
      <4>2. QED
        BY <3>6, <4>1, SingleSays
    <3>8. Single(Of(seen, "id"), StartsTo(L, m + 1))
      BY <1>13, <3>2
    <3>9. \A k \in Of(seen, "id") : seen[k] = SeesId(id)
      BY <1>13, <3>1, <3>2, <3>5
    <3>10. \A k \in Of(seen, "terminal") :
             seen[k] = SeesTerminal(last) /\ \E j \in Of(seen, "id") : j < k
      BY <1>13, <3>1, <3>2, <3>4, <3>5
    <3>11. Cardinality(Of(seen, "error")) = Cardinality(ErrorsTo(L, m + 1))
      BY <1>11, <1>13, <1>15, <3>2 DEF SeenAgrees
    <3>12. QED
      BY <1>1, <3>1, <3>7, <3>8, <3>9, <3>10, <3>11 DEF SeenAgrees
  <2>2. CASE ~(Ends(L[m + 1]) /\ s.terminal = Unreadable)
    <3>1. seen = named /\ last = s.terminal
      BY <2>2
    <3>2. Single(Of(named, "terminal"), FinalsTo(L, m + 1))
      <4>1. Single(Of(named, "terminal"), FinalsTo(L, m))
        BY <1>11, <1>13 DEF SeenAgrees
      <4>2. FinalsTo(L, m + 1) = {} <=> FinalsTo(L, m) = {}
        <5>1. CASE Ends(L[m + 1])
          BY <1>2, <1>3, <1>7, <2>2, <5>1, ListsGrow
        <5>2. CASE ~Ends(L[m + 1])
          BY <1>2, <1>3, <5>2, ListsGrow
        <5>3. QED
          BY <5>1, <5>2
      <4>3. QED
        BY <4>1, <4>2 DEF Single
    <3>3. \A k \in Of(named, "terminal") :
            named[k] = SeesTerminal(last) /\ \E j \in Of(named, "id") : j < k
      <4>1. CASE s.id = None
        <5>1. FinalsTo(L, m) = {}
          BY <1>7, <4>1, TrustedSays
        <5>2. Cardinality(Of(s.seen, "terminal")) = 0
          BY <1>11, <5>1, SingleSays DEF SeenAgrees
        <5>3. Of(s.seen, "terminal") = {}
          BY <1>11, <5>2, NoneOf
        <5>4. QED
          BY <1>13, <5>3
      <4>2. CASE s.id # None
        BY <1>11, <3>1, <4>2 DEF SeenAgrees
      <4>3. QED
        BY <4>1, <4>2
    <3>4. Cardinality(Of(named, "error")) = Cardinality(ErrorsTo(L, m + 1))
      BY <1>11, <1>13, <1>15 DEF SeenAgrees
    <3>5. QED
      BY <1>1, <1>13, <3>1, <3>2, <3>3, <3>4 DEF SeenAgrees
  <2>3. QED
    BY <2>1, <2>2
<1>17. AgreesTo(L, m + 1, t)
  BY <1>4, <1>8, <1>10, <1>16 DEF AgreesTo
<1>18. QED
  BY <1>17 DEF t

\* observe keeps the fields to what the events say.
LEMMA ObserveAgrees ==
  ASSUME NEW L, NEW m \in Nat, NEW s, AgreesTo(L, m, s), s.failure = None
  PROVE  AgreesTo(L, m + 1, Observe(s, L[m + 1]))
<1> DEFINE event == L[m + 1]
           said == Said(event)
           trouble == Trouble(s, event)
           seen == IF s.id = None THEN Append(s.seen, SeesId(said.id)) ELSE s.seen
           after == State(said.id, s.terminal, None, seen)
           final == State(said.id, said, None, Append(seen, SeesTerminal(said)))
<1>1. Observe(s, event) =
        IF NameOf(event) = "error"
        THEN State(s.id, s.terminal, s.failure, Append(s.seen, SeesError))
        ELSE IF NameOf(event) \notin Lifecycle THEN s
        ELSE IF trouble # None THEN State(s.id, s.terminal, trouble, s.seen)
        ELSE IF said.status \in TerminalStatus /\ s.terminal = Unreadable THEN final ELSE after
  BY DEF Observe
<1> HIDE DEF seen, after, final, trouble, event
<1>2. CASE NameOf(event) = "error"
  <2>1. ~IsLifecycle(event)
    BY <1>2 DEF IsLifecycle, Lifecycle
  <2>2. AgreesTo(L, m + 1, State(s.id, s.terminal, None, Append(s.seen, SeesError)))
    BY <1>2, <2>1, OtherAgrees DEF event
  <2>3. QED
    BY <1>1, <1>2, <2>2 DEF event
<1>3. CASE NameOf(event) # "error" /\ ~IsLifecycle(event)
  <2>1. ~Refused(L, m + 1) /\ ~Ends(L[m + 1])
    BY <1>3 DEF Refused, Ends, event
  <2>2. TrustedTo(L, m) = 1 .. m
    BY DEF AgreesTo, FailAgrees
  <2>3. /\ StartsTo(L, m + 1) = StartsTo(L, m) /\ FinalsTo(L, m + 1) = FinalsTo(L, m)
        /\ ErrorsTo(L, m + 1) = ErrorsTo(L, m)
    BY <1>3, <2>1, <2>2, ListsGrow DEF event
  <2>4. FailAgrees(L, m + 1, s)
    BY <2>1, <2>2, TrustedGrows DEF AgreesTo, FailAgrees
  <2>5. AgreesTo(L, m + 1, s)
    BY <2>3, <2>4 DEF AgreesTo, IdAgrees, SummaryAgrees, SeenAgrees
  <2>6. Observe(s, event) = s
    BY <1>1, <1>3 DEF IsLifecycle
  <2>7. QED
    BY <2>5, <2>6 DEF event
<1>4. CASE NameOf(event) # "error" /\ IsLifecycle(event) /\ trouble # None
  <2>1. Refused(L, m + 1) /\ trouble \in Troubles
    BY <1>4, RefusedAsTrouble DEF event, trouble
  <2>2. Observe(s, event) = State(s.id, s.terminal, trouble, s.seen)
    BY <1>1, <1>4 DEF IsLifecycle
  <2>3. QED
    BY <2>1, <2>2, RefusalAgrees DEF event
<1>5. CASE NameOf(event) # "error" /\ IsLifecycle(event) /\ trouble = None
  <2>1. Ends(event) <=> said.status \in TerminalStatus
    BY <1>5 DEF Ends
  <2>2. /\ s.id = None => seen = Append(s.seen, SeesId(said.id))
        /\ s.id # None => seen = s.seen
    BY DEF seen
  <2>3. CASE Ends(event) /\ s.terminal = Unreadable
    <3>1. Observe(s, event) = final
      BY <1>1, <1>5, <2>1, <2>3 DEF IsLifecycle
    <3>2. AgreesTo(L, m + 1, final)
      BY <1>5, <2>2, <2>3, LifecycleAgrees, Zenon DEF event, trouble, final
    <3>3. QED
      BY <3>1, <3>2 DEF event
  <2>4. CASE ~(Ends(event) /\ s.terminal = Unreadable)
    <3>1. Observe(s, event) = after
      BY <1>1, <1>5, <2>1, <2>4 DEF IsLifecycle
    <3>2. AgreesTo(L, m + 1, after)
      BY <1>5, <2>2, <2>4, LifecycleAgrees, Zenon DEF event, trouble, after
    <3>3. QED
      BY <3>1, <3>2 DEF event
  <2>5. QED
    BY <2>3, <2>4
<1>6. QED
  BY <1>2, <1>3, <1>4, <1>5

LEMMA OneAgrees ==
  ASSUME NEW L, NEW m \in Nat, NEW s, AgreesTo(L, m, s)
  PROVE  AgreesTo(L, m + 1, ObserveOne(s, L[m + 1]))
BY ObserveAgrees, StaysAgreed DEF ObserveOne

LEMMA ObserveDefined ==
  ASSUME NEW state, NEW batch, NEW n \in Nat
  PROVE  \E f : f = [k \in 0 .. n |-> IF k = 0 THEN state
                                               ELSE ObserveOne(f[k - 1], batch[k])]
<1> DEFINE Is(f, m) == f = [k \in 0 .. m |-> IF k = 0 THEN state
                                                        ELSE ObserveOne(f[k - 1], batch[k])]
           T == {m \in Nat : \E f : Is(f, m)}
<1>1. 0 \in T
  <2>1. Is([k \in 0 .. 0 |-> state], 0)
    OBVIOUS
  <2>2. QED
    BY <2>1
<1>2. ASSUME NEW m \in T
      PROVE  m + 1 \in T
  <2>1. PICK f : Is(f, m)
    OBVIOUS
  <2> DEFINE g == [k \in 0 .. m + 1 |-> IF k = m + 1 THEN ObserveOne(f[m], batch[m + 1]) ELSE f[k]]
  <2>2. \A k \in 0 .. m + 1 : g[k] = IF k = 0 THEN state
                                              ELSE ObserveOne(g[k - 1], batch[k])
    BY <2>1
  <2>3. Is(g, m + 1)
    BY <2>2
  <2>4. m + 1 \in Nat
    OBVIOUS
  <2> HIDE DEF g
  <2>5. QED
    BY <2>3, <2>4, Zenon
<1>3. T = Nat
  <2> HIDE DEF T
  <2>1. T \in SUBSET Nat
    BY DEF T
  <2>2. QED
    BY <1>1, <1>2, <2>1, NatInduct
<1>4. QED
  BY <1>3

LEMMA ObserveTurns ==
  ASSUME NEW state, NEW batch, Len(batch) \in Nat
  PROVE  \E f : /\ f[0] = state
                /\ \A k \in 1 .. Len(batch) : f[k] = ObserveOne(f[k - 1], batch[k])
                /\ ObserveAll(state, batch) = f[Len(batch)]
<1> DEFINE F == CHOOSE f : f = [k \in 0 .. Len(batch) |->
                  IF k = 0 THEN state ELSE ObserveOne(f[k - 1], batch[k])]
<1>1. F = [k \in 0 .. Len(batch) |->
             IF k = 0 THEN state ELSE ObserveOne(F[k - 1], batch[k])]
  BY ObserveDefined
<1>2. ObserveAll(state, batch) = F[Len(batch)]
  BY DEF ObserveAll
<1> HIDE DEF F
<1>3. F[0] = state
  BY <1>1
<1>4. \A k \in 1 .. Len(batch) : F[k] = ObserveOne(F[k - 1], batch[k])
  BY <1>1
<1>5. QED
  BY <1>2, <1>3, <1>4

\* A batch of events behind the ones before it.
LEMMA BatchAgrees ==
  ASSUME NEW list, IsSeq(list), NEW batch, IsSeq(batch), NEW s, AgreesTo(list, Len(list), s)
  PROVE  AgreesTo(list \o batch, Len(list \o batch), ObserveAll(s, batch))
<1> DEFINE L == list \o batch
           n == Len(batch)
<1>1. /\ Len(list) \in Nat /\ n \in Nat /\ Len(L) = Len(list) + n
      /\ \A i \in 1 .. Len(list) : L[i] = list[i]
      /\ \A i \in 1 .. n : L[Len(list) + i] = batch[i]
  <2>1. Len(list) \in Nat /\ Len(batch) \in Nat
    BY SeqFacts
  <2>2. Len(list \o batch) = Len(list) + Len(batch)
    BY ConcatFacts
  <2>3. /\ \A i \in 1 .. Len(list) : (list \o batch)[i] = list[i]
        /\ \A i \in 1 .. Len(batch) : (list \o batch)[Len(list) + i] = batch[i]
    BY ConcatFacts
  <2>4. QED
    BY <2>1, <2>2, <2>3, Zenon
<1>2. PICK f : /\ f[0] = s
               /\ \A k \in 1 .. n : f[k] = ObserveOne(f[k - 1], batch[k])
               /\ ObserveAll(s, batch) = f[n]
  BY <1>1, ObserveTurns
<1> HIDE DEF L, n
<1> DEFINE T == {k \in Nat : k <= n => AgreesTo(L, Len(list) + k, f[k])}
<1>3. 0 \in T
  <2>1. AgreesTo(L, Len(list), s)
    BY <1>1, SameList
  <2>2. QED
    BY <1>1, <1>2, <2>1
<1>4. ASSUME NEW k \in T
      PROVE  k + 1 \in T
  <2>1. SUFFICES ASSUME k + 1 <= n PROVE AgreesTo(L, Len(list) + (k + 1), f[k + 1])
    OBVIOUS
  <2>2. AgreesTo(L, Len(list) + k, f[k]) /\ Len(list) + k \in Nat /\ k + 1 \in 1 .. n
    BY <1>1, <2>1
  <2>3. f[k + 1] = ObserveOne(f[k], L[(Len(list) + k) + 1])
    BY <1>1, <1>2, <2>2
  <2>4. AgreesTo(L, (Len(list) + k) + 1, ObserveOne(f[k], L[(Len(list) + k) + 1]))
    BY <2>2, OneAgrees
  <2>5. (Len(list) + k) + 1 = Len(list) + (k + 1)
    BY <1>1
  <2>6. QED
    BY <2>3, <2>4, <2>5
<1>5. T = Nat
  <2> HIDE DEF T
  <2>1. T \in SUBSET Nat
    BY DEF T
  <2>2. QED
    BY <1>3, <1>4, <2>1, NatInduct
<1>6. AgreesTo(L, Len(list) + n, f[n])
  BY <1>1, <1>5
<1>7. QED
  BY <1>1, <1>2, <1>6 DEF L

-----------------------------------------------------------------------------
(* Reading byte by byte                                                    *)

LEMMA ReadDefined ==
  ASSUME NEW r, NEW bytes, NEW n \in Nat
  PROVE  \E f : f = [k \in 0 .. n |-> IF k = 0 THEN r
                                               ELSE ReadByte(f[k - 1], bytes[k])]
<1> DEFINE Is(f, m) == f = [k \in 0 .. m |-> IF k = 0 THEN r
                                                        ELSE ReadByte(f[k - 1], bytes[k])]
           T == {m \in Nat : \E f : Is(f, m)}
<1>1. 0 \in T
  <2>1. Is([k \in 0 .. 0 |-> r], 0)
    OBVIOUS
  <2>2. QED
    BY <2>1
<1>2. ASSUME NEW m \in T
      PROVE  m + 1 \in T
  <2>1. PICK f : Is(f, m)
    OBVIOUS
  <2> DEFINE g == [k \in 0 .. m + 1 |-> IF k = m + 1 THEN ReadByte(f[m], bytes[m + 1]) ELSE f[k]]
  <2>2. \A k \in 0 .. m + 1 : g[k] = IF k = 0 THEN r
                                              ELSE ReadByte(g[k - 1], bytes[k])
    BY <2>1
  <2>3. Is(g, m + 1)
    BY <2>2
  <2>4. m + 1 \in Nat
    OBVIOUS
  <2> HIDE DEF g
  <2>5. QED
    BY <2>3, <2>4, Zenon
<1>3. T = Nat
  <2> HIDE DEF T
  <2>1. T \in SUBSET Nat
    BY DEF T
  <2>2. QED
    BY <1>1, <1>2, <2>1, NatInduct
<1>4. QED
  BY <1>3

LEMMA ReadTurns ==
  ASSUME NEW r, NEW bytes, Len(bytes) \in Nat
  PROVE  \E f : /\ f[0] = r
                /\ \A k \in 1 .. Len(bytes) : f[k] = ReadByte(f[k - 1], bytes[k])
                /\ Read(r, bytes) = f[Len(bytes)]
<1> DEFINE F == CHOOSE f : f = [k \in 0 .. Len(bytes) |->
                  IF k = 0 THEN r ELSE ReadByte(f[k - 1], bytes[k])]
<1>1. F = [k \in 0 .. Len(bytes) |->
             IF k = 0 THEN r ELSE ReadByte(F[k - 1], bytes[k])]
  BY ReadDefined
<1>2. Read(r, bytes) = F[Len(bytes)]
  BY DEF Read
<1> HIDE DEF F
<1>3. F[0] = r
  BY <1>1
<1>4. \A k \in 1 .. Len(bytes) : F[k] = ReadByte(F[k - 1], bytes[k])
  BY <1>1
<1>5. QED
  BY <1>2, <1>3, <1>4

LEMMA ParseDefined ==
  ASSUME NEW bytes, NEW n \in Nat
  PROVE  \E f : f = [k \in 0 .. n |-> IF k = 0 THEN Blank
                                               ELSE ParseByte(f[k - 1], bytes[k])]
<1> DEFINE Is(f, m) == f = [k \in 0 .. m |-> IF k = 0 THEN Blank
                                                        ELSE ParseByte(f[k - 1], bytes[k])]
           T == {m \in Nat : \E f : Is(f, m)}
<1>1. 0 \in T
  <2>1. Is([k \in 0 .. 0 |-> Blank], 0)
    OBVIOUS
  <2>2. QED
    BY <2>1
<1>2. ASSUME NEW m \in T
      PROVE  m + 1 \in T
  <2>1. PICK f : Is(f, m)
    OBVIOUS
  <2> DEFINE g == [k \in 0 .. m + 1 |-> IF k = m + 1 THEN ParseByte(f[m], bytes[m + 1]) ELSE f[k]]
  <2>2. \A k \in 0 .. m + 1 : g[k] = IF k = 0 THEN Blank
                                              ELSE ParseByte(g[k - 1], bytes[k])
    BY <2>1
  <2>3. Is(g, m + 1)
    BY <2>2
  <2>4. m + 1 \in Nat
    OBVIOUS
  <2> HIDE DEF g
  <2>5. QED
    BY <2>3, <2>4, Zenon
<1>3. T = Nat
  <2> HIDE DEF T
  <2>1. T \in SUBSET Nat
    BY DEF T
  <2>2. QED
    BY <1>1, <1>2, <2>1, NatInduct
<1>4. QED
  BY <1>3

LEMMA ParseTurns ==
  ASSUME NEW bytes, Len(bytes) \in Nat
  PROVE  \E f : /\ f[0] = Blank
                /\ \A k \in 1 .. Len(bytes) : f[k] = ParseByte(f[k - 1], bytes[k])
                /\ Parse(bytes) = f[Len(bytes)]
<1> DEFINE F == CHOOSE f : f = [k \in 0 .. Len(bytes) |->
                  IF k = 0 THEN Blank ELSE ParseByte(f[k - 1], bytes[k])]
<1>1. F = [k \in 0 .. Len(bytes) |->
             IF k = 0 THEN Blank ELSE ParseByte(F[k - 1], bytes[k])]
  BY ParseDefined
<1>2. Parse(bytes) = F[Len(bytes)]
  BY DEF Parse
<1> HIDE DEF F
<1>3. F[0] = Blank
  BY <1>1
<1>4. \A k \in 1 .. Len(bytes) : F[k] = ParseByte(F[k - 1], bytes[k])
  BY <1>1
<1>5. QED
  BY <1>2, <1>3, <1>4

LEMMA ReadEmpty == \A r : Read(r, <<>>) = r
<1> SUFFICES ASSUME NEW r PROVE Read(r, <<>>) = r
  OBVIOUS
<1>1. Len(<<>>) = 0
  OBVIOUS
<1>2. PICK f : f[0] = r /\ Read(r, <<>>) = f[Len(<<>>)]
  BY <1>1, ReadTurns
<1>3. QED
  BY <1>1, <1>2

LEMMA ParseEmpty == Parse(<<>>) = Blank
<1>1. Len(<<>>) = 0
  OBVIOUS
<1>2. PICK f : f[0] = Blank /\ Parse(<<>>) = f[Len(<<>>)]
  BY <1>1, ParseTurns
<1>3. QED
  BY <1>1, <1>2

LEMMA ReadAppend ==
  ASSUME NEW r, NEW s, IsSeq(s), NEW x
  PROVE  Read(r, Append(s, x)) = ReadByte(Read(r, s), x)
<1> DEFINE t == Append(s, x)
           n == Len(s)
<1>1. n \in Nat /\ Len(t) = n + 1 /\ t[n + 1] = x /\ \A i \in 1 .. n : t[i] = s[i]
  BY SeqFacts, AppendFacts
<1>2. PICK f : /\ f[0] = r
               /\ \A k \in 1 .. n : f[k] = ReadByte(f[k - 1], s[k])
               /\ Read(r, s) = f[n]
  BY <1>1, ReadTurns
<1>3. Len(t) \in Nat
  BY <1>1
<1> HIDE DEF t
<1>4. PICK g : /\ g[0] = r
               /\ \A k \in 1 .. Len(t) : g[k] = ReadByte(g[k - 1], t[k])
               /\ Read(r, t) = g[Len(t)]
  BY <1>3, ReadTurns
<1> HIDE DEF n
<1> DEFINE T == {k \in Nat : k <= n => f[k] = g[k]}
<1>5. 0 \in T
  BY <1>2, <1>4
<1>6. ASSUME NEW k \in T
      PROVE  k + 1 \in T
  <2>1. SUFFICES ASSUME k + 1 <= n PROVE f[k + 1] = g[k + 1]
    OBVIOUS
  <2>2. f[k] = g[k] /\ k + 1 \in 1 .. n /\ k + 1 \in 1 .. Len(t) /\ (k + 1) - 1 = k
    BY <1>1, <2>1
  <2>3. f[k + 1] = ReadByte(f[k], s[k + 1])
    BY <1>2, <2>2
  <2>4. g[k + 1] = ReadByte(g[k], t[k + 1])
    BY <1>4, <2>2
  <2>5. QED
    BY <1>1, <2>2, <2>3, <2>4
<1>7. T = Nat
  <2> HIDE DEF T
  <2>1. T \in SUBSET Nat
    BY DEF T
  <2>2. QED
    BY <1>5, <1>6, <2>1, NatInduct
<1>8. f[n] = g[n]
  BY <1>1, <1>7
<1>9. n + 1 \in 1 .. Len(t) /\ (n + 1) - 1 = n
  BY <1>1
<1>10. g[n + 1] = ReadByte(g[n], t[n + 1])
  BY <1>4, <1>9
<1>11. QED
  BY <1>1, <1>2, <1>4, <1>8, <1>10 DEF t

LEMMA ParseAppend ==
  ASSUME NEW s, IsSeq(s), NEW x
  PROVE  Parse(Append(s, x)) = ParseByte(Parse(s), x)
<1> DEFINE t == Append(s, x)
           n == Len(s)
<1>1. n \in Nat /\ Len(t) = n + 1 /\ t[n + 1] = x /\ \A i \in 1 .. n : t[i] = s[i]
  BY SeqFacts, AppendFacts
<1>2. PICK f : /\ f[0] = Blank
               /\ \A k \in 1 .. n : f[k] = ParseByte(f[k - 1], s[k])
               /\ Parse(s) = f[n]
  BY <1>1, ParseTurns
<1>3. Len(t) \in Nat
  BY <1>1
<1> HIDE DEF t
<1>4. PICK g : /\ g[0] = Blank
               /\ \A k \in 1 .. Len(t) : g[k] = ParseByte(g[k - 1], t[k])
               /\ Parse(t) = g[Len(t)]
  BY <1>3, ParseTurns
<1> HIDE DEF n
<1> DEFINE T == {k \in Nat : k <= n => f[k] = g[k]}
<1>5. 0 \in T
  BY <1>2, <1>4
<1>6. ASSUME NEW k \in T
      PROVE  k + 1 \in T
  <2>1. SUFFICES ASSUME k + 1 <= n PROVE f[k + 1] = g[k + 1]
    OBVIOUS
  <2>2. f[k] = g[k] /\ k + 1 \in 1 .. n /\ k + 1 \in 1 .. Len(t) /\ (k + 1) - 1 = k
    BY <1>1, <2>1
  <2>3. f[k + 1] = ParseByte(f[k], s[k + 1])
    BY <1>2, <2>2
  <2>4. g[k + 1] = ParseByte(g[k], t[k + 1])
    BY <1>4, <2>2
  <2>5. QED
    BY <1>1, <2>2, <2>3, <2>4
<1>7. T = Nat
  <2> HIDE DEF T
  <2>1. T \in SUBSET Nat
    BY DEF T
  <2>2. QED
    BY <1>5, <1>6, <2>1, NatInduct
<1>8. f[n] = g[n]
  BY <1>1, <1>7
<1>9. n + 1 \in 1 .. Len(t) /\ (n + 1) - 1 = n
  BY <1>1
<1>10. g[n + 1] = ParseByte(g[n], t[n + 1])
  BY <1>4, <1>9
<1>11. QED
  BY <1>1, <1>2, <1>4, <1>8, <1>10 DEF t

\* The bytes up to the n-th.
LEMMA UpTo ==
  ASSUME NEW s, IsSeq(s)
  PROVE  /\ SubSeq(s, 1, 0) = <<>> /\ SubSeq(s, 1, Len(s)) = s
         /\ \A n \in 0 .. Len(s) : IsSeq(SubSeq(s, 1, n)) /\ Len(SubSeq(s, 1, n)) = n
         /\ \A n \in Nat : n + 1 <= Len(s) =>
              SubSeq(s, 1, n + 1) = Append(SubSeq(s, 1, n), s[n + 1])
<1>1. Len(s) \in Nat
  BY SeqFacts
<1>2. ASSUME NEW n \in 0 .. Len(s)
      PROVE  /\ IsSeq(SubSeq(s, 1, n)) /\ Len(SubSeq(s, 1, n)) = n
             /\ \A i \in 1 .. n : SubSeq(s, 1, n)[i] = s[i]
  <2>1. 1 \in 1 .. Len(s) + 1 /\ 1 <= n + 1 /\ n - 1 + 1 = n
    BY <1>1
  <2>2. QED
    BY <2>1, SubSeqFacts
<1>3. SubSeq(s, 1, 0) = <<>>
  <2>1. Len(SubSeq(s, 1, 0)) = 0 /\ IsSeq(SubSeq(s, 1, 0))
    BY <1>1, <1>2
  <2>2. QED
    BY <2>1, EmptyFacts, SameSeq
<1>4. SubSeq(s, 1, Len(s)) = s
  <2> DEFINE a == SubSeq(s, 1, Len(s))
  <2>1. IsSeq(a) /\ Len(a) = Len(s) /\ \A i \in 1 .. Len(s) : a[i] = s[i]
    BY <1>1, <1>2
  <2> HIDE DEF a
  <2>2. a = s
    BY <2>1, SameSeq
  <2>3. QED
    BY <2>2 DEF a
<1>5. ASSUME NEW n \in Nat, n + 1 <= Len(s)
      PROVE  SubSeq(s, 1, n + 1) = Append(SubSeq(s, 1, n), s[n + 1])
  <2> DEFINE a == SubSeq(s, 1, n + 1)
             c == SubSeq(s, 1, n)
             b == Append(c, s[n + 1])
  <2>1. n + 1 \in 0 .. Len(s) /\ n \in 0 .. Len(s)
    BY <1>1, <1>5
  <2>2. IsSeq(a) /\ Len(a) = n + 1 /\ \A i \in 1 .. n + 1 : a[i] = s[i]
    BY <1>2, <2>1
  <2>3. IsSeq(c) /\ Len(c) = n /\ \A i \in 1 .. n : c[i] = s[i]
    BY <1>2, <2>1
  <2> HIDE DEF a, c
  <2>4. /\ IsSeq(b) /\ Len(b) = n + 1 /\ b[n + 1] = s[n + 1]
        /\ \A i \in 1 .. n : b[i] = s[i]
    BY <2>3, AppendFacts
  <2> HIDE DEF b
  <2>5. \A i \in 1 .. Len(a) : a[i] = b[i]
    BY <2>1, <2>2, <2>4
  <2>6. a = b
    BY <2>2, <2>4, <2>5, SameSeq
  <2>7. QED
    BY <2>6 DEF a, b, c
<1>6. QED
  BY <1>2, <1>3, <1>4, <1>5

LEMMA AppendConcat ==
  ASSUME NEW s, IsSeq(s), NEW t, IsSeq(t), NEW x
  PROVE  s \o Append(t, x) = Append(s \o t, x)
<1>1. PICK S : s \in Seq(S)
  BY DEF IsSeq
<1>2. PICK R : t \in Seq(R)
  BY DEF IsSeq
<1>3. s \in Seq(S \cup R \cup {x}) /\ t \in Seq(S \cup R \cup {x})
  BY <1>1, <1>2
<1>4. QED
  BY <1>3

LEMMA ConcatConcat ==
  ASSUME NEW s, IsSeq(s), NEW t, IsSeq(t), NEW u, IsSeq(u)
  PROVE  (s \o t) \o u = s \o (t \o u)
<1>1. PICK S : s \in Seq(S)
  BY DEF IsSeq
<1>2. PICK R : t \in Seq(R)
  BY DEF IsSeq
<1>3. PICK U : u \in Seq(U)
  BY DEF IsSeq
<1>4. /\ s \in Seq(S \cup R \cup U) /\ t \in Seq(S \cup R \cup U)
      /\ u \in Seq(S \cup R \cup U)
  BY <1>1, <1>2, <1>3
<1>5. QED
  BY <1>4

LEMMA ConcatEmpty ==
  ASSUME NEW s, IsSeq(s)
  PROVE  s \o <<>> = s /\ <<>> \o s = s
BY DEF IsSeq

\* Bytes are read one after the other, however they are grouped.
LEMMA ReadConcat ==
  ASSUME NEW r, NEW s, IsSeq(s), NEW t, IsSeq(t)
  PROVE  Read(r, s \o t) = Read(Read(r, s), t)
<1>0. ASSUME NEW a, IsSeq(a), NEW x, Read(r, s \o a) = Read(Read(r, s), a)
      PROVE  Read(r, s \o Append(a, x)) = Read(Read(r, s), Append(a, x))
  <2>1. s \o Append(a, x) = Append(s \o a, x)
    BY <1>0, AppendConcat
  <2>2. IsSeq(s \o a)
    BY <1>0, ConcatFacts
  <2>3. Read(r, Append(s \o a, x)) = ReadByte(Read(r, s \o a), x)
    BY <2>2, ReadAppend
  <2>4. Read(Read(r, s), Append(a, x)) = ReadByte(Read(Read(r, s), a), x)
    BY <1>0, ReadAppend
  <2>5. QED
    BY <1>0, <2>1, <2>3, <2>4
<1> DEFINE u(k) == SubSeq(t, 1, k)
           T == {k \in Nat : k <= Len(t) => Read(r, s \o u(k)) = Read(Read(r, s), u(k))}
<1>1. Len(t) \in Nat
  BY SeqFacts
<1>2. /\ u(0) = <<>> /\ u(Len(t)) = t
      /\ \A k \in 0 .. Len(t) : IsSeq(u(k))
      /\ \A k \in Nat : k + 1 <= Len(t) => u(k + 1) = Append(u(k), t[k + 1])
  BY UpTo
<1> HIDE DEF u
<1>3. 0 \in T
  BY <1>2, ConcatEmpty, ReadEmpty
<1>4. ASSUME NEW k \in T
      PROVE  k + 1 \in T
  <2>1. SUFFICES ASSUME k + 1 <= Len(t)
                 PROVE  Read(r, s \o u(k + 1)) = Read(Read(r, s), u(k + 1))
    OBVIOUS
  <2>2. /\ IsSeq(u(k)) /\ u(k + 1) = Append(u(k), t[k + 1])
        /\ Read(r, s \o u(k)) = Read(Read(r, s), u(k))
    BY <1>1, <1>2, <2>1
  <2>3. QED
    BY <1>0, <2>2
<1>5. T = Nat
  <2> HIDE DEF T
  <2>1. T \in SUBSET Nat
    BY DEF T
  <2>2. QED
    BY <1>3, <1>4, <2>1, NatInduct
<1>6. Read(r, s \o u(Len(t))) = Read(Read(r, s), u(Len(t)))
  BY <1>1, <1>5
<1>7. QED
  BY <1>2, <1>6

LEMMA DraftFields ==
  \A l, n, d : /\ Draft(l, n, d).line = l /\ Draft(l, n, d).name = n
               /\ Draft(l, n, d).data = d
BY DEF Draft

LEMMA BlankFields == Blank.line = <<>> /\ EventOf(Blank) = <<>> /\ EndLine(Blank) = Blank
<1>1. Blank.line = <<>> /\ Blank.data = <<>> /\ Blank.name = None
  BY DraftFields DEF Blank
<1>2. EventOf(Blank) = <<>>
  BY <1>1 DEF EventOf
<1>3. ~IsData(Blank.line) /\ ~IsName(Blank.line)
  BY <1>1 DEF IsData, IsName
<1>4. EndLine(Blank) = Blank
  BY <1>1, <1>3 DEF EndLine, Blank
<1>5. QED
  BY <1>1, <1>2, <1>4

LEMMA EventOfSeq == \A d : IsSeq(EventOf(d))
BY EmptyFacts, OneSeq DEF EventOf

\* The ways a byte is read.
LEMMA ReadSkips ==
  ASSUME NEW r, r.afterCr = TRUE
  PROVE  ReadByte(r, LF) = Reader(FALSE, r.draft, r.bad, r.lost, r.events)
BY DEF ReadByte

LEMMA ReadEnds ==
  ASSUME NEW r, NEW byte \in {CR, LF}, byte = CR \/ r.afterCr = FALSE
  PROVE  ReadByte(r, byte) = ReadEnd(r, byte = CR)
BY DEF ReadByte, CR, LF

LEMMA ReadAdds ==
  ASSUME NEW r, NEW byte, byte \notin {CR, LF}
  PROVE  ReadByte(r, byte) = Reader(FALSE, AddByte(r.draft, byte), r.bad \/ byte = BadUtf8,
                                    r.lost, r.events)
BY DEF ReadByte

LEMMA EndsLine ==
  ASSUME NEW r, NEW c, r.draft.line # <<>>
  PROVE  ReadEnd(r, c) = Reader(c, EndLine(r.draft), r.bad, r.lost, r.events)
BY DEF ReadEnd

LEMMA EndsLost ==
  ASSUME NEW r, NEW c, r.draft.line = <<>>, r.lost = TRUE \/ r.bad = TRUE
  PROVE  ReadEnd(r, c) = Reader(c, Blank, FALSE, TRUE, r.events)
BY DEF ReadEnd

LEMMA EndsEvent ==
  ASSUME NEW r, NEW c, r.draft.line = <<>>, r.lost = FALSE, r.bad = FALSE
  PROVE  ReadEnd(r, c) = Reader(c, Blank, FALSE, FALSE, r.events \o EventOf(r.draft))
BY DEF ReadEnd

\* The shape of a draft and of a reader.
Lined(d) == d = Draft(d.line, d.name, d.data) /\ IsSeq(d.line)

Sound(r) ==
  /\ r.afterCr \in BOOLEAN /\ r.bad \in BOOLEAN /\ r.lost \in BOOLEAN
  /\ IsSeq(r.events) /\ Lined(r.draft)

LEMMA SoundBuilt ==
  ASSUME NEW a \in BOOLEAN, NEW b \in BOOLEAN, NEW l \in BOOLEAN, NEW e, IsSeq(e),
         NEW d, Lined(d)
  PROVE  Sound(Reader(a, d, b, l, e))
BY DEF Sound, Reader

LEMMA FreshSound == Sound(Fresh) /\ Fresh.draft = Blank /\ Fresh.events = <<>>
                    /\ Fresh.afterCr = FALSE /\ Fresh.bad = FALSE /\ Fresh.lost = FALSE
<1>1. Lined(Blank)
  BY DraftFields, EmptyFacts DEF Blank, Lined
<1>2. Sound(Fresh)
  BY <1>1, SoundBuilt, EmptyFacts DEF Fresh
<1>3. QED
  BY <1>2 DEF Fresh, Reader

LEMMA DraftsSound ==
  \A d, x : /\ EndLine(d) = Draft(EndLine(d).line, EndLine(d).name, EndLine(d).data)
            /\ EndLine(d).line = <<>>
            /\ AddByte(d, x) = Draft(AddByte(d, x).line, AddByte(d, x).name, AddByte(d, x).data)
            /\ AddByte(d, x).line = Append(d.line, x)
<1> SUFFICES ASSUME NEW d, NEW x
             PROVE  /\ EndLine(d) = Draft(EndLine(d).line, EndLine(d).name, EndLine(d).data)
                    /\ EndLine(d).line = <<>>
                    /\ AddByte(d, x) = Draft(AddByte(d, x).line, AddByte(d, x).name,
                                            AddByte(d, x).data)
                    /\ AddByte(d, x).line = Append(d.line, x)
  OBVIOUS
<1>1. PICK n, s : EndLine(d) = Draft(<<>>, n, s)
  <2>1. CASE IsData(d.line)
    BY <2>1 DEF EndLine
  <2>2. CASE ~IsData(d.line) /\ IsName(d.line)
    BY <2>2 DEF EndLine
  <2>3. CASE ~IsData(d.line) /\ ~IsName(d.line)
    BY <2>3 DEF EndLine
  <2>4. QED
    BY <2>1, <2>2, <2>3
<1>2. EndLine(d) = Draft(EndLine(d).line, EndLine(d).name, EndLine(d).data) /\ EndLine(d).line = <<>>
  BY <1>1 DEF Draft
<1>3. QED
  BY <1>2 DEF AddByte, Draft

LEMMA SoundByte ==
  ASSUME NEW r, Sound(r), NEW byte
  PROVE  Sound(ReadByte(r, byte))
<1>1. /\ r.afterCr \in BOOLEAN /\ r.bad \in BOOLEAN /\ r.lost \in BOOLEAN /\ IsSeq(r.events)
      /\ Lined(r.draft)
  BY DEF Sound
<1>2. CASE byte \notin {CR, LF}
  <2> DEFINE b == (r.bad \/ byte = BadUtf8)
             d == AddByte(r.draft, byte)
  <2>1. ReadByte(r, byte) = Reader(FALSE, d, b, r.lost, r.events) /\ b \in BOOLEAN
    BY <1>2, ReadAdds
  <2>2. Lined(d)
    <3> DEFINE l == r.draft.line
    <3>1. IsSeq(l)
      BY <1>1 DEF Lined
    <3>2. d = Draft(d.line, d.name, d.data) /\ d.line = Append(l, byte)
      BY DraftsSound
    <3> HIDE DEF l, d
    <3>3. IsSeq(Append(l, byte))
      BY <3>1, AppendFacts
    <3>4. QED
      BY <3>2, <3>3 DEF Lined
  <2> HIDE DEF b, d
  <2>3. Sound(Reader(FALSE, d, b, r.lost, r.events))
    BY <1>1, <2>1, <2>2, SoundBuilt
  <2>4. QED
    BY <2>1, <2>3
<1>3. CASE byte = LF /\ r.afterCr = TRUE
  BY <1>1, <1>3, ReadSkips, SoundBuilt
<1>4. CASE byte \in {CR, LF} /\ (byte = CR \/ r.afterCr = FALSE)
  <2> DEFINE c == (byte = CR)
  <2>1. ReadByte(r, byte) = ReadEnd(r, c) /\ c \in BOOLEAN
    BY <1>4, ReadEnds
  <2> HIDE DEF c
  <2>2. Lined(Blank)
    BY FreshSound DEF Sound
  <2>3. CASE r.draft.line # <<>>
    <3> DEFINE d == EndLine(r.draft)
    <3>1. ReadEnd(r, c) = Reader(c, d, r.bad, r.lost, r.events)
      BY <2>3, EndsLine
    <3>2. Lined(d)
      BY DraftsSound, EmptyFacts DEF Lined
    <3> HIDE DEF d
    <3>3. Sound(Reader(c, d, r.bad, r.lost, r.events))
      BY <1>1, <2>1, <3>2, SoundBuilt
    <3>4. QED
      BY <2>1, <3>1, <3>3
  <2>4. CASE r.draft.line = <<>> /\ (r.lost = TRUE \/ r.bad = TRUE)
    <3>1. ReadEnd(r, c) = Reader(c, Blank, FALSE, TRUE, r.events)
      BY <2>4, EndsLost
    <3>2. Sound(Reader(c, Blank, FALSE, TRUE, r.events))
      BY <1>1, <2>1, <2>2, SoundBuilt
    <3>3. QED
      BY <2>1, <3>1, <3>2
  <2>5. CASE r.draft.line = <<>> /\ r.lost = FALSE /\ r.bad = FALSE
    <3>1. IsSeq(r.events \o EventOf(r.draft))
      BY <1>1, EventOfSeq, ConcatFacts
    <3>2. QED
      BY <2>1, <2>2, <2>5, <3>1, EndsEvent, SoundBuilt
  <2>6. QED
    BY <1>1, <2>3, <2>4, <2>5
<1>5. QED
  BY <1>1, <1>2, <1>3, <1>4

\* r has read what q has, after the events e; at the end of an event it does
\* not matter whether an LF is still to be skipped.
Alike(r, q, e) ==
  /\ Sound(r) /\ Sound(q) /\ IsSeq(e)
  /\ r.events = e \o q.events
  /\ r.draft = q.draft /\ r.bad = q.bad /\ r.lost = q.lost
  /\ r.afterCr = q.afterCr \/ (r.draft = Blank /\ r.bad = FALSE)

LEMMA AlikeByte ==
  ASSUME NEW r, NEW q, NEW e, Alike(r, q, e), NEW byte
  PROVE  Alike(ReadByte(r, byte), ReadByte(q, byte), e)
<1> DEFINE rr == ReadByte(r, byte)
           qq == ReadByte(q, byte)
<1>1. /\ Sound(r) /\ Sound(q) /\ IsSeq(e) /\ r.events = e \o q.events
      /\ r.draft = q.draft /\ r.bad = q.bad /\ r.lost = q.lost
      /\ r.afterCr = q.afterCr \/ (r.draft = Blank /\ r.bad = FALSE)
  BY DEF Alike
<1>2. /\ r.afterCr \in BOOLEAN /\ r.bad \in BOOLEAN /\ r.lost \in BOOLEAN
      /\ q.afterCr \in BOOLEAN /\ IsSeq(q.events)
  BY <1>1 DEF Sound
<1>3. Sound(rr) /\ Sound(qq)
  BY <1>1, SoundByte
<1>4. SUFFICES /\ rr.events = e \o qq.events
               /\ rr.draft = qq.draft /\ rr.bad = qq.bad /\ rr.lost = qq.lost
               /\ rr.afterCr = qq.afterCr
  BY <1>1, <1>3 DEF Alike
<1>5. CASE byte \notin {CR, LF}
  <2> DEFINE b == (r.bad \/ byte = BadUtf8)
  <2>1. /\ rr = Reader(FALSE, AddByte(r.draft, byte), b, r.lost, r.events)
        /\ qq = Reader(FALSE, AddByte(r.draft, byte), b, r.lost, q.events)
    BY <1>1, <1>5, ReadAdds
  <2> HIDE DEF b, rr, qq
  <2>2. QED
    BY <1>1, <2>1 DEF Reader
<1>6. CASE byte = LF /\ r.afterCr = TRUE /\ q.afterCr = TRUE
  <2>1. /\ rr = Reader(FALSE, r.draft, r.bad, r.lost, r.events)
        /\ qq = Reader(FALSE, r.draft, r.bad, r.lost, q.events)
    BY <1>1, <1>6, ReadSkips
  <2> HIDE DEF rr, qq
  <2>2. QED
    BY <1>1, <2>1 DEF Reader
<1>7. CASE byte \in {CR, LF} /\ (byte = CR \/ (r.afterCr = FALSE /\ q.afterCr = FALSE))
  <2> DEFINE c == (byte = CR)
  <2>1. rr = ReadEnd(r, c) /\ qq = ReadEnd(q, c)
    BY <1>7, ReadEnds
  <2> HIDE DEF c, rr, qq
  <2>2. CASE r.draft.line # <<>>
    <3>1. /\ rr = Reader(c, EndLine(r.draft), r.bad, r.lost, r.events)
          /\ qq = Reader(c, EndLine(r.draft), r.bad, r.lost, q.events)
      BY <1>1, <2>1, <2>2, EndsLine
    <3>2. QED
      BY <1>1, <3>1 DEF Reader
  <2>3. CASE r.draft.line = <<>> /\ (r.lost = TRUE \/ r.bad = TRUE)
    <3>1. /\ rr = Reader(c, Blank, FALSE, TRUE, r.events)
          /\ qq = Reader(c, Blank, FALSE, TRUE, q.events)
      BY <1>1, <2>1, <2>3, EndsLost
    <3>2. QED
      BY <1>1, <3>1 DEF Reader
  <2>4. CASE r.draft.line = <<>> /\ r.lost = FALSE /\ r.bad = FALSE
    <3>1. /\ rr = Reader(c, Blank, FALSE, FALSE, r.events \o EventOf(r.draft))
          /\ qq = Reader(c, Blank, FALSE, FALSE, q.events \o EventOf(r.draft))
      BY <1>1, <2>1, <2>4, EndsEvent
    <3>2. (e \o q.events) \o EventOf(r.draft) = e \o (q.events \o EventOf(r.draft))
      <4> DEFINE x == EventOf(r.draft)
                 y == q.events
      <4>1. IsSeq(x) /\ IsSeq(y) /\ IsSeq(e)
        BY <1>1, <1>2, EventOfSeq
      <4> HIDE DEF x, y
      <4>2. (e \o y) \o x = e \o (y \o x)
        BY <4>1, ConcatConcat
      <4>3. QED
        BY <4>2 DEF x, y
    <3>3. QED
      BY <1>1, <3>1, <3>2 DEF Reader
  <2>5. QED
    BY <1>2, <2>2, <2>3, <2>4
<1>8. ASSUME NEW s, NEW p, Sound(s), Sound(p), byte = LF, s.afterCr = TRUE, p.afterCr = FALSE,
             s.draft = Blank, p.draft = Blank, s.bad = FALSE, p.bad = FALSE, p.lost = s.lost
      PROVE  /\ ReadByte(s, byte) = Reader(FALSE, Blank, FALSE, s.lost, s.events)
             /\ ReadByte(p, byte) = Reader(FALSE, Blank, FALSE, s.lost, p.events)
  <2>1. ReadByte(s, byte) = Reader(FALSE, Blank, FALSE, s.lost, s.events)
    BY <1>8, ReadSkips
  <2>2. LF \in {CR, LF} /\ (LF = CR) = FALSE
    BY DEF LF, CR
  <2>3. ReadByte(p, byte) = ReadEnd(p, FALSE)
    BY <1>8, <2>2, ReadEnds
  <2>4. p.draft.line = <<>> /\ p.lost \in BOOLEAN /\ IsSeq(p.events)
    BY <1>8, BlankFields DEF Sound
  <2>5. CASE p.lost = TRUE
    BY <1>8, <2>1, <2>3, <2>4, <2>5, EndsLost
  <2>6. CASE p.lost = FALSE
    <3>1. ReadEnd(p, FALSE) = Reader(FALSE, Blank, FALSE, FALSE, p.events \o EventOf(Blank))
      BY <1>8, <2>4, <2>6, EndsEvent
    <3>2. p.events \o EventOf(Blank) = p.events
      BY <2>4, BlankFields, ConcatEmpty
    <3>3. QED
      BY <1>8, <2>1, <2>3, <2>6, <3>1, <3>2
  <2>7. QED
    BY <2>4, <2>5, <2>6
<1>9. CASE byte = LF /\ r.afterCr # q.afterCr
  <2>1. /\ r.draft = Blank /\ q.draft = Blank /\ r.bad = FALSE /\ q.bad = FALSE
        /\ r.lost = q.lost
    BY <1>1, <1>9
  <2>2. /\ rr = Reader(FALSE, Blank, FALSE, r.lost, r.events)
        /\ qq = Reader(FALSE, Blank, FALSE, r.lost, q.events)
    <3>1. CASE r.afterCr = TRUE /\ q.afterCr = FALSE
      BY <1>1, <1>8, <1>9, <2>1, <3>1, Zenon
    <3>2. CASE r.afterCr = FALSE /\ q.afterCr = TRUE
      BY <1>1, <1>8, <1>9, <2>1, <3>2, Zenon
    <3>3. \/ r.afterCr = TRUE /\ q.afterCr = FALSE
          \/ r.afterCr = FALSE /\ q.afterCr = TRUE
      BY <1>2, <1>9
    <3>4. QED
      BY <3>1, <3>2, <3>3, Zenon
  <2> HIDE DEF rr, qq
  <2>3. QED
    BY <1>1, <2>2 DEF Reader
<1>10. QED
  BY <1>2, <1>5, <1>6, <1>7, <1>9

LEMMA AlikeRead ==
  ASSUME NEW r, NEW q, NEW e, Alike(r, q, e), NEW t, IsSeq(t)
  PROVE  Alike(Read(r, t), Read(q, t), e)
<1>1. Len(t) \in Nat
  BY SeqFacts
<1>2. PICK f : /\ f[0] = r
               /\ \A k \in 1 .. Len(t) : f[k] = ReadByte(f[k - 1], t[k])
               /\ Read(r, t) = f[Len(t)]
  BY <1>1, ReadTurns, SMTT(60)
<1>3. PICK g : /\ g[0] = q
               /\ \A k \in 1 .. Len(t) : g[k] = ReadByte(g[k - 1], t[k])
               /\ Read(q, t) = g[Len(t)]
  BY <1>1, ReadTurns, SMTT(60)
<1> DEFINE T == {k \in Nat : k <= Len(t) => Alike(f[k], g[k], e)}
<1>4. 0 \in T
  BY <1>2, <1>3
<1>5. ASSUME NEW k \in T
      PROVE  k + 1 \in T
  <2>1. SUFFICES ASSUME k + 1 <= Len(t) PROVE Alike(f[k + 1], g[k + 1], e)
    OBVIOUS
  <2>2. Alike(f[k], g[k], e) /\ k + 1 \in 1 .. Len(t) /\ (k + 1) - 1 = k
    BY <1>1, <2>1
  <2>3. f[k + 1] = ReadByte(f[k], t[k + 1]) /\ g[k + 1] = ReadByte(g[k], t[k + 1])
    BY <1>2, <1>3, <2>2
  <2>4. QED
    BY <2>2, <2>3, AlikeByte
<1>6. T = Nat
  <2> HIDE DEF T
  <2>1. T \in SUBSET Nat
    BY DEF T
  <2>2. QED
    BY <1>4, <1>5, <2>1, NatInduct
<1>7. Alike(f[Len(t)], g[Len(t)], e)
  BY <1>1, <1>6
<1>8. QED
  BY <1>2, <1>3, <1>7

LEMMA AlikeItself ==
  ASSUME NEW r, Sound(r)
  PROVE  Alike(r, r, <<>>)
<1>1. IsSeq(r.events)
  BY DEF Sound
<1>2. r.events = <<>> \o r.events
  BY <1>1, ConcatEmpty
<1>3. QED
  BY <1>2, EmptyFacts DEF Alike

LEMMA AlikeTrans ==
  ASSUME NEW r, NEW q, NEW p, NEW d, NEW e, Alike(r, q, d), Alike(q, p, e)
  PROVE  Alike(r, p, d \o e)
<1> DEFINE y == p.events
<1>1. IsSeq(d) /\ IsSeq(e) /\ IsSeq(y) /\ r.events = d \o q.events /\ q.events = e \o y
  BY DEF Alike, Sound
<1> HIDE DEF y
<1>2. (d \o e) \o y = d \o (e \o y)
  BY <1>1, ConcatConcat
<1>3. IsSeq(d \o e)
  BY <1>1, ConcatFacts
<1>4. r.events = (d \o e) \o p.events
  BY <1>1, <1>2 DEF y
<1>5. QED
  BY <1>3, <1>4 DEF Alike

LEMMA SoundRead ==
  ASSUME NEW r, Sound(r), NEW t, IsSeq(t)
  PROVE  Sound(Read(r, t))
BY AlikeItself, AlikeRead DEF Alike

\* One byte adds to the events; nothing, once the reader is lost.
LEMMA ByteAdds ==
  ASSUME NEW r, Sound(r), NEW byte
  PROVE  /\ \E u : IsSeq(u) /\ ReadByte(r, byte).events = r.events \o u
         /\ r.lost = TRUE => /\ ReadByte(r, byte).lost = TRUE
                             /\ ReadByte(r, byte).events = r.events
<1>1. /\ r.afterCr \in BOOLEAN /\ r.bad \in BOOLEAN /\ r.lost \in BOOLEAN /\ IsSeq(r.events)
  BY DEF Sound
<1>2. IsSeq(<<>>) /\ r.events = r.events \o <<>>
  BY <1>1, EmptyFacts, ConcatEmpty
<1>3. ASSUME NEW a, NEW d, NEW b, NEW l, ReadByte(r, byte) = Reader(a, d, b, l, r.events),
             r.lost = TRUE => l = TRUE
      PROVE  /\ ReadByte(r, byte).events = r.events
             /\ r.lost = TRUE => ReadByte(r, byte).lost = TRUE
  BY <1>3 DEF Reader
<1>4. CASE byte \notin {CR, LF}
  BY <1>2, <1>3, <1>4, ReadAdds
<1>5. CASE byte = LF /\ r.afterCr = TRUE
  BY <1>2, <1>3, <1>5, ReadSkips
<1>6. CASE byte \in {CR, LF} /\ (byte = CR \/ r.afterCr = FALSE)
  <2> DEFINE c == (byte = CR)
  <2>1. ReadByte(r, byte) = ReadEnd(r, c)
    BY <1>6, ReadEnds
  <2> HIDE DEF c
  <2>2. CASE r.draft.line # <<>>
    BY <1>2, <1>3, <2>1, <2>2, EndsLine
  <2>3. CASE r.draft.line = <<>> /\ (r.lost = TRUE \/ r.bad = TRUE)
    BY <1>2, <1>3, <2>1, <2>3, EndsLost
  <2>4. CASE r.draft.line = <<>> /\ r.lost = FALSE /\ r.bad = FALSE
    <3> DEFINE x == EventOf(r.draft)
    <3>1. ReadByte(r, byte) = Reader(c, Blank, FALSE, FALSE, r.events \o x)
      BY <2>1, <2>4, EndsEvent
    <3>2. IsSeq(x)
      BY EventOfSeq
    <3> HIDE DEF x
    <3>3. ReadByte(r, byte).events = r.events \o x
      BY <3>1 DEF Reader
    <3>4. QED
      BY <2>4, <3>2, <3>3
  <2>5. QED
    BY <1>1, <2>2, <2>3, <2>4
<1>7. QED
  BY <1>1, <1>4, <1>5, <1>6

LEMMA ReadAddsEvents ==
  ASSUME NEW r, Sound(r), NEW t, IsSeq(t)
  PROVE  /\ \E u : IsSeq(u) /\ Read(r, t).events = r.events \o u
         /\ r.lost = TRUE => Read(r, t).lost = TRUE /\ Read(r, t).events = r.events
<1> DEFINE P(q) == /\ Sound(q)
                   /\ \E u : IsSeq(u) /\ q.events = r.events \o u
                   /\ r.lost = TRUE => q.lost = TRUE /\ q.events = r.events
<1>1. Len(t) \in Nat /\ IsSeq(r.events)
  BY SeqFacts DEF Sound
<1>2. PICK f : /\ f[0] = r
               /\ \A k \in 1 .. Len(t) : f[k] = ReadByte(f[k - 1], t[k])
               /\ Read(r, t) = f[Len(t)]
  BY <1>1, ReadTurns
<1>3. P(r)
  BY <1>1, EmptyFacts, ConcatEmpty
<1>4. ASSUME NEW q, P(q), NEW byte
      PROVE  P(ReadByte(q, byte))
  <2>1. PICK u : IsSeq(u) /\ q.events = r.events \o u
    BY <1>4
  <2>2. PICK v : IsSeq(v) /\ ReadByte(q, byte).events = q.events \o v
    BY <1>4, ByteAdds
  <2> DEFINE y == r.events
  <2>3. IsSeq(y)
    BY <1>1
  <2> HIDE DEF y
  <2>4. (y \o u) \o v = y \o (u \o v)
    BY <2>1, <2>2, <2>3, ConcatConcat
  <2>9. IsSeq(u \o v)
    BY <2>1, <2>2, ConcatFacts
  <2>5. ReadByte(q, byte).events = r.events \o (u \o v)
    BY <2>1, <2>2, <2>4 DEF y
  <2>6. r.lost = TRUE => /\ ReadByte(q, byte).lost = TRUE
                         /\ ReadByte(q, byte).events = r.events
    BY <1>4, ByteAdds
  <2>7. Sound(ReadByte(q, byte))
    BY <1>4, SoundByte
  <2>8. QED
    BY <2>5, <2>6, <2>7, <2>9
<1> HIDE DEF P
<1> DEFINE T == {k \in Nat : k <= Len(t) => P(f[k])}
<1>5. 0 \in T
  BY <1>2, <1>3
<1>6. ASSUME NEW k \in T
      PROVE  k + 1 \in T
  <2>1. SUFFICES ASSUME k + 1 <= Len(t) PROVE P(f[k + 1])
    OBVIOUS
  <2>2. P(f[k]) /\ k + 1 \in 1 .. Len(t) /\ (k + 1) - 1 = k
    BY <1>1, <2>1
  <2>3. f[k + 1] = ReadByte(f[k], t[k + 1])
    BY <1>2, <2>2
  <2>4. QED
    BY <1>4, <2>2, <2>3
<1>7. T = Nat
  <2> HIDE DEF T
  <2>1. T \in SUBSET Nat
    BY DEF T
  <2>2. QED
    BY <1>5, <1>6, <2>1, NatInduct
<1>8. P(f[Len(t)])
  BY <1>1, <1>7
<1>9. QED
  BY <1>2, <1>8 DEF P

-----------------------------------------------------------------------------
(* Finding the end of an event                                             *)

LEMMA EndLineAgain ==
  /\ \A d : Lined(d) /\ d.line = <<>> => EndLine(d) = d
  /\ \A d : EndLine(EndLine(d)) = EndLine(d)
<1>1. ASSUME NEW d, Lined(d), d.line = <<>>
      PROVE  EndLine(d) = d
  <2>1. ~IsData(d.line) /\ ~IsName(d.line)
    BY <1>1 DEF IsData, IsName
  <2>2. QED
    BY <1>1, <2>1 DEF EndLine, Lined
<1>2. QED
  BY <1>1, DraftsSound, EmptyFacts DEF Lined

LEMMA BadAppend ==
  ASSUME NEW v, IsSeq(v), NEW x
  PROVE  Undecodable(Append(v, x)) <=> Undecodable(v) \/ x = BadUtf8
<1> DEFINE w == Append(v, x)
<1>1. /\ Len(v) \in Nat /\ DOMAIN v = 1 .. Len(v) /\ DOMAIN w = 1 .. Len(v) + 1
      /\ w[Len(v) + 1] = x /\ \A i \in 1 .. Len(v) : w[i] = v[i]
  BY SeqFacts, AppendFacts
<1> HIDE DEF w
<1>2. (\E i \in DOMAIN w : w[i] = BadUtf8) <=> (\E i \in DOMAIN v : v[i] = BadUtf8) \/ x = BadUtf8
  BY <1>1
<1>3. QED
  BY <1>2 DEF Undecodable, w

\* No event has ended in the bytes v.
Clean(v) ==
  LET r == Read(Fresh, v)
  IN  /\ Sound(r) /\ r.events = <<>> /\ r.lost = FALSE
      /\ r.draft = Parse(v) /\ (r.bad = TRUE <=> Undecodable(v))

\* The bytes v are one event and the terminators that end it.
Whole(v, c) ==
  /\ Undecodable(v) => Read(Fresh, v) = Reader(c, Blank, FALSE, TRUE, <<>>)
  /\ ~Undecodable(v) => Read(Fresh, v) = Reader(c, Blank, FALSE, FALSE, ParseEvent(v))

LEMMA CleanEmpty == Clean(<<>>)
<1>1. Len(<<>>) = 0
  OBVIOUS
<1>2. ~Undecodable(<<>>)
  BY DEF Undecodable
<1>3. Read(Fresh, <<>>) = Fresh /\ Parse(<<>>) = Blank
  BY ReadEmpty, ParseEmpty
<1>4. QED
  BY <1>2, <1>3, FreshSound DEF Clean

\* A byte that does not end a line.
LEMMA CleanByte ==
  ASSUME NEW v, IsSeq(v), Clean(v), NEW x, x \notin {CR, LF}
  PROVE  /\ Clean(Append(v, x)) /\ Read(Fresh, Append(v, x)).draft.line # <<>>
         /\ Read(Fresh, Append(v, x)).afterCr = FALSE
<1> DEFINE r == Read(Fresh, v)
           q == Read(Fresh, Append(v, x))
           b == (r.bad \/ x = BadUtf8)
           d == AddByte(r.draft, x)
<1>1. Sound(r) /\ r.events = <<>> /\ r.lost = FALSE /\ r.draft = Parse(v)
      /\ (r.bad = TRUE <=> Undecodable(v))
  BY DEF Clean
<1>2. q = ReadByte(r, x) /\ Parse(Append(v, x)) = ParseByte(r.draft, x)
  BY <1>1, ReadAppend, ParseAppend
<1>3. Sound(q)
  BY <1>1, <1>2, SoundByte
<1>4. q = Reader(FALSE, d, b, FALSE, <<>>)
  BY <1>1, <1>2, ReadAdds
<1>5. Parse(Append(v, x)) = d
  BY <1>2 DEF ParseByte
<1>6. b = TRUE <=> Undecodable(Append(v, x))
  <2>1. r.bad \in BOOLEAN
    BY <1>1 DEF Sound
  <2>2. QED
    BY <1>1, <2>1, BadAppend
<1> DEFINE w == Append(v, x)
<1>7. d.line # <<>>
  <2> DEFINE l == r.draft.line
  <2>1. IsSeq(l)
    BY <1>1 DEF Sound, Lined
  <2>2. d.line = Append(l, x)
    BY DraftsSound
  <2> HIDE DEF l, d
  <2> DEFINE m == d.line
  <2>3. Len(m) = Len(l) + 1
    BY <2>1, <2>2, AppendFacts, Zenon
  <2>4. Len(l) \in Nat
    BY <2>1, SeqFacts
  <2> HIDE DEF m
  <2>5. Len(m) # 0
    BY <2>3, <2>4
  <2>6. m # <<>>
    BY <2>5, EmptyFacts
  <2>7. QED
    BY <2>6 DEF m
<1> HIDE DEF b, d, q, w
<1>8. /\ q.events = <<>> /\ q.lost = FALSE /\ q.draft = d /\ q.bad = b
      /\ q.afterCr = FALSE
  BY <1>4 DEF Reader
<1>9. QED
  BY <1>3, <1>5, <1>6, <1>7, <1>8 DEF Clean, q

\* A terminator that ends a line, or that no event is before.
LEMMA CleanEnd ==
  ASSUME NEW v, IsSeq(v), Clean(v), NEW x \in {CR, LF},
         x = CR \/ Read(Fresh, v).afterCr = FALSE,
         Read(Fresh, v).draft.line # <<>> \/ v = <<>>
  PROVE  /\ Clean(Append(v, x)) /\ Read(Fresh, Append(v, x)).draft.line = <<>>
         /\ x = LF => Read(Fresh, Append(v, x)).afterCr = FALSE
         /\ x = CR => Read(Fresh, Append(v, x)).afterCr = TRUE
<1> DEFINE r == Read(Fresh, v)
           q == Read(Fresh, Append(v, x))
           c == (x = CR)
           d == EndLine(r.draft)
<1>1. Sound(r) /\ r.events = <<>> /\ r.lost = FALSE /\ r.draft = Parse(v)
      /\ (r.bad = TRUE <=> Undecodable(v))
  BY DEF Clean
<1>2. q = ReadByte(r, x) /\ Parse(Append(v, x)) = ParseByte(r.draft, x)
  BY <1>1, ReadAppend, ParseAppend
<1>3. Sound(q)
  BY <1>1, <1>2, SoundByte
<1>4. Parse(Append(v, x)) = d
  BY <1>2 DEF ParseByte
<1>5. Undecodable(Append(v, x)) <=> Undecodable(v)
  <2>1. x # BadUtf8
    BY DEF CR, LF, BadUtf8
  <2>2. QED
    BY <2>1, BadAppend
<1>6. q = ReadEnd(r, c)
  BY <1>2, ReadEnds
<1>7. d.line = <<>>
  BY DraftsSound
<1>8. (c = TRUE <=> x = CR) /\ (c = FALSE <=> x = LF)
  BY DEF CR, LF
<1>9. q = Reader(c, d, r.bad, FALSE, <<>>)
  <2>1. CASE r.draft.line # <<>>
    <3>1. q = Reader(c, d, r.bad, r.lost, r.events)
      BY <1>6, <2>1, EndsLine
    <3>2. QED
      BY <1>1, <3>1
  <2>2. CASE r.draft.line = <<>>
    <3>1. r = Fresh
      BY <2>2, ReadEmpty
    <3>2. /\ r.draft = Blank /\ r.events = <<>> /\ r.bad = FALSE /\ r.lost = FALSE
      BY <3>1, FreshSound
    <3>3. q = Reader(c, Blank, FALSE, FALSE, r.events \o EventOf(r.draft))
      BY <1>6, <2>2, <3>2, EndsEvent
    <3>4. r.events \o EventOf(r.draft) = <<>>
      BY <3>2, BlankFields, ConcatEmpty, EmptyFacts
    <3>5. d = Blank
      BY <3>2, BlankFields
    <3>6. QED
      BY <3>2, <3>3, <3>4, <3>5
  <2>3. QED
    BY <2>1, <2>2
<1> DEFINE b == r.bad
<1> HIDE DEF b, c, d, q
<1>10. /\ q.events = <<>> /\ q.lost = FALSE /\ q.draft = d /\ q.bad = r.bad
       /\ q.afterCr = c
  BY <1>9 DEF Reader
<1>11. Clean(Append(v, x))
  BY <1>1, <1>3, <1>4, <1>5, <1>10 DEF Clean, q
<1>12. QED
  BY <1>7, <1>8, <1>10, <1>11 DEF q

\* The LF that completes a CR.
LEMMA CleanSkip ==
  ASSUME NEW v, IsSeq(v), Clean(v), Read(Fresh, v).afterCr = TRUE,
         Read(Fresh, v).draft.line = <<>>
  PROVE  /\ Clean(Append(v, LF)) /\ Read(Fresh, Append(v, LF)).draft.line = <<>>
         /\ Read(Fresh, Append(v, LF)).afterCr = FALSE
<1> DEFINE r == Read(Fresh, v)
           q == Read(Fresh, Append(v, LF))
<1>1. Sound(r) /\ r.events = <<>> /\ r.lost = FALSE /\ r.draft = Parse(v)
      /\ (r.bad = TRUE <=> Undecodable(v))
  BY DEF Clean
<1>2. q = ReadByte(r, LF) /\ Parse(Append(v, LF)) = ParseByte(r.draft, LF)
  BY <1>1, ReadAppend, ParseAppend
<1>3. Sound(q)
  BY <1>1, <1>2, SoundByte
<1>4. Parse(Append(v, LF)) = r.draft
  <2>1. EndLine(r.draft) = r.draft
    BY <1>1, EndLineAgain DEF Sound
  <2>2. QED
    BY <1>2, <2>1 DEF ParseByte
<1>5. Undecodable(Append(v, LF)) <=> Undecodable(v)
  <2>1. LF # BadUtf8
    BY DEF LF, BadUtf8
  <2>2. QED
    BY <2>1, BadAppend
<1>6. q = Reader(FALSE, r.draft, r.bad, r.lost, r.events)
  BY <1>2, ReadSkips
<1> DEFINE b == r.bad
<1> HIDE DEF q
<1>7. /\ q.events = r.events /\ q.lost = r.lost /\ q.draft = r.draft /\ q.bad = r.bad
      /\ q.afterCr = FALSE
  BY <1>6 DEF Reader
<1>8. Clean(Append(v, LF))
  BY <1>1, <1>3, <1>4, <1>5, <1>7 DEF Clean, q
<1>9. QED
  BY <1>7, <1>8 DEF q

\* The empty line that ends an event.
LEMMA CleanEnds ==
  ASSUME NEW v, IsSeq(v), Clean(v), NEW x \in {CR, LF},
         x = CR \/ Read(Fresh, v).afterCr = FALSE,
         Read(Fresh, v).draft.line = <<>>
  PROVE  Whole(Append(v, x), x = CR)
<1> DEFINE r == Read(Fresh, v)
           c == (x = CR)
           q == Read(Fresh, Append(v, x))
           d == r.draft
<1>1. Sound(r) /\ r.events = <<>> /\ r.lost = FALSE /\ r.draft = Parse(v)
      /\ (r.bad = TRUE <=> Undecodable(v)) /\ r.bad \in BOOLEAN
  BY DEF Clean, Sound
<1>2. q = ReadByte(r, x) /\ Parse(Append(v, x)) = ParseByte(r.draft, x)
  BY <1>1, ReadAppend, ParseAppend
<1>3. ParseEvent(Append(v, x)) = EventOf(d)
  <2>1. EndLine(d) = d
    BY <1>1, EndLineAgain DEF Sound
  <2>2. Parse(Append(v, x)) = EndLine(d)
    BY <1>2 DEF ParseByte
  <2>3. QED
    BY <2>1, <2>2 DEF ParseEvent
<1>4. Undecodable(Append(v, x)) <=> Undecodable(v)
  <2>1. x # BadUtf8
    BY DEF CR, LF, BadUtf8
  <2>2. QED
    BY <2>1, BadAppend
<1>6. q = ReadEnd(r, c)
  BY <1>2, ReadEnds
<1> HIDE DEF c
<1> SUFFICES Whole(Append(v, x), c)
  BY DEF c
<1>7. CASE Undecodable(v)
  BY <1>1, <1>4, <1>6, <1>7, EndsLost DEF Whole
<1>8. CASE ~Undecodable(v)
  <2>1. q = Reader(c, Blank, FALSE, FALSE, r.events \o EventOf(d))
    BY <1>1, <1>6, <1>8, EndsEvent
  <2> DEFINE y == EventOf(d)
  <2>2. IsSeq(y)
    BY EventOfSeq
  <2> HIDE DEF y
  <2>3. <<>> \o y = y
    BY <2>2, ConcatEmpty
  <2>4. q = Reader(c, Blank, FALSE, FALSE, ParseEvent(Append(v, x)))
    BY <1>1, <1>3, <2>1, <2>3 DEF y
  <2>5. QED
    BY <1>4, <1>8, <2>4 DEF Whole
<1>9. QED
  BY <1>7, <1>8

\* The LF that completes the CR which ended one.
LEMMA WholeSkip ==
  ASSUME NEW v, IsSeq(v), Whole(v, TRUE)
  PROVE  Whole(Append(v, LF), FALSE)
<1> DEFINE r == Read(Fresh, v)
           q == Read(Fresh, Append(v, LF))
<1>1. q = ReadByte(r, LF) /\ Parse(Append(v, LF)) = ParseByte(Parse(v), LF)
  BY ReadAppend, ParseAppend
<1>2. ParseEvent(Append(v, LF)) = ParseEvent(v)
  <2>1. Parse(Append(v, LF)) = EndLine(Parse(v))
    BY <1>1 DEF ParseByte
  <2>2. EndLine(EndLine(Parse(v))) = EndLine(Parse(v))
    BY EndLineAgain
  <2>3. QED
    BY <2>1, <2>2 DEF ParseEvent
<1>3. Undecodable(Append(v, LF)) <=> Undecodable(v)
  <2>1. LF # BadUtf8
    BY DEF LF, BadUtf8
  <2>2. QED
    BY <2>1, BadAppend
<1>4. ASSUME NEW l, NEW e, r = Reader(TRUE, Blank, FALSE, l, e)
      PROVE  q = Reader(FALSE, Blank, FALSE, l, e)
  <2>1. /\ r.afterCr = TRUE /\ r.draft = Blank /\ r.bad = FALSE /\ r.lost = l
        /\ r.events = e
    BY <1>4 DEF Reader
  <2>2. q = Reader(FALSE, r.draft, r.bad, r.lost, r.events)
    BY <1>1, <2>1, ReadSkips
  <2>3. QED
    BY <2>1, <2>2
<1>5. CASE Undecodable(v)
  BY <1>3, <1>4, <1>5 DEF Whole
<1>6. CASE ~Undecodable(v)
  BY <1>2, <1>3, <1>4, <1>6 DEF Whole
<1>7. QED
  BY <1>5, <1>6

LEMMA ScanDefined ==
  ASSUME NEW bytes, NEW first, NEW n \in Nat
  PROVE  \E f : f = [k \in 0 .. n |-> IF k = 0 THEN first
                                               ELSE ScanOn(bytes, f[k - 1])]
<1> DEFINE Is(f, m) == f = [k \in 0 .. m |-> IF k = 0 THEN first
                                                        ELSE ScanOn(bytes, f[k - 1])]
           T == {m \in Nat : \E f : Is(f, m)}
<1>1. 0 \in T
  <2>1. Is([k \in 0 .. 0 |-> first], 0)
    OBVIOUS
  <2>2. QED
    BY <2>1
<1>2. ASSUME NEW m \in T
      PROVE  m + 1 \in T
  <2>1. PICK f : Is(f, m)
    OBVIOUS
  <2> DEFINE g == [k \in 0 .. m + 1 |-> IF k = m + 1 THEN ScanOn(bytes, f[m]) ELSE f[k]]
  <2>2. \A k \in 0 .. m + 1 : g[k] = IF k = 0 THEN first
                                              ELSE ScanOn(bytes, g[k - 1])
    BY <2>1
  <2>3. Is(g, m + 1)
    BY <2>2
  <2>4. m + 1 \in Nat
    OBVIOUS
  <2> HIDE DEF g
  <2>5. QED
    BY <2>3, <2>4, Zenon
<1>3. T = Nat
  <2> HIDE DEF T
  <2>1. T \in SUBSET Nat
    BY DEF T
  <2>2. QED
    BY <1>1, <1>2, <2>1, NatInduct
<1>4. QED
  BY <1>3

LEMMA ScanTurns ==
  ASSUME NEW bytes, Len(bytes) \in Nat
  PROVE  \E f : /\ f[0] = Scan(1, FALSE, 0)
                /\ \A k \in 1 .. Len(bytes) : f[k] = ScanOn(bytes, f[k - 1])
                /\ FindEventEnd(bytes) = f[Len(bytes)].end
<1> DEFINE first == Scan(1, FALSE, 0)
<1> DEFINE F == CHOOSE f : f = [k \in 0 .. Len(bytes) |->
                  IF k = 0 THEN first ELSE ScanOn(bytes, f[k - 1])]
<1> HIDE DEF first
<1>1. F = [k \in 0 .. Len(bytes) |->
             IF k = 0 THEN first ELSE ScanOn(bytes, F[k - 1])]
  BY ScanDefined
<1>2. FindEventEnd(bytes) = F[Len(bytes)].end
  BY DEF FindEventEnd, first
<1> HIDE DEF F
<1>3. F[0] = first
  BY <1>1
<1>4. \A k \in 1 .. Len(bytes) : F[k] = ScanOn(bytes, F[k - 1])
  BY <1>1
<1>5. QED
  BY <1>2, <1>3, <1>4 DEF first

\* What the terminator at i is.
LEMMA Terminators ==
  ASSUME NEW bytes, NEW i
  PROVE  /\ TerminatorAt(bytes, i) \in {0, 1, 2}
         /\ TerminatorAt(bytes, i) = 0 => bytes[i] \notin {CR, LF}
         /\ TerminatorAt(bytes, i) = 1 =>
              \/ bytes[i] = LF
              \/ bytes[i] = CR /\ ~(i < Len(bytes) /\ bytes[i + 1] = LF)
         /\ TerminatorAt(bytes, i) = 2 =>
              bytes[i] = CR /\ i < Len(bytes) /\ bytes[i + 1] = LF
<1>1. CR # LF
  BY DEF CR, LF
<1>2. CASE bytes[i] = LF
  BY <1>1, <1>2 DEF TerminatorAt
<1>3. CASE bytes[i] = CR /\ i < Len(bytes) /\ bytes[i + 1] = LF
  BY <1>1, <1>3 DEF TerminatorAt
<1>4. CASE bytes[i] = CR /\ ~(i < Len(bytes) /\ bytes[i + 1] = LF)
  BY <1>1, <1>4 DEF TerminatorAt
<1>5. CASE bytes[i] \notin {CR, LF}
  BY <1>5 DEF TerminatorAt
<1>6. QED
  BY <1>2, <1>3, <1>4, <1>5

\* The bytes before `at` hold no event.
Before(bytes, at) ==
  /\ at \in 1 .. Len(bytes) + 1
  /\ Clean(SubSeq(bytes, 1, at - 1))
  /\ at <= Len(bytes) /\ bytes[at] = LF => Read(Fresh, SubSeq(bytes, 1, at - 1)).afterCr = FALSE

LineAt(bytes, at) == Read(Fresh, SubSeq(bytes, 1, at - 1)).draft.line

\* The loop has read them, and knows whether a line has begun.
Scanning(bytes, s) ==
  /\ Before(bytes, s.at)
  /\ \/ s.afterTerminator = TRUE /\ LineAt(bytes, s.at) = <<>>
     \/ s.afterTerminator = FALSE /\ (s.at = 1 \/ LineAt(bytes, s.at) # <<>>)

\* The first e bytes are the first event.
Found(bytes, e) == e \in 1 .. Len(bytes) /\ Whole(SubSeq(bytes, 1, e), bytes[e] = CR)

LEMMA ScanStarts ==
  ASSUME NEW bytes, IsSeq(bytes)
  PROVE  Scanning(bytes, Scan(1, FALSE, 0)) /\ Scan(1, FALSE, 0).end = 0
<1> DEFINE s == Scan(1, FALSE, 0)
<1>1. s.at = 1 /\ s.afterTerminator = FALSE /\ s.end = 0
  BY DEF Scan
<1> HIDE DEF s
<1>2. SubSeq(bytes, 1, 0) = <<>> /\ Len(bytes) \in Nat
  BY UpTo, SeqFacts
<1>3. 1 \in 1 .. Len(bytes) + 1 /\ 1 - 1 = 0
  BY <1>2
<1>4. Read(Fresh, <<>>).afterCr = FALSE
  BY ReadEmpty, FreshSound
<1>5. Before(bytes, s.at)
  <2>1. Before(bytes, 1)
    BY <1>2, <1>3, <1>4, CleanEmpty DEF Before
  <2>2. QED
    BY <1>1, <2>1
<1>6. Scanning(bytes, s)
  BY <1>1, <1>5 DEF Scanning
<1>7. QED
  BY <1>1, <1>6 DEF s

\* One turn: the loop goes on behind what it has read, or has found the end.
LEMMA ScanTurn ==
  ASSUME NEW bytes, IsSeq(bytes), NEW s, s.end = 0, Scanning(bytes, s), s.at <= Len(bytes)
  PROVE  LET t == ScanOn(bytes, s)
         IN  \/ t.end = 0 /\ Scanning(bytes, t) /\ t.at > s.at
             \/ Found(bytes, t.end)
<1> DEFINE at == s.at
           x == bytes[at]
           n == TerminatorAt(bytes, at)
           t == ScanOn(bytes, s)
           u(i) == SubSeq(bytes, 1, i)
           r(i) == Read(Fresh, u(i))
<1>1. /\ Len(bytes) \in Nat /\ at \in 1 .. Len(bytes) /\ at \in Nat /\ at - 1 \in Nat
      /\ Before(bytes, at)
  BY SeqFacts DEF Scanning, Before
<1>2. \/ s.afterTerminator = TRUE /\ r(at - 1).draft.line = <<>>
      \/ s.afterTerminator = FALSE /\ (at = 1 \/ r(at - 1).draft.line # <<>>)
  BY DEF Scanning, LineAt
<1>3. /\ u(0) = <<>>
      /\ \A k \in 0 .. Len(bytes) : IsSeq(u(k))
      /\ \A k \in Nat : k + 1 <= Len(bytes) => u(k + 1) = Append(u(k), bytes[k + 1])
  BY UpTo
<1>4. IsSeq(u(at - 1)) /\ u(at) = Append(u(at - 1), x) /\ IsSeq(u(at))
  <2>1. (at - 1) + 1 = at /\ at - 1 \in 0 .. Len(bytes) /\ at \in 0 .. Len(bytes)
    BY <1>1
  <2>2. u((at - 1) + 1) = Append(u(at - 1), bytes[(at - 1) + 1])
    BY <1>1, <1>3, <2>1
  <2>3. QED
    BY <1>3, <2>1, <2>2
<1>5. Clean(u(at - 1)) /\ (x = LF => r(at - 1).afterCr = FALSE)
  BY <1>1 DEF Before
<1>6. n \in {0, 1, 2}
  BY Terminators
<1>7. /\ n = 0 => t = Scan(at + 1, FALSE, 0)
      /\ n # 0 /\ s.afterTerminator = FALSE => t = Scan(at + n, TRUE, 0)
      /\ n # 0 /\ s.afterTerminator = TRUE => t = Scan(at + n, TRUE, at + n - 1)
  <2>1. ~(s.end > 0 \/ s.at > Len(bytes))
    BY <1>1
  <2>2. CASE n = 0
    BY <2>1, <2>2 DEF ScanOn
  <2>3. CASE n # 0 /\ s.afterTerminator = FALSE
    BY <2>1, <2>3 DEF ScanOn
  <2>4. CASE n # 0 /\ s.afterTerminator = TRUE
    BY <2>1, <2>4 DEF ScanOn
  <2>5. QED
    BY <1>2, <2>2, <2>3, <2>4
<1>8. n = 2 => at + 1 \in 1 .. Len(bytes) /\ u(at + 1) = Append(u(at), LF) /\ bytes[at + 1] = LF
  <2> SUFFICES ASSUME n = 2
               PROVE  /\ at + 1 \in 1 .. Len(bytes) /\ u(at + 1) = Append(u(at), LF)
                      /\ bytes[at + 1] = LF
    OBVIOUS
  <2>1. at < Len(bytes) /\ bytes[at + 1] = LF
    BY Terminators
  <2>2. at + 1 \in 1 .. Len(bytes) /\ at \in Nat /\ at + 1 <= Len(bytes)
    BY <1>1, <2>1
  <2>3. u(at + 1) = Append(u(at), bytes[at + 1])
    BY <1>3, <2>2
  <2>4. QED
    BY <2>1, <2>2, <2>3
<1> HIDE DEF at, n, t, u, x
<1>9. CASE n = 0
  <2>1. t = Scan(at + 1, FALSE, 0)
    BY <1>7, <1>9
  <2>2. t.at = at + 1 /\ t.afterTerminator = FALSE /\ t.end = 0
    BY <2>1 DEF Scan
  <2>3. x \notin {CR, LF}
    BY <1>9, Terminators DEF n, x
  <2>4. Clean(u(at)) /\ r(at).draft.line # <<>> /\ r(at).afterCr = FALSE
    BY <1>4, <1>5, <2>3, CleanByte
  <2>5. Before(bytes, at + 1) /\ LineAt(bytes, at + 1) # <<>>
    <3>1. (at + 1) - 1 = at /\ at + 1 \in 1 .. Len(bytes) + 1
      BY <1>1
    <3>2. QED
      BY <2>4, <3>1 DEF Before, LineAt, u
  <2>6. t.end = 0 /\ Scanning(bytes, t) /\ t.at > at
    BY <1>1, <2>2, <2>5 DEF Scanning
  <2>7. QED
    BY <2>6 DEF t, at
<1>10. CASE n \in {1, 2} /\ s.afterTerminator = FALSE
  <2>1. t = Scan(at + n, TRUE, 0)
    <3>1. n # 0
      BY <1>10
    <3>2. QED
      BY <1>7, <1>10, <3>1, Zenon
  <2>2. t.at = at + n /\ t.afterTerminator = TRUE /\ t.end = 0
    BY <2>1 DEF Scan
  <2>3. x \in {CR, LF}
    BY <1>10, Terminators DEF n, x
  <2>4. r(at - 1).draft.line # <<>> \/ u(at - 1) = <<>>
    BY <1>2, <1>3, <1>10
  <2>5. /\ Clean(u(at)) /\ r(at).draft.line = <<>>
        /\ x = LF => r(at).afterCr = FALSE
        /\ x = CR => r(at).afterCr = TRUE
    <3>1. x = CR \/ r(at - 1).afterCr = FALSE
      BY <1>5, <2>3
    <3> DEFINE v == u(at - 1)
    <3>2. IsSeq(v) /\ Clean(v)
      BY <1>4, <1>5
    <3>4. Read(Fresh, v).draft.line # <<>> \/ v = <<>>
      BY <2>4
    <3>5. x = CR \/ Read(Fresh, v).afterCr = FALSE
      BY <3>1
    <3> HIDE DEF v
    <3>3. /\ Clean(Append(v, x)) /\ Read(Fresh, Append(v, x)).draft.line = <<>>
          /\ x = LF => Read(Fresh, Append(v, x)).afterCr = FALSE
          /\ x = CR => Read(Fresh, Append(v, x)).afterCr = TRUE
      BY <2>3, <3>2, <3>4, <3>5, CleanEnd
    <3>6. QED
      BY <1>4, <3>3 DEF v
  <2>6. CASE n = 1
    <3>1. (at + 1) - 1 = at /\ at + 1 \in 1 .. Len(bytes) + 1
      BY <1>1
    <3>2. at + 1 <= Len(bytes) /\ bytes[at + 1] = LF => r(at).afterCr = FALSE
      <4>1. x = LF \/ ~(at < Len(bytes) /\ bytes[at + 1] = LF)
        BY <2>6, Terminators DEF n, x
      <4>2. QED
        BY <1>1, <2>5, <4>1
    <3>3. Before(bytes, at + 1) /\ LineAt(bytes, at + 1) = <<>>
      BY <2>5, <3>1, <3>2 DEF Before, LineAt, u
    <3>4. t.end = 0 /\ Scanning(bytes, t) /\ t.at > at
      BY <1>1, <2>2, <2>6, <3>3 DEF Scanning
    <3>5. QED
      BY <3>4 DEF t, at
  <2>7. CASE n = 2
    <3>1. x = CR
      BY <2>7, Terminators DEF n, x
    <3>2. Clean(u(at + 1)) /\ r(at + 1).draft.line = <<>> /\ r(at + 1).afterCr = FALSE
      BY <1>4, <1>8, <2>5, <2>7, <3>1, CleanSkip
    <3>3. (at + 2) - 1 = at + 1 /\ at + 2 \in 1 .. Len(bytes) + 1
      BY <1>1, <1>8, <2>7
    <3>4. Before(bytes, at + 2) /\ LineAt(bytes, at + 2) = <<>>
      BY <3>2, <3>3 DEF Before, LineAt, u
    <3>5. t.end = 0 /\ Scanning(bytes, t) /\ t.at > at
      BY <1>1, <2>2, <2>7, <3>4 DEF Scanning
    <3>6. QED
      BY <3>5 DEF t, at
  <2>8. QED
    BY <1>10, <2>6, <2>7
<1>11. CASE n \in {1, 2} /\ s.afterTerminator = TRUE
  <2>1. t = Scan(at + n, TRUE, at + n - 1)
    <3>1. n # 0
      BY <1>11
    <3>2. QED
      BY <1>7, <1>11, <3>1, Zenon
  <2>2. t.end = at + n - 1
    BY <2>1 DEF Scan
  <2>3. x \in {CR, LF}
    BY <1>11, Terminators DEF n, x
  <2>4. r(at - 1).draft.line = <<>>
    BY <1>2, <1>11
  <2>5. Whole(u(at), x = CR)
    BY <1>4, <1>5, <2>3, <2>4, CleanEnds
  <2>6. CASE n = 1
    <3>1. t.end = at
      BY <1>1, <2>2, <2>6
    <3>2. Found(bytes, at)
      BY <1>1, <2>5 DEF Found, u, x
    <3>3. QED
      BY <3>1, <3>2 DEF t
  <2>7. CASE n = 2
    <3>1. t.end = at + 1
      BY <1>1, <2>2, <2>7
    <3>2. (x = CR) = TRUE /\ (bytes[at + 1] = CR) = FALSE
      <4>1. x = CR /\ bytes[at + 1] # CR
        BY <1>8, <2>7, Terminators DEF n, x, CR, LF
      <4>2. QED
        BY <4>1
    <3>3. Whole(u(at), TRUE)
      BY <2>5, <3>2
    <3>4. Whole(u(at + 1), FALSE)
      BY <1>4, <1>8, <2>7, <3>3, WholeSkip
    <3>5. Whole(u(at + 1), bytes[at + 1] = CR)
      BY <3>2, <3>4
    <3>6. Found(bytes, at + 1)
      BY <1>8, <2>7, <3>5 DEF Found, u
    <3>7. QED
      BY <3>1, <3>6 DEF t
  <2>8. QED
    BY <1>11, <2>6, <2>7
<1>12. QED
  BY <1>2, <1>6, <1>9, <1>10, <1>11

\* What find_event_end says of the bytes: the reader finds its first event
\* where it does, and none when it finds none.
LEMMA EndSays ==
  ASSUME NEW bytes, IsSeq(bytes)
  PROVE  /\ FindEventEnd(bytes) \in 0 .. Len(bytes)
         /\ FindEventEnd(bytes) = 0 => Clean(bytes)
         /\ FindEventEnd(bytes) # 0 => Found(bytes, FindEventEnd(bytes))
<1>1. Len(bytes) \in Nat
  BY SeqFacts
<1>2. PICK f : /\ f[0] = Scan(1, FALSE, 0)
               /\ \A k \in 1 .. Len(bytes) : f[k] = ScanOn(bytes, f[k - 1])
               /\ FindEventEnd(bytes) = f[Len(bytes)].end
  BY <1>1, ScanTurns
<1> DEFINE More(s, k) == /\ s.end = 0 /\ Scanning(bytes, s)
                         /\ s.at > Len(bytes) \/ s.at > k
           P(k) == More(f[k], k) \/ Found(bytes, f[k].end)
           T == {k \in Nat : k <= Len(bytes) => P(k)}
<1>3. 0 \in T
  <2>1. f[0].at = 1
    <3>1. Scan(1, FALSE, 0).at = 1
      BY DEF Scan
    <3>2. QED
      BY <1>2, <3>1
  <2>2. More(f[0], 0)
    <3>1. f[0].end = 0 /\ Scanning(bytes, f[0])
      BY <1>2, ScanStarts, Zenon
    <3>2. QED
      BY <2>1, <3>1
  <2>3. QED
    BY <2>2
<1>4. ASSUME NEW k \in T
      PROVE  k + 1 \in T
  <2>1. SUFFICES ASSUME k + 1 <= Len(bytes) PROVE P(k + 1)
    OBVIOUS
  <2>2. P(k) /\ k \in Nat /\ k + 1 \in 1 .. Len(bytes) /\ (k + 1) - 1 = k
    BY <1>1, <2>1
  <2> DEFINE s == f[k]
             t == f[k + 1]
  <2>3. t = ScanOn(bytes, s)
    BY <1>2, <2>2
  <2>4. CASE Found(bytes, s.end)
    <3>1. s.end > 0
      BY <1>1, <2>4 DEF Found
    <3>2. t = s
      BY <2>3, <3>1 DEF ScanOn
    <3>3. QED
      BY <2>4, <3>2
  <2>5. CASE More(s, k) /\ s.at > Len(bytes)
    <3>1. t = s
      BY <2>3, <2>5 DEF ScanOn
    <3>2. QED
      BY <2>5, <3>1
  <2>6. CASE More(s, k) /\ ~(s.at > Len(bytes))
    <3>1. s.at \in Nat /\ s.at <= Len(bytes)
      BY <1>1, <2>6 DEF Scanning, Before
    <3>2. \/ t.end = 0 /\ Scanning(bytes, t) /\ t.at > s.at
          \/ Found(bytes, t.end)
      BY <2>3, <2>6, <3>1, ScanTurn
    <3>3. CASE Found(bytes, t.end)
      BY <3>3
    <3>4. CASE t.end = 0 /\ Scanning(bytes, t) /\ t.at > s.at
      <4>1. t.at \in Nat
        BY <1>1, <3>4 DEF Scanning, Before
      <4>2. t.at > k + 1
        BY <1>1, <2>2, <2>6, <3>1, <3>4, <4>1
      <4>3. QED
        BY <3>4, <4>2
    <3>5. QED
      BY <3>2, <3>3, <3>4
  <2>7. QED
    BY <2>2, <2>4, <2>5, <2>6
<1>5. T = Nat
  <2> HIDE DEF T
  <2>1. T \in SUBSET Nat
    BY DEF T
  <2>2. QED
    BY <1>3, <1>4, <2>1, NatInduct
<1>6. P(Len(bytes))
  BY <1>1, <1>5
<1> DEFINE s == f[Len(bytes)]
<1>7. CASE More(s, Len(bytes))
  <2>1. s.at \in 1 .. Len(bytes) + 1
    BY <1>7 DEF Scanning, Before
  <2>2. s.at - 1 = Len(bytes)
    BY <1>1, <1>7, <2>1
  <2>3. Clean(SubSeq(bytes, 1, Len(bytes)))
    BY <1>7, <2>2 DEF Scanning, Before
  <2>4. Clean(bytes)
    BY <2>3, UpTo
  <2>5. QED
    BY <1>1, <1>2, <1>7, <2>4
<1>8. CASE Found(bytes, s.end)
  <2>1. s.end \in 1 .. Len(bytes)
    BY <1>8 DEF Found
  <2>2. QED
    BY <1>1, <1>2, <1>8, <2>1
<1>9. QED
  BY <1>6, <1>7, <1>8

-----------------------------------------------------------------------------
(* Taking the events off a buffer                                          *)

\* What the turns of push's loop have made of the bytes.
Taken(bytes, s) ==
  /\ IsSeq(s.events) /\ IsSeq(s.rest) /\ Len(s.rest) <= Len(bytes)
  /\ \/ /\ s.bad = FALSE
        /\ Alike(Read(Fresh, bytes), Read(Fresh, s.rest), s.events)
     \/ /\ s.bad = TRUE /\ s.rest = <<>>
        /\ Read(Fresh, bytes).lost = TRUE /\ Read(Fresh, bytes).events = s.events

LEMMA DrainedFields ==
  \A e, r, c, b : /\ Drained(e, r, c, b).events = e /\ Drained(e, r, c, b).rest = r
                  /\ Drained(e, r, c, b).endedCr = c /\ Drained(e, r, c, b).bad = b
BY DEF Drained

\* The bytes of a buffer behind its first e.
LEMMA CutAt ==
  ASSUME NEW bytes, IsSeq(bytes), NEW e \in 1 .. Len(bytes)
  PROVE  LET v == SubSeq(bytes, 1, e)
             w == SubSeq(bytes, e + 1, Len(bytes))
         IN  IsSeq(v) /\ Len(v) = e /\ v[e] = bytes[e] /\ IsSeq(w)
             /\ Len(w) = Len(bytes) - e /\ bytes = v \o w
<1> DEFINE v == SubSeq(bytes, 1, e)
           w == SubSeq(bytes, e + 1, Len(bytes))
<1>1. Len(bytes) \in Nat
  BY SeqFacts
<1>2. IsSeq(v) /\ Len(v) = e /\ \A i \in 1 .. e : v[i] = bytes[i]
  <2>1. 1 \in 1 .. Len(bytes) + 1 /\ e \in 0 .. Len(bytes) /\ 1 <= e + 1 /\ e - 1 + 1 = e
    BY <1>1
  <2>2. QED
    BY <2>1, SubSeqFacts
<1>3. IsSeq(w) /\ Len(w) = Len(bytes) - e /\ \A i \in 1 .. Len(bytes) - e : w[i] = bytes[e + i]
  <2>1. /\ e + 1 \in 1 .. Len(bytes) + 1 /\ Len(bytes) \in 0 .. Len(bytes)
        /\ e + 1 <= Len(bytes) + 1 /\ Len(bytes) - (e + 1) + 1 = Len(bytes) - e
    BY <1>1
  <2>2. /\ IsSeq(w) /\ Len(w) = Len(bytes) - (e + 1) + 1
        /\ \A i \in 1 .. Len(bytes) - (e + 1) + 1 : w[i] = bytes[(e + 1) + i - 1]
    BY <2>1, SubSeqFacts
  <2>3. \A i \in 1 .. Len(bytes) - e : (e + 1) + i - 1 = e + i
    BY <1>1
  <2>4. QED
    BY <2>1, <2>2, <2>3
<1> HIDE DEF v, w
<1> DEFINE x == v \o w
<1>8. /\ IsSeq(x) /\ Len(x) = Len(v) + Len(w)
      /\ \A i \in 1 .. Len(v) : x[i] = v[i]
      /\ \A i \in 1 .. Len(w) : x[Len(v) + i] = w[i]
  <2>1. IsSeq(v) /\ IsSeq(w)
    BY <1>2, <1>3
  <2>2. QED
    BY <2>1, ConcatFacts
<1> HIDE DEF x
<1>4. /\ IsSeq(x) /\ Len(x) = Len(bytes)
      /\ \A i \in 1 .. e : x[i] = v[i]
      /\ \A i \in 1 .. Len(w) : x[e + i] = w[i]
  <2>1. Len(v) + Len(w) = Len(bytes)
    BY <1>1, <1>2, <1>3
  <2>2. QED
    BY <1>2, <1>8, <2>1
<1>5. ASSUME NEW i \in 1 .. Len(bytes)
      PROVE  bytes[i] = x[i]
  <2>1. CASE i <= e
    BY <1>1, <1>2, <1>4, <2>1
  <2>2. CASE i > e
    <3>1. i - e \in 1 .. Len(w) /\ e + (i - e) = i
      BY <1>1, <1>3, <2>2
    <3>2. x[e + (i - e)] = w[i - e] /\ w[i - e] = bytes[e + (i - e)]
      BY <1>3, <1>4, <3>1
    <3>3. QED
      BY <3>1, <3>2
  <2>3. QED
    BY <1>1, <2>1, <2>2
<1>6. bytes = x
  BY <1>4, <1>5, SameSeq
<1>7. QED
  BY <1>2, <1>3, <1>6 DEF v, w, x

LEMMA DrainTurn ==
  ASSUME NEW bytes, IsSeq(bytes), NEW s, Taken(bytes, s)
  PROVE  /\ Taken(bytes, DrainOn(s))
         /\ FindEventEnd(s.rest) = 0 => DrainOn(s) = s
         /\ FindEventEnd(s.rest) # 0 => Len(DrainOn(s).rest) < Len(s.rest)
<1> DEFINE e == FindEventEnd(s.rest)
           rest == s.rest
           v == SubSeq(rest, 1, e)
           w == SubSeq(rest, e + 1, Len(rest))
           R == Read(Fresh, bytes)
           p == Read(Fresh, v)
           q == Read(Fresh, rest)
           found == s.events
           ev == ParseEvent(v)
           t == DrainOn(s)
<1>1. IsSeq(found) /\ IsSeq(rest) /\ Len(rest) \in Nat /\ Len(bytes) \in Nat
      /\ Len(rest) <= Len(bytes)
  BY SeqFacts DEF Taken
<1>2. e \in 0 .. Len(rest) /\ (e # 0 => Found(rest, e))
  BY <1>1, EndSays
<1>3. CASE e = 0
  <2>1. t = s
    BY <1>3 DEF DrainOn
  <2>2. QED
    BY <1>3, <2>1
<1>4. CASE e # 0
  <2> DEFINE c == (rest[e] = CR)
  <2>1. e \in 1 .. Len(rest) /\ Whole(v, c)
    BY <1>2, <1>4 DEF Found
  <2>2. /\ IsSeq(v) /\ Len(v) = e /\ v[e] = rest[e] /\ IsSeq(w)
        /\ Len(w) = Len(rest) - e /\ rest = v \o w
    BY <1>1, <2>1, CutAt
  <2>3. rest # <<>>
    BY <1>1, <2>1, EmptyFacts
  <2>4. Alike(R, q, found)
    <3>1. Alike(R, q, found) \/ s.rest = <<>>
      BY DEF Taken
    <3>2. QED
      BY <2>3, <3>1
  <2>9. Sound(p)
    BY <2>2, SoundRead, FreshSound
  <2>5. q = Read(p, w) /\ Sound(p)
    <3>1. Read(Fresh, v \o w) = Read(p, w)
      BY <2>2, ReadConcat
    <3>2. QED
      BY <2>2, <2>9, <3>1
  <2>6. Len(w) < Len(rest) /\ Len(w) <= Len(bytes) /\ 0 < Len(rest) /\ 0 <= Len(bytes)
    <3> HIDE DEF v, w, rest, e, c
    <3>1. QED
      BY <1>1, <2>1, <2>2
  <2> HIDE DEF c, e, R, p, q, ev, found
  <2>7. CASE Undecodable(v)
    <3>1. p = Reader(c, Blank, FALSE, TRUE, <<>>)
      BY <2>1, <2>7 DEF Whole, p
    <3>2. p.lost = TRUE /\ p.events = <<>>
      BY <3>1 DEF Reader
    <3>3. q.lost = TRUE /\ q.events = <<>>
      BY <2>2, <2>5, <3>2, ReadAddsEvents
    <3>4. R.lost = TRUE /\ R.events = found
      BY <1>1, <2>4, <3>3, ConcatEmpty DEF Alike
    <3>5. t = Drained(found, <<>>, FALSE, TRUE)
      BY <1>4, <2>7 DEF DrainOn, e, found
    <3>6. t.events = found /\ t.rest = <<>> /\ t.bad = TRUE
      BY <3>5 DEF Drained
    <3>7. Len(<<>>) = 0 /\ IsSeq(<<>>)
      BY EmptyFacts
    <3>8. Taken(bytes, t)
      BY <1>1, <2>6, <3>4, <3>6, <3>7 DEF Taken, R
    <3>9. QED
      BY <1>4, <2>6, <3>6, <3>7, <3>8 DEF e
  <2>8. CASE ~Undecodable(v)
    <3>1. p = Reader(c, Blank, FALSE, FALSE, ev)
      BY <2>1, <2>8 DEF Whole, p, ev
    <3>2. p.draft = Blank /\ p.bad = FALSE /\ p.lost = FALSE /\ p.events = ev
      BY <3>1 DEF Reader
    <3>3. IsSeq(ev)
      BY EventOfSeq DEF ev, ParseEvent
    <3>4. Alike(p, Fresh, ev)
      BY <2>5, <3>2, <3>3, FreshSound, ConcatEmpty DEF Alike
    <3>5. Alike(q, Read(Fresh, w), ev)
      BY <2>2, <2>5, <3>4, AlikeRead
    <3>6. Alike(R, Read(Fresh, w), found \o ev)
      BY <2>4, <3>5, AlikeTrans
    <3> DEFINE l == (v[e] = CR)
    <3>7. t = Drained(found \o ev, w, l, FALSE)
      BY <1>4, <2>8 DEF DrainOn, e, found, ev
    <3> HIDE DEF l, t, v, w
    <3>8. t.events = found \o ev /\ t.rest = w /\ t.bad = FALSE
      BY <3>7 DEF Drained
    <3>9. IsSeq(found \o ev)
      BY <1>1, <3>3, ConcatFacts
    <3>10. Taken(bytes, t)
      BY <2>2, <2>6, <3>6, <3>8, <3>9 DEF Taken, R
    <3>11. QED
      BY <1>4, <2>6, <3>8, <3>10 DEF e, t
  <2>10. QED
    BY <2>7, <2>8
<1>5. QED
  BY <1>3, <1>4

\* What push returns of a buffer is what the reader finds in it; what it
\* keeps is what the reader has not finished.
LEMMA DrainSays ==
  ASSUME NEW bytes, IsSeq(bytes)
  PROVE  Taken(bytes, Drain(bytes)) /\ FindEventEnd(Drain(bytes).rest) = 0
<1>1. Len(bytes) \in Nat
  BY SeqFacts
<1>2. PICK f : /\ f[0] = Drained(<<>>, bytes, FALSE, FALSE)
               /\ \A k \in 1 .. Len(bytes) : f[k] = DrainOn(f[k - 1])
               /\ Drain(bytes) = f[Len(bytes)]
  BY <1>1, DrainTurns
<1> DEFINE P(k) == /\ Taken(bytes, f[k])
                   /\ FindEventEnd(f[k].rest) = 0 \/ Len(f[k].rest) + k <= Len(bytes)
           T == {k \in Nat : k <= Len(bytes) => P(k)}
<1>3. 0 \in T
  <2> DEFINE s == Drained(<<>>, bytes, FALSE, FALSE)
  <2>1. s.events = <<>> /\ s.rest = bytes /\ s.bad = FALSE
    BY DEF Drained
  <2> HIDE DEF s
  <2>2. Alike(Read(Fresh, bytes), Read(Fresh, bytes), <<>>)
    BY AlikeItself, SoundRead, FreshSound
  <2>3. Taken(bytes, s)
    BY <1>1, <2>1, <2>2, EmptyFacts DEF Taken
  <2>4. f[0] = s
    BY <1>2 DEF s
  <2>5. P(0)
    BY <1>1, <2>1, <2>3, <2>4
  <2>6. QED
    BY <2>5
<1>4. ASSUME NEW k \in T
      PROVE  k + 1 \in T
  <2> HIDE DEF P
  <2>1. SUFFICES ASSUME k + 1 <= Len(bytes) PROVE P(k + 1)
    OBVIOUS
  <2>2. P(k) /\ k \in Nat /\ k + 1 \in 1 .. Len(bytes) /\ (k + 1) - 1 = k
    BY <1>1, <2>1
  <2> USE DEF P
  <2> DEFINE s == f[k]
             t == f[k + 1]
  <2>3. t = DrainOn(s)
    BY <1>2, <2>2
  <2>4. /\ Taken(bytes, t)
        /\ FindEventEnd(s.rest) = 0 => t = s
        /\ FindEventEnd(s.rest) # 0 => Len(t.rest) < Len(s.rest)
    BY <2>2, <2>3, DrainTurn
  <2>5. Len(t.rest) \in Nat /\ Len(s.rest) \in Nat
    BY <2>2, <2>4, SeqFacts DEF Taken
  <2> HIDE DEF s, t
  <2>6. FindEventEnd(t.rest) = 0 \/ Len(t.rest) + (k + 1) <= Len(bytes)
    <3>1. CASE FindEventEnd(s.rest) = 0
      BY <2>4, <3>1
    <3>2. CASE FindEventEnd(s.rest) # 0
      <4>1. Len(s.rest) + k <= Len(bytes)
        BY <2>2, <3>2 DEF s
      <4>2. Len(t.rest) < Len(s.rest)
        BY <2>4, <3>2
      <4>3. k \in Nat
        BY <2>2
      <4>4. \A a, b, i, n \in Nat : a < b /\ b + i <= n => a + (i + 1) <= n
        OBVIOUS
      <4> HIDE DEF P, T
      <4>5. Len(t.rest) + (k + 1) <= Len(bytes)
        BY <1>1, <2>5, <4>1, <4>2, <4>3, <4>4
      <4>6. QED
        BY <4>5
    <3>3. QED
      BY <3>1, <3>2
  <2>7. QED
    BY <2>4, <2>6 DEF t
<1>5. T = Nat
  <2> HIDE DEF T
  <2>1. T \in SUBSET Nat
    BY DEF T
  <2>2. QED
    BY <1>3, <1>4, <2>1, NatInduct
<1>6. P(Len(bytes))
  BY <1>1, <1>5
<1> DEFINE d == f[Len(bytes)]
<1>7. IsSeq(d.rest) /\ Len(d.rest) \in Nat
  BY <1>6, SeqFacts DEF Taken
<1>8. FindEventEnd(d.rest) \in 0 .. Len(d.rest)
  BY <1>7, EndSays
<1>9. FindEventEnd(d.rest) = 0
  BY <1>1, <1>6, <1>7, <1>8
<1>10. QED
  BY <1>2, <1>6, <1>9

-----------------------------------------------------------------------------
(* One packet                                                              *)

LEMMA MoreBytes ==
  ASSUME NEW s, IsSeq(s), NEW a \in 0 .. Len(s), NEW n \in Nat, a + n <= Len(s)
  PROVE  /\ IsSeq(SubSeq(s, 1, a)) /\ IsSeq(SubSeq(s, a + 1, a + n))
         /\ SubSeq(s, 1, a + n) = SubSeq(s, 1, a) \o SubSeq(s, a + 1, a + n)
<1> DEFINE u == SubSeq(s, 1, a + n)
           v == SubSeq(s, 1, a)
           w == SubSeq(s, a + 1, a + n)
           x == v \o w
<1>1. Len(s) \in Nat /\ a \in Nat /\ a + n \in 0 .. Len(s)
  BY SeqFacts
<1>2. ASSUME NEW k \in 0 .. Len(s)
      PROVE  /\ IsSeq(SubSeq(s, 1, k)) /\ Len(SubSeq(s, 1, k)) = k
             /\ \A i \in 1 .. k : SubSeq(s, 1, k)[i] = s[i]
  <2>1. 1 \in 1 .. Len(s) + 1 /\ 1 <= k + 1 /\ k - 1 + 1 = k
    BY <1>1
  <2>2. QED
    BY <2>1, SubSeqFacts
<1>3. IsSeq(u) /\ Len(u) = a + n /\ \A i \in 1 .. a + n : u[i] = s[i]
  BY <1>1, <1>2
<1>4. IsSeq(v) /\ Len(v) = a /\ \A i \in 1 .. a : v[i] = s[i]
  BY <1>1, <1>2
<1>5. IsSeq(w) /\ Len(w) = n /\ \A i \in 1 .. n : w[i] = s[a + i]
  <2>1. /\ a + 1 \in 1 .. Len(s) + 1 /\ a + 1 <= (a + n) + 1 /\ (a + n) - (a + 1) + 1 = n
    BY <1>1
  <2>2. /\ IsSeq(w) /\ Len(w) = (a + n) - (a + 1) + 1
        /\ \A i \in 1 .. (a + n) - (a + 1) + 1 : w[i] = s[(a + 1) + i - 1]
    BY <1>1, <2>1, SubSeqFacts
  <2>3. \A i \in 1 .. n : (a + 1) + i - 1 = a + i
    BY <1>1
  <2>4. QED
    BY <2>1, <2>2, <2>3
<1> HIDE DEF u, v, w
<1>6. /\ IsSeq(x) /\ Len(x) = Len(v) + Len(w)
      /\ \A i \in 1 .. Len(v) : x[i] = v[i]
      /\ \A i \in 1 .. Len(w) : x[Len(v) + i] = w[i]
  <2>1. IsSeq(v) /\ IsSeq(w)
    BY <1>4, <1>5
  <2>2. QED
    BY <2>1, ConcatFacts
<1> HIDE DEF x
<1>7. ASSUME NEW i \in 1 .. a + n
      PROVE  u[i] = x[i]
  <2>1. CASE i <= a
    BY <1>1, <1>3, <1>4, <1>6, <2>1
  <2>2. CASE i > a
    <3>1. i - a \in 1 .. n /\ a + (i - a) = i
      BY <1>1, <2>2
    <3>2. x[a + (i - a)] = w[i - a] /\ w[i - a] = s[a + (i - a)]
      BY <1>4, <1>5, <1>6, <3>1
    <3>3. QED
      BY <1>3, <3>1, <3>2
  <2>3. QED
    BY <1>1, <2>1, <2>2
<1>8. u = x
  BY <1>3, <1>4, <1>5, <1>6, <1>7, SameSeq
<1>9. QED
  BY <1>4, <1>5, <1>8 DEF u, v, w, x

\* A reader that finds the terminator of an event already ended stays fresh.
LEMMA FreshSkips == ReadByte(Fresh, LF) = Fresh
<1>1. Fresh.draft.line = <<>> /\ Fresh.lost = FALSE /\ Fresh.bad = FALSE
  BY FreshSound, BlankFields
<1>2. LF \in {CR, LF} /\ (LF = CR) = FALSE
  BY DEF LF, CR
<1>3. ReadByte(Fresh, LF) = ReadEnd(Fresh, FALSE)
  BY <1>2, FreshSound, ReadEnds
<1>4. ReadEnd(Fresh, FALSE) = Reader(FALSE, Blank, FALSE, FALSE, Fresh.events \o EventOf(Fresh.draft))
  BY <1>1, EndsEvent
<1>5. Fresh.events \o EventOf(Fresh.draft) = <<>>
  BY FreshSound, BlankFields, EmptyFacts, ConcatEmpty
<1>6. QED
  BY <1>3, <1>4, <1>5 DEF Fresh

LEMMA HeadTail ==
  \A p : IsSeq(p) /\ p # <<>> => IsSeq(Tail(p)) /\ p = <<Head(p)>> \o Tail(p)
<1> SUFFICES ASSUME NEW p, IsSeq(p), p # <<>>
             PROVE  IsSeq(Tail(p)) /\ p = <<Head(p)>> \o Tail(p)
  OBVIOUS
<1> DEFINE w == Tail(p)
           o == <<Head(p)>>
           x == o \o w
<1>1. PICK S : p \in Seq(S)
  BY DEF IsSeq
<1>2. Len(p) \in Nat /\ Len(p) # 0 /\ Head(p) = p[1] /\ w \in Seq(S)
  BY <1>1
<1>3. Len(w) = Len(p) - 1 /\ \A i \in 1 .. Len(p) - 1 : w[i] = p[i + 1]
  BY <1>1, <1>2
<1>4. IsSeq(w)
  BY <1>2 DEF IsSeq
<1>5. IsSeq(o) /\ Len(o) = 1 /\ o[1] = p[1]
  BY <1>2, OneSeq
<1> HIDE DEF o, w
<1>6. /\ IsSeq(x) /\ Len(x) = Len(o) + Len(w)
      /\ \A i \in 1 .. Len(o) : x[i] = o[i]
      /\ \A i \in 1 .. Len(w) : x[Len(o) + i] = w[i]
  <2>1. IsSeq(o) /\ IsSeq(w)
    BY <1>4, <1>5
  <2>2. QED
    BY <2>1, ConcatFacts
<1> HIDE DEF x
<1>7. ASSUME NEW i \in 1 .. Len(p)
      PROVE  p[i] = x[i]
  <2>1. CASE i = 1
    BY <1>5, <1>6, <2>1
  <2>2. CASE i # 1
    <3>1. i - 1 \in 1 .. Len(w) /\ 1 + (i - 1) = i /\ (i - 1) + 1 = i
      BY <1>2, <1>3, <2>2
    <3>2. x[1 + (i - 1)] = w[i - 1] /\ w[i - 1] = p[(i - 1) + 1]
      BY <1>3, <1>5, <1>6, <3>1
    <3>3. QED
      BY <3>1, <3>2
  <2>3. QED
    BY <2>1, <2>2
<1>8. Len(x) = Len(p)
  BY <1>2, <1>3, <1>5, <1>6
<1>9. p = x
  BY <1>6, <1>7, <1>8, SameSeq
<1>10. QED
  BY <1>4, <1>9 DEF x, o, w

LEMMA PrefixOfConcat ==
  ASSUME NEW s, IsSeq(s), NEW t, IsSeq(t), NEW l, l = s \o t
  PROVE  IsPrefix(s, l)
<1>1. /\ IsSeq(l) /\ Len(l) = Len(s) + Len(t) /\ Len(s) \in Nat /\ Len(t) \in Nat
      /\ \A i \in 1 .. Len(s) : l[i] = s[i]
  <2>1. Len(s) \in Nat /\ Len(t) \in Nat
    BY SeqFacts
  <2>2. IsSeq(s \o t) /\ Len(s \o t) = Len(s) + Len(t)
    BY ConcatFacts
  <2>3. \A i \in 1 .. Len(s) : (s \o t)[i] = s[i]
    BY ConcatFacts
  <2>4. QED
    BY <2>1, <2>2, <2>3, Zenon
<1> DEFINE n == Len(s)
           u == SubSeq(l, 1, n)
<1>2. IsSeq(u) /\ Len(u) = n /\ \A i \in 1 .. n : u[i] = l[i]
  <2>1. n \in Nat /\ Len(l) \in Nat /\ n <= Len(l) /\ IsSeq(l)
    BY <1>1
  <2> HIDE DEF n
  <2>2. 1 \in 1 .. Len(l) + 1 /\ n \in 0 .. Len(l) /\ 1 <= n + 1
    BY <2>1
  <2>3. /\ IsSeq(u) /\ Len(u) = n - 1 + 1
        /\ \A i \in 1 .. n - 1 + 1 : u[i] = l[1 + i - 1]
    BY <2>1, <2>2, SubSeqFacts
  <2>4. n - 1 + 1 = n /\ \A i \in 1 .. n : 1 + i - 1 = i
    BY <2>1
  <2>5. QED
    BY <2>3, <2>4
<1> HIDE DEF u
<1>3. u = s
  BY <1>1, <1>2, SameSeq
<1>4. SubSeq(s, 1, n) = s
  BY UpTo
<1>5. Len(s) <= Len(l)
  BY <1>1
<1>6. QED
  BY <1>3, <1>4, <1>5 DEF IsPrefix, u

\* A packet behind the buffer, with or without the LF it may begin with.
LEMMA PacketAlike ==
  ASSUME NEW r, NEW b, IsSeq(b), NEW e, Alike(r, Read(Fresh, b), e), NEW p, IsSeq(p),
         NEW w, w = p \/ (b = <<>> /\ p # <<>> /\ Head(p) = LF /\ w = Tail(p))
  PROVE  IsSeq(w) /\ Alike(Read(r, p), Read(Fresh, b \o w), e)
<1>1. CASE w = p
  <2>1. Alike(Read(r, p), Read(Read(Fresh, b), p), e)
    BY AlikeRead
  <2>2. Read(Fresh, b \o p) = Read(Read(Fresh, b), p)
    BY ReadConcat
  <2>3. QED
    BY <1>1, <2>1, <2>2
<1>2. CASE b = <<>> /\ p # <<>> /\ Head(p) = LF /\ w = Tail(p)
  <2>1. IsSeq(<<LF>>) /\ <<LF>> = Append(<<>>, LF)
    BY OneSeq
  <2>2. IsSeq(w) /\ p = <<LF>> \o w
    BY <1>2, HeadTail
  <2>3. \A x : Read(x, <<LF>>) = ReadByte(x, LF)
    <3> SUFFICES ASSUME NEW x PROVE Read(x, <<LF>>) = ReadByte(x, LF)
      OBVIOUS
    <3> DEFINE n == <<>>
    <3>1. IsSeq(n)
      BY EmptyFacts
    <3> HIDE DEF n
    <3>2. Read(x, Append(n, LF)) = ReadByte(Read(x, n), LF)
      BY <3>1, ReadAppend
    <3>3. QED
      BY <2>1, <3>2, ReadEmpty DEF n
  <2>4. Read(r, p) = Read(ReadByte(r, LF), w)
    <3>1. Read(r, <<LF>> \o w) = Read(Read(r, <<LF>>), w)
      BY <2>1, <2>2, ReadConcat
    <3>2. QED
      BY <2>2, <2>3, <3>1
  <2>5. Alike(r, Fresh, e)
    BY <1>2, ReadEmpty
  <2>6. Alike(ReadByte(r, LF), Fresh, e)
    BY <2>5, AlikeByte, FreshSkips
  <2>7. Alike(Read(ReadByte(r, LF), w), Read(Fresh, w), e)
    BY <2>2, <2>6, AlikeRead
  <2>8. b \o w = w
    BY <1>2, <2>2, ConcatEmpty
  <2>9. QED
    BY <2>2, <2>4, <2>7, <2>8
<1>3. QED
  BY <1>1, <1>2

\* What push returns and keeps, against the reader of all the bytes.
LEMMA PushSays ==
  ASSUME NEW q, NEW bytes, IsSeq(bytes), NEW e, Alike(q, Read(Fresh, bytes), e)
  PROVE  LET d == Drain(bytes)
         IN  /\ IsSeq(d.events) /\ IsSeq(d.rest) /\ d.bad \in BOOLEAN
             /\ q.events = e \o d.events
             /\ d.bad = TRUE => q.lost = TRUE
             /\ d.bad = FALSE => /\ Alike(q, Read(Fresh, d.rest), e \o d.events)
                                 /\ Read(Fresh, d.rest).events = <<>>
<1> DEFINE d == Drain(bytes)
           r == Read(Fresh, bytes)
<1>1. Taken(bytes, d) /\ FindEventEnd(d.rest) = 0
  BY DrainSays
<1>2. IsSeq(d.events) /\ IsSeq(d.rest) /\ IsSeq(e) /\ q.events = e \o r.events
  BY <1>1 DEF Taken, Alike
<1> HIDE DEF d, r
<1>3. CASE d.bad = FALSE /\ Alike(r, Read(Fresh, d.rest), d.events)
  <2>1. Clean(d.rest)
    BY <1>1, <1>2, EndSays
  <2>2. Read(Fresh, d.rest).events = <<>>
    BY <2>1 DEF Clean
  <2>3. Alike(q, Read(Fresh, d.rest), e \o d.events)
    BY <1>3, AlikeTrans DEF r
  <2>4. IsSeq(e \o d.events)
    BY <1>2, ConcatFacts
  <2>5. q.events = e \o d.events
    <3> DEFINE x == e \o d.events
    <3>1. q.events = x \o <<>> /\ IsSeq(x)
      BY <2>2, <2>3, <2>4 DEF Alike
    <3> HIDE DEF x
    <3>2. x \o <<>> = x
      BY <3>1, ConcatEmpty
    <3>3. QED
      BY <3>1, <3>2 DEF x
  <2>6. QED
    BY <1>2, <1>3, <2>2, <2>3, <2>5 DEF d
<1>4. CASE d.bad = TRUE /\ r.lost = TRUE /\ r.events = d.events
  <2>1. q.lost = TRUE
    BY <1>4 DEF Alike, r
  <2>2. QED
    BY <1>2, <1>4, <2>1 DEF d
<1>5. QED
  BY <1>1, <1>3, <1>4 DEF Taken, r

-----------------------------------------------------------------------------
(* The inductive invariants                                                *)

\* How far the splitter is behind the reader of all the bytes.
InStep ==
  LET all == Read(Fresh, Bytes)
  IN  /\ failure = None => /\ Alike(all, Read(Fresh, buf), events)
                           /\ Read(Fresh, buf).events = <<>>
      /\ failure = "utf8" => all.lost = TRUE /\ all.events = events
      /\ failure \notin {None, "utf8"} => \E u : IsSeq(u) /\ all.events = events \o u

\* The observer's fields and the events returned so far.
Fields == State(response_id, terminal, IF failure \in Troubles THEN failure ELSE None, observed)

ObserverInv ==
  /\ failure \in Troubles \cup {None, "utf8", "too_large"}
  /\ AgreesTo(events, Len(events), Fields)

StreamInv ==
  /\ IsSeq(stream) /\ arrived \in 0 .. Len(stream)
  /\ IsSeq(buf) /\ IsSeq(events)
  /\ InStep
  /\ ObserverInv

\* The names of what can go wrong are different.
LEMMA Kinds ==
  /\ None \notin Troubles /\ "utf8" \notin Troubles /\ "too_large" \notin Troubles
  /\ None # "utf8" /\ None # "too_large"
BY DEF Troubles, None

LEMMA SameFields ==
  ASSUME NEW L, NEW m, NEW s, NEW t, s.id = t.id, s.terminal = t.terminal,
         s.failure = t.failure, s.seen = t.seen, AgreesTo(L, m, s)
  PROVE  AgreesTo(L, m, t)
BY DEF AgreesTo, IdAgrees, SummaryAgrees, SeenAgrees, FailAgrees

LEMMA InvStarts == Init => StreamInv
<1> SUFFICES ASSUME Init PROVE StreamInv
  OBVIOUS
<1>1. stream \in Seq(STRING)
  BY StreamAssumption DEF Init
<1>2. IsSeq(stream) /\ arrived \in 0 .. Len(stream) /\ IsSeq(buf) /\ IsSeq(events)
  BY <1>1, EmptyFacts DEF Init, IsSeq
<1>3. InStep
  <2>1. Bytes = <<>>
    <3>1. SubSeq(stream, 1, 0) = <<>>
      BY <1>2, UpTo
    <3>2. QED
      BY <3>1 DEF Bytes, Init
  <2>2. Read(Fresh, Bytes) = Fresh /\ Read(Fresh, buf) = Fresh
    BY <2>1, ReadEmpty DEF Init
  <2>3. Alike(Fresh, Fresh, <<>>) /\ Fresh.events = <<>>
    BY AlikeItself, FreshSound
  <2>4. QED
    BY <2>2, <2>3, Kinds DEF InStep, Init
<1>4. ObserverInv
  <2> DEFINE L == events
  <2>1. Len(L) = 0 /\ failure = None
    BY EmptyFacts DEF Init
  <2>2. TrustedTo(L, 0) = {}
    BY DEF TrustedTo
  <2>3. StartsTo(L, 0) = {} /\ FinalsTo(L, 0) = {} /\ ErrorsTo(L, 0) = {}
    BY <2>2 DEF StartsTo, FinalsTo, ErrorsTo
  <2>4. \A kind : Of(<<>>, kind) = {}
    BY EmptyFacts, SeqFacts DEF Of
  <2>5. Cardinality({}) = 0
    BY FS_EmptySet
  <2> DEFINE s == State(None, Unreadable, None, <<>>)
  <2>6. s.id = None /\ s.terminal = Unreadable /\ s.failure = None /\ s.seen = <<>>
    BY DEF State
  <2> HIDE DEF s, L
  <2>7. IdAgrees(L, 0, s) /\ SummaryAgrees(L, 0, s)
    BY <2>3, <2>6 DEF IdAgrees, SummaryAgrees
  <2>8. SeenAgrees(L, 0, s)
    BY <2>3, <2>4, <2>5, <2>6, EmptyFacts, SingleSays DEF SeenAgrees
  <2>9. FailAgrees(L, 0, s)
    BY <2>2, <2>6 DEF FailAgrees
  <2>10. AgreesTo(L, 0, s)
    BY <2>7, <2>8, <2>9 DEF AgreesTo
  <2>11. Fields = s
    BY <2>1, Kinds DEF Fields, Init, s
  <2>12. QED
    BY <2>1, <2>10, <2>11 DEF ObserverInv, L
<1>5. QED
  BY <1>2, <1>3, <1>4 DEF StreamInv

LEMMA PushKeeps == StreamInv /\ Push => StreamInv'
<1> SUFFICES ASSUME StreamInv, Push PROVE StreamInv'
  OBVIOUS
<1>1. failure = None /\ stream' = stream
  BY DEF Push
<1>2. PICK n \in 0 .. MaxPacket :
        /\ arrived + n <= Len(stream)
        /\ arrived' = arrived + n
        /\ LET packet == Unswallowed(SubSeq(stream, arrived + 1, arrived + n))
               drained == Drain(buf \o packet)
               after == ObserveAll(State(response_id, terminal, None, observed), drained.events)
           IN  /\ Splits(drained)
               /\ events' = events \o drained.events
               /\ response_id' = after.id
               /\ terminal' = after.terminal
               /\ observed' = after.seen
               /\ failure' = IF after.failure # None THEN after.failure ELSE framing'
  BY DEF Push
<1> DEFINE p == SubSeq(stream, arrived + 1, arrived + n)
           w == Unswallowed(p)
           B == buf \o w
           d == Drain(B)
           before == State(response_id, terminal, None, observed)
           after == ObserveAll(before, d.events)
           R == Read(Fresh, Bytes)
           Q == Read(R, p)
<1>3. /\ IsSeq(stream) /\ arrived \in 0 .. Len(stream) /\ IsSeq(buf) /\ IsSeq(events)
      /\ InStep /\ ObserverInv
  BY DEF StreamInv
<1>4. Len(stream) \in Nat /\ n \in Nat /\ arrived \in Nat /\ arrived + n <= Len(stream)
  BY <1>2, <1>3, SeqFacts, StreamAssumption
<1>5. IsSeq(Bytes) /\ IsSeq(p) /\ SubSeq(stream, 1, arrived + n) = Bytes \o p
  BY <1>3, <1>4, MoreBytes DEF Bytes
<1>6. Read(Fresh, Bytes') = Q
  <2>1. Bytes' = Bytes \o p
    BY <1>1, <1>2, <1>5 DEF Bytes
  <2>2. Read(Fresh, Bytes \o p) = Q
    BY <1>5, ReadConcat
  <2>3. QED
    BY <2>1, <2>2
<1>7. Alike(R, Read(Fresh, buf), events)
  BY <1>1, <1>3 DEF InStep
<1>8. w = p \/ (buf = <<>> /\ p # <<>> /\ Head(p) = LF /\ w = Tail(p))
  BY DEF Unswallowed
<1>9. /\ Splits(d) /\ events' = events \o d.events
      /\ response_id' = after.id /\ terminal' = after.terminal /\ observed' = after.seen
      /\ failure' = IF after.failure # None THEN after.failure ELSE framing'
  BY <1>2
<1> HIDE DEF p, w, R, Q, d, after
<1>10. IsSeq(w) /\ Alike(Q, Read(Fresh, B), events)
  BY <1>3, <1>5, <1>7, <1>8, PacketAlike DEF Q
<1>11. IsSeq(B)
  BY <1>3, <1>10, ConcatFacts
<1> HIDE DEF B
<1>12. /\ IsSeq(d.events) /\ IsSeq(d.rest) /\ d.bad \in BOOLEAN
       /\ Q.events = events \o d.events
       /\ d.bad = TRUE => Q.lost = TRUE
       /\ d.bad = FALSE => /\ Alike(Q, Read(Fresh, d.rest), events \o d.events)
                           /\ Read(Fresh, d.rest).events = <<>>
  BY <1>10, <1>11, PushSays DEF d
<1>13. IsSeq(stream') /\ arrived' \in 0 .. Len(stream')
  BY <1>1, <1>2, <1>3, <1>4
<1>14. IsSeq(events')
  BY <1>3, <1>9, <1>12, ConcatFacts
<1>15. /\ framing' \in {None, "utf8", "too_large"}
       /\ framing' = None => d.bad = FALSE /\ buf' = d.rest
       /\ framing' = "utf8" => d.bad = TRUE
       /\ framing' # None => buf' = <<>>
  <2>1. CASE d.bad = TRUE
    <3>1. framing' = "utf8" /\ buf' = <<>>
      BY <1>9, <2>1, Kinds DEF Splits
    <3>2. QED
      BY <2>1, <3>1, Kinds
  <2>2. CASE d.bad = FALSE /\ Len(d.rest) > MAX_EVENT_BYTES
    <3>1. framing' = "too_large" /\ buf' = <<>>
      BY <1>9, <2>2, Kinds DEF Splits
    <3>2. QED
      BY <2>2, <3>1, Kinds
  <2>3. CASE d.bad = FALSE /\ ~(Len(d.rest) > MAX_EVENT_BYTES)
    <3>1. framing' = None /\ buf' = d.rest
      BY <1>9, <2>3, Kinds DEF Splits
    <3>2. QED
      BY <2>3, <3>1, Kinds
  <2>4. QED
    BY <1>12, <2>1, <2>2, <2>3
<1>16. IsSeq(buf')
  BY <1>12, <1>15, EmptyFacts
<1>17. /\ after.failure \in Troubles \cup {None}
       /\ AgreesTo(events', Len(events'), after)
  <2>1. AgreesTo(events, Len(events), before)
    <3>1. AgreesTo(events, Len(events), Fields)
      BY <1>3 DEF ObserverInv
    <3>2. Fields = before
      BY <1>1, Kinds DEF Fields
    <3>3. QED
      BY <3>1, <3>2
  <2> HIDE DEF before
  <2>2. AgreesTo(events \o d.events, Len(events \o d.events), after)
    BY <1>3, <1>12, <2>1, BatchAgrees DEF after
  <2>3. AgreesTo(events', Len(events'), after)
    BY <1>9, <2>2
  <2>4. QED
    BY <2>3 DEF AgreesTo, FailAgrees
<1>18. /\ after.failure # None => failure' = after.failure /\ failure' \in Troubles
       /\ after.failure = None => failure' = framing'
  BY <1>9, <1>17
<1>19. ObserverInv'
  <2>1. failure' \in Troubles \cup {None, "utf8", "too_large"}
    BY <1>15, <1>17, <1>18
  <2>2. (IF failure' \in Troubles THEN failure' ELSE None) = after.failure
    BY <1>15, <1>17, <1>18, Kinds
  <2> DEFINE s == State(response_id', terminal',
                        IF failure' \in Troubles THEN failure' ELSE None, observed')
  <2>3. /\ s.id = after.id /\ s.terminal = after.terminal /\ s.failure = after.failure
        /\ s.seen = after.seen
    BY <1>9, <2>2 DEF State
  <2> HIDE DEF s
  <2>4. AgreesTo(events', Len(events'), s)
    BY <1>17, <2>3, SameFields
  <2>5. QED
    BY <2>1, <2>4 DEF ObserverInv, Fields, s
<1>20. InStep'
  <2> DEFINE all == Read(Fresh, Bytes')
  <2>1. all = Q /\ all.events = events'
    BY <1>6, <1>9, <1>12
  <2> HIDE DEF all
  <2>2. failure' = None => /\ Alike(all, Read(Fresh, buf'), events')
                          /\ Read(Fresh, buf').events = <<>>
    BY <1>9, <1>12, <1>15, <1>18, <2>1, Kinds
  <2>3. failure' = "utf8" => all.lost = TRUE /\ all.events = events'
    BY <1>12, <1>15, <1>18, <2>1, Kinds
  <2>4. failure' \notin {None, "utf8"} => \E u : IsSeq(u) /\ all.events = events' \o u
    <3> DEFINE x == events'
    <3>1. IsSeq(x)
      BY <1>14
    <3> HIDE DEF x
    <3>2. x = x \o <<>>
      BY <3>1, ConcatEmpty
    <3>3. QED
      BY <2>1, <3>2, EmptyFacts DEF x
  <2>5. QED
    BY <2>2, <2>3, <2>4 DEF InStep, all
<1>21. QED
  BY <1>13, <1>14, <1>16, <1>19, <1>20 DEF StreamInv

LEMMA FailedKeeps == StreamInv /\ PushFailed => StreamInv'
<1> SUFFICES ASSUME StreamInv, PushFailed PROVE StreamInv'
  OBVIOUS
<1>1. /\ stream' = stream /\ buf' = buf /\ response_id' = response_id
      /\ terminal' = terminal /\ failure' = failure /\ failure # None
      /\ events' = events /\ observed' = observed
  BY DEF PushFailed, splitter, observer
<1>2. PICK n \in 1 .. MaxPacket : arrived + n <= Len(stream) /\ arrived' = arrived + n
  BY DEF PushFailed
<1> DEFINE p == SubSeq(stream, arrived + 1, arrived + n)
           R == Read(Fresh, Bytes)
           Q == Read(R, p)
<1>3. /\ IsSeq(stream) /\ arrived \in 0 .. Len(stream) /\ IsSeq(buf) /\ IsSeq(events)
      /\ InStep /\ ObserverInv
  BY DEF StreamInv
<1>4. Len(stream) \in Nat /\ n \in Nat /\ arrived \in Nat /\ arrived + n <= Len(stream)
  BY <1>2, <1>3, SeqFacts, StreamAssumption
<1>5. IsSeq(Bytes) /\ IsSeq(p) /\ SubSeq(stream, 1, arrived + n) = Bytes \o p
  BY <1>3, <1>4, MoreBytes DEF Bytes
<1>6. Read(Fresh, Bytes') = Q
  <2>1. Bytes' = Bytes \o p
    BY <1>1, <1>2, <1>5 DEF Bytes
  <2>2. Read(Fresh, Bytes \o p) = Q
    BY <1>5, ReadConcat
  <2>3. QED
    BY <2>1, <2>2
<1>7. Sound(R)
  BY <1>5, SoundRead, FreshSound
<1> HIDE DEF p, R
<1>8. PICK v : IsSeq(v) /\ Q.events = R.events \o v
  BY <1>5, <1>7, ReadAddsEvents
<1>9. R.lost = TRUE => Q.lost = TRUE /\ Q.events = R.events
  BY <1>5, <1>7, ReadAddsEvents
<1> HIDE DEF Q
<1>10. failure = "utf8" => Q.lost = TRUE /\ Q.events = events
  BY <1>3, <1>9 DEF InStep, R
<1>11. failure \notin {None, "utf8"} => \E x : IsSeq(x) /\ Q.events = events \o x
  <2> SUFFICES ASSUME failure \notin {None, "utf8"}
               PROVE  \E x : IsSeq(x) /\ Q.events = events \o x
    OBVIOUS
  <2>1. PICK u : IsSeq(u) /\ R.events = events \o u
    BY <1>3 DEF InStep, R
  <2> DEFINE e == events
  <2>2. IsSeq(e) /\ IsSeq(u) /\ IsSeq(v)
    BY <1>3, <1>8, <2>1
  <2> HIDE DEF e
  <2>3. (e \o u) \o v = e \o (u \o v) /\ IsSeq(u \o v)
    <3>1. IsSeq(u \o v)
      BY <2>2, ConcatFacts
    <3>2. (e \o u) \o v = e \o (u \o v)
      BY <2>2, ConcatConcat
    <3>3. QED
      BY <3>1, <3>2
  <2>4. Q.events = events \o (u \o v)
    BY <1>8, <2>1, <2>3 DEF e
  <2>5. QED
    BY <2>3, <2>4
<1>12. InStep'
  BY <1>1, <1>6, <1>10, <1>11 DEF InStep
<1>13. ObserverInv'
  BY <1>1, <1>3 DEF ObserverInv, Fields
<1>14. QED
  BY <1>1, <1>2, <1>3, <1>4, <1>12, <1>13 DEF StreamInv

LEMMA StreamInvHolds == Spec => []StreamInv
<1>1. StreamInv /\ UNCHANGED vars => StreamInv'
  <2> SUFFICES ASSUME StreamInv, UNCHANGED vars PROVE StreamInv'
    OBVIOUS
  <2>1. /\ stream' = stream /\ arrived' = arrived /\ buf' = buf
        /\ response_id' = response_id /\ terminal' = terminal /\ failure' = failure
        /\ events' = events /\ observed' = observed
    BY DEF vars, splitter, observer
  <2>2. Bytes' = Bytes /\ Fields' = Fields
    BY <2>1 DEF Bytes, Fields
  <2>3. InStep' /\ ObserverInv'
    BY <2>1, <2>2 DEF StreamInv, InStep, ObserverInv
  <2>4. QED
    BY <2>1, <2>3 DEF StreamInv
<1>2. StreamInv /\ [Next]_vars => StreamInv'
  BY <1>1, PushKeeps, FailedKeeps DEF Next
<1>3. QED
  BY <1>2, InvStarts, PTL DEF Spec

-----------------------------------------------------------------------------
(* The theorems                                                            *)

\* Whatever the stream says and however it is cut into packets, the splitter
\* returns the events that a reader of all its bytes finds (sse.rs, push).
THEOREM EventsHold == Spec => []EventsAsSent
<1>1. StreamInv => EventsAsSent
  <2> SUFFICES ASSUME StreamInv PROVE EventsAsSent
    OBVIOUS
  <2> DEFINE all == Read(Fresh, Bytes)
  <2>1. IsSeq(events) /\ InStep
    BY DEF StreamInv
  <2>2. CASE failure = None
    <3> DEFINE x == events
    <3>1. IsSeq(x) /\ all.events = x \o <<>>
      BY <2>1, <2>2 DEF InStep, Alike
    <3> HIDE DEF x
    <3>2. x \o <<>> = x
      BY <3>1, ConcatEmpty
    <3>3. all.events = events
      BY <3>1, <3>2 DEF x
    <3>4. QED
      BY <2>2, <3>3 DEF EventsAsSent
  <2>3. CASE failure = "utf8"
    BY <2>1, <2>3 DEF InStep, EventsAsSent
  <2>4. CASE failure \notin {None, "utf8"}
    <3>1. PICK u : IsSeq(u) /\ all.events = events \o u
      BY <2>1, <2>4 DEF InStep
    <3>2. IsPrefix(events, all.events)
      BY <2>1, <3>1, PrefixOfConcat
    <3>3. QED
      BY <2>4, <3>2 DEF EventsAsSent
  <2>5. QED
    BY <2>2, <2>3, <2>4
<1>2. QED
  BY <1>1, StreamInvHolds, PTL

\* What the observer knows of a response and has announced is decided by the
\* events, for every list of them (responses.rs, StreamObserver).
THEOREM ObservedHolds == Spec => []ObservedAsSaid
<1>1. StreamInv => ObservedAsSaid
  <2> SUFFICES ASSUME StreamInv PROVE ObservedAsSaid
    OBVIOUS
  <2> DEFINE m == Len(events)
             f == IF failure \in Troubles THEN failure ELSE None
  <2>1. IsSeq(events) /\ AgreesTo(events, m, Fields)
    BY DEF StreamInv, ObserverInv
  <2>2. DOMAIN events = 1 .. m
    BY <2>1, SeqFacts
  <2>3. Trusted(events) = TrustedTo(events, m)
    BY <2>2 DEF Trusted, TrustedTo
  <2>4. /\ Starts(events) = StartsTo(events, m) /\ Finals(events) = FinalsTo(events, m)
        /\ Errors(events) = ErrorsTo(events, m)
    BY <2>3 DEF Starts, Finals, Errors, StartsTo, FinalsTo, ErrorsTo
  <2>5. /\ Fields.id = response_id /\ Fields.terminal = terminal
        /\ Fields.failure = f /\ Fields.seen = observed
    BY DEF Fields, State
  <2>6. f # None <=> failure \in Troubles
    BY Kinds
  <2> HIDE DEF f
  <2>7. failure \in {"malformed", "ids", "terminals"} <=> Trusted(events) # DOMAIN events
    BY <2>1, <2>2, <2>3, <2>5, <2>6 DEF AgreesTo, FailAgrees, Troubles
  <2>8. /\ Starts(events) = {} => response_id = None
        /\ \A i \in Starts(events) : Said(events[i]).id = response_id
        /\ Finals(events) = {} => terminal = Unreadable
        /\ \A i \in Finals(events) : Said(events[i]) = terminal
    BY <2>1, <2>4, <2>5 DEF AgreesTo, IdAgrees, SummaryAgrees
  <2>9. /\ Cardinality(Of(observed, "id")) = IF Starts(events) = {} THEN 0 ELSE 1
        /\ Cardinality(Of(observed, "terminal")) = IF Finals(events) = {} THEN 0 ELSE 1
    BY <2>1, <2>4, <2>5 DEF AgreesTo, SeenAgrees, Single
  <2>10. /\ \A k \in Of(observed, "id") : observed[k] = SeesId(response_id)
         /\ \A k \in Of(observed, "terminal") :
              observed[k] = SeesTerminal(terminal) /\ \E j \in Of(observed, "id") : j < k
         /\ Cardinality(Of(observed, "error")) = Cardinality(Errors(events))
    BY <2>1, <2>4, <2>5 DEF AgreesTo, SeenAgrees
  <2>11. QED
    BY <2>7, <2>8, <2>9, <2>10 DEF ObservedAsSaid
<1>2. QED
  BY <1>1, StreamInvHolds, PTL
=============================================================================
