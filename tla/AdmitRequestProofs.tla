------------------------- MODULE AdmitRequestProofs -------------------------
(* Proofs about AdmitRequest and the operators of CreateRequest, for any   *)
(* documents whose parts are values, any catalogue, limits, routes and     *)
(* depth of nesting, and any provider that counts as AdmitRequest assumes. *)
EXTENDS AdmitRequest, FiniteSetTheorems, WellFoundedInduction, TLAPS

-----------------------------------------------------------------------------
(* Induction, for a set of numbers: the least of those outside it has no   *)
(* predecessor.                                                            *)

LEMMA Induction ==
  ASSUME NEW S, 0 \in S, \A n \in Nat : n \in S => n + 1 \in S
  PROVE  \A n \in Nat : n \in S
PROOF
<1> DEFINE T == Nat \ S
           R == OpToRel(<, Nat)
<1>1. SUFFICES ASSUME T # {} PROVE FALSE
  OBVIOUS
<1>2. PICK n \in T : \A m \in T : <<m, n>> \notin R
  <2>1. T \subseteq Nat
    OBVIOUS
  <2>2. IsWellFoundedOn(R, Nat)
    BY NatLessThanWellFounded
  <2> QED
    BY <1>1, <2>1, <2>2, WFMin
<1>3. n # 0 /\ n - 1 \in Nat /\ n - 1 < n
  OBVIOUS
<1>4. n - 1 \in S
  BY <1>2, <1>3 DEF OpToRel
<1> QED
  BY <1>3, <1>4

-----------------------------------------------------------------------------
(* What is n levels below a value: the recursion of Below, and that it     *)
(* may be taken from the top as well as from the bottom.                   *)

\* f is Below(S) as far as level n.
LevelsOf(S, f, n) ==
  f = [i \in 0 .. n |-> IF i = 0 THEN S ELSE AllParts(f[i - 1])]

LEMMA LevelsExist == ASSUME NEW S PROVE \A n \in Nat : \E f : LevelsOf(S, f, n)
PROOF
<1> DEFINE G == {n \in Nat : \E f : LevelsOf(S, f, n)}
<1>1. 0 \in G
  <2>1. LevelsOf(S, [i \in 0 .. 0 |-> S], 0)
    BY DEF LevelsOf
  <2> QED
    BY <2>1
<1>2. ASSUME NEW n \in Nat, n \in G PROVE n + 1 \in G
  <2>1. PICK f : LevelsOf(S, f, n)
    BY <1>2
  <2> DEFINE g == [i \in 0 .. n + 1 |-> IF i = 0 THEN S ELSE AllParts(f[i - 1])]
  <2>2. \A i \in 0 .. n : g[i] = f[i]
    BY <2>1 DEF LevelsOf
  <2>3. ASSUME NEW i \in 0 .. n + 1, i # 0 PROVE AllParts(g[i - 1]) = AllParts(f[i - 1])
    <3>1. i - 1 \in 0 .. n
      BY <2>3
    <3> QED
      BY <2>2, <3>1
  <2>4. g = [i \in 0 .. n + 1 |-> IF i = 0 THEN S ELSE AllParts(g[i - 1])]
    BY <2>3, Zenon
  <2>5. LevelsOf(S, g, n + 1)
    BY <2>4 DEF LevelsOf
  <2> QED
    BY <2>5
<1> HIDE DEF G
<1>3. \A n \in Nat : n \in G
  BY <1>1, <1>2, Induction
<1> QED
  BY <1>3 DEF G

\* Below satisfies its recursion.
LEMMA BelowIs ==
  ASSUME NEW S
  PROVE  /\ Below(S)[0] = S
         /\ \A n \in 0 .. MaxNesting - 1 : Below(S)[n + 1] = AllParts(Below(S)[n])
PROOF
<1>1. LevelsOf(S, Below(S), MaxNesting)
  BY LevelsExist, NestingAssumption DEF Below, LevelsOf
<1> DEFINE B == Below(S)
<1> HIDE DEF B
<1>2. B = [i \in 0 .. MaxNesting |-> IF i = 0 THEN S ELSE AllParts(B[i - 1])]
  BY <1>1 DEF LevelsOf, B
<1>3. B[0] = S
  BY <1>2, NestingAssumption
<1>4. ASSUME NEW n \in 0 .. MaxNesting - 1 PROVE B[n + 1] = AllParts(B[n])
  <2>1. n + 1 \in 0 .. MaxNesting /\ n + 1 # 0 /\ (n + 1) - 1 = n
    BY NestingAssumption
  <2> QED
    BY <1>2, <2>1
<1> QED
  BY <1>3, <1>4 DEF B

\* Membership in AllParts, for Zenon.
LEMMA AmongParts ==
  ASSUME NEW S PROVE \A x : x \in AllParts(S) <=> \E v \in S : x \in Parts(v)
  BY DEF AllParts

\* v's parts decide on what is below it.
Descends(n) ==
  \A v, x : x \in Below({v})[n + 1] <=> \E p \in Parts(v) : x \in Below({p})[n]

LEMMA DescendOne == Descends(0)
PROOF
<1>1. SUFFICES ASSUME NEW v, NEW x
               PROVE  x \in Below({v})[0 + 1] <=> \E p \in Parts(v) : x \in Below({p})[0]
  BY DEF Descends
<1>2. Below({v})[0 + 1] = AllParts({v})
  <2>1. 0 \in 0 .. MaxNesting - 1
    BY NestingAssumption
  <2> QED
    BY <2>1, BelowIs
<1>3. x \in AllParts({v}) <=> x \in Parts(v)
  BY AmongParts
<1>4. \A p : x \in Below({p})[0] <=> x = p
  BY BelowIs
<1>5. x \in Below({v})[0 + 1] <=> x \in Parts(v)
  BY <1>2, <1>3
<1> HIDE DEF Descends
<1> QED
  BY <1>4, <1>5, Zenon

LEMMA DescendMore ==
  ASSUME NEW n \in 0 .. MaxNesting - 2, Descends(n) PROVE Descends(n + 1)
PROOF
<1>1. n \in 0 .. MaxNesting - 1 /\ n + 1 \in 0 .. MaxNesting - 1
  BY NestingAssumption
<1>2. SUFFICES ASSUME NEW v, NEW x
               PROVE  x \in Below({v})[(n + 1) + 1]
                        <=> \E p \in Parts(v) : x \in Below({p})[n + 1]
  BY DEF Descends
<1>3. x \in Below({v})[(n + 1) + 1] <=> \E y \in Below({v})[n + 1] : x \in Parts(y)
  <2>1. Below({v})[(n + 1) + 1] = AllParts(Below({v})[n + 1])
    BY BelowIs, <1>1
  <2> QED
    BY <2>1, AmongParts
<1>4. ASSUME NEW p
      PROVE  x \in Below({p})[n + 1] <=> \E y \in Below({p})[n] : x \in Parts(y)
  <2>1. Below({p})[n + 1] = AllParts(Below({p})[n])
    BY BelowIs, <1>1
  <2>2. x \in AllParts(Below({p})[n]) <=> \E y \in Below({p})[n] : x \in Parts(y)
    BY AmongParts
  <2> QED
    BY <2>1, <2>2
<1>5. ASSUME NEW y \in Below({v})[n + 1], x \in Parts(y)
      PROVE  \E p \in Parts(v) : x \in Below({p})[n + 1]
  <2> DEFINE m == n + 1
  <2>0. y \in Below({v})[m] <=> \E p \in Parts(v) : y \in Below({p})[n]
    BY Zenon DEF Descends
  <2>1. PICK p \in Parts(v) : y \in Below({p})[n]
    BY <1>5, <2>0
  <2>2. x \in Below({p})[n + 1]
    BY <1>4, <1>5, <2>1
  <2> QED
    BY <2>2
<1>6. ASSUME NEW p \in Parts(v), x \in Below({p})[n + 1]
      PROVE  \E y \in Below({v})[n + 1] : x \in Parts(y)
  <2>1. PICK y \in Below({p})[n] : x \in Parts(y)
    BY <1>4, <1>6
  <2> QED
    BY <2>1 DEF Descends
<1> QED
  BY <1>3, <1>5, <1>6, Zenon

LEMMA Descend == \A n \in Nat : n \in 0 .. MaxNesting - 1 => Descends(n)
PROOF
<1> DEFINE G == {n \in Nat : n \in 0 .. MaxNesting - 1 => Descends(n)}
<1>1. 0 \in G
  BY DescendOne
<1>2. ASSUME NEW n \in Nat, n \in G PROVE n + 1 \in G
  <2>1. n + 1 \in 0 .. MaxNesting - 1 => n \in 0 .. MaxNesting - 2 /\ n \in 0 .. MaxNesting - 1
    BY NestingAssumption
  <2> QED
    BY <1>2, <2>1, DescendMore
<1> HIDE DEF G
<1>3. \A n \in Nat : n \in G
  BY <1>1, <1>2, Induction
<1> QED
  BY <1>3 DEF G

-----------------------------------------------------------------------------
(* When a value has no more in it than another, at every depth. Strict     *)
(* parsing then accepts it as well.                                        *)

\* A value of the same kind: the same, unless it has parts, and no new duplicate.
Like(x, y) ==
  /\ x.t = y.t
  /\ x.t \notin {"array", "object"} => x = y
  /\ x.t = "object" /\ x.again => y.again

\* w has nothing at any depth that v does not have there.
Follows(v, w) ==
  \A n \in 0 .. MaxNesting : \A x \in Below({w})[n] :
    \E y \in Below({v})[n] : Like(x, y)

LEMMA FollowsItself == ASSUME NEW v PROVE Follows(v, v)
  BY DEF Follows, Like

\* It is enough that each part follows a part.
LEMMA FollowsByParts ==
  ASSUME NEW v, NEW w, Like(w, v),
         \A p \in Parts(w) : \E q \in Parts(v) : Follows(q, p)
  PROVE  Follows(v, w)
PROOF
<1>1. SUFFICES ASSUME NEW n \in 0 .. MaxNesting, NEW x \in Below({w})[n]
               PROVE  \E y \in Below({v})[n] : Like(x, y)
  BY DEF Follows
<1>2. CASE n = 0
  <2>1. x = w /\ v \in Below({v})[0]
    BY <1>1, <1>2, BelowIs
  <2> QED
    BY <2>1, <1>2
<1>3. CASE n # 0
  <2> DEFINE m == n - 1
  <2>1. m \in Nat /\ m \in 0 .. MaxNesting - 1 /\ m \in 0 .. MaxNesting /\ n = m + 1
    BY <1>3, NestingAssumption
  <2> HIDE DEF m
  <2>2. PICK p \in Parts(w) : x \in Below({p})[m]
    BY <1>1, <2>1, Descend DEF Descends
  <2>3. PICK q \in Parts(v) : Follows(q, p)
    OBVIOUS
  <2>4. PICK y \in Below({q})[m] : Like(x, y)
    BY <2>1, <2>2, <2>3 DEF Follows
  <2>5. y \in Below({v})[n]
    BY <2>1, <2>4, Descend DEF Descends
  <2> QED
    BY <2>4, <2>5
<1> QED
  BY <1>2, <1>3

\* Neither depth nor duplicates appear.
LEMMA FollowsStrictly ==
  ASSUME NEW v, NEW w, Follows(v, w), ~TooDeep(v), NoDuplicates(v)
  PROVE  ~TooDeep(w) /\ NoDuplicates(w)
PROOF
<1>1. MaxNesting - 1 \in 0 .. MaxNesting
  BY NestingAssumption
<1>2. ~TooDeep(w)
  <2>1. SUFFICES ASSUME NEW x \in Below({w})[MaxNesting - 1], x.t \in {"array", "object"}
                 PROVE  TooDeep(v)
    BY DEF TooDeep
  <2>2. PICK y \in Below({v})[MaxNesting - 1] : Like(x, y)
    BY <1>1 DEF Follows
  <2> QED
    BY <2>1, <2>2 DEF TooDeep, Like
<1>3. ASSUME NEW x \in Inside(w), x.t = "object", x.again PROVE FALSE
  <2>1. PICK n \in 0 .. MaxNesting : x \in Below({w})[n]
    BY DEF Inside
  <2>2. PICK y \in Below({v})[n] : Like(x, y)
    BY <2>1 DEF Follows
  <2>3. y \in Inside(v)
    BY <2>2 DEF Inside
  <2> QED
    BY <1>3, <2>2, <2>3 DEF Like, NoDuplicates
<1> QED
  BY <1>2, <1>3 DEF NoDuplicates

-----------------------------------------------------------------------------
(* The tables: each shape told apart by a type keeps that type as a plain  *)
(* string, so that a normalized object finds its shape again.              *)

\* Every shape of the tables has a type, a plain string.
Named(shape) == "type" \in DOMAIN shape.keep /\ shape.keep["type"] = "string"

LEMMA ItemsNamed == \A kind \in DOMAIN InputItems : Named(InputItems[kind])
  BY DEF InputItems, Named, Shape, Call, Stored, NoDrop
LEMMA PartsNamed ==
  /\ Named(TextPart)
  /\ \A kind \in DOMAIN UserParts : Named(UserParts[kind])
  /\ \A kind \in DOMAIN MessageParts : Named(MessageParts[kind])
  BY DEF UserParts, MessageParts, TextPart, Named, Shape, NoDrop
LEMMA ToolsNamed ==
  /\ \A kind \in DOMAIN MemberTools : Named(MemberTools[kind])
  /\ \A kind \in DOMAIN Tools : Named(Tools[kind])
  BY DEF Tools, MemberTools, Named, Shape, NoDrop
LEMMA ChoiceNamed == Named(NamedChoice)
  BY DEF NamedChoice, Named, Shape, NoDrop
LEMMA Places ==
  DOMAIN Typed = {"input_item", "message_part", "output_part", "summary_part",
                  "reasoning_text_part", "tool", "member_tool", "named_choice",
                  "custom_tool_format", "output_format"}
  BY DEF Typed
LEMMA TypedNamed ==
  \A place \in DOMAIN Typed : \A kind \in DOMAIN Typed[place] : Named(Typed[place][kind])
PROOF
<1>1. \A kind \in DOMAIN Typed["input_item"] : Named(Typed["input_item"][kind])
  BY ItemsNamed DEF Typed
<1>2. \A place \in {"message_part", "output_part"} : \A kind \in DOMAIN Typed[place] : Named(Typed[place][kind])
  BY PartsNamed DEF Typed
<1>3. \A place \in {"summary_part", "reasoning_text_part"} : \A kind \in DOMAIN Typed[place] : Named(Typed[place][kind])
  BY PartsNamed DEF Typed
<1>4. \A place \in {"tool", "member_tool"} : \A kind \in DOMAIN Typed[place] : Named(Typed[place][kind])
  BY ToolsNamed DEF Typed
<1>5. \A kind \in DOMAIN Typed["named_choice"] : Named(Typed["named_choice"][kind])
  BY ChoiceNamed DEF Typed
<1>6. \A kind \in DOMAIN Typed["custom_tool_format"] : Named(Typed["custom_tool_format"][kind])
  BY DEF Typed, Named, Shape, NoDrop, Nothing
<1>7. \A kind \in DOMAIN Typed["output_format"] : Named(Typed["output_format"][kind])
  BY DEF Typed, Named, Shape, NoDrop, Nothing
<1> QED
  BY <1>1, <1>2, <1>3, <1>4, <1>5, <1>6, <1>7, Places
LEMMA MessageShape ==
  /\ Typed["input_item"]["message"].required = {"role", "content"}
  BY DEF Typed, InputItems, Shape

-----------------------------------------------------------------------------
(* The checks, layer by layer. The tables nest five deep, so there are     *)
(* five checks: CheckLeaf, and CheckIn over the one before. Each keeps what*)
(* it accepts: its result is accepted again unchanged and follows what it  *)
(* was made from (LeafKeeps, MemberKeeps .. RequestKeeps). From one layer  *)
(* to the next this goes over an object (Applies), over one told apart by  *)
(* its type (Typed), one value (One) and an array (Each). The provers take *)
(* no operator as a parameter, so the lemmas are stated once per layer;    *)
(* LeafGives .. RequestGives name the equations, for the same reason.      *)

\* What an accepted object or array is made of, and the converse.
LEMMA NormalizedOk ==
  ASSUME NEW shape, NEW R, NEW m, Normalized(shape, R).ok,
         m = [k \in DOMAIN R \cap DOMAIN shape.keep |-> R[k].value]
  PROVE  /\ Normalized(shape, R) = Ok(Obj(m))
         /\ shape.required \subseteq DOMAIN m
         /\ \A k \in DOMAIN R : R[k].ok
  BY DEF Normalized, Ok, Rejection

LEMMA NormalizedOf ==
  ASSUME NEW shape, NEW R, NEW m, \A k \in DOMAIN R : R[k].ok,
         m = [k \in DOMAIN R \cap DOMAIN shape.keep |-> R[k].value],
         shape.required \subseteq DOMAIN m
  PROVE  Normalized(shape, R) = Ok(Obj(m))
  BY DEF Normalized

LEMMA CollectedOk ==
  ASSUME NEW R, NEW s, Collected(R).ok, s = [i \in DOMAIN R |-> R[i].value]
  PROVE  Collected(R) = Ok(Arr(s)) /\ \A i \in DOMAIN R : R[i].ok
  BY DEF Collected, Ok, Rejection

LEMMA CollectedOf ==
  ASSUME NEW R, NEW s, \A i \in DOMAIN R : R[i].ok, s = [i \in DOMAIN R |-> R[i].value]
  PROVE  Collected(R) = Ok(Arr(s))
  BY DEF Collected

\* A leaf is kept as it is.
LEMMA LeafKeeps ==
  \A c, v : CheckLeaf(c, v).ok =>
    \E w : CheckLeaf(c, v) = Ok(w) /\ CheckLeaf(c, w) = Ok(w) /\ Follows(v, w)
  BY FollowsItself DEF CheckLeaf, Ok, Rejection

\* The check of a type is a leaf, and no check is in two tables.
LEMMA PlainString ==
  /\ "string" \notin DOMAIN Typed /\ "string" \notin DOMAIN Plain
  /\ "string" \notin DOMAIN ArrayOf /\ "string" \notin DOMAIN StringOrArrayOf
  BY Places DEF Plain, ArrayOf, StringOrArrayOf

LEMMA Disjoint ==
  /\ DOMAIN Typed \cap DOMAIN Plain = {}
  /\ DOMAIN ArrayOf \cap DOMAIN StringOrArrayOf = {}
  /\ "tool_choice" \notin DOMAIN ArrayOf \cup DOMAIN StringOrArrayOf
  BY Places DEF Plain, ArrayOf, StringOrArrayOf

-----------------------------------------------------------------------------
(* The layer of values that are looked at no further.                      *)

LeafGives(c, v, w) == CheckLeaf(c, v) = Ok(w)

LEMMA LeafApplies ==
  ASSUME NEW shape, NEW object, object.t = "object",
         Apply(CheckLeaf, shape, object).ok
  PROVE  \E m :
           /\ m = [k \in DOMAIN m |-> m[k]]
           /\ Apply(CheckLeaf, shape, object) = Ok(Obj(m))
           /\ Apply(CheckLeaf, shape, Obj(m)) = Ok(Obj(m))
           /\ Follows(object, Obj(m))
           /\ DOMAIN m = Keys(object) \cap DOMAIN shape.keep
           /\ shape.required \subseteq DOMAIN m
           /\ \A k \in DOMAIN m : LeafGives(shape.keep[k], object.members[k], m[k])
PROOF
<1> DEFINE Results(o) ==
             [k \in Keys(o) |->
                IF k \in DOMAIN shape.keep THEN CheckLeaf(shape.keep[k], o.members[k])
                ELSE IF k \in DOMAIN shape.drop THEN CheckLeaf(shape.drop[k], o.members[k])
                ELSE Rejection({"unsupported_parameter"})]
           R == Results(object)
           m == [k \in DOMAIN R \cap DOMAIN shape.keep |-> R[k].value]
<1>1. /\ Apply(CheckLeaf, shape, object) = Normalized(shape, R)
      /\ Apply(CheckLeaf, shape, Obj(m)) = Normalized(shape, Results(Obj(m)))
  BY DEF Apply
<1>2. DOMAIN R = Keys(object) /\ DOMAIN m = Keys(object) \cap DOMAIN shape.keep
  OBVIOUS
<1>3. /\ Normalized(shape, R) = Ok(Obj(m))
      /\ shape.required \subseteq DOMAIN m
      /\ \A k \in DOMAIN R : R[k].ok
  <2> HIDE DEF R
  <2> QED
    BY <1>1, NormalizedOk
<1>4. ASSUME NEW k \in DOMAIN m
      PROVE  /\ CheckLeaf(shape.keep[k], object.members[k]) = Ok(m[k])
             /\ CheckLeaf(shape.keep[k], m[k]) = Ok(m[k])
             /\ Follows(object.members[k], m[k])
  <2>1. R[k] = CheckLeaf(shape.keep[k], object.members[k]) /\ R[k].ok /\ m[k] = R[k].value
    BY <1>2, <1>3
  <2>2. PICK w : /\ CheckLeaf(shape.keep[k], object.members[k]) = Ok(w)
                 /\ CheckLeaf(shape.keep[k], w) = Ok(w)
                 /\ Follows(object.members[k], w)
    BY <2>1, LeafKeeps
  <2>3. m[k] = w
    BY <2>1, <2>2 DEF Ok
  <2> QED
    BY <2>2, <2>3
<1>5. Follows(object, Obj(m))
  <2>1. Parts(Obj(m)) = {m[k] : k \in DOMAIN m}
    BY DEF Parts, Obj, Keys
  <2>2. Parts(object) = {object.members[k] : k \in Keys(object)}
    BY DEF Parts
  <2>3. Like(Obj(m), object)
    BY DEF Like, Obj
  <2> HIDE DEF m
  <2>4. \A p \in Parts(Obj(m)) : \E q \in Parts(object) : Follows(q, p)
    BY <1>2, <1>4, <2>1, <2>2
  <2> QED
    BY <2>3, <2>4, FollowsByParts
<1>6. Normalized(shape, Results(Obj(m))) = Ok(Obj(m))
  <2> DEFINE S == Results(Obj(m))
  <2>1. Keys(Obj(m)) = DOMAIN m /\ Obj(m).members = m
    BY DEF Keys, Obj
  <2>2. DOMAIN S = DOMAIN m /\ \A k \in DOMAIN S : S[k] = Ok(m[k])
    <3> HIDE DEF m
    <3> QED
      BY <1>2, <1>4, <2>1
  <2>3. m = [k \in DOMAIN S \cap DOMAIN shape.keep |-> S[k].value]
    <3>1. DOMAIN S \cap DOMAIN shape.keep = DOMAIN m
      BY <1>2, <2>2
    <3>2. m = [k \in DOMAIN m |-> m[k]]
      OBVIOUS
    <3> HIDE DEF m, S
    <3>3. \A k \in DOMAIN m : S[k].value = m[k]
      BY <2>2 DEF Ok
    <3>4. m = [k \in DOMAIN m |-> S[k].value]
      BY <3>2, <3>3, Zenon
    <3> QED
      BY <3>1, <3>4, Zenon
  <2> HIDE DEF S, m
  <2>4. \A k \in DOMAIN S : S[k].ok
    BY <2>2 DEF Ok
  <2>5. Normalized(shape, S) = Ok(Obj(m))
    BY <1>3, <2>3, <2>4, NormalizedOf
  <2> QED
    BY <2>5 DEF S
<1>7. m = [k \in DOMAIN m |-> m[k]]
  OBVIOUS
<1> HIDE DEF m, R
<1>8. \A k \in DOMAIN m : LeafGives(shape.keep[k], object.members[k], m[k])
  BY <1>4 DEF LeafGives
<1> QED
  BY <1>1, <1>2, <1>3, <1>5, <1>6, <1>7, <1>8

LEMMA LeafString ==
  \A u : CheckLeaf("string", u).ok => CheckLeaf("string", u) = Ok(u) /\ u.t = "string"
  BY DEF CheckLeaf, Accepts, Ok, Rejection

LEMMA LeafTyped ==
  ASSUME NEW place \in DOMAIN Typed, NEW v, CheckTyped(CheckLeaf, place, v).ok
  PROVE  \E m : \E kind \in DOMAIN Typed[place] :
           /\ v.t = "object"
           /\ KindOf(place, v).t = "string" /\ KindOf(place, v).s = kind
           /\ CheckTyped(CheckLeaf, place, v) = Ok(Obj(m))
           /\ CheckTyped(CheckLeaf, place, Obj(m)) = Ok(Obj(m))
           /\ Follows(v, Obj(m))
           /\ DOMAIN m = Keys(v) \cap DOMAIN Typed[place][kind].keep
           /\ Typed[place][kind].required \subseteq DOMAIN m
           /\ \A k \in DOMAIN m : LeafGives(Typed[place][kind].keep[k], v.members[k], m[k])
PROOF
<1> DEFINE kind == KindOf(place, v)
<1>1. /\ v.t = "object"
      /\ kind.t = "string"
      /\ kind.s \in DOMAIN Typed[place]
      /\ CheckTyped(CheckLeaf, place, v) = Apply(CheckLeaf, Typed[place][kind.s], v)
  BY DEF CheckTyped, Rejection
<1> DEFINE its == Typed[place][kind.s]
<1>2. Named(its)
  BY <1>1, TypedNamed
<1> HIDE DEF kind, its
<1>3. PICK m :
        /\ Apply(CheckLeaf, its, v) = Ok(Obj(m))
        /\ Apply(CheckLeaf, its, Obj(m)) = Ok(Obj(m))
        /\ Follows(v, Obj(m))
        /\ DOMAIN m = Keys(v) \cap DOMAIN its.keep
        /\ its.required \subseteq DOMAIN m
        /\ \A k \in DOMAIN m : LeafGives(its.keep[k], v.members[k], m[k])
  <2>1. CheckTyped(CheckLeaf, place, v) = Apply(CheckLeaf, its, v)
    BY <1>1 DEF its
  <2>2. v.t = "object" /\ Apply(CheckLeaf, its, v).ok
    BY <1>1, <2>1
  <2> QED
    BY <2>2, LeafApplies
<1>4. Keys(Obj(m)) = DOMAIN m /\ Obj(m).members = m /\ Obj(m).t = "object"
  BY DEF Keys, Obj
<1>5. KindOf(place, Obj(m)) = kind
  <2>1. Field(Obj(m), "type") = Field(v, "type")
    <3>1. CASE "type" \in Keys(v)
      <4>1. "type" \in DOMAIN m
        BY <1>2, <1>3, <3>1 DEF Named
      <4>2. CheckLeaf("string", v.members["type"]) = Ok(m["type"])
        BY <1>2, <1>3, <4>1 DEF Named, LeafGives
      <4>3. CheckLeaf("string", v.members["type"]).ok
        BY <4>2 DEF Ok
      <4>4. m["type"] = v.members["type"]
        BY <4>2, <4>3, LeafString DEF Ok
      <4> QED
        BY <1>1, <1>4, <3>1, <4>1, <4>4 DEF Field, Has
    <3>2. CASE "type" \notin Keys(v)
      BY <1>3, <1>4, <3>2 DEF Field, Has
    <3> QED
      BY <3>1, <3>2
  <2>2. CASE Field(v, "type") = Absent /\ place = "input_item" /\ Has(v, "role")
    <3>1. kind = Str("message")
      BY <2>2 DEF kind, KindOf
    <3>2. "role" \in DOMAIN m
      BY <1>3, <2>2, <3>1, MessageShape DEF its, Str
    <3> QED
      BY <1>4, <2>1, <2>2, <3>1, <3>2 DEF KindOf, Has
  <2>3. CASE ~(Field(v, "type") = Absent /\ place = "input_item" /\ Has(v, "role"))
    <3>1. kind = Field(v, "type")
      BY <2>3 DEF kind, KindOf
    <3>2. Field(v, "type") # Absent
      BY <1>1, <3>1 DEF Absent
    <3> QED
      BY <2>1, <3>1, <3>2 DEF KindOf
  <2> QED
    BY <2>2, <2>3
<1>6. CheckTyped(CheckLeaf, place, Obj(m)) = Ok(Obj(m))
  <2>1. kind # Absent
    BY <1>1 DEF Absent
  <2>2. CheckTyped(CheckLeaf, place, Obj(m)) = Apply(CheckLeaf, its, Obj(m))
    BY <1>1, <1>4, <1>5, <2>1 DEF CheckTyped, its
  <2> QED
    BY <1>3, <2>2
<1> QED
  BY <1>1, <1>3, <1>6 DEF its, kind

LEMMA LeafOne ==
  ASSUME NEW c, NEW v, CheckOne(CheckLeaf, c, v).ok
  PROVE  \E w : /\ CheckOne(CheckLeaf, c, v) = Ok(w)
                /\ CheckOne(CheckLeaf, c, w) = Ok(w)
                /\ Follows(v, w)
PROOF
<1>1. CASE c \in DOMAIN Typed
  <2>1. \A u : CheckOne(CheckLeaf, c, u) = CheckTyped(CheckLeaf, c, u)
    BY <1>1, Disjoint DEF CheckOne
  <2>2. CheckTyped(CheckLeaf, c, v).ok
    BY <2>1
  <2>3. PICK m : /\ CheckTyped(CheckLeaf, c, v) = Ok(Obj(m))
                 /\ CheckTyped(CheckLeaf, c, Obj(m)) = Ok(Obj(m))
                 /\ Follows(v, Obj(m))
    BY <1>1, <2>2, LeafTyped
  <2> QED
    BY <2>1, <2>3
<1>2. CASE c \notin DOMAIN Typed /\ c \in DOMAIN Plain
  <2>1. \A u : CheckOne(CheckLeaf, c, u) = IF u.t = "object" THEN Apply(CheckLeaf, Plain[c], u)
                                    ELSE Rejection({"invalid_value"})
    BY <1>2 DEF CheckOne
  <2>2. v.t = "object" /\ CheckOne(CheckLeaf, c, v) = Apply(CheckLeaf, Plain[c], v)
    BY <2>1 DEF Rejection
  <2>3. PICK m : /\ Apply(CheckLeaf, Plain[c], v) = Ok(Obj(m))
                 /\ Apply(CheckLeaf, Plain[c], Obj(m)) = Ok(Obj(m))
                 /\ Follows(v, Obj(m))
    BY <2>2, LeafApplies
  <2>4. CheckOne(CheckLeaf, c, Obj(m)) = Apply(CheckLeaf, Plain[c], Obj(m))
    BY <2>1 DEF Obj
  <2> QED
    BY <2>2, <2>3, <2>4
<1>3. CASE c \notin DOMAIN Typed /\ c \notin DOMAIN Plain
  <2>1. \A u : CheckOne(CheckLeaf, c, u) = CheckLeaf(c, u)
    BY <1>3 DEF CheckOne
  <2> QED
    BY <2>1, LeafKeeps
<1> QED
  BY <1>1, <1>2, <1>3

LEMMA LeafEach ==
  ASSUME NEW c, NEW v, CheckEach(CheckLeaf, c, v).ok
  PROVE  \E s : /\ v.t = "array"
                /\ CheckEach(CheckLeaf, c, v) = Ok(Arr(s))
                /\ CheckEach(CheckLeaf, c, Arr(s)) = Ok(Arr(s))
                /\ Follows(v, Arr(s))
                /\ DOMAIN s = DOMAIN v.items
                /\ \A i \in DOMAIN s : CheckOne(CheckLeaf, c, v.items[i]) = Ok(s[i])
PROOF
<1> DEFINE Results(a) == [i \in DOMAIN a.items |-> CheckOne(CheckLeaf, c, a.items[i])]
           R == Results(v)
           s == [i \in DOMAIN R |-> R[i].value]
<1>1. v.t = "array" /\ CheckEach(CheckLeaf, c, v) = Collected(R)
  BY DEF CheckEach, Rejection
<1>2. DOMAIN R = DOMAIN v.items /\ DOMAIN s = DOMAIN v.items
  OBVIOUS
<1>3. Collected(R) = Ok(Arr(s)) /\ \A i \in DOMAIN R : R[i].ok
  <2> HIDE DEF R
  <2> QED
    BY <1>1, CollectedOk
<1>4. ASSUME NEW i \in DOMAIN s
      PROVE  /\ CheckOne(CheckLeaf, c, v.items[i]) = Ok(s[i])
             /\ CheckOne(CheckLeaf, c, s[i]) = Ok(s[i])
             /\ Follows(v.items[i], s[i])
  <2>1. R[i] = CheckOne(CheckLeaf, c, v.items[i]) /\ R[i].ok /\ s[i] = R[i].value
    BY <1>2, <1>3
  <2>2. PICK w : /\ CheckOne(CheckLeaf, c, v.items[i]) = Ok(w)
                 /\ CheckOne(CheckLeaf, c, w) = Ok(w)
                 /\ Follows(v.items[i], w)
    BY <2>1, LeafOne
  <2>3. s[i] = w
    BY <2>1, <2>2 DEF Ok
  <2> QED
    BY <2>2, <2>3
<1> HIDE DEF s, R
<1>5. Follows(v, Arr(s))
  <2>1. Parts(Arr(s)) = {s[i] : i \in DOMAIN s}
    BY DEF Parts, Arr
  <2>2. Parts(v) = {v.items[i] : i \in DOMAIN v.items}
    BY <1>1 DEF Parts
  <2>3. Like(Arr(s), v)
    BY <1>1 DEF Like, Arr
  <2>4. \A p \in Parts(Arr(s)) : \E q \in Parts(v) : Follows(q, p)
    BY <1>2, <1>4, <2>1, <2>2
  <2> QED
    BY <2>3, <2>4, FollowsByParts
<1>6. CheckEach(CheckLeaf, c, Arr(s)) = Ok(Arr(s))
  <2> DEFINE S == Results(Arr(s))
  <2>1. Arr(s).t = "array" /\ Arr(s).items = s
    BY DEF Arr
  <2>2. DOMAIN S = DOMAIN s /\ \A i \in DOMAIN S : S[i] = Ok(s[i])
    BY <1>4, <2>1
  <2>3. CheckEach(CheckLeaf, c, Arr(s)) = Collected(S)
    BY <2>1 DEF CheckEach
  <2> HIDE DEF S
  <2>4. s = [i \in DOMAIN S |-> S[i].value]
    <3>1. s = [i \in DOMAIN s |-> s[i]]
      BY DEF s
    <3>2. \A i \in DOMAIN s : S[i].value = s[i]
      BY <2>2 DEF Ok
    <3>3. [i \in DOMAIN s |-> s[i]] = [i \in DOMAIN s |-> S[i].value]
      BY <3>2
    <3> QED
      BY <2>2, <3>1, <3>3, Zenon
  <2>5. \A i \in DOMAIN S : S[i].ok
    BY <2>2 DEF Ok
  <2>6. Collected(S) = Ok(Arr(s))
    BY <2>4, <2>5, CollectedOf
  <2> QED
    BY <2>3, <2>6
<1> QED
  BY <1>1, <1>2, <1>3, <1>4, <1>5, <1>6

LEMMA MemberKeeps ==
  \A c, v : CheckInMember(c, v).ok => \E w : CheckInMember(c, v) = Ok(w) /\ CheckInMember(c, w) = Ok(w) /\ Follows(v, w)
PROOF
<1>1. SUFFICES ASSUME NEW c, NEW v, CheckInMember(c, v).ok
               PROVE  \E w : CheckInMember(c, v) = Ok(w) /\ CheckInMember(c, w) = Ok(w) /\ Follows(v, w)
  OBVIOUS
<1>2. CASE c \in DOMAIN ArrayOf
  <2>1. \A u : CheckInMember(c, u) = CheckEach(CheckLeaf, ArrayOf[c], u)
    BY <1>2, Disjoint DEF CheckInMember, CheckIn
  <2> QED
    BY <1>1, <2>1, LeafEach
<1>3. CASE c \notin DOMAIN ArrayOf /\ c \in DOMAIN StringOrArrayOf
  <2>1. \A u : CheckInMember(c, u) = IF u.t = "string" THEN Ok(u)
                          ELSE CheckEach(CheckLeaf, StringOrArrayOf[c], u)
    BY <1>3, Disjoint DEF CheckInMember, CheckIn
  <2>2. CASE v.t = "string"
    BY <2>1, <2>2, FollowsItself
  <2>3. CASE v.t # "string"
    <3>1. PICK s : /\ CheckEach(CheckLeaf, StringOrArrayOf[c], v) = Ok(Arr(s))
                   /\ CheckEach(CheckLeaf, StringOrArrayOf[c], Arr(s)) = Ok(Arr(s))
                   /\ Follows(v, Arr(s))
      BY <1>1, <2>1, <2>3, LeafEach
    <3>2. CheckInMember(c, Arr(s)) = CheckEach(CheckLeaf, StringOrArrayOf[c], Arr(s))
      BY <2>1 DEF Arr
    <3> QED
      BY <2>1, <2>3, <3>1, <3>2
  <2> QED
    BY <2>2, <2>3
<1>4. CASE c \notin DOMAIN ArrayOf /\ c \notin DOMAIN StringOrArrayOf /\ c = "tool_choice"
  <2>1. \A u : CheckInMember(c, u) = IF u.t = "string" THEN CheckLeaf("choice", u)
                          ELSE CheckTyped(CheckLeaf, "named_choice", u)
    BY <1>4 DEF CheckInMember, CheckIn
  <2>2. CASE v.t = "string"
    <3>1. CheckInMember(c, v) = CheckLeaf("choice", v)
      BY <2>1, <2>2
    <3>2. CheckLeaf("choice", v) = Ok(v)
      BY <1>1, <3>1 DEF CheckLeaf, Rejection
    <3> QED
      BY <3>1, <3>2, FollowsItself
  <2>3. CASE v.t # "string"
    <3>1. "named_choice" \in DOMAIN Typed
      BY Places
    <3>2. PICK m : /\ CheckTyped(CheckLeaf, "named_choice", v) = Ok(Obj(m))
                   /\ CheckTyped(CheckLeaf, "named_choice", Obj(m)) = Ok(Obj(m))
                   /\ Follows(v, Obj(m))
      BY <1>1, <2>1, <2>3, <3>1, LeafTyped
    <3>3. CheckInMember(c, Obj(m)) = CheckTyped(CheckLeaf, "named_choice", Obj(m))
      BY <2>1 DEF Obj
    <3> QED
      BY <2>1, <2>3, <3>2, <3>3
  <2> QED
    BY <2>2, <2>3
<1>5. CASE c \notin DOMAIN ArrayOf /\ c \notin DOMAIN StringOrArrayOf /\ c # "tool_choice"
  <2>1. \A u : CheckInMember(c, u) = CheckOne(CheckLeaf, c, u)
    BY <1>5 DEF CheckInMember, CheckIn
  <2> QED
    BY <1>1, <2>1, LeafOne
<1> QED
  BY <1>2, <1>3, <1>4, <1>5
-----------------------------------------------------------------------------
(* The layer of the members of a tool in a namespace.                      *)

MemberGives(c, v, w) == CheckInMember(c, v) = Ok(w)

LEMMA MemberApplies ==
  ASSUME NEW shape, NEW object, object.t = "object",
         Apply(CheckInMember, shape, object).ok
  PROVE  \E m :
           /\ m = [k \in DOMAIN m |-> m[k]]
           /\ Apply(CheckInMember, shape, object) = Ok(Obj(m))
           /\ Apply(CheckInMember, shape, Obj(m)) = Ok(Obj(m))
           /\ Follows(object, Obj(m))
           /\ DOMAIN m = Keys(object) \cap DOMAIN shape.keep
           /\ shape.required \subseteq DOMAIN m
           /\ \A k \in DOMAIN m : MemberGives(shape.keep[k], object.members[k], m[k])
PROOF
<1> DEFINE Results(o) ==
             [k \in Keys(o) |->
                IF k \in DOMAIN shape.keep THEN CheckInMember(shape.keep[k], o.members[k])
                ELSE IF k \in DOMAIN shape.drop THEN CheckInMember(shape.drop[k], o.members[k])
                ELSE Rejection({"unsupported_parameter"})]
           R == Results(object)
           m == [k \in DOMAIN R \cap DOMAIN shape.keep |-> R[k].value]
<1>1. /\ Apply(CheckInMember, shape, object) = Normalized(shape, R)
      /\ Apply(CheckInMember, shape, Obj(m)) = Normalized(shape, Results(Obj(m)))
  BY DEF Apply
<1>2. DOMAIN R = Keys(object) /\ DOMAIN m = Keys(object) \cap DOMAIN shape.keep
  OBVIOUS
<1>3. /\ Normalized(shape, R) = Ok(Obj(m))
      /\ shape.required \subseteq DOMAIN m
      /\ \A k \in DOMAIN R : R[k].ok
  <2> HIDE DEF R
  <2> QED
    BY <1>1, NormalizedOk
<1>4. ASSUME NEW k \in DOMAIN m
      PROVE  /\ CheckInMember(shape.keep[k], object.members[k]) = Ok(m[k])
             /\ CheckInMember(shape.keep[k], m[k]) = Ok(m[k])
             /\ Follows(object.members[k], m[k])
  <2>1. R[k] = CheckInMember(shape.keep[k], object.members[k]) /\ R[k].ok /\ m[k] = R[k].value
    BY <1>2, <1>3
  <2>2. PICK w : /\ CheckInMember(shape.keep[k], object.members[k]) = Ok(w)
                 /\ CheckInMember(shape.keep[k], w) = Ok(w)
                 /\ Follows(object.members[k], w)
    BY <2>1, MemberKeeps
  <2>3. m[k] = w
    BY <2>1, <2>2 DEF Ok
  <2> QED
    BY <2>2, <2>3
<1>5. Follows(object, Obj(m))
  <2>1. Parts(Obj(m)) = {m[k] : k \in DOMAIN m}
    BY DEF Parts, Obj, Keys
  <2>2. Parts(object) = {object.members[k] : k \in Keys(object)}
    BY DEF Parts
  <2>3. Like(Obj(m), object)
    BY DEF Like, Obj
  <2> HIDE DEF m
  <2>4. \A p \in Parts(Obj(m)) : \E q \in Parts(object) : Follows(q, p)
    BY <1>2, <1>4, <2>1, <2>2
  <2> QED
    BY <2>3, <2>4, FollowsByParts
<1>6. Normalized(shape, Results(Obj(m))) = Ok(Obj(m))
  <2> DEFINE S == Results(Obj(m))
  <2>1. Keys(Obj(m)) = DOMAIN m /\ Obj(m).members = m
    BY DEF Keys, Obj
  <2>2. DOMAIN S = DOMAIN m /\ \A k \in DOMAIN S : S[k] = Ok(m[k])
    <3> HIDE DEF m
    <3> QED
      BY <1>2, <1>4, <2>1
  <2>3. m = [k \in DOMAIN S \cap DOMAIN shape.keep |-> S[k].value]
    <3>1. DOMAIN S \cap DOMAIN shape.keep = DOMAIN m
      BY <1>2, <2>2
    <3>2. m = [k \in DOMAIN m |-> m[k]]
      OBVIOUS
    <3> HIDE DEF m, S
    <3>3. \A k \in DOMAIN m : S[k].value = m[k]
      BY <2>2 DEF Ok
    <3>4. m = [k \in DOMAIN m |-> S[k].value]
      BY <3>2, <3>3, Zenon
    <3> QED
      BY <3>1, <3>4, Zenon
  <2> HIDE DEF S, m
  <2>4. \A k \in DOMAIN S : S[k].ok
    BY <2>2 DEF Ok
  <2>5. Normalized(shape, S) = Ok(Obj(m))
    BY <1>3, <2>3, <2>4, NormalizedOf
  <2> QED
    BY <2>5 DEF S
<1>7. m = [k \in DOMAIN m |-> m[k]]
  OBVIOUS
<1> HIDE DEF m, R
<1>8. \A k \in DOMAIN m : MemberGives(shape.keep[k], object.members[k], m[k])
  BY <1>4 DEF MemberGives
<1> QED
  BY <1>1, <1>2, <1>3, <1>5, <1>6, <1>7, <1>8

LEMMA MemberString ==
  \A u : CheckInMember("string", u).ok => CheckInMember("string", u) = Ok(u) /\ u.t = "string"
PROOF
<1>1. \A u : CheckInMember("string", u) = CheckLeaf("string", u)
  BY PlainString DEF CheckInMember, CheckIn, CheckOne
<1> QED
  BY <1>1, LeafString

LEMMA MemberTyped ==
  ASSUME NEW place \in DOMAIN Typed, NEW v, CheckTyped(CheckInMember, place, v).ok
  PROVE  \E m : \E kind \in DOMAIN Typed[place] :
           /\ v.t = "object"
           /\ KindOf(place, v).t = "string" /\ KindOf(place, v).s = kind
           /\ CheckTyped(CheckInMember, place, v) = Ok(Obj(m))
           /\ CheckTyped(CheckInMember, place, Obj(m)) = Ok(Obj(m))
           /\ Follows(v, Obj(m))
           /\ DOMAIN m = Keys(v) \cap DOMAIN Typed[place][kind].keep
           /\ Typed[place][kind].required \subseteq DOMAIN m
           /\ \A k \in DOMAIN m : MemberGives(Typed[place][kind].keep[k], v.members[k], m[k])
PROOF
<1> DEFINE kind == KindOf(place, v)
<1>1. /\ v.t = "object"
      /\ kind.t = "string"
      /\ kind.s \in DOMAIN Typed[place]
      /\ CheckTyped(CheckInMember, place, v) = Apply(CheckInMember, Typed[place][kind.s], v)
  BY DEF CheckTyped, Rejection
<1> DEFINE its == Typed[place][kind.s]
<1>2. Named(its)
  BY <1>1, TypedNamed
<1> HIDE DEF kind, its
<1>3. PICK m :
        /\ Apply(CheckInMember, its, v) = Ok(Obj(m))
        /\ Apply(CheckInMember, its, Obj(m)) = Ok(Obj(m))
        /\ Follows(v, Obj(m))
        /\ DOMAIN m = Keys(v) \cap DOMAIN its.keep
        /\ its.required \subseteq DOMAIN m
        /\ \A k \in DOMAIN m : MemberGives(its.keep[k], v.members[k], m[k])
  <2>1. CheckTyped(CheckInMember, place, v) = Apply(CheckInMember, its, v)
    BY <1>1 DEF its
  <2>2. v.t = "object" /\ Apply(CheckInMember, its, v).ok
    BY <1>1, <2>1
  <2> QED
    BY <2>2, MemberApplies
<1>4. Keys(Obj(m)) = DOMAIN m /\ Obj(m).members = m /\ Obj(m).t = "object"
  BY DEF Keys, Obj
<1>5. KindOf(place, Obj(m)) = kind
  <2>1. Field(Obj(m), "type") = Field(v, "type")
    <3>1. CASE "type" \in Keys(v)
      <4>1. "type" \in DOMAIN m
        BY <1>2, <1>3, <3>1 DEF Named
      <4>2. CheckInMember("string", v.members["type"]) = Ok(m["type"])
        BY <1>2, <1>3, <4>1 DEF Named, MemberGives
      <4>3. CheckInMember("string", v.members["type"]).ok
        BY <4>2 DEF Ok
      <4>4. m["type"] = v.members["type"]
        BY <4>2, <4>3, MemberString DEF Ok
      <4> QED
        BY <1>1, <1>4, <3>1, <4>1, <4>4 DEF Field, Has
    <3>2. CASE "type" \notin Keys(v)
      BY <1>3, <1>4, <3>2 DEF Field, Has
    <3> QED
      BY <3>1, <3>2
  <2>2. CASE Field(v, "type") = Absent /\ place = "input_item" /\ Has(v, "role")
    <3>1. kind = Str("message")
      BY <2>2 DEF kind, KindOf
    <3>2. "role" \in DOMAIN m
      BY <1>3, <2>2, <3>1, MessageShape DEF its, Str
    <3> QED
      BY <1>4, <2>1, <2>2, <3>1, <3>2 DEF KindOf, Has
  <2>3. CASE ~(Field(v, "type") = Absent /\ place = "input_item" /\ Has(v, "role"))
    <3>1. kind = Field(v, "type")
      BY <2>3 DEF kind, KindOf
    <3>2. Field(v, "type") # Absent
      BY <1>1, <3>1 DEF Absent
    <3> QED
      BY <2>1, <3>1, <3>2 DEF KindOf
  <2> QED
    BY <2>2, <2>3
<1>6. CheckTyped(CheckInMember, place, Obj(m)) = Ok(Obj(m))
  <2>1. kind # Absent
    BY <1>1 DEF Absent
  <2>2. CheckTyped(CheckInMember, place, Obj(m)) = Apply(CheckInMember, its, Obj(m))
    BY <1>1, <1>4, <1>5, <2>1 DEF CheckTyped, its
  <2> QED
    BY <1>3, <2>2
<1> QED
  BY <1>1, <1>3, <1>6 DEF its, kind

LEMMA MemberOne ==
  ASSUME NEW c, NEW v, CheckOne(CheckInMember, c, v).ok
  PROVE  \E w : /\ CheckOne(CheckInMember, c, v) = Ok(w)
                /\ CheckOne(CheckInMember, c, w) = Ok(w)
                /\ Follows(v, w)
PROOF
<1>1. CASE c \in DOMAIN Typed
  <2>1. \A u : CheckOne(CheckInMember, c, u) = CheckTyped(CheckInMember, c, u)
    BY <1>1, Disjoint DEF CheckOne
  <2>2. CheckTyped(CheckInMember, c, v).ok
    BY <2>1
  <2>3. PICK m : /\ CheckTyped(CheckInMember, c, v) = Ok(Obj(m))
                 /\ CheckTyped(CheckInMember, c, Obj(m)) = Ok(Obj(m))
                 /\ Follows(v, Obj(m))
    BY <1>1, <2>2, MemberTyped
  <2> QED
    BY <2>1, <2>3
<1>2. CASE c \notin DOMAIN Typed /\ c \in DOMAIN Plain
  <2>1. \A u : CheckOne(CheckInMember, c, u) = IF u.t = "object" THEN Apply(CheckInMember, Plain[c], u)
                                    ELSE Rejection({"invalid_value"})
    BY <1>2 DEF CheckOne
  <2>2. v.t = "object" /\ CheckOne(CheckInMember, c, v) = Apply(CheckInMember, Plain[c], v)
    BY <2>1 DEF Rejection
  <2>3. PICK m : /\ Apply(CheckInMember, Plain[c], v) = Ok(Obj(m))
                 /\ Apply(CheckInMember, Plain[c], Obj(m)) = Ok(Obj(m))
                 /\ Follows(v, Obj(m))
    BY <2>2, MemberApplies
  <2>4. CheckOne(CheckInMember, c, Obj(m)) = Apply(CheckInMember, Plain[c], Obj(m))
    BY <2>1 DEF Obj
  <2> QED
    BY <2>2, <2>3, <2>4
<1>3. CASE c \notin DOMAIN Typed /\ c \notin DOMAIN Plain
  <2>1. \A u : CheckOne(CheckInMember, c, u) = CheckLeaf(c, u)
    BY <1>3 DEF CheckOne
  <2> QED
    BY <2>1, LeafKeeps
<1> QED
  BY <1>1, <1>2, <1>3

LEMMA MemberEach ==
  ASSUME NEW c, NEW v, CheckEach(CheckInMember, c, v).ok
  PROVE  \E s : /\ v.t = "array"
                /\ CheckEach(CheckInMember, c, v) = Ok(Arr(s))
                /\ CheckEach(CheckInMember, c, Arr(s)) = Ok(Arr(s))
                /\ Follows(v, Arr(s))
                /\ DOMAIN s = DOMAIN v.items
                /\ \A i \in DOMAIN s : CheckOne(CheckInMember, c, v.items[i]) = Ok(s[i])
PROOF
<1> DEFINE Results(a) == [i \in DOMAIN a.items |-> CheckOne(CheckInMember, c, a.items[i])]
           R == Results(v)
           s == [i \in DOMAIN R |-> R[i].value]
<1>1. v.t = "array" /\ CheckEach(CheckInMember, c, v) = Collected(R)
  BY DEF CheckEach, Rejection
<1>2. DOMAIN R = DOMAIN v.items /\ DOMAIN s = DOMAIN v.items
  OBVIOUS
<1>3. Collected(R) = Ok(Arr(s)) /\ \A i \in DOMAIN R : R[i].ok
  <2> HIDE DEF R
  <2> QED
    BY <1>1, CollectedOk
<1>4. ASSUME NEW i \in DOMAIN s
      PROVE  /\ CheckOne(CheckInMember, c, v.items[i]) = Ok(s[i])
             /\ CheckOne(CheckInMember, c, s[i]) = Ok(s[i])
             /\ Follows(v.items[i], s[i])
  <2>1. R[i] = CheckOne(CheckInMember, c, v.items[i]) /\ R[i].ok /\ s[i] = R[i].value
    BY <1>2, <1>3
  <2>2. PICK w : /\ CheckOne(CheckInMember, c, v.items[i]) = Ok(w)
                 /\ CheckOne(CheckInMember, c, w) = Ok(w)
                 /\ Follows(v.items[i], w)
    BY <2>1, MemberOne
  <2>3. s[i] = w
    BY <2>1, <2>2 DEF Ok
  <2> QED
    BY <2>2, <2>3
<1> HIDE DEF s, R
<1>5. Follows(v, Arr(s))
  <2>1. Parts(Arr(s)) = {s[i] : i \in DOMAIN s}
    BY DEF Parts, Arr
  <2>2. Parts(v) = {v.items[i] : i \in DOMAIN v.items}
    BY <1>1 DEF Parts
  <2>3. Like(Arr(s), v)
    BY <1>1 DEF Like, Arr
  <2>4. \A p \in Parts(Arr(s)) : \E q \in Parts(v) : Follows(q, p)
    BY <1>2, <1>4, <2>1, <2>2
  <2> QED
    BY <2>3, <2>4, FollowsByParts
<1>6. CheckEach(CheckInMember, c, Arr(s)) = Ok(Arr(s))
  <2> DEFINE S == Results(Arr(s))
  <2>1. Arr(s).t = "array" /\ Arr(s).items = s
    BY DEF Arr
  <2>2. DOMAIN S = DOMAIN s /\ \A i \in DOMAIN S : S[i] = Ok(s[i])
    BY <1>4, <2>1
  <2>3. CheckEach(CheckInMember, c, Arr(s)) = Collected(S)
    BY <2>1 DEF CheckEach
  <2> HIDE DEF S
  <2>4. s = [i \in DOMAIN S |-> S[i].value]
    <3>1. s = [i \in DOMAIN s |-> s[i]]
      BY DEF s
    <3>2. \A i \in DOMAIN s : S[i].value = s[i]
      BY <2>2 DEF Ok
    <3>3. [i \in DOMAIN s |-> s[i]] = [i \in DOMAIN s |-> S[i].value]
      BY <3>2
    <3> QED
      BY <2>2, <3>1, <3>3, Zenon
  <2>5. \A i \in DOMAIN S : S[i].ok
    BY <2>2 DEF Ok
  <2>6. Collected(S) = Ok(Arr(s))
    BY <2>4, <2>5, CollectedOf
  <2> QED
    BY <2>3, <2>6
<1> QED
  BY <1>1, <1>2, <1>3, <1>4, <1>5, <1>6

LEMMA ToolKeeps ==
  \A c, v : CheckInTool(c, v).ok => \E w : CheckInTool(c, v) = Ok(w) /\ CheckInTool(c, w) = Ok(w) /\ Follows(v, w)
PROOF
<1>1. SUFFICES ASSUME NEW c, NEW v, CheckInTool(c, v).ok
               PROVE  \E w : CheckInTool(c, v) = Ok(w) /\ CheckInTool(c, w) = Ok(w) /\ Follows(v, w)
  OBVIOUS
<1>2. CASE c \in DOMAIN ArrayOf
  <2>1. \A u : CheckInTool(c, u) = CheckEach(CheckInMember, ArrayOf[c], u)
    BY <1>2, Disjoint DEF CheckInTool, CheckIn
  <2> QED
    BY <1>1, <2>1, MemberEach
<1>3. CASE c \notin DOMAIN ArrayOf /\ c \in DOMAIN StringOrArrayOf
  <2>1. \A u : CheckInTool(c, u) = IF u.t = "string" THEN Ok(u)
                          ELSE CheckEach(CheckInMember, StringOrArrayOf[c], u)
    BY <1>3, Disjoint DEF CheckInTool, CheckIn
  <2>2. CASE v.t = "string"
    BY <2>1, <2>2, FollowsItself
  <2>3. CASE v.t # "string"
    <3>1. PICK s : /\ CheckEach(CheckInMember, StringOrArrayOf[c], v) = Ok(Arr(s))
                   /\ CheckEach(CheckInMember, StringOrArrayOf[c], Arr(s)) = Ok(Arr(s))
                   /\ Follows(v, Arr(s))
      BY <1>1, <2>1, <2>3, MemberEach
    <3>2. CheckInTool(c, Arr(s)) = CheckEach(CheckInMember, StringOrArrayOf[c], Arr(s))
      BY <2>1 DEF Arr
    <3> QED
      BY <2>1, <2>3, <3>1, <3>2
  <2> QED
    BY <2>2, <2>3
<1>4. CASE c \notin DOMAIN ArrayOf /\ c \notin DOMAIN StringOrArrayOf /\ c = "tool_choice"
  <2>1. \A u : CheckInTool(c, u) = IF u.t = "string" THEN CheckLeaf("choice", u)
                          ELSE CheckTyped(CheckInMember, "named_choice", u)
    BY <1>4 DEF CheckInTool, CheckIn
  <2>2. CASE v.t = "string"
    <3>1. CheckInTool(c, v) = CheckLeaf("choice", v)
      BY <2>1, <2>2
    <3>2. CheckLeaf("choice", v) = Ok(v)
      BY <1>1, <3>1 DEF CheckLeaf, Rejection
    <3> QED
      BY <3>1, <3>2, FollowsItself
  <2>3. CASE v.t # "string"
    <3>1. "named_choice" \in DOMAIN Typed
      BY Places
    <3>2. PICK m : /\ CheckTyped(CheckInMember, "named_choice", v) = Ok(Obj(m))
                   /\ CheckTyped(CheckInMember, "named_choice", Obj(m)) = Ok(Obj(m))
                   /\ Follows(v, Obj(m))
      BY <1>1, <2>1, <2>3, <3>1, MemberTyped
    <3>3. CheckInTool(c, Obj(m)) = CheckTyped(CheckInMember, "named_choice", Obj(m))
      BY <2>1 DEF Obj
    <3> QED
      BY <2>1, <2>3, <3>2, <3>3
  <2> QED
    BY <2>2, <2>3
<1>5. CASE c \notin DOMAIN ArrayOf /\ c \notin DOMAIN StringOrArrayOf /\ c # "tool_choice"
  <2>1. \A u : CheckInTool(c, u) = CheckOne(CheckInMember, c, u)
    BY <1>5 DEF CheckInTool, CheckIn
  <2> QED
    BY <1>1, <2>1, MemberOne
<1> QED
  BY <1>2, <1>3, <1>4, <1>5
-----------------------------------------------------------------------------
(* The layer of the members of a tool.                                     *)

ToolGives(c, v, w) == CheckInTool(c, v) = Ok(w)

LEMMA ToolApplies ==
  ASSUME NEW shape, NEW object, object.t = "object",
         Apply(CheckInTool, shape, object).ok
  PROVE  \E m :
           /\ m = [k \in DOMAIN m |-> m[k]]
           /\ Apply(CheckInTool, shape, object) = Ok(Obj(m))
           /\ Apply(CheckInTool, shape, Obj(m)) = Ok(Obj(m))
           /\ Follows(object, Obj(m))
           /\ DOMAIN m = Keys(object) \cap DOMAIN shape.keep
           /\ shape.required \subseteq DOMAIN m
           /\ \A k \in DOMAIN m : ToolGives(shape.keep[k], object.members[k], m[k])
PROOF
<1> DEFINE Results(o) ==
             [k \in Keys(o) |->
                IF k \in DOMAIN shape.keep THEN CheckInTool(shape.keep[k], o.members[k])
                ELSE IF k \in DOMAIN shape.drop THEN CheckInTool(shape.drop[k], o.members[k])
                ELSE Rejection({"unsupported_parameter"})]
           R == Results(object)
           m == [k \in DOMAIN R \cap DOMAIN shape.keep |-> R[k].value]
<1>1. /\ Apply(CheckInTool, shape, object) = Normalized(shape, R)
      /\ Apply(CheckInTool, shape, Obj(m)) = Normalized(shape, Results(Obj(m)))
  BY DEF Apply
<1>2. DOMAIN R = Keys(object) /\ DOMAIN m = Keys(object) \cap DOMAIN shape.keep
  OBVIOUS
<1>3. /\ Normalized(shape, R) = Ok(Obj(m))
      /\ shape.required \subseteq DOMAIN m
      /\ \A k \in DOMAIN R : R[k].ok
  <2> HIDE DEF R
  <2> QED
    BY <1>1, NormalizedOk
<1>4. ASSUME NEW k \in DOMAIN m
      PROVE  /\ CheckInTool(shape.keep[k], object.members[k]) = Ok(m[k])
             /\ CheckInTool(shape.keep[k], m[k]) = Ok(m[k])
             /\ Follows(object.members[k], m[k])
  <2>1. R[k] = CheckInTool(shape.keep[k], object.members[k]) /\ R[k].ok /\ m[k] = R[k].value
    BY <1>2, <1>3
  <2>2. PICK w : /\ CheckInTool(shape.keep[k], object.members[k]) = Ok(w)
                 /\ CheckInTool(shape.keep[k], w) = Ok(w)
                 /\ Follows(object.members[k], w)
    BY <2>1, ToolKeeps
  <2>3. m[k] = w
    BY <2>1, <2>2 DEF Ok
  <2> QED
    BY <2>2, <2>3
<1>5. Follows(object, Obj(m))
  <2>1. Parts(Obj(m)) = {m[k] : k \in DOMAIN m}
    BY DEF Parts, Obj, Keys
  <2>2. Parts(object) = {object.members[k] : k \in Keys(object)}
    BY DEF Parts
  <2>3. Like(Obj(m), object)
    BY DEF Like, Obj
  <2> HIDE DEF m
  <2>4. \A p \in Parts(Obj(m)) : \E q \in Parts(object) : Follows(q, p)
    BY <1>2, <1>4, <2>1, <2>2
  <2> QED
    BY <2>3, <2>4, FollowsByParts
<1>6. Normalized(shape, Results(Obj(m))) = Ok(Obj(m))
  <2> DEFINE S == Results(Obj(m))
  <2>1. Keys(Obj(m)) = DOMAIN m /\ Obj(m).members = m
    BY DEF Keys, Obj
  <2>2. DOMAIN S = DOMAIN m /\ \A k \in DOMAIN S : S[k] = Ok(m[k])
    <3> HIDE DEF m
    <3> QED
      BY <1>2, <1>4, <2>1
  <2>3. m = [k \in DOMAIN S \cap DOMAIN shape.keep |-> S[k].value]
    <3>1. DOMAIN S \cap DOMAIN shape.keep = DOMAIN m
      BY <1>2, <2>2
    <3>2. m = [k \in DOMAIN m |-> m[k]]
      OBVIOUS
    <3> HIDE DEF m, S
    <3>3. \A k \in DOMAIN m : S[k].value = m[k]
      BY <2>2 DEF Ok
    <3>4. m = [k \in DOMAIN m |-> S[k].value]
      BY <3>2, <3>3, Zenon
    <3> QED
      BY <3>1, <3>4, Zenon
  <2> HIDE DEF S, m
  <2>4. \A k \in DOMAIN S : S[k].ok
    BY <2>2 DEF Ok
  <2>5. Normalized(shape, S) = Ok(Obj(m))
    BY <1>3, <2>3, <2>4, NormalizedOf
  <2> QED
    BY <2>5 DEF S
<1>7. m = [k \in DOMAIN m |-> m[k]]
  OBVIOUS
<1> HIDE DEF m, R
<1>8. \A k \in DOMAIN m : ToolGives(shape.keep[k], object.members[k], m[k])
  BY <1>4 DEF ToolGives
<1> QED
  BY <1>1, <1>2, <1>3, <1>5, <1>6, <1>7, <1>8

LEMMA ToolString ==
  \A u : CheckInTool("string", u).ok => CheckInTool("string", u) = Ok(u) /\ u.t = "string"
PROOF
<1>1. \A u : CheckInTool("string", u) = CheckLeaf("string", u)
  BY PlainString DEF CheckInTool, CheckIn, CheckOne
<1> QED
  BY <1>1, LeafString

LEMMA ToolTyped ==
  ASSUME NEW place \in DOMAIN Typed, NEW v, CheckTyped(CheckInTool, place, v).ok
  PROVE  \E m : \E kind \in DOMAIN Typed[place] :
           /\ v.t = "object"
           /\ KindOf(place, v).t = "string" /\ KindOf(place, v).s = kind
           /\ CheckTyped(CheckInTool, place, v) = Ok(Obj(m))
           /\ CheckTyped(CheckInTool, place, Obj(m)) = Ok(Obj(m))
           /\ Follows(v, Obj(m))
           /\ DOMAIN m = Keys(v) \cap DOMAIN Typed[place][kind].keep
           /\ Typed[place][kind].required \subseteq DOMAIN m
           /\ \A k \in DOMAIN m : ToolGives(Typed[place][kind].keep[k], v.members[k], m[k])
PROOF
<1> DEFINE kind == KindOf(place, v)
<1>1. /\ v.t = "object"
      /\ kind.t = "string"
      /\ kind.s \in DOMAIN Typed[place]
      /\ CheckTyped(CheckInTool, place, v) = Apply(CheckInTool, Typed[place][kind.s], v)
  BY DEF CheckTyped, Rejection
<1> DEFINE its == Typed[place][kind.s]
<1>2. Named(its)
  BY <1>1, TypedNamed
<1> HIDE DEF kind, its
<1>3. PICK m :
        /\ Apply(CheckInTool, its, v) = Ok(Obj(m))
        /\ Apply(CheckInTool, its, Obj(m)) = Ok(Obj(m))
        /\ Follows(v, Obj(m))
        /\ DOMAIN m = Keys(v) \cap DOMAIN its.keep
        /\ its.required \subseteq DOMAIN m
        /\ \A k \in DOMAIN m : ToolGives(its.keep[k], v.members[k], m[k])
  <2>1. CheckTyped(CheckInTool, place, v) = Apply(CheckInTool, its, v)
    BY <1>1 DEF its
  <2>2. v.t = "object" /\ Apply(CheckInTool, its, v).ok
    BY <1>1, <2>1
  <2> QED
    BY <2>2, ToolApplies
<1>4. Keys(Obj(m)) = DOMAIN m /\ Obj(m).members = m /\ Obj(m).t = "object"
  BY DEF Keys, Obj
<1>5. KindOf(place, Obj(m)) = kind
  <2>1. Field(Obj(m), "type") = Field(v, "type")
    <3>1. CASE "type" \in Keys(v)
      <4>1. "type" \in DOMAIN m
        BY <1>2, <1>3, <3>1 DEF Named
      <4>2. CheckInTool("string", v.members["type"]) = Ok(m["type"])
        BY <1>2, <1>3, <4>1 DEF Named, ToolGives
      <4>3. CheckInTool("string", v.members["type"]).ok
        BY <4>2 DEF Ok
      <4>4. m["type"] = v.members["type"]
        BY <4>2, <4>3, ToolString DEF Ok
      <4> QED
        BY <1>1, <1>4, <3>1, <4>1, <4>4 DEF Field, Has
    <3>2. CASE "type" \notin Keys(v)
      BY <1>3, <1>4, <3>2 DEF Field, Has
    <3> QED
      BY <3>1, <3>2
  <2>2. CASE Field(v, "type") = Absent /\ place = "input_item" /\ Has(v, "role")
    <3>1. kind = Str("message")
      BY <2>2 DEF kind, KindOf
    <3>2. "role" \in DOMAIN m
      BY <1>3, <2>2, <3>1, MessageShape DEF its, Str
    <3> QED
      BY <1>4, <2>1, <2>2, <3>1, <3>2 DEF KindOf, Has
  <2>3. CASE ~(Field(v, "type") = Absent /\ place = "input_item" /\ Has(v, "role"))
    <3>1. kind = Field(v, "type")
      BY <2>3 DEF kind, KindOf
    <3>2. Field(v, "type") # Absent
      BY <1>1, <3>1 DEF Absent
    <3> QED
      BY <2>1, <3>1, <3>2 DEF KindOf
  <2> QED
    BY <2>2, <2>3
<1>6. CheckTyped(CheckInTool, place, Obj(m)) = Ok(Obj(m))
  <2>1. kind # Absent
    BY <1>1 DEF Absent
  <2>2. CheckTyped(CheckInTool, place, Obj(m)) = Apply(CheckInTool, its, Obj(m))
    BY <1>1, <1>4, <1>5, <2>1 DEF CheckTyped, its
  <2> QED
    BY <1>3, <2>2
<1> QED
  BY <1>1, <1>3, <1>6 DEF its, kind

LEMMA ToolOne ==
  ASSUME NEW c, NEW v, CheckOne(CheckInTool, c, v).ok
  PROVE  \E w : /\ CheckOne(CheckInTool, c, v) = Ok(w)
                /\ CheckOne(CheckInTool, c, w) = Ok(w)
                /\ Follows(v, w)
PROOF
<1>1. CASE c \in DOMAIN Typed
  <2>1. \A u : CheckOne(CheckInTool, c, u) = CheckTyped(CheckInTool, c, u)
    BY <1>1, Disjoint DEF CheckOne
  <2>2. CheckTyped(CheckInTool, c, v).ok
    BY <2>1
  <2>3. PICK m : /\ CheckTyped(CheckInTool, c, v) = Ok(Obj(m))
                 /\ CheckTyped(CheckInTool, c, Obj(m)) = Ok(Obj(m))
                 /\ Follows(v, Obj(m))
    BY <1>1, <2>2, ToolTyped
  <2> QED
    BY <2>1, <2>3
<1>2. CASE c \notin DOMAIN Typed /\ c \in DOMAIN Plain
  <2>1. \A u : CheckOne(CheckInTool, c, u) = IF u.t = "object" THEN Apply(CheckInTool, Plain[c], u)
                                    ELSE Rejection({"invalid_value"})
    BY <1>2 DEF CheckOne
  <2>2. v.t = "object" /\ CheckOne(CheckInTool, c, v) = Apply(CheckInTool, Plain[c], v)
    BY <2>1 DEF Rejection
  <2>3. PICK m : /\ Apply(CheckInTool, Plain[c], v) = Ok(Obj(m))
                 /\ Apply(CheckInTool, Plain[c], Obj(m)) = Ok(Obj(m))
                 /\ Follows(v, Obj(m))
    BY <2>2, ToolApplies
  <2>4. CheckOne(CheckInTool, c, Obj(m)) = Apply(CheckInTool, Plain[c], Obj(m))
    BY <2>1 DEF Obj
  <2> QED
    BY <2>2, <2>3, <2>4
<1>3. CASE c \notin DOMAIN Typed /\ c \notin DOMAIN Plain
  <2>1. \A u : CheckOne(CheckInTool, c, u) = CheckLeaf(c, u)
    BY <1>3 DEF CheckOne
  <2> QED
    BY <2>1, LeafKeeps
<1> QED
  BY <1>1, <1>2, <1>3

LEMMA ToolEach ==
  ASSUME NEW c, NEW v, CheckEach(CheckInTool, c, v).ok
  PROVE  \E s : /\ v.t = "array"
                /\ CheckEach(CheckInTool, c, v) = Ok(Arr(s))
                /\ CheckEach(CheckInTool, c, Arr(s)) = Ok(Arr(s))
                /\ Follows(v, Arr(s))
                /\ DOMAIN s = DOMAIN v.items
                /\ \A i \in DOMAIN s : CheckOne(CheckInTool, c, v.items[i]) = Ok(s[i])
PROOF
<1> DEFINE Results(a) == [i \in DOMAIN a.items |-> CheckOne(CheckInTool, c, a.items[i])]
           R == Results(v)
           s == [i \in DOMAIN R |-> R[i].value]
<1>1. v.t = "array" /\ CheckEach(CheckInTool, c, v) = Collected(R)
  BY DEF CheckEach, Rejection
<1>2. DOMAIN R = DOMAIN v.items /\ DOMAIN s = DOMAIN v.items
  OBVIOUS
<1>3. Collected(R) = Ok(Arr(s)) /\ \A i \in DOMAIN R : R[i].ok
  <2> HIDE DEF R
  <2> QED
    BY <1>1, CollectedOk
<1>4. ASSUME NEW i \in DOMAIN s
      PROVE  /\ CheckOne(CheckInTool, c, v.items[i]) = Ok(s[i])
             /\ CheckOne(CheckInTool, c, s[i]) = Ok(s[i])
             /\ Follows(v.items[i], s[i])
  <2>1. R[i] = CheckOne(CheckInTool, c, v.items[i]) /\ R[i].ok /\ s[i] = R[i].value
    BY <1>2, <1>3
  <2>2. PICK w : /\ CheckOne(CheckInTool, c, v.items[i]) = Ok(w)
                 /\ CheckOne(CheckInTool, c, w) = Ok(w)
                 /\ Follows(v.items[i], w)
    BY <2>1, ToolOne
  <2>3. s[i] = w
    BY <2>1, <2>2 DEF Ok
  <2> QED
    BY <2>2, <2>3
<1> HIDE DEF s, R
<1>5. Follows(v, Arr(s))
  <2>1. Parts(Arr(s)) = {s[i] : i \in DOMAIN s}
    BY DEF Parts, Arr
  <2>2. Parts(v) = {v.items[i] : i \in DOMAIN v.items}
    BY <1>1 DEF Parts
  <2>3. Like(Arr(s), v)
    BY <1>1 DEF Like, Arr
  <2>4. \A p \in Parts(Arr(s)) : \E q \in Parts(v) : Follows(q, p)
    BY <1>2, <1>4, <2>1, <2>2
  <2> QED
    BY <2>3, <2>4, FollowsByParts
<1>6. CheckEach(CheckInTool, c, Arr(s)) = Ok(Arr(s))
  <2> DEFINE S == Results(Arr(s))
  <2>1. Arr(s).t = "array" /\ Arr(s).items = s
    BY DEF Arr
  <2>2. DOMAIN S = DOMAIN s /\ \A i \in DOMAIN S : S[i] = Ok(s[i])
    BY <1>4, <2>1
  <2>3. CheckEach(CheckInTool, c, Arr(s)) = Collected(S)
    BY <2>1 DEF CheckEach
  <2> HIDE DEF S
  <2>4. s = [i \in DOMAIN S |-> S[i].value]
    <3>1. s = [i \in DOMAIN s |-> s[i]]
      BY DEF s
    <3>2. \A i \in DOMAIN s : S[i].value = s[i]
      BY <2>2 DEF Ok
    <3>3. [i \in DOMAIN s |-> s[i]] = [i \in DOMAIN s |-> S[i].value]
      BY <3>2
    <3> QED
      BY <2>2, <3>1, <3>3, Zenon
  <2>5. \A i \in DOMAIN S : S[i].ok
    BY <2>2 DEF Ok
  <2>6. Collected(S) = Ok(Arr(s))
    BY <2>4, <2>5, CollectedOf
  <2> QED
    BY <2>3, <2>6
<1> QED
  BY <1>1, <1>2, <1>3, <1>4, <1>5, <1>6

LEMMA ItemKeeps ==
  \A c, v : CheckInItem(c, v).ok => \E w : CheckInItem(c, v) = Ok(w) /\ CheckInItem(c, w) = Ok(w) /\ Follows(v, w)
PROOF
<1>1. SUFFICES ASSUME NEW c, NEW v, CheckInItem(c, v).ok
               PROVE  \E w : CheckInItem(c, v) = Ok(w) /\ CheckInItem(c, w) = Ok(w) /\ Follows(v, w)
  OBVIOUS
<1>2. CASE c \in DOMAIN ArrayOf
  <2>1. \A u : CheckInItem(c, u) = CheckEach(CheckInTool, ArrayOf[c], u)
    BY <1>2, Disjoint DEF CheckInItem, CheckIn
  <2> QED
    BY <1>1, <2>1, ToolEach
<1>3. CASE c \notin DOMAIN ArrayOf /\ c \in DOMAIN StringOrArrayOf
  <2>1. \A u : CheckInItem(c, u) = IF u.t = "string" THEN Ok(u)
                          ELSE CheckEach(CheckInTool, StringOrArrayOf[c], u)
    BY <1>3, Disjoint DEF CheckInItem, CheckIn
  <2>2. CASE v.t = "string"
    BY <2>1, <2>2, FollowsItself
  <2>3. CASE v.t # "string"
    <3>1. PICK s : /\ CheckEach(CheckInTool, StringOrArrayOf[c], v) = Ok(Arr(s))
                   /\ CheckEach(CheckInTool, StringOrArrayOf[c], Arr(s)) = Ok(Arr(s))
                   /\ Follows(v, Arr(s))
      BY <1>1, <2>1, <2>3, ToolEach
    <3>2. CheckInItem(c, Arr(s)) = CheckEach(CheckInTool, StringOrArrayOf[c], Arr(s))
      BY <2>1 DEF Arr
    <3> QED
      BY <2>1, <2>3, <3>1, <3>2
  <2> QED
    BY <2>2, <2>3
<1>4. CASE c \notin DOMAIN ArrayOf /\ c \notin DOMAIN StringOrArrayOf /\ c = "tool_choice"
  <2>1. \A u : CheckInItem(c, u) = IF u.t = "string" THEN CheckLeaf("choice", u)
                          ELSE CheckTyped(CheckInTool, "named_choice", u)
    BY <1>4 DEF CheckInItem, CheckIn
  <2>2. CASE v.t = "string"
    <3>1. CheckInItem(c, v) = CheckLeaf("choice", v)
      BY <2>1, <2>2
    <3>2. CheckLeaf("choice", v) = Ok(v)
      BY <1>1, <3>1 DEF CheckLeaf, Rejection
    <3> QED
      BY <3>1, <3>2, FollowsItself
  <2>3. CASE v.t # "string"
    <3>1. "named_choice" \in DOMAIN Typed
      BY Places
    <3>2. PICK m : /\ CheckTyped(CheckInTool, "named_choice", v) = Ok(Obj(m))
                   /\ CheckTyped(CheckInTool, "named_choice", Obj(m)) = Ok(Obj(m))
                   /\ Follows(v, Obj(m))
      BY <1>1, <2>1, <2>3, <3>1, ToolTyped
    <3>3. CheckInItem(c, Obj(m)) = CheckTyped(CheckInTool, "named_choice", Obj(m))
      BY <2>1 DEF Obj
    <3> QED
      BY <2>1, <2>3, <3>2, <3>3
  <2> QED
    BY <2>2, <2>3
<1>5. CASE c \notin DOMAIN ArrayOf /\ c \notin DOMAIN StringOrArrayOf /\ c # "tool_choice"
  <2>1. \A u : CheckInItem(c, u) = CheckOne(CheckInTool, c, u)
    BY <1>5 DEF CheckInItem, CheckIn
  <2> QED
    BY <1>1, <2>1, ToolOne
<1> QED
  BY <1>2, <1>3, <1>4, <1>5
-----------------------------------------------------------------------------
(* The layer of the members of an item.                                    *)

ItemGives(c, v, w) == CheckInItem(c, v) = Ok(w)

LEMMA ItemApplies ==
  ASSUME NEW shape, NEW object, object.t = "object",
         Apply(CheckInItem, shape, object).ok
  PROVE  \E m :
           /\ m = [k \in DOMAIN m |-> m[k]]
           /\ Apply(CheckInItem, shape, object) = Ok(Obj(m))
           /\ Apply(CheckInItem, shape, Obj(m)) = Ok(Obj(m))
           /\ Follows(object, Obj(m))
           /\ DOMAIN m = Keys(object) \cap DOMAIN shape.keep
           /\ shape.required \subseteq DOMAIN m
           /\ \A k \in DOMAIN m : ItemGives(shape.keep[k], object.members[k], m[k])
PROOF
<1> DEFINE Results(o) ==
             [k \in Keys(o) |->
                IF k \in DOMAIN shape.keep THEN CheckInItem(shape.keep[k], o.members[k])
                ELSE IF k \in DOMAIN shape.drop THEN CheckInItem(shape.drop[k], o.members[k])
                ELSE Rejection({"unsupported_parameter"})]
           R == Results(object)
           m == [k \in DOMAIN R \cap DOMAIN shape.keep |-> R[k].value]
<1>1. /\ Apply(CheckInItem, shape, object) = Normalized(shape, R)
      /\ Apply(CheckInItem, shape, Obj(m)) = Normalized(shape, Results(Obj(m)))
  BY DEF Apply
<1>2. DOMAIN R = Keys(object) /\ DOMAIN m = Keys(object) \cap DOMAIN shape.keep
  OBVIOUS
<1>3. /\ Normalized(shape, R) = Ok(Obj(m))
      /\ shape.required \subseteq DOMAIN m
      /\ \A k \in DOMAIN R : R[k].ok
  <2> HIDE DEF R
  <2> QED
    BY <1>1, NormalizedOk
<1>4. ASSUME NEW k \in DOMAIN m
      PROVE  /\ CheckInItem(shape.keep[k], object.members[k]) = Ok(m[k])
             /\ CheckInItem(shape.keep[k], m[k]) = Ok(m[k])
             /\ Follows(object.members[k], m[k])
  <2>1. R[k] = CheckInItem(shape.keep[k], object.members[k]) /\ R[k].ok /\ m[k] = R[k].value
    BY <1>2, <1>3
  <2>2. PICK w : /\ CheckInItem(shape.keep[k], object.members[k]) = Ok(w)
                 /\ CheckInItem(shape.keep[k], w) = Ok(w)
                 /\ Follows(object.members[k], w)
    BY <2>1, ItemKeeps
  <2>3. m[k] = w
    BY <2>1, <2>2 DEF Ok
  <2> QED
    BY <2>2, <2>3
<1>5. Follows(object, Obj(m))
  <2>1. Parts(Obj(m)) = {m[k] : k \in DOMAIN m}
    BY DEF Parts, Obj, Keys
  <2>2. Parts(object) = {object.members[k] : k \in Keys(object)}
    BY DEF Parts
  <2>3. Like(Obj(m), object)
    BY DEF Like, Obj
  <2> HIDE DEF m
  <2>4. \A p \in Parts(Obj(m)) : \E q \in Parts(object) : Follows(q, p)
    BY <1>2, <1>4, <2>1, <2>2
  <2> QED
    BY <2>3, <2>4, FollowsByParts
<1>6. Normalized(shape, Results(Obj(m))) = Ok(Obj(m))
  <2> DEFINE S == Results(Obj(m))
  <2>1. Keys(Obj(m)) = DOMAIN m /\ Obj(m).members = m
    BY DEF Keys, Obj
  <2>2. DOMAIN S = DOMAIN m /\ \A k \in DOMAIN S : S[k] = Ok(m[k])
    <3> HIDE DEF m
    <3> QED
      BY <1>2, <1>4, <2>1
  <2>3. m = [k \in DOMAIN S \cap DOMAIN shape.keep |-> S[k].value]
    <3>1. DOMAIN S \cap DOMAIN shape.keep = DOMAIN m
      BY <1>2, <2>2
    <3>2. m = [k \in DOMAIN m |-> m[k]]
      OBVIOUS
    <3> HIDE DEF m, S
    <3>3. \A k \in DOMAIN m : S[k].value = m[k]
      BY <2>2 DEF Ok
    <3>4. m = [k \in DOMAIN m |-> S[k].value]
      BY <3>2, <3>3, Zenon
    <3> QED
      BY <3>1, <3>4, Zenon
  <2> HIDE DEF S, m
  <2>4. \A k \in DOMAIN S : S[k].ok
    BY <2>2 DEF Ok
  <2>5. Normalized(shape, S) = Ok(Obj(m))
    BY <1>3, <2>3, <2>4, NormalizedOf
  <2> QED
    BY <2>5 DEF S
<1>7. m = [k \in DOMAIN m |-> m[k]]
  OBVIOUS
<1> HIDE DEF m, R
<1>8. \A k \in DOMAIN m : ItemGives(shape.keep[k], object.members[k], m[k])
  BY <1>4 DEF ItemGives
<1> QED
  BY <1>1, <1>2, <1>3, <1>5, <1>6, <1>7, <1>8

LEMMA ItemString ==
  \A u : CheckInItem("string", u).ok => CheckInItem("string", u) = Ok(u) /\ u.t = "string"
PROOF
<1>1. \A u : CheckInItem("string", u) = CheckLeaf("string", u)
  BY PlainString DEF CheckInItem, CheckIn, CheckOne
<1> QED
  BY <1>1, LeafString

LEMMA ItemTyped ==
  ASSUME NEW place \in DOMAIN Typed, NEW v, CheckTyped(CheckInItem, place, v).ok
  PROVE  \E m : \E kind \in DOMAIN Typed[place] :
           /\ v.t = "object"
           /\ KindOf(place, v).t = "string" /\ KindOf(place, v).s = kind
           /\ CheckTyped(CheckInItem, place, v) = Ok(Obj(m))
           /\ CheckTyped(CheckInItem, place, Obj(m)) = Ok(Obj(m))
           /\ Follows(v, Obj(m))
           /\ DOMAIN m = Keys(v) \cap DOMAIN Typed[place][kind].keep
           /\ Typed[place][kind].required \subseteq DOMAIN m
           /\ \A k \in DOMAIN m : ItemGives(Typed[place][kind].keep[k], v.members[k], m[k])
PROOF
<1> DEFINE kind == KindOf(place, v)
<1>1. /\ v.t = "object"
      /\ kind.t = "string"
      /\ kind.s \in DOMAIN Typed[place]
      /\ CheckTyped(CheckInItem, place, v) = Apply(CheckInItem, Typed[place][kind.s], v)
  BY DEF CheckTyped, Rejection
<1> DEFINE its == Typed[place][kind.s]
<1>2. Named(its)
  BY <1>1, TypedNamed
<1> HIDE DEF kind, its
<1>3. PICK m :
        /\ Apply(CheckInItem, its, v) = Ok(Obj(m))
        /\ Apply(CheckInItem, its, Obj(m)) = Ok(Obj(m))
        /\ Follows(v, Obj(m))
        /\ DOMAIN m = Keys(v) \cap DOMAIN its.keep
        /\ its.required \subseteq DOMAIN m
        /\ \A k \in DOMAIN m : ItemGives(its.keep[k], v.members[k], m[k])
  <2>1. CheckTyped(CheckInItem, place, v) = Apply(CheckInItem, its, v)
    BY <1>1 DEF its
  <2>2. v.t = "object" /\ Apply(CheckInItem, its, v).ok
    BY <1>1, <2>1
  <2> QED
    BY <2>2, ItemApplies
<1>4. Keys(Obj(m)) = DOMAIN m /\ Obj(m).members = m /\ Obj(m).t = "object"
  BY DEF Keys, Obj
<1>5. KindOf(place, Obj(m)) = kind
  <2>1. Field(Obj(m), "type") = Field(v, "type")
    <3>1. CASE "type" \in Keys(v)
      <4>1. "type" \in DOMAIN m
        BY <1>2, <1>3, <3>1 DEF Named
      <4>2. CheckInItem("string", v.members["type"]) = Ok(m["type"])
        BY <1>2, <1>3, <4>1 DEF Named, ItemGives
      <4>3. CheckInItem("string", v.members["type"]).ok
        BY <4>2 DEF Ok
      <4>4. m["type"] = v.members["type"]
        BY <4>2, <4>3, ItemString DEF Ok
      <4> QED
        BY <1>1, <1>4, <3>1, <4>1, <4>4 DEF Field, Has
    <3>2. CASE "type" \notin Keys(v)
      BY <1>3, <1>4, <3>2 DEF Field, Has
    <3> QED
      BY <3>1, <3>2
  <2>2. CASE Field(v, "type") = Absent /\ place = "input_item" /\ Has(v, "role")
    <3>1. kind = Str("message")
      BY <2>2 DEF kind, KindOf
    <3>2. "role" \in DOMAIN m
      BY <1>3, <2>2, <3>1, MessageShape DEF its, Str
    <3> QED
      BY <1>4, <2>1, <2>2, <3>1, <3>2 DEF KindOf, Has
  <2>3. CASE ~(Field(v, "type") = Absent /\ place = "input_item" /\ Has(v, "role"))
    <3>1. kind = Field(v, "type")
      BY <2>3 DEF kind, KindOf
    <3>2. Field(v, "type") # Absent
      BY <1>1, <3>1 DEF Absent
    <3> QED
      BY <2>1, <3>1, <3>2 DEF KindOf
  <2> QED
    BY <2>2, <2>3
<1>6. CheckTyped(CheckInItem, place, Obj(m)) = Ok(Obj(m))
  <2>1. kind # Absent
    BY <1>1 DEF Absent
  <2>2. CheckTyped(CheckInItem, place, Obj(m)) = Apply(CheckInItem, its, Obj(m))
    BY <1>1, <1>4, <1>5, <2>1 DEF CheckTyped, its
  <2> QED
    BY <1>3, <2>2
<1> QED
  BY <1>1, <1>3, <1>6 DEF its, kind

LEMMA ItemOne ==
  ASSUME NEW c, NEW v, CheckOne(CheckInItem, c, v).ok
  PROVE  \E w : /\ CheckOne(CheckInItem, c, v) = Ok(w)
                /\ CheckOne(CheckInItem, c, w) = Ok(w)
                /\ Follows(v, w)
PROOF
<1>1. CASE c \in DOMAIN Typed
  <2>1. \A u : CheckOne(CheckInItem, c, u) = CheckTyped(CheckInItem, c, u)
    BY <1>1, Disjoint DEF CheckOne
  <2>2. CheckTyped(CheckInItem, c, v).ok
    BY <2>1
  <2>3. PICK m : /\ CheckTyped(CheckInItem, c, v) = Ok(Obj(m))
                 /\ CheckTyped(CheckInItem, c, Obj(m)) = Ok(Obj(m))
                 /\ Follows(v, Obj(m))
    BY <1>1, <2>2, ItemTyped
  <2> QED
    BY <2>1, <2>3
<1>2. CASE c \notin DOMAIN Typed /\ c \in DOMAIN Plain
  <2>1. \A u : CheckOne(CheckInItem, c, u) = IF u.t = "object" THEN Apply(CheckInItem, Plain[c], u)
                                    ELSE Rejection({"invalid_value"})
    BY <1>2 DEF CheckOne
  <2>2. v.t = "object" /\ CheckOne(CheckInItem, c, v) = Apply(CheckInItem, Plain[c], v)
    BY <2>1 DEF Rejection
  <2>3. PICK m : /\ Apply(CheckInItem, Plain[c], v) = Ok(Obj(m))
                 /\ Apply(CheckInItem, Plain[c], Obj(m)) = Ok(Obj(m))
                 /\ Follows(v, Obj(m))
    BY <2>2, ItemApplies
  <2>4. CheckOne(CheckInItem, c, Obj(m)) = Apply(CheckInItem, Plain[c], Obj(m))
    BY <2>1 DEF Obj
  <2> QED
    BY <2>2, <2>3, <2>4
<1>3. CASE c \notin DOMAIN Typed /\ c \notin DOMAIN Plain
  <2>1. \A u : CheckOne(CheckInItem, c, u) = CheckLeaf(c, u)
    BY <1>3 DEF CheckOne
  <2> QED
    BY <2>1, LeafKeeps
<1> QED
  BY <1>1, <1>2, <1>3

LEMMA ItemEach ==
  ASSUME NEW c, NEW v, CheckEach(CheckInItem, c, v).ok
  PROVE  \E s : /\ v.t = "array"
                /\ CheckEach(CheckInItem, c, v) = Ok(Arr(s))
                /\ CheckEach(CheckInItem, c, Arr(s)) = Ok(Arr(s))
                /\ Follows(v, Arr(s))
                /\ DOMAIN s = DOMAIN v.items
                /\ \A i \in DOMAIN s : CheckOne(CheckInItem, c, v.items[i]) = Ok(s[i])
PROOF
<1> DEFINE Results(a) == [i \in DOMAIN a.items |-> CheckOne(CheckInItem, c, a.items[i])]
           R == Results(v)
           s == [i \in DOMAIN R |-> R[i].value]
<1>1. v.t = "array" /\ CheckEach(CheckInItem, c, v) = Collected(R)
  BY DEF CheckEach, Rejection
<1>2. DOMAIN R = DOMAIN v.items /\ DOMAIN s = DOMAIN v.items
  OBVIOUS
<1>3. Collected(R) = Ok(Arr(s)) /\ \A i \in DOMAIN R : R[i].ok
  <2> HIDE DEF R
  <2> QED
    BY <1>1, CollectedOk
<1>4. ASSUME NEW i \in DOMAIN s
      PROVE  /\ CheckOne(CheckInItem, c, v.items[i]) = Ok(s[i])
             /\ CheckOne(CheckInItem, c, s[i]) = Ok(s[i])
             /\ Follows(v.items[i], s[i])
  <2>1. R[i] = CheckOne(CheckInItem, c, v.items[i]) /\ R[i].ok /\ s[i] = R[i].value
    BY <1>2, <1>3
  <2>2. PICK w : /\ CheckOne(CheckInItem, c, v.items[i]) = Ok(w)
                 /\ CheckOne(CheckInItem, c, w) = Ok(w)
                 /\ Follows(v.items[i], w)
    BY <2>1, ItemOne
  <2>3. s[i] = w
    BY <2>1, <2>2 DEF Ok
  <2> QED
    BY <2>2, <2>3
<1> HIDE DEF s, R
<1>5. Follows(v, Arr(s))
  <2>1. Parts(Arr(s)) = {s[i] : i \in DOMAIN s}
    BY DEF Parts, Arr
  <2>2. Parts(v) = {v.items[i] : i \in DOMAIN v.items}
    BY <1>1 DEF Parts
  <2>3. Like(Arr(s), v)
    BY <1>1 DEF Like, Arr
  <2>4. \A p \in Parts(Arr(s)) : \E q \in Parts(v) : Follows(q, p)
    BY <1>2, <1>4, <2>1, <2>2
  <2> QED
    BY <2>3, <2>4, FollowsByParts
<1>6. CheckEach(CheckInItem, c, Arr(s)) = Ok(Arr(s))
  <2> DEFINE S == Results(Arr(s))
  <2>1. Arr(s).t = "array" /\ Arr(s).items = s
    BY DEF Arr
  <2>2. DOMAIN S = DOMAIN s /\ \A i \in DOMAIN S : S[i] = Ok(s[i])
    BY <1>4, <2>1
  <2>3. CheckEach(CheckInItem, c, Arr(s)) = Collected(S)
    BY <2>1 DEF CheckEach
  <2> HIDE DEF S
  <2>4. s = [i \in DOMAIN S |-> S[i].value]
    <3>1. s = [i \in DOMAIN s |-> s[i]]
      BY DEF s
    <3>2. \A i \in DOMAIN s : S[i].value = s[i]
      BY <2>2 DEF Ok
    <3>3. [i \in DOMAIN s |-> s[i]] = [i \in DOMAIN s |-> S[i].value]
      BY <3>2
    <3> QED
      BY <2>2, <3>1, <3>3, Zenon
  <2>5. \A i \in DOMAIN S : S[i].ok
    BY <2>2 DEF Ok
  <2>6. Collected(S) = Ok(Arr(s))
    BY <2>4, <2>5, CollectedOf
  <2> QED
    BY <2>3, <2>6
<1> QED
  BY <1>1, <1>2, <1>3, <1>4, <1>5, <1>6

LEMMA RequestKeeps ==
  \A c, v : CheckInRequest(c, v).ok => \E w : CheckInRequest(c, v) = Ok(w) /\ CheckInRequest(c, w) = Ok(w) /\ Follows(v, w)
PROOF
<1>1. SUFFICES ASSUME NEW c, NEW v, CheckInRequest(c, v).ok
               PROVE  \E w : CheckInRequest(c, v) = Ok(w) /\ CheckInRequest(c, w) = Ok(w) /\ Follows(v, w)
  OBVIOUS
<1>2. CASE c \in DOMAIN ArrayOf
  <2>1. \A u : CheckInRequest(c, u) = CheckEach(CheckInItem, ArrayOf[c], u)
    BY <1>2, Disjoint DEF CheckInRequest, CheckIn
  <2> QED
    BY <1>1, <2>1, ItemEach
<1>3. CASE c \notin DOMAIN ArrayOf /\ c \in DOMAIN StringOrArrayOf
  <2>1. \A u : CheckInRequest(c, u) = IF u.t = "string" THEN Ok(u)
                          ELSE CheckEach(CheckInItem, StringOrArrayOf[c], u)
    BY <1>3, Disjoint DEF CheckInRequest, CheckIn
  <2>2. CASE v.t = "string"
    BY <2>1, <2>2, FollowsItself
  <2>3. CASE v.t # "string"
    <3>1. PICK s : /\ CheckEach(CheckInItem, StringOrArrayOf[c], v) = Ok(Arr(s))
                   /\ CheckEach(CheckInItem, StringOrArrayOf[c], Arr(s)) = Ok(Arr(s))
                   /\ Follows(v, Arr(s))
      BY <1>1, <2>1, <2>3, ItemEach
    <3>2. CheckInRequest(c, Arr(s)) = CheckEach(CheckInItem, StringOrArrayOf[c], Arr(s))
      BY <2>1 DEF Arr
    <3> QED
      BY <2>1, <2>3, <3>1, <3>2
  <2> QED
    BY <2>2, <2>3
<1>4. CASE c \notin DOMAIN ArrayOf /\ c \notin DOMAIN StringOrArrayOf /\ c = "tool_choice"
  <2>1. \A u : CheckInRequest(c, u) = IF u.t = "string" THEN CheckLeaf("choice", u)
                          ELSE CheckTyped(CheckInItem, "named_choice", u)
    BY <1>4 DEF CheckInRequest, CheckIn
  <2>2. CASE v.t = "string"
    <3>1. CheckInRequest(c, v) = CheckLeaf("choice", v)
      BY <2>1, <2>2
    <3>2. CheckLeaf("choice", v) = Ok(v)
      BY <1>1, <3>1 DEF CheckLeaf, Rejection
    <3> QED
      BY <3>1, <3>2, FollowsItself
  <2>3. CASE v.t # "string"
    <3>1. "named_choice" \in DOMAIN Typed
      BY Places
    <3>2. PICK m : /\ CheckTyped(CheckInItem, "named_choice", v) = Ok(Obj(m))
                   /\ CheckTyped(CheckInItem, "named_choice", Obj(m)) = Ok(Obj(m))
                   /\ Follows(v, Obj(m))
      BY <1>1, <2>1, <2>3, <3>1, ItemTyped
    <3>3. CheckInRequest(c, Obj(m)) = CheckTyped(CheckInItem, "named_choice", Obj(m))
      BY <2>1 DEF Obj
    <3> QED
      BY <2>1, <2>3, <3>2, <3>3
  <2> QED
    BY <2>2, <2>3
<1>5. CASE c \notin DOMAIN ArrayOf /\ c \notin DOMAIN StringOrArrayOf /\ c # "tool_choice"
  <2>1. \A u : CheckInRequest(c, u) = CheckOne(CheckInItem, c, u)
    BY <1>5 DEF CheckInRequest, CheckIn
  <2> QED
    BY <1>1, <2>1, ItemOne
<1> QED
  BY <1>2, <1>3, <1>4, <1>5
-----------------------------------------------------------------------------
(* The layer of the fields of the request.                                 *)

RequestGives(c, v, w) == CheckInRequest(c, v) = Ok(w)

LEMMA RequestApplies ==
  ASSUME NEW shape, NEW object, object.t = "object",
         Apply(CheckInRequest, shape, object).ok
  PROVE  \E m :
           /\ m = [k \in DOMAIN m |-> m[k]]
           /\ Apply(CheckInRequest, shape, object) = Ok(Obj(m))
           /\ Apply(CheckInRequest, shape, Obj(m)) = Ok(Obj(m))
           /\ Follows(object, Obj(m))
           /\ DOMAIN m = Keys(object) \cap DOMAIN shape.keep
           /\ shape.required \subseteq DOMAIN m
           /\ \A k \in DOMAIN m : RequestGives(shape.keep[k], object.members[k], m[k])
PROOF
<1> DEFINE Results(o) ==
             [k \in Keys(o) |->
                IF k \in DOMAIN shape.keep THEN CheckInRequest(shape.keep[k], o.members[k])
                ELSE IF k \in DOMAIN shape.drop THEN CheckInRequest(shape.drop[k], o.members[k])
                ELSE Rejection({"unsupported_parameter"})]
           R == Results(object)
           m == [k \in DOMAIN R \cap DOMAIN shape.keep |-> R[k].value]
<1>1. /\ Apply(CheckInRequest, shape, object) = Normalized(shape, R)
      /\ Apply(CheckInRequest, shape, Obj(m)) = Normalized(shape, Results(Obj(m)))
  BY DEF Apply
<1>2. DOMAIN R = Keys(object) /\ DOMAIN m = Keys(object) \cap DOMAIN shape.keep
  OBVIOUS
<1>3. /\ Normalized(shape, R) = Ok(Obj(m))
      /\ shape.required \subseteq DOMAIN m
      /\ \A k \in DOMAIN R : R[k].ok
  <2> HIDE DEF R
  <2> QED
    BY <1>1, NormalizedOk
<1>4. ASSUME NEW k \in DOMAIN m
      PROVE  /\ CheckInRequest(shape.keep[k], object.members[k]) = Ok(m[k])
             /\ CheckInRequest(shape.keep[k], m[k]) = Ok(m[k])
             /\ Follows(object.members[k], m[k])
  <2>1. R[k] = CheckInRequest(shape.keep[k], object.members[k]) /\ R[k].ok /\ m[k] = R[k].value
    BY <1>2, <1>3
  <2>2. PICK w : /\ CheckInRequest(shape.keep[k], object.members[k]) = Ok(w)
                 /\ CheckInRequest(shape.keep[k], w) = Ok(w)
                 /\ Follows(object.members[k], w)
    BY <2>1, RequestKeeps
  <2>3. m[k] = w
    BY <2>1, <2>2 DEF Ok
  <2> QED
    BY <2>2, <2>3
<1>5. Follows(object, Obj(m))
  <2>1. Parts(Obj(m)) = {m[k] : k \in DOMAIN m}
    BY DEF Parts, Obj, Keys
  <2>2. Parts(object) = {object.members[k] : k \in Keys(object)}
    BY DEF Parts
  <2>3. Like(Obj(m), object)
    BY DEF Like, Obj
  <2> HIDE DEF m
  <2>4. \A p \in Parts(Obj(m)) : \E q \in Parts(object) : Follows(q, p)
    BY <1>2, <1>4, <2>1, <2>2
  <2> QED
    BY <2>3, <2>4, FollowsByParts
<1>6. Normalized(shape, Results(Obj(m))) = Ok(Obj(m))
  <2> DEFINE S == Results(Obj(m))
  <2>1. Keys(Obj(m)) = DOMAIN m /\ Obj(m).members = m
    BY DEF Keys, Obj
  <2>2. DOMAIN S = DOMAIN m /\ \A k \in DOMAIN S : S[k] = Ok(m[k])
    <3> HIDE DEF m
    <3> QED
      BY <1>2, <1>4, <2>1
  <2>3. m = [k \in DOMAIN S \cap DOMAIN shape.keep |-> S[k].value]
    <3>1. DOMAIN S \cap DOMAIN shape.keep = DOMAIN m
      BY <1>2, <2>2
    <3>2. m = [k \in DOMAIN m |-> m[k]]
      OBVIOUS
    <3> HIDE DEF m, S
    <3>3. \A k \in DOMAIN m : S[k].value = m[k]
      BY <2>2 DEF Ok
    <3>4. m = [k \in DOMAIN m |-> S[k].value]
      BY <3>2, <3>3, Zenon
    <3> QED
      BY <3>1, <3>4, Zenon
  <2> HIDE DEF S, m
  <2>4. \A k \in DOMAIN S : S[k].ok
    BY <2>2 DEF Ok
  <2>5. Normalized(shape, S) = Ok(Obj(m))
    BY <1>3, <2>3, <2>4, NormalizedOf
  <2> QED
    BY <2>5 DEF S
<1>7. m = [k \in DOMAIN m |-> m[k]]
  OBVIOUS
<1> HIDE DEF m, R
<1>8. \A k \in DOMAIN m : RequestGives(shape.keep[k], object.members[k], m[k])
  BY <1>4 DEF RequestGives
<1> QED
  BY <1>1, <1>2, <1>3, <1>5, <1>6, <1>7, <1>8

-----------------------------------------------------------------------------
(* Fields of the bodies that are made from others, and the outcomes of     *)
(* parsing: an accepted body is its own normal form.                       *)

LEMMA MembersOf ==
  ASSUME NEW m
  PROVE  /\ Keys(Obj(m)) = DOMAIN m
         /\ Obj(m).members = m
         /\ Obj(m).t = "object"
         /\ \A k : Has(Obj(m), k) <=> k \in DOMAIN m
         /\ \A k \in DOMAIN m : Field(Obj(m), k) = m[k]
         /\ \A k : k \notin DOMAIN m => Field(Obj(m), k) = Absent
  BY DEF Keys, Obj, Has, Field

LEMMA OnlyIs ==
  ASSUME NEW m, NEW keys
  PROVE  Only(Obj(m), keys) = Obj([k \in DOMAIN m \cap keys |-> m[k]])
  BY DEF Only, Keys, Obj

LEMMA FieldOfWith ==
  ASSUME NEW m, NEW key, NEW v, NEW k
  PROVE  Field(With(Obj(m), key, v), k) = IF k = key THEN v ELSE Field(Obj(m), k)
PROOF
<1> DEFINE n == [x \in DOMAIN m \cup {key} |-> IF x = key THEN v ELSE m[x]]
<1>1. With(Obj(m), key, v) = Obj(n) /\ DOMAIN n = DOMAIN m \cup {key}
  BY DEF With, Keys, Obj
<1>2. CASE k \in DOMAIN n
  <2>1. Field(Obj(n), k) = n[k]
    BY <1>2, MembersOf
  <2>2. k # key => Field(Obj(m), k) = m[k]
    BY <1>1, <1>2, MembersOf
  <2> QED
    BY <1>1, <1>2, <2>1, <2>2
<1>3. CASE k \notin DOMAIN n
  <2>1. Field(Obj(n), k) = Absent /\ Field(Obj(m), k) = Absent /\ k # key
    BY <1>1, <1>3, MembersOf
  <2> QED
    BY <1>1, <2>1
<1> QED
  BY <1>2, <1>3

LEMMA FieldOfOnly ==
  ASSUME NEW m, NEW keys, NEW k
  PROVE  Field(Only(Obj(m), keys), k) = IF k \in keys THEN Field(Obj(m), k) ELSE Absent
PROOF
<1> DEFINE n == [x \in DOMAIN m \cap keys |-> m[x]]
<1>1. Only(Obj(m), keys) = Obj(n) /\ DOMAIN n = DOMAIN m \cap keys
  BY OnlyIs
<1>2. CASE k \in DOMAIN n
  BY <1>1, <1>2, MembersOf
<1>3. CASE k \notin DOMAIN n
  <2>1. Field(Obj(n), k) = Absent
    BY <1>3, MembersOf
  <2>2. k \in keys => Field(Obj(m), k) = Absent
    BY <1>1, <1>3, MembersOf
  <2> QED
    BY <1>1, <2>1, <2>2
<1> QED
  BY <1>2, <1>3

LEMMA StrictlyOk ==
  ASSUME NEW v
  PROVE  /\ ParseStrict(v).ok => ParseStrict(v) = Ok(v) /\ ~TooDeep(v) /\ NoDuplicates(v) /\ v # Garbage
         /\ ~TooDeep(v) /\ NoDuplicates(v) /\ v # Garbage => ParseStrict(v) = Ok(v)
PROOF
<1> DEFINE codes == {code \in {"invalid_json", "duplicate_key"} :
                  IF code = "invalid_json" THEN v = Garbage \/ TooDeep(v)
                                           ELSE ~NoDuplicates(v)}
<1>1. ParseStrict(v) = IF codes = {} THEN Ok(v) ELSE Rejection(codes)
  BY DEF ParseStrict
<1>2. codes = {} <=> ~TooDeep(v) /\ NoDuplicates(v) /\ v # Garbage
  OBVIOUS
<1> QED
  BY <1>1, <1>2 DEF Ok, Rejection

LEMMA RequestFields ==
  /\ {"stream", "background", "store", "service_tier"} \cap DOMAIN RequestShape.keep = {}
  /\ {"stream", "background", "store", "service_tier"} \subseteq DOMAIN RequestShape.drop
  /\ RequestShape.drop["stream"] = "anything"
  /\ RequestShape.required = {}
  BY DEF RequestShape, Shape

LEMMA Anything == \A v : CheckInRequest("anything", v) = Ok(v)
PROOF
<1>1. /\ "anything" \notin DOMAIN Typed /\ "anything" \notin DOMAIN Plain
      /\ "anything" \notin DOMAIN ArrayOf /\ "anything" \notin DOMAIN StringOrArrayOf
  BY Places DEF Plain, ArrayOf, StringOrArrayOf
<1>2. \A v : CheckInRequest("anything", v) = CheckLeaf("anything", v)
  BY <1>1 DEF CheckInRequest, CheckIn, CheckOne
<1> QED
  BY <1>2 DEF CheckLeaf, Accepts

\* The outcomes of parsing, one by one.
LEMMA ParseIs ==
  ASSUME NEW d
  PROVE  LET strict == ParseStrict(d)
             accepted == Apply(CheckInRequest, RequestShape, d)
             stream == Field(d, "stream")
         IN  /\ ~strict.ok => Parse(d) = strict
             /\ strict.ok /\ d.t # "object" => Parse(d) = Rejection({"invalid_json"})
             /\ strict.ok /\ d.t = "object" =>
                  /\ ~accepted.ok => Parse(d) = accepted
                  /\ accepted.ok /\ stream = Absent =>
                       Parse(d) = Rejection({"missing_required_parameter"})
                  /\ accepted.ok /\ stream \notin {Absent, Bool(TRUE)} =>
                       Parse(d) = Rejection({"invalid_value"})
                  /\ accepted.ok /\ stream = Bool(TRUE) =>
                       Parse(d) = IF {"model", "input"} \subseteq Keys(accepted.value)
                                  THEN accepted
                                  ELSE Rejection({"missing_required_parameter"})
PROOF
<1> DEFINE strict == ParseStrict(d)
           accepted == Apply(CheckInRequest, RequestShape, d)
           stream == Field(d, "stream")
<1>1. Parse(d) =
          CASE ~strict.ok -> strict
            [] strict.ok /\ d.t # "object" -> Rejection({"invalid_json"})
            [] OTHER ->
                 CASE ~accepted.ok -> accepted
                   [] accepted.ok /\ stream = Absent -> Rejection({"missing_required_parameter"})
                   [] accepted.ok /\ stream \notin {Absent, Bool(TRUE)} ->
                        Rejection({"invalid_value"})
                   [] OTHER -> IF {"model", "input"} \subseteq Keys(accepted.value)
                               THEN accepted
                               ELSE Rejection({"missing_required_parameter"})
  BY DEF Parse
<1>2. Bool(TRUE) # Absent
  BY DEF Bool, Absent
<1> HIDE DEF strict, accepted, stream
<1>3. /\ ~strict.ok => Parse(d) = strict
      /\ strict.ok /\ d.t # "object" => Parse(d) = Rejection({"invalid_json"})
  BY <1>1
<1>4. ASSUME strict.ok, d.t = "object"
      PROVE  /\ ~accepted.ok => Parse(d) = accepted
             /\ accepted.ok /\ stream = Absent =>
                  Parse(d) = Rejection({"missing_required_parameter"})
             /\ accepted.ok /\ stream \notin {Absent, Bool(TRUE)} =>
                  Parse(d) = Rejection({"invalid_value"})
             /\ accepted.ok /\ stream = Bool(TRUE) =>
                  Parse(d) = IF {"model", "input"} \subseteq Keys(accepted.value)
                             THEN accepted
                             ELSE Rejection({"missing_required_parameter"})
  BY <1>1, <1>2, <1>4
<1> QED
  BY <1>3, <1>4 DEF strict, accepted, stream

Streamed(m) == With(Obj(m), "stream", Bool(TRUE))

\* What parsing makes of a body it accepts.
NormalForm(d, m) ==
  /\ m = [k \in DOMAIN m |-> m[k]]
  /\ d.t = "object"
  /\ ~TooDeep(d) /\ NoDuplicates(d)
  /\ Follows(d, Streamed(m))
  /\ DOMAIN m = Keys(d) \cap DOMAIN RequestShape.keep
  /\ {"model", "input"} \subseteq DOMAIN m
  /\ \A k \in DOMAIN m : RequestGives(RequestShape.keep[k], d.members[k], m[k])

LEMMA ParseGives ==
  ASSUME NEW d, Parse(d).ok
  PROVE  \E m : Parse(d) = Ok(Obj(m)) /\ NormalForm(d, m)
PROOF
<1> DEFINE strict == ParseStrict(d)
           accepted == Apply(CheckInRequest, RequestShape, d)
           stream == Field(d, "stream")
<1> HIDE DEF strict, accepted, stream
<1>1. /\ strict.ok /\ d.t = "object" /\ accepted.ok /\ stream = Bool(TRUE)
      /\ {"model", "input"} \subseteq Keys(accepted.value)
      /\ Parse(d) = accepted
  <2>1. /\ ~strict.ok => Parse(d) = strict
        /\ strict.ok /\ d.t # "object" => Parse(d) = Rejection({"invalid_json"})
        /\ strict.ok /\ d.t = "object" =>
             /\ ~accepted.ok => Parse(d) = accepted
             /\ accepted.ok /\ stream = Absent =>
                  Parse(d) = Rejection({"missing_required_parameter"})
             /\ accepted.ok /\ stream \notin {Absent, Bool(TRUE)} =>
                  Parse(d) = Rejection({"invalid_value"})
             /\ accepted.ok /\ stream = Bool(TRUE) =>
                  Parse(d) = IF {"model", "input"} \subseteq Keys(accepted.value)
                             THEN accepted
                             ELSE Rejection({"missing_required_parameter"})
    BY ParseIs DEF strict, accepted, stream
  <2>2. \A codes : ~Rejection(codes).ok
    BY DEF Rejection
  <2>3. strict.ok
    BY <2>1
  <2>4. d.t = "object"
    BY <2>1, <2>2, <2>3
  <2>5. accepted.ok
    BY <2>1, <2>3, <2>4
  <2>6. stream = Bool(TRUE)
    BY <2>1, <2>2, <2>3, <2>4, <2>5
  <2>7. {"model", "input"} \subseteq Keys(accepted.value)
    BY <2>1, <2>2, <2>3, <2>4, <2>5, <2>6
  <2> QED
    BY <2>1, <2>3, <2>4, <2>5, <2>6, <2>7
<1>2. ~TooDeep(d) /\ NoDuplicates(d)
  BY <1>1, StrictlyOk DEF strict
<1>3. PICK m : /\ m = [k \in DOMAIN m |-> m[k]]
               /\ accepted = Ok(Obj(m))
               /\ DOMAIN m = Keys(d) \cap DOMAIN RequestShape.keep
               /\ \A k \in DOMAIN m : RequestGives(RequestShape.keep[k], d.members[k], m[k])
  BY <1>1, RequestApplies DEF accepted
<1>4. {"model", "input"} \subseteq DOMAIN m
  BY <1>1, <1>3, MembersOf DEF Ok
<1>5. Follows(d, Streamed(m))
  <2> DEFINE n == [k \in DOMAIN m \cup {"stream"} |-> IF k = "stream" THEN Bool(TRUE) ELSE m[k]]
  <2>1. Streamed(m) = Obj(n)
    BY DEF Streamed, With, Keys, Obj
  <2>2. "stream" \in Keys(d) /\ d.members["stream"] = Bool(TRUE)
    BY <1>1 DEF stream, Field, Has, Absent, Bool
  <2>3. ASSUME NEW k \in DOMAIN n PROVE k \in Keys(d) /\ Follows(d.members[k], n[k])
    <3>1. CASE k = "stream"
      BY <2>2, <3>1, FollowsItself
    <3>2. CASE k # "stream"
      <4>1. k \in DOMAIN m /\ n[k] = m[k] /\ k \in Keys(d)
        BY <1>3, <3>2
      <4>2. CheckInRequest(RequestShape.keep[k], d.members[k]) = Ok(m[k])
        BY <1>3, <4>1 DEF RequestGives
      <4>3. PICK w : /\ CheckInRequest(RequestShape.keep[k], d.members[k]) = Ok(w)
                     /\ Follows(d.members[k], w)
        <5>1. CheckInRequest(RequestShape.keep[k], d.members[k]).ok
          BY <4>2 DEF Ok
        <5> QED
          BY <5>1, RequestKeeps
      <4>4. w = m[k]
        BY <4>2, <4>3 DEF Ok
      <4> QED
        BY <4>1, <4>3, <4>4
    <3> QED
      BY <3>1, <3>2
  <2> HIDE DEF n
  <2>4. Parts(Obj(n)) = {n[k] : k \in DOMAIN n}
    BY DEF Parts, Obj, Keys
  <2>5. Parts(d) = {d.members[k] : k \in Keys(d)}
    BY <1>1 DEF Parts
  <2>6. Like(Obj(n), d)
    BY <1>1 DEF Like, Obj
  <2>7. \A p \in Parts(Obj(n)) : \E q \in Parts(d) : Follows(q, p)
    BY <2>3, <2>4, <2>5
  <2> QED
    BY <2>1, <2>6, <2>7, FollowsByParts
<1> QED
  BY <1>1, <1>2, <1>3, <1>4, <1>5 DEF NormalForm

LEMMA ParseAgain ==
  ASSUME NEW d, NEW m, NormalForm(d, m)
  PROVE  Parse(Streamed(m)) = Ok(Obj(m))
PROOF
<1> DEFINE body == Streamed(m)
           n == [k \in DOMAIN m \cup {"stream"} |-> IF k = "stream" THEN Bool(TRUE) ELSE m[k]]
           S == [k \in Keys(body) |->
                   IF k \in DOMAIN RequestShape.keep THEN CheckInRequest(RequestShape.keep[k], body.members[k])
                   ELSE IF k \in DOMAIN RequestShape.drop THEN CheckInRequest(RequestShape.drop[k], body.members[k])
                   ELSE Rejection({"unsupported_parameter"})]
<1>1. body = Obj(n) /\ DOMAIN n = DOMAIN m \cup {"stream"}
  BY DEF Streamed, With, Keys, Obj
<1>2. Keys(body) = DOMAIN n /\ body.members = n /\ body.t = "object"
  BY <1>1, MembersOf
<1>3. /\ "stream" \notin DOMAIN m
      /\ DOMAIN m \subseteq DOMAIN RequestShape.keep
  BY RequestFields DEF NormalForm
<1>4. \A k \in DOMAIN m : CheckInRequest(RequestShape.keep[k], m[k]) = Ok(m[k])
  <2>1. SUFFICES ASSUME NEW k \in DOMAIN m
                 PROVE  CheckInRequest(RequestShape.keep[k], m[k]) = Ok(m[k])
    OBVIOUS
  <2>2. CheckInRequest(RequestShape.keep[k], d.members[k]) = Ok(m[k])
    BY DEF NormalForm, RequestGives
  <2>3. PICK w : /\ CheckInRequest(RequestShape.keep[k], d.members[k]) = Ok(w)
                 /\ CheckInRequest(RequestShape.keep[k], w) = Ok(w)
    <3>1. CheckInRequest(RequestShape.keep[k], d.members[k]).ok
      BY <2>2 DEF Ok
    <3> QED
      BY <3>1, RequestKeeps
  <2>4. w = m[k]
    BY <2>2, <2>3 DEF Ok
  <2> QED
    BY <2>3, <2>4
<1>5. /\ \A k \in DOMAIN m : S[k] = Ok(m[k])
      /\ S["stream"] = Ok(Bool(TRUE))
      /\ DOMAIN S = DOMAIN m \cup {"stream"}
  <2>1. DOMAIN S = DOMAIN m \cup {"stream"}
    BY <1>1, <1>2
  <2>2. ASSUME NEW k \in DOMAIN m PROVE S[k] = Ok(m[k])
    <3>1. k \in Keys(body) /\ k \in DOMAIN RequestShape.keep /\ body.members[k] = m[k]
      BY <1>1, <1>2, <1>3
    <3> QED
      BY <1>4, <3>1
  <2>3. S["stream"] = Ok(Bool(TRUE))
    <3>1. "stream" \in Keys(body) /\ body.members["stream"] = Bool(TRUE)
      BY <1>1, <1>2
    <3> QED
      BY <3>1, RequestFields, Anything
  <2> QED
    BY <2>1, <2>2, <2>3
<1> DEFINE accepted == Apply(CheckInRequest, RequestShape, body)
<1>6. accepted = Normalized(RequestShape, S)
  BY DEF Apply
<1> HIDE DEF S, accepted, body
<1>7. accepted = Ok(Obj(m))
  <2>1. m = [k \in DOMAIN S \cap DOMAIN RequestShape.keep |-> S[k].value]
    <3>1. DOMAIN S \cap DOMAIN RequestShape.keep = DOMAIN m
      BY <1>3, <1>5, RequestFields
    <3>2. \A k \in DOMAIN m : S[k].value = m[k]
      BY <1>5 DEF Ok
    <3>3. m = [k \in DOMAIN m |-> S[k].value]
      BY <3>2, Zenon DEF NormalForm
    <3> QED
      BY <3>1, <3>3, Zenon
  <2>2. \A k \in DOMAIN S : S[k].ok
    BY <1>5 DEF Ok
  <2>3. RequestShape.required \subseteq DOMAIN m
    BY RequestFields
  <2>4. Normalized(RequestShape, S) = Ok(Obj(m))
    BY <2>1, <2>2, <2>3, NormalizedOf
  <2> QED
    BY <1>6, <2>4
<1>8. ParseStrict(body) = Ok(body)
  <2>1. body # Garbage
    BY <1>2 DEF Garbage
  <2>2. ~TooDeep(body) /\ NoDuplicates(body)
    BY FollowsStrictly DEF NormalForm, body
  <2> QED
    BY <2>1, <2>2, StrictlyOk
<1>9. Field(body, "stream") = Bool(TRUE)
  BY <1>1, <1>2 DEF Field, Has
<1>10. {"model", "input"} \subseteq Keys(accepted.value)
  BY <1>7, MembersOf DEF NormalForm, Ok
<1>11. ParseStrict(body).ok /\ accepted.ok
  BY <1>7, <1>8 DEF Ok
<1>12. Parse(body) = accepted
  BY <1>2, <1>9, <1>10, <1>11, ParseIs DEF accepted
<1> QED
  BY <1>7, <1>12 DEF body

-----------------------------------------------------------------------------
(* Count bodies: the fields a counter sees, and that a valid choice of a   *)
(* tool stays valid in each.                                               *)

LEMMA CountedFields ==
  ASSUME NEW m, NEW k
  PROVE  Field(Counted(Obj(m)), k)
           = IF k \in {"model", "instructions", "input", "tools", "tool_choice",
                       "parallel_tool_calls", "reasoning", "text"}
             THEN Field(Obj(m), k) ELSE Absent
  BY FieldOfOnly DEF Counted

LEMMA CountableByFields ==
  ASSUME NEW a, NEW b, Countable(a),
         \A k \in {"tool_choice", "tools", "input"} : Field(b, k) = Field(a, k)
  PROVE  Countable(b)
  BY DEF Countable, Declared, Declaring, ToolsAt

LEMMA CountBodiesValid ==
  ASSUME NEW m, Countable(Obj(m)), NEW i \in DOMAIN CountBodies(Obj(m))
  PROVE  Countable(CountBodies(Obj(m))[i])
PROOF
<1> DEFINE fs == Obj(m)
           named == IF Field(fs, "tool_choice").t = "object" THEN {"tool_choice"} ELSE {}
<1>1. CountBodies(fs)[i] = IF i = 0 THEN Counted(fs) ELSE Without(Hoisted(fs, i), named)
  BY DEF CountBodies
<1>2. CASE i = 0
  <2>1. \A k \in {"tool_choice", "tools", "input"} : Field(Counted(fs), k) = Field(fs, k)
    BY CountedFields
  <2> QED
    BY <1>1, <1>2, <2>1, CountableByFields
<1>3. CASE i # 0
  <2>1. PICK n : Hoisted(fs, i) = Obj(n)
    BY DEF Hoisted, With
  <2>2. Field(Hoisted(fs, i), "tool_choice") = Field(fs, "tool_choice")
    <3>1. PICK c : Counted(fs) = Obj(c)
      BY DEF Counted, Only
    <3>2. PICK d : With(Counted(fs), "input", Arr(Remaining(fs))) = Obj(d)
      BY DEF With
    <3>3. Field(Hoisted(fs, i), "tool_choice") = Field(Obj(d), "tool_choice")
      BY <3>2, FieldOfWith DEF Hoisted
    <3>4. Field(Obj(d), "tool_choice") = Field(Obj(c), "tool_choice")
      BY <3>1, <3>2, FieldOfWith
    <3> QED
      BY <3>1, <3>3, <3>4, CountedFields
  <2>3. Field(Without(Obj(n), named), "tool_choice")
          = IF "tool_choice" \in Keys(Obj(n)) \ named THEN Field(Obj(n), "tool_choice") ELSE Absent
    BY FieldOfOnly DEF Without
  <2>4. Field(Without(Obj(n), named), "tool_choice").t # "object"
    <3>1. Absent.t = "absent"
      BY DEF Absent
    <3> QED
      BY <2>1, <2>2, <2>3, <3>1
  <2> QED
    BY <1>1, <1>3, <2>1, <2>4 DEF Countable
<1> QED
  BY <1>2, <1>3

-----------------------------------------------------------------------------
(* The inductive invariant.                                                *)

Steps == {"received", "parsed", "counting", "reserve", "dispatch", "second", "refused", "done"}
Early == {"received", "parsed", "counting", "reserve", "dispatch"}
Configured == Model(fields) \in DOMAIN Catalog

\* What is worked on is what parsing made of the document.
Accepted ==
  /\ Parse(document).ok
  /\ fields = Parse(document).value

ProgressInv ==
  /\ document \in Documents
  /\ pc \in Steps
  /\ pc \notin {"received", "done"} => Accepted
  /\ pc \in {"counting", "reserve", "dispatch"} => Configured
  /\ pc = "second" => outcome \in Shortage \cup {"held_back"}

\* What left is made of it, and went to one of the two.
SentInv ==
  /\ DOMAIN sent = {"openai", "openrouter"}
  /\ pc \in Early => ~Left("openai") /\ ~Left("openrouter")
  /\ Left("openai") =>
       /\ pc = "done" /\ Accepted /\ Configured
       /\ Body("openai") = OpenAiBody(fields, Background(Model(fields), Cap(fields)))
  /\ Left("openrouter") =>
       /\ pc \in {"refused", "done"} /\ Accepted
       /\ ~Left("openai")
       /\ outcome \in Shortage \cup {"held_back"}
       /\ Route # NoModel
       /\ Body("openrouter") = OpenRouterBody(fields, Route.id)
  /\ pc \in {"second", "refused"} => ~Left("openai")
  /\ pc = "second" => ~Left("openrouter")

\* What is still to be counted is some of the count bodies.
CountingInv ==
  pc = "counting" =>
    /\ DOMAIN toCount \subseteq DOMAIN CountBodies(fields)
    /\ \A i \in DOMAIN toCount : toCount[i] = CountBodies(fields)[i]

IInv == ProgressInv /\ SentInv /\ CountingInv

LEMMA InitInv == Init => IInv
  BY DEF Init, IInv, ProgressInv, SentInv, CountingInv, Steps, Early, Left, Unsent, Absent

LEMMA NextProgress == IInv /\ [Next]_vars => ProgressInv'
PROOF
<1> SUFFICES ASSUME IInv, [Next]_vars PROVE ProgressInv'
  OBVIOUS
<1> USE DEF IInv, ProgressInv, Steps, Accepted, Configured, Shortage, Refusals,
            request, bound, answers, Answer, Refuse
<1>1. CASE ParseBody
  BY <1>1 DEF ParseBody
<1>2. CASE Unready \/ Unconfigured \/ WindowClosed
  BY <1>2 DEF Unready, Unconfigured, WindowClosed
<1>3. CASE Estimate
  BY <1>3 DEF Estimate
<1>4. CASE CountOne \/ CounterFails \/ Bound
  BY <1>4 DEF CountOne, CounterFails, Bound
<1>5. CASE NotReserved \/ Reserved \/ HeldBack \/ Aborted \/ Sent
  BY <1>5 DEF NotReserved, Reserved, HeldBack, Aborted, Sent
<1>6. CASE SecondUnavailable \/ SecondSent \/ Refused
  BY <1>6 DEF SecondUnavailable, SecondSent, Refused
<1>7. CASE UNCHANGED vars
  BY <1>7 DEF vars
<1> QED
  BY <1>1, <1>2, <1>3, <1>4, <1>5, <1>6, <1>7 DEF Next

LEMMA NextSent == IInv /\ [Next]_vars => SentInv'
PROOF
<1> SUFFICES ASSUME IInv, [Next]_vars PROVE SentInv'
  OBVIOUS
<1> USE DEF IInv, ProgressInv, SentInv, Steps, Early, Accepted, Configured, Left, Body,
            Route, request, bound, answers, Answer, Refuse
<1>1. CASE ParseBody
  BY <1>1 DEF ParseBody
<1>2. CASE Unready \/ Unconfigured \/ WindowClosed
  BY <1>2 DEF Unready, Unconfigured, WindowClosed
<1>3. CASE Estimate
  BY <1>3 DEF Estimate
<1>4. CASE CountOne \/ CounterFails \/ Bound
  BY <1>4 DEF CountOne, CounterFails, Bound
<1>5. CASE NotReserved \/ Reserved \/ HeldBack \/ Aborted
  BY <1>5 DEF NotReserved, Reserved, HeldBack, Aborted
<1>6. CASE Sent
  BY <1>6 DEF Sent
<1>7. CASE SecondUnavailable \/ Refused
  BY <1>7 DEF SecondUnavailable, Refused
<1>8. CASE SecondSent
  BY <1>8 DEF SecondSent
<1>9. CASE UNCHANGED vars
  BY <1>9 DEF vars
<1> QED
  BY <1>1, <1>2, <1>3, <1>4, <1>5, <1>6, <1>7, <1>8, <1>9 DEF Next

LEMMA NextCounting == IInv /\ [Next]_vars => CountingInv'
PROOF
<1> SUFFICES ASSUME IInv, [Next]_vars PROVE CountingInv'
  OBVIOUS
<1> USE DEF IInv, CountingInv, request, bound, answers, Answer, Refuse
<1>1. CASE ParseBody \/ Unready \/ Unconfigured \/ WindowClosed
  BY <1>1 DEF ParseBody, Unready, Unconfigured, WindowClosed
<1>2. CASE Estimate
  BY <1>2 DEF Estimate
<1>3. CASE CountOne
  BY <1>3 DEF CountOne
<1>4. CASE CounterFails \/ Bound
  BY <1>4 DEF CounterFails, Bound
<1>5. CASE NotReserved \/ Reserved \/ HeldBack \/ Aborted \/ Sent
  BY <1>5 DEF NotReserved, Reserved, HeldBack, Aborted, Sent
<1>6. CASE SecondUnavailable \/ SecondSent \/ Refused
  BY <1>6 DEF SecondUnavailable, SecondSent, Refused
<1>7. CASE UNCHANGED vars
  BY <1>7 DEF vars
<1> QED
  BY <1>1, <1>2, <1>3, <1>4, <1>5, <1>6, <1>7 DEF Next

\* Whatever happens to a request, what left is made of the normal form of its
\* document, and what is still to be counted is among its count bodies.
THEOREM InvHolds == Spec => []IInv
PROOF
<1>1. IInv /\ [Next]_vars => IInv'
  BY NextProgress, NextSent, NextCounting DEF IInv
<1> QED
  BY InitInv, <1>1, PTL DEF Spec

\* The invariants of the runs follow from it.
LEMMA CountsValid == IInv => CountBodiesAreValid
PROOF
<1>1. SUFFICES ASSUME IInv, pc = "counting", Countable(fields), NEW i \in DOMAIN toCount
               PROVE  Countable(toCount[i])
  BY DEF CountBodiesAreValid
<1>2. PICK m : Parse(document) = Ok(Obj(m))
  BY <1>1, ParseGives DEF IInv, ProgressInv, Accepted
<1>3. fields = Obj(m)
  BY <1>1, <1>2 DEF IInv, ProgressInv, Accepted, Ok
<1>4. i \in DOMAIN CountBodies(fields) /\ toCount[i] = CountBodies(fields)[i]
  BY <1>1 DEF IInv, CountingInv
<1> QED
  BY <1>1, <1>3, <1>4, CountBodiesValid

LEMMA Stable == IInv => NormalFormIsStable
PROOF
<1>1. SUFFICES ASSUME IInv, pc = "parsed"
               PROVE  Parse(With(fields, "stream", Bool(TRUE))) = Ok(fields)
  BY DEF NormalFormIsStable
<1>2. PICK m : Parse(document) = Ok(Obj(m)) /\ NormalForm(document, m)
  BY <1>1, ParseGives DEF IInv, ProgressInv, Accepted
<1>3. fields = Obj(m)
  BY <1>1, <1>2 DEF IInv, ProgressInv, Accepted, Ok
<1> QED
  BY <1>2, <1>3, ParseAgain DEF Streamed

-----------------------------------------------------------------------------
(* What leaves for the first provider.                                     *)

\* The parts of a document are values.
LEMMA MemberIsValue ==
  ASSUME NEW d \in Documents, d.t = "object", NEW k \in Keys(d)
  PROVE  IsValue(d.members[k])
PROOF
<1>1. d # Garbage
  BY DEF Garbage
<1>2. Below({d})[1] = AllParts({d})
  <2>1. Below({d})[0 + 1] = AllParts(Below({d})[0]) /\ Below({d})[0] = {d}
    BY BelowIs, NestingAssumption
  <2> QED
    BY <2>1
<1>3. d.members[k] \in Parts(d)
  BY DEF Parts
<1>4. d.members[k] \in Below({d})[1]
  BY <1>2, <1>3, AmongParts
<1>5. d.members[k] \in Inside(d)
  BY <1>4, NestingAssumption DEF Inside
<1> QED
  BY <1>1, <1>5, DocumentsAssumption

\* The check of the cap.
LEMMA PositiveInteger ==
  \A u : CheckInRequest("positive_integer", u).ok =>
    CheckInRequest("positive_integer", u) = Ok(u) /\ u.t = "number" /\ u.n > 0
PROOF
<1>1. /\ "positive_integer" \notin DOMAIN Typed /\ "positive_integer" \notin DOMAIN Plain
      /\ "positive_integer" \notin DOMAIN ArrayOf /\ "positive_integer" \notin DOMAIN StringOrArrayOf
  BY Places DEF Plain, ArrayOf, StringOrArrayOf
<1>2. \A v : CheckInRequest("positive_integer", v) = CheckLeaf("positive_integer", v)
  BY <1>1 DEF CheckInRequest, CheckIn, CheckOne
<1> QED
  BY <1>2 DEF CheckLeaf, Accepts, Rejection

\* An accepted cap is a positive number.
LEMMA CapIsNumber ==
  ASSUME NEW d \in Documents, NEW m, NormalForm(d, m)
  PROVE  Cap(Obj(m)) \in Nat \cup {NoCap}
PROOF
<1> DEFINE key == "max_output_tokens"
<1>1. CASE key \notin DOMAIN m
  <2>1. Field(Obj(m), key) = Absent
    BY <1>1, MembersOf
  <2> QED
    BY <2>1 DEF Cap
<1>2. CASE key \in DOMAIN m
  <2>1. RequestShape.keep[key] = "positive_integer"
    BY DEF RequestShape, Shape
  <2>2. CheckInRequest("positive_integer", d.members[key]) = Ok(m[key])
    BY <1>2, <2>1 DEF NormalForm, RequestGives
  <2>3. m[key] = d.members[key] /\ m[key].t = "number" /\ m[key].n > 0
    BY <2>2, PositiveInteger DEF Ok
  <2>4. IsValue(m[key])
    BY <1>2, <2>3, MemberIsValue DEF NormalForm
  <2>5. m[key].n \in Int
    BY <2>3, <2>4 DEF IsValue, Null, Bool, Num, Str, Arr, Obj, Repeating
  <2>6. Field(Obj(m), key) = m[key]
    BY <1>2, MembersOf
  <2>7. m[key] # Absent
    BY <2>3 DEF Absent
  <2> QED
    BY <2>3, <2>5, <2>6, <2>7 DEF Cap
<1> QED
  BY <1>1, <1>2

\* FieldOfWith for all keys.
LEMMA FieldsOfWith ==
  \A n, key, v : \A k :
    Field(With(Obj(n), key, v), k) = IF k = key THEN v ELSE Field(Obj(n), k)
BY FieldOfWith

\* The fields of the body that is dispatched.
LEMMA OpenAiFields ==
  ASSUME NEW m, NEW background
  PROVE  /\ Field(OpenAiBody(Obj(m), background), "background") = Bool(background)
         /\ Field(OpenAiBody(Obj(m), background), "store") = Bool(TRUE)
         /\ Field(OpenAiBody(Obj(m), background), "stream") = Bool(TRUE)
         /\ \A k : k \notin {"background", "store", "stream", "service_tier"}
              => Field(OpenAiBody(Obj(m), background), k) = Field(Obj(m), k)
PROOF
<1>9. PICK yes : yes = Bool(TRUE)
  OBVIOUS
<1>0. PICK b1 : b1 = With(Obj(m), "background", Bool(background))
  OBVIOUS
<1>1. PICK b2 : b2 = With(b1, "store", yes)
  OBVIOUS
<1>2. PICK b3 : b3 = With(b2, "stream", yes)
  OBVIOUS
<1>3. OpenAiBody(Obj(m), background) = With(b3, "service_tier", Str("default"))
  BY <1>0, <1>1, <1>2, <1>9 DEF OpenAiBody
<1>4. (\E n : b1 = Obj(n)) /\ (\E n : b2 = Obj(n)) /\ (\E n : b3 = Obj(n))
  BY <1>0, <1>1, <1>2 DEF With
<1>5. \A k : Field(b1, k) = IF k = "background" THEN Bool(background) ELSE Field(Obj(m), k)
  <2>1. \A k : Field(With(Obj(m), "background", Bool(background)), k)
                 = IF k = "background" THEN Bool(background) ELSE Field(Obj(m), k)
    BY FieldsOfWith
  <2> QED
    BY <1>0, <2>1
<1>6. \A k : Field(b2, k) = IF k = "store" THEN yes ELSE Field(b1, k)
  <2>1. PICK n : b1 = Obj(n)
    BY <1>4
  <2>2. \A k : Field(With(Obj(n), "store", yes), k)
                = IF k = "store" THEN yes ELSE Field(Obj(n), k)
    BY FieldsOfWith
  <2> QED
    BY <1>1, <2>1, <2>2
<1>7. \A k : Field(b3, k) = IF k = "stream" THEN yes ELSE Field(b2, k)
  <2>1. PICK n : b2 = Obj(n)
    BY <1>4
  <2>2. \A k : Field(With(Obj(n), "stream", yes), k)
                = IF k = "stream" THEN yes ELSE Field(Obj(n), k)
    BY FieldsOfWith
  <2> QED
    BY <1>2, <2>1, <2>2
<1>8. \A k : Field(With(b3, "service_tier", Str("default")), k)
               = IF k = "service_tier" THEN Str("default") ELSE Field(b3, k)
  <2>1. PICK n : b3 = Obj(n)
    BY <1>4
  <2>2. \A k : Field(With(Obj(n), "service_tier", Str("default")), k)
                = IF k = "service_tier" THEN Str("default") ELSE Field(Obj(n), k)
    BY FieldsOfWith
  <2> QED
    BY <2>1, <2>2
<1> QED
  BY <1>3, <1>5, <1>6, <1>7, <1>8, <1>9

\* What the code calls background: no cap, or a large one.
LEMMA Foreground == IInv => ForegroundIsSmall
PROOF
<1>1. SUFFICES ASSUME IInv, Left("openai")
               PROVE  /\ \/ Field(Body("openai"), "background") = Bool(TRUE)
                         \/ /\ Output(Body("openai")) <= SynchronousOutput
                            /\ Cap(Body("openai")) # NoCap
                      /\ Field(Body("openai"), "store") = Bool(TRUE)
                      /\ Field(Body("openai"), "stream") = Bool(TRUE)
  BY DEF ForegroundIsSmall
<1>2. PICK m : Parse(document) = Ok(Obj(m)) /\ NormalForm(document, m)
  BY <1>1, ParseGives DEF IInv, SentInv, Accepted
<1>3. fields = Obj(m)
  BY <1>1, <1>2 DEF IInv, SentInv, Accepted, Ok
<1> DEFINE body == Body("openai")
           runs == Background(Model(fields), Cap(fields))
<1>4. body = OpenAiBody(Obj(m), runs)
  BY <1>1, <1>3 DEF IInv, SentInv
<1> HIDE DEF body, runs
<1>5. /\ Field(body, "background") = Bool(runs)
      /\ Field(body, "store") = Bool(TRUE)
      /\ Field(body, "stream") = Bool(TRUE)
      /\ Field(body, "max_output_tokens") = Field(fields, "max_output_tokens")
      /\ Field(body, "model") = Field(fields, "model")
  <2>1. /\ Field(OpenAiBody(Obj(m), runs), "background") = Bool(runs)
        /\ Field(OpenAiBody(Obj(m), runs), "store") = Bool(TRUE)
        /\ Field(OpenAiBody(Obj(m), runs), "stream") = Bool(TRUE)
        /\ \A k : k \notin {"background", "store", "stream", "service_tier"}
             => Field(OpenAiBody(Obj(m), runs), k) = Field(Obj(m), k)
    BY OpenAiFields
  <2> QED
    BY <1>3, <1>4, <2>1
<1>6. Cap(body) = Cap(fields) /\ Model(body) = Model(fields)
  BY <1>5 DEF Cap, Model
<1>7. Cap(fields) \in Nat \cup {NoCap}
  BY <1>1, <1>2, <1>3, CapIsNumber DEF IInv, ProgressInv
<1>8. Catalog[Model(fields)].maxOutput \in Nat
  BY <1>1, CatalogAssumption DEF IInv, SentInv, Configured
<1>9. CASE runs
  <2>1. runs = TRUE
    BY <1>9 DEF runs, Background
  <2> QED
    BY <1>5, <2>1 DEF body
<1>10. CASE ~runs
  <2>1. Cap(fields) # NoCap /\ ~(OutputBound(Model(fields), Cap(fields)) > SynchronousOutput)
    BY <1>10 DEF runs, Background
  <2>2. Output(body) = OutputBound(Model(fields), Cap(fields))
    BY <1>6 DEF Output, OutputBound
  <2>3. OutputBound(Model(fields), Cap(fields)) \in Nat
    BY <1>7, <1>8, <2>1 DEF OutputBound, Smaller
  <2>4. Output(body) <= SynchronousOutput /\ Cap(body) # NoCap
    BY <1>6, <2>1, <2>2, <2>3, LimitsAssumption
  <2> QED
    BY <1>5, <2>4 DEF body
<1> QED
  BY <1>9, <1>10

-----------------------------------------------------------------------------
(* A set of values that holds the parts of each: whatever is in an accepted *)
(* body, and the bodies made from it.                                       *)

\* The parts of its members are in it.
Closed(C) == \A x \in C : Parts(x) \subseteq C

\* Nothing in it repeats a key, and its strings are strings.
Sound(C) ==
  /\ Closed(C)
  /\ \A x \in C : x.t = "object" => ~x.again
  /\ \A x \in C : x.t = "string" => x = Str(x.s)

\* The levels above the last.
Upper(v) == UNION {Below({v})[n] : n \in 0 .. MaxNesting - 1}

\* Only arrays and objects have parts.
LEMMA NoParts == \A x : x.t \notin {"array", "object"} => Parts(x) = {}
  BY DEF Parts

\* The levels of a value that is not too deep are such a set.
LEMMA UpperClosed ==
  ASSUME NEW v, ~TooDeep(v)
  PROVE  Closed(Upper(v)) /\ v \in Upper(v)
PROOF
<1>1. ASSUME NEW n \in 0 .. MaxNesting - 1, NEW x \in Below({v})[n], NEW p \in Parts(x)
      PROVE  p \in Upper(v)
  <2>1. x.t \in {"array", "object"}
    BY <1>1, NoParts
  <2>2. n # MaxNesting - 1
    BY <1>1, <2>1 DEF TooDeep
  <2>3. n + 1 \in 0 .. MaxNesting - 1
    BY <2>2, NestingAssumption
  <2>4. p \in AllParts(Below({v})[n])
    BY <1>1, AmongParts
  <2>5. p \in Below({v})[n + 1]
    BY <2>4, BelowIs
  <2> QED
    BY <2>3, <2>5 DEF Upper
<1>2. \A x \in Upper(v) : Parts(x) \subseteq Upper(v)
  BY <1>1 DEF Upper
<1>3. 0 \in 0 .. MaxNesting - 1 /\ v \in Below({v})[0]
  BY NestingAssumption, BelowIs
<1>4. v \in Upper(v)
  BY <1>3 DEF Upper
<1> QED
  BY <1>2, <1>4 DEF Closed

\* All that is inside a member is in it.
LEMMA InsideClosed ==
  ASSUME NEW C, Closed(C), NEW v \in C
  PROVE  Inside(v) \subseteq C
PROOF
<1> DEFINE G == {n \in Nat : n \in 0 .. MaxNesting => Below({v})[n] \subseteq C}
<1>1. 0 \in G
  BY BelowIs
<1>2. ASSUME NEW n \in Nat, n \in G PROVE n + 1 \in G
  <2>1. SUFFICES ASSUME n + 1 \in 0 .. MaxNesting, NEW x \in Below({v})[n + 1]
                 PROVE  x \in C
    OBVIOUS
  <2>2. n \in 0 .. MaxNesting - 1 /\ n \in 0 .. MaxNesting
    BY <2>1, NestingAssumption
  <2>3. x \in AllParts(Below({v})[n])
    BY <2>1, <2>2, BelowIs
  <2>4. PICK y \in Below({v})[n] : x \in Parts(y)
    BY <2>3, AmongParts
  <2>5. y \in C
    BY <1>2, <2>2, <2>4
  <2> QED
    BY <2>4, <2>5 DEF Closed
<1> HIDE DEF G
<1>3. \A n \in Nat : n \in G
  BY <1>1, <1>2, Induction
<1>4. \A n \in 0 .. MaxNesting : Below({v})[n] \subseteq C
  BY <1>3, NestingAssumption DEF G
<1> QED
  BY <1>4 DEF Inside

\* What is in an accepted body.
LEMMA SoundBody ==
  ASSUME NEW d \in Documents, NEW m, NormalForm(d, m)
  PROVE  \E C : Sound(C) /\ \A k \in DOMAIN m : m[k] \in C
PROOF
<1> DEFINE body == Streamed(m)
           C == Upper(body)
<1>1. ~TooDeep(body) /\ NoDuplicates(body) /\ Follows(d, body)
  BY FollowsStrictly DEF NormalForm
<1>2. Closed(C) /\ body \in C
  BY <1>1, UpperClosed
<1>3. ASSUME NEW x \in C
      PROVE  /\ x.t = "object" => ~x.again
             /\ x.t = "string" => x = Str(x.s)
  <2>1. PICK n \in 0 .. MaxNesting - 1 : x \in Below({body})[n]
    BY <1>3 DEF Upper
  <2>2. n \in 0 .. MaxNesting
    BY <2>1, NestingAssumption
  <2>3. x \in Inside(body)
    BY <2>1, <2>2 DEF Inside
  <2>4. PICK y \in Below({d})[n] : Like(x, y)
    BY <1>1, <2>1, <2>2 DEF Follows
  <2>5. IsValue(y)
    <3>1. y \in Inside(d)
      BY <2>2, <2>4 DEF Inside
    <3>2. d # Garbage
      BY DEF NormalForm, Garbage
    <3> QED
      BY <3>1, <3>2, DocumentsAssumption
  <2>6. x.t = "string" => x = y
    BY <2>4 DEF Like
  <2>7. y.t = "string" => y = Str(y.s)
    BY <2>5 DEF IsValue, Null, Bool, Num, Str, Arr, Obj, Repeating
  <2> QED
    BY <1>1, <2>3, <2>6, <2>7 DEF NoDuplicates
<1>4. ASSUME NEW k \in DOMAIN m PROVE m[k] \in C
  <2> DEFINE n == [x \in DOMAIN m \cup {"stream"} |-> IF x = "stream" THEN Bool(TRUE) ELSE m[x]]
  <2>1. body = Obj(n)
    BY DEF Streamed, With, Keys, Obj
  <2>2. k # "stream"
    BY RequestFields DEF NormalForm
  <2>3. n[k] = m[k] /\ k \in DOMAIN n
    BY <2>2
  <2> HIDE DEF n
  <2>4. n[k] \in Parts(Obj(n))
    BY <2>3 DEF Parts, Obj, Keys
  <2> QED
    BY <1>2, <2>1, <2>3, <2>4 DEF Closed
<1> HIDE DEF C
<1> QED
  BY <1>2, <1>3, <1>4 DEF Sound

\* A body that is not in the set but whose parts are.
LEMMA NoDuplicatesIn ==
  ASSUME NEW C, Sound(C), NEW n, \A k \in DOMAIN n : n[k] \in C
  PROVE  NoDuplicates(Obj(n)) /\ Sound(C \cup {Obj(n)})
PROOF
<1>1. Parts(Obj(n)) = {n[k] : k \in DOMAIN n}
  BY DEF Parts, Obj, Keys
<1>2. Closed(C \cup {Obj(n)})
  BY <1>1 DEF Closed, Sound
<1>3. ~Obj(n).again /\ Obj(n).t = "object"
  BY DEF Obj
<1>4. Inside(Obj(n)) \subseteq C \cup {Obj(n)}
  BY <1>2, InsideClosed
<1>5. NoDuplicates(Obj(n))
  BY <1>3, <1>4 DEF NoDuplicates, Sound
<1> QED
  BY <1>2, <1>3, <1>5 DEF Sound

-----------------------------------------------------------------------------
(* What a value that is its own normal form consists of.                   *)

\* Ok is one-to-one.
LEMMA OkIs == \A v, w : Ok(v) = Ok(w) => v = w
  BY DEF Ok

\* A tool as it is accepted inside a namespace, and in a list.
IsMemberTool(t) ==
  /\ Field(t, "type") \in {Str("function"), Str("custom")}
  /\ Field(t, "defer_loading") \in {Absent, Bool(FALSE)}
  /\ ~Has(t, "tools")

IsTool(t) ==
  \/ IsMemberTool(t)
  \/ /\ Field(t, "type") = Str("namespace")
     /\ Field(t, "defer_loading") = Absent
     /\ \A x \in ToSet(Items(Field(t, "tools"))) : IsMemberTool(x)

\* The tables, as far as these are concerned.
LEMMA MemberToolsAre ==
  /\ DOMAIN MemberTools = {"function", "custom"}
  /\ \A kind \in DOMAIN MemberTools :
       /\ "tools" \notin DOMAIN MemberTools[kind].keep
       /\ "defer_loading" \in DOMAIN MemberTools[kind].keep
       /\ MemberTools[kind].keep["defer_loading"] = "not_deferred"
  BY DEF MemberTools, Shape

LEMMA ToolsAre ==
  /\ DOMAIN Tools = {"function", "custom", "namespace"}
  /\ Tools["function"] = MemberTools["function"]
  /\ Tools["custom"] = MemberTools["custom"]
  /\ DOMAIN Tools["namespace"].keep = {"type", "name", "description", "tools"}
  /\ Tools["namespace"].keep["tools"] = "namespace_members"
  BY DEF Tools, Shape

\* Tools are told apart by their type.
LEMMA ToolPlaces ==
  /\ "tool" \in DOMAIN Typed /\ Typed["tool"] = Tools
  /\ "member_tool" \in DOMAIN Typed /\ Typed["member_tool"] = MemberTools
  BY DEF Typed

\* Anything but an easy message has its type.
LEMMA KindIs ==
  ASSUME NEW place, NEW v, NEW C, Sound(C), v \in C, v.t = "object",
         KindOf(place, v).t = "string",
         Field(v, "type") # Absent \/ place # "input_item"
  PROVE  Field(v, "type") = Str(KindOf(place, v).s)
PROOF
<1>1. KindOf(place, v) = Field(v, "type")
  BY DEF KindOf
<1>2. Field(v, "type") = v.members["type"] /\ "type" \in Keys(v)
  BY <1>1 DEF Field, Has, Absent
<1>3. Parts(v) = {v.members[k] : k \in Keys(v)}
  BY DEF Parts
<1>4. v.members["type"] \in C
  BY <1>2, <1>3 DEF Sound, Closed
<1> QED
  BY <1>1, <1>2, <1>4 DEF Sound

\* The members of an object of the set are in the set.
LEMMA MembersIn ==
  ASSUME NEW C, Sound(C), NEW v \in C
  PROVE  /\ v.t = "object" => \A k \in Keys(v) : v.members[k] \in C
         /\ v.t = "array" => \A i \in DOMAIN v.items : v.items[i] \in C
PROOF
<1>1. v.t = "object" => Parts(v) = {v.members[k] : k \in Keys(v)}
  BY DEF Parts
<1>2. v.t = "array" => Parts(v) = {v.items[i] : i \in DOMAIN v.items}
  BY DEF Parts
<1>3. Parts(v) \subseteq C
  BY DEF Sound, Closed
<1> QED
  BY <1>1, <1>2, <1>3

\* A deferral and the address of an image are leaves.
LEMMA LeafNames ==
  /\ "not_deferred" \notin DOMAIN Typed /\ "not_deferred" \notin DOMAIN Plain
  /\ "not_deferred" \notin DOMAIN ArrayOf /\ "not_deferred" \notin DOMAIN StringOrArrayOf
  /\ "inline_image_url" \notin DOMAIN Typed /\ "inline_image_url" \notin DOMAIN Plain
  /\ "inline_image_url" \notin DOMAIN ArrayOf /\ "inline_image_url" \notin DOMAIN StringOrArrayOf
  BY Places DEF Plain, ArrayOf, StringOrArrayOf

\* What a leaf lets pass.
LEMMA LeafLeaves ==
  /\ \A v, w : CheckLeaf("not_deferred", v) = Ok(w) => w = Bool(FALSE)
  /\ \A v, w : CheckLeaf("inline_image_url", v) = Ok(w) => w.s \in Inline
PROOF
<1>1. \A v : CheckLeaf("not_deferred", v) = IF v = Bool(FALSE) THEN Ok(v)
             ELSE Rejection({CodeOf("not_deferred", v)})
  BY DEF CheckLeaf, Accepts
<1>2. \A v : CheckLeaf("inline_image_url", v) = IF v.t = "string" /\ v.s \in Inline THEN Ok(v)
             ELSE Rejection({CodeOf("inline_image_url", v)})
  BY DEF CheckLeaf, Accepts
<1>3. \A v, w, c : Ok(v) # Rejection(c) /\ (Ok(v) = Ok(w) => v = w)
  BY DEF Ok, Rejection
<1> QED
  BY <1>1, <1>2, <1>3

\* The layer of CheckInMember.
LEMMA MemberLeaves ==
  /\ \A v, w : MemberGives("not_deferred", v, w) => w = Bool(FALSE)
  /\ \A v, w : MemberGives("inline_image_url", v, w) => w.s \in Inline
PROOF
<1>1. \A v : CheckInMember("not_deferred", v) = CheckLeaf("not_deferred", v)
  BY LeafNames DEF CheckInMember, CheckIn, CheckOne
<1>2. \A v : CheckInMember("inline_image_url", v) = CheckLeaf("inline_image_url", v)
  BY LeafNames DEF CheckInMember, CheckIn, CheckOne
<1> QED
  BY <1>1, <1>2, LeafLeaves DEF MemberGives

LEMMA MemberObject ==
  ASSUME NEW place \in DOMAIN Typed, NEW v, CheckOne(CheckInMember, place, v) = Ok(v)
  PROVE  \E kind \in DOMAIN Typed[place] :
           /\ v.t = "object"
           /\ KindOf(place, v).t = "string" /\ KindOf(place, v).s = kind
           /\ Keys(v) \subseteq DOMAIN Typed[place][kind].keep
           /\ Typed[place][kind].required \subseteq Keys(v)
           /\ \A k \in Keys(v) :
                MemberGives(Typed[place][kind].keep[k], v.members[k], v.members[k])
PROOF
<1>1. CheckOne(CheckInMember, place, v) = CheckTyped(CheckInMember, place, v)
  BY Disjoint DEF CheckOne
<1>2. CheckTyped(CheckInMember, place, v).ok
  BY <1>1 DEF Ok
<1>3. PICK m : \E kind \in DOMAIN Typed[place] :
           /\ v.t = "object"
           /\ KindOf(place, v).t = "string" /\ KindOf(place, v).s = kind
           /\ CheckTyped(CheckInMember, place, v) = Ok(Obj(m))
           /\ CheckTyped(CheckInMember, place, Obj(m)) = Ok(Obj(m))
           /\ Follows(v, Obj(m))
           /\ DOMAIN m = Keys(v) \cap DOMAIN Typed[place][kind].keep
           /\ Typed[place][kind].required \subseteq DOMAIN m
           /\ \A k \in DOMAIN m : MemberGives(Typed[place][kind].keep[k], v.members[k], m[k])
  BY <1>2, MemberTyped
<1>4. v = Obj(m)
  BY <1>1, <1>3, OkIs
<1>5. v.members = m /\ Keys(v) = DOMAIN m
  BY <1>4, MembersOf
<1> QED
  BY <1>3, <1>5

LEMMA MemberArray ==
  ASSUME NEW c, NEW v, CheckEach(CheckInMember, c, v) = Ok(v)
  PROVE  /\ v.t = "array"
         /\ \A i \in DOMAIN v.items : CheckOne(CheckInMember, c, v.items[i]) = Ok(v.items[i])
PROOF
<1>1. CheckEach(CheckInMember, c, v).ok
  BY DEF Ok
<1>2. PICK s : /\ v.t = "array"
               /\ CheckEach(CheckInMember, c, v) = Ok(Arr(s))
               /\ DOMAIN s = DOMAIN v.items
               /\ \A i \in DOMAIN s : CheckOne(CheckInMember, c, v.items[i]) = Ok(s[i])
  BY <1>1, MemberEach
<1>3. v = Arr(s)
  BY <1>2, OkIs
<1>4. v.items = s
  BY <1>3 DEF Arr
<1> QED
  BY <1>2, <1>4

LEMMA MemberMemberLike ==
  ASSUME NEW C, Sound(C), NEW t \in C, t.t = "object", NEW kind \in DOMAIN MemberTools,
         Field(t, "type") = Str(kind),
         Keys(t) \subseteq DOMAIN MemberTools[kind].keep,
         \A k \in Keys(t) : MemberGives(MemberTools[kind].keep[k], t.members[k], t.members[k])
  PROVE  IsMemberTool(t)
PROOF
<1>1. ~Has(t, "tools")
  BY MemberToolsAre DEF Has
<1>2. Field(t, "type") \in {Str("function"), Str("custom")}
  BY MemberToolsAre
<1>3. CASE "defer_loading" \in Keys(t)
  <2>1. MemberGives("not_deferred", t.members["defer_loading"], t.members["defer_loading"])
    BY <1>3, MemberToolsAre
  <2>2. t.members["defer_loading"] = Bool(FALSE)
    BY <2>1, MemberLeaves
  <2>3. Field(t, "defer_loading") = t.members["defer_loading"]
    BY <1>3 DEF Field, Has
  <2> QED
    BY <1>1, <1>2, <2>2, <2>3 DEF IsMemberTool
<1>4. CASE "defer_loading" \notin Keys(t)
  <2>1. Field(t, "defer_loading") = Absent
    BY <1>4 DEF Field, Has
  <2> QED
    BY <1>1, <1>2, <2>1 DEF IsMemberTool
<1> QED
  BY <1>3, <1>4

LEMMA MemberMemberTool ==
  ASSUME NEW C, Sound(C), NEW t \in C, CheckOne(CheckInMember, "member_tool", t) = Ok(t)
  PROVE  IsMemberTool(t)
PROOF
<1>1. PICK kind \in DOMAIN Typed["member_tool"] :
           /\ t.t = "object"
           /\ KindOf("member_tool", t).t = "string" /\ KindOf("member_tool", t).s = kind
           /\ Keys(t) \subseteq DOMAIN Typed["member_tool"][kind].keep
           /\ \A k \in Keys(t) :
                MemberGives(Typed["member_tool"][kind].keep[k], t.members[k], t.members[k])
  BY ToolPlaces, MemberObject
<1>2. Field(t, "type") = Str(kind)
  BY <1>1, KindIs
<1>3. /\ kind \in DOMAIN MemberTools
      /\ Keys(t) \subseteq DOMAIN MemberTools[kind].keep
      /\ \A k \in Keys(t) : MemberGives(MemberTools[kind].keep[k], t.members[k], t.members[k])
  BY <1>1, ToolPlaces
<1> QED
  BY <1>1, <1>2, <1>3, MemberMemberLike

\* The layer of CheckInTool.
LEMMA ToolLeaves ==
  /\ \A v, w : ToolGives("not_deferred", v, w) => w = Bool(FALSE)
  /\ \A v, w : ToolGives("inline_image_url", v, w) => w.s \in Inline
PROOF
<1>1. \A v : CheckInTool("not_deferred", v) = CheckLeaf("not_deferred", v)
  BY LeafNames DEF CheckInTool, CheckIn, CheckOne
<1>2. \A v : CheckInTool("inline_image_url", v) = CheckLeaf("inline_image_url", v)
  BY LeafNames DEF CheckInTool, CheckIn, CheckOne
<1> QED
  BY <1>1, <1>2, LeafLeaves DEF ToolGives

LEMMA ToolObject ==
  ASSUME NEW place \in DOMAIN Typed, NEW v, CheckOne(CheckInTool, place, v) = Ok(v)
  PROVE  \E kind \in DOMAIN Typed[place] :
           /\ v.t = "object"
           /\ KindOf(place, v).t = "string" /\ KindOf(place, v).s = kind
           /\ Keys(v) \subseteq DOMAIN Typed[place][kind].keep
           /\ Typed[place][kind].required \subseteq Keys(v)
           /\ \A k \in Keys(v) :
                ToolGives(Typed[place][kind].keep[k], v.members[k], v.members[k])
PROOF
<1>1. CheckOne(CheckInTool, place, v) = CheckTyped(CheckInTool, place, v)
  BY Disjoint DEF CheckOne
<1>2. CheckTyped(CheckInTool, place, v).ok
  BY <1>1 DEF Ok
<1>3. PICK m : \E kind \in DOMAIN Typed[place] :
           /\ v.t = "object"
           /\ KindOf(place, v).t = "string" /\ KindOf(place, v).s = kind
           /\ CheckTyped(CheckInTool, place, v) = Ok(Obj(m))
           /\ CheckTyped(CheckInTool, place, Obj(m)) = Ok(Obj(m))
           /\ Follows(v, Obj(m))
           /\ DOMAIN m = Keys(v) \cap DOMAIN Typed[place][kind].keep
           /\ Typed[place][kind].required \subseteq DOMAIN m
           /\ \A k \in DOMAIN m : ToolGives(Typed[place][kind].keep[k], v.members[k], m[k])
  BY <1>2, ToolTyped
<1>4. v = Obj(m)
  BY <1>1, <1>3, OkIs
<1>5. v.members = m /\ Keys(v) = DOMAIN m
  BY <1>4, MembersOf
<1> QED
  BY <1>3, <1>5

LEMMA ToolArray ==
  ASSUME NEW c, NEW v, CheckEach(CheckInTool, c, v) = Ok(v)
  PROVE  /\ v.t = "array"
         /\ \A i \in DOMAIN v.items : CheckOne(CheckInTool, c, v.items[i]) = Ok(v.items[i])
PROOF
<1>1. CheckEach(CheckInTool, c, v).ok
  BY DEF Ok
<1>2. PICK s : /\ v.t = "array"
               /\ CheckEach(CheckInTool, c, v) = Ok(Arr(s))
               /\ DOMAIN s = DOMAIN v.items
               /\ \A i \in DOMAIN s : CheckOne(CheckInTool, c, v.items[i]) = Ok(s[i])
  BY <1>1, ToolEach
<1>3. v = Arr(s)
  BY <1>2, OkIs
<1>4. v.items = s
  BY <1>3 DEF Arr
<1> QED
  BY <1>2, <1>4

LEMMA ToolMemberLike ==
  ASSUME NEW C, Sound(C), NEW t \in C, t.t = "object", NEW kind \in DOMAIN MemberTools,
         Field(t, "type") = Str(kind),
         Keys(t) \subseteq DOMAIN MemberTools[kind].keep,
         \A k \in Keys(t) : ToolGives(MemberTools[kind].keep[k], t.members[k], t.members[k])
  PROVE  IsMemberTool(t)
PROOF
<1>1. ~Has(t, "tools")
  BY MemberToolsAre DEF Has
<1>2. Field(t, "type") \in {Str("function"), Str("custom")}
  BY MemberToolsAre
<1>3. CASE "defer_loading" \in Keys(t)
  <2>1. ToolGives("not_deferred", t.members["defer_loading"], t.members["defer_loading"])
    BY <1>3, MemberToolsAre
  <2>2. t.members["defer_loading"] = Bool(FALSE)
    BY <2>1, ToolLeaves
  <2>3. Field(t, "defer_loading") = t.members["defer_loading"]
    BY <1>3 DEF Field, Has
  <2> QED
    BY <1>1, <1>2, <2>2, <2>3 DEF IsMemberTool
<1>4. CASE "defer_loading" \notin Keys(t)
  <2>1. Field(t, "defer_loading") = Absent
    BY <1>4 DEF Field, Has
  <2> QED
    BY <1>1, <1>2, <2>1 DEF IsMemberTool
<1> QED
  BY <1>3, <1>4

LEMMA ToolMemberTool ==
  ASSUME NEW C, Sound(C), NEW t \in C, CheckOne(CheckInTool, "member_tool", t) = Ok(t)
  PROVE  IsMemberTool(t)
PROOF
<1>1. PICK kind \in DOMAIN Typed["member_tool"] :
           /\ t.t = "object"
           /\ KindOf("member_tool", t).t = "string" /\ KindOf("member_tool", t).s = kind
           /\ Keys(t) \subseteq DOMAIN Typed["member_tool"][kind].keep
           /\ \A k \in Keys(t) :
                ToolGives(Typed["member_tool"][kind].keep[k], t.members[k], t.members[k])
  BY ToolPlaces, ToolObject
<1>2. Field(t, "type") = Str(kind)
  BY <1>1, KindIs
<1>3. /\ kind \in DOMAIN MemberTools
      /\ Keys(t) \subseteq DOMAIN MemberTools[kind].keep
      /\ \A k \in Keys(t) : ToolGives(MemberTools[kind].keep[k], t.members[k], t.members[k])
  BY <1>1, ToolPlaces
<1> QED
  BY <1>1, <1>2, <1>3, ToolMemberLike

LEMMA ToolTool ==
  ASSUME NEW C, Sound(C), NEW t \in C, CheckOne(CheckInTool, "tool", t) = Ok(t)
  PROVE  IsTool(t)
PROOF
<1>1. PICK kind \in DOMAIN Typed["tool"] :
           /\ t.t = "object"
           /\ KindOf("tool", t).t = "string" /\ KindOf("tool", t).s = kind
           /\ Keys(t) \subseteq DOMAIN Typed["tool"][kind].keep
           /\ \A k \in Keys(t) :
                ToolGives(Typed["tool"][kind].keep[k], t.members[k], t.members[k])
  BY ToolPlaces, ToolObject
<1>2. Field(t, "type") = Str(kind)
  BY <1>1, KindIs
<1>3. /\ kind \in DOMAIN Tools
      /\ Keys(t) \subseteq DOMAIN Tools[kind].keep
      /\ \A k \in Keys(t) : ToolGives(Tools[kind].keep[k], t.members[k], t.members[k])
  BY <1>1, ToolPlaces
<1>4. CASE kind \in {"function", "custom"}
  <2>1. kind \in DOMAIN MemberTools /\ Tools[kind] = MemberTools[kind]
    BY <1>4, MemberToolsAre, ToolsAre
  <2>2. IsMemberTool(t)
    BY <1>1, <1>2, <1>3, <2>1, ToolMemberLike
  <2> QED
    BY <2>2 DEF IsTool
<1>5. CASE kind = "namespace"
  <2>1. Field(t, "defer_loading") = Absent
    BY <1>3, <1>5, ToolsAre DEF Field, Has
  <2>2. ASSUME NEW x \in ToSet(Items(Field(t, "tools"))) PROVE IsMemberTool(x)
    <3> DEFINE v == Field(t, "tools")
    <3>1. v.t = "array"
      BY <2>2 DEF Items, ToSet
    <3>2. "tools" \in Keys(t) /\ v = t.members["tools"]
      BY <3>1 DEF Field, Has, Absent
    <3> HIDE DEF v
    <3>3. ToolGives("namespace_members", v, v)
      BY <1>3, <1>5, <3>2, ToolsAre
    <3>4. CheckEach(CheckInMember, "member_tool", v) = Ok(v)
      <4>1. CheckInTool("namespace_members", v) = Ok(v)
        BY <3>3 DEF ToolGives
      <4>2. "namespace_members" \in DOMAIN ArrayOf /\ ArrayOf["namespace_members"] = "member_tool"
        BY DEF ArrayOf
      <4>3. CheckInTool("namespace_members", v) = CheckEach(CheckInMember, ArrayOf["namespace_members"], v)
        BY <4>2, Disjoint DEF CheckInTool, CheckIn
      <4> QED
        BY <4>1, <4>2, <4>3
    <3>5. \A i \in DOMAIN v.items : CheckOne(CheckInMember, "member_tool", v.items[i]) = Ok(v.items[i])
      BY <3>4, MemberArray
    <3>6. PICK i \in DOMAIN v.items : x = v.items[i]
      BY <2>2, <3>1 DEF Items, ToSet, v
    <3>7. v \in C
      BY <1>1, <3>2, MembersIn
    <3>8. x \in C
      BY <3>1, <3>6, <3>7, MembersIn
    <3> QED
      BY <3>5, <3>6, <3>8, MemberMemberTool
  <2> QED
    BY <1>2, <1>5, <2>1, <2>2 DEF IsTool
<1> QED
  BY <1>3, <1>4, <1>5, ToolsAre

\* The layer of CheckInItem.
LEMMA ItemLeaves ==
  /\ \A v, w : ItemGives("not_deferred", v, w) => w = Bool(FALSE)
  /\ \A v, w : ItemGives("inline_image_url", v, w) => w.s \in Inline
PROOF
<1>1. \A v : CheckInItem("not_deferred", v) = CheckLeaf("not_deferred", v)
  BY LeafNames DEF CheckInItem, CheckIn, CheckOne
<1>2. \A v : CheckInItem("inline_image_url", v) = CheckLeaf("inline_image_url", v)
  BY LeafNames DEF CheckInItem, CheckIn, CheckOne
<1> QED
  BY <1>1, <1>2, LeafLeaves DEF ItemGives

LEMMA ItemObject ==
  ASSUME NEW place \in DOMAIN Typed, NEW v, CheckOne(CheckInItem, place, v) = Ok(v)
  PROVE  \E kind \in DOMAIN Typed[place] :
           /\ v.t = "object"
           /\ KindOf(place, v).t = "string" /\ KindOf(place, v).s = kind
           /\ Keys(v) \subseteq DOMAIN Typed[place][kind].keep
           /\ Typed[place][kind].required \subseteq Keys(v)
           /\ \A k \in Keys(v) :
                ItemGives(Typed[place][kind].keep[k], v.members[k], v.members[k])
PROOF
<1>1. CheckOne(CheckInItem, place, v) = CheckTyped(CheckInItem, place, v)
  BY Disjoint DEF CheckOne
<1>2. CheckTyped(CheckInItem, place, v).ok
  BY <1>1 DEF Ok
<1>3. PICK m : \E kind \in DOMAIN Typed[place] :
           /\ v.t = "object"
           /\ KindOf(place, v).t = "string" /\ KindOf(place, v).s = kind
           /\ CheckTyped(CheckInItem, place, v) = Ok(Obj(m))
           /\ CheckTyped(CheckInItem, place, Obj(m)) = Ok(Obj(m))
           /\ Follows(v, Obj(m))
           /\ DOMAIN m = Keys(v) \cap DOMAIN Typed[place][kind].keep
           /\ Typed[place][kind].required \subseteq DOMAIN m
           /\ \A k \in DOMAIN m : ItemGives(Typed[place][kind].keep[k], v.members[k], m[k])
  BY <1>2, ItemTyped
<1>4. v = Obj(m)
  BY <1>1, <1>3, OkIs
<1>5. v.members = m /\ Keys(v) = DOMAIN m
  BY <1>4, MembersOf
<1> QED
  BY <1>3, <1>5

LEMMA ItemArray ==
  ASSUME NEW c, NEW v, CheckEach(CheckInItem, c, v) = Ok(v)
  PROVE  /\ v.t = "array"
         /\ \A i \in DOMAIN v.items : CheckOne(CheckInItem, c, v.items[i]) = Ok(v.items[i])
PROOF
<1>1. CheckEach(CheckInItem, c, v).ok
  BY DEF Ok
<1>2. PICK s : /\ v.t = "array"
               /\ CheckEach(CheckInItem, c, v) = Ok(Arr(s))
               /\ DOMAIN s = DOMAIN v.items
               /\ \A i \in DOMAIN s : CheckOne(CheckInItem, c, v.items[i]) = Ok(s[i])
  BY <1>1, ItemEach
<1>3. v = Arr(s)
  BY <1>2, OkIs
<1>4. v.items = s
  BY <1>3 DEF Arr
<1> QED
  BY <1>2, <1>4

LEMMA ItemMemberLike ==
  ASSUME NEW C, Sound(C), NEW t \in C, t.t = "object", NEW kind \in DOMAIN MemberTools,
         Field(t, "type") = Str(kind),
         Keys(t) \subseteq DOMAIN MemberTools[kind].keep,
         \A k \in Keys(t) : ItemGives(MemberTools[kind].keep[k], t.members[k], t.members[k])
  PROVE  IsMemberTool(t)
PROOF
<1>1. ~Has(t, "tools")
  BY MemberToolsAre DEF Has
<1>2. Field(t, "type") \in {Str("function"), Str("custom")}
  BY MemberToolsAre
<1>3. CASE "defer_loading" \in Keys(t)
  <2>1. ItemGives("not_deferred", t.members["defer_loading"], t.members["defer_loading"])
    BY <1>3, MemberToolsAre
  <2>2. t.members["defer_loading"] = Bool(FALSE)
    BY <2>1, ItemLeaves
  <2>3. Field(t, "defer_loading") = t.members["defer_loading"]
    BY <1>3 DEF Field, Has
  <2> QED
    BY <1>1, <1>2, <2>2, <2>3 DEF IsMemberTool
<1>4. CASE "defer_loading" \notin Keys(t)
  <2>1. Field(t, "defer_loading") = Absent
    BY <1>4 DEF Field, Has
  <2> QED
    BY <1>1, <1>2, <2>1 DEF IsMemberTool
<1> QED
  BY <1>3, <1>4

LEMMA ItemTool ==
  ASSUME NEW C, Sound(C), NEW t \in C, CheckOne(CheckInItem, "tool", t) = Ok(t)
  PROVE  IsTool(t)
PROOF
<1>1. PICK kind \in DOMAIN Typed["tool"] :
           /\ t.t = "object"
           /\ KindOf("tool", t).t = "string" /\ KindOf("tool", t).s = kind
           /\ Keys(t) \subseteq DOMAIN Typed["tool"][kind].keep
           /\ \A k \in Keys(t) :
                ItemGives(Typed["tool"][kind].keep[k], t.members[k], t.members[k])
  BY ToolPlaces, ItemObject
<1>2. Field(t, "type") = Str(kind)
  BY <1>1, KindIs
<1>3. /\ kind \in DOMAIN Tools
      /\ Keys(t) \subseteq DOMAIN Tools[kind].keep
      /\ \A k \in Keys(t) : ItemGives(Tools[kind].keep[k], t.members[k], t.members[k])
  BY <1>1, ToolPlaces
<1>4. CASE kind \in {"function", "custom"}
  <2>1. kind \in DOMAIN MemberTools /\ Tools[kind] = MemberTools[kind]
    BY <1>4, MemberToolsAre, ToolsAre
  <2>2. IsMemberTool(t)
    BY <1>1, <1>2, <1>3, <2>1, ItemMemberLike
  <2> QED
    BY <2>2 DEF IsTool
<1>5. CASE kind = "namespace"
  <2>1. Field(t, "defer_loading") = Absent
    BY <1>3, <1>5, ToolsAre DEF Field, Has
  <2>2. ASSUME NEW x \in ToSet(Items(Field(t, "tools"))) PROVE IsMemberTool(x)
    <3> DEFINE v == Field(t, "tools")
    <3>1. v.t = "array"
      BY <2>2 DEF Items, ToSet
    <3>2. "tools" \in Keys(t) /\ v = t.members["tools"]
      BY <3>1 DEF Field, Has, Absent
    <3> HIDE DEF v
    <3>3. ItemGives("namespace_members", v, v)
      BY <1>3, <1>5, <3>2, ToolsAre
    <3>4. CheckEach(CheckInTool, "member_tool", v) = Ok(v)
      <4>1. CheckInItem("namespace_members", v) = Ok(v)
        BY <3>3 DEF ItemGives
      <4>2. "namespace_members" \in DOMAIN ArrayOf /\ ArrayOf["namespace_members"] = "member_tool"
        BY DEF ArrayOf
      <4>3. CheckInItem("namespace_members", v) = CheckEach(CheckInTool, ArrayOf["namespace_members"], v)
        BY <4>2, Disjoint DEF CheckInItem, CheckIn
      <4> QED
        BY <4>1, <4>2, <4>3
    <3>5. \A i \in DOMAIN v.items : CheckOne(CheckInTool, "member_tool", v.items[i]) = Ok(v.items[i])
      BY <3>4, ToolArray
    <3>6. PICK i \in DOMAIN v.items : x = v.items[i]
      BY <2>2, <3>1 DEF Items, ToSet, v
    <3>7. v \in C
      BY <1>1, <3>2, MembersIn
    <3>8. x \in C
      BY <3>1, <3>6, <3>7, MembersIn
    <3> QED
      BY <3>5, <3>6, <3>8, ToolMemberTool
  <2> QED
    BY <1>2, <1>5, <2>1, <2>2 DEF IsTool
<1> QED
  BY <1>3, <1>4, <1>5, ToolsAre

-----------------------------------------------------------------------------
(* The items of the input, and what they contain.                          *)

\* A part of a content, and an item, as they are accepted.
IsPart(part) ==
  Field(part, "image_url").t = "string" => Field(part, "image_url").s \in Inline

IsItem(item) ==
  /\ Keys(item) \cap {"id", "status"} = {}
  /\ \A part \in ContentOf(item) : IsPart(part)
  /\ IsKind(item, "additional_tools") \/ ~Has(item, "tools")
  /\ \A t \in ToSet(Items(Field(item, "tools"))) : IsTool(t)

\* The tables, as far as these are concerned.
PartPlaces == {"message_part", "output_part", "reasoning_text_part"}

\* The tables of parts: an image is inline.
LEMMA PartsAre ==
  /\ PartPlaces \subseteq DOMAIN Typed
  /\ \A place \in PartPlaces : \A kind \in DOMAIN Typed[place] :
       "image_url" \in DOMAIN Typed[place][kind].keep
         => Typed[place][kind].keep["image_url"] = "inline_image_url"
PROOF
<1>1. PartPlaces \subseteq DOMAIN Typed
  BY Places DEF PartPlaces
<1>2. /\ Typed["message_part"] = MessageParts
      /\ Typed["output_part"] = UserParts
      /\ Typed["reasoning_text_part"] = [reasoning_text |-> TextPart]
  BY DEF Typed
<1>3. "image_url" \notin DOMAIN TextPart.keep
  BY DEF TextPart, Shape
<1>4. \A kind \in DOMAIN UserParts :
        "image_url" \in DOMAIN UserParts[kind].keep
          => UserParts[kind].keep["image_url"] = "inline_image_url"
  BY <1>3 DEF UserParts, Shape
<1>5. \A kind \in DOMAIN MessageParts :
        "image_url" \in DOMAIN MessageParts[kind].keep
          => MessageParts[kind].keep["image_url"] = "inline_image_url"
  BY <1>3 DEF MessageParts, UserParts, Shape
<1> QED
  BY <1>1, <1>2, <1>3, <1>4, <1>5 DEF PartPlaces

\* The tables of items: no id, no status, and where tools and parts stand.
LEMMA ItemsAre ==
  /\ "input_item" \in DOMAIN Typed /\ Typed["input_item"] = InputItems
  /\ \A kind \in DOMAIN InputItems :
       /\ DOMAIN InputItems[kind].keep \cap {"id", "status"} = {}
       /\ "content" \in DOMAIN InputItems[kind].keep
            => InputItems[kind].keep["content"] \in {"message_content", "reasoning_text_parts"}
       /\ "output" \in DOMAIN InputItems[kind].keep
            => InputItems[kind].keep["output"] = "tool_output"
       /\ "tools" \in DOMAIN InputItems[kind].keep
            => kind = "additional_tools" /\ InputItems[kind].keep["tools"] = "tool_list"
  /\ "role" \in InputItems["message"].required
  /\ "tools" \notin DOMAIN InputItems["message"].keep
PROOF
<1>1. "input_item" \in DOMAIN Typed /\ Typed["input_item"] = InputItems
  BY DEF Typed
<1>2. DOMAIN InputItems = {"message", "reasoning", "function_call", "function_call_output",
                           "custom_tool_call", "custom_tool_call_output", "additional_tools"}
  BY DEF InputItems
<1>3. \A a \in {"arguments", "input"} : DOMAIN Call(a) = {"type", "call_id", "name", "namespace", a}
  BY DEF Call
<1>4. \A kind \in {"message", "reasoning", "function_call_output", "custom_tool_call_output"} :
       /\ DOMAIN InputItems[kind].keep \cap {"id", "status", "tools"} = {}
       /\ "content" \in DOMAIN InputItems[kind].keep
            => InputItems[kind].keep["content"] \in {"message_content", "reasoning_text_parts"}
       /\ "output" \in DOMAIN InputItems[kind].keep
            => InputItems[kind].keep["output"] = "tool_output"
  BY DEF InputItems, Shape
<1>5. \A kind \in {"function_call", "custom_tool_call"} :
        DOMAIN InputItems[kind].keep \cap {"id", "status", "tools", "content", "output"} = {}
  BY <1>3 DEF InputItems, Shape
<1>6. /\ DOMAIN InputItems["additional_tools"].keep = {"type", "role", "tools"}
      /\ InputItems["additional_tools"].keep["tools"] = "tool_list"
  BY DEF InputItems, Shape
<1>7. "role" \in InputItems["message"].required
  BY DEF InputItems, Shape
<1> QED
  BY <1>1, <1>2, <1>4, <1>5, <1>6, <1>7

\* A part is checked inside an item.
LEMMA PartIs ==
  ASSUME NEW place \in PartPlaces, NEW part, CheckOne(CheckInTool, place, part) = Ok(part)
  PROVE  IsPart(part)
PROOF
<1>1. PICK kind \in DOMAIN Typed[place] :
           /\ part.t = "object"
           /\ Keys(part) \subseteq DOMAIN Typed[place][kind].keep
           /\ \A k \in Keys(part) :
                ToolGives(Typed[place][kind].keep[k], part.members[k], part.members[k])
  BY PartsAre, ToolObject
<1>2. CASE "image_url" \in Keys(part)
  <2>1. ToolGives("inline_image_url", part.members["image_url"], part.members["image_url"])
    BY <1>1, <1>2, PartsAre
  <2>2. part.members["image_url"].s \in Inline
    BY <2>1, ToolLeaves
  <2>3. Field(part, "image_url") = part.members["image_url"]
    BY <1>1, <1>2 DEF Field, Has
  <2> QED
    BY <2>2, <2>3 DEF IsPart
<1>3. CASE "image_url" \notin Keys(part)
  BY <1>3 DEF IsPart, Field, Has, Absent
<1> QED
  BY <1>2, <1>3

\* The content of an item is a text or parts.
LEMMA ContentIs ==
  ASSUME NEW c \in {"message_content", "reasoning_text_parts", "tool_output"},
         NEW v, ItemGives(c, v, v), NEW part \in ToSet(Items(v))
  PROVE  IsPart(part)
PROOF
<1>1. v.t = "array" /\ \E i \in DOMAIN v.items : part = v.items[i]
  BY DEF Items, ToSet
<1>2. CheckInItem(c, v) = Ok(v)
  BY DEF ItemGives
<1>3. CASE c = "reasoning_text_parts"
  <2>1. c \in DOMAIN ArrayOf /\ ArrayOf[c] = "reasoning_text_part"
    BY <1>3 DEF ArrayOf
  <2>2. CheckInItem(c, v) = CheckEach(CheckInTool, ArrayOf[c], v)
    BY <2>1, Disjoint DEF CheckInItem, CheckIn
  <2>3. CheckEach(CheckInTool, "reasoning_text_part", v) = Ok(v)
    BY <1>2, <2>1, <2>2
  <2> QED
    BY <1>1, <2>3, ToolArray, PartIs DEF PartPlaces
<1>4. CASE c \in {"message_content", "tool_output"}
  <2>1. /\ c \in DOMAIN StringOrArrayOf
        /\ StringOrArrayOf[c] \in {"message_part", "output_part"}
    BY <1>4 DEF StringOrArrayOf
  <2> DEFINE place == StringOrArrayOf[c]
  <2>2. CheckInItem(c, v) = IF v.t = "string" THEN Ok(v)
                            ELSE CheckEach(CheckInTool, place, v)
    BY <2>1, Disjoint DEF CheckInItem, CheckIn
  <2> HIDE DEF place
  <2>3. CheckEach(CheckInTool, place, v) = Ok(v)
    BY <1>1, <1>2, <2>2
  <2>4. place \in PartPlaces
    BY <2>1 DEF PartPlaces, place
  <2>5. PICK i \in DOMAIN v.items : part = v.items[i]
    BY <1>1
  <2>6. CheckOne(CheckInTool, place, part) = Ok(part)
    BY <2>3, <2>5, ToolArray
  <2> QED
    BY <2>4, <2>6, PartIs
<1> QED
  BY <1>3, <1>4

\* A list of tools in an item, and in the request.
LEMMA ItemToolList ==
  ASSUME NEW C, Sound(C), NEW v \in C, ItemGives("tool_list", v, v)
  PROVE  \A t \in ToSet(Items(v)) : IsTool(t)
PROOF
<1>1. SUFFICES ASSUME NEW t \in ToSet(Items(v)) PROVE IsTool(t)
  OBVIOUS
<1>2. v.t = "array"
  BY DEF Items, ToSet
<1>3. PICK i \in DOMAIN v.items : t = v.items[i]
  BY <1>2 DEF Items, ToSet
<1>4. "tool_list" \in DOMAIN ArrayOf /\ ArrayOf["tool_list"] = "tool"
  BY DEF ArrayOf
<1>5. CheckInItem("tool_list", v) = CheckEach(CheckInTool, ArrayOf["tool_list"], v)
  BY <1>4, Disjoint DEF CheckInItem, CheckIn
<1>6. CheckInItem("tool_list", v) = Ok(v)
  BY DEF ItemGives
<1>7. CheckEach(CheckInTool, "tool", v) = Ok(v)
  BY <1>4, <1>5, <1>6
<1>8. CheckOne(CheckInTool, "tool", t) = Ok(t)
  BY <1>3, <1>7, ToolArray
<1>9. t \in C
  BY <1>2, <1>3, MembersIn
<1> QED
  BY <1>8, <1>9, ToolTool

LEMMA RequestToolList ==
  ASSUME NEW C, Sound(C), NEW v \in C, RequestGives("tool_list", v, v)
  PROVE  \A t \in ToSet(Items(v)) : IsTool(t)
PROOF
<1>1. SUFFICES ASSUME NEW t \in ToSet(Items(v)) PROVE IsTool(t)
  OBVIOUS
<1>2. v.t = "array"
  BY DEF Items, ToSet
<1>3. PICK i \in DOMAIN v.items : t = v.items[i]
  BY <1>2 DEF Items, ToSet
<1>4. "tool_list" \in DOMAIN ArrayOf /\ ArrayOf["tool_list"] = "tool"
  BY DEF ArrayOf
<1>5. CheckInRequest("tool_list", v) = CheckEach(CheckInItem, ArrayOf["tool_list"], v)
  BY <1>4, Disjoint DEF CheckInRequest, CheckIn
<1>6. CheckInRequest("tool_list", v) = Ok(v)
  BY DEF RequestGives
<1>7. CheckEach(CheckInItem, "tool", v) = Ok(v)
  BY <1>4, <1>5, <1>6
<1>8. CheckOne(CheckInItem, "tool", t) = Ok(t)
  BY <1>3, <1>7, ItemArray
<1>9. t \in C
  BY <1>2, <1>3, MembersIn
<1> QED
  BY <1>8, <1>9, ItemTool

\* One item, of whichever shape.
LEMMA ItemIs ==
  ASSUME NEW C, Sound(C), NEW item \in C, CheckOne(CheckInItem, "input_item", item) = Ok(item)
  PROVE  IsItem(item)
PROOF
<1>1. PICK kind \in DOMAIN Typed["input_item"] :
           /\ item.t = "object"
           /\ KindOf("input_item", item).t = "string" /\ KindOf("input_item", item).s = kind
           /\ Keys(item) \subseteq DOMAIN Typed["input_item"][kind].keep
           /\ \A k \in Keys(item) :
                ItemGives(Typed["input_item"][kind].keep[k], item.members[k], item.members[k])
  BY ItemsAre, ItemObject
<1>2. /\ kind \in DOMAIN InputItems
      /\ Keys(item) \subseteq DOMAIN InputItems[kind].keep
      /\ \A k \in Keys(item) :
           ItemGives(InputItems[kind].keep[k], item.members[k], item.members[k])
  BY <1>1, ItemsAre
<1>3. \A k : Field(item, k) = IF k \in Keys(item) THEN item.members[k] ELSE Absent
  BY <1>1 DEF Field, Has
<1>4. Items(Absent) = <<>> /\ ToSet(<<>>) = {}
  BY DEF Items, Absent, ToSet
<1>5. Keys(item) \cap {"id", "status"} = {}
  BY <1>2, ItemsAre
<1>6. \A part \in ContentOf(item) : IsPart(part)
  <2>1. ASSUME NEW part \in ToSet(Items(Field(item, "content"))) PROVE IsPart(part)
    <3>1. "content" \in Keys(item) /\ Field(item, "content") = item.members["content"]
      BY <1>3, <1>4, <2>1
    <3>2. PICK c \in {"message_content", "reasoning_text_parts"} :
            ItemGives(c, item.members["content"], item.members["content"])
      BY <1>2, <3>1, ItemsAre
    <3> QED
      BY <2>1, <3>1, <3>2, ContentIs
  <2>2. ASSUME NEW part \in ToSet(Items(Field(item, "output"))) PROVE IsPart(part)
    <3>1. "output" \in Keys(item) /\ Field(item, "output") = item.members["output"]
      BY <1>3, <1>4, <2>2
    <3>2. ItemGives("tool_output", item.members["output"], item.members["output"])
      BY <1>2, <3>1, ItemsAre
    <3> QED
      BY <2>2, <3>1, <3>2, ContentIs
  <2> QED
    BY <2>1, <2>2 DEF ContentOf
<1>7. CASE "tools" \in Keys(item)
  <2>1. kind = "additional_tools" /\ ItemGives("tool_list", item.members["tools"], item.members["tools"])
    BY <1>2, <1>7, ItemsAre
  <2>2. item.members["tools"] \in C
    BY <1>1, <1>7, MembersIn
  <2>3. \A t \in ToSet(Items(Field(item, "tools"))) : IsTool(t)
    BY <1>3, <1>7, <2>1, <2>2, ItemToolList
  <2>4. IsKind(item, "additional_tools")
    <3>1. Field(item, "type") # Absent
      <4>1. KindOf("input_item", item).s # "message"
        BY <1>1, <2>1
      <4> QED
        BY <1>1, <4>1 DEF KindOf, Str, Absent
    <3>2. Field(item, "type") = Str(KindOf("input_item", item).s)
      BY <1>1, <3>1, KindIs
    <3> QED
      BY <1>1, <2>1, <3>2 DEF IsKind
  <2> QED
    BY <1>5, <1>6, <2>3, <2>4 DEF IsItem
<1>8. CASE "tools" \notin Keys(item)
  <2>1. ~Has(item, "tools") /\ ToSet(Items(Field(item, "tools"))) = {}
    BY <1>3, <1>4, <1>8 DEF Has
  <2> QED
    BY <1>5, <1>6, <2>1 DEF IsItem
<1> QED
  BY <1>7, <1>8

\* The input is a text or items.
LEMMA InputIs ==
  ASSUME NEW C, Sound(C), NEW v \in C, RequestGives("input", v, v)
  PROVE  \A item \in ToSet(Items(v)) : IsItem(item)
PROOF
<1>1. SUFFICES ASSUME NEW item \in ToSet(Items(v)) PROVE IsItem(item)
  OBVIOUS
<1>2. v.t = "array"
  BY DEF Items, ToSet
<1>3. PICK i \in DOMAIN v.items : item = v.items[i]
  BY <1>2 DEF Items, ToSet
<1>4. "input" \in DOMAIN StringOrArrayOf /\ StringOrArrayOf["input"] = "input_item"
  BY DEF StringOrArrayOf
<1>5. CheckInRequest("input", v) = IF v.t = "string" THEN Ok(v)
                                   ELSE CheckEach(CheckInItem, StringOrArrayOf["input"], v)
  BY <1>4, Disjoint DEF CheckInRequest, CheckIn
<1>6. CheckInRequest("input", v) = Ok(v)
  BY DEF RequestGives
<1>7. CheckEach(CheckInItem, "input_item", v) = Ok(v)
  BY <1>2, <1>4, <1>5, <1>6
<1>8. CheckOne(CheckInItem, "input_item", item) = Ok(item)
  BY <1>3, <1>7, ItemArray
<1>9. item \in C
  BY <1>2, <1>3, MembersIn
<1> QED
  BY <1>8, <1>9, ItemIs

-----------------------------------------------------------------------------
(* Tools nested in tools: what the property calls a declaration, and what   *)
(* absorb_tools sees.                                                      *)

\* One level further down, and what of that absorb_tools enters.
NestedIn(S) == UNION {ToSet(Items(Field(tool, "tools"))) : tool \in S}
NestedInNamespaces(S) ==
  UNION {ToSet(Items(Field(tool, "tools"))) : tool \in {x \in S : IsKind(x, "namespace")}}

\* f is what is declared as far as level n.
DeclaredLevels(S, f, n) ==
  f = [i \in 0 .. n |-> IF i = 0 THEN S ELSE NestedIn(f[i - 1])]

LEMMA DeclaredLevelsExist == ASSUME NEW S PROVE \A n \in Nat : \E f : DeclaredLevels(S, f, n)
PROOF
<1> DEFINE G == {n \in Nat : \E f : DeclaredLevels(S, f, n)}
<1>1. 0 \in G
  <2>1. DeclaredLevels(S, [i \in 0 .. 0 |-> S], 0)
    BY DEF DeclaredLevels
  <2> QED
    BY <2>1
<1>2. ASSUME NEW n \in Nat, n \in G PROVE n + 1 \in G
  <2>1. PICK f : DeclaredLevels(S, f, n)
    BY <1>2
  <2> DEFINE g == [i \in 0 .. n + 1 |-> IF i = 0 THEN S ELSE NestedIn(f[i - 1])]
  <2>2. \A i \in 0 .. n : g[i] = f[i]
    BY <2>1 DEF DeclaredLevels
  <2>3. ASSUME NEW i \in 0 .. n + 1, i # 0
        PROVE  NestedIn(g[i - 1]) = NestedIn(f[i - 1])
    <3>1. i - 1 \in 0 .. n
      BY <2>3
    <3>2. g[i - 1] = f[i - 1]
      BY <2>2, <3>1
    <3> HIDE DEF g
    <3> QED
      BY <3>2
  <2>4. g = [i \in 0 .. n + 1 |-> IF i = 0 THEN S ELSE NestedIn(g[i - 1])]
    BY <2>3, Zenon
  <2>5. DeclaredLevels(S, g, n + 1)
    BY <2>4 DEF DeclaredLevels
  <2> QED
    BY <2>5
<1> HIDE DEF G
<1>3. \A n \in Nat : n \in G
  BY <1>1, <1>2, Induction
<1> QED
  BY <1>3 DEF G

\* f is what absorb_tools reaches by n calls of itself.
AbsorbedLevels(S, f, n) ==
  f = [i \in 0 .. n |-> IF i = 0 THEN S ELSE NestedInNamespaces(f[i - 1])]

LEMMA AbsorbedLevelsExist == ASSUME NEW S PROVE \A n \in Nat : \E f : AbsorbedLevels(S, f, n)
PROOF
<1> DEFINE G == {n \in Nat : \E f : AbsorbedLevels(S, f, n)}
<1>1. 0 \in G
  <2>1. AbsorbedLevels(S, [i \in 0 .. 0 |-> S], 0)
    BY DEF AbsorbedLevels
  <2> QED
    BY <2>1
<1>2. ASSUME NEW n \in Nat, n \in G PROVE n + 1 \in G
  <2>1. PICK f : AbsorbedLevels(S, f, n)
    BY <1>2
  <2> DEFINE g == [i \in 0 .. n + 1 |-> IF i = 0 THEN S ELSE NestedInNamespaces(f[i - 1])]
  <2>2. \A i \in 0 .. n : g[i] = f[i]
    BY <2>1 DEF AbsorbedLevels
  <2>3. ASSUME NEW i \in 0 .. n + 1, i # 0
        PROVE  NestedInNamespaces(g[i - 1]) = NestedInNamespaces(f[i - 1])
    <3>1. i - 1 \in 0 .. n
      BY <2>3
    <3>2. g[i - 1] = f[i - 1]
      BY <2>2, <3>1
    <3> HIDE DEF g
    <3> QED
      BY <3>2
  <2>4. g = [i \in 0 .. n + 1 |-> IF i = 0 THEN S ELSE NestedInNamespaces(g[i - 1])]
    BY <2>3, Zenon
  <2>5. AbsorbedLevels(S, g, n + 1)
    BY <2>4 DEF AbsorbedLevels
  <2> QED
    BY <2>5
<1> HIDE DEF G
<1>3. \A n \in Nat : n \in G
  BY <1>1, <1>2, Induction
<1> QED
  BY <1>3 DEF G

\* Declarations is all levels.
LEMMA DeclarationsAre ==
  ASSUME NEW tools
  PROVE  \E f : /\ DeclaredLevels(ToSet(tools), f, MaxNesting)
                /\ Declarations(tools) = UNION {f[n] : n \in 0 .. MaxNesting}
PROOF
<1> DEFINE F == CHOOSE f : f = [n \in 0 .. MaxNesting |->
                     IF n = 0 THEN ToSet(tools)
                     ELSE UNION {ToSet(Items(Field(tool, "tools"))) : tool \in f[n - 1]}]
<1>1. \E f : DeclaredLevels(ToSet(tools), f, MaxNesting)
  BY DeclaredLevelsExist, NestingAssumption
<1>2. DeclaredLevels(ToSet(tools), F, MaxNesting)
  BY <1>1 DEF DeclaredLevels, NestedIn
<1>3. Declarations(tools) = UNION {F[n] : n \in 0 .. MaxNesting}
  BY DEF Declarations
<1> QED
  BY <1>2, <1>3

\* Absorbed is all levels.
LEMMA AbsorbedAre ==
  ASSUME NEW tools
  PROVE  \E f : /\ AbsorbedLevels(ToSet(tools), f, MaxNesting)
                /\ Absorbed(tools) =
                     {kind \in {"function", "custom", "namespace"} :
                        \E n \in 0 .. MaxNesting : \E tool \in f[n] : IsKind(tool, kind)}
PROOF
<1> DEFINE F == CHOOSE f : f = [n \in 0 .. MaxNesting |->
                     IF n = 0 THEN ToSet(tools)
                     ELSE UNION {ToSet(Items(Field(tool, "tools"))) :
                                   tool \in {x \in f[n - 1] : IsKind(x, "namespace")}}]
<1>1. \E f : AbsorbedLevels(ToSet(tools), f, MaxNesting)
  BY AbsorbedLevelsExist, NestingAssumption
<1>2. AbsorbedLevels(ToSet(tools), F, MaxNesting)
  BY <1>1 DEF AbsorbedLevels, NestedInNamespaces
<1>3. Absorbed(tools) =
        {kind \in {"function", "custom", "namespace"} :
           \E n \in 0 .. MaxNesting : \E tool \in F[n] : IsKind(tool, kind)}
  BY DEF Absorbed
<1> QED
  BY <1>2, <1>3

\* Every declaration is a tool the allowlist knows, and absorb_tools sees it.
LEMMA DeclarationsAreTools ==
  ASSUME NEW tools, \A t \in ToSet(tools) : IsTool(t)
  PROVE  \A t \in Declarations(tools) :
           /\ IsTool(t)
           /\ \E kind \in Absorbed(tools) : Field(t, "type") = Str(kind)
PROOF
<1>1. PICK f : /\ DeclaredLevels(ToSet(tools), f, MaxNesting)
               /\ Declarations(tools) = UNION {f[n] : n \in 0 .. MaxNesting}
  BY DeclarationsAre
<1>2. PICK g : /\ AbsorbedLevels(ToSet(tools), g, MaxNesting)
               /\ Absorbed(tools) =
                    {kind \in {"function", "custom", "namespace"} :
                       \E n \in 0 .. MaxNesting : \E tool \in g[n] : IsKind(tool, kind)}
  BY AbsorbedAre
<1>3. /\ f[0] = ToSet(tools) /\ g[0] = ToSet(tools)
      /\ \A n \in Nat : n + 1 \in 0 .. MaxNesting =>
           f[n + 1] = NestedIn(f[n]) /\ g[n + 1] = NestedInNamespaces(g[n])
  <2>1. f = [i \in 0 .. MaxNesting |-> IF i = 0 THEN ToSet(tools) ELSE NestedIn(f[i - 1])]
    BY <1>1 DEF DeclaredLevels
  <2>2. g = [i \in 0 .. MaxNesting |-> IF i = 0 THEN ToSet(tools)
                                      ELSE NestedInNamespaces(g[i - 1])]
    BY <1>2 DEF AbsorbedLevels
  <2>3. 0 \in 0 .. MaxNesting
    BY NestingAssumption
  <2>4. f[0] = ToSet(tools) /\ g[0] = ToSet(tools)
    BY <2>1, <2>2, <2>3
  <2>5. ASSUME NEW n \in Nat, n + 1 \in 0 .. MaxNesting
        PROVE  f[n + 1] = NestedIn(f[n]) /\ g[n + 1] = NestedInNamespaces(g[n])
    <3>1. n + 1 # 0 /\ (n + 1) - 1 = n
      OBVIOUS
    <3>2. f[n + 1] = NestedIn(f[(n + 1) - 1])
      BY <2>1, <2>5, <3>1
    <3>3. g[n + 1] = NestedInNamespaces(g[(n + 1) - 1])
      BY <2>2, <2>5, <3>1
    <3> QED
      BY <3>1, <3>2, <3>3
  <2> QED
    BY <2>4, <2>5
<1> DEFINE G == {n \in Nat : n \in 0 .. MaxNesting =>
                   \A t \in f[n] : IsTool(t) /\ t \in g[n]}
<1>4. 0 \in G
  BY <1>3
<1>5. ASSUME NEW n \in Nat, n \in G PROVE n + 1 \in G
  <2>1. SUFFICES ASSUME n + 1 \in 0 .. MaxNesting, NEW t \in f[n + 1]
                 PROVE  IsTool(t) /\ t \in g[n + 1]
    OBVIOUS
  <2>2. n \in 0 .. MaxNesting
    BY <2>1, NestingAssumption
  <2>3. PICK u \in f[n] : t \in ToSet(Items(Field(u, "tools")))
    BY <1>3, <2>1 DEF NestedIn
  <2>4. IsTool(u) /\ u \in g[n]
    BY <1>5, <2>2, <2>3
  <2>5. ~IsMemberTool(u)
    <3>1. SUFFICES ASSUME IsMemberTool(u) PROVE FALSE
      OBVIOUS
    <3>2. Field(u, "tools") = Absent
      BY <3>1 DEF IsMemberTool, Field
    <3> QED
      BY <2>3, <3>2 DEF Items, Absent, ToSet
  <2>6. IsMemberTool(t) /\ IsKind(u, "namespace")
    BY <2>3, <2>4, <2>5 DEF IsTool, IsKind
  <2>7. t \in NestedInNamespaces(g[n])
    BY <2>3, <2>4, <2>6 DEF NestedInNamespaces
  <2> QED
    BY <1>3, <2>1, <2>6, <2>7 DEF IsTool
<1> HIDE DEF G
<1>6. \A n \in Nat : n \in G
  BY <1>4, <1>5, Induction
<1>7. SUFFICES ASSUME NEW n \in 0 .. MaxNesting, NEW t \in f[n]
               PROVE  IsTool(t) /\ \E kind \in Absorbed(tools) : Field(t, "type") = Str(kind)
  BY <1>1
<1>8. IsTool(t) /\ t \in g[n]
  BY <1>6, <1>7, NestingAssumption DEF G
<1>9. PICK kind \in {"function", "custom", "namespace"} : Field(t, "type") = Str(kind)
  BY <1>8 DEF IsTool, IsMemberTool
<1>10. kind \in Absorbed(tools)
  BY <1>2, <1>8, <1>9 DEF IsKind
<1> QED
  BY <1>8, <1>9, <1>10

-----------------------------------------------------------------------------
(* The fields of a request, and every tool that is declared in them.       *)

\* The tools and the items of accepted fields.
LEMMA FieldsAre ==
  ASSUME NEW d \in Documents, NEW m, NormalForm(d, m)
  PROVE  /\ \A t \in ToSet(Items(Field(Obj(m), "tools"))) : IsTool(t)
         /\ \A item \in ToSet(Items(Field(Obj(m), "input"))) : IsItem(item)
PROOF
<1>1. PICK C : Sound(C) /\ \A k \in DOMAIN m : m[k] \in C
  BY SoundBody
<1>2. ASSUME NEW k \in DOMAIN m PROVE RequestGives(RequestShape.keep[k], m[k], m[k])
  <2>1. CheckInRequest(RequestShape.keep[k], d.members[k]) = Ok(m[k])
    BY DEF NormalForm, RequestGives
  <2>2. CheckInRequest(RequestShape.keep[k], d.members[k]).ok
    BY <2>1 DEF Ok
  <2>3. PICK w : /\ CheckInRequest(RequestShape.keep[k], d.members[k]) = Ok(w)
                 /\ CheckInRequest(RequestShape.keep[k], w) = Ok(w)
    BY <2>2, RequestKeeps
  <2>4. w = m[k]
    BY <2>1, <2>3, OkIs
  <2> QED
    BY <2>3, <2>4 DEF RequestGives
<1>3. RequestShape.keep["tools"] = "tool_list" /\ RequestShape.keep["input"] = "input"
  BY DEF RequestShape, Shape
<1>4. ToSet(Items(Absent)) = {}
  BY DEF Items, Absent, ToSet
<1>5. \A k : k \in DOMAIN m => Field(Obj(m), k) = m[k]
  BY MembersOf
<1>6. \A k : k \notin DOMAIN m => Field(Obj(m), k) = Absent
  BY MembersOf
<1>7. \A t \in ToSet(Items(Field(Obj(m), "tools"))) : IsTool(t)
  <2>1. CASE "tools" \in DOMAIN m
    <3>1. RequestGives("tool_list", m["tools"], m["tools"]) /\ m["tools"] \in C
      BY <1>1, <1>2, <1>3, <2>1
    <3>2. \A t \in ToSet(Items(m["tools"])) : IsTool(t)
      BY <1>1, <3>1, RequestToolList
    <3> QED
      BY <1>5, <2>1, <3>2
  <2>2. CASE "tools" \notin DOMAIN m
    BY <1>4, <1>6, <2>2
  <2> QED
    BY <2>1, <2>2
<1>8. \A item \in ToSet(Items(Field(Obj(m), "input"))) : IsItem(item)
  <2>1. "input" \in DOMAIN m
    BY DEF NormalForm
  <2>2. RequestGives("input", m["input"], m["input"]) /\ m["input"] \in C
    BY <1>1, <1>2, <1>3, <2>1
  <2>3. \A item \in ToSet(Items(m["input"])) : IsItem(item)
    BY <1>1, <2>2, InputIs
  <2> QED
    BY <1>5, <2>1, <2>3
<1> QED
  BY <1>7, <1>8

\* No tools, no declarations.
LEMMA NoDeclarations ==
  ASSUME NEW tools, ToSet(tools) = {} PROVE Declarations(tools) = {}
PROOF
<1>1. PICK f : /\ DeclaredLevels(ToSet(tools), f, MaxNesting)
               /\ Declarations(tools) = UNION {f[n] : n \in 0 .. MaxNesting}
  BY DeclarationsAre
<1>2. f = [i \in 0 .. MaxNesting |-> IF i = 0 THEN ToSet(tools) ELSE NestedIn(f[i - 1])]
  BY <1>1 DEF DeclaredLevels
<1> DEFINE G == {n \in Nat : n \in 0 .. MaxNesting => f[n] = {}}
<1>3. 0 \in G
  BY <1>2, NestingAssumption
<1>4. ASSUME NEW n \in Nat, n \in G PROVE n + 1 \in G
  <2>1. SUFFICES ASSUME n + 1 \in 0 .. MaxNesting PROVE f[n + 1] = {}
    OBVIOUS
  <2>2. n \in 0 .. MaxNesting /\ n + 1 # 0 /\ (n + 1) - 1 = n
    BY <2>1, NestingAssumption
  <2>3. f[n + 1] = NestedIn(f[(n + 1) - 1])
    BY <1>2, <2>1, <2>2
  <2>4. f[n] = {}
    BY <1>4, <2>2
  <2> QED
    BY <2>2, <2>3, <2>4 DEF NestedIn
<1> HIDE DEF G
<1>5. \A n \in Nat : n \in G
  BY <1>3, <1>4, Induction
<1>6. \A n \in 0 .. MaxNesting : f[n] = {}
  BY <1>5, NestingAssumption DEF G
<1> QED
  BY <1>1, <1>6

\* Each declared tool, anywhere in the fields, is known and in the usage.
LEMMA EveryToolIs ==
  ASSUME NEW o,
         \A t \in ToSet(Items(Field(o, "tools"))) : IsTool(t),
         \A item \in ToSet(Items(Field(o, "input"))) : IsItem(item)
  PROVE  \A t \in EveryTool(o) :
           IsTool(t) /\ \E kind \in ToolUsage(o) : Field(t, "type") = Str(kind)
PROOF
<1>1. ASSUME NEW t \in Declarations(Items(Field(o, "tools")))
      PROVE  IsTool(t) /\ \E kind \in ToolUsage(o) : Field(t, "type") = Str(kind)
  BY <1>1, DeclarationsAreTools DEF ToolUsage
<1>2. ASSUME NEW item \in ToSet(Items(Field(o, "input"))),
             NEW t \in Declarations(Items(Field(item, "tools")))
      PROVE  IsTool(t) /\ \E kind \in ToolUsage(o) : Field(t, "type") = Str(kind)
  <2>1. \A x \in ToSet(Items(Field(item, "tools"))) : IsTool(x)
    BY <1>2 DEF IsItem
  <2>2. PICK kind \in Absorbed(Items(Field(item, "tools"))) : Field(t, "type") = Str(kind)
    BY <1>2, <2>1, DeclarationsAreTools
  <2>3. IsTool(t)
    BY <1>2, <2>1, DeclarationsAreTools
  <2>4. Has(item, "tools")
    <3>1. SUFFICES ASSUME ~Has(item, "tools") PROVE FALSE
      OBVIOUS
    <3>2. Field(item, "tools") = Absent
      BY <3>1 DEF Field
    <3>3. ToSet(Items(Field(item, "tools"))) = {}
      BY <3>2 DEF Items, Absent, ToSet
    <3> QED
      BY <1>2, <3>3, NoDeclarations
  <2>5. IsKind(item, "additional_tools")
    BY <1>2, <2>4 DEF IsItem
  <2>6. PICK i \in DOMAIN Items(Field(o, "input")) : item = Items(Field(o, "input"))[i]
    BY <1>2 DEF ToSet
  <2>7. i \in Declaring(o)
    BY <2>5, <2>6 DEF Declaring
  <2>8. kind \in Absorbed(Items(ToolsAt(o, i)))
    BY <2>2, <2>6 DEF ToolsAt
  <2>9. kind \in ToolUsage(o)
    BY <2>7, <2>8 DEF ToolUsage
  <2> QED
    BY <2>2, <2>3, <2>9
<1> QED
  BY <1>1, <1>2 DEF EveryTool

\* The tools are those of two fields.
LEMMA SameTools ==
  ASSUME NEW a, NEW b, Field(a, "tools") = Field(b, "tools"),
         Field(a, "input") = Field(b, "input")
  PROVE  EveryTool(a) = EveryTool(b)
  BY DEF EveryTool

-----------------------------------------------------------------------------
(* The bodies made from it.                                                *)

\* The keys a body may have.
BodyKeys == DOMAIN RequestShape.keep \cup {"background", "store", "stream", "service_tier"}
ServedElsewhere == {"previous_response_id", "conversation", "prompt", "client_metadata"}

\* b is an object of such fields, whose values are in C.
Made(b, C) ==
  \E n : b = Obj(n) /\ DOMAIN n \subseteq BodyKeys /\ \A k \in DOMAIN n : n[k] \in C

\* It stays one when a field is set, or some are left out.
LEMMA MadeWith ==
  ASSUME NEW C, NEW b, Made(b, C), NEW key \in BodyKeys, NEW v \in C
  PROVE  Made(With(b, key, v), C)
PROOF
<1>1. PICK n : b = Obj(n) /\ DOMAIN n \subseteq BodyKeys /\ \A k \in DOMAIN n : n[k] \in C
  BY DEF Made
<1> DEFINE p == [x \in DOMAIN n \cup {key} |-> IF x = key THEN v ELSE n[x]]
<1>2. With(b, key, v) = Obj(p)
  BY <1>1 DEF With, Keys, Obj
<1>3. DOMAIN p \subseteq BodyKeys /\ \A k \in DOMAIN p : p[k] \in C
  BY <1>1
<1> HIDE DEF p
<1> QED
  BY <1>2, <1>3 DEF Made

LEMMA MadeOnly ==
  ASSUME NEW C, NEW b, Made(b, C), NEW keys
  PROVE  Made(Only(b, keys), C)
PROOF
<1>1. PICK n : b = Obj(n) /\ DOMAIN n \subseteq BodyKeys /\ \A k \in DOMAIN n : n[k] \in C
  BY DEF Made
<1> DEFINE p == [k \in DOMAIN n \cap keys |-> n[k]]
<1>2. Only(b, keys) = Obj(p)
  BY <1>1, OnlyIs
<1>3. DOMAIN p \subseteq BodyKeys /\ \A k \in DOMAIN p : p[k] \in C
  BY <1>1
<1> HIDE DEF p
<1> QED
  BY <1>2, <1>3 DEF Made

\* A larger set does as well.
LEMMA MadeMore ==
  ASSUME NEW C, NEW b, Made(b, C), NEW D, C \subseteq D PROVE Made(b, D)
  BY DEF Made

\* Nothing is repeated in it, and nothing served elsewhere is named.
LEMMA MadeClean ==
  ASSUME NEW C, Sound(C), NEW b, Made(b, C)
  PROVE  NoDuplicates(b) /\ Keys(b) \cap ServedElsewhere = {}
PROOF
<1>1. PICK n : b = Obj(n) /\ DOMAIN n \subseteq BodyKeys /\ \A k \in DOMAIN n : n[k] \in C
  BY DEF Made
<1>2. BodyKeys \cap ServedElsewhere = {}
  BY DEF BodyKeys, ServedElsewhere, RequestShape, Shape
<1> QED
  BY <1>1, <1>2, NoDuplicatesIn, MembersOf

\* Values without parts may join.
LEMMA SoundLeaves ==
  ASSUME NEW C, Sound(C), NEW L,
         \A l \in L : \/ \E b : l = Bool(b)
                      \/ \E s : l = Str(s)
  PROVE  Sound(C \cup L)
PROOF
<1>1. ASSUME NEW l \in L
      PROVE  Parts(l) = {} /\ l.t # "object" /\ (l.t = "string" => l = Str(l.s))
  <2>1. CASE \E b : l = Bool(b)
    <3>1. l.t = "bool"
      BY <2>1 DEF Bool
    <3> QED
      BY <3>1, NoParts
  <2>2. CASE \E s : l = Str(s)
    <3>1. l.t = "string" /\ l = Str(l.s)
      BY <2>2 DEF Str
    <3> QED
      BY <3>1, NoParts
  <2> QED
    BY <2>1, <2>2
<1> QED
  BY <1>1 DEF Sound, Closed

\* The normalized request is one.
LEMMA MadeFields ==
  ASSUME NEW d \in Documents, NEW m, NormalForm(d, m)
  PROVE  \E C : /\ Sound(C) /\ Made(Obj(m), C)
                /\ \A k \in DOMAIN m : m[k] \in C
PROOF
<1>1. PICK C : Sound(C) /\ \A k \in DOMAIN m : m[k] \in C
  BY SoundBody
<1>2. DOMAIN m \subseteq BodyKeys
  BY DEF NormalForm, BodyKeys
<1> QED
  BY <1>1, <1>2 DEF Made

\* The body of the first provider is one.
LEMMA OpenAiMade ==
  ASSUME NEW C, Sound(C), NEW m, Made(Obj(m), C), NEW background
  PROVE  \E D : Sound(D) /\ Made(OpenAiBody(Obj(m), background), D)
PROOF
<1> DEFINE L == {Bool(background), Bool(TRUE), Str("default")}
           D == C \cup L
<1>1. Sound(D)
  <2>1. \A l \in L : (\E b : l = Bool(b)) \/ (\E s : l = Str(s))
    OBVIOUS
  <2> HIDE DEF L
  <2> QED
    BY <2>1, SoundLeaves
<1>2. Bool(background) \in D /\ Bool(TRUE) \in D /\ Str("default") \in D
  OBVIOUS
<1>3. C \subseteq D
  OBVIOUS
<1>4. {"background", "store", "stream", "service_tier"} \subseteq BodyKeys
  BY DEF BodyKeys
<1> HIDE DEF D
<1>5. Made(Obj(m), D)
  BY <1>3, MadeMore
<1>6. Made(With(Obj(m), "background", Bool(background)), D)
  BY <1>2, <1>4, <1>5, MadeWith
<1>7. Made(With(With(Obj(m), "background", Bool(background)), "store", Bool(TRUE)), D)
  BY <1>2, <1>4, <1>6, MadeWith
<1>8. Made(With(With(With(Obj(m), "background", Bool(background)), "store", Bool(TRUE)),
                "stream", Bool(TRUE)), D)
  BY <1>2, <1>4, <1>7, MadeWith
<1>9. Made(OpenAiBody(Obj(m), background), D)
  BY <1>2, <1>4, <1>8, MadeWith DEF OpenAiBody
<1> QED
  BY <1>1, <1>9

\* It stays one when a member of a field is picked.
LEMMA PickedMade ==
  ASSUME NEW C, Sound(C), NEW m, \A k \in DOMAIN m : m[k] \in C,
         NEW b, Made(b, C), NEW key \in BodyKeys, NEW member
  PROVE  \E D : Sound(D) /\ C \subseteq D /\ Made(Picked(b, Obj(m), key, member), D)
PROOF
<1> DEFINE v == Field(Field(Obj(m), key), member)
           n == [x \in {member} |-> v]
           D == C \cup {Obj(n)}
<1>1. CASE v = Absent
  <2>1. Picked(b, Obj(m), key, member) = b
    BY <1>1 DEF Picked
  <2> QED
    BY <2>1
<1>2. CASE v # Absent
  <2>1. Picked(b, Obj(m), key, member) = With(b, key, Obj(n))
    BY <1>2 DEF Picked
  <2>2. v \in C
    <3> DEFINE u == Field(Obj(m), key)
    <3>1. Has(u, member) /\ v = u.members[member]
      BY <1>2 DEF Field
    <3>2. u.t = "object" /\ member \in Keys(u)
      BY <3>1 DEF Has
    <3>3. key \in DOMAIN m
      <4>1. key \notin DOMAIN m => u = Absent
        BY MembersOf
      <4>2. u # Absent
        BY <3>2 DEF Absent
      <4> QED
        BY <4>1, <4>2
    <3>4. u = m[key]
      BY <3>3, MembersOf
    <3>5. u \in C
      BY <3>3, <3>4
    <3> HIDE DEF u, v
    <3>6. u.members[member] \in C
      BY <3>2, <3>5, MembersIn
    <3> QED
      BY <3>1, <3>6
  <2> HIDE DEF v
  <2>3. \A k \in DOMAIN n : n[k] \in C
    BY <2>2
  <2> HIDE DEF n
  <2>4. Sound(D)
    BY <2>3, NoDuplicatesIn
  <2>5. C \subseteq D /\ Obj(n) \in D
    OBVIOUS
  <2> HIDE DEF D
  <2>6. Made(b, D)
    BY <2>5, MadeMore
  <2>7. Made(With(b, key, Obj(n)), D)
    BY <2>5, <2>6, MadeWith
  <2> QED
    BY <2>1, <2>4, <2>5, <2>7
<1> QED
  BY <1>1, <1>2

-----------------------------------------------------------------------------
(* What leaves for the second provider.                                    *)

\* The fields the second route is chosen by.
Measured ==
  {"instructions", "input", "tools", "tool_choice", "parallel_tool_calls",
   "max_output_tokens", "temperature", "top_p"}

\* The body of the second provider is one.
LEMMA OpenRouterMade ==
  ASSUME NEW C, Sound(C), NEW m, Made(Obj(m), C), \A k \in DOMAIN m : m[k] \in C,
         NEW id
  PROVE  \E D : Sound(D) /\ Made(OpenRouterBody(Obj(m), id), D)
PROOF
<1> PICK b1 : b1 = Only(Obj(m), Measured)
  OBVIOUS
<1> PICK b2 : b2 = Picked(b1, Obj(m), "reasoning", "effort")
  OBVIOUS
<1> PICK b3 : b3 = Picked(b2, Obj(m), "text", "format")
  OBVIOUS
<1>0. {"reasoning", "text", "model", "stream", "store"} \subseteq BodyKeys
  BY DEF BodyKeys, RequestShape, Shape
<1>1. Made(b1, C)
  BY MadeOnly
<1>2. PICK C2 : Sound(C2) /\ C \subseteq C2 /\ Made(b2, C2)
  BY <1>0, <1>1, PickedMade
<1>3. \A k \in DOMAIN m : m[k] \in C2
  BY <1>2
<1>4. PICK C3 : Sound(C3) /\ C2 \subseteq C3 /\ Made(b3, C3)
  BY <1>0, <1>2, <1>3, PickedMade
<1> DEFINE L == {Str(id), Bool(TRUE), Bool(FALSE)}
           D == C3 \cup L
<1>5. Sound(D)
  <2>1. \A l \in L : (\E b : l = Bool(b)) \/ (\E s : l = Str(s))
    OBVIOUS
  <2> HIDE DEF L
  <2> QED
    BY <1>4, <2>1, SoundLeaves
<1>6. Str(id) \in D /\ Bool(TRUE) \in D /\ Bool(FALSE) \in D /\ C3 \subseteq D
  OBVIOUS
<1> HIDE DEF D
<1>7. Made(b3, D)
  BY <1>4, <1>6, MadeMore
<1>8. Made(With(b3, "model", Str(id)), D)
  BY <1>0, <1>6, <1>7, MadeWith
<1>9. Made(With(With(b3, "model", Str(id)), "stream", Bool(TRUE)), D)
  BY <1>0, <1>6, <1>8, MadeWith
<1>10. Made(With(With(With(b3, "model", Str(id)), "stream", Bool(TRUE)), "store", Bool(FALSE)), D)
  BY <1>0, <1>6, <1>9, MadeWith
<1>11. OpenRouterBody(Obj(m), id)
         = With(With(With(b3, "model", Str(id)), "stream", Bool(TRUE)), "store", Bool(FALSE))
  BY DEF OpenRouterBody, Measured
<1> QED
  BY <1>5, <1>10, <1>11

\* One member is picked; other fields are left.
LEMMA PickedIs ==
  ASSUME NEW n, NEW o, NEW key, NEW member, Field(Obj(n), key) = Absent
  PROVE  LET b == Picked(Obj(n), o, key, member)
         IN  /\ \E p : b = Obj(p)
             /\ \A k : k # key => Field(b, k) = Field(Obj(n), k)
             /\ Field(Field(b, key), member) = Field(Field(o, key), member)
PROOF
<1> DEFINE v == Field(Field(o, key), member)
           one == [x \in {member} |-> v]
           b == Picked(Obj(n), o, key, member)
<1>1. CASE v = Absent
  <2>1. b = Obj(n)
    BY <1>1 DEF Picked
  <2>2. Field(Absent, member) = Absent
    BY DEF Field, Has, Absent
  <2> QED
    BY <1>1, <2>1, <2>2
<1>2. CASE v # Absent
  <2>1. b = With(Obj(n), key, Obj(one))
    BY <1>2 DEF Picked
  <2>2. Field(Obj(one), member) = v
    BY MembersOf
  <2> HIDE DEF v, one, b
  <2>3. \A k : Field(With(Obj(n), key, Obj(one)), k)
                = IF k = key THEN Obj(one) ELSE Field(Obj(n), k)
    BY FieldOfWith
  <2>4. \E p : With(Obj(n), key, Obj(one)) = Obj(p)
    BY DEF With
  <2> QED
    BY <2>1, <2>2, <2>3, <2>4 DEF v, b
<1> QED
  BY <1>1, <1>2

\* It names the model, and those fields are the request's.
LEMMA OpenRouterFields ==
  ASSUME NEW m, NEW id
  PROVE  /\ Field(OpenRouterBody(Obj(m), id), "model") = Str(id)
         /\ \A k \in Measured :
              Field(OpenRouterBody(Obj(m), id), k) = Field(Obj(m), k)
         /\ Field(Field(OpenRouterBody(Obj(m), id), "text"), "format")
              = Field(Field(Obj(m), "text"), "format")
PROOF
<1>0. PICK yes : yes = Bool(TRUE)
  OBVIOUS
<1>1. PICK no : no = Bool(FALSE)
  OBVIOUS
<1>2. PICK b1 : b1 = Only(Obj(m), Measured)
  OBVIOUS
<1>3. PICK b2 : b2 = Picked(b1, Obj(m), "reasoning", "effort")
  OBVIOUS
<1>4. PICK b3 : b3 = Picked(b2, Obj(m), "text", "format")
  OBVIOUS
<1>5. PICK b4 : b4 = With(b3, "model", Str(id))
  OBVIOUS
<1>6. PICK b5 : b5 = With(b4, "stream", yes)
  OBVIOUS
<1>7. OpenRouterBody(Obj(m), id) = With(b5, "store", no)
  BY <1>0, <1>1, <1>2, <1>3, <1>4, <1>5, <1>6 DEF OpenRouterBody, Measured
<1>8. {"reasoning", "text", "model", "stream", "store"} \cap Measured = {}
  BY DEF Measured
<1>9. \A k : Field(b1, k) = IF k \in Measured THEN Field(Obj(m), k) ELSE Absent
  BY <1>2, FieldOfOnly
<1>10. PICK n1 : b1 = Obj(n1)
  BY <1>2 DEF Only
<1>11. /\ \E p : b2 = Obj(p)
       /\ \A k : k # "reasoning" => Field(b2, k) = Field(b1, k)
  <2>1. Field(Obj(n1), "reasoning") = Absent
    BY <1>8, <1>9, <1>10
  <2> QED
    BY <1>3, <1>10, <2>1, PickedIs
<1>12. PICK n2 : b2 = Obj(n2)
  BY <1>11
<1>13. /\ \E p : b3 = Obj(p)
       /\ \A k : k # "text" => Field(b3, k) = Field(b2, k)
       /\ Field(Field(b3, "text"), "format") = Field(Field(Obj(m), "text"), "format")
  <2>1. Field(Obj(n2), "text") = Absent
    BY <1>8, <1>9, <1>11, <1>12
  <2> QED
    BY <1>4, <1>12, <2>1, PickedIs
<1>14. PICK n3 : b3 = Obj(n3)
  BY <1>13
<1>15. (\E p : b4 = Obj(p)) /\ (\E p : b5 = Obj(p))
  BY <1>5, <1>6 DEF With
<1>16. \A k : Field(b4, k) = IF k = "model" THEN Str(id) ELSE Field(b3, k)
  BY <1>5, <1>14, FieldsOfWith
<1>17. \A k : Field(b5, k) = IF k = "stream" THEN yes ELSE Field(b4, k)
  <2>1. PICK n : b4 = Obj(n)
    BY <1>15
  <2>2. \A k : Field(With(Obj(n), "stream", yes), k)
                = IF k = "stream" THEN yes ELSE Field(Obj(n), k)
    BY FieldsOfWith
  <2> QED
    BY <1>6, <2>1, <2>2
<1>18. \A k : Field(With(b5, "store", no), k) = IF k = "store" THEN no ELSE Field(b5, k)
  <2>1. PICK n : b5 = Obj(n)
    BY <1>15
  <2>2. \A k : Field(With(Obj(n), "store", no), k)
                = IF k = "store" THEN no ELSE Field(Obj(n), k)
    BY FieldsOfWith
  <2> QED
    BY <2>1, <2>2
<1>19. Field(OpenRouterBody(Obj(m), id), "model") = Str(id)
  BY <1>7, <1>16, <1>17, <1>18
<1>20. ASSUME NEW k \in Measured
       PROVE  Field(OpenRouterBody(Obj(m), id), k) = Field(Obj(m), k)
  <2>1. k \notin {"reasoning", "text", "model", "stream", "store"}
    BY <1>8
  <2> QED
    BY <1>7, <1>9, <1>11, <1>13, <1>16, <1>17, <1>18, <2>1
<1>21. Field(Field(OpenRouterBody(Obj(m), id), "text"), "format")
         = Field(Field(Obj(m), "text"), "format")
  <2>1. Field(OpenRouterBody(Obj(m), id), "text") = Field(b3, "text")
    BY <1>7, <1>16, <1>17, <1>18
  <2> QED
    BY <1>13, <2>1
<1> QED
  BY <1>19, <1>20, <1>21

-----------------------------------------------------------------------------
(* What the runs check of the second route, and of all that leaves.        *)

\* A set of numbers that is not empty has a least one.
LEMMA LeastIn ==
  ASSUME NEW S, S \subseteq Nat, S # {}
  PROVE  Min(S) \in S
PROOF
<1> DEFINE R == OpToRel(<, Nat)
<1>1. PICK n \in S : \A i \in S : <<i, n>> \notin R
  <2>1. IsWellFoundedOn(R, Nat)
    BY NatLessThanWellFounded
  <2> QED
    BY <2>1, WFMin
<1>2. \A i \in S : n <= i
  <2>1. ASSUME NEW i \in S, i < n PROVE FALSE
    <3>1. i \in Nat /\ n \in Nat
      OBVIOUS
    <3>2. <<i, n>> \in OpToRel(<, Nat)
      BY <2>1, <3>1 DEF OpToRel
    <3> QED
      BY <1>1, <3>2
  <2> QED
    BY <2>1
<1> QED
  BY <1>2 DEF Min

\* The model that is chosen is a configured one that takes the request.
LEMMA RouteTakes ==
  ASSUME Route # NoModel
  PROVE  /\ Route \in ToSet(Routes)
         /\ Takes(Route, ToolUsage(fields), NeedsStructuredOutput(fields))
PROOF
<1> DEFINE fits == {i \in DOMAIN Routes :
                      Takes(Routes[i], ToolUsage(fields), NeedsStructuredOutput(fields))}
<1>1. fits # {} /\ Route = Routes[Min(fits)]
  BY DEF Route, ModelFor
<1>2. fits \subseteq Nat
  <2>1. DOMAIN Routes \subseteq Nat
    BY RoutesAssumption
  <2> QED
    BY <2>1
<1>3. Min(fits) \in fits
  <2> HIDE DEF fits
  <2> QED
    BY <1>1, <1>2, LeastIn
<1> QED
  BY <1>1, <1>3 DEF ToSet

\* The invariant gives the model that was chosen, for the fields the body keeps.
LEMMA SecondRoute == IInv => SecondRouteIsSafe
PROOF
<1>1. SUFFICES ASSUME IInv, Left("openrouter")
               PROVE  \E model \in ToSet(Routes) :
                        /\ Field(Body("openrouter"), "model") = Str(model.id)
                        /\ \A tool \in EveryTool(Body("openrouter")) :
                             Field(tool, "type").s \in model.tools
                        /\ NeedsStructuredOutput(Body("openrouter")) => model.structured
  BY DEF SecondRouteIsSafe, IInv, SentInv
<1>2. /\ Accepted /\ Route # NoModel
      /\ Body("openrouter") = OpenRouterBody(fields, Route.id)
      /\ document \in Documents
  BY <1>1 DEF IInv, SentInv, ProgressInv
<1>3. PICK m : Parse(document) = Ok(Obj(m)) /\ NormalForm(document, m)
  BY <1>2, ParseGives DEF Accepted
<1>4. fields = Obj(m)
  BY <1>2, <1>3 DEF Accepted, Ok
<1> DEFINE body == Body("openrouter")
<1>5. /\ Field(body, "model") = Str(Route.id)
      /\ \A k \in Measured : Field(body, k) = Field(fields, k)
      /\ Field(Field(body, "text"), "format") = Field(Field(fields, "text"), "format")
  BY <1>2, <1>4, OpenRouterFields
<1> HIDE DEF body
<1>6. Route \in ToSet(Routes) /\ Takes(Route, ToolUsage(fields), NeedsStructuredOutput(fields))
  BY <1>2, RouteTakes
<1>7. EveryTool(body) = EveryTool(fields)
  <2>1. "tools" \in Measured /\ "input" \in Measured
    BY DEF Measured
  <2> QED
    BY <1>5, <2>1, SameTools
<1>8. ASSUME NEW tool \in EveryTool(fields) PROVE Field(tool, "type").s \in Route.tools
  <2>1. /\ \A t \in ToSet(Items(Field(fields, "tools"))) : IsTool(t)
        /\ \A item \in ToSet(Items(Field(fields, "input"))) : IsItem(item)
    BY <1>2, <1>3, <1>4, FieldsAre
  <2>2. IsTool(tool) /\ \E kind \in ToolUsage(fields) : Field(tool, "type") = Str(kind)
    BY <1>8, <2>1, EveryToolIs
  <2>3. PICK kind \in ToolUsage(fields) : Field(tool, "type") = Str(kind)
    BY <2>2
  <2>4. Field(tool, "type").s = kind
    BY <2>3 DEF Str
  <2>5. kind # "additional_tools"
    <3>1. Field(tool, "type") \in {Str("function"), Str("custom"), Str("namespace")}
      BY <2>2 DEF IsTool, IsMemberTool
    <3>2. Field(tool, "type").s \in {"function", "custom", "namespace"}
      BY <3>1 DEF Str
    <3> QED
      BY <2>4, <3>2
  <2>6. kind \in {IF shape = "additional_tools" THEN "namespace" ELSE shape :
                    shape \in ToolUsage(fields)}
    BY <2>3, <2>5
  <2>7. kind \in Route.tools
    BY <1>6, <2>6 DEF Takes
  <2> QED
    BY <2>4, <2>7
<1>9. NeedsStructuredOutput(body) = NeedsStructuredOutput(fields)
  BY <1>5 DEF NeedsStructuredOutput, FormatOf
<1>10. NeedsStructuredOutput(fields) => Route.structured
  BY <1>6 DEF Takes
<1> QED
  BY <1>5, <1>6, <1>7, <1>8, <1>9, <1>10 DEF body

\* What holds of a body made from accepted fields, whoever it is for.
Clean(body) ==
  /\ NoDuplicates(body)
  /\ \A tool \in EveryTool(body) :
       /\ Field(tool, "type") \in
            {Str("function"), Str("custom"), Str("namespace")}
       /\ Field(tool, "defer_loading") \in {Absent, Bool(FALSE)}
  /\ Keys(body) \cap {"previous_response_id", "conversation", "prompt",
                      "client_metadata"} = {}
  /\ \A item \in ToSet(Items(Field(body, "input"))) :
       /\ Keys(item) \cap {"id", "status"} = {}
       /\ \A part \in ContentOf(item) :
            Field(part, "image_url").t = "string"
              => Field(part, "image_url").s \in Inline

\* It is so of one whose values are the request's, its tools and items among them.
LEMMA MadeIsClean ==
  ASSUME NEW d \in Documents, NEW m, NormalForm(d, m),
         NEW C, Sound(C), NEW body, Made(body, C),
         Field(body, "tools") = Field(Obj(m), "tools"),
         Field(body, "input") = Field(Obj(m), "input")
  PROVE  Clean(body)
PROOF
<1>1. /\ \A t \in ToSet(Items(Field(body, "tools"))) : IsTool(t)
      /\ \A item \in ToSet(Items(Field(body, "input"))) : IsItem(item)
  BY FieldsAre
<1>2. \A t \in EveryTool(body) : IsTool(t)
  BY <1>1, EveryToolIs
<1>3. ASSUME NEW tool \in EveryTool(body)
      PROVE  /\ Field(tool, "type") \in {Str("function"), Str("custom"), Str("namespace")}
             /\ Field(tool, "defer_loading") \in {Absent, Bool(FALSE)}
  BY <1>2, <1>3 DEF IsTool, IsMemberTool
<1>4. NoDuplicates(body) /\ Keys(body) \cap ServedElsewhere = {}
  BY MadeClean
<1>5. ASSUME NEW item \in ToSet(Items(Field(body, "input")))
      PROVE  /\ Keys(item) \cap {"id", "status"} = {}
             /\ \A part \in ContentOf(item) :
                  Field(part, "image_url").t = "string"
                    => Field(part, "image_url").s \in Inline
  BY <1>1, <1>5 DEF IsItem, IsPart
<1> QED
  BY <1>3, <1>4, <1>5 DEF Clean, ServedElsewhere

\* Both providers' bodies are such.
LEMMA NothingElsewhere == IInv => NothingBilledElsewhere
PROOF
<1>1. SUFFICES ASSUME IInv, NEW provider \in DOMAIN sent, Left(provider)
               PROVE  Clean(Body(provider))
  BY DEF NothingBilledElsewhere, Clean
<1>2. Accepted /\ document \in Documents /\ provider \in {"openai", "openrouter"}
  BY <1>1 DEF IInv, SentInv, ProgressInv
<1>3. PICK m : Parse(document) = Ok(Obj(m)) /\ NormalForm(document, m)
  BY <1>2, ParseGives DEF Accepted
<1>4. fields = Obj(m)
  BY <1>2, <1>3 DEF Accepted, Ok
<1>5. PICK C : /\ Sound(C) /\ Made(Obj(m), C)
               /\ \A k \in DOMAIN m : m[k] \in C
  BY <1>2, <1>3, MadeFields
<1>6. CASE provider = "openai"
  <2> DEFINE runs == Background(Model(fields), Cap(fields))
  <2>1. Body(provider) = OpenAiBody(Obj(m), runs)
    BY <1>1, <1>4, <1>6 DEF IInv, SentInv
  <2> HIDE DEF runs
  <2>2. PICK D : Sound(D) /\ Made(OpenAiBody(Obj(m), runs), D)
    BY <1>5, OpenAiMade
  <2>3. \A k : k \notin {"background", "store", "stream", "service_tier"}
          => Field(OpenAiBody(Obj(m), runs), k) = Field(Obj(m), k)
    BY OpenAiFields
  <2>4. /\ Field(OpenAiBody(Obj(m), runs), "tools") = Field(Obj(m), "tools")
        /\ Field(OpenAiBody(Obj(m), runs), "input") = Field(Obj(m), "input")
    BY <2>3
  <2> QED
    BY <1>2, <1>3, <2>1, <2>2, <2>4, MadeIsClean
<1>7. CASE provider = "openrouter"
  <2>1. Body(provider) = OpenRouterBody(Obj(m), Route.id)
    BY <1>1, <1>4, <1>7 DEF IInv, SentInv
  <2>2. PICK D : Sound(D) /\ Made(OpenRouterBody(Obj(m), Route.id), D)
    BY <1>5, OpenRouterMade
  <2>3. "tools" \in Measured /\ "input" \in Measured
    BY DEF Measured
  <2>4. /\ Field(OpenRouterBody(Obj(m), Route.id), "tools") = Field(Obj(m), "tools")
        /\ Field(OpenRouterBody(Obj(m), Route.id), "input") = Field(Obj(m), "input")
    BY <2>3, OpenRouterFields
  <2> QED
    BY <1>2, <1>3, <2>1, <2>2, <2>4, MadeIsClean
<1> QED
  BY <1>2, <1>6, <1>7

-----------------------------------------------------------------------------
(* Totals, as in LedgerProofs: a total is a number, that of two sets apart *)
(* is the sum of theirs, and larger amounts make a larger one.             *)

LEMMA TokensFinite ==
  ASSUME NEW S, IsFiniteSet(S), NEW f, \A i \in S : f[i] \in Nat
  PROVE  IsFiniteSet(Tokens(S, f)) /\ Total(S, f) \in Nat
<1> DEFINE piece == [i \in S |-> {i} \X (1..f[i])]
           pieces == {{i} \X (1..f[i]) : i \in S}
<1>1. piece \in Surjection(S, pieces)
  BY DEF Surjection
<1>2. IsFiniteSet(pieces)
  BY <1>1, FS_Surjection
<1>3. \A T \in pieces : IsFiniteSet(T)
  <2> SUFFICES ASSUME NEW i \in S PROVE IsFiniteSet({i} \X (1..f[i]))
    OBVIOUS
  <2>1. IsFiniteSet({i})
    BY FS_Singleton
  <2>2. IsFiniteSet(1..f[i])
    BY FS_Interval
  <2>3. QED
    BY <2>1, <2>2, FS_Product
<1>4. IsFiniteSet(UNION pieces)
  BY <1>2, <1>3, FS_UNION
<1>5. QED
  BY <1>4, FS_CardinalityType DEF Tokens, Total

LEMMA TotalEmpty == ASSUME NEW f PROVE Total({}, f) = 0
BY FS_EmptySet DEF Total, Tokens

LEMMA TotalOne ==
  ASSUME NEW i, NEW f, f[i] \in Nat
  PROVE  Total({i}, f) = f[i]
<1>1. Tokens({i}, f) = {i} \X (1..f[i])
  BY DEF Tokens
<1>2. IsFiniteSet({i}) /\ Cardinality({i}) = 1
  BY FS_Singleton
<1>3. IsFiniteSet(1..f[i]) /\ Cardinality(1..f[i]) = f[i]
  BY FS_Interval
<1>4. Cardinality({i} \X (1..f[i])) = Cardinality({i}) * Cardinality(1..f[i])
  BY <1>2, <1>3, FS_Product
<1>5. Cardinality({i}) * Cardinality(1..f[i]) = 1 * f[i]
  BY <1>2, <1>3
<1>6. 1 * f[i] = f[i]
  OBVIOUS
<1>7. QED
  BY <1>1, <1>4, <1>5, <1>6 DEF Total

LEMMA TotalUnion ==
  ASSUME NEW S, NEW T, IsFiniteSet(S), IsFiniteSet(T), S \cap T = {},
         NEW f, \A i \in S \cup T : f[i] \in Nat
  PROVE  Total(S \cup T, f) = Total(S, f) + Total(T, f)
<1>1. Tokens(S \cup T, f) = Tokens(S, f) \cup Tokens(T, f)
  BY DEF Tokens
<1>2. Tokens(S, f) \cap Tokens(T, f) = {}
  BY DEF Tokens
<1>3. IsFiniteSet(Tokens(S, f)) /\ IsFiniteSet(Tokens(T, f))
  BY TokensFinite
<1>4. Total(S, f) \in Nat /\ Total(T, f) \in Nat
  BY TokensFinite
<1>5. Cardinality(Tokens(S, f) \cup Tokens(T, f)) =
        Total(S, f) + Total(T, f) - Cardinality(Tokens(S, f) \cap Tokens(T, f))
  BY <1>3, FS_Union DEF Total
<1>6. Cardinality(Tokens(S, f) \cap Tokens(T, f)) = 0
  BY <1>2, FS_EmptySet
<1>7. Total(S \cup T, f) = Cardinality(Tokens(S, f) \cup Tokens(T, f))
  BY <1>1 DEF Total
<1>8. QED
  BY <1>4, <1>5, <1>6, <1>7

LEMMA TotalSame ==
  ASSUME NEW S, NEW f, NEW g, \A i \in S : f[i] = g[i]
  PROVE  Total(S, f) = Total(S, g)
<1>1. {{i} \X (1..f[i]) : i \in S} = {{i} \X (1..g[i]) : i \in S}
  OBVIOUS
<1>2. QED
  BY <1>1 DEF Total, Tokens

LEMMA TotalWithin ==
  ASSUME NEW S, IsFiniteSet(S), NEW f, NEW g,
         \A i \in S : f[i] \in Nat /\ g[i] \in Nat /\ f[i] <= g[i]
  PROVE  Total(S, f) \in Nat /\ Total(S, g) \in Nat /\ Total(S, f) <= Total(S, g)
<1>1. Tokens(S, f) \subseteq Tokens(S, g)
  BY DEF Tokens
<1>2. IsFiniteSet(Tokens(S, g)) /\ Total(S, f) \in Nat /\ Total(S, g) \in Nat
  BY TokensFinite
<1>3. Cardinality(Tokens(S, f)) <= Cardinality(Tokens(S, g))
  BY <1>1, <1>2, FS_Subset
<1>4. QED
  BY <1>2, <1>3 DEF Total

LEMMA TotalMember ==
  ASSUME NEW S, IsFiniteSet(S), NEW f, \A i \in S : f[i] \in Nat, NEW i \in S
  PROVE  /\ Total(S, f) = f[i] + Total(S \ {i}, f)
         /\ Total(S, f) \in Nat /\ Total(S \ {i}, f) \in Nat
<1>1. IsFiniteSet({i}) /\ IsFiniteSet(S \ {i})
  BY FS_Singleton, FS_Subset
<1>2. S = {i} \cup (S \ {i}) /\ {i} \cap (S \ {i}) = {}
  OBVIOUS
<1>3. Total({i} \cup (S \ {i}), f) = Total({i}, f) + Total(S \ {i}, f)
  <2>1. \A j \in {i} \cup (S \ {i}) : f[j] \in Nat
    OBVIOUS
  <2>2. QED
    BY <1>1, <1>2, <2>1, TotalUnion
<1>4. Total({i}, f) = f[i]
  BY TotalOne
<1>5. Total(S, f) \in Nat /\ Total(S \ {i}, f) \in Nat
  BY <1>1, TokensFinite
<1>6. QED
  BY <1>2, <1>3, <1>4, <1>5

-----------------------------------------------------------------------------
(* What is counted of a body: what its input fields hold, for its model.   *)

LEMMA InputFieldsFinite == \A body : IsFiniteSet(Keys(body) \cap InputFields)
PROOF
<1>1. IsFiniteSet({"instructions"}) /\ IsFiniteSet({"input"}) /\ IsFiniteSet({"tools"})
      /\ IsFiniteSet({"tool_choice"}) /\ IsFiniteSet({"parallel_tool_calls"})
      /\ IsFiniteSet({"reasoning"}) /\ IsFiniteSet({"text"})
  BY FS_Singleton
<1>2. IsFiniteSet({"instructions"} \cup {"input"} \cup {"tools"})
  BY <1>1, FS_Union
<1>3. IsFiniteSet({"tool_choice"} \cup {"parallel_tool_calls"} \cup {"reasoning"} \cup {"text"})
  BY <1>1, FS_Union
<1>4. IsFiniteSet(({"instructions"} \cup {"input"} \cup {"tools"}) \cup
         ({"tool_choice"} \cup {"parallel_tool_calls"} \cup {"reasoning"} \cup {"text"}))
  BY <1>2, <1>3, FS_Union
<1>5. InputFields = ({"instructions"} \cup {"input"} \cup {"tools"}) \cup
         ({"tool_choice"} \cup {"parallel_tool_calls"} \cup {"reasoning"} \cup {"text"})
  BY DEF InputFields
<1>6. IsFiniteSet(InputFields)
  BY <1>4, <1>5
<1> QED
  BY <1>6, FS_Subset

\* Two bodies that agree on the model and the input fields count the same.
LEMMA CountsAlike ==
  ASSUME NEW b, NEW c, Model(b) = Model(c),
         Keys(b) \cap InputFields = Keys(c) \cap InputFields,
         \A k \in Keys(c) \cap InputFields : b.members[k] = c.members[k]
  PROVE  Count(b) = Count(c)
PROOF
<1> DEFINE there == Keys(c) \cap InputFields
           f == [k \in there |-> 1 + TokensOf(Model(c), b.members[k])]
           g == [k \in there |-> 1 + TokensOf(Model(c), c.members[k])]
<1>1. Count(b) = Total(there, f) /\ Count(c) = Total(there, g)
  BY DEF Count
<1>2. f = g
  OBVIOUS
<1> QED
  BY <1>1, <1>2

\* Each field weighs in, when all are counted by numbers.
LEMMA CountHolds ==
  ASSUME NEW b,
         \A k \in Keys(b) \cap InputFields : TokensOf(Model(b), b.members[k]) \in Nat
  PROVE  /\ Count(b) \in Nat
         /\ \A k \in Keys(b) \cap InputFields : TokensOf(Model(b), b.members[k]) <= Count(b)
PROOF
<1> DEFINE there == Keys(b) \cap InputFields
           f == [k \in there |-> 1 + TokensOf(Model(b), b.members[k])]
<1>1. Count(b) = Total(there, f)
  BY DEF Count
<1>2. IsFiniteSet(there)
  BY InputFieldsFinite
<1>3. \A k \in there : f[k] \in Nat /\ f[k] = 1 + TokensOf(Model(b), b.members[k])
  OBVIOUS
<1> HIDE DEF there, f
<1>4. Total(there, f) \in Nat
  BY <1>2, <1>3, TokensFinite
<1>5. ASSUME NEW k \in there PROVE TokensOf(Model(b), b.members[k]) <= Total(there, f)
  <2>1. Total(there, f) = f[k] + Total(there \ {k}, f) /\ Total(there \ {k}, f) \in Nat
    BY <1>2, <1>3, TotalMember
  <2>2. TokensOf(Model(b), b.members[k]) \in Nat
    BY DEF there
  <2> QED
    BY <1>3, <2>1, <2>2
<1> QED
  BY <1>1, <1>4, <1>5 DEF there

-----------------------------------------------------------------------------
(* The count bodies: they hold together what generation renders.           *)

\* The input's items have positions from one on, finitely many.
LEMMA DeclaringFinite ==
  ASSUME NEW d \in Documents, NEW m, NormalForm(d, m)
  PROVE  IsFiniteSet(Declaring(Obj(m))) /\ 0 \notin Declaring(Obj(m))
PROOF
<1> DEFINE u == d.members["input"]
           v == m["input"]
<1>1. "input" \in DOMAIN m /\ "input" \in Keys(d) /\ d.t = "object"
  BY DEF NormalForm
<1>2. IsValue(u)
  BY <1>1, MemberIsValue
<1>3. CheckInRequest("input", u) = Ok(v)
  <2>1. RequestShape.keep["input"] = "input"
    BY DEF RequestShape, Shape
  <2> QED
    BY <1>1, <2>1 DEF NormalForm, RequestGives
<1>4. Field(Obj(m), "input") = v
  BY <1>1, MembersOf
<1> HIDE DEF u, v
<1>5. CASE u.t = "string"
  <2>1. "input" \in DOMAIN StringOrArrayOf
    BY DEF StringOrArrayOf
  <2>2. CheckInRequest("input", u) = Ok(u)
    BY <1>5, <2>1, Disjoint DEF CheckInRequest, CheckIn
  <2>3. v = u
    BY <1>3, <2>2, OkIs
  <2>4. Items(v) = <<>>
    BY <1>5, <2>3 DEF Items
  <2>5. Declaring(Obj(m)) = {}
    <3>1. DOMAIN Items(Field(Obj(m), "input")) = {}
      BY <1>4, <2>4
    <3> QED
      BY <3>1 DEF Declaring
  <2> QED
    BY <2>5, FS_EmptySet
<1>6. CASE u.t # "string"
  <2>1. "input" \in DOMAIN StringOrArrayOf /\ StringOrArrayOf["input"] = "input_item"
    BY DEF StringOrArrayOf
  <2>2. CheckInRequest("input", u) = IF u.t = "string" THEN Ok(u)
                                     ELSE CheckEach(CheckInItem, StringOrArrayOf["input"], u)
    BY <2>1, Disjoint DEF CheckInRequest, CheckIn
  <2>3. CheckEach(CheckInItem, "input_item", u) = Ok(v)
    BY <1>3, <1>6, <2>1, <2>2
  <2>4. CheckEach(CheckInItem, "input_item", u).ok
    BY <2>3 DEF Ok
  <2>5. PICK s : /\ u.t = "array"
                 /\ CheckEach(CheckInItem, "input_item", u) = Ok(Arr(s))
                 /\ DOMAIN s = DOMAIN u.items
    BY <2>4, ItemEach
  <2>6. v = Arr(s)
    BY <2>3, <2>5, OkIs
  <2>7. Items(v) = s
    BY <2>6 DEF Items, Arr
  <2>8. u.items \in Seq(Parts(u))
    BY <1>2, <2>5 DEF IsValue, Null, Bool, Num, Str, Arr, Obj, Repeating
  <2>9. DOMAIN s = 1 .. Len(u.items) /\ Len(u.items) \in Nat
    BY <2>5, <2>8
  <2>10. Declaring(Obj(m)) \subseteq 1 .. Len(u.items)
    <3>1. DOMAIN Items(Field(Obj(m), "input")) = 1 .. Len(u.items)
      BY <1>4, <2>7, <2>9
    <3> QED
      BY <3>1 DEF Declaring
  <2>11. IsFiniteSet(1 .. Len(u.items))
    BY <2>9, FS_Interval
  <2>12. 0 \notin 1 .. Len(u.items)
    BY <2>9
  <2> QED
    BY <2>10, <2>11, <2>12, FS_Subset
<1> QED
  BY <1>5, <1>6

\* The first count body has the request's input fields.
LEMMA FirstCountBody ==
  ASSUME NEW m
  PROVE  /\ Model(Counted(Obj(m))) = Model(Obj(m))
         /\ Keys(Counted(Obj(m))) \cap InputFields = DOMAIN m \cap InputFields
         /\ \A k \in DOMAIN m \cap InputFields : Counted(Obj(m)).members[k] = m[k]
PROOF
<1> DEFINE names == {"model", "instructions", "input", "tools", "tool_choice",
                     "parallel_tool_calls", "reasoning", "text"}
           n == [k \in DOMAIN m \cap names |-> m[k]]
<1>1. Counted(Obj(m)) = Obj(n)
  BY OnlyIs DEF Counted
<1>2. DOMAIN n = DOMAIN m \cap names /\ \A k \in DOMAIN n : n[k] = m[k]
  OBVIOUS
<1>3. InputFields \subseteq names
  BY DEF InputFields
<1>4. Field(Counted(Obj(m)), "model") = Field(Obj(m), "model")
  BY CountedFields
<1> HIDE DEF n, names
<1> QED
  BY <1>1, <1>2, <1>3, <1>4, MembersOf DEF Model

\* Each further one declares the tools of its item.
LEMMA FurtherCountBody ==
  ASSUME NEW m, NEW i, NEW named \in SUBSET {"tool_choice"}
  PROVE  LET c == Without(Hoisted(Obj(m), i), named)
         IN  /\ Model(c) = Model(Obj(m))
             /\ "tools" \in Keys(c) \cap InputFields
             /\ c.members["tools"] = ToolsAt(Obj(m), i)
PROOF
<1> DEFINE tools == ToolsAt(Obj(m), i)
           rest == Arr(Remaining(Obj(m)))
<1>1. PICK p : Counted(Obj(m)) = Obj(p)
  BY DEF Counted, Only
<1>2. PICK q : With(Obj(p), "input", rest) = Obj(q)
  BY DEF With
<1> DEFINE n == [k \in DOMAIN q \cup {"tools"} |-> IF k = "tools" THEN tools ELSE q[k]]
<1>3. Hoisted(Obj(m), i) = With(Obj(q), "tools", tools)
  BY <1>1, <1>2 DEF Hoisted
<1>4. With(Obj(q), "tools", tools) = Obj(n)
  BY DEF With, Keys, Obj
<1>5. "tools" \in DOMAIN n /\ n["tools"] = tools
  OBVIOUS
<1>6. Field(Obj(n), "model") = Field(Obj(m), "model")
  <2>1. Field(Obj(n), "model") = Field(Obj(q), "model")
    BY <1>4, FieldOfWith
  <2>2. Field(Obj(q), "model") = Field(Obj(p), "model")
    BY <1>2, FieldOfWith
  <2>3. Field(Obj(p), "model") = Field(Obj(m), "model")
    BY <1>1, CountedFields
  <2> QED
    BY <2>1, <2>2, <2>3
<1> HIDE DEF n, tools
<1> DEFINE o == [k \in DOMAIN n \cap (DOMAIN n \ named) |-> n[k]]
<1>7. Without(Obj(n), named) = Obj(o)
  <2>1. Without(Obj(n), named) = Only(Obj(n), Keys(Obj(n)) \ named)
    BY DEF Without
  <2>2. Keys(Obj(n)) = DOMAIN n
    BY MembersOf
  <2>3. Only(Obj(n), DOMAIN n \ named) = Obj(o)
    BY OnlyIs
  <2> QED
    BY <2>1, <2>2, <2>3
<1>8. "tools" \in DOMAIN o /\ o["tools"] = tools
  BY <1>5
<1>9. Field(Without(Obj(n), named), "model") = Field(Obj(m), "model")
  <2>1. Field(Without(Obj(n), named), "model")
          = IF "model" \in Keys(Obj(n)) \ named THEN Field(Obj(n), "model") ELSE Absent
    BY FieldOfOnly DEF Without
  <2>2. "model" \notin Keys(Obj(n)) => Field(Obj(n), "model") = Absent
    BY MembersOf
  <2> QED
    BY <1>6, <2>1, <2>2
<1> HIDE DEF o
<1>10. "tools" \in Keys(Obj(o)) /\ Obj(o).members["tools"] = tools
  BY <1>8, MembersOf
<1>11. "tools" \in InputFields
  BY DEF InputFields
<1>12. Without(Hoisted(Obj(m), i), named) = Obj(o)
  BY <1>3, <1>4, <1>7
<1> QED
  BY <1>7, <1>9, <1>10, <1>11, <1>12 DEF Model, tools

\* What each count body counts, and all of them together.
Counts(f) == [i \in DOMAIN CountBodies(f) |-> Count(CountBodies(f)[i])]
CountedTotal(f) == Total(DOMAIN CountBodies(f), Counts(f))

\* The count bodies of an accepted request, one by one.
LEMMA CountBodiesAre ==
  ASSUME NEW m
  PROVE  /\ DOMAIN CountBodies(Obj(m)) = {0} \cup Declaring(Obj(m))
         /\ CountBodies(Obj(m))[0] = Counted(Obj(m))
         /\ \A i \in Declaring(Obj(m)) : i # 0 =>
              \E named \in SUBSET {"tool_choice"} :
                CountBodies(Obj(m))[i] = Without(Hoisted(Obj(m), i), named)
PROOF
<1> DEFINE named == IF Field(Obj(m), "tool_choice").t = "object" THEN {"tool_choice"} ELSE {}
<1>1. CountBodies(Obj(m)) =
        [i \in {0} \cup Declaring(Obj(m)) |->
           IF i = 0 THEN Counted(Obj(m)) ELSE Without(Hoisted(Obj(m), i), named)]
  BY DEF CountBodies
<1>2. named \in SUBSET {"tool_choice"}
  OBVIOUS
<1> HIDE DEF named
<1> QED
  BY <1>1, <1>2

\* Each counts as a number, and a further one no less than the tools it is for.
LEMMA CountsAre ==
  ASSUME NEW d \in Documents, NEW m, Parse(d) = Ok(Obj(m)), NormalForm(d, m)
  PROVE  /\ \A i \in DOMAIN CountBodies(Obj(m)) : Count(CountBodies(Obj(m))[i]) \in Nat
         /\ Count(CountBodies(Obj(m))[0]) = Count(Obj(m))
         /\ \A k \in DOMAIN m \cap InputFields : TokensOf(Model(Obj(m)), m[k]) \in Nat
         /\ \A i \in Declaring(Obj(m)) :
              /\ TokensOf(Model(Obj(m)), ToolsAt(Obj(m), i)) \in Nat
              /\ TokensOf(Model(Obj(m)), ToolsAt(Obj(m), i)) <= Count(CountBodies(Obj(m))[i])
PROOF
<1> DEFINE f == Obj(m)
           B(i) == CountBodies(f)[i]
<1>1. f \in Requests
  <2>1. Parse(d).ok /\ Parse(d).value = f
    BY DEF Ok
  <2> QED
    BY <2>1 DEF Requests
<1>2. \A i \in DOMAIN CountBodies(f) : \A k \in Keys(B(i)) \cap InputFields :
        TokensOf(Model(f), B(i).members[k]) \in Nat
  BY <1>1, TokensAssumption
<1>3. 0 \notin Declaring(f)
  BY DeclaringFinite
<1>4. ASSUME NEW i \in Declaring(f)
      PROVE  /\ Model(B(i)) = Model(f)
             /\ "tools" \in Keys(B(i)) \cap InputFields
             /\ B(i).members["tools"] = ToolsAt(f, i)
  <2>1. PICK named \in SUBSET {"tool_choice"} : B(i) = Without(Hoisted(f, i), named)
    BY <1>3, CountBodiesAre
  <2> QED
    BY <2>1, FurtherCountBody
<1>5. /\ Model(B(0)) = Model(f)
      /\ Keys(B(0)) \cap InputFields = DOMAIN m \cap InputFields
      /\ \A k \in DOMAIN m \cap InputFields : B(0).members[k] = m[k]
  BY CountBodiesAre, FirstCountBody
<1>6. DOMAIN CountBodies(f) = {0} \cup Declaring(f)
  BY CountBodiesAre
<1>7. Keys(f) = DOMAIN m /\ f.members = m
  BY MembersOf
<1> HIDE DEF f, B
<1>8. ASSUME NEW i \in DOMAIN CountBodies(f)
      PROVE  /\ Count(B(i)) \in Nat
             /\ \A k \in Keys(B(i)) \cap InputFields :
                  TokensOf(Model(B(i)), B(i).members[k]) <= Count(B(i))
  <2>1. Model(B(i)) = Model(f)
    BY <1>4, <1>5, <1>6
  <2>2. \A k \in Keys(B(i)) \cap InputFields : TokensOf(Model(B(i)), B(i).members[k]) \in Nat
    BY <1>2, <2>1
  <2> QED
    BY <2>2, CountHolds
<1>9. Count(B(0)) = Count(f)
  BY <1>5, <1>7, CountsAlike
<1>10. \A k \in DOMAIN m \cap InputFields : TokensOf(Model(f), m[k]) \in Nat
  BY <1>2, <1>5, <1>6
<1>11. ASSUME NEW i \in Declaring(f)
       PROVE  TokensOf(Model(f), ToolsAt(f, i)) \in Nat
              /\ TokensOf(Model(f), ToolsAt(f, i)) <= Count(B(i))
  <2>1. i \in DOMAIN CountBodies(f)
    BY <1>6, <1>11
  <2>2. TokensOf(Model(B(i)), B(i).members["tools"]) <= Count(B(i))
    BY <1>4, <1>8, <1>11, <2>1
  <2>3. TokensOf(Model(f), B(i).members["tools"]) \in Nat
    BY <1>2, <1>4, <1>11, <2>1
  <2> QED
    BY <1>4, <1>11, <2>2, <2>3
<1> QED
  BY <1>8, <1>9, <1>10, <1>11 DEF f, B

\* The bodies that are counted hold what generation renders.
LEMMA CountsCover ==
  ASSUME NEW d \in Documents, NEW m, Parse(d) = Ok(Obj(m)), NormalForm(d, m)
  PROVE  /\ CountedTotal(Obj(m)) \in Nat
         /\ Generated(Obj(m)) \in Nat
         /\ Generated(Obj(m)) <= CountedTotal(Obj(m))
PROOF
<1> DEFINE f == Obj(m)
           D == Declaring(f)
           B(i) == CountBodies(f)[i]
           tools == [i \in D |-> TokensOf(Model(f), ToolsAt(f, i))]
<1>1. IsFiniteSet(D) /\ 0 \notin D
  BY DeclaringFinite
<1>2. DOMAIN CountBodies(f) = {0} \cup D
  BY CountBodiesAre
<1>3. /\ \A i \in DOMAIN CountBodies(f) : Count(B(i)) \in Nat
      /\ Count(B(0)) = Count(f)
      /\ \A i \in D : /\ TokensOf(Model(f), ToolsAt(f, i)) \in Nat
                      /\ TokensOf(Model(f), ToolsAt(f, i)) <= Count(B(i))
  BY CountsAre
<1>4. Generated(f) = Count(f) + Total(D, tools)
  BY DEF Generated
<1>5. \A i \in {0} \cup D : Counts(f)[i] = Count(B(i))
  BY <1>2 DEF Counts
<1>6. \A i \in D : tools[i] = TokensOf(Model(f), ToolsAt(f, i))
  OBVIOUS
<1>7. CountedTotal(f) = Total({0} \cup D, Counts(f))
  BY <1>2 DEF CountedTotal
<1> HIDE DEF f, D, B, tools
<1>8. IsFiniteSet({0} \cup D)
  BY <1>1, FS_AddElement
<1>9. \A i \in {0} \cup D : Counts(f)[i] \in Nat
  BY <1>2, <1>3, <1>5
<1>10. /\ Total({0} \cup D, Counts(f))
            = Counts(f)[0] + Total(({0} \cup D) \ {0}, Counts(f))
       /\ Total({0} \cup D, Counts(f)) \in Nat
  BY <1>8, <1>9, TotalMember
<1>11. ({0} \cup D) \ {0} = D
  BY <1>1
<1>12. Total(D, tools) \in Nat /\ Total(D, Counts(f)) \in Nat
       /\ Total(D, tools) <= Total(D, Counts(f))
  <2>1. \A i \in D : tools[i] \in Nat /\ Counts(f)[i] \in Nat /\ tools[i] <= Counts(f)[i]
    BY <1>3, <1>5, <1>6, <1>9
  <2> QED
    BY <1>1, <2>1, TotalWithin
<1>13. Counts(f)[0] = Count(f) /\ Count(f) \in Nat
  BY <1>2, <1>3, <1>5
<1> QED
  BY <1>4, <1>7, <1>10, <1>11, <1>12, <1>13 DEF f

-----------------------------------------------------------------------------
(* What leaves costs what the normalized request does.                     *)

\* An object that has the same model and input fields.
Alike(b, c) ==
  /\ \E n : b = Obj(n)
  /\ Keys(b) \cap InputFields = Keys(c) \cap InputFields
  /\ \A k \in Keys(c) \cap InputFields : b.members[k] = c.members[k]

\* Other fields may be set.
LEMMA AlikeWith ==
  ASSUME NEW b, NEW c, Alike(b, c), NEW key, NEW v, key \notin InputFields
  PROVE  Alike(With(b, key, v), c)
PROOF
<1>1. PICK n : b = Obj(n)
  BY DEF Alike
<1> DEFINE p == [x \in DOMAIN n \cup {key} |-> IF x = key THEN v ELSE n[x]]
<1>2. With(b, key, v) = Obj(p)
  BY <1>1 DEF With, Keys, Obj
<1>3. DOMAIN p = DOMAIN n \cup {key} /\ \A x \in DOMAIN n : x # key => p[x] = n[x]
  OBVIOUS
<1> HIDE DEF p
<1>4. Keys(b) = DOMAIN n /\ b.members = n /\ Keys(Obj(p)) = DOMAIN p /\ Obj(p).members = p
  BY <1>1, MembersOf
<1> QED
  BY <1>2, <1>3, <1>4 DEF Alike

\* The body for the first provider sets four of them.
LEMMA OpenAiAlike ==
  ASSUME NEW m, NEW background
  PROVE  Alike(OpenAiBody(Obj(m), background), Obj(m))
PROOF
<1>1. Alike(Obj(m), Obj(m))
  BY DEF Alike
<1>2. {"background", "store", "stream", "service_tier"} \cap InputFields = {}
  BY DEF InputFields
<1> DEFINE b1 == With(Obj(m), "background", Bool(background))
           b2 == With(b1, "store", Bool(TRUE))
           b3 == With(b2, "stream", Bool(TRUE))
<1>3. Alike(b1, Obj(m))
  BY <1>1, <1>2, AlikeWith
<1>4. \A v : Alike(With(b1, "store", v), Obj(m))
  <2> HIDE DEF b1
  <2> QED
    BY <1>2, <1>3, AlikeWith
<1>5. Alike(b2, Obj(m))
  BY <1>4
<1>6. \A v : Alike(With(b2, "stream", v), Obj(m))
  <2> HIDE DEF b2
  <2> QED
    BY <1>2, <1>5, AlikeWith
<1>7. Alike(b3, Obj(m))
  BY <1>6
<1>8. \A v : Alike(With(b3, "service_tier", v), Obj(m))
  <2> HIDE DEF b3
  <2> QED
    BY <1>2, <1>7, AlikeWith
<1> QED
  BY <1>8 DEF OpenAiBody

\* Its model, its cap and what is rendered of it are those of the request.
LEMMA OpenAiCosts ==
  ASSUME NEW m, NEW background
  PROVE  LET body == OpenAiBody(Obj(m), background)
         IN  /\ Model(body) = Model(Obj(m))
             /\ Cap(body) = Cap(Obj(m))
             /\ Generated(body) = Generated(Obj(m))
PROOF
<1>1. PICK body : body = OpenAiBody(Obj(m), background)
  OBVIOUS
<1>2. /\ Field(body, "model") = Field(Obj(m), "model")
      /\ Field(body, "max_output_tokens") = Field(Obj(m), "max_output_tokens")
      /\ Field(body, "input") = Field(Obj(m), "input")
  <2>1. \A k : k \notin {"background", "store", "stream", "service_tier"}
          => Field(OpenAiBody(Obj(m), background), k) = Field(Obj(m), k)
    BY OpenAiFields
  <2> QED
    BY <1>1, <2>1
<1>3. Model(body) = Model(Obj(m)) /\ Cap(body) = Cap(Obj(m))
  BY <1>2 DEF Model, Cap
<1>4. Count(body) = Count(Obj(m))
  <2>1. Alike(body, Obj(m))
    BY <1>1, OpenAiAlike
  <2> QED
    BY <1>3, <2>1, CountsAlike DEF Alike
<1>5. Declaring(body) = Declaring(Obj(m)) /\ \A i : ToolsAt(body, i) = ToolsAt(Obj(m), i)
  BY <1>2 DEF Declaring, ToolsAt
<1>6. [i \in Declaring(body) |-> TokensOf(Model(body), ToolsAt(body, i))]
        = [i \in Declaring(Obj(m)) |-> TokensOf(Model(Obj(m)), ToolsAt(Obj(m), i))]
  BY <1>3, <1>5
<1>7. Generated(body) = Generated(Obj(m))
  BY <1>4, <1>5, <1>6 DEF Generated
<1> QED
  BY <1>1, <1>3, <1>7

\* Accepted instructions are a text.
LEMMA InstructionsAreText ==
  ASSUME NEW d, NEW m, NormalForm(d, m), "instructions" \in DOMAIN m
  PROVE  m["instructions"].t = "string"
PROOF
<1>1. RequestShape.keep["instructions"] = "string"
  BY DEF RequestShape, Shape
<1>2. CheckInRequest("string", d.members["instructions"]) = Ok(m["instructions"])
  BY <1>1 DEF NormalForm, RequestGives
<1>3. /\ "string" \notin DOMAIN Typed /\ "string" \notin DOMAIN Plain
      /\ "string" \notin DOMAIN ArrayOf /\ "string" \notin DOMAIN StringOrArrayOf
  BY Places DEF Plain, ArrayOf, StringOrArrayOf
<1>4. \A v : CheckInRequest("string", v) = CheckLeaf("string", v)
  BY <1>3 DEF CheckInRequest, CheckIn, CheckOne
<1>5. CheckLeaf("string", d.members["instructions"]) = Ok(m["instructions"])
  BY <1>2, <1>4
<1> QED
  BY <1>5 DEF CheckLeaf, Accepts, Rejection, Ok

-----------------------------------------------------------------------------
(* Flat texts: the byte bound holds what generation renders.               *)

\* Each text has a size.
LEMMA SizesAre == \A s : TextOf(s).bytes \in Nat
  BY TextsAssumption DEF TextOf

\* The tokens of a count are those of the texts and the framing.
LEMMA CountSplits ==
  ASSUME NEW m, \A k \in DOMAIN m \cap InputFields : TokensOf(Model(Obj(m)), m[k]) \in Nat
  PROVE  LET f == Obj(m)
             g == [k \in DOMAIN m \cap InputFields |-> 1 + TokensOf(Model(f), m[k])]
             framing == [k \in FramingIn(f) |-> 1 + TokensOf(Model(f), f.members[k])]
         IN  /\ Count(f) = Total(TextsIn(f), g) + Total(FramingIn(f), framing)
             /\ Total(TextsIn(f), g) \in Nat
             /\ Total(FramingIn(f), framing) \in Nat
PROOF
<1> DEFINE f == Obj(m)
           there == DOMAIN m \cap InputFields
           g == [k \in there |-> 1 + TokensOf(Model(f), m[k])]
           texts == TextsIn(f)
           rest == FramingIn(f)
           framing == [k \in rest |-> 1 + TokensOf(Model(f), f.members[k])]
<1>1. Keys(f) = DOMAIN m /\ f.members = m
  BY MembersOf
<1>2. Count(f) = Total(there, g)
  BY <1>1 DEF Count
<1>3. texts \subseteq there /\ rest = there \ texts
  BY <1>1 DEF TextsIn, FramingIn, InputFields
<1>4. IsFiniteSet(there)
  <2>1. IsFiniteSet(Keys(f) \cap InputFields)
    BY InputFieldsFinite
  <2> QED
    BY <1>1, <2>1
<1>5. \A k \in there : g[k] \in Nat /\ g[k] = 1 + TokensOf(Model(f), m[k])
  OBVIOUS
<1>6. \A k \in rest : framing[k] = 1 + TokensOf(Model(f), m[k])
  BY <1>1
<1> HIDE DEF f, there, g, texts, rest, framing
<1>7. IsFiniteSet(texts) /\ IsFiniteSet(rest)
  BY <1>3, <1>4, FS_Subset
<1>8. there = texts \cup rest /\ texts \cap rest = {}
  BY <1>3
<1>9. Total(texts \cup rest, g) = Total(texts, g) + Total(rest, g)
  <2>1. \A k \in texts \cup rest : g[k] \in Nat
    BY <1>5, <1>8
  <2> QED
    BY <1>7, <1>8, <2>1, TotalUnion
<1>10. Total(rest, g) = Total(rest, framing)
  <2>1. \A k \in rest : g[k] = framing[k]
    BY <1>5, <1>6, <1>8
  <2> QED
    BY <2>1, TotalSame
<1>11. Total(texts, g) \in Nat /\ Total(rest, g) \in Nat
  <2>1. \A k \in texts : g[k] \in Nat
    BY <1>5, <1>8
  <2>2. \A k \in rest : g[k] \in Nat
    BY <1>5, <1>8
  <2> QED
    BY <1>7, <2>1, <2>2, TokensFinite
<1> QED
  BY <1>2, <1>8, <1>9, <1>10, <1>11 DEF f, there, g, texts, rest, framing

\* One text or two, and nothing else that is counted by its contents.
LEMMA FlatIs ==
  ASSUME NEW d, NEW m, NormalForm(d, m), FlatText(Obj(m)).flat
  PROVE  /\ m["input"].t = "string" /\ Declaring(Obj(m)) = {}
         /\ "instructions" \notin DOMAIN m =>
              /\ TextsIn(Obj(m)) = {"input"}
              /\ FlatText(Obj(m)).nodes = <<m["input"].s>>
         /\ "instructions" \in DOMAIN m =>
              /\ TextsIn(Obj(m)) = {"instructions", "input"}
              /\ FlatText(Obj(m)).nodes = <<m["instructions"].s, m["input"].s>>
PROOF
<1> DEFINE f == Obj(m)
<1>1. "input" \in DOMAIN m
  BY DEF NormalForm
<1>2. Field(f, "input") = m["input"]
  BY <1>1, MembersOf
<1>3. /\ Field(f, "input").t = "string"
      /\ FlatText(f).nodes = IF Field(f, "instructions") = Absent THEN <<Field(f, "input").s>>
                             ELSE <<Field(f, "instructions").s, Field(f, "input").s>>
  <2> HIDE DEF f
  <2>1. Field(f, "input").t = "string"
    BY DEF FlatText, Structured, f
  <2>2. FlatText(f) # Structured
    BY DEF Structured, f
  <2> QED
    BY <2>1, <2>2 DEF FlatText
<1>4. Keys(f) = DOMAIN m
  BY MembersOf
<1>5. Declaring(f) = {}
  <2>1. Items(Field(f, "input")) = <<>>
    BY <1>3 DEF Items
  <2>2. DOMAIN Items(Field(f, "input")) = {}
    BY <2>1
  <2> QED
    BY <2>2 DEF Declaring
<1>6. "instructions" \notin DOMAIN m => Field(f, "instructions") = Absent
  BY MembersOf
<1>7. "instructions" \in DOMAIN m =>
        Field(f, "instructions") = m["instructions"] /\ m["instructions"] # Absent
  <2>1. SUFFICES ASSUME "instructions" \in DOMAIN m
                 PROVE  Field(f, "instructions") = m["instructions"] /\ m["instructions"] # Absent
    OBVIOUS
  <2>2. m["instructions"].t = "string"
    BY <2>1, InstructionsAreText
  <2>3. Absent.t = "absent"
    BY DEF Absent
  <2>4. Field(f, "instructions") = m["instructions"]
    BY <2>1, MembersOf
  <2> QED
    BY <2>2, <2>3, <2>4
<1> HIDE DEF f
<1>8. TextsIn(f) = DOMAIN m \cap {"instructions", "input"}
  BY <1>4 DEF TextsIn
<1> QED
  BY <1>1, <1>2, <1>3, <1>5, <1>6, <1>7, <1>8 DEF f

\* The byte bound covers what generation renders of a flat text.
LEMMA BytesCover ==
  ASSUME NEW d \in Documents, NEW m, Parse(d) = Ok(Obj(m)), NormalForm(d, m),
         Model(Obj(m)) \in DOMAIN Catalog, Catalog[Model(Obj(m))].byteLevel,
         FlatText(Obj(m)).flat, ByteBound(FlatText(Obj(m))) # Overflow
  PROVE  Generated(Obj(m)) <= ByteBound(FlatText(Obj(m)))
PROOF
<1> DEFINE f == Obj(m)
           T(k) == TokensOf(Model(f), m[k])
           g == [k \in DOMAIN m \cap InputFields |-> 1 + T(k)]
           framing == [k \in FramingIn(f) |-> 1 + TokensOf(Model(f), f.members[k])]
           flat == FlatText(f)
<1>1. f \in ByteBounded
  <2>1. Parse(d).ok /\ Parse(d).value = f
    BY DEF Ok
  <2>2. f \in Requests
    BY <2>1 DEF Requests
  <2> QED
    BY <2>2 DEF ByteBounded
<1>2. \A k \in DOMAIN m \cap InputFields : T(k) \in Nat
  BY CountsAre
<1>3. /\ Count(f) = Total(TextsIn(f), g) + Total(FramingIn(f), framing)
      /\ Total(TextsIn(f), g) \in Nat /\ Total(FramingIn(f), framing) \in Nat
  BY <1>2, CountSplits
<1>4. Cardinality(TextsIn(f)) + Total(FramingIn(f), framing)
        <= Allowance * Cardinality(TextsIn(f))
  BY <1>1, FramingAssumption
<1>5. \A k \in TextsIn(f) : T(k) <= TextOf(m[k].s).bytes
  <2>1. f.members = m
    BY MembersOf
  <2> QED
    BY <1>1, <2>1, BytesAssumption
<1>6. /\ Declaring(f) = {}
      /\ "instructions" \notin DOMAIN m =>
           TextsIn(f) = {"input"} /\ flat.nodes = <<m["input"].s>>
      /\ "instructions" \in DOMAIN m =>
           /\ TextsIn(f) = {"instructions", "input"}
           /\ flat.nodes = <<m["instructions"].s, m["input"].s>>
  BY FlatIs
<1>7. Generated(f) = Count(f)
  <2>1. \A h : Total({}, h) = 0
    BY TotalEmpty
  <2>2. Generated(f)
          = Count(f) + Total(Declaring(f),
                             [i \in Declaring(f) |-> TokensOf(Model(f), ToolsAt(f, i))])
    BY DEF Generated
  <2>3. Total(Declaring(f), [i \in Declaring(f) |-> TokensOf(Model(f), ToolsAt(f, i))]) = 0
    BY <1>6, <2>1
  <2>4. Count(f) \in Nat
    BY <1>3
  <2> QED
    BY <2>2, <2>3, <2>4
<1>8. \A k \in TextsIn(f) : k \in DOMAIN m \cap InputFields /\ g[k] = 1 + T(k) /\ g[k] \in Nat
  <2>1. TextsIn(f) \subseteq DOMAIN m \cap InputFields
    BY MembersOf DEF TextsIn, InputFields
  <2> QED
    BY <1>2, <2>1
<1>9. /\ Measure(flat, "bytes") # Overflow
      /\ ByteBound(flat) = Measure(flat, "bytes") + Allowance * Len(flat.nodes)
  BY DEF ByteBound, Sum, Overflow
<1>10. Measure(flat, "bytes")
         = IF Len(flat.nodes) = 1 THEN Sum(0, TextOf(flat.nodes[1]).bytes)
           ELSE Sum(TextOf(flat.nodes[1]).bytes, TextOf(flat.nodes[2]).bytes)
  BY DEF Measure
<1>11. \A x, y \in Nat : Sum(x, y) # Overflow => Sum(x, y) = x + y
  BY DEF Sum, Overflow
<1>12. Allowance \in Nat
  BY LimitsAssumption
<1> HIDE DEF f, T, g, framing, flat
<1>13. CASE "instructions" \notin DOMAIN m
  <2>1. TextsIn(f) = {"input"} /\ Len(flat.nodes) = 1 /\ flat.nodes[1] = m["input"].s
    BY <1>6, <1>13
  <2>2. Cardinality(TextsIn(f)) = 1
    BY <2>1, FS_Singleton
  <2>3. Total(TextsIn(f), g) = 1 + T("input")
    <3>1. g["input"] \in Nat /\ g["input"] = 1 + T("input")
      BY <1>8, <2>1
    <3> QED
      BY <2>1, <3>1, TotalOne
  <2>4. ByteBound(flat) = TextOf(m["input"].s).bytes + Allowance * 1
    BY <1>9, <1>10, <1>11, <2>1, SizesAre
  <2>5. 1 + Total(FramingIn(f), framing) <= Allowance * 1
    BY <1>4, <2>2
  <2>6. T("input") \in Nat /\ T("input") <= TextOf(m["input"].s).bytes
    BY <1>2, <1>5, <1>8, <2>1
  <2>7. TextOf(m["input"].s).bytes \in Nat
    BY SizesAre
  <2> QED
    BY <1>3, <1>7, <1>12, <2>3, <2>4, <2>5, <2>6, <2>7 DEF f, flat
<1>14. CASE "instructions" \in DOMAIN m
  <2>1. /\ TextsIn(f) = {"instructions", "input"} /\ Len(flat.nodes) = 2
        /\ flat.nodes[1] = m["instructions"].s /\ flat.nodes[2] = m["input"].s
    BY <1>6, <1>14
  <2>2. Cardinality(TextsIn(f)) = 2
    <3>1. IsFiniteSet({"input"}) /\ Cardinality({"input"}) = 1
      BY FS_Singleton
    <3>2. Cardinality({"input"} \cup {"instructions"}) = 2
      BY <3>1, FS_AddElement
    <3>3. TextsIn(f) = {"input"} \cup {"instructions"}
      BY <2>1
    <3> QED
      BY <3>2, <3>3
  <2>3. Total(TextsIn(f), g) = (1 + T("instructions")) + (1 + T("input"))
    <3>1. /\ g["input"] \in Nat /\ g["input"] = 1 + T("input")
          /\ g["instructions"] \in Nat /\ g["instructions"] = 1 + T("instructions")
      BY <1>8, <2>1
    <3>2. IsFiniteSet({"instructions"}) /\ IsFiniteSet({"input"})
      BY FS_Singleton
    <3>3. Total({"instructions"} \cup {"input"}, g)
            = Total({"instructions"}, g) + Total({"input"}, g)
      <4>1. \A k \in {"instructions"} \cup {"input"} : g[k] \in Nat
        BY <3>1
      <4>2. {"instructions"} \cap {"input"} = {}
        OBVIOUS
      <4> QED
        BY <3>2, <4>1, <4>2, TotalUnion
    <3>4. Total({"instructions"}, g) = g["instructions"] /\ Total({"input"}, g) = g["input"]
      BY <3>1, TotalOne
    <3>5. TextsIn(f) = {"instructions"} \cup {"input"}
      BY <2>1
    <3> QED
      BY <3>1, <3>3, <3>4, <3>5
  <2>4. ByteBound(flat) = (TextOf(m["instructions"].s).bytes + TextOf(m["input"].s).bytes)
                          + Allowance * 2
    BY <1>9, <1>10, <1>11, <2>1, SizesAre
  <2>5. 2 + Total(FramingIn(f), framing) <= Allowance * 2
    BY <1>4, <2>2
  <2>6. /\ T("input") \in Nat /\ T("input") <= TextOf(m["input"].s).bytes
        /\ T("instructions") \in Nat /\ T("instructions") <= TextOf(m["instructions"].s).bytes
    BY <1>2, <1>5, <1>8, <2>1
  <2>7. TextOf(m["input"].s).bytes \in Nat /\ TextOf(m["instructions"].s).bytes \in Nat
    BY SizesAre
  <2> QED
    BY <1>3, <1>7, <1>12, <2>3, <2>4, <2>5, <2>6, <2>7 DEF f, flat
<1> QED
  BY <1>13, <1>14

\* A byte bound that does not overflow is a number.
LEMMA ByteBoundIsNumber ==
  ASSUME NEW d, NEW m, NormalForm(d, m),
         FlatText(Obj(m)).flat, ByteBound(FlatText(Obj(m))) # Overflow
  PROVE  ByteBound(FlatText(Obj(m))) \in Nat
PROOF
<1>1. PICK flat : flat = FlatText(Obj(m))
  OBVIOUS
<1>2. Len(flat.nodes) \in {1, 2}
  BY <1>1, FlatIs
<1>3. /\ Measure(flat, "bytes") # Overflow
      /\ ByteBound(flat) = Measure(flat, "bytes") + Allowance * Len(flat.nodes)
  BY <1>1 DEF ByteBound, Sum, Overflow
<1>4. Measure(flat, "bytes")
        = IF Len(flat.nodes) = 1 THEN Sum(0, TextOf(flat.nodes[1]).bytes)
          ELSE Sum(TextOf(flat.nodes[1]).bytes, TextOf(flat.nodes[2]).bytes)
  BY DEF Measure
<1>5. \A x, y \in Nat : Sum(x, y) # Overflow => Sum(x, y) \in Nat
  BY DEF Sum, Overflow
<1>6. Measure(flat, "bytes") \in Nat
  BY <1>2, <1>3, <1>4, <1>5, SizesAre
<1>7. Allowance * Len(flat.nodes) \in Nat
  BY <1>2, LimitsAssumption
<1> QED
  BY <1>1, <1>3, <1>6, <1>7

-----------------------------------------------------------------------------
(* What is reserved.                                                       *)

\* What was counted so far, and what is reserved then.
LiabilityInv ==
  /\ pc \in {"received", "parsed"} => counted = 0
  /\ pc = "counting" =>
       /\ counted = Total(DOMAIN CountBodies(fields) \ DOMAIN toCount, Counts(fields))
       /\ outputBound = OutputBound(Model(fields), Cap(fields))
  /\ pc \in {"reserve", "dispatch"} \/ Left("openai") =>
       \/ /\ Bounded(Model(fields), Cap(fields), FlatText(fields))
          /\ liability # Overflow
          /\ liability = Sum(ByteBound(FlatText(fields)),
                             OutputBound(Model(fields), Cap(fields)))
       \/ liability = CountedTotal(fields) + OutputBound(Model(fields), Cap(fields))

\* Nothing is counted at first.
LEMMA InitLiability == Init => LiabilityInv
  BY DEF Init, LiabilityInv, Left, Unsent, Absent

\* One more count is added.
LEMMA CountOneAdds ==
  ASSUME IInv, LiabilityInv, CountOne, pc' = "counting"
  PROVE  counted' = Total(DOMAIN CountBodies(fields) \ DOMAIN toCount', Counts(fields))
PROOF
<1>1. pc = "counting" /\ Accepted /\ document \in Documents
  BY DEF IInv, ProgressInv, CountOne
<1>2. PICK m : Parse(document) = Ok(Obj(m)) /\ NormalForm(document, m)
  BY <1>1, ParseGives DEF Accepted
<1>3. fields = Obj(m)
  BY <1>1, <1>2 DEF Accepted, Ok
<1>4. PICK i \in DOMAIN toCount :
        /\ Sum(counted, Count(toCount[i])) # Overflow
        /\ counted' = Sum(counted, Count(toCount[i]))
        /\ toCount' = [j \in DOMAIN toCount \ {i} |-> toCount[j]]
  <2>1. \A why : Refuse(why) => pc' # "counting"
    BY DEF Refuse
  <2> QED
    BY <2>1 DEF CountOne
<1> DEFINE D == DOMAIN CountBodies(fields)
           C == Counts(fields)
           done == D \ DOMAIN toCount
<1>5. DOMAIN toCount \subseteq D /\ toCount[i] = CountBodies(fields)[i]
  BY <1>1, <1>4 DEF IInv, CountingInv
<1>6. IsFiniteSet(D)
  <2>1. D = {0} \cup Declaring(Obj(m))
    BY <1>3, CountBodiesAre
  <2>2. IsFiniteSet(Declaring(Obj(m)))
    BY <1>1, <1>2, DeclaringFinite
  <2> QED
    BY <2>1, <2>2, FS_AddElement
<1>7. \A j \in D : C[j] = Count(CountBodies(fields)[j]) /\ C[j] \in Nat
  <2>1. \A j \in D : Count(CountBodies(fields)[j]) \in Nat
    BY <1>1, <1>2, <1>3, CountsAre
  <2> QED
    BY <2>1 DEF Counts
<1>8. counted = Total(done, C)
  BY <1>1 DEF LiabilityInv
<1> HIDE DEF D, C
<1>9. D \ DOMAIN toCount' = done \cup {i} /\ i \notin done /\ i \in D
  BY <1>4, <1>5
<1>10. IsFiniteSet(done) /\ IsFiniteSet({i})
  BY <1>6, FS_Subset, FS_Singleton
<1>11. \A j \in done \cup {i} : C[j] \in Nat
  BY <1>7, <1>9
<1> HIDE DEF done
<1>12. Total(done \cup {i}, C) = Total(done, C) + Total({i}, C)
  BY <1>9, <1>10, <1>11, TotalUnion
<1>13. Total({i}, C) = C[i]
  BY <1>11, TotalOne
<1>14. Sum(counted, Count(toCount[i])) = counted + Count(toCount[i])
  BY <1>4 DEF Sum
<1>15. C[i] = Count(toCount[i])
  BY <1>5, <1>7, <1>9
<1> QED
  BY <1>4, <1>8, <1>9, <1>12, <1>13, <1>14, <1>15 DEF D, C

\* Each step keeps it.
LEMMA NextLiability == IInv /\ LiabilityInv /\ [Next]_vars => LiabilityInv'
PROOF
<1> SUFFICES ASSUME IInv, LiabilityInv, [Next]_vars PROVE LiabilityInv'
  OBVIOUS
<1>0. /\ pc \in Early => ~Left("openai")
      /\ Left("openai") => pc = "done"
      /\ pc \in {"second", "refused"} => ~Left("openai")
  BY DEF IInv, SentInv
<1> USE DEF LiabilityInv, Early, request, bound, answers, Answer, Refuse, Left
<1>1. CASE ParseBody
  BY <1>0, <1>1 DEF ParseBody
<1>2. CASE Unready \/ Unconfigured \/ WindowClosed
  BY <1>0, <1>2 DEF Unready, Unconfigured, WindowClosed, Shortage, Refusals
<1>3. CASE Estimate
  <2>1. /\ pc = "parsed" /\ counted = 0 /\ ~Left("openai") /\ UNCHANGED <<request, counted, sent>>
    BY <1>0, <1>3 DEF Estimate
  <2>2. CASE Bounded(Model(fields), Cap(fields), FlatText(fields))
    <3>1. /\ liability' = Sum(ByteBound(FlatText(fields)), OutputBound(Model(fields), Cap(fields)))
          /\ \/ liability' # Overflow /\ pc' = "reserve"
             \/ pc' = "refused"
      BY <1>3, <2>2 DEF Estimate, Shortage, Refusals
    <3> QED
      BY <2>1, <2>2, <3>1
  <2>3. CASE ~Bounded(Model(fields), Cap(fields), FlatText(fields))
    <3>1. /\ toCount' = CountBodies(fields) /\ pc' = "counting"
          /\ outputBound' = OutputBound(Model(fields), Cap(fields))
      BY <1>3, <2>3 DEF Estimate
    <3>2. DOMAIN CountBodies(fields) \ DOMAIN toCount' = {}
      BY <3>1
    <3>3. counted' = Total({}, Counts(fields))
      BY <2>1, TotalEmpty
    <3> QED
      BY <2>1, <3>1, <3>2, <3>3
  <2> QED
    BY <2>2, <2>3
<1>4. CASE CountOne
  <2>1. /\ pc = "counting" /\ ~Left("openai")
        /\ UNCHANGED <<request, outputBound, liability, sent>>
        /\ pc' \in {"counting", "refused"}
    BY <1>0, <1>4 DEF CountOne, Shortage, Refusals
  <2>2. pc' = "counting" =>
          counted' = Total(DOMAIN CountBodies(fields) \ DOMAIN toCount', Counts(fields))
    BY <1>4, CountOneAdds
  <2> QED
    BY <2>1, <2>2
<1>5. CASE CounterFails
  BY <1>0, <1>5 DEF CounterFails, Shortage, Refusals
<1>6. CASE Bound
  <2>1. /\ pc = "counting" /\ ~Left("openai") /\ DOMAIN toCount = {}
        /\ UNCHANGED <<request, sent>>
        /\ liability' = Sum(counted, outputBound)
        /\ \/ liability' # Overflow /\ pc' = "reserve"
           \/ pc' = "refused"
    BY <1>0, <1>6 DEF Bound, Shortage, Refusals
  <2>2. /\ counted = Total(DOMAIN CountBodies(fields) \ DOMAIN toCount, Counts(fields))
        /\ outputBound = OutputBound(Model(fields), Cap(fields))
    BY <2>1
  <2>3. counted = CountedTotal(fields)
    <3>1. DOMAIN CountBodies(fields) \ DOMAIN toCount = DOMAIN CountBodies(fields)
      BY <2>1
    <3> QED
      BY <2>2, <3>1 DEF CountedTotal
  <2>4. liability' # Overflow => liability' = counted + outputBound
    BY <2>1 DEF Sum
  <2> QED
    BY <2>1, <2>2, <2>3, <2>4
<1>7. CASE NotReserved \/ HeldBack \/ Aborted
  BY <1>0, <1>7 DEF NotReserved, HeldBack, Aborted, Shortage, Refusals
<1>8. CASE Reserved
  BY <1>0, <1>8 DEF Reserved
<1>9. CASE Sent
  BY <1>0, <1>9 DEF Sent
<1>10. CASE SecondUnavailable \/ SecondSent \/ Refused
  <2>1. /\ pc \in {"second", "refused"} /\ pc' \in {"refused", "done"}
        /\ Left("openai")' = Left("openai")
    <3>1. DOMAIN sent = {"openai", "openrouter"}
      BY DEF IInv, SentInv
    <3> QED
      BY <1>10, <3>1 DEF SecondUnavailable, SecondSent, Refused, Body
  <2> QED
    BY <1>0, <2>1
<1>11. CASE UNCHANGED vars
  BY <1>11 DEF vars
<1> QED
  BY <1>1, <1>2, <1>3, <1>4, <1>5, <1>6, <1>7, <1>8, <1>9, <1>10, <1>11 DEF Next

\* The amount reserved is the byte bound or the sum of all counts, with the
\* output bound, whatever the counter answers in between (estimate,
\* with_exact_input).
THEOREM LiabilityHolds == Spec => []LiabilityInv
PROOF
<1>1. IInv /\ LiabilityInv /\ [Next]_vars => LiabilityInv'
  BY NextLiability
<1> QED
  BY InitLiability, InvHolds, <1>1, PTL DEF Spec

\* Either bound holds the rendering, and the output bound the rest.
LEMMA Covered == IInv /\ LiabilityInv => LiabilityCovers
PROOF
<1> DEFINE text == FlatText(fields)
           unverified ==
             /\ ~Catalog[Model(Body("openai"))].byteLevel
             /\ Field(Body("openai"), "background") = Bool(FALSE)
             /\ text.flat
             /\ Measure(text, "bytes") <= SynchronousBytes
             /\ Measure(text, "characters") <= SynchronousCharacters
           runs == Background(Model(fields), Cap(fields))
           out == OutputBound(Model(fields), Cap(fields))
           input == IF unverified THEN 0 ELSE Generated(Body("openai"))
<1>1. SUFFICES ASSUME IInv, LiabilityInv, Left("openai")
               PROVE  Output(Body("openai")) + input <= liability
  BY DEF LiabilityCovers
<1>2. /\ Accepted /\ Model(fields) \in DOMAIN Catalog /\ document \in Documents
      /\ Body("openai") = OpenAiBody(fields, runs)
  BY <1>1 DEF IInv, SentInv, ProgressInv, Configured
<1>3. PICK m : Parse(document) = Ok(Obj(m)) /\ NormalForm(document, m)
  BY <1>2, ParseGives DEF Accepted
<1>4. fields = Obj(m)
  BY <1>2, <1>3 DEF Accepted, Ok
<1>5. /\ Model(Body("openai")) = Model(fields)
      /\ Cap(Body("openai")) = Cap(fields)
      /\ Generated(Body("openai")) = Generated(fields)
  BY <1>2, <1>4, OpenAiCosts
<1>6. Field(Body("openai"), "background") = Bool(runs)
  BY <1>2, <1>4, OpenAiFields
<1>7. Output(Body("openai")) = out
  BY <1>5 DEF Output, OutputBound
<1>8. out \in Nat
  <2>1. Cap(fields) \in Nat \cup {NoCap}
    BY <1>2, <1>3, <1>4, CapIsNumber
  <2>2. Catalog[Model(fields)].maxOutput \in Nat
    BY <1>2, CatalogAssumption
  <2> QED
    BY <2>1, <2>2 DEF OutputBound, Smaller
<1>9. /\ CountedTotal(fields) \in Nat /\ Generated(fields) \in Nat
      /\ Generated(fields) <= CountedTotal(fields)
  BY <1>2, <1>3, <1>4, CountsCover
<1>10. \/ /\ Bounded(Model(fields), Cap(fields), text)
          /\ liability # Overflow
          /\ liability = Sum(ByteBound(text), out)
       \/ liability = CountedTotal(fields) + out
  BY <1>1 DEF LiabilityInv
<1> HIDE DEF text, runs, out, unverified
<1>11. input = IF unverified THEN 0 ELSE Generated(fields)
  BY <1>5
<1> HIDE DEF input
<1>12. CASE liability = CountedTotal(fields) + out
  BY <1>7, <1>8, <1>9, <1>11, <1>12
<1>13. CASE /\ Bounded(Model(fields), Cap(fields), text)
            /\ liability # Overflow
            /\ liability = Sum(ByteBound(text), out)
  <2>1. text.flat /\ ByteBound(text) # Overflow /\ liability = ByteBound(text) + out
    BY <1>13 DEF Bounded, Sum
  <2>2. CASE Catalog[Model(fields)].byteLevel
    <3>1. Generated(fields) <= ByteBound(text)
      BY <1>2, <1>3, <1>4, <2>1, <2>2, BytesCover DEF text
    <3>2. ~unverified
      BY <1>5, <2>2 DEF unverified
    <3>3. ByteBound(text) \in Nat
      BY <1>2, <1>3, <1>4, <2>1, ByteBoundIsNumber DEF text
    <3> QED
      BY <1>7, <1>8, <1>9, <1>11, <2>1, <3>1, <3>2, <3>3
  <2>3. CASE ~Catalog[Model(fields)].byteLevel
    <3>1. /\ ~runs
          /\ Measure(text, "characters") <= SynchronousCharacters
          /\ Measure(text, "bytes") <= SynchronousBytes
      BY <1>13, <2>3 DEF Bounded, runs
    <3>2. runs \in BOOLEAN
      BY DEF runs, Background
    <3>3. unverified
      <4>1. runs = FALSE
        BY <3>1, <3>2
      <4>2. Bool(runs) = Bool(FALSE)
        BY <4>1
      <4> QED
        BY <1>5, <1>6, <2>1, <2>3, <3>1, <4>2 DEF unverified
    <3>4. ByteBound(text) \in Nat
      BY <1>2, <1>3, <1>4, <2>1, ByteBoundIsNumber DEF text
    <3> QED
      BY <1>7, <1>8, <1>11, <2>1, <3>3, <3>4
  <2> QED
    BY <2>2, <2>3
<1> QED
  BY <1>10, <1>12, <1>13

-----------------------------------------------------------------------------
(* The theorems.                                                           *)

\* The counter is never asked about a choice of an undeclared tool, for any
\* documents and any tools that items declare (input_count_bodies).
THEOREM CountsAreValid == Spec => []CountBodiesAreValid
  BY InvHolds, CountsValid, PTL

\* Whatever is accepted is its own normal form, at any depth and for any
\* documents (CreateRequest::parse).
THEOREM NormalFormHolds == Spec => []NormalFormIsStable
  BY InvHolds, Stable, PTL

\* What runs in the foreground is capped and small, and every body is stored
\* and streamed, for any catalogue and any policy (into_body, dispatch mode).
THEOREM ForegroundHolds == Spec => []ForegroundIsSmall
  BY InvHolds, Foreground, PTL

\* The second route gets a request only for a model of the configuration that
\* runs every kind of tool the request declares anywhere, and its output
\* format, for any routes (model_for, tool_usage, needs_structured_output).
THEOREM SecondRouteHolds == Spec => []SecondRouteIsSafe
  BY InvHolds, SecondRoute, PTL

\* Nothing that leaves names what is stored or run elsewhere, at any depth of
\* nesting: every tool is one of the three kinds and loaded, every image is
\* inline, and no key is said twice (the allowlist tables of request.rs).
THEOREM NothingElsewhereHolds == Spec => []NothingBilledElsewhere
  BY InvHolds, NothingElsewhere, PTL

\* What is reserved for a request covers what the body that leaves can cost,
\* for any provider that keeps to what liability.rs takes for granted of it
\* (estimate, input_count_bodies, with_exact_input).
THEOREM LiabilityCoversAlways == Spec => []LiabilityCovers
  BY InvHolds, LiabilityHolds, Covered, PTL

=============================================================================
