------------------------- MODULE NativeFilesProofs -------------------------
(***************************************************************************)
(* Proofs about the byte quota of files PocketBase keeps, for every number *)
(* of updates, sizes of files, capacity, number of attempts and number of  *)
(* faults: what is on disk, what the account says, and by how much the     *)
(* two may differ.                                                         *)
(*                                                                         *)
(* The properties speak of sums over sets of objects, so the first half is *)
(* about sums: over a finite set they are what one expects, and what the   *)
(* history counts as credited twice grows, with each credit, by what was   *)
(* credited before.  The second half is an inductive invariant, IInv.  Its *)
(* core is an equation: usedBytes is what was there and what was settled   *)
(* less what was credited, each object once (Accounted).                   *)
(***************************************************************************)
EXTENDS NativeFiles, FiniteSetTheorems, TLAPS

Ended == {"done", "gone"}
Committed == {"stash", "remove", "settle", "confirm", "credit"}
Doing(s, steps) == save[s].step \in steps

(* Objects there may be: those of the old file, and the upload of a save with a
   reservation that was not released. *)
Taken(s) == reservation[s] \in {"reserved", "settled"}
OldObjects == {Old} \X {"main", "thumb"}
UploadOf(S) == S \X {"main"}

(* Nothing of the save changes before it begins; its upload is its own. *)
ShapedAt(s) ==
    /\ save[s].waiting => Doing(s, Exchanges)
    /\ s \notin save[s].original /\ save[s].names \subseteq save[s].original \cup {s}
    /\ Doing(s, {"idle"}) =>
         save[s].names = {} /\ save[s].original = {} /\ save[s].removals = {}
    /\ Doing(s, {"reserve"}) => s \in save[s].names
    /\ \A o \in save[s].removals : o[1] \in Dropped(s) /\ (o[2] = "thumb" => o[1] = Old)
    /\ save[s].freed \subseteq save[s].removals
    /\ save[s].freed # {} \/ s \in credits => Doing(s, {"credit"} \cup Ended)
Shaped == \A s \in Saves : ShapedAt(s)

(* What the provider knows of a save and what is on its way to it. *)
BookedAt(s) ==
    /\ reservation[s] # "none" => s \in Uploads(s) /\ ~Doing(s, {"idle", "reserve"})
    /\ s \in Uploads(s) =>
         /\ Doing(s, {"write", "commit", "stash", "remove", "cleanup", "verify"})
              => reservation[s] = "reserved"
         /\ Doing(s, {"settle", "confirm", "credit"}) => Taken(s)
         /\ Doing(s, {"release"}) => reservation[s] \in {"reserved", "released"}
    /\ Doing(s, {"settle", "release"}) => s \in Uploads(s)
    /\ <<s, "reserve">> \in net =>
         /\ Doing(s, {"reserve"} \cup Ended) /\ reservation[s] = "none" /\ s \in Uploads(s)
         /\ Doing(s, {"reserve"}) => save[s].waiting
    /\ <<s, "settle">> \in net =>
         Doing(s, {"settle", "confirm", "credit"} \cup Ended) /\ Taken(s)
    /\ <<s, "release">> \in net =>
         /\ Doing(s, {"release"} \cup Ended) /\ <<s, "settle">> \notin net
         /\ reservation[s] \in {"reserved", "released"}
    /\ <<s, "credit">> \in net => Doing(s, {"credit"} \cup Ended)
    /\ reservation[s] = "settled" => Doing(s, {"settle", "confirm", "credit"} \cup Ended)
    /\ reservation[s] = "released" => Doing(s, {"release"} \cup Ended)
Booked == \A s \in Saves : BookedAt(s)

(* A name the record has had is of a save that committed, and stays accounted. *)
LastsAt(n) == Doing(n, Committed \cup Ended) /\ Taken(n) /\ <<n, "release">> \notin net
Known == row \cup UNION {save[s].original : s \in Saves}
Lasting == \A n \in Known : n # Old => LastsAt(n)

(* Every object on disk is accounted for, none of them is one to credit. *)
Covered ==
    /\ disk \subseteq OldObjects \cup UploadOf({s \in Saves : Taken(s)})
    /\ \A s \in Saves :
         /\ save[s].freed \cap disk = {}
         /\ Doing(s, {"release"}) \/ <<s, "release">> \in net => <<s, "main">> \notin disk

Freed == UNION {save[s].freed : s \in credits}
Settled == {s \in Saves : reservation[s] = "settled"}

Accounted ==
    used + CreditedTwice + Bytes(Freed) = Bytes(OldObjects) + Bytes(UploadOf(Settled)) + floored

Within == used + InFlight <= Capacity

Kept(s) == s \in Uploads(s) /\ (Doing(s, Committed \cup {"commit"}) \/ reservation[s] = "settled")
Expected == OldObjects \cup UploadOf({s \in Saves : Kept(s)})

(* The save has found it gone, and will credit it or has. *)
CreditDue(s, o) ==
    \/ o \in save[s].removals /\ Doing(s, {"settle", "confirm"})
    \/ o \in save[s].freed /\ (Doing(s, {"credit"}) \/ s \in credits)

(* Without faults: a save does what it set out to do, requests are answered, and
   what is missing of what was stored is credited to the account. *)
SmoothAt(s) ==
    /\ ~Doing(s, {"gone"})
    /\ Doing(s, {"remove"}) => ObjectsOf(Dropped(s)) \subseteq save[s].removals
    /\ Doing(s, {"settle", "confirm"}) => ObjectsOf(Dropped(s)) = {}
    /\ Doing(s, {"verify"}) => ObjectsOf(Uploads(s)) = {}
    /\ s \in Uploads(s) /\ Doing(s, {"confirm", "credit"}) => reservation[s] = "settled"
    /\ Doing(s, {"done"}) => /\ reservation[s] # "reserved"
                             /\ save[s].freed # {} => s \in credits
    /\ save[s].waiting => Request(s) \in net
    /\ Doing(s, {"settle", "release"}) => reservation[s] = "reserved"
ThumbGoesFirst == <<Old, "thumb">> \in disk => <<Old, "main">> \in disk
Awaited == \A m \in net : save[m[1]].waiting /\ save[m[1]].step = m[2]
AllDue == \A o \in Expected \ disk : \E s \in Saves : CreditDue(s, o)
Smooth == faults = 0 => ThumbGoesFirst /\ Awaited /\ AllDue /\ \A s \in Saves : SmoothAt(s)

IInv == TypeOK /\ Shaped /\ Booked /\ Lasting /\ Covered /\ Accounted /\ Within /\ Smooth

----------------------------------------------------------------------------
(* Sums over finite sets.  The library's induction takes an operator, which the
   provers cannot instantiate; here the property is a set, and the smallest
   subset that is not in it has all of its own subsets in it. *)

LEMMA SubsetInduction ==
  ASSUME NEW U, IsFiniteSet(U), NEW Q,
         \A t \in SUBSET U : (\A r \in SUBSET t : r # t => r \in Q) => t \in Q
  PROVE  \A t \in SUBSET U : t \in Q
<1> DEFINE Bad == (SUBSET U) \ Q
<1>1. SUFFICES ASSUME Bad # {} PROVE FALSE
  OBVIOUS
<1>2. Bad \subseteq FiniteSubsetsOf(U)
  BY FS_Subset DEF FiniteSubsetsOf
<1> HIDE DEF Bad
<1>3. PICK t \in Bad : \A r \in Bad : ~(<<r, t>> \in StrictSubsetOrdering(U))
  BY <1>1, <1>2, WFMin, FS_StrictSubsetOrderingWellFounded
<1>4. \A r \in Bad : ~(r \subseteq t /\ r # t)
  BY <1>3 DEF StrictSubsetOrdering, Bad
<1>5. QED
  BY <1>4 DEF Bad

(* One element at a time. *)
LEMMA ElementInduction ==
  ASSUME NEW U, IsFiniteSet(U), NEW Q, {} \in Q,
         \A t \in SUBSET U, x \in U : t \in Q /\ x \notin t => t \cup {x} \in Q
  PROVE  \A t \in SUBSET U : t \in Q
<1>1. ASSUME NEW t \in SUBSET U, \A r \in SUBSET t : r # t => r \in Q
      PROVE  t \in Q
  <2>1. CASE t = {}
    BY <2>1
  <2>2. CASE t # {}
    <3>1. PICK x \in t : TRUE
      BY <2>2
    <3>2. t \ {x} \in Q /\ t = (t \ {x}) \cup {x}
      BY <1>1, <3>1
    <3>3. QED
      BY <3>1, <3>2
  <2>3. QED
    BY <2>1, <2>2
<1>2. QED
  BY <1>1, SubsetInduction

(* The function that gives every subset of U the sum of its weights. *)
Additive(g, U, w) ==
    /\ w \in [U -> Nat] /\ g \in [SUBSET U -> Nat] /\ g[{}] = 0
    /\ \A t \in SUBSET U, x \in U : x \notin t => g[t \cup {x}] = g[t] + w[x]

(* What a fold over t goes by: one element, then the others. *)
IsFold(g, U, w) ==
    g = [t \in SUBSET U |-> IF t = {} THEN 0
                            ELSE LET x == CHOOSE x \in t : TRUE IN w[x] + g[t \ {x}]]

LEMMA AdditiveExists ==
  ASSUME NEW U, IsFiniteSet(U), NEW w \in [U -> Nat]
  PROVE  \E g : Additive(g, U, w)
<1> DEFINE v(t) == [x \in t |-> w[x]]
           Q == {t \in SUBSET U : \E g : Additive(g, t, v(t))}
<1>1. {} \in Q
  <2>1. Additive([t \in SUBSET {} |-> 0], {}, v({}))
    BY DEF Additive
  <2>2. QED
    BY <2>1
<1>2. ASSUME NEW t \in SUBSET U, NEW u \in U, t \in Q, u \notin t
      PROVE  t \cup {u} \in Q
  <2>1. PICK g : Additive(g, t, v(t))
    BY <1>2
  <2> DEFINE h == [s \in SUBSET (t \cup {u}) |->
                     IF u \in s THEN g[s \ {u}] + w[u] ELSE g[s]]
  <2>2. /\ g \in [SUBSET t -> Nat] /\ w[u] \in Nat /\ g[{}] = 0
        /\ \A s \in SUBSET (t \cup {u}) : s \ {u} \in SUBSET t /\ (u \notin s => s \in SUBSET t)
    BY <2>1 DEF Additive
  <2>3. h \in [SUBSET (t \cup {u}) -> Nat] /\ h[{}] = 0
    BY <2>2
  <2>4. ASSUME NEW s \in SUBSET (t \cup {u}), NEW x \in t \cup {u}, x \notin s
        PROVE  h[s \cup {x}] = h[s] + w[x]
    <3>1. s \cup {x} \in SUBSET (t \cup {u}) /\ s \ {u} \in SUBSET t
      OBVIOUS
    <3>2. CASE x = u
      <4>1. (s \cup {x}) \ {u} = s /\ u \in s \cup {x} /\ u \notin s
        BY <2>4, <3>2
      <4>2. QED
        BY <2>2, <3>1, <3>2, <4>1
    <3>3. CASE x # u /\ u \in s
      <4>1. (s \cup {x}) \ {u} = (s \ {u}) \cup {x} /\ x \in t /\ x \notin s \ {u}
        BY <2>4, <3>3
      <4>2. g[(s \ {u}) \cup {x}] = g[s \ {u}] + w[x]
        BY <2>1, <3>1, <4>1 DEF Additive
      <4>3. g[s \ {u}] \in Nat /\ w[x] \in Nat
        BY <2>2, <3>1, <4>1
      <4>4. QED
        <5>1. h[s \cup {x}] = g[(s \ {u}) \cup {x}] + w[u] /\ h[s] = g[s \ {u}] + w[u]
          BY <3>1, <3>3, <4>1
        <5>2. QED
          BY <2>2, <4>2, <4>3, <5>1
    <3>4. CASE x # u /\ u \notin s
      <4>1. x \in t /\ u \notin s \cup {x} /\ s \in SUBSET t
        BY <3>4
      <4>2. g[s \cup {x}] = g[s] + w[x]
        BY <2>1, <2>4, <4>1 DEF Additive
      <4>3. QED
        BY <3>1, <3>4, <4>1, <4>2
    <3>5. QED
      BY <3>2, <3>3, <3>4
  <2>5. Additive(h, t \cup {u}, v(t \cup {u}))
    <3> HIDE DEF h
    <3>1. QED
      BY <2>3, <2>4 DEF Additive
  <2>6. QED
    BY <2>5
<1> HIDE DEF Q
<1>3. \A t \in SUBSET U : t \in Q
  BY <1>1, <1>2, ElementInduction
<1>4. U \in Q /\ v(U) = w
  BY <1>3
<1>5. QED
  BY <1>4 DEF Q

(* Every fold over a subset gives it its sum, and there is such a fold. *)
LEMMA FoldExists ==
  ASSUME NEW U, NEW w, NEW g, Additive(g, U, w), NEW S \in SUBSET U
  PROVE  IsFold([t \in SUBSET S |-> g[t]], S, w)
<1> DEFINE h == [t \in SUBSET S |-> g[t]]
<1>1. ASSUME NEW t \in SUBSET S, t # {}
      PROVE  LET x == CHOOSE x \in t : TRUE IN g[t] = w[x] + h[t \ {x}]
  <2> DEFINE x == CHOOSE x \in t : TRUE
  <2>1. x \in t
    BY <1>1
  <2> HIDE DEF x
  <2>2. t \ {x} \in SUBSET S /\ t \ {x} \in SUBSET U /\ x \in U /\ t = (t \ {x}) \cup {x}
    BY <2>1
  <2>3. g[(t \ {x}) \cup {x}] = g[t \ {x}] + w[x] /\ g[t \ {x}] \in Nat /\ w[x] \in Nat
    BY <2>2 DEF Additive
  <2>4. g[t] = g[t \ {x}] + w[x]
    BY <2>2, <2>3, Zenon
  <2>5. QED
    BY <2>2, <2>3, <2>4 DEF x
<1>2. g[{}] = 0
  BY DEF Additive
<1>3. QED
  BY <1>1, <1>2 DEF IsFold

LEMMA FoldUnique ==
  ASSUME NEW U, IsFiniteSet(U), NEW w, NEW g, Additive(g, U, w), NEW S \in SUBSET U,
         NEW h, IsFold(h, S, w)
  PROVE  h[S] = g[S]
<1> DEFINE Q == {t \in SUBSET S : h[t] = g[t]}
<1>1. ASSUME NEW t \in SUBSET S, \A r \in SUBSET t : r # t => r \in Q
      PROVE  t \in Q
  <2>1. CASE t = {}
    BY <2>1 DEF Additive, IsFold
  <2>2. CASE t # {}
    <3> DEFINE x == CHOOSE x \in t : TRUE
    <3>1. x \in t
      BY <2>2
    <3>2. h[t] = w[x] + h[t \ {x}]
      BY <2>2 DEF IsFold
    <3> HIDE DEF x
    <3>3. t \ {x} \in SUBSET U /\ x \in U /\ t = (t \ {x}) \cup {x} /\ t \ {x} # t
      BY <3>1
    <3>4. h[t \ {x}] = g[t \ {x}]
      BY <1>1, <3>3
    <3>5. g[(t \ {x}) \cup {x}] = g[t \ {x}] + w[x] /\ g[t \ {x}] \in Nat /\ w[x] \in Nat
      BY <3>3 DEF Additive
    <3>6. g[t] = g[t \ {x}] + w[x]
      BY <3>3, <3>5, Zenon
    <3>7. QED
      BY <3>2, <3>4, <3>5, <3>6
  <2>3. QED
    BY <2>1, <2>2
<1>2. IsFiniteSet(S)
  BY FS_Subset
<1> HIDE DEF Q
<1>3. \A t \in SUBSET S : t \in Q
  BY <1>1, <1>2, SubsetInduction
<1>4. QED
  BY <1>3 DEF Q

LEMMA AdditiveUnion ==
  ASSUME NEW U, IsFiniteSet(U), NEW w, NEW g, Additive(g, U, w),
         NEW S \in SUBSET U, NEW T \in SUBSET U, S \cap T = {}
  PROVE  g[S \cup T] = g[S] + g[T]
<1> DEFINE Q == {t \in SUBSET U : S \cap t = {} => g[S \cup t] = g[S] + g[t]}
<1>1. {} \in Q
  <2>1. S \cup {} = S
    OBVIOUS
  <2>2. g[S] \in Nat /\ g[{}] = 0
    BY DEF Additive
  <2>3. QED
    BY <2>1, <2>2
<1>2. ASSUME NEW t \in SUBSET U, NEW x \in U, t \in Q, x \notin t
      PROVE  t \cup {x} \in Q
  <2>1. SUFFICES ASSUME S \cap (t \cup {x}) = {}
                 PROVE  g[S \cup (t \cup {x})] = g[S] + g[t \cup {x}]
    OBVIOUS
  <2>2. g[S \cup t] = g[S] + g[t]
    BY <1>2, <2>1
  <2>3. S \cup t \in SUBSET U /\ x \notin S \cup t
    BY <1>2, <2>1
  <2>4. S \cup (t \cup {x}) = (S \cup t) \cup {x}
    OBVIOUS
  <2>5. g[(S \cup t) \cup {x}] = g[S \cup t] + w[x] /\ g[t \cup {x}] = g[t] + w[x]
    BY <1>2, <2>3 DEF Additive
  <2>6. g[S] \in Nat /\ g[t] \in Nat /\ w[x] \in Nat
    BY DEF Additive
  <2>7. g[S \cup (t \cup {x})] = g[(S \cup t) \cup {x}]
    BY <2>4, Zenon
  <2>8. QED
    BY <2>2, <2>5, <2>6, <2>7
<1> HIDE DEF Q
<1>3. T \in Q
  BY <1>1, <1>2, ElementInduction
<1>4. QED
  BY <1>3 DEF Q

(* Weights that add up have sums that add up, and no weight no sum. *)
LEMMA AdditivePlus ==
  ASSUME NEW U, IsFiniteSet(U), NEW v, NEW w, NEW z, NEW g, NEW h, NEW k,
         Additive(g, U, v), Additive(h, U, w), Additive(k, U, z),
         \A x \in U : z[x] = v[x] + w[x]
  PROVE  \A S \in SUBSET U : k[S] = g[S] + h[S]
<1> DEFINE Q == {t \in SUBSET U : k[t] = g[t] + h[t]}
<1>1. {} \in Q
  BY DEF Additive
<1>2. ASSUME NEW t \in SUBSET U, NEW x \in U, t \in Q, x \notin t
      PROVE  t \cup {x} \in Q
  <2>1. /\ k[t \cup {x}] = k[t] + z[x] /\ g[t \cup {x}] = g[t] + v[x]
        /\ h[t \cup {x}] = h[t] + w[x]
        /\ g[t] \in Nat /\ h[t] \in Nat /\ v[x] \in Nat /\ w[x] \in Nat
    BY <1>2 DEF Additive
  <2>2. k[t] = g[t] + h[t] /\ z[x] = v[x] + w[x]
    BY <1>2
  <2>3. k[t \cup {x}] = g[t \cup {x}] + h[t \cup {x}]
    BY <2>1, <2>2
  <2>4. QED
    BY <2>3
<1> HIDE DEF Q
<1>3. \A t \in SUBSET U : t \in Q
  BY <1>1, <1>2, ElementInduction
<1>4. QED
  BY <1>3 DEF Q

LEMMA AdditiveZero ==
  ASSUME NEW U, IsFiniteSet(U), NEW w, NEW g, Additive(g, U, w),
         NEW S \in SUBSET U, \A x \in S : w[x] = 0
  PROVE  g[S] = 0
<1> DEFINE Q == {t \in SUBSET U : t \subseteq S => g[t] = 0}
<1>1. {} \in Q
  BY DEF Additive
<1>2. ASSUME NEW t \in SUBSET U, NEW x \in U, t \in Q, x \notin t
      PROVE  t \cup {x} \in Q
  <2>1. g[t \cup {x}] = g[t] + w[x] /\ g[t] \in Nat
    BY <1>2 DEF Additive
  <2>2. t \cup {x} \subseteq S => g[t] = 0 /\ w[x] = 0
    BY <1>2
  <2>3. t \cup {x} \subseteq S => g[t \cup {x}] = 0
    BY <2>1, <2>2
  <2>4. QED
    BY <2>3
<1> HIDE DEF Q
<1>3. S \in Q
  BY <1>1, <1>2, ElementInduction
<1>4. QED
  BY <1>3 DEF Q

(* The weights of a part only. *)
LEMMA AdditivePart ==
  ASSUME NEW U, IsFiniteSet(U), NEW v, NEW w, NEW g, NEW h, NEW A \in SUBSET U,
         Additive(g, U, v), Additive(h, U, w),
         \A x \in U : w[x] = IF x \in A THEN v[x] ELSE 0
  PROVE  h[U] = g[A]
<1> DEFINE Q == {t \in SUBSET U : t \subseteq A => h[t] = g[t]}
<1>1. {} \in Q
  BY DEF Additive
<1>2. ASSUME NEW t \in SUBSET U, NEW x \in U, t \in Q, x \notin t
      PROVE  t \cup {x} \in Q
  <2>1. h[t \cup {x}] = h[t] + w[x] /\ g[t \cup {x}] = g[t] + v[x]
    BY <1>2 DEF Additive
  <2>2. t \cup {x} \subseteq A => h[t] = g[t] /\ w[x] = v[x]
    BY <1>2
  <2>3. t \cup {x} \subseteq A => h[t \cup {x}] = g[t \cup {x}]
    BY <2>1, <2>2
  <2>4. QED
    BY <2>3
<1> HIDE DEF Q
<1>3. A \in Q
  BY <1>1, <1>2, ElementInduction
<1>4. h[A] = g[A] /\ h[A] \in Nat
  BY <1>3 DEF Q, Additive
<1>5. h[U \ A] = 0
  BY AdditiveZero
<1>6. A \cup (U \ A) = U /\ A \cap (U \ A) = {}
  OBVIOUS
<1>7. h[A \cup (U \ A)] = h[A] + h[U \ A]
  BY <1>6, AdditiveUnion
<1>8. h[U] = h[A] + h[U \ A]
  BY <1>6, <1>7, Zenon
<1>9. QED
  BY <1>4, <1>5, <1>8

----------------------------------------------------------------------------
(* Bytes. *)

ObjectBytes == [o \in Objects |-> IF o[2] = "thumb" THEN ThumbSize ELSE Size[o[1]]]
BytesOf == [S \in SUBSET Objects |-> Bytes(S)]

LEMMA ObjectsFinite ==
  /\ IsFiniteSet(Objects) /\ IsFiniteSet(Saves) /\ OldObjects \subseteq Objects
  /\ ObjectBytes \in [Objects -> Nat]
<1>1. IsFiniteSet(Names)
  BY NativeFilesAssumption, FS_AddElement DEF Names
<1>2. IsFiniteSet({"main", "thumb"})
  <2>1. {"main", "thumb"} = {"main"} \cup {"thumb"}
    OBVIOUS
  <2>2. IsFiniteSet({"main"} \cup {"thumb"})
    BY FS_Singleton, FS_Union
  <2>3. QED
    BY <2>1, <2>2, Zenon
<1>3. ObjectBytes \in [Objects -> Nat]
  BY NativeFilesAssumption DEF ObjectBytes, Objects, Names
<1>4. QED
  BY <1>1, <1>2, <1>3, FS_Product, NativeFilesAssumption DEF Objects, OldObjects, Names

LEMMA BytesAdditive == Additive(BytesOf, Objects, ObjectBytes)
<1>1. PICK g : Additive(g, Objects, ObjectBytes)
  BY ObjectsFinite, AdditiveExists
<1>2. ASSUME NEW S \in SUBSET Objects
      PROVE  Bytes(S) = g[S]
  <2> DEFINE Fold(h) ==
        h = [t \in SUBSET S |->
               IF t = {} THEN 0
               ELSE LET x == CHOOSE x \in t : TRUE
                    IN  (IF x[2] = "thumb" THEN ThumbSize ELSE Size[x[1]]) + h[t \ {x}]]
  <2>1. Bytes(S) = (CHOOSE h : Fold(h))[S]
    BY DEF Bytes, MapThenSumSet, MapThenFoldSet
  <2>2. ASSUME NEW h PROVE Fold(h) <=> IsFold(h, S, ObjectBytes)
    <3>1. ASSUME NEW t \in SUBSET S, t # {}
          PROVE  LET x == CHOOSE x \in t : TRUE
                 IN  (IF x[2] = "thumb" THEN ThumbSize ELSE Size[x[1]]) = ObjectBytes[x]
      <4> DEFINE x == CHOOSE x \in t : TRUE
      <4>1. x \in t
        BY <3>1
      <4> HIDE DEF x
      <4>2. ObjectBytes[x] = IF x[2] = "thumb" THEN ThumbSize ELSE Size[x[1]]
        BY <4>1 DEF ObjectBytes
      <4>3. QED
        BY <4>2 DEF x
    <3>2. QED
      BY <3>1 DEF IsFold
  <2> HIDE DEF Fold
  <2>3. \E h : Fold(h)
    BY <1>1, <2>2, FoldExists
  <2>4. Fold(CHOOSE h : Fold(h))
    BY <2>3
  <2>5. QED
    BY <1>1, <2>1, <2>2, <2>4, FoldUnique, ObjectsFinite
<1>3. g \in [SUBSET Objects -> Nat]
  BY <1>1 DEF Additive
<1>4. BytesOf = g
  BY <1>2, <1>3 DEF BytesOf
<1>5. QED
  BY <1>1, <1>4

LEMMA BytesFacts ==
  /\ Bytes({}) = 0
  /\ \A S \in SUBSET Objects : Bytes(S) \in Nat
  /\ \A S, T \in SUBSET Objects : S \cap T = {} => Bytes(S \cup T) = Bytes(S) + Bytes(T)
  /\ \A S, T \in SUBSET Objects : S \subseteq T => Bytes(S) <= Bytes(T)
<1>1. \A S \in SUBSET Objects : BytesOf[S] = Bytes(S)
  BY DEF BytesOf
<1>2. \A S \in SUBSET Objects : BytesOf[S] \in Nat
  BY BytesAdditive DEF Additive
<1>3. BytesOf[{}] = 0
  BY BytesAdditive DEF Additive
<1>4. \A S, T \in SUBSET Objects : S \cap T = {} => BytesOf[S \cup T] = BytesOf[S] + BytesOf[T]
  BY BytesAdditive, ObjectsFinite, AdditiveUnion
<1>5. ASSUME NEW S \in SUBSET Objects, NEW T \in SUBSET Objects
      PROVE  BytesOf[S \cup T] = Bytes(S \cup T)
  BY <1>1
<1>6. \A S, T \in SUBSET Objects : S \cap T = {} => Bytes(S \cup T) = Bytes(S) + Bytes(T)
  BY <1>1, <1>4, <1>5
<1>7. ASSUME NEW S \in SUBSET Objects, NEW T \in SUBSET Objects, S \subseteq T
      PROVE  Bytes(S) <= Bytes(T)
  <2>1. S \cup (T \ S) = T /\ S \cap (T \ S) = {} /\ T \ S \in SUBSET Objects
    BY <1>7
  <2>2. Bytes(S \cup (T \ S)) = Bytes(S) + Bytes(T \ S)
    BY <1>6, <2>1
  <2>3. Bytes(T) = Bytes(S) + Bytes(T \ S)
    BY <2>1, <2>2, Zenon
  <2>4. Bytes(S) \in Nat /\ Bytes(T \ S) \in Nat
    BY <1>1, <1>2
  <2>5. QED
    BY <2>3, <2>4
<1>8. \A S \in SUBSET Objects : Bytes(S) \in Nat
  BY <1>1, <1>2
<1>9. Bytes({}) = 0
  BY <1>1, <1>3
<1>10. QED
  BY <1>6, <1>7, <1>8, <1>9

(* The bytes in flight, a sum over saves, are those of the uploads. *)
FlightOf(R) == MapThenSumSet(Bound, R)

LEMMA FlightIs ==
  ASSUME NEW R \in SUBSET Saves
  PROVE  FlightOf(R) = Bytes(UploadOf(R)) /\ UploadOf(R) \in SUBSET Objects
<1> DEFINE w == [s \in Saves |-> Bound(s)]
           g == [S \in SUBSET Saves |-> Bytes(UploadOf(S))]
<1>1. \A S \in SUBSET Saves : UploadOf(S) \in SUBSET Objects
  BY DEF UploadOf, Objects, Names
<1>2. ASSUME NEW S \in SUBSET Saves, NEW x \in Saves, x \notin S
      PROVE  Bytes(UploadOf(S \cup {x})) = Bytes(UploadOf(S)) + Bound(x)
  <2>1. UploadOf(S \cup {x}) = UploadOf(S) \cup UploadOf({x})
    BY DEF UploadOf
  <2>2. UploadOf(S) \cap UploadOf({x}) = {}
    BY <1>2 DEF UploadOf
  <2>3. UploadOf(S) \in SUBSET Objects /\ UploadOf({x}) \in SUBSET Objects
    BY <1>1
  <2>4. Bytes(UploadOf(S) \cup UploadOf({x})) = Bytes(UploadOf(S)) + Bytes(UploadOf({x}))
    BY <2>2, <2>3, BytesFacts
  <2>5. Bound(x) = Bytes(UploadOf({x}))
    BY DEF Bound, UploadOf
  <2>6. QED
    BY <2>1, <2>4, <2>5, Zenon
<1>3. \A s \in Saves : Bound(s) \in Nat
  <2>1. ASSUME NEW s \in Saves PROVE Bound(s) \in Nat
    <3>1. Bound(s) = Bytes(UploadOf({s})) /\ UploadOf({s}) \in SUBSET Objects
      BY <1>1 DEF Bound, UploadOf
    <3>2. QED
      BY <3>1, BytesFacts
  <2>2. QED
    BY <2>1
<1>4. UploadOf({}) = {}
  BY DEF UploadOf
<1>5. Additive(g, Saves, w)
  <2>1. w \in [Saves -> Nat]
    BY <1>3
  <2>2. g \in [SUBSET Saves -> Nat] /\ g[{}] = 0
    BY <1>1, <1>4, BytesFacts
  <2>3. ASSUME NEW S \in SUBSET Saves, NEW x \in Saves, x \notin S
        PROVE  g[S \cup {x}] = g[S] + w[x]
    BY <1>2, <2>3
  <2> HIDE DEF g, w
  <2>4. QED
    BY <2>1, <2>2, <2>3 DEF Additive
<1> DEFINE Fold(h) ==
      h = [t \in SUBSET R |-> IF t = {} THEN 0
                             ELSE LET x == CHOOSE x \in t : TRUE IN Bound(x) + h[t \ {x}]]
<1>6. FlightOf(R) = (CHOOSE h : Fold(h))[R]
  BY DEF FlightOf, MapThenSumSet, MapThenFoldSet
<1>7. ASSUME NEW h PROVE Fold(h) <=> IsFold(h, R, w)
  <2>1. ASSUME NEW t \in SUBSET R, t # {}
        PROVE  LET x == CHOOSE x \in t : TRUE IN Bound(x) = w[x]
    <3> DEFINE x == CHOOSE x \in t : TRUE
    <3>1. x \in t
      BY <2>1
    <3> HIDE DEF x
    <3>2. Bound(x) = w[x]
      BY <3>1
    <3>3. QED
      BY <3>2 DEF x
  <2> HIDE DEF w
  <2>2. QED
    BY <2>1 DEF IsFold
<1> HIDE DEF Fold, g, w
<1>8. Fold(CHOOSE h : Fold(h))
  BY <1>5, <1>7, FoldExists
<1>9. (CHOOSE h : Fold(h))[R] = g[R]
  BY <1>5, <1>7, <1>8, FoldUnique, ObjectsFinite
<1>10. QED
  BY <1>1, <1>6, <1>9 DEF g

(* What was credited more than once, as a function of who credited what. *)
Times(C, sv, o) == Cardinality({s \in C : o \in sv[s].freed})
TwiceOf(C, sv) ==
    LET times(o) == Cardinality({s \in C : o \in sv[s].freed})
        twice == {o \in Objects : times(o) > 1}
    IN  MapThenSumSet(LAMBDA o : (times(o) - 1) * Bytes({o}), twice)

Extra(C, sv) ==
    [o \in Objects |-> IF Times(C, sv, o) > 1 THEN (Times(C, sv, o) - 1) * Bytes({o}) ELSE 0]

LEMMA TimesFacts ==
  ASSUME NEW C \in SUBSET Saves, NEW sv, NEW o
  PROVE  /\ Times(C, sv, o) \in Nat
         /\ Times(C, sv, o) = 0 <=> \A s \in C : o \notin sv[s].freed
         /\ \A s \in Saves \ C :
              Times(C \cup {s}, sv, o) = IF o \in sv[s].freed THEN Times(C, sv, o) + 1
                                         ELSE Times(C, sv, o)
<1> DEFINE D == {s \in C : o \in sv[s].freed}
<1>1. IsFiniteSet(D) /\ Times(C, sv, o) = Cardinality(D)
  BY FS_Subset, ObjectsFinite DEF Times
<1>2. Cardinality(D) \in Nat /\ (Cardinality(D) = 0 <=> D = {})
  BY <1>1, FS_CardinalityType, FS_EmptySet
<1>3. ASSUME NEW s \in Saves \ C
      PROVE  Times(C \cup {s}, sv, o) = IF o \in sv[s].freed THEN Times(C, sv, o) + 1
                                        ELSE Times(C, sv, o)
  <2> DEFINE E == {r \in C \cup {s} : o \in sv[r].freed}
  <2>1. s \notin D /\ E = IF o \in sv[s].freed THEN D \cup {s} ELSE D
    OBVIOUS
  <2>2. Times(C \cup {s}, sv, o) = Cardinality(E)
    BY DEF Times
  <2> HIDE DEF D, E
  <2>3. Cardinality(D \cup {s}) = Cardinality(D) + 1
    BY <1>1, <2>1, FS_AddElement
  <2>4. CASE o \in sv[s].freed
    <3>1. E = D \cup {s}
      BY <2>1, <2>4
    <3>2. Times(C \cup {s}, sv, o) = Times(C, sv, o) + 1
      BY <1>1, <2>2, <2>3, <3>1, Zenon
    <3>3. QED
      BY <2>4, <3>2
  <2>5. CASE o \notin sv[s].freed
    <3>1. E = D
      BY <2>1, <2>5
    <3>2. QED
      BY <1>1, <2>2, <2>5, <3>1, Zenon
  <2>6. QED
    BY <2>4, <2>5
<1>4. QED
  BY <1>1, <1>2, <1>3

LEMMA ExtraType ==
  ASSUME NEW C \in SUBSET Saves, NEW sv
  PROVE  Extra(C, sv) \in [Objects -> Nat]
<1>1. ASSUME NEW o \in Objects, Times(C, sv, o) > 1
      PROVE  (Times(C, sv, o) - 1) * Bytes({o}) \in Nat
  <2>1. Times(C, sv, o) - 1 \in Nat /\ Bytes({o}) \in Nat
    <3>1. Times(C, sv, o) \in Nat
      BY TimesFacts
    <3>2. {o} \in SUBSET Objects
      OBVIOUS
    <3>3. QED
      BY <1>1, <3>1, <3>2, BytesFacts
  <2>2. \A a, b \in Nat : a * b \in Nat
    OBVIOUS
  <2>3. QED
    BY <2>1, <2>2
<1>2. QED
  BY <1>1 DEF Extra

LEMMA TwiceIs ==
  ASSUME NEW C \in SUBSET Saves, NEW sv, NEW g, Additive(g, Objects, Extra(C, sv))
  PROVE  TwiceOf(C, sv) = g[Objects]
<1> DEFINE w == Extra(C, sv)
           twice == {o \in Objects : Times(C, sv, o) > 1}
           Fold(h) ==
             h = [t \in SUBSET twice |->
                    IF t = {} THEN 0
                    ELSE LET x == CHOOSE x \in t : TRUE
                         IN  (Times(C, sv, x) - 1) * Bytes({x}) + h[t \ {x}]]
<1>1. TwiceOf(C, sv) = (CHOOSE h : Fold(h))[twice]
  BY DEF TwiceOf, MapThenSumSet, MapThenFoldSet, Times
<1>2. ASSUME NEW h PROVE Fold(h) <=> IsFold(h, twice, w)
  <2>1. ASSUME NEW t \in SUBSET twice, t # {}
        PROVE  LET x == CHOOSE x \in t : TRUE IN (Times(C, sv, x) - 1) * Bytes({x}) = w[x]
    <3> DEFINE x == CHOOSE x \in t : TRUE
    <3>1. x \in t
      BY <2>1
    <3> HIDE DEF x
    <3>2. (Times(C, sv, x) - 1) * Bytes({x}) = w[x]
      BY <3>1 DEF Extra
    <3>3. QED
      BY <3>2 DEF x
  <2> HIDE DEF w, twice
  <2>2. QED
    BY <2>1, ZenonT(30) DEF IsFold
<1>3. twice \in SUBSET Objects
  OBVIOUS
<1>4. \A o \in Objects \ twice : w[o] = 0
  BY DEF Extra
<1> HIDE DEF Fold, w, twice
<1>5. Additive(g, Objects, w)
  BY DEF w
<1>6. Fold(CHOOSE h : Fold(h))
  BY <1>2, <1>3, <1>5, FoldExists
<1>7. (CHOOSE h : Fold(h))[twice] = g[twice]
  BY <1>2, <1>3, <1>5, <1>6, FoldUnique, ObjectsFinite
<1>8. g[Objects \ twice] = 0
  BY <1>4, <1>5, AdditiveZero, ObjectsFinite
<1>9. twice \cup (Objects \ twice) = Objects /\ twice \cap (Objects \ twice) = {}
  BY <1>3
<1>10. g[twice \cup (Objects \ twice)] = g[twice] + g[Objects \ twice]
  <2>1. Objects \ twice \in SUBSET Objects /\ IsFiniteSet(Objects)
    BY ObjectsFinite
  <2> DEFINE rest == Objects \ twice
  <2>2. rest \in SUBSET Objects /\ twice \cap rest = {}
    BY <2>1
  <2> HIDE DEF rest
  <2>3. g[twice \cup rest] = g[twice] + g[rest]
    BY <1>3, <1>5, <2>1, <2>2, AdditiveUnion
  <2>4. QED
    BY <2>3 DEF rest
<1>11. g[Objects] = g[twice] + g[Objects \ twice]
  BY <1>9, <1>10, Zenon
<1>12. g[twice] \in Nat
  BY <1>3, <1>5 DEF Additive
<1>13. QED
  BY <1>1, <1>7, <1>8, <1>11, <1>12

LEMMA TwiceType ==
  ASSUME NEW C \in SUBSET Saves, NEW sv
  PROVE  TwiceOf(C, sv) \in Nat
<1>1. PICK g : Additive(g, Objects, Extra(C, sv))
  BY ExtraType, ObjectsFinite, AdditiveExists
<1>2. g[Objects] \in Nat
  BY <1>1 DEF Additive
<1>3. QED
  BY <1>1, <1>2, TwiceIs

(* One more credit: what others have credited before is credited once more. *)
LEMMA TwiceGrows ==
  ASSUME NEW C \in SUBSET Saves, NEW sv, NEW s \in Saves \ C, sv[s].freed \subseteq Objects
  PROVE  TwiceOf(C \cup {s}, sv)
           = TwiceOf(C, sv) + Bytes(sv[s].freed \cap UNION {sv[r].freed : r \in C})
<1> DEFINE A == sv[s].freed \cap UNION {sv[r].freed : r \in C}
           part == [o \in Objects |-> IF o \in A THEN ObjectBytes[o] ELSE 0]
<1>1. A \in SUBSET Objects /\ \A o \in Objects : o \in A <=> o \in sv[s].freed /\ Times(C, sv, o) # 0
  <2>1. \A o : Times(C, sv, o) = 0 <=> \A r \in C : o \notin sv[r].freed
    BY TimesFacts
  <2>2. QED
    BY <2>1
<1>2. part \in [Objects -> Nat]
  BY ObjectsFinite
<1>3. PICK g : Additive(g, Objects, Extra(C, sv))
  BY ExtraType, ObjectsFinite, AdditiveExists
<1>4. PICK h : Additive(h, Objects, Extra(C \cup {s}, sv))
  BY ExtraType, ObjectsFinite, AdditiveExists
<1>5. PICK k : Additive(k, Objects, part)
  BY <1>2, ObjectsFinite, AdditiveExists
<1>6. \A o \in Objects : ObjectBytes[o] = Bytes({o})
  <2>1. ASSUME NEW o \in Objects PROVE ObjectBytes[o] = Bytes({o})
    <3>1. {} \cup {o} = {o} /\ {} \in SUBSET Objects
      OBVIOUS
    <3>2. BytesOf[{} \cup {o}] = BytesOf[{}] + ObjectBytes[o] /\ BytesOf[{}] = 0
      BY BytesAdditive DEF Additive
    <3>3. BytesOf[{o}] = BytesOf[{}] + ObjectBytes[o]
      BY <3>1, <3>2, Zenon
    <3>4. BytesOf[{o}] = Bytes({o})
      BY DEF BytesOf
    <3>5. ObjectBytes[o] \in Nat
      BY ObjectsFinite
    <3>6. QED
      BY <3>2, <3>3, <3>4, <3>5
  <2>2. QED
    BY <2>1
<1>7. ASSUME NEW o \in Objects
      PROVE  Extra(C \cup {s}, sv)[o] = Extra(C, sv)[o] + part[o]
  <2> DEFINE n == Times(C, sv, o)
             m == Times(C \cup {s}, sv, o)
             b == Bytes({o})
  <2>1. n \in Nat /\ m = (IF o \in sv[s].freed THEN n + 1 ELSE n) /\ b \in Nat
    BY TimesFacts, BytesFacts
  <2>2. /\ Extra(C, sv)[o] = IF n > 1 THEN (n - 1) * b ELSE 0
        /\ Extra(C \cup {s}, sv)[o] = IF m > 1 THEN (m - 1) * b ELSE 0
    BY DEF Extra
  <2>3. part[o] = IF o \in sv[s].freed /\ n # 0 THEN b ELSE 0
    BY <1>1, <1>6
  <2> HIDE DEF n, m, b, part
  <2>4. n \in Nat /\ n > 1 => (n + 1 - 1) * b = (n - 1) * b + b
    BY <2>1
  <2>5. (1 + 1 - 1) * b = b /\ 0 * b = 0
    BY <2>1
  <2>6. CASE o \in sv[s].freed
    <3>1. CASE n = 0
      BY <2>1, <2>2, <2>3, <2>6, <3>1
    <3>2. CASE n = 1
      BY <2>1, <2>2, <2>3, <2>5, <2>6, <3>2
    <3>3. CASE n > 1
      BY <2>1, <2>2, <2>3, <2>4, <2>6, <3>3
    <3>4. QED
      BY <2>1, <3>1, <3>2, <3>3
  <2>7. CASE o \notin sv[s].freed
    <3>1. Extra(C, sv)[o] \in Nat
      BY ExtraType
    <3>2. QED
      BY <2>1, <2>2, <2>3, <2>7, <3>1
  <2>8. QED
    BY <2>6, <2>7
<1> HIDE DEF A
<1>8. k[Objects] = BytesOf[A]
  <2>1. \A o \in Objects : part[o] = IF o \in A THEN ObjectBytes[o] ELSE 0
    OBVIOUS
  <2> HIDE DEF part
  <2>2. QED
    BY <1>1, <1>5, <2>1, AdditivePart, BytesAdditive, ObjectsFinite
<1> HIDE DEF part
<1>9. h[Objects] = g[Objects] + k[Objects]
  <2>1. \A o \in Objects : Extra(C \cup {s}, sv)[o] = Extra(C, sv)[o] + part[o]
    BY <1>7
  <2> DEFINE v == Extra(C, sv)
             z == Extra(C \cup {s}, sv)
  <2>2. /\ Additive(g, Objects, v) /\ Additive(k, Objects, part) /\ Additive(h, Objects, z)
        /\ \A o \in Objects : z[o] = v[o] + part[o]
    BY <1>3, <1>4, <1>5, <2>1
  <2> HIDE DEF v, z
  <2>3. \A S \in SUBSET Objects : h[S] = g[S] + k[S]
    BY <2>2, AdditivePlus, ObjectsFinite
  <2>4. QED
    BY <2>3
<1>10. TwiceOf(C, sv) = g[Objects] /\ TwiceOf(C \cup {s}, sv) = h[Objects]
  BY <1>3, <1>4, TwiceIs
<1>11. BytesOf[A] = Bytes(A)
  BY <1>1 DEF BytesOf
<1>12. QED
  BY <1>8, <1>9, <1>10, <1>11 DEF A

LEMMA TwiceSame ==
  ASSUME NEW C \in SUBSET Saves, NEW sv, NEW sw, \A s \in C : sv[s].freed = sw[s].freed
  PROVE  TwiceOf(C, sv) = TwiceOf(C, sw)
<1>1. \A o : {s \in C : o \in sv[s].freed} = {s \in C : o \in sw[s].freed}
  OBVIOUS
<1>2. \A o : Times(C, sv, o) = Times(C, sw, o)
  BY <1>1, Zenon DEF Times
<1>3. Extra(C, sv) = Extra(C, sw)
  BY <1>2 DEF Extra
<1>4. PICK g : Additive(g, Objects, Extra(C, sv))
  BY ExtraType, ObjectsFinite, AdditiveExists
<1>5. TwiceOf(C, sv) = g[Objects]
  BY <1>4, TwiceIs
<1>6. Additive(g, Objects, Extra(C, sw))
  BY <1>3, <1>4, Zenon
<1>7. TwiceOf(C, sw) = g[Objects]
  BY <1>6, TwiceIs
<1>8. QED
  BY <1>5, <1>7

----------------------------------------------------------------------------
(* What each step does to the update it is a step of. *)

Updates == [step : Steps, waiting : BOOLEAN, attempt : 1 .. Attempts, original : SUBSET Names,
            names : SUBSET Names, removals : SUBSET Objects, freed : SUBSET Objects]

(* The others stay as they are, and this one keeps its files, or its names. *)
Others(s) == \A r \in Saves \ {s} : save'[r] = save[r]
SameNames(s) == save'[s].original = save[s].original /\ save'[s].names = save[s].names
SameData(s) ==
    /\ SameNames(s)
    /\ save'[s].removals = save[s].removals /\ save'[s].freed = save[s].freed
Rests(s) == ~save'[s].waiting

LEMMA GoToMoves ==
  ASSUME TypeOK, NEW s \in Saves, NEW p \in Steps, save' = GoTo(s, p)
  PROVE  /\ save' \in [Saves -> Updates] /\ Others(s) /\ SameData(s) /\ Rests(s)
         /\ save'[s].step = p
<1>1. save \in [Saves -> Updates]
  BY DEF TypeOK, Updates
<1>2. 1 \in 1 .. Attempts
  BY NativeFilesAssumption
<1>3. save' = [save EXCEPT ![s] = [save[s] EXCEPT !.step = p, !.waiting = FALSE, !.attempt = 1]]
  BY DEF GoTo
<1>4. save[s] \in Updates
  BY <1>1
<1>5. [save[s] EXCEPT !.step = p, !.waiting = FALSE, !.attempt = 1] \in Updates
  BY <1>2, <1>4 DEF Updates
<1>6. save'[s] = [save[s] EXCEPT !.step = p, !.waiting = FALSE, !.attempt = 1]
  BY <1>1, <1>3
<1>7. save'[s].step = p /\ SameData(s) /\ Rests(s)
  BY <1>4, <1>6 DEF Updates, SameData, SameNames, Rests
<1>8. QED
  BY <1>1, <1>3, <1>5, <1>7 DEF Others

LEMMA LoadEffect ==
  ASSUME TypeOK, NEW s \in Saves, Load(s)
  PROVE  /\ save' \in [Saves -> Updates] /\ Others(s) /\ Rests(s)
         /\ save[s].step = "idle"
         /\ save'[s].original = row /\ save'[s].removals = save[s].removals
         /\ save'[s].freed = save[s].freed
         /\ \/ save'[s].step = "write" /\ save'[s].names \subseteq row
            \/ /\ save'[s].step = "reserve"
               /\ s \in save'[s].names /\ save'[s].names \subseteq row \cup {s}
<1>1. save \in [Saves -> Updates] /\ row \subseteq Names /\ s \in Names
  BY DEF TypeOK, Updates, Names
<1>2. PICK kept \in SUBSET row, new \in {{}, {s}} :
        save' = [save EXCEPT ![s].step = IF new = {} THEN "write" ELSE "reserve",
                             ![s].original = row, ![s].names = kept \cup new]
  BY DEF Load
<1>3. save[s].step = "idle" /\ ~save[s].waiting
  BY DEF Load, At
<1> DEFINE p == IF new = {} THEN "write" ELSE "reserve"
           u == [save[s] EXCEPT !.step = p, !.original = row, !.names = kept \cup new]
<1>4. save' = [save EXCEPT ![s] = u]
  BY <1>2
<1>5. p \in Steps /\ save[s] \in Updates
  BY <1>1 DEF Steps, Exchanges
<1>6. u \in Updates /\ u.step = p /\ u.original = row /\ u.names = kept \cup new
      /\ u.removals = save[s].removals /\ u.freed = save[s].freed /\ u.waiting = save[s].waiting
  BY <1>1, <1>5 DEF Updates
<1> HIDE DEF u
<1>7. save'[s] = u /\ save' \in [Saves -> Updates] /\ Others(s)
  BY <1>1, <1>4, <1>6 DEF Others
<1>8. QED
  BY <1>3, <1>6, <1>7 DEF Rests

LEMMA WriteEffect ==
  ASSUME TypeOK, NEW s \in Saves, Write(s)
  PROVE  /\ save' \in [Saves -> Updates] /\ Others(s) /\ SameData(s) /\ Rests(s)
         /\ save[s].step = "write"
         /\ \/ /\ save'[s].step = "commit" /\ faults' = faults
               /\ disk' = disk \cup UploadOf(Uploads(s))
            \/ /\ save'[s].step = "cleanup" /\ Fault
               /\ disk' \in {disk, disk \cup UploadOf(Uploads(s))}
<1>1. save' = GoTo(s, "commit") \/ save' = GoTo(s, "cleanup")
  BY DEF Write
<1>2. {"commit", "cleanup"} \subseteq Steps /\ save[s].step = "write"
  BY DEF Steps, Write, At
<1>3. QED
  BY <1>1, <1>2, GoToMoves DEF Write, UploadOf

LEMMA CommitEffect ==
  ASSUME TypeOK, NEW s \in Saves, Commit(s)
  PROVE  /\ save' \in [Saves -> Updates] /\ Others(s) /\ SameData(s) /\ Rests(s)
         /\ save[s].step = "commit"
         /\ \/ save'[s].step = "stash" /\ row' = save[s].names
            \/ save'[s].step = "cleanup" /\ row' = row
<1>1. {"stash", "cleanup"} \subseteq Steps /\ save[s].step = "commit"
  BY DEF Steps, Commit, At
<1>2. QED
  BY <1>1, GoToMoves DEF Commit

LEMMA StashEffect ==
  ASSUME TypeOK, NEW s \in Saves, StashDeleteSizes(s)
  PROVE  /\ save' \in [Saves -> Updates] /\ Others(s) /\ SameNames(s) /\ Rests(s)
         /\ save[s].step = "stash" /\ save'[s].step = "remove"
         /\ save'[s].freed = save[s].freed
         /\ save'[s].removals \subseteq ObjectsOf({n \in Dropped(s) : <<n, "main">> \in disk})
         /\ \/ /\ faults' = faults
               /\ save'[s].removals = ObjectsOf({n \in Dropped(s) : <<n, "main">> \in disk})
            \/ Fault
<1>1. "remove" \in Steps /\ save[s].step = "stash" /\ save \in [Saves -> Updates]
  BY DEF Steps, StashDeleteSizes, At, TypeOK, Updates
<1> DEFINE R == ObjectsOf({n \in Dropped(s) : <<n, "main">> \in disk})
<1>2. R \in SUBSET Objects
  BY DEF ObjectsOf, TypeOK
<1>3. PICK measured \in SUBSET R :
        /\ save' = [GoTo(s, "remove") EXCEPT ![s].removals = measured]
        /\ (measured = R /\ UNCHANGED faults) \/ Fault
  BY DEF StashDeleteSizes
<1>4. QED
  <2> DEFINE g == GoTo(s, "remove")
             u == [g[s] EXCEPT !.removals = measured]
  <2>1. 1 \in 1 .. Attempts /\ save[s] \in Updates
    BY <1>1, NativeFilesAssumption
  <2>2. g = [save EXCEPT ![s] = [save[s] EXCEPT !.step = "remove", !.waiting = FALSE, !.attempt = 1]]
    BY DEF GoTo
  <2>3. g[s] = [save[s] EXCEPT !.step = "remove", !.waiting = FALSE, !.attempt = 1]
    BY <1>1, <2>2
  <2>4. /\ g[s] \in Updates /\ g[s].step = "remove" /\ ~g[s].waiting
        /\ g[s].original = save[s].original /\ g[s].names = save[s].names
        /\ g[s].freed = save[s].freed
    BY <1>1, <2>1, <2>3 DEF Updates
  <2>5. g \in [Saves -> Updates] /\ \A r \in Saves \ {s} : g[r] = save[r]
    BY <1>1, <2>2, <2>3, <2>4
  <2> HIDE DEF g, R
  <2>6. /\ u \in Updates /\ u.step = "remove" /\ ~u.waiting
        /\ u.original = save[s].original /\ u.names = save[s].names
        /\ u.freed = save[s].freed /\ u.removals = measured
    BY <1>2, <2>4 DEF Updates
  <2>7. save' = [g EXCEPT ![s] = u]
    BY <1>3 DEF g
  <2> HIDE DEF u
  <2>8. save'[s] = u /\ save' \in [Saves -> Updates] /\ Others(s)
    BY <2>5, <2>6, <2>7 DEF Others
  <2>9. QED
    BY <1>1, <1>3, <2>6, <2>8 DEF SameNames, Rests, R

LEMMA RemoveEffect ==
  ASSUME TypeOK, NEW s \in Saves, RemoveOld(s)
  PROVE  /\ save' \in [Saves -> Updates] /\ Others(s) /\ SameData(s) /\ Rests(s)
         /\ save[s].step = "remove"
         /\ save'[s].step = IF Uploads(s) = {} THEN "confirm" ELSE "settle"
         /\ \/ disk' = disk \ ObjectsOf(Dropped(s)) /\ faults' = faults
            \/ disk' \subseteq disk /\ Fault
<1>1. {"confirm", "settle"} \subseteq Steps /\ save[s].step = "remove"
  BY DEF Steps, Exchanges, RemoveOld, At
<1>2. save' = GoTo(s, IF Uploads(s) = {} THEN "confirm" ELSE "settle")
  BY DEF RemoveOld, AfterRemoval
<1>3. \/ disk' = disk \ ObjectsOf(Dropped(s)) /\ faults' = faults
      \/ disk' \subseteq disk /\ Fault
  BY DEF RemoveOld, ObjectsOf
<1>4. QED
  BY <1>1, <1>2, <1>3, GoToMoves

LEMMA ConfirmEffect ==
  ASSUME TypeOK, NEW s \in Saves, CreditConfirmedDeletes(s)
  PROVE  /\ save' \in [Saves -> Updates] /\ Others(s) /\ SameNames(s) /\ Rests(s)
         /\ save[s].step = "confirm"
         /\ save'[s].removals = save[s].removals
         /\ save'[s].freed \subseteq {o \in save[s].removals : Confirmed(s, o)}
         /\ save'[s].step = IF save'[s].freed = {} THEN "done" ELSE "credit"
         /\ \/ /\ faults' = faults
               /\ save'[s].freed = {o \in save[s].removals : Confirmed(s, o)}
            \/ Fault
<1>0. PICK failed \in SUBSET {o[1] : o \in save[s].removals} :
        LET freed == {o \in save[s].removals : o[1] \notin failed /\ Confirmed(s, o)}
        IN  /\ save' = [GoTo(s, IF freed = {} THEN "done" ELSE "credit") EXCEPT ![s].freed = freed]
            /\ IF failed = {} THEN UNCHANGED faults ELSE Fault
  BY DEF CreditConfirmedDeletes
<1> DEFINE F == {o \in save[s].removals : o[1] \notin failed /\ Confirmed(s, o)}
           p == IF F = {} THEN "done" ELSE "credit"
           g == GoTo(s, p)
           u == [g[s] EXCEPT !.freed = F]
<1>1. p \in Steps /\ save[s].step = "confirm" /\ save \in [Saves -> Updates]
  BY DEF Steps, Exchanges, CreditConfirmedDeletes, At, TypeOK, Updates
<1>2. F \in SUBSET Objects
  BY <1>1 DEF Updates
<1>3. 1 \in 1 .. Attempts /\ save[s] \in Updates
  BY <1>1, NativeFilesAssumption
<1>4. g = [save EXCEPT ![s] = [save[s] EXCEPT !.step = p, !.waiting = FALSE, !.attempt = 1]]
  BY DEF GoTo
<1> HIDE DEF F
<1>5. save' = [g EXCEPT ![s] = u]
  BY <1>0 DEF F
<1> HIDE DEF p, g
<1>6. g[s] = [save[s] EXCEPT !.step = p, !.waiting = FALSE, !.attempt = 1]
  BY <1>1, <1>4
<1>7. /\ g[s] \in Updates /\ g[s].step = p /\ ~g[s].waiting
      /\ g[s].original = save[s].original /\ g[s].names = save[s].names
      /\ g[s].removals = save[s].removals
  BY <1>1, <1>3, <1>6 DEF Updates
<1>8. g \in [Saves -> Updates] /\ \A r \in Saves \ {s} : g[r] = save[r]
  BY <1>1, <1>4, <1>6, <1>7
<1>9. /\ u \in Updates /\ u.step = p /\ ~u.waiting
      /\ u.original = save[s].original /\ u.names = save[s].names
      /\ u.removals = save[s].removals /\ u.freed = F
  BY <1>2, <1>7 DEF Updates
<1> HIDE DEF u
<1>10. save'[s] = u /\ save' \in [Saves -> Updates] /\ Others(s)
  BY <1>5, <1>8, <1>9 DEF Others
<1>11. /\ F \subseteq {o \in save[s].removals : Confirmed(s, o)}
       /\ \/ /\ faults' = faults
             /\ F = {o \in save[s].removals : Confirmed(s, o)}
          \/ Fault
  BY <1>0 DEF F
<1>12. QED
  BY <1>1, <1>9, <1>10, <1>11 DEF SameNames, Rests, p

LEMMA CleanUpEffect ==
  ASSUME TypeOK, NEW s \in Saves, CleanUp(s)
  PROVE  /\ save' \in [Saves -> Updates] /\ Others(s) /\ SameData(s) /\ Rests(s)
         /\ save[s].step = "cleanup" /\ save'[s].step = "verify"
         /\ \/ disk' = disk \ ObjectsOf(Uploads(s)) /\ faults' = faults
            \/ disk' = disk /\ Fault
<1>1. "verify" \in Steps /\ save[s].step = "cleanup"
  BY DEF Steps, CleanUp, At
<1>2. QED
  BY <1>1, GoToMoves DEF CleanUp

LEMMA ErrorEffect ==
  ASSUME TypeOK, NEW s \in Saves, HandleSaveError(s)
  PROVE  /\ save' \in [Saves -> Updates] /\ Others(s) /\ SameData(s) /\ Rests(s)
         /\ save[s].step = "verify"
         /\ \/ /\ faults' = faults
               /\ save'[s].step = IF Uploads(s) # {} /\ Absent(s) THEN "release" ELSE "done"
            \/ save'[s].step = "done" /\ Fault
<1>1. {"release", "done"} \subseteq Steps /\ save[s].step = "verify"
  BY DEF Steps, Exchanges, HandleSaveError, At
<1>2. QED
  BY <1>1, GoToMoves DEF HandleSaveError

LEMMA CallEffect ==
  ASSUME TypeOK, NEW s \in Saves, Call(s)
  PROVE  /\ save' \in [Saves -> Updates] /\ Others(s) /\ SameData(s) /\ save'[s].waiting
         /\ save[s].step \in Exchanges /\ ~save[s].waiting /\ save'[s].step = save[s].step
<1>1. save \in [Saves -> Updates] /\ save[s].step \in Exchanges /\ ~save[s].waiting
  BY DEF Call, TypeOK, Updates
<1>2. save' = [save EXCEPT ![s] = [save[s] EXCEPT !.waiting = TRUE]]
  BY DEF Call
<1>3. save[s] \in Updates
  BY <1>1
<1>4. [save[s] EXCEPT !.waiting = TRUE] \in Updates
  BY <1>3 DEF Updates
<1>5. save'[s] = [save[s] EXCEPT !.waiting = TRUE]
  BY <1>1, <1>2
<1>6. save'[s].waiting /\ save'[s].step = save[s].step /\ SameData(s)
  BY <1>3, <1>5 DEF Updates, SameData, SameNames
<1>7. QED
  BY <1>1, <1>2, <1>4, <1>6 DEF Others

(* The end of an exchange: its answer, or the end of waiting for it. *)
LEMMA ReturnedEffect ==
  ASSUME TypeOK, NEW s \in Saves, NEW result \in {"ok", "denied", "error"},
         save[s].step \in Exchanges, Returned(s, result)
  PROVE  /\ save' \in [Saves -> Updates] /\ Others(s) /\ SameData(s) /\ Rests(s)
         /\ save[s].step = "reserve" =>
              save'[s].step = IF result = "ok" THEN "write" ELSE "done"
         /\ save[s].step = "settle" /\ result = "ok" => save'[s].step = "confirm"
         /\ save[s].step = "settle" /\ result = "error" => save'[s].step \in {"settle", "confirm"}
         /\ save[s].step \in {"release", "credit"} =>
              IF result = "error" THEN save'[s].step \in {save[s].step, "done"}
                                  ELSE save'[s].step = "done"
<1>1. save \in [Saves -> Updates] /\ save[s] \in Updates
  BY DEF TypeOK, Updates
<1>2. /\ save[s].step = "reserve" => /\ Following(save[s].step) = "write"
                                     /\ Unanswered(save[s].step) = "done"
      /\ save[s].step = "settle" => /\ Following(save[s].step) = "confirm"
                                    /\ Unanswered(save[s].step) = "confirm"
      /\ save[s].step \in {"release", "credit"} => /\ Following(save[s].step) = "done"
                                                   /\ Unanswered(save[s].step) = "done"
  BY DEF Following, Unanswered
<1>3. {"write", "done", "confirm"} \subseteq Steps
  BY DEF Steps
<1>4. save[s].attempt \in 1 .. Attempts /\ Attempts \in Nat
  BY <1>1, NativeFilesAssumption DEF Updates
<1> DEFINE tries == IF save[s].step = "reserve" THEN 1 ELSE Attempts
<1>5. CASE result = "error" /\ save[s].attempt < tries
  <2> DEFINE u == [save[s] EXCEPT !.waiting = FALSE, !.attempt = @ + 1]
  <2>1. save' = [save EXCEPT ![s] = u]
    BY <1>5 DEF Returned
  <2>2. save[s].attempt + 1 \in 1 .. Attempts
    BY <1>4, <1>5
  <2>3. u \in Updates /\ ~u.waiting /\ u.step = save[s].step /\ u.original = save[s].original
        /\ u.names = save[s].names /\ u.removals = save[s].removals /\ u.freed = save[s].freed
    BY <1>1, <2>2 DEF Updates
  <2> HIDE DEF u
  <2>4. save'[s] = u /\ save' \in [Saves -> Updates] /\ Others(s)
    BY <1>1, <2>1, <2>3 DEF Others
  <2>5. save[s].step # "reserve"
    BY <1>4, <1>5
  <2>6. save[s].step \in {"settle", "release", "credit"}
    BY <2>5 DEF Exchanges
  <2>7. QED
    BY <1>5, <2>3, <2>4, <2>6 DEF SameData, SameNames, Rests
<1>6. CASE result # "error" \/ ~(save[s].attempt < tries)
  <2>1. save' = GoTo(s, IF result = "ok" THEN Following(save[s].step)
                        ELSE IF result = "denied" THEN "done" ELSE Unanswered(save[s].step))
    BY <1>6 DEF Returned
  <2>2. save[s].step \in {"reserve", "settle", "release", "credit"}
    BY DEF Exchanges
  <2> DEFINE p == IF result = "ok" THEN Following(save[s].step)
                  ELSE IF result = "denied" THEN "done" ELSE Unanswered(save[s].step)
  <2>3. p \in Steps
    BY <1>2, <1>3, <2>2
  <2>4. save' = GoTo(s, p)
    BY <2>1
  <2> HIDE DEF p
  <2>5. /\ save' \in [Saves -> Updates] /\ Others(s) /\ SameData(s) /\ Rests(s)
        /\ save'[s].step = p
    BY <2>3, <2>4, GoToMoves
  <2>6. QED
    BY <1>2, <2>5 DEF p
<1>7. QED
  BY <1>5, <1>6

LEMMA GiveUpEffect ==
  ASSUME TypeOK, Shaped, NEW s \in Saves, GiveUp(s)
  PROVE  /\ save' \in [Saves -> Updates] /\ Others(s) /\ SameData(s) /\ Rests(s) /\ Fault
         /\ save[s].step \in Exchanges
         /\ save[s].step = "reserve" => save'[s].step = "done"
         /\ save[s].step = "settle" => save'[s].step \in {"settle", "confirm"}
         /\ save[s].step \in {"release", "credit"} => save'[s].step \in {save[s].step, "done"}
<1>1. save[s].step \in Exchanges /\ Returned(s, "error") /\ Fault
  BY DEF GiveUp, Shaped, ShapedAt, Doing
<1>2. QED
  BY <1>1, ReturnedEffect

LEMMA CrashEffect ==
  ASSUME TypeOK, Shaped, Crash
  PROVE  /\ save' \in [Saves -> Updates] /\ Fault
         /\ \A s \in Saves :
              /\ SameData(s) /\ Rests(s)
              /\ save'[s].step = IF save[s].step \in {"idle", "done"} THEN save[s].step ELSE "gone"
<1>1. save \in [Saves -> Updates] /\ "gone" \in Steps
  BY DEF TypeOK, Updates, Steps
<1>2. save' = [s \in Saves |-> IF save[s].step \in {"idle", "done"} THEN save[s]
                               ELSE [save[s] EXCEPT !.step = "gone", !.waiting = FALSE]]
  BY DEF Crash
<1>3. ASSUME NEW s \in Saves
      PROVE  /\ SameData(s) /\ Rests(s) /\ save'[s] \in Updates
             /\ save'[s].step = IF save[s].step \in {"idle", "done"} THEN save[s].step ELSE "gone"
  <2>1. save[s] \in Updates
    BY <1>1
  <2>2. CASE save[s].step \in {"idle", "done"}
    <3>1. save'[s] = save[s] /\ ~save[s].waiting
      BY <1>2, <2>2 DEF Shaped, ShapedAt, Doing, Exchanges
    <3>2. QED
      BY <2>1, <2>2, <3>1 DEF SameData, SameNames, Rests
  <2>3. CASE save[s].step \notin {"idle", "done"}
    <3>1. save'[s] = [save[s] EXCEPT !.step = "gone", !.waiting = FALSE]
      BY <1>2, <2>3
    <3>2. QED
      BY <1>1, <2>1, <2>3, <3>1 DEF SameData, SameNames, Rests, Updates
  <2>4. QED
    BY <2>2, <2>3
<1>4. QED
  BY <1>2, <1>3 DEF Crash

(* The provider never answers with an error: requests arrive in a state in which
   they have their effect or have had it. *)
LEMMA ServeEffect ==
  ASSUME TypeOK, Shaped, Booked, NEW m \in net, ServeHTTP(m), NEW s, s = m[1]
  PROVE  /\ s \in Saves /\ m = <<s, m[2]>>
         /\ save' \in [Saves -> Updates] /\ Others(s) /\ SameData(s)
         /\ net' = net \ {m} /\ row' = row /\ disk' = disk /\ faults' = faults
         /\ \/ /\ m[2] = "reserve" /\ reservation[s] = "none"
               /\ reservation' = [reservation EXCEPT ![s] = IF Fits(s) THEN "reserved" ELSE "denied"]
               /\ credits' = credits /\ used' = used /\ floored' = floored
            \/ /\ m[2] = "settle" /\ Taken(s)
               /\ reservation' = [reservation EXCEPT ![s] = "settled"]
               /\ used' = IF reservation[s] = "reserved" THEN used + Stored(s) ELSE used
               /\ credits' = credits /\ floored' = floored
            \/ /\ m[2] = "release" /\ reservation[s] \in {"reserved", "released"}
               /\ reservation' = [reservation EXCEPT ![s] = "released"]
               /\ credits' = credits /\ used' = used /\ floored' = floored
            \/ /\ m[2] = "credit" /\ Credit(s) /\ reservation' = reservation
         /\ IF save[s].waiting /\ save[s].step = m[2]
            THEN /\ Rests(s)
                 /\ save'[s].step = CASE m[2] = "reserve" -> IF Fits(s) THEN "write" ELSE "done"
                                      [] m[2] = "settle" -> "confirm"
                                      [] OTHER -> "done"
            ELSE save' = save
<1>1. m \in Saves \X Exchanges /\ save \in [Saves -> Updates]
  BY DEF TypeOK, Updates
<1>2. s \in Saves /\ m = <<s, m[2]>> /\ m[2] \in {"reserve", "settle", "release", "credit"}
  BY <1>1 DEF Exchanges
<1>3. reservation \in [Saves -> {"none", "denied", "reserved", "settled", "released"}]
  BY DEF TypeOK
<1>4. PICK result \in {"ok", "denied", "error"} :
        /\ CASE m[2] = "reserve" -> Reserve(s, result) /\ UNCHANGED <<credits, used, floored>>
             [] m[2] = "settle"  -> Settle(s, result) /\ UNCHANGED <<credits, floored>>
             [] m[2] = "release" -> Release(s, result) /\ UNCHANGED <<credits, used, floored>>
             [] m[2] = "credit"  -> Credit(s) /\ result = "ok" /\ UNCHANGED reservation
        /\ IF save[s].waiting /\ Request(s) = m THEN Returned(s, result) ELSE UNCHANGED save
  BY DEF ServeHTTP
<1>5. net' = net \ {m} /\ row' = row /\ disk' = disk /\ faults' = faults
  BY DEF ServeHTTP
<1>6. (save[s].waiting /\ Request(s) = m) <=> (save[s].waiting /\ save[s].step = m[2])
  BY <1>2 DEF Request
<1>7. m[2] = "reserve" =>
        /\ reservation[s] = "none" /\ credits' = credits /\ used' = used /\ floored' = floored
        /\ reservation' = [reservation EXCEPT ![s] = IF Fits(s) THEN "reserved" ELSE "denied"]
        /\ result = IF Fits(s) THEN "ok" ELSE "denied"
  BY <1>2, <1>4 DEF Reserve, Booked, BookedAt
<1>8. m[2] = "settle" =>
        /\ Taken(s) /\ credits' = credits /\ floored' = floored
        /\ reservation' = [reservation EXCEPT ![s] = "settled"]
        /\ used' = IF reservation[s] = "reserved" THEN used + Stored(s) ELSE used
        /\ result = "ok"
  <2>1. SUFFICES ASSUME m[2] = "settle" PROVE
          /\ Taken(s) /\ credits' = credits /\ floored' = floored
          /\ reservation' = [reservation EXCEPT ![s] = "settled"]
          /\ used' = IF reservation[s] = "reserved" THEN used + Stored(s) ELSE used
          /\ result = "ok"
    OBVIOUS
  <2>2. Taken(s) /\ Settle(s, result) /\ credits' = credits /\ floored' = floored
    BY <1>2, <1>4, <2>1 DEF Booked, BookedAt
  <2>3. reservation[s] = "settled" => reservation = [reservation EXCEPT ![s] = "settled"]
    BY <1>2, <1>3
  <2>4. QED
    BY <2>2, <2>3 DEF Settle, Taken
<1>9. m[2] = "release" =>
        /\ reservation[s] \in {"reserved", "released"}
        /\ credits' = credits /\ used' = used /\ floored' = floored
        /\ reservation' = [reservation EXCEPT ![s] = "released"]
        /\ result = "ok"
  <2>1. SUFFICES ASSUME m[2] = "release" PROVE
          /\ reservation[s] \in {"reserved", "released"}
          /\ credits' = credits /\ used' = used /\ floored' = floored
          /\ reservation' = [reservation EXCEPT ![s] = "released"]
          /\ result = "ok"
    OBVIOUS
  <2>2. /\ reservation[s] \in {"reserved", "released"} /\ Release(s, result)
        /\ credits' = credits /\ used' = used /\ floored' = floored
    BY <1>2, <1>4, <2>1 DEF Booked, BookedAt
  <2>3. reservation[s] = "released" => reservation = [reservation EXCEPT ![s] = "released"]
    BY <1>2, <1>3
  <2>4. QED
    BY <2>2, <2>3 DEF Release
<1>10. m[2] = "credit" => Credit(s) /\ reservation' = reservation /\ result = "ok"
  BY <1>4
<1>11. CASE save[s].waiting /\ save[s].step = m[2]
  <2>1. Returned(s, result) /\ save[s].step \in Exchanges
    BY <1>2, <1>4, <1>6, <1>11 DEF Exchanges
  <2>2. /\ save' \in [Saves -> Updates] /\ Others(s) /\ SameData(s) /\ Rests(s)
        /\ save[s].step = "reserve" => save'[s].step = IF result = "ok" THEN "write" ELSE "done"
        /\ save[s].step = "settle" /\ result = "ok" => save'[s].step = "confirm"
        /\ save[s].step \in {"release", "credit"} =>
              IF result = "error" THEN save'[s].step \in {save[s].step, "done"}
                                  ELSE save'[s].step = "done"
    BY <1>2, <2>1, ReturnedEffect
  <2>3. save'[s].step = CASE m[2] = "reserve" -> IF Fits(s) THEN "write" ELSE "done"
                          [] m[2] = "settle" -> "confirm"
                          [] OTHER -> "done"
    BY <1>2, <1>7, <1>8, <1>9, <1>10, <1>11, <2>2
  <2>4. QED
    BY <1>2, <1>5, <1>7, <1>8, <1>9, <1>10, <1>11, <2>2, <2>3
<1>12. CASE ~(save[s].waiting /\ save[s].step = m[2])
  <2>1. save' = save
    BY <1>4, <1>6, <1>12
  <2>2. save' \in [Saves -> Updates] /\ Others(s) /\ SameData(s)
    BY <1>1, <2>1 DEF Others, SameData, SameNames
  <2>3. QED
    BY <1>2, <1>5, <1>7, <1>8, <1>9, <1>10, <1>12, <2>1, <2>2
<1>13. QED
  BY <1>11, <1>12

----------------------------------------------------------------------------
(* Types. *)
LEMMA TypeStep ==
  ASSUME TypeOK, Shaped, Booked, [Next]_vars
  PROVE  TypeOK'
<1> USE DEF Updates
<1>1. ASSUME NEW s \in Saves, Load(s) PROVE TypeOK'
  BY <1>1, LoadEffect DEF Load, TypeOK, provider
<1>2. ASSUME NEW s \in Saves, Write(s) PROVE TypeOK'
  <2>1. UploadOf(Uploads(s)) \subseteq Objects
    BY DEF TypeOK, Uploads, UploadOf, Objects
  <2>2. disk' \subseteq Objects /\ faults' \in 0 .. MaxFaults
    BY <1>2, <2>1, WriteEffect, NativeFilesAssumption DEF TypeOK, Fault
  <2>3. QED
    BY <1>2, <2>2, WriteEffect DEF Write, TypeOK, provider
<1>3. ASSUME NEW s \in Saves, Commit(s) PROVE TypeOK'
  <2>1. row' \subseteq Names
    BY <1>3, CommitEffect DEF TypeOK
  <2>2. QED
    BY <1>3, <2>1, CommitEffect DEF Commit, TypeOK, provider
<1>4. ASSUME NEW s \in Saves, StashDeleteSizes(s) PROVE TypeOK'
  <2>1. faults' \in 0 .. MaxFaults
    <3>1. faults' = faults \/ Fault
      BY <1>4, StashEffect
    <3>2. QED
      BY <3>1, NativeFilesAssumption DEF TypeOK, Fault
  <2>2. QED
    BY <1>4, <2>1, StashEffect DEF StashDeleteSizes, TypeOK, provider
<1>5. ASSUME NEW s \in Saves, RemoveOld(s) PROVE TypeOK'
  <2>1. faults' \in 0 .. MaxFaults /\ disk' \subseteq disk
    BY <1>5, RemoveEffect, NativeFilesAssumption DEF TypeOK, Fault
  <2>2. QED
    BY <1>5, <2>1, RemoveEffect DEF RemoveOld, TypeOK, provider
<1>6. ASSUME NEW s \in Saves, CreditConfirmedDeletes(s) PROVE TypeOK'
  <2>1. faults' \in 0 .. MaxFaults
    <3>1. faults' = faults \/ Fault
      BY <1>6, ConfirmEffect
    <3>2. QED
      BY <3>1, NativeFilesAssumption DEF TypeOK, Fault
  <2>2. QED
    BY <1>6, <2>1, ConfirmEffect DEF CreditConfirmedDeletes, TypeOK, provider
<1>7. ASSUME NEW s \in Saves, CleanUp(s) PROVE TypeOK'
  <2>1. faults' \in 0 .. MaxFaults /\ disk' \subseteq disk
    BY <1>7, CleanUpEffect, NativeFilesAssumption DEF TypeOK, Fault
  <2>2. QED
    BY <1>7, <2>1, CleanUpEffect DEF CleanUp, TypeOK, provider
<1>8. ASSUME NEW s \in Saves, HandleSaveError(s) PROVE TypeOK'
  <2>1. faults' \in 0 .. MaxFaults
    BY <1>8, ErrorEffect, NativeFilesAssumption DEF TypeOK, Fault
  <2>2. QED
    BY <1>8, <2>1, ErrorEffect DEF HandleSaveError, TypeOK, provider
<1>9. ASSUME NEW s \in Saves, Call(s) PROVE TypeOK'
  <2>1. net' \subseteq Saves \X Exchanges
    BY <1>9, CallEffect DEF Call, Request, TypeOK
  <2>2. QED
    BY <1>9, <2>1, CallEffect DEF Call, TypeOK
<1>10. ASSUME NEW s \in Saves, GiveUp(s) PROVE TypeOK'
  <2>1. faults' \in 0 .. MaxFaults
    BY <1>10, GiveUpEffect, NativeFilesAssumption DEF TypeOK, Fault
  <2>2. QED
    BY <1>10, <2>1, GiveUpEffect DEF GiveUp, TypeOK, provider
<1>11. ASSUME NEW m \in net, ServeHTTP(m) PROVE TypeOK'
  <2> DEFINE s == m[1]
  <2>1. s \in Saves
    BY <1>11, ServeEffect
  <2>2. reservation' \in [Saves -> {"none", "denied", "reserved", "settled", "released"}]
    BY <1>11, <2>1, ServeEffect DEF TypeOK
  <2>3. Stored(s) \in Nat /\ Bytes(save[s].freed) \in Nat
    <3>1. (Uploads(s) \cap save[s].names) \X {"main"} \in SUBSET Objects
          /\ save[s].freed \in SUBSET Objects
      BY <2>1 DEF TypeOK, Objects
    <3>2. QED
      BY <3>1, BytesFacts DEF Stored
  <2>4. used' \in Nat /\ floored' \in Nat /\ credits' \subseteq Saves
    <3> HIDE DEF s
    <3>1. used \in Nat /\ floored \in Nat /\ credits \subseteq Saves
      BY DEF TypeOK
    <3>2. CASE Credit(s)
      BY <2>1, <2>3, <3>1, <3>2 DEF Credit, TakeOff
    <3>3. CASE credits' = credits /\ floored' = floored /\ (used' = used \/ used' = used + Stored(s))
      BY <2>3, <3>1, <3>3
    <3>4. QED
      BY <1>11, <3>2, <3>3, ServeEffect DEF s
  <2>5. /\ save' \in [Saves -> Updates] /\ net' \subseteq net
        /\ row' = row /\ disk' = disk /\ faults' = faults
    BY <1>11, ServeEffect
  <2> HIDE DEF s
  <2>6. QED
    BY <2>2, <2>4, <2>5 DEF TypeOK
<1>12. ASSUME NEW m \in net, Lose(m) PROVE TypeOK'
  BY <1>12 DEF Lose, TypeOK
<1>13. CASE Crash
  <2>1. faults' \in 0 .. MaxFaults
    BY <1>13, CrashEffect, NativeFilesAssumption DEF TypeOK, Fault
  <2>2. QED
    BY <1>13, <2>1, CrashEffect DEF Crash, TypeOK, provider
<1>14. CASE UNCHANGED vars
  BY <1>14 DEF vars, TypeOK
<1>15. QED
  BY <1>1, <1>2, <1>3, <1>4, <1>5, <1>6, <1>7, <1>8, <1>9, <1>10, <1>11, <1>12, <1>13, <1>14
     DEF Next

----------------------------------------------------------------------------
(* A save by itself. *)
LEMMA ShapedStep ==
  ASSUME TypeOK, Shaped, Booked, Lasting, Covered, [Next]_vars
  PROVE  Shaped'
<1>1. \A s \in Saves : s # Old /\ ShapedAt(s)
  BY NativeFilesAssumption DEF Shaped
<1>2. ASSUME NEW s \in Saves, Others(s), credits' = credits, ShapedAt(s)'
      PROVE  Shaped'
  <2>1. ASSUME NEW r \in Saves \ {s} PROVE ShapedAt(r)'
    <3>1. save'[r] = save[r]
      BY <1>2 DEF Others
    <3>2. QED
      BY <1>1, <1>2, <3>1 DEF ShapedAt, Doing, Dropped
  <2>2. QED
    BY <1>2, <2>1 DEF Shaped
<1>3. ASSUME NEW s \in Saves, SameData(s), Rests(s), save'[s].step \notin {"idle", "reserve"},
             s \in credits' <=> s \in credits,
             save[s].step \in {"credit"} \cup Ended => save'[s].step \in {"credit"} \cup Ended
      PROVE  ShapedAt(s)'
  BY <1>1, <1>3 DEF ShapedAt, Doing, Dropped, SameData, SameNames, Rests
<1>4. ASSUME NEW s \in Saves, Load(s) PROVE Shaped'
  <2>1. s \notin row
    BY <1>1, <1>4, LoadEffect DEF Lasting, LastsAt, Known, Doing, Committed, Ended
  <2>2. save[s].removals = {} /\ save[s].freed = {} /\ s \notin credits /\ credits' = credits
    BY <1>1, <1>4, LoadEffect DEF ShapedAt, Doing, Ended, Load, provider
  <2>3. ShapedAt(s)'
    BY <1>4, <2>1, <2>2, LoadEffect DEF ShapedAt, Doing, Rests, Ended
  <2>4. QED
    BY <1>2, <1>4, <2>2, <2>3, LoadEffect
<1>5. ASSUME NEW s \in Saves, Write(s) PROVE Shaped'
  BY <1>2, <1>3, <1>5, WriteEffect DEF Write, provider, Ended
<1>6. ASSUME NEW s \in Saves, Commit(s) PROVE Shaped'
  BY <1>2, <1>3, <1>6, CommitEffect DEF Commit, provider, Ended
<1>7. ASSUME NEW s \in Saves, StashDeleteSizes(s) PROVE Shaped'
  <2>1. credits' = credits /\ save[s].freed = {} /\ s \notin credits
    BY <1>1, <1>7, StashEffect DEF StashDeleteSizes, provider, ShapedAt, Doing, Ended
  <2> DEFINE there == ObjectsOf({n \in Dropped(s) : <<n, "main">> \in disk})
  <2>2. \A o \in there : o[1] \in Dropped(s) /\ (o[2] = "thumb" => o[1] = Old)
    BY DEF ObjectsOf, Covered, OldObjects, UploadOf
  <2>3. \A o \in save'[s].removals : o[1] \in Dropped(s) /\ (o[2] = "thumb" => o[1] = Old)
    <3>1. save'[s].removals \subseteq there
      BY <1>7, StashEffect
    <3> HIDE DEF there
    <3>2. QED
      BY <1>1, <2>2, <3>1 DEF ShapedAt
  <2>4. ShapedAt(s)'
    BY <1>1, <1>7, <2>1, <2>3, StashEffect DEF ShapedAt, Doing, Dropped, SameNames, Rests
  <2>5. QED
    BY <1>2, <1>7, <2>1, <2>4, StashEffect
<1>8. ASSUME NEW s \in Saves, RemoveOld(s) PROVE Shaped'
  BY <1>2, <1>3, <1>8, RemoveEffect DEF RemoveOld, provider, Ended
<1>9. ASSUME NEW s \in Saves, CreditConfirmedDeletes(s) PROVE Shaped'
  <2>1. credits' = credits /\ s \notin credits
    BY <1>1, <1>9, ConfirmEffect DEF CreditConfirmedDeletes, provider, ShapedAt, Doing, Ended
  <2>2. /\ save'[s].removals = save[s].removals /\ save'[s].freed \subseteq save[s].removals
        /\ save'[s].step \in {"done", "credit"}
    BY <1>9, ConfirmEffect
  <2>3. ShapedAt(s)'
    BY <1>1, <1>9, <2>1, <2>2, ConfirmEffect DEF ShapedAt, Doing, Dropped, SameNames, Rests, Ended
  <2>4. QED
    BY <1>2, <1>9, <2>1, <2>3, ConfirmEffect
<1>10. ASSUME NEW s \in Saves, CleanUp(s) PROVE Shaped'
  BY <1>2, <1>3, <1>10, CleanUpEffect DEF CleanUp, provider, Ended
<1>11. ASSUME NEW s \in Saves, HandleSaveError(s) PROVE Shaped'
  BY <1>2, <1>3, <1>11, ErrorEffect DEF HandleSaveError, provider, Ended
<1>12. ASSUME NEW s \in Saves, Call(s) PROVE Shaped'
  <2>1. credits' = credits
    BY <1>12 DEF Call
  <2>2. ShapedAt(s)'
    BY <1>1, <1>12, <2>1, CallEffect DEF ShapedAt, Doing, Dropped, SameData, SameNames
  <2>3. QED
    BY <1>2, <1>12, <2>1, <2>2, CallEffect
<1>13. ASSUME NEW s \in Saves, GiveUp(s) PROVE Shaped'
  <2>1. credits' = credits /\ save[s].step \in {"reserve", "settle", "release", "credit"}
    BY <1>13, GiveUpEffect DEF GiveUp, provider, Exchanges
  <2>2. QED
    BY <1>2, <1>3, <1>13, <2>1, GiveUpEffect DEF Ended
<1>14. ASSUME NEW m \in net, ServeHTTP(m) PROVE Shaped'
  <2> DEFINE s == m[1]
  <2>1. s \in Saves /\ Others(s) /\ SameData(s)
    BY <1>14, ServeEffect
  <2>2. \A r \in Saves \ {s} : r \in credits' <=> r \in credits
    BY <1>14, ServeEffect DEF Credit
  <2>3. ASSUME NEW r \in Saves \ {s} PROVE ShapedAt(r)'
    <3>1. save'[r] = save[r]
      BY <2>1 DEF Others
    <3>2. QED
      BY <1>1, <2>2, <3>1 DEF ShapedAt, Doing, Dropped
  <2>4. s \in credits' => Doing(s, {"credit"} \cup Ended)
    <3>1. CASE m[2] = "credit"
      <4>1. m = <<s, "credit">>
        BY <1>14, <3>1, ServeEffect
      <4>2. QED
        BY <1>14, <2>1, <4>1 DEF Booked, BookedAt
    <3>2. CASE m[2] # "credit"
      BY <1>1, <1>14, <2>1, <3>2, ServeEffect DEF ShapedAt
    <3>3. QED
      BY <3>1, <3>2
  <2>5. CASE save[s].waiting /\ save[s].step = m[2]
    <3>1. Rests(s) /\ save'[s].step \in {"write", "confirm", "done"}
      BY <1>14, <2>5, ServeEffect
    <3>2. save[s].step \in {"credit"} \cup Ended => save'[s].step = "done"
      <4>1. save[s].step \in {"credit"} \cup Ended => m[2] \notin {"reserve", "settle"}
        BY <2>5 DEF Ended
      <4>2. QED
        BY <1>14, <2>5, <4>1, ServeEffect
    <3> HIDE DEF s
    <3>3. ShapedAt(s)'
      BY <1>1, <2>1, <2>4, <3>1, <3>2
         DEF ShapedAt, Doing, Dropped, SameData, SameNames, Rests, Ended
    <3>4. QED
      BY <2>3, <3>3 DEF Shaped
  <2>6. CASE ~(save[s].waiting /\ save[s].step = m[2])
    <3>1. save' = save
      BY <1>14, <2>6, ServeEffect
    <3> HIDE DEF s
    <3>2. ShapedAt(s)'
      BY <1>1, <2>1, <2>4, <3>1 DEF ShapedAt, Doing, Dropped
    <3>3. QED
      BY <2>3, <3>2 DEF Shaped
  <2>7. QED
    BY <2>5, <2>6
<1>15. CASE Crash
  <2>1. ASSUME NEW s \in Saves PROVE ShapedAt(s)'
    <3>1. /\ SameData(s) /\ Rests(s) /\ credits' = credits
          /\ save'[s].step = IF save[s].step \in {"idle", "done"} THEN save[s].step ELSE "gone"
      BY <1>15, CrashEffect DEF Crash, provider
    <3>2. QED
      BY <1>1, <3>1 DEF ShapedAt, Doing, Dropped, SameData, SameNames, Rests, Ended
  <2>2. QED
    BY <2>1 DEF Shaped
<1>16. ASSUME save' = save, credits' = credits PROVE Shaped'
  BY <1>1, <1>16 DEF Shaped, ShapedAt, Doing, Dropped
<1>17. QED
  BY <1>4, <1>5, <1>6, <1>7, <1>8, <1>9, <1>10, <1>11, <1>12, <1>13, <1>14, <1>15, <1>16
     DEF Next, Lose, vars

----------------------------------------------------------------------------
(* A save and the provider. *)
LEMMA BookedStep ==
  ASSUME TypeOK, Shaped, Booked, Lasting, [Next]_vars
  PROVE  Booked'
<1> USE DEF Doing, Taken
<1>1. \A s \in Saves : s # Old /\ ShapedAt(s) /\ BookedAt(s) /\ Uploads(s) \subseteq {s}
  BY NativeFilesAssumption DEF Shaped, Booked, ShapedAt, Uploads
<1>2. ASSUME NEW s \in Saves, Others(s), BookedAt(s)',
             \A r \in Saves \ {s} :
               /\ reservation'[r] = reservation[r]
               /\ \A e \in Exchanges : <<r, e>> \in net' => <<r, e>> \in net
      PROVE  Booked'
  <2>1. ASSUME NEW r \in Saves \ {s} PROVE BookedAt(r)'
    <3>1. save'[r] = save[r]
      BY <1>2 DEF Others
    <3>2. QED
      BY <1>1, <1>2, <3>1 DEF BookedAt, Uploads, Exchanges
  <2>2. QED
    BY <1>2, <2>1 DEF Booked
<1>3. ASSUME NEW s \in Saves, Others(s), SameNames(s), net' = net, reservation' = reservation,
             save[s].step = "write" => save'[s].step \in {"commit", "cleanup"},
             save[s].step = "commit" => save'[s].step \in {"stash", "cleanup"},
             save[s].step = "stash" => save'[s].step = "remove",
             save[s].step = "remove" =>
                save'[s].step = IF Uploads(s) = {} THEN "confirm" ELSE "settle",
             save[s].step = "confirm" => save'[s].step \in {"done", "credit"},
             save[s].step = "cleanup" => save'[s].step = "verify",
             save[s].step = "verify" => \/ save'[s].step = "done"
                                        \/ save'[s].step = "release" /\ Uploads(s) # {},
             save[s].step = "reserve" => save'[s].step = "done",
             save[s].step = "settle" => save'[s].step \in {"settle", "confirm"},
             save[s].step \in {"release", "credit"} => save'[s].step \in {save[s].step, "done"},
             save[s].step \notin {"idle", "done", "gone"}
      PROVE  Booked'
  <2>1. Uploads(s)' = Uploads(s) /\ save[s].step \in Steps
    BY <1>3 DEF SameNames, Uploads, TypeOK
  <2>2. s \in Uploads(s) <=> Uploads(s) # {}
    BY <1>1
  <2>3. BookedAt(s)'
    BY <1>1, <1>3, <2>1, <2>2 DEF BookedAt, Ended, Steps, Exchanges
  <2>4. QED
    BY <1>2, <1>3, <2>3
<1>4. ASSUME NEW s \in Saves, Load(s) PROVE Booked'
  <2>1. s \notin row
    BY <1>1, <1>4, LoadEffect DEF Lasting, LastsAt, Known, Committed, Ended
  <2>2. net' = net /\ reservation' = reservation
    BY <1>4 DEF Load, provider
  <2>3. reservation[s] = "none" /\ \A e \in Exchanges : <<s, e>> \notin net
    BY <1>1, <1>4, LoadEffect DEF BookedAt, Ended, Exchanges
  <2>4. \/ save'[s].step = "write" /\ s \notin Uploads(s)'
        \/ save'[s].step = "reserve"
    BY <1>4, <2>1, LoadEffect DEF Uploads
  <2>5. BookedAt(s)'
    BY <2>2, <2>3, <2>4 DEF BookedAt, Exchanges
  <2>6. QED
    BY <1>2, <1>4, <2>2, <2>5, LoadEffect
<1>5. ASSUME NEW s \in Saves, Write(s) PROVE Booked'
  BY <1>3, <1>5, WriteEffect DEF Write, provider, SameData
<1>6. ASSUME NEW s \in Saves, Commit(s) PROVE Booked'
  BY <1>3, <1>6, CommitEffect DEF Commit, provider, SameData
<1>7. ASSUME NEW s \in Saves, StashDeleteSizes(s) PROVE Booked'
  BY <1>3, <1>7, StashEffect DEF StashDeleteSizes, provider, SameData
<1>8. ASSUME NEW s \in Saves, RemoveOld(s) PROVE Booked'
  BY <1>3, <1>8, RemoveEffect DEF RemoveOld, provider, SameData
<1>9. ASSUME NEW s \in Saves, CreditConfirmedDeletes(s) PROVE Booked'
  BY <1>3, <1>9, ConfirmEffect DEF CreditConfirmedDeletes, provider, SameData
<1>10. ASSUME NEW s \in Saves, CleanUp(s) PROVE Booked'
  BY <1>3, <1>10, CleanUpEffect DEF CleanUp, provider, SameData
<1>11. ASSUME NEW s \in Saves, HandleSaveError(s) PROVE Booked'
  BY <1>3, <1>11, ErrorEffect DEF HandleSaveError, provider, SameData
<1>12. ASSUME NEW s \in Saves, Call(s) PROVE Booked'
  <2>1. Others(s) /\ SameNames(s) /\ save'[s].step = save[s].step /\ save'[s].waiting
    BY <1>12, CallEffect DEF SameData
  <2>2. reservation' = reservation /\ net' = net \cup {<<s, save[s].step>>}
        /\ save[s].step \in Exchanges
    BY <1>12 DEF Call, Request
  <2>3. Uploads(s)' = Uploads(s)
    BY <2>1 DEF SameNames, Uploads
  <2>4. BookedAt(s)'
    BY <1>1, <2>1, <2>2, <2>3 DEF BookedAt, ShapedAt, Uploads, Ended, Exchanges
  <2>5. QED
    BY <1>2, <2>1, <2>2, <2>4 DEF Exchanges
<1>13. ASSUME NEW s \in Saves, GiveUp(s) PROVE Booked'
  <2>1. save[s].step \in {"reserve", "settle", "release", "credit"}
        /\ net' = net /\ reservation' = reservation
    BY <1>13, GiveUpEffect DEF GiveUp, provider, Exchanges
  <2>2. QED
    BY <1>3, <1>13, <2>1, GiveUpEffect DEF SameData
<1>14. ASSUME NEW m \in net, ServeHTTP(m) PROVE Booked'
  <2> DEFINE s == m[1]
  <2>1. /\ s \in Saves /\ m = <<s, m[2]>> /\ Others(s) /\ SameNames(s)
        /\ net' = net \ {m}
    BY <1>14, ServeEffect DEF SameData
  <2>2. Uploads(s)' = Uploads(s)
    BY <2>1 DEF SameNames, Uploads
  <2>3. reservation \in [Saves -> {"none", "denied", "reserved", "settled", "released"}]
    BY DEF TypeOK
  <2>4. \/ save[s].waiting /\ save[s].step = m[2]
        \/ ~(save[s].waiting /\ save[s].step = m[2]) /\ save' = save
    BY <1>14, ServeEffect
  <2>5. \A r \in Saves \ {s} : reservation'[r] = reservation[r]
    BY <1>14, <2>1, <2>3, ServeEffect
  <2>6. CASE m[2] = "reserve"
    <3>1. /\ reservation[s] = "none"
          /\ reservation'[s] = IF Fits(s) THEN "reserved" ELSE "denied"
      BY <1>14, <2>1, <2>3, <2>6, ServeEffect
    <3>2. save[s].step = "reserve" /\ save[s].waiting
          => save'[s].step = IF Fits(s) THEN "write" ELSE "done"
      BY <1>14, <2>1, <2>6, ServeEffect
    <3> HIDE DEF s
    <3>3. BookedAt(s)'
      BY <1>1, <2>1, <2>2, <2>4, <2>6, <3>1, <3>2 DEF BookedAt, ShapedAt, Uploads, Ended, Exchanges
    <3>4. QED
      BY <1>2, <2>1, <2>5, <3>3
  <2>7. CASE m[2] = "settle"
    <3>1. Taken(s) /\ reservation'[s] = "settled"
      BY <1>14, <2>1, <2>3, <2>7, ServeEffect
    <3>2. save[s].step = "settle" /\ save[s].waiting => save'[s].step = "confirm"
      BY <1>14, <2>1, <2>7, ServeEffect
    <3> HIDE DEF s
    <3>3. BookedAt(s)'
      BY <1>1, <2>1, <2>2, <2>4, <2>7, <3>1, <3>2 DEF BookedAt, ShapedAt, Uploads, Ended, Exchanges
    <3>4. QED
      BY <1>2, <2>1, <2>5, <3>3
  <2>8. CASE m[2] = "release"
    <3>1. reservation[s] \in {"reserved", "released"} /\ reservation'[s] = "released"
      BY <1>14, <2>1, <2>3, <2>8, ServeEffect
    <3>2. save[s].step = "release" /\ save[s].waiting => save'[s].step = "done"
      BY <1>14, <2>1, <2>8, ServeEffect
    <3> HIDE DEF s
    <3>3. BookedAt(s)'
      BY <1>1, <2>1, <2>2, <2>4, <2>8, <3>1, <3>2 DEF BookedAt, ShapedAt, Uploads, Ended, Exchanges
    <3>4. QED
      BY <1>2, <2>1, <2>5, <3>3
  <2>9. CASE m[2] = "credit"
    <3>1. reservation' = reservation
      BY <1>14, <2>1, <2>9, ServeEffect
    <3>2. save[s].step = "credit" /\ save[s].waiting => save'[s].step = "done"
      BY <1>14, <2>1, <2>9, ServeEffect
    <3> HIDE DEF s
    <3>3. BookedAt(s)'
      BY <1>1, <2>1, <2>2, <2>4, <2>9, <3>1, <3>2 DEF BookedAt, ShapedAt, Uploads, Ended, Exchanges
    <3>4. QED
      BY <1>2, <2>1, <2>5, <3>3
  <2>10. QED
    BY <1>14, <2>6, <2>7, <2>8, <2>9, ServeEffect
<1>15. CASE Crash
  <2>1. net' = net /\ reservation' = reservation
    BY <1>15 DEF Crash, provider
  <2>2. ASSUME NEW s \in Saves PROVE BookedAt(s)'
    <3>1. /\ SameNames(s)
          /\ save'[s].step = IF save[s].step \in {"idle", "done"} THEN save[s].step ELSE "gone"
      BY <1>15, CrashEffect DEF SameData
    <3>2. Uploads(s)' = Uploads(s)
      BY <3>1 DEF SameNames, Uploads
    <3>3. QED
      BY <1>1, <2>1, <3>1, <3>2 DEF BookedAt, Ended
  <2>3. QED
    BY <2>2 DEF Booked
<1>16. ASSUME save' = save, reservation' = reservation, net' \subseteq net PROVE Booked'
  BY <1>1, <1>16 DEF Booked, BookedAt, Uploads
<1>17. QED
  BY <1>4, <1>5, <1>6, <1>7, <1>8, <1>9, <1>10, <1>11, <1>12, <1>13, <1>14, <1>15, <1>16
     DEF Next, Lose, vars

----------------------------------------------------------------------------
(* The names the record has had. *)
LEMMA LastingStep ==
  ASSUME TypeOK, Shaped, Booked, Lasting, [Next]_vars
  PROVE  Lasting'
<1> USE DEF Doing, Taken
<1>1. \A s \in Saves : s # Old /\ ShapedAt(s) /\ BookedAt(s)
  BY NativeFilesAssumption DEF Shaped, Booked
<1>2. ASSUME Known' \subseteq Known, \A n \in Saves : LastsAt(n) => LastsAt(n)'
      PROVE  Lasting'
  <2>1. Known \subseteq Saves \cup {Old}
    BY DEF Known, TypeOK, Names
  <2>2. QED
    BY <1>2, <2>1 DEF Lasting
<1>3. ASSUME NEW s \in Saves, Others(s), SameNames(s), row' = row, net' = net,
             reservation' = reservation,
             save[s].step \in Committed \cup Ended => save'[s].step \in Committed \cup Ended
      PROVE  Lasting'
  <2>1. \A r \in Saves : save'[r].original = save[r].original
    BY <1>3 DEF Others, SameNames
  <2>2. Known' = Known
    BY <1>3, <2>1 DEF Known
  <2>3. ASSUME NEW n \in Saves, LastsAt(n) PROVE LastsAt(n)'
    BY <1>3, <2>3 DEF LastsAt, Others
  <2>4. QED
    BY <1>2, <2>2, <2>3
<1>4. ASSUME NEW s \in Saves, Load(s) PROVE Lasting'
  <2>1. Others(s) /\ save'[s].original = row /\ save[s].step = "idle"
        /\ row' = row /\ net' = net /\ reservation' = reservation
    BY <1>4, LoadEffect DEF Load, provider
  <2>2. \A r \in Saves : save'[r].original = save[r].original \/ save'[r].original = row
    BY <2>1 DEF Others
  <2>3. Known' \subseteq Known
    BY <2>1, <2>2 DEF Known
  <2>4. ASSUME NEW n \in Saves, LastsAt(n) PROVE LastsAt(n)'
    BY <2>1, <2>4 DEF LastsAt, Others, Committed, Ended
  <2>5. QED
    BY <1>2, <2>3, <2>4
<1>5. ASSUME NEW s \in Saves, Write(s) PROVE Lasting'
  BY <1>3, <1>5, WriteEffect DEF Write, provider, SameData, Committed, Ended
<1>6. ASSUME NEW s \in Saves, Commit(s) PROVE Lasting'
  <2>1. Others(s) /\ SameNames(s) /\ save[s].step = "commit"
        /\ net' = net /\ reservation' = reservation
    BY <1>6, CommitEffect DEF Commit, provider, SameData
  <2>2. CASE row' = row
    BY <1>3, <2>1, <2>2 DEF Committed, Ended
  <2>3. CASE save'[s].step = "stash" /\ row' = save[s].names
    <3>1. \A r \in Saves : save'[r].original = save[r].original
      BY <2>1 DEF Others, SameNames
    <3>2. Known' \subseteq Known \cup (Uploads(s) \cap {s})
      BY <1>1, <2>3, <3>1 DEF Known, ShapedAt, Uploads
    <3>3. s \in Uploads(s) => LastsAt(s)'
      BY <1>1, <2>1, <2>3 DEF LastsAt, BookedAt, Committed, Ended
    <3>4. ASSUME NEW n \in Saves, LastsAt(n) PROVE LastsAt(n)'
      BY <2>1, <3>4 DEF LastsAt, Others, Committed, Ended
    <3>5. Known \subseteq Saves \cup {Old}
      BY DEF Known, TypeOK, Names
    <3>6. QED
      BY <3>2, <3>3, <3>4, <3>5 DEF Lasting
  <2>4. QED
    BY <1>6, <2>2, <2>3, CommitEffect
<1>7. ASSUME NEW s \in Saves, StashDeleteSizes(s) PROVE Lasting'
  BY <1>3, <1>7, StashEffect DEF StashDeleteSizes, provider, SameData, Committed, Ended
<1>8. ASSUME NEW s \in Saves, RemoveOld(s) PROVE Lasting'
  BY <1>3, <1>8, RemoveEffect DEF RemoveOld, provider, SameData, Committed, Ended
<1>9. ASSUME NEW s \in Saves, CreditConfirmedDeletes(s) PROVE Lasting'
  BY <1>3, <1>9, ConfirmEffect DEF CreditConfirmedDeletes, provider, SameData, Committed, Ended
<1>10. ASSUME NEW s \in Saves, CleanUp(s) PROVE Lasting'
  BY <1>3, <1>10, CleanUpEffect DEF CleanUp, provider, SameData, Committed, Ended
<1>11. ASSUME NEW s \in Saves, HandleSaveError(s) PROVE Lasting'
  BY <1>3, <1>11, ErrorEffect DEF HandleSaveError, provider, SameData, Committed, Ended
<1>12. ASSUME NEW s \in Saves, Call(s) PROVE Lasting'
  <2>1. Others(s) /\ SameNames(s) /\ save'[s].step = save[s].step
    BY <1>12, CallEffect DEF SameData
  <2>2. reservation' = reservation /\ net' = net \cup {<<s, save[s].step>>} /\ row' = row
    BY <1>12 DEF Call, Request
  <2>3. \A r \in Saves : save'[r].original = save[r].original
    BY <2>1 DEF Others, SameNames
  <2>4. Known' = Known
    BY <2>2, <2>3 DEF Known
  <2>5. ASSUME NEW n \in Saves, LastsAt(n) PROVE LastsAt(n)'
    BY <2>1, <2>2, <2>5 DEF LastsAt, Others, Committed, Ended
  <2>6. QED
    BY <1>2, <2>4, <2>5
<1>13. ASSUME NEW s \in Saves, GiveUp(s) PROVE Lasting'
  <2>1. save[s].step \in {"reserve", "settle", "release", "credit"}
        /\ row' = row /\ net' = net /\ reservation' = reservation
    BY <1>13, GiveUpEffect DEF GiveUp, provider, Exchanges
  <2>2. QED
    BY <1>3, <1>13, <2>1, GiveUpEffect DEF SameData, Committed, Ended
<1>14. ASSUME NEW m \in net, ServeHTTP(m) PROVE Lasting'
  <2> DEFINE s == m[1]
  <2>1. /\ s \in Saves /\ m = <<s, m[2]>> /\ Others(s) /\ SameNames(s)
        /\ net' = net \ {m} /\ row' = row
    BY <1>14, ServeEffect DEF SameData
  <2>2. \A r \in Saves : save'[r].original = save[r].original
    BY <2>1 DEF Others, SameNames
  <2>3. Known' = Known
    BY <2>1, <2>2 DEF Known
  <2>4. save[s].step \in Committed \cup Ended => save'[s].step \in Committed \cup Ended
    <3>1. save[s].step \in Committed \cup Ended => save[s].step # "reserve"
      BY DEF Committed, Ended
    <3>2. save' = save \/ (save[s].step = m[2] /\ save'[s].step =
             CASE m[2] = "reserve" -> IF Fits(s) THEN "write" ELSE "done"
               [] m[2] = "settle" -> "confirm"
               [] OTHER -> "done")
      BY <1>14, ServeEffect
    <3>3. QED
      BY <3>1, <3>2 DEF Committed, Ended
  <2>5. ASSUME NEW n \in Saves, LastsAt(n) PROVE LastsAt(n)'
    <3>1. reservation \in [Saves -> {"none", "denied", "reserved", "settled", "released"}]
      BY DEF TypeOK
    <3>2. Taken(n)'
      <4>1. n = s => m[2] # "release"
        BY <2>1, <2>5 DEF LastsAt
      <4>2. QED
        BY <1>14, <2>1, <2>5, <3>1, <4>1, ServeEffect DEF LastsAt
    <3>3. Doing(n, Committed \cup Ended)'
      BY <2>1, <2>4, <2>5 DEF LastsAt, Others
    <3>4. QED
      BY <2>1, <2>5, <3>2, <3>3 DEF LastsAt
  <2>6. QED
    BY <1>2, <2>3, <2>5
<1>15. CASE Crash
  <2>1. row' = row /\ net' = net /\ reservation' = reservation
    BY <1>15 DEF Crash, provider
  <2>2. \A s \in Saves : save'[s].original = save[s].original
    BY <1>15, CrashEffect DEF SameData, SameNames
  <2>3. Known' = Known
    BY <2>1, <2>2 DEF Known
  <2>4. ASSUME NEW n \in Saves, LastsAt(n) PROVE LastsAt(n)'
    <3>1. save'[n].step = IF save[n].step \in {"idle", "done"} THEN save[n].step ELSE "gone"
      BY <1>15, CrashEffect
    <3>2. QED
      BY <2>1, <2>4, <3>1 DEF LastsAt, Ended, Committed
  <2>5. QED
    BY <1>2, <2>3, <2>4
<1>16. ASSUME save' = save, row' = row, reservation' = reservation, net' \subseteq net
       PROVE  Lasting'
  BY <1>1, <1>16 DEF Lasting, LastsAt, Known
<1>17. QED
  BY <1>4, <1>5, <1>6, <1>7, <1>8, <1>9, <1>10, <1>11, <1>12, <1>13, <1>14, <1>15, <1>16
     DEF Next, Lose, vars

----------------------------------------------------------------------------
(* What is on disk. *)
LEMMA CoveredStep ==
  ASSUME TypeOK, Shaped, Booked, Lasting, Covered, [Next]_vars
  PROVE  Covered'
<1> USE DEF Doing, Taken
<1>1. \A s \in Saves : s # Old /\ ShapedAt(s) /\ BookedAt(s)
  BY NativeFilesAssumption DEF Shaped, Booked
<1> DEFINE Releasing(s) == Doing(s, {"release"}) \/ <<s, "release">> \in net
<1>2. ASSUME disk' \subseteq disk,
             \A s \in Saves : Taken(s) => Taken(s)' \/ <<s, "main">> \notin disk,
             \A s \in Saves :
               /\ save'[s].freed \cap disk' = {}
               /\ Releasing(s)' => Releasing(s) \/ <<s, "main">> \notin disk
      PROVE  Covered'
  <2>1. ASSUME NEW o \in disk' PROVE o \in OldObjects \cup UploadOf({s \in Saves : Taken(s)'})
    <3>1. o \in OldObjects \cup UploadOf({s \in Saves : Taken(s)})
      BY <1>2, <2>1 DEF Covered
    <3>2. CASE o \in UploadOf({s \in Saves : Taken(s)})
      <4>1. PICK s \in Saves : Taken(s) /\ o = <<s, "main">>
        BY <3>2 DEF UploadOf
      <4>2. QED
        BY <1>2, <2>1, <4>1 DEF UploadOf
    <3>3. QED
      BY <3>1, <3>2
  <2>2. ASSUME NEW s \in Saves, Releasing(s)' PROVE <<s, "main">> \notin disk'
    BY <1>2, <2>2 DEF Covered
  <2>3. QED
    BY <1>2, <2>1, <2>2 DEF Covered, OldObjects, UploadOf
<1>3. ASSUME NEW s \in Saves, Others(s), SameData(s), net' = net, reservation' = reservation,
             disk' \subseteq disk,
             save'[s].step = "release" => save[s].step = "release" \/ <<s, "main">> \notin disk
      PROVE  Covered'
  <2>1. \A r \in Saves : save'[r].freed = save[r].freed
    BY <1>3 DEF Others, SameData
  <2>2. \A r \in Saves : save'[r].freed \cap disk' = {}
    BY <1>3, <2>1 DEF Covered
  <2>3. \A r \in Saves : Releasing(r)' => Releasing(r) \/ <<r, "main">> \notin disk
    BY <1>3 DEF Others
  <2>4. QED
    BY <1>2, <1>3, <2>2, <2>3
<1>4. ASSUME NEW s \in Saves, Load(s) PROVE Covered'
  <2>1. /\ Others(s) /\ save'[s].freed = save[s].freed /\ save'[s].step # "release"
        /\ disk' = disk /\ net' = net /\ reservation' = reservation
    BY <1>4, LoadEffect DEF Load, provider
  <2>2. \A r \in Saves : save'[r].freed \cap disk' = {}
    BY <2>1 DEF Covered, Others
  <2>3. \A r \in Saves : Releasing(r)' => Releasing(r)
    BY <2>1 DEF Others
  <2>4. QED
    BY <1>2, <2>1, <2>2, <2>3
<1>5. ASSUME NEW s \in Saves, Write(s) PROVE Covered'
  <2>1. /\ Others(s) /\ SameData(s) /\ save[s].step = "write"
        /\ save'[s].step \in {"commit", "cleanup"}
        /\ net' = net /\ reservation' = reservation
        /\ disk' = disk \/ disk' = disk \cup UploadOf(Uploads(s))
    BY <1>5, WriteEffect DEF Write, provider
  <2>2. CASE disk' = disk
    BY <1>3, <2>1, <2>2
  <2>3. CASE disk' = disk \cup UploadOf(Uploads(s)) /\ disk' # disk
    <3>1. s \in Uploads(s) /\ disk' = disk \cup {<<s, "main">>}
      BY <1>1, <2>3 DEF ShapedAt, Uploads, UploadOf
    <3>2. Taken(s) /\ ~Releasing(s)
      BY <1>1, <2>1, <3>1 DEF BookedAt, Ended
    <3>3. s \notin Known
      BY <1>1, <2>1 DEF Lasting, LastsAt, Committed, Ended
    <3>4. ASSUME NEW r \in Saves PROVE save'[r].freed \cap disk' = {}
      <4>1. save'[r].freed = save[r].freed
        BY <2>1 DEF Others, SameData
      <4>2. <<s, "main">> \notin save[r].freed
        BY <1>1, <3>3 DEF ShapedAt, Dropped, Known
      <4>3. QED
        BY <3>1, <4>1, <4>2 DEF Covered
    <3>5. ASSUME NEW r \in Saves, Releasing(r)' PROVE <<r, "main">> \notin disk'
      <4>1. Releasing(r) /\ r # s
        BY <2>1, <3>2, <3>5 DEF Others
      <4>2. QED
        BY <3>1, <4>1 DEF Covered
    <3>6. disk' \subseteq OldObjects \cup UploadOf({r \in Saves : Taken(r)'})
      BY <2>1, <3>1, <3>2 DEF Covered, UploadOf
    <3>7. QED
      BY <3>4, <3>5, <3>6 DEF Covered, OldObjects, UploadOf
  <2>4. QED
    BY <2>1, <2>2, <2>3
<1>6. ASSUME NEW s \in Saves, Commit(s) PROVE Covered'
  BY <1>3, <1>6, CommitEffect DEF Commit, provider
<1>7. ASSUME NEW s \in Saves, StashDeleteSizes(s) PROVE Covered'
  <2>1. /\ Others(s) /\ save'[s].freed = save[s].freed /\ save'[s].step = "remove"
        /\ disk' = disk /\ net' = net /\ reservation' = reservation
    BY <1>7, StashEffect DEF StashDeleteSizes, provider
  <2>2. \A r \in Saves : save'[r].freed \cap disk' = {}
    BY <2>1 DEF Covered, Others
  <2>3. \A r \in Saves : Releasing(r)' => Releasing(r)
    BY <2>1 DEF Others
  <2>4. QED
    BY <1>2, <2>1, <2>2, <2>3
<1>8. ASSUME NEW s \in Saves, RemoveOld(s) PROVE Covered'
  BY <1>3, <1>8, RemoveEffect DEF RemoveOld, provider
<1>9. ASSUME NEW s \in Saves, CreditConfirmedDeletes(s) PROVE Covered'
  <2>1. /\ Others(s) /\ save'[s].step \in {"done", "credit"}
        /\ disk' = disk /\ net' = net /\ reservation' = reservation
        /\ save'[s].freed \subseteq {o \in save[s].removals : Confirmed(s, o)}
    BY <1>9, ConfirmEffect DEF CreditConfirmedDeletes, provider
  <2>2. ASSUME NEW o \in save'[s].freed PROVE o \notin disk
    <3>1. o \in Objects /\ Confirmed(s, o)
      BY <2>1, <2>2 DEF TypeOK
    <3>2. o = <<o[1], "main">> \/ o = <<o[1], "thumb">>
      BY <3>1 DEF Objects
    <3>3. QED
      BY <3>1, <3>2 DEF Confirmed
  <2>3. \A r \in Saves : save'[r].freed \cap disk' = {}
    BY <2>1, <2>2 DEF Covered, Others
  <2>4. \A r \in Saves : Releasing(r)' => Releasing(r)
    BY <2>1 DEF Others
  <2>5. QED
    BY <1>2, <2>1, <2>3, <2>4
<1>10. ASSUME NEW s \in Saves, CleanUp(s) PROVE Covered'
  BY <1>3, <1>10, CleanUpEffect DEF CleanUp, provider
<1>11. ASSUME NEW s \in Saves, HandleSaveError(s) PROVE Covered'
  <2>1. save'[s].step = "release" => Uploads(s) # {} /\ Absent(s)
    BY <1>11, ErrorEffect
  <2>2. Uploads(s) # {} /\ Absent(s) => <<s, "main">> \notin disk
    BY <1>1 DEF Absent, ObjectsOf, ShapedAt, Uploads
  <2>3. QED
    BY <1>3, <1>11, <2>1, <2>2, ErrorEffect DEF HandleSaveError, provider
<1>12. ASSUME NEW s \in Saves, Call(s) PROVE Covered'
  <2>1. Others(s) /\ save'[s].freed = save[s].freed /\ save'[s].step = save[s].step
    BY <1>12, CallEffect DEF SameData
  <2>2. /\ reservation' = reservation /\ net' = net \cup {<<s, save[s].step>>}
        /\ disk' = disk
    BY <1>12 DEF Call, Request
  <2>3. \A r \in Saves : save'[r].freed \cap disk' = {}
    BY <2>1, <2>2 DEF Covered, Others
  <2>4. \A r \in Saves : Releasing(r)' => Releasing(r)
    BY <2>1, <2>2 DEF Others
  <2>5. QED
    BY <1>2, <2>2, <2>3, <2>4
<1>13. ASSUME NEW s \in Saves, GiveUp(s) PROVE Covered'
  <2>1. save'[s].step = "release" => save[s].step = "release"
    BY <1>13, GiveUpEffect DEF Exchanges
  <2>2. QED
    BY <1>3, <1>13, <2>1, GiveUpEffect DEF GiveUp, provider
<1>14. ASSUME NEW m \in net, ServeHTTP(m) PROVE Covered'
  <2> DEFINE s == m[1]
  <2>1. /\ s \in Saves /\ m = <<s, m[2]>> /\ Others(s) /\ SameData(s)
        /\ net' = net \ {m} /\ disk' = disk
    BY <1>14, ServeEffect
  <2>2. \A r \in Saves : save'[r].freed \cap disk' = {}
    BY <2>1 DEF Covered, Others, SameData
  <2>3. save'[s].step = "release" => save[s].step = "release"
    BY <1>14, ServeEffect
  <2>4. \A r \in Saves : Releasing(r)' => Releasing(r)
    BY <2>1, <2>3 DEF Others
  <2>5. ASSUME NEW r \in Saves, Taken(r), ~Taken(r)' PROVE <<r, "main">> \notin disk
    <3>1. reservation \in [Saves -> {"none", "denied", "reserved", "settled", "released"}]
      BY DEF TypeOK
    <3>2. r = s /\ m[2] = "release"
      BY <1>14, <2>1, <2>5, <3>1, ServeEffect
    <3>3. QED
      BY <2>1, <3>2 DEF Covered
  <2>6. QED
    BY <1>2, <2>1, <2>2, <2>4, <2>5
<1>15. CASE Crash
  <2>1. disk' = disk /\ net' = net /\ reservation' = reservation
    BY <1>15 DEF Crash, provider
  <2>2. \A r \in Saves : save'[r].freed \cap disk' = {}
    BY <1>15, <2>1, CrashEffect DEF Covered, SameData
  <2>3. \A r \in Saves : Releasing(r)' => Releasing(r)
    BY <1>15, <2>1, CrashEffect
  <2>4. QED
    BY <1>2, <2>1, <2>2, <2>3
<1>16. ASSUME save' = save, disk' = disk, reservation' = reservation, net' \subseteq net
       PROVE  Covered'
  BY <1>2, <1>16 DEF Covered
<1>17. QED
  BY <1>4, <1>5, <1>6, <1>7, <1>8, <1>9, <1>10, <1>11, <1>12, <1>13, <1>14, <1>15, <1>16
     DEF Next, Lose, vars

----------------------------------------------------------------------------
(* The account. *)
LEMMA FlightGrows ==
  ASSUME NEW R \in SUBSET Saves, NEW s \in Saves \ R
  PROVE  /\ FlightOf(R) \in Nat /\ Bound(s) \in Nat
         /\ FlightOf(R \cup {s}) = FlightOf(R) + Bound(s)
<1>1. UploadOf(R \cup {s}) = UploadOf(R) \cup UploadOf({s}) /\ UploadOf(R) \cap UploadOf({s}) = {}
  BY DEF UploadOf
<1>2. /\ FlightOf(R) = Bytes(UploadOf(R)) /\ UploadOf(R) \in SUBSET Objects
      /\ FlightOf(R \cup {s}) = Bytes(UploadOf(R \cup {s}))
      /\ UploadOf({s}) \in SUBSET Objects
  BY FlightIs
<1>3. Bytes(UploadOf(R) \cup UploadOf({s})) = Bytes(UploadOf(R)) + Bytes(UploadOf({s}))
  BY <1>1, <1>2, BytesFacts
<1>4. Bytes(UploadOf({s})) = Bound(s)
  BY DEF Bound, UploadOf
<1>5. Bytes(UploadOf(R \cup {s})) = Bytes(UploadOf(R) \cup UploadOf({s}))
  BY <1>1, Zenon
<1>6. Bytes(UploadOf(R)) \in Nat /\ Bytes(UploadOf({s})) \in Nat
  BY <1>2, BytesFacts
<1>7. QED
  BY <1>2, <1>3, <1>4, <1>5, <1>6

(* A settled save stores just what it reserved. *)
LEMMA StoredIs ==
  ASSUME Shaped, NEW s \in Saves, s \in Uploads(s)
  PROVE  Stored(s) = Bound(s)
<1>1. (Uploads(s) \cap save[s].names) \X {"main"} = {s} \X {"main"}
  BY DEF Shaped, ShapedAt, Uploads
<1>2. QED
  BY <1>1, Zenon DEF Stored, Bound

LEMMA CreditedType ==
  ASSUME TypeOK
  PROVE  /\ Freed \in SUBSET Objects /\ Bytes(Freed) \in Nat /\ CreditedTwice \in Nat
         /\ CreditedTwice = TwiceOf(credits, save)
         /\ credits \in SUBSET Saves /\ Settled \in SUBSET Saves /\ Reserved \in SUBSET Saves
         /\ Bytes(UploadOf(Settled)) = FlightOf(Settled) /\ FlightOf(Settled) \in Nat
         /\ InFlight = FlightOf(Reserved) /\ FlightOf(Reserved) \in Nat
         /\ Bytes(OldObjects) \in Nat
<1>1. Freed \in SUBSET Objects /\ credits \in SUBSET Saves
  BY DEF TypeOK, Freed
<1>2. CreditedTwice = TwiceOf(credits, save) /\ InFlight = FlightOf(Reserved)
  BY DEF CreditedTwice, TwiceOf, InFlight, FlightOf
<1>3. Settled \in SUBSET Saves /\ Reserved \in SUBSET Saves
  BY DEF Settled, Reserved
<1>4. \A R \in SUBSET Saves : Bytes(UploadOf(R)) = FlightOf(R) /\ FlightOf(R) \in Nat
  <2>1. ASSUME NEW R \in SUBSET Saves
        PROVE  FlightOf(R) = Bytes(UploadOf(R)) /\ UploadOf(R) \in SUBSET Objects
    BY FlightIs
  <2>2. QED
    BY <2>1, BytesFacts
<1>5. Bytes(Freed) \in Nat /\ Bytes(OldObjects) \in Nat
  BY <1>1, BytesFacts, ObjectsFinite
<1>6. CreditedTwice \in Nat
  BY <1>1, <1>2, TwiceType
<1>7. QED
  BY <1>1, <1>2, <1>3, <1>4, <1>5, <1>6

(* A credit takes off what it frees, and counts twice what was freed before. *)
LEMMA CreditEffect ==
  ASSUME TypeOK, TypeOK', NEW s \in Saves, Credit(s),
         \A r \in Saves : save'[r].freed = save[r].freed
  PROVE  /\ used' + CreditedTwice' + Bytes(Freed)' + floored
              = used + CreditedTwice + Bytes(Freed) + floored'
         /\ used' <= used
<1>1. /\ used \in Nat /\ floored \in Nat /\ save[s].freed \in SUBSET Objects
      /\ credits \in SUBSET Saves
  BY DEF TypeOK
<1>2. CreditedTwice' = TwiceOf(credits', save')
  BY DEF CreditedTwice, TwiceOf, MapThenSumSet, MapThenFoldSet
<1>3. CreditedTwice' = TwiceOf(credits', save)
  <2>1. credits' \in SUBSET Saves
    BY DEF TypeOK
  <2>2. TwiceOf(credits', save') = TwiceOf(credits', save)
    BY <2>1, TwiceSame
  <2>3. QED
    BY <1>2, <2>2
<1>4. Freed' = UNION {save[r].freed : r \in credits'}
  BY DEF Freed, TypeOK
<1>5. CASE s \in credits
  <2>1. credits' = credits /\ used' = used /\ floored' = floored
    BY <1>5 DEF Credit
  <2>2. Freed' = Freed
    BY <1>4, <2>1 DEF Freed
  <2>3. CreditedTwice' = CreditedTwice
    BY <1>3, <2>1, CreditedType, Zenon
  <2>4. Bytes(Freed)' = Bytes(Freed)
    <3>1. Bytes(Freed)' = Bytes(Freed')
      OBVIOUS
    <3>2. QED
      BY <2>2, <3>1, Zenon
  <2>5. QED
    BY <1>1, <2>1, <2>3, <2>4
<1>6. CASE s \notin credits
  <2> DEFINE f == save[s].freed
  <2>1. credits' = credits \cup {s} /\ TakeOff(Bytes(f))
    BY <1>6 DEF Credit
  <2>2. Bytes(f) \in Nat /\ Bytes(f \cap Freed) \in Nat /\ Bytes(f \ Freed) \in Nat
        /\ Bytes(f) = Bytes(f \cap Freed) + Bytes(f \ Freed)
    <3>1. f \cap Freed \in SUBSET Objects /\ f \ Freed \in SUBSET Objects
      BY <1>1
    <3>2. Bytes((f \cap Freed) \cup (f \ Freed)) = Bytes(f \cap Freed) + Bytes(f \ Freed)
      BY <3>1, BytesFacts
    <3>3. f = (f \cap Freed) \cup (f \ Freed)
      OBVIOUS
    <3>4. Bytes(f) = Bytes((f \cap Freed) \cup (f \ Freed))
      BY <3>3, Zenon
    <3>5. QED
      BY <1>1, <3>1, <3>2, <3>4, BytesFacts
  <2>3. Bytes(Freed') = Bytes(Freed) + Bytes(f \ Freed)
    <3>1. Freed' = Freed \cup (f \ Freed)
      BY <1>4, <2>1 DEF Freed
    <3>2. f \ Freed \in SUBSET Objects /\ Freed \in SUBSET Objects
      BY <1>1, CreditedType
    <3>3. Bytes(Freed \cup (f \ Freed)) = Bytes(Freed) + Bytes(f \ Freed)
      BY <3>2, BytesFacts
    <3>4. QED
      BY <3>1, <3>3, Zenon
  <2>4. TwiceOf(credits \cup {s}, save) = TwiceOf(credits, save) + Bytes(f \cap Freed)
    BY <1>1, <1>6, TwiceGrows DEF Freed
  <2>5. CreditedTwice' = CreditedTwice + Bytes(f \cap Freed)
    <3>1. CreditedTwice' = TwiceOf(credits \cup {s}, save)
      BY <1>3, <2>1, Zenon
    <3>2. QED
      BY <2>4, <3>1, CreditedType
  <2>6. used' + floored + Bytes(f) = used + floored' /\ used' <= used /\ used' \in Nat
        /\ floored' \in Nat
    <3> HIDE DEF f
    <3>1. QED
      BY <1>1, <2>1, <2>2 DEF TakeOff
  <2>7. Bytes(Freed)' = Bytes(Freed')
    OBVIOUS
  <2>8. CreditedTwice \in Nat /\ Bytes(Freed) \in Nat
    BY CreditedType
  <2> HIDE DEF f
  <2>9. QED
    BY <1>1, <2>2, <2>3, <2>5, <2>6, <2>7, <2>8
<1>7. QED
  BY <1>5, <1>6

(* What an account that a step does not concern depends on. *)
LEMMA AccountSame ==
  ASSUME TypeOK, TypeOK', used' = used, floored' = floored, credits' = credits,
         \A s \in credits : save'[s].freed = save[s].freed, reservation' = reservation
  PROVE  /\ Accounted => Accounted'
         /\ Within => Within'
<1>1. CreditedTwice' = CreditedTwice
  <2>1. CreditedTwice' = TwiceOf(credits', save')
    BY DEF CreditedTwice, TwiceOf, MapThenSumSet, MapThenFoldSet
  <2>2. TwiceOf(credits, save') = TwiceOf(credits, save)
    BY TwiceSame, CreditedType
  <2>3. CreditedTwice = TwiceOf(credits, save)
    BY CreditedType
  <2>4. TwiceOf(credits', save') = TwiceOf(credits, save')
    BY Zenon
  <2>5. QED
    BY <2>1, <2>2, <2>3, <2>4
<1>2. Bytes(Freed)' = Bytes(Freed)
  <2>1. Freed' = Freed
    BY DEF Freed
  <2>2. Bytes(Freed)' = Bytes(Freed')
    OBVIOUS
  <2>3. QED
    BY <2>1, <2>2, Zenon
<1>3. Bytes(UploadOf(Settled))' = Bytes(UploadOf(Settled))
  <2>1. Settled' = Settled
    BY DEF Settled
  <2>2. Bytes(UploadOf(Settled))' = Bytes(UploadOf(Settled'))
    OBVIOUS
  <2>3. QED
    BY <2>1, <2>2, Zenon
<1>4. InFlight' = InFlight
  <2>1. Reserved' = Reserved
    BY DEF Reserved
  <2>2. InFlight' = FlightOf(Reserved')
    BY DEF InFlight, FlightOf, MapThenSumSet, MapThenFoldSet
  <2>3. InFlight = FlightOf(Reserved)
    BY CreditedType
  <2>4. FlightOf(Reserved') = FlightOf(Reserved)
    BY <2>1, Zenon
  <2>5. QED
    BY <2>2, <2>3, <2>4
<1>5. Bytes(OldObjects)' = Bytes(OldObjects)
  OBVIOUS
<1>6. QED
  BY <1>1, <1>2, <1>3, <1>4, <1>5 DEF Accounted, Within

LEMMA AccountStep ==
  ASSUME TypeOK, TypeOK', Shaped, Booked, Lasting, Covered, Accounted, Within, [Next]_vars
  PROVE  Accounted' /\ Within'
<1>1. \A s \in Saves : s # Old /\ ShapedAt(s) /\ BookedAt(s)
  BY NativeFilesAssumption DEF Shaped, Booked
<1>2. ASSUME used' = used, floored' = floored, credits' = credits,
             \A s \in credits : save'[s].freed = save[s].freed, reservation' = reservation
      PROVE  Accounted' /\ Within'
  BY <1>2, AccountSame
<1>3. ASSUME NEW s \in Saves, Others(s), save'[s].freed = save[s].freed \/ s \notin credits,
             used' = used, floored' = floored, credits' = credits, reservation' = reservation
      PROVE  Accounted' /\ Within'
  <2>1. \A r \in credits : save'[r].freed = save[r].freed
    BY <1>3 DEF Others, TypeOK
  <2>2. QED
    BY <1>2, <1>3, <2>1
<1>4. ASSUME NEW s \in Saves, Load(s) PROVE Accounted' /\ Within'
  BY <1>3, <1>4, LoadEffect DEF Load, provider
<1>5. ASSUME NEW s \in Saves, Write(s) PROVE Accounted' /\ Within'
  BY <1>3, <1>5, WriteEffect DEF Write, provider, SameData
<1>6. ASSUME NEW s \in Saves, Commit(s) PROVE Accounted' /\ Within'
  BY <1>3, <1>6, CommitEffect DEF Commit, provider, SameData
<1>7. ASSUME NEW s \in Saves, StashDeleteSizes(s) PROVE Accounted' /\ Within'
  BY <1>3, <1>7, StashEffect DEF StashDeleteSizes, provider
<1>8. ASSUME NEW s \in Saves, RemoveOld(s) PROVE Accounted' /\ Within'
  BY <1>3, <1>8, RemoveEffect DEF RemoveOld, provider, SameData
<1>9. ASSUME NEW s \in Saves, CreditConfirmedDeletes(s) PROVE Accounted' /\ Within'
  <2>1. s \notin credits
    BY <1>1, <1>9, ConfirmEffect DEF ShapedAt, Doing, Ended
  <2>2. QED
    BY <1>3, <1>9, <2>1, ConfirmEffect DEF CreditConfirmedDeletes, provider
<1>10. ASSUME NEW s \in Saves, CleanUp(s) PROVE Accounted' /\ Within'
  BY <1>3, <1>10, CleanUpEffect DEF CleanUp, provider, SameData
<1>11. ASSUME NEW s \in Saves, HandleSaveError(s) PROVE Accounted' /\ Within'
  BY <1>3, <1>11, ErrorEffect DEF HandleSaveError, provider, SameData
<1>12. ASSUME NEW s \in Saves, Call(s) PROVE Accounted' /\ Within'
  BY <1>3, <1>12, CallEffect DEF Call, SameData
<1>13. ASSUME NEW s \in Saves, GiveUp(s) PROVE Accounted' /\ Within'
  BY <1>3, <1>13, GiveUpEffect DEF GiveUp, provider, SameData
<1>14. ASSUME NEW m \in net, ServeHTTP(m) PROVE Accounted' /\ Within'
  <2> DEFINE s == m[1]
  <2>1. s \in Saves /\ m = <<s, m[2]>> /\ Others(s) /\ SameData(s)
    BY <1>14, ServeEffect
  <2>2. reservation \in [Saves -> {"none", "denied", "reserved", "settled", "released"}]
    BY DEF TypeOK
  <2>3. /\ Freed \in SUBSET Objects /\ Bytes(Freed) \in Nat /\ CreditedTwice \in Nat
        /\ CreditedTwice = TwiceOf(credits, save)
        /\ credits \in SUBSET Saves /\ Settled \in SUBSET Saves /\ Reserved \in SUBSET Saves
        /\ Bytes(UploadOf(Settled)) = FlightOf(Settled) /\ FlightOf(Settled) \in Nat
        /\ InFlight = FlightOf(Reserved) /\ FlightOf(Reserved) \in Nat
        /\ Bytes(OldObjects) \in Nat
    BY CreditedType
  <2>4. /\ Bytes(UploadOf(Settled))' = FlightOf(Settled') /\ FlightOf(Settled') \in Nat
        /\ InFlight' = FlightOf(Reserved') /\ FlightOf(Reserved') \in Nat
    <3>1. InFlight' = FlightOf(Reserved')
      BY DEF InFlight, FlightOf, MapThenSumSet, MapThenFoldSet
    <3>2. Settled' \in SUBSET Saves /\ Reserved' \in SUBSET Saves
      BY DEF Settled, Reserved
    <3>3. \A R \in SUBSET Saves : Bytes(UploadOf(R)) = FlightOf(R) /\ FlightOf(R) \in Nat
      <4>1. ASSUME NEW R \in SUBSET Saves
            PROVE  FlightOf(R) = Bytes(UploadOf(R)) /\ UploadOf(R) \in SUBSET Objects
        BY FlightIs
      <4>2. QED
        BY <4>1, BytesFacts
    <3>4. Bytes(UploadOf(Settled))' = Bytes(UploadOf(Settled'))
      OBVIOUS
    <3>5. QED
      BY <3>1, <3>2, <3>3, <3>4
  <2>5. \A r \in Saves : save'[r].freed = save[r].freed
    BY <2>1 DEF Others, SameData
  <2>6. Bytes(OldObjects)' = Bytes(OldObjects)
    OBVIOUS
  <2>7. ASSUME credits' = credits
        PROVE  Bytes(Freed)' = Bytes(Freed) /\ CreditedTwice' = CreditedTwice
    <3>1. CreditedTwice' = TwiceOf(credits', save')
      BY DEF CreditedTwice, TwiceOf, MapThenSumSet, MapThenFoldSet
    <3>2. TwiceOf(credits, save') = TwiceOf(credits, save)
      BY <2>3, <2>5, TwiceSame
    <3>3. TwiceOf(credits', save') = TwiceOf(credits, save')
      BY <2>7, Zenon
    <3>4. Freed' = Freed
      BY <2>3, <2>5, <2>7 DEF Freed
    <3>5. Bytes(Freed)' = Bytes(Freed')
      OBVIOUS
    <3>6. Bytes(Freed') = Bytes(Freed)
      BY <3>4, Zenon
    <3>7. QED
      BY <2>3, <3>1, <3>2, <3>3, <3>5, <3>6
  <2>8. used \in Nat /\ floored \in Nat /\ used' \in Nat /\ floored' \in Nat /\ Capacity \in Nat
    BY NativeFilesAssumption DEF TypeOK
  <2>9. CASE m[2] = "reserve"
    <3>1. /\ reservation[s] = "none"
          /\ reservation' = [reservation EXCEPT ![s] = IF Fits(s) THEN "reserved" ELSE "denied"]
          /\ credits' = credits /\ used' = used /\ floored' = floored
      BY <1>14, <2>9, ServeEffect
    <3> HIDE DEF s
    <3>2. Settled' = Settled
      BY <2>1, <2>2, <3>1 DEF Settled
    <3>3. FlightOf(Settled') = FlightOf(Settled)
      BY <3>2, Zenon
    <3>4. Accounted'
      BY <2>3, <2>4, <2>6, <2>7, <3>1, <3>3 DEF Accounted
    <3>5. CASE Fits(s)
      <4>1. Reserved' = Reserved \cup {s} /\ s \notin Reserved
        BY <2>1, <2>2, <3>1, <3>5 DEF Reserved
      <4>2. FlightOf(Reserved \cup {s}) = FlightOf(Reserved) + Bound(s)
        BY <2>1, <2>3, <4>1, FlightGrows
      <4>3. FlightOf(Reserved') = FlightOf(Reserved \cup {s})
        BY <4>1, Zenon
      <4>4. used + InFlight + Bound(s) <= Capacity
        BY <3>5 DEF Fits
      <4>5. Bound(s) \in Nat
        BY <2>1, <2>3, <4>1, FlightGrows
      <4>6. Within'
        BY <2>3, <2>4, <2>8, <3>1, <4>2, <4>3, <4>4, <4>5 DEF Within
      <4>7. QED
        BY <3>4, <4>6
    <3>6. CASE ~Fits(s)
      <4>1. Reserved' = Reserved
        BY <2>1, <2>2, <3>1, <3>6 DEF Reserved
      <4>2. FlightOf(Reserved') = FlightOf(Reserved)
        BY <4>1, Zenon
      <4>3. QED
        BY <2>3, <2>4, <3>1, <3>4, <4>2 DEF Within
    <3>7. QED
      BY <3>5, <3>6
  <2>10. CASE m[2] = "settle"
    <3>1. /\ Taken(s) /\ reservation' = [reservation EXCEPT ![s] = "settled"]
          /\ used' = IF reservation[s] = "reserved" THEN used + Stored(s) ELSE used
          /\ credits' = credits /\ floored' = floored
      BY <1>14, <2>10, ServeEffect
    <3> HIDE DEF s
    <3>2. CASE reservation[s] = "settled"
      <4>1. reservation' = reservation /\ used' = used
        BY <2>1, <2>2, <3>1, <3>2
      <4>2. QED
        BY <1>3, <2>1, <3>1, <4>1 DEF SameData
    <3>3. CASE reservation[s] = "reserved"
      <4>1. /\ Settled' = Settled \cup {s} /\ s \notin Settled
            /\ Reserved = Reserved' \cup {s} /\ s \notin Reserved'
            /\ Reserved' \in SUBSET Saves
        BY <2>1, <2>2, <3>1, <3>3 DEF Settled, Reserved
      <4>2. FlightOf(Settled \cup {s}) = FlightOf(Settled) + Bound(s) /\ Bound(s) \in Nat
        BY <2>1, <2>3, <4>1, FlightGrows
      <4>3. FlightOf(Reserved' \cup {s}) = FlightOf(Reserved') + Bound(s)
        BY <2>1, <4>1, FlightGrows
      <4>4. FlightOf(Settled') = FlightOf(Settled \cup {s})
            /\ FlightOf(Reserved) = FlightOf(Reserved' \cup {s})
        BY <4>1, Zenon
      <4>5. Stored(s) = Bound(s)
        BY <1>1, <2>1, <3>3, StoredIs DEF BookedAt
      <4>6. used' = used + Bound(s)
        BY <3>1, <3>3, <4>5
      <4>7. Accounted'
        BY <2>3, <2>4, <2>6, <2>7, <2>8, <3>1, <4>2, <4>4, <4>6 DEF Accounted
      <4>8. Within'
        BY <2>3, <2>4, <2>8, <4>2, <4>3, <4>4, <4>6 DEF Within
      <4>9. QED
        BY <4>7, <4>8
    <3>4. QED
      BY <3>1, <3>2, <3>3 DEF Taken
  <2>11. CASE m[2] = "release"
    <3>1. /\ reservation[s] \in {"reserved", "released"}
          /\ reservation' = [reservation EXCEPT ![s] = "released"]
          /\ credits' = credits /\ used' = used /\ floored' = floored
      BY <1>14, <2>11, ServeEffect
    <3> HIDE DEF s
    <3>2. Settled' = Settled
      BY <2>1, <2>2, <3>1 DEF Settled
    <3>3. FlightOf(Settled') = FlightOf(Settled)
      BY <3>2, Zenon
    <3>4. Accounted'
      BY <2>3, <2>4, <2>6, <2>7, <3>1, <3>3 DEF Accounted
    <3>5. CASE reservation[s] = "released"
      <4>1. Reserved' = Reserved
        BY <2>1, <2>2, <3>1, <3>5 DEF Reserved
      <4>2. FlightOf(Reserved') = FlightOf(Reserved)
        BY <4>1, Zenon
      <4>3. QED
        BY <2>3, <2>4, <3>1, <3>4, <4>2 DEF Within
    <3>6. CASE reservation[s] = "reserved"
      <4>1. Reserved = Reserved' \cup {s} /\ s \notin Reserved' /\ Reserved' \in SUBSET Saves
        BY <2>1, <2>2, <3>1, <3>6 DEF Reserved
      <4>2. FlightOf(Reserved' \cup {s}) = FlightOf(Reserved') + Bound(s) /\ Bound(s) \in Nat
        BY <2>1, <4>1, FlightGrows
      <4>3. FlightOf(Reserved) = FlightOf(Reserved' \cup {s})
        BY <4>1, Zenon
      <4>4. Within'
        BY <2>3, <2>4, <2>8, <3>1, <4>2, <4>3 DEF Within
      <4>5. QED
        BY <3>4, <4>4
    <3>7. QED
      BY <3>1, <3>5, <3>6
  <2>12. CASE m[2] = "credit"
    <3>1. Credit(s) /\ reservation' = reservation
      BY <1>14, <2>12, ServeEffect
    <3> HIDE DEF s
    <3>2. /\ used' + CreditedTwice' + Bytes(Freed)' + floored
               = used + CreditedTwice + Bytes(Freed) + floored'
          /\ used' <= used
      BY <2>1, <2>5, <3>1, CreditEffect
    <3>3. Settled' = Settled /\ Reserved' = Reserved
      BY <3>1 DEF Settled, Reserved
    <3>4. FlightOf(Settled') = FlightOf(Settled) /\ FlightOf(Reserved') = FlightOf(Reserved)
      BY <3>3, Zenon
    <3>5. CreditedTwice' \in Nat /\ Bytes(Freed)' \in Nat
      <4>1. Freed' \in SUBSET Objects /\ credits' \in SUBSET Saves
        BY DEF TypeOK, Freed
      <4>2. CreditedTwice' = TwiceOf(credits', save')
        BY DEF CreditedTwice, TwiceOf, MapThenSumSet, MapThenFoldSet
      <4>3. TwiceOf(credits', save') \in Nat
        BY <4>1, TwiceType
      <4>4. Bytes(Freed)' = Bytes(Freed')
        OBVIOUS
      <4>5. Bytes(Freed') \in Nat
        BY <4>1, BytesFacts
      <4>6. QED
        BY <4>2, <4>3, <4>4, <4>5
    <3>6. Accounted'
      BY <2>3, <2>4, <2>6, <2>8, <3>2, <3>4, <3>5 DEF Accounted
    <3>7. Within'
      BY <2>3, <2>4, <2>8, <3>2, <3>4 DEF Within
    <3>8. QED
      BY <3>6, <3>7
  <2>13. QED
    BY <1>14, <2>9, <2>10, <2>11, <2>12, ServeEffect
<1>15. CASE Crash
  <2>1. \A s \in credits : save'[s].freed = save[s].freed
    BY <1>15, CrashEffect DEF SameData, TypeOK
  <2>2. QED
    BY <1>2, <1>15, <2>1 DEF Crash, provider
<1>16. ASSUME save' = save, reservation' = reservation, used' = used, floored' = floored,
              credits' = credits
       PROVE  Accounted' /\ Within'
  BY <1>2, <1>16
<1>17. QED
  BY <1>4, <1>5, <1>6, <1>7, <1>8, <1>9, <1>10, <1>11, <1>12, <1>13, <1>14, <1>15, <1>16
     DEF Next, Lose, vars

----------------------------------------------------------------------------
(* Without faults. *)
LEMMA SmoothStep ==
  ASSUME TypeOK, Shaped, Booked, Lasting, Covered, Smooth, [Next]_vars, faults' = 0
  PROVE  Smooth'
<1> USE DEF Doing, Taken
<1>1. \A s \in Saves : s # Old /\ ShapedAt(s) /\ BookedAt(s) /\ Uploads(s) \subseteq {s}
  BY NativeFilesAssumption DEF Shaped, Booked, ShapedAt, Uploads
<1>2. ~Fault
  BY DEF Fault, TypeOK
<1>3. SUFFICES ASSUME faults = 0 PROVE Smooth'
  <2>1. ASSUME faults # 0 PROVE FALSE
    <3>1. faults' = faults
      <4>1. ASSUME NEW s \in Saves, Write(s) PROVE faults' = faults
        BY <1>2, <4>1 DEF Write
      <4>2. ASSUME NEW s \in Saves, StashDeleteSizes(s) PROVE faults' = faults
        BY <1>2, <4>2 DEF StashDeleteSizes
      <4>3. ASSUME NEW s \in Saves, RemoveOld(s) PROVE faults' = faults
        BY <1>2, <4>3 DEF RemoveOld
      <4>4. ASSUME NEW s \in Saves, CleanUp(s) PROVE faults' = faults
        BY <1>2, <4>4 DEF CleanUp
      <4>5. ASSUME NEW s \in Saves, HandleSaveError(s) PROVE faults' = faults
        BY <1>2, <4>5 DEF HandleSaveError
      <4>6. ASSUME NEW s \in Saves, Load(s) \/ Commit(s) \/ CreditConfirmedDeletes(s) \/ Call(s)
            PROVE  faults' = faults
        BY <1>2, <4>6 DEF Load, Commit, CreditConfirmedDeletes, Call
      <4>7. ASSUME NEW m \in net, ServeHTTP(m) \/ Lose(m) PROVE faults' = faults
        BY <4>7 DEF ServeHTTP, Lose
      <4>8. ASSUME NEW s \in Saves, GiveUp(s) PROVE FALSE
        BY <1>2, <4>8 DEF GiveUp
      <4>9. ~Crash
        BY <1>2 DEF Crash
      <4>10. QED
        BY <4>1, <4>2, <4>3, <4>4, <4>5, <4>6, <4>7, <4>8, <4>9 DEF Next, vars
    <3>2. QED
      BY <2>1, <3>1
  <2>2. QED
    BY <2>1
<1>4. ThumbGoesFirst /\ Awaited /\ AllDue /\ \A s \in Saves : SmoothAt(s)
  BY <1>3 DEF Smooth
<1>5. ASSUME NEW s \in Saves, Others(s), Rests(s), ~save[s].waiting,
             net' = net, reservation' = reservation, credits' = credits,
             \/ disk' \subseteq disk
             \/ disk' = disk \cup {<<s, "main">>} /\ s \notin Known,
             ThumbGoesFirst', SmoothAt(s)',
             Kept(s)' => Kept(s) \/ <<s, "main">> \in disk',
             \A o \in disk \ disk' : (o[1] = s /\ ~Kept(s)') \/ CreditDue(s, o)',
             \A o : CreditDue(s, o) => CreditDue(s, o)'
      PROVE  Smooth'
  <2>1. Awaited'
    <3>1. ASSUME NEW m \in net PROVE save'[m[1]].waiting /\ save'[m[1]].step = m[2]
      <4>1. m[1] \in Saves \ {s}
        BY <1>4, <1>5, <3>1 DEF Awaited, TypeOK
      <4>2. QED
        BY <1>4, <1>5, <4>1 DEF Awaited, Others
    <3>2. QED
      BY <1>5, <3>1 DEF Awaited
  <2>2. ASSUME NEW r \in Saves \ {s} PROVE SmoothAt(r)'
    <3>1. save'[r] = save[r] /\ SmoothAt(r)
      BY <1>4, <1>5 DEF Others
    <3>2. Dropped(r)' = Dropped(r) /\ Uploads(r)' = Uploads(r) /\ Request(r)' = Request(r)
      BY <3>1 DEF Dropped, Uploads, Request
    <3>3. ObjectsOf(Dropped(r))' \subseteq ObjectsOf(Dropped(r))
      BY <1>5, <3>2 DEF ObjectsOf, Dropped, Known
    <3>4. ObjectsOf(Uploads(r))' \subseteq ObjectsOf(Uploads(r))
      BY <1>1, <1>5, <3>2 DEF ObjectsOf
    <3>5. QED
      BY <1>5, <3>1, <3>2, <3>3, <3>4 DEF SmoothAt
  <2>3. AllDue'
    <3>1. ASSUME NEW o \in (Expected \ disk)' PROVE \E r \in Saves : CreditDue(r, o)'
      <4>1. CASE o \in Expected \ disk
        <5>1. PICK r \in Saves : CreditDue(r, o)
          BY <1>4, <4>1 DEF AllDue
        <5>2. CreditDue(r, o)'
          BY <1>5, <5>1 DEF CreditDue, Others
        <5>3. QED
          BY <5>2
      <4>2. CASE o \notin Expected
        <5>1. PICK r \in Saves : Kept(r)' /\ ~Kept(r) /\ o = <<r, "main">>
          BY <3>1, <4>2 DEF Expected, UploadOf
        <5>2. r = s
          BY <1>5, <5>1 DEF Kept, Others, Uploads
        <5>3. QED
          BY <1>5, <3>1, <5>1, <5>2
      <4>3. CASE o \in disk
        <5>1. o \in disk \ disk'
          BY <3>1, <4>3
        <5>2. o[1] = s => Kept(s)'
          BY <1>1, <3>1 DEF Expected, UploadOf, OldObjects
        <5>3. QED
          BY <1>5, <5>1, <5>2
      <4>4. QED
        BY <4>1, <4>2, <4>3
    <3>2. QED
      BY <3>1 DEF AllDue
  <2>4. QED
    BY <1>5, <2>1, <2>2, <2>3 DEF Smooth
<1>6. ASSUME NEW s \in Saves, save[s].step \notin {"settle", "confirm", "credit"} \cup Ended
      PROVE  (\A o : ~CreditDue(s, o)) /\ s \notin credits /\ save[s].freed = {}
  BY <1>1, <1>6 DEF CreditDue, ShapedAt, Ended
<1>7. ASSUME NEW s \in Saves, reservation[s] # "settled",
             save[s].step \notin Committed \cup {"commit"}
      PROVE  ~Kept(s)
  BY <1>7 DEF Kept
<1>8. ASSUME NEW s \in Saves, Load(s) PROVE Smooth'
  <2>1. /\ Others(s) /\ Rests(s) /\ ~save[s].waiting /\ save[s].step = "idle"
        /\ save'[s].step \in {"write", "reserve"} /\ save'[s].freed = save[s].freed
        /\ disk' = disk /\ net' = net /\ reservation' = reservation /\ credits' = credits
    BY <1>8, LoadEffect DEF Load, provider, At
  <2>2. reservation[s] = "none" /\ s \notin credits
    BY <1>1, <1>6, <2>1 DEF BookedAt, Committed, Ended
  <2>3. SmoothAt(s)' /\ ~Kept(s)'
    BY <2>1, <2>2 DEF SmoothAt, Rests, Kept, Committed
  <2>4. QED
    BY <1>4, <1>5, <1>6, <2>1, <2>3 DEF ThumbGoesFirst, Ended
<1>9. ASSUME NEW s \in Saves, Write(s) PROVE Smooth'
  <2>1. /\ Others(s) /\ SameData(s) /\ Rests(s) /\ ~save[s].waiting
        /\ save[s].step = "write" /\ save'[s].step = "commit"
        /\ net' = net /\ reservation' = reservation /\ credits' = credits
        /\ disk' = disk \cup UploadOf(Uploads(s))
    BY <1>2, <1>9, WriteEffect DEF Write, provider, At
  <2>2. Uploads(s)' = Uploads(s)
    BY <2>1 DEF SameData, SameNames, Uploads
  <2>3. SmoothAt(s)'
    BY <2>1 DEF SmoothAt, Rests
  <2>4. s \notin Known
    BY <1>1, <2>1 DEF Lasting, LastsAt, Committed, Ended
  <2>5. disk' \subseteq disk \/ disk' = disk \cup {<<s, "main">>}
    BY <1>1, <2>1 DEF UploadOf
  <2>6. Kept(s)' => <<s, "main">> \in disk'
    BY <2>1, <2>2 DEF Kept, UploadOf
  <2>7. ThumbGoesFirst'
    BY <1>4, <2>1 DEF ThumbGoesFirst, UploadOf
  <2>8. disk \ disk' = {}
    BY <2>1
  <2>9. QED
    BY <1>5, <1>6, <2>1, <2>3, <2>4, <2>5, <2>6, <2>7, <2>8 DEF Ended
<1>10. ASSUME NEW s \in Saves, Commit(s) PROVE Smooth'
  <2>1. /\ Others(s) /\ SameData(s) /\ Rests(s) /\ ~save[s].waiting
        /\ save[s].step = "commit" /\ save'[s].step \in {"stash", "cleanup"}
        /\ net' = net /\ reservation' = reservation /\ credits' = credits /\ disk' = disk
    BY <1>10, CommitEffect DEF Commit, provider, At
  <2>2. Uploads(s)' = Uploads(s)
    BY <2>1 DEF SameData, SameNames, Uploads
  <2>3. SmoothAt(s)'
    BY <2>1 DEF SmoothAt, Rests
  <2>4. Kept(s)' => Kept(s)
    BY <2>1, <2>2 DEF Kept
  <2>5. QED
    BY <1>4, <1>5, <1>6, <2>1, <2>3, <2>4 DEF ThumbGoesFirst, Ended
<1>11. ASSUME NEW s \in Saves, StashDeleteSizes(s) PROVE Smooth'
  <2> DEFINE there == ObjectsOf({n \in Dropped(s) : <<n, "main">> \in disk})
  <2>1. /\ Others(s) /\ SameNames(s) /\ Rests(s) /\ ~save[s].waiting
        /\ save[s].step = "stash" /\ save'[s].step = "remove"
        /\ net' = net /\ reservation' = reservation /\ credits' = credits /\ disk' = disk
        /\ save'[s].removals = there
    BY <1>2, <1>11, StashEffect DEF StashDeleteSizes, provider, At
  <2>2. ASSUME NEW o \in ObjectsOf(Dropped(s)) PROVE o \in there
    <3>1. o \in disk /\ o[1] \in Dropped(s)
      BY <2>2 DEF ObjectsOf
    <3>2. o = <<o[1], "main">> \/ (o = <<o[1], "thumb">> /\ o[1] = Old)
      BY <3>1 DEF Covered, OldObjects, UploadOf
    <3>3. <<o[1], "main">> \in disk
      BY <1>4, <3>1, <3>2 DEF ThumbGoesFirst
    <3>4. QED
      BY <3>1, <3>3 DEF ObjectsOf
  <2> HIDE DEF there
  <2>3. Uploads(s)' = Uploads(s) /\ Dropped(s)' = Dropped(s)
    BY <2>1 DEF SameNames, Uploads, Dropped
  <2>4. ObjectsOf(Dropped(s))' = ObjectsOf(Dropped(s))
    BY <2>1, <2>3 DEF ObjectsOf
  <2>5. SmoothAt(s)'
    BY <2>1, <2>2, <2>4 DEF SmoothAt, Rests
  <2>6. Kept(s)' => Kept(s)
    BY <2>1, <2>3 DEF Kept, Committed
  <2>7. QED
    BY <1>4, <1>5, <1>6, <2>1, <2>5, <2>6 DEF ThumbGoesFirst, Ended
<1>12. ASSUME NEW s \in Saves, RemoveOld(s) PROVE Smooth'
  <2>1. /\ Others(s) /\ SameData(s) /\ Rests(s) /\ ~save[s].waiting
        /\ save[s].step = "remove"
        /\ save'[s].step = IF Uploads(s) = {} THEN "confirm" ELSE "settle"
        /\ net' = net /\ reservation' = reservation /\ credits' = credits
        /\ disk' = disk \ ObjectsOf(Dropped(s))
    BY <1>2, <1>12, RemoveEffect DEF RemoveOld, provider, At
  <2>2. Uploads(s)' = Uploads(s) /\ Dropped(s)' = Dropped(s)
    BY <2>1 DEF SameData, SameNames, Uploads, Dropped
  <2>3. ObjectsOf(Dropped(s))' = {}
    BY <2>1, <2>2 DEF ObjectsOf
  <2>4. Uploads(s) # {} => s \in Uploads(s) /\ reservation[s] = "reserved"
    <3>1. Uploads(s) \subseteq {s} /\ BookedAt(s)
      BY <1>1
    <3>2. Uploads(s) # {} => s \in Uploads(s)
      BY <3>1
    <3>3. s \in Uploads(s) => reservation[s] = "reserved"
      BY <2>1, <3>1 DEF BookedAt
    <3>4. QED
      BY <3>2, <3>3
  <2>5. SmoothAt(s)'
    BY <2>1, <2>2, <2>3, <2>4 DEF SmoothAt, Rests
  <2>6. Kept(s)' => Kept(s)
    BY <2>1, <2>2 DEF Kept, Committed
  <2>7. ASSUME NEW o \in disk \ disk' PROVE CreditDue(s, o)'
    BY <1>4, <2>1, <2>7 DEF CreditDue, SmoothAt, SameData
  <2>8. ThumbGoesFirst'
    BY <1>4, <2>1 DEF ThumbGoesFirst, ObjectsOf
  <2>9. disk' \subseteq disk
    BY <2>1
  <2>10. \A o : ~CreditDue(s, o)
    BY <1>6, <2>1 DEF Ended
  <2>11. QED
    BY <1>5, <2>1, <2>5, <2>6, <2>7, <2>8, <2>9, <2>10
<1>13. ASSUME NEW s \in Saves, CreditConfirmedDeletes(s) PROVE Smooth'
  <2>1. /\ Others(s) /\ SameNames(s) /\ Rests(s) /\ ~save[s].waiting
        /\ save[s].step = "confirm"
        /\ save'[s].step = IF save'[s].freed = {} THEN "done" ELSE "credit"
        /\ net' = net /\ reservation' = reservation /\ credits' = credits /\ disk' = disk
        /\ save'[s].freed = {o \in save[s].removals : Confirmed(s, o)}
    BY <1>2, <1>13, ConfirmEffect DEF CreditConfirmedDeletes, provider, At
  <2>2. Uploads(s)' = Uploads(s)
    BY <2>1 DEF SameNames, Uploads
  <2>3. s \notin credits /\ save[s].freed = {}
    BY <1>1, <2>1 DEF ShapedAt, Ended
  <2>4. ASSUME NEW o \in save[s].removals PROVE o \in save'[s].freed
    <3>1. ObjectsOf(Dropped(s)) = {} /\ o[1] \in Dropped(s)
      BY <1>1, <1>4, <2>1, <2>4 DEF SmoothAt, ShapedAt
    <3>2. <<o[1], "main">> \notin disk /\ <<o[1], "thumb">> \notin disk
      BY <3>1 DEF ObjectsOf
    <3>3. QED
      BY <2>1, <2>4, <3>2 DEF Confirmed
  <2>5. \A o : CreditDue(s, o) => CreditDue(s, o)'
    BY <2>1, <2>3, <2>4 DEF CreditDue
  <2>6. s \in Uploads(s) => reservation[s] = "settled"
    BY <1>4, <2>1 DEF SmoothAt
  <2>7. s \notin Uploads(s) => reservation[s] = "none"
    BY <1>1 DEF BookedAt
  <2>8. SmoothAt(s)'
    BY <2>1, <2>2, <2>6, <2>7 DEF SmoothAt, Rests
  <2>9. Kept(s)' => Kept(s)
    BY <2>1, <2>2 DEF Kept, Committed
  <2>10. QED
    BY <1>4, <1>5, <2>1, <2>5, <2>8, <2>9 DEF ThumbGoesFirst
<1>14. ASSUME NEW s \in Saves, CleanUp(s) PROVE Smooth'
  <2>1. /\ Others(s) /\ SameData(s) /\ Rests(s) /\ ~save[s].waiting
        /\ save[s].step = "cleanup" /\ save'[s].step = "verify"
        /\ net' = net /\ reservation' = reservation /\ credits' = credits
        /\ disk' = disk \ ObjectsOf(Uploads(s))
    BY <1>2, <1>14, CleanUpEffect DEF CleanUp, provider, At
  <2>2. Uploads(s)' = Uploads(s)
    BY <2>1 DEF SameData, SameNames, Uploads
  <2>3. ObjectsOf(Uploads(s))' = {}
    BY <2>1, <2>2 DEF ObjectsOf
  <2>4. SmoothAt(s)'
    BY <2>1, <2>3 DEF SmoothAt, Rests
  <2>5. reservation[s] # "settled"
    BY <1>1, <2>1 DEF BookedAt, Ended
  <2>6. ~Kept(s)'
    BY <2>1, <2>5 DEF Kept, Committed
  <2>7. \A o \in disk \ disk' : o[1] = s
    BY <1>1, <2>1 DEF ObjectsOf
  <2>8. ThumbGoesFirst'
    BY <1>1, <1>4, <2>1 DEF ThumbGoesFirst, ObjectsOf
  <2>9. disk' \subseteq disk
    BY <2>1
  <2>10. \A o : ~CreditDue(s, o)
    BY <1>6, <2>1 DEF Ended
  <2>11. QED
    BY <1>5, <2>1, <2>4, <2>6, <2>7, <2>8, <2>9, <2>10
<1>15. ASSUME NEW s \in Saves, HandleSaveError(s) PROVE Smooth'
  <2>1. /\ Others(s) /\ SameData(s) /\ Rests(s) /\ ~save[s].waiting
        /\ save[s].step = "verify"
        /\ save'[s].step = IF Uploads(s) # {} /\ Absent(s) THEN "release" ELSE "done"
        /\ net' = net /\ reservation' = reservation /\ credits' = credits /\ disk' = disk
    BY <1>2, <1>15, ErrorEffect DEF HandleSaveError, provider, At
  <2>2. Absent(s)
    BY <1>4, <2>1 DEF SmoothAt, Absent
  <2>3. Uploads(s) # {} => reservation[s] = "reserved"
    <3>1. Uploads(s) \subseteq {s} /\ BookedAt(s)
      BY <1>1
    <3>2. Uploads(s) # {} => s \in Uploads(s)
      BY <3>1
    <3>3. s \in Uploads(s) => reservation[s] = "reserved"
      BY <2>1, <3>1 DEF BookedAt
    <3>4. QED
      BY <3>2, <3>3
  <2>4. Uploads(s) = {} => reservation[s] = "none"
    BY <1>1 DEF BookedAt
  <2>5. (\A o : ~CreditDue(s, o)) /\ save'[s].freed = {}
    BY <1>6, <2>1 DEF Ended, SameData
  <2>6. SmoothAt(s)'
    BY <2>1, <2>2, <2>3, <2>4, <2>5 DEF SmoothAt, Rests
  <2>7. ~Kept(s)'
    BY <2>1, <2>3, <2>4 DEF Kept, Committed
  <2>8. QED
    BY <1>4, <1>5, <2>1, <2>5, <2>6, <2>7 DEF ThumbGoesFirst
<1>16. ASSUME NEW s \in Saves, Call(s) PROVE Smooth'
  <2>1. Others(s) /\ SameData(s) /\ save'[s].waiting /\ save'[s].step = save[s].step
        /\ ~save[s].waiting
    BY <1>16, CallEffect
  <2>2. /\ reservation' = reservation /\ credits' = credits /\ disk' = disk
        /\ net' = net \cup {<<s, save[s].step>>}
    BY <1>16 DEF Call, Request
  <2>3. Awaited'
    <3>1. ASSUME NEW m \in net PROVE save'[m[1]].waiting /\ save'[m[1]].step = m[2]
      <4>1. m[1] \in Saves \ {s}
        BY <1>4, <2>1, <3>1 DEF Awaited, TypeOK
      <4>2. QED
        BY <1>4, <2>1, <4>1 DEF Awaited, Others
    <3>2. QED
      BY <2>1, <2>2, <3>1 DEF Awaited
  <2>4. ASSUME NEW r \in Saves
        PROVE  /\ Uploads(r)' = Uploads(r) /\ Dropped(r)' = Dropped(r)
               /\ save'[r].step = save[r].step /\ save'[r].freed = save[r].freed
               /\ save'[r].removals = save[r].removals
    BY <2>1 DEF Others, SameData, SameNames, Uploads, Dropped
  <2>5. ASSUME NEW r \in Saves PROVE SmoothAt(r)'
    <3>1. save'[r].waiting => Request(r)' \in net'
      BY <1>4, <2>1, <2>2 DEF SmoothAt, Request, Others
    <3>2. /\ Uploads(r)' = Uploads(r) /\ Dropped(r)' = Dropped(r)
          /\ save'[r].step = save[r].step /\ save'[r].freed = save[r].freed
          /\ save'[r].removals = save[r].removals
      BY <2>4
    <3>3. ObjectsOf(Uploads(r))' = ObjectsOf(Uploads(r))
          /\ ObjectsOf(Dropped(r))' = ObjectsOf(Dropped(r))
      BY <2>2, <3>2 DEF ObjectsOf
    <3>4. QED
      BY <1>4, <2>2, <3>1, <3>2, <3>3 DEF SmoothAt
  <2>6. AllDue'
    <3>1. \A r \in Saves : Kept(r)' <=> Kept(r)
      BY <2>2, <2>4 DEF Kept
    <3>2. Expected' = Expected
      BY <3>1 DEF Expected
    <3>3. \A r \in Saves : \A o : CreditDue(r, o)' <=> CreditDue(r, o)
      BY <2>2, <2>4 DEF CreditDue
    <3>4. QED
      BY <1>4, <2>2, <3>2, <3>3 DEF AllDue
  <2>7. QED
    BY <1>4, <2>2, <2>3, <2>5, <2>6 DEF Smooth, ThumbGoesFirst
<1>17. ASSUME NEW m \in net, ServeHTTP(m) PROVE Smooth'
  <2> DEFINE s == m[1]
  <2>1. /\ s \in Saves /\ m = <<s, m[2]>> /\ Others(s) /\ SameData(s)
        /\ net' = net \ {m} /\ disk' = disk
    BY <1>17, ServeEffect
  <2>2. save[s].waiting /\ save[s].step = m[2]
    BY <1>4, <1>17 DEF Awaited
  <2>3. /\ Rests(s)
        /\ save'[s].step = CASE m[2] = "reserve" -> IF Fits(s) THEN "write" ELSE "done"
                             [] m[2] = "settle" -> "confirm"
                             [] OTHER -> "done"
    BY <1>17, <2>2, ServeEffect
  <2>4. reservation \in [Saves -> {"none", "denied", "reserved", "settled", "released"}]
    BY DEF TypeOK
  <2>5. /\ \A r \in Saves \ {s} :
             reservation'[r] = reservation[r] /\ (r \in credits' <=> r \in credits)
        /\ s \in credits => s \in credits'
    BY <1>17, <2>1, <2>4, ServeEffect DEF Credit
  <2>6. \/ /\ m[2] = "reserve" /\ reservation'[s] = IF Fits(s) THEN "reserved" ELSE "denied"
        \/ m[2] = "settle" /\ reservation'[s] = "settled"
        \/ m[2] = "release" /\ reservation'[s] = "released"
        \/ m[2] = "credit" /\ s \in credits' /\ reservation' = reservation
    BY <1>17, <2>1, <2>4, ServeEffect DEF Credit
  <2> HIDE DEF s
  <2>7. Awaited'
    <3>1. ASSUME NEW k \in net \ {m} PROVE save'[k[1]].waiting /\ save'[k[1]].step = k[2]
      <4>1. k[1] \in Saves /\ k = <<k[1], k[2]>> /\ save[k[1]].waiting /\ save[k[1]].step = k[2]
        BY <1>4, <3>1 DEF Awaited, TypeOK
      <4>2. k[1] # s
        BY <2>1, <2>2, <3>1, <4>1
      <4>3. QED
        BY <2>1, <4>1, <4>2 DEF Others
    <3>2. QED
      BY <2>1, <3>1 DEF Awaited
  <2>8. ASSUME NEW r \in Saves
        PROVE  /\ Uploads(r)' = Uploads(r) /\ Dropped(r)' = Dropped(r)
               /\ save'[r].freed = save[r].freed /\ save'[r].removals = save[r].removals
               /\ ObjectsOf(Uploads(r))' = ObjectsOf(Uploads(r))
               /\ ObjectsOf(Dropped(r))' = ObjectsOf(Dropped(r))
    BY <2>1 DEF Others, SameData, SameNames, Uploads, Dropped, ObjectsOf
  <2>9. ASSUME NEW r \in Saves \ {s} PROVE SmoothAt(r)'
    <3>1. save'[r] = save[r] /\ SmoothAt(r)
      BY <1>4, <2>1 DEF Others
    <3>2. save'[r].waiting => Request(r)' \in net'
      BY <2>1, <3>1 DEF SmoothAt, Request
    <3>3. QED
      BY <2>5, <2>8, <3>1, <3>2 DEF SmoothAt
  <2>10. SmoothAt(s)'
    <3>1. m[2] \in {"reserve", "settle", "release"} => save[s].freed = {}
      BY <1>1, <2>1, <2>2 DEF ShapedAt, Ended
    <3>2. m[2] = "settle" => ObjectsOf(Dropped(s))' = {}
      BY <1>4, <2>1, <2>2, <2>8 DEF SmoothAt
    <3>3. m[2] = "credit" => reservation[s] # "reserved"
      BY <1>1, <1>4, <2>1, <2>2 DEF SmoothAt, BookedAt
    <3>4. QED
      BY <2>1, <2>2, <2>3, <2>6, <2>8, <3>1, <3>2, <3>3 DEF SmoothAt, Rests
  <2>11. ASSUME NEW r \in Saves, Kept(r)' PROVE Kept(r)
    <3>1. CASE r # s
      BY <2>1, <2>5, <2>8, <2>11, <3>1 DEF Kept, Others
    <3>2. CASE r = s
      BY <2>2, <2>3, <2>6, <2>8, <2>11, <3>2 DEF Kept, Committed
    <3>3. QED
      BY <3>1, <3>2
  <2>12. ASSUME NEW r \in Saves, NEW o, CreditDue(r, o) PROVE CreditDue(r, o)'
    <3>1. CASE r # s
      BY <2>1, <2>5, <2>8, <2>12, <3>1 DEF CreditDue, Others
    <3>2. CASE r = s
      BY <2>2, <2>3, <2>5, <2>6, <2>8, <2>12, <3>2 DEF CreditDue
    <3>3. QED
      BY <3>1, <3>2
  <2>13. AllDue'
    BY <1>4, <2>1, <2>11, <2>12 DEF AllDue, Expected, UploadOf
  <2>14. QED
    BY <1>4, <2>1, <2>7, <2>9, <2>10, <2>13 DEF Smooth, ThumbGoesFirst
<1>18. ASSUME NEW m \in net, Lose(m) PROVE FALSE
  BY <1>4, <1>18 DEF Lose, Awaited, Request, TypeOK
<1>19. ASSUME NEW s \in Saves, GiveUp(s) PROVE FALSE
  BY <1>2, <1>19 DEF GiveUp
<1>20. CASE UNCHANGED vars
  <2>1. ASSUME NEW s \in Saves PROVE SmoothAt(s)'
    BY <1>4, <1>20 DEF vars, SmoothAt, ObjectsOf, Uploads, Dropped, Request
  <2>2. AllDue'
    BY <1>4, <1>20 DEF vars, AllDue, Expected, Kept, CreditDue, Uploads
  <2>3. QED
    BY <1>4, <1>20, <2>1, <2>2 DEF vars, Smooth, ThumbGoesFirst, Awaited
<1>21. ~Crash
  BY <1>2 DEF Crash
<1>22. QED
  BY <1>8, <1>9, <1>10, <1>11, <1>12, <1>13, <1>14, <1>15, <1>16, <1>17, <1>18, <1>19, <1>20,
     <1>21 DEF Next

----------------------------------------------------------------------------
(* The invariant. *)
LEMMA InitInv == Init => IInv
<1>1. SUFFICES ASSUME Init PROVE IInv
  OBVIOUS
<1>2. ASSUME NEW s \in Saves
      PROVE  /\ save[s].step = "idle" /\ ~save[s].waiting /\ save[s].original = {}
             /\ save[s].names = {} /\ save[s].removals = {} /\ save[s].freed = {}
             /\ reservation[s] = "none" /\ Uploads(s) = {} /\ Dropped(s) = {} /\ s # Old
  BY <1>1, <1>2, NativeFilesAssumption DEF Init, Uploads, Dropped
<1>3. TypeOK
  <2>1. Size[Old] + ThumbSize \in Nat
    BY NativeFilesAssumption DEF Names
  <2>3. save \in [Saves -> [step : Steps, waiting : BOOLEAN, attempt : 1 .. Attempts,
                            original : SUBSET Names, names : SUBSET Names,
                            removals : SUBSET Objects, freed : SUBSET Objects]]
    BY <1>1, NativeFilesAssumption DEF Init, Steps
  <2>4. row \subseteq Names /\ disk \subseteq Objects
    BY <1>1 DEF Init, Names, Objects
  <2>5. faults \in 0 .. MaxFaults
    BY <1>1, NativeFilesAssumption DEF Init
  <2>6. QED
    BY <1>1, <2>1, <2>3, <2>4, <2>5 DEF Init, TypeOK
<1>4. Shaped
  BY <1>1, <1>2 DEF Init, Shaped, ShapedAt, Doing
<1>5. Booked
  BY <1>1, <1>2 DEF Init, Booked, BookedAt, Doing, Ended
<1>6. Lasting
  BY <1>1, <1>2 DEF Init, Lasting, Known
<1>7. Covered
  BY <1>1, <1>2 DEF Init, Covered, OldObjects, Doing
<1>8. Accounted /\ Within
  <2>1. Freed = {} /\ Settled = {} /\ Reserved = {} /\ UploadOf({}) = {}
    BY <1>1, <1>2 DEF Init, Freed, Settled, Reserved, UploadOf
  <2>2. Bytes(Freed) = 0 /\ Bytes(UploadOf(Settled)) = 0
    <3>1. Bytes(Freed) = Bytes({}) /\ Bytes(UploadOf(Settled)) = Bytes({})
      BY <2>1, Zenon
    <3>2. QED
      BY <3>1, BytesFacts
  <2>3. InFlight = 0
    <3>1. InFlight = Bytes(UploadOf(Reserved))
      BY <1>3, CreditedType, FlightIs
    <3>2. Bytes(UploadOf(Reserved)) = Bytes({})
      BY <2>1, Zenon
    <3>3. QED
      BY <3>1, <3>2, BytesFacts
  <2>4. CreditedTwice = 0
    <3>1. credits = {}
      BY <1>1 DEF Init
    <3>2. PICK g : Additive(g, Objects, Extra({}, save))
      BY AdditiveExists, ExtraType, ObjectsFinite
    <3>3. \A o \in Objects : Extra({}, save)[o] = 0
      <4>1. ASSUME NEW o \in Objects PROVE Extra({}, save)[o] = 0
        <5>1. Times({}, save, o) = 0
          BY TimesFacts
        <5>2. QED
          BY <5>1 DEF Extra
      <4>2. QED
        BY <4>1
    <3>4. g[Objects] = 0
      BY <3>2, <3>3, AdditiveZero, ObjectsFinite
    <3>5. TwiceOf({}, save) = g[Objects]
      BY <3>2, TwiceIs
    <3>6. TwiceOf(credits, save) = TwiceOf({}, save)
      BY <3>1, Zenon
    <3>7. QED
      BY <1>3, <3>4, <3>5, <3>6, CreditedType
  <2>5. Bytes(OldObjects) = Size[Old] + ThumbSize
    <3> DEFINE main == <<Old, "main">>
               thumb == <<Old, "thumb">>
    <3>1. main \in Objects /\ thumb \in Objects /\ main # thumb
      BY DEF Objects, Names
    <3>2. ObjectBytes[main] = Size[Old] /\ ObjectBytes[thumb] = ThumbSize
      BY <3>1 DEF ObjectBytes
    <3>3. BytesOf[{} \cup {main}] = BytesOf[{}] + ObjectBytes[main] /\ BytesOf[{}] = 0
      BY <3>1, BytesAdditive DEF Additive
    <3>4. BytesOf[{main} \cup {thumb}] = BytesOf[{main}] + ObjectBytes[thumb]
      BY <3>1, BytesAdditive DEF Additive
    <3>5. {} \cup {main} = {main} /\ {main} \cup {thumb} = OldObjects
      BY DEF OldObjects
    <3>6. OldObjects \in SUBSET Objects
      BY ObjectsFinite
    <3>7. BytesOf[OldObjects] = Bytes(OldObjects)
      BY <3>6 DEF BytesOf
    <3>8. BytesOf[{} \cup {main}] = BytesOf[{main}]
          /\ BytesOf[{main} \cup {thumb}] = BytesOf[OldObjects]
      BY <3>5, Zenon
    <3> HIDE DEF main, thumb
    <3>9. Size[Old] \in Nat
      BY NativeFilesAssumption DEF Names
    <3>10. QED
      BY <3>2, <3>3, <3>4, <3>7, <3>8, <3>9
  <2>6. Size[Old] + ThumbSize \in Nat
    BY NativeFilesAssumption DEF Names
  <2>7. used = Size[Old] + ThumbSize /\ floored = 0 /\ used <= Capacity
    BY <1>1, NativeFilesAssumption DEF Init
  <2>8. QED
    BY <2>2, <2>3, <2>4, <2>5, <2>6, <2>7 DEF Accounted, Within
<1>9. Smooth
  <2>1. ASSUME NEW s \in Saves PROVE SmoothAt(s) /\ ~Kept(s)
    BY <1>2 DEF SmoothAt, Doing, Kept, Committed
  <2>2. Expected \subseteq disk
    BY <1>1, <2>1 DEF Init, Expected, UploadOf, OldObjects
  <2>3. QED
    BY <1>1, <2>1, <2>2 DEF Init, Smooth, ThumbGoesFirst, Awaited, AllDue
<1>10. QED
  BY <1>3, <1>4, <1>5, <1>6, <1>7, <1>8, <1>9 DEF IInv

LEMMA StepInv == IInv /\ [Next]_vars => IInv'
<1>1. SUFFICES ASSUME IInv, [Next]_vars PROVE IInv'
  OBVIOUS
<1>2. TypeOK /\ Shaped /\ Booked /\ Lasting /\ Covered /\ Accounted /\ Within /\ Smooth
  BY <1>1 DEF IInv
<1>3. TypeOK'
  BY <1>1, <1>2, TypeStep
<1>4. Shaped'
  BY <1>1, <1>2, ShapedStep
<1>5. Booked'
  BY <1>1, <1>2, BookedStep
<1>6. Lasting'
  BY <1>1, <1>2, LastingStep
<1>7. Covered'
  BY <1>1, <1>2, CoveredStep
<1>8. Accounted' /\ Within'
  BY <1>1, <1>2, <1>3, AccountStep
<1>9. Smooth'
  <2>1. CASE faults' = 0
    BY <1>1, <1>2, <2>1, SmoothStep
  <2>2. CASE faults' # 0
    BY <2>2 DEF Smooth
  <2>3. QED
    BY <2>1, <2>2
<1>10. QED
  BY <1>3, <1>4, <1>5, <1>6, <1>7, <1>8, <1>9 DEF IInv

(* The inductive invariant holds in every reachable state, for any number of
   updates of a record, any sizes, any capacity and any number of faults. *)
THEOREM Invariance == Spec => []IInv
<1>1. Init => IInv
  BY InitInv
<1>2. IInv /\ [Next]_vars => IInv'
  BY StepInv
<1>3. QED
  BY <1>1, <1>2, PTL DEF Spec

(* What is on disk or credited was there at first or is of a save whose
   reservation stands. *)
LEMMA DiskAndFreed ==
  ASSUME IInv
  PROVE  /\ disk \cup Freed \subseteq OldObjects \cup UploadOf(Settled) \cup UploadOf(Reserved)
         /\ Bytes(disk \cup Freed) = Bytes(disk) + Bytes(Freed)
         /\ Bytes(OldObjects \cup UploadOf(Settled) \cup UploadOf(Reserved))
              = Bytes(OldObjects) + Bytes(UploadOf(Settled)) + InFlight
         /\ Bytes(disk) \in Nat
         /\ OldObjects \cup UploadOf(Settled) \cup UploadOf(Reserved) \in SUBSET Objects
<1>1. TypeOK /\ Shaped /\ Lasting /\ Covered
  BY DEF IInv
<1>2. ASSUME NEW o \in Freed
      PROVE  o \in OldObjects \cup UploadOf({s \in Saves : Taken(s)}) /\ o \notin disk
  <2>1. PICK s \in Saves : o \in save[s].freed
    BY <1>1 DEF Freed, TypeOK
  <2>2. o \in Objects /\ o[1] \in Dropped(s) /\ (o[2] = "thumb" => o[1] = Old)
    BY <1>1, <2>1 DEF TypeOK, Shaped, ShapedAt
  <2>3. o[1] \in Known /\ o[1] \in Names
    BY <1>1, <2>2 DEF Dropped, Known, TypeOK
  <2>4. o[1] # Old => Taken(o[1]) /\ o[1] \in Saves
    BY <1>1, <2>3 DEF Lasting, LastsAt, Names
  <2>5. o \notin disk
    BY <1>1, <2>1 DEF Covered
  <2>6. o = <<o[1], o[2]>> /\ o[2] \in {"main", "thumb"}
    BY <2>2 DEF Objects
  <2>7. QED
    BY <2>2, <2>4, <2>5, <2>6 DEF OldObjects, UploadOf
<1>3. UploadOf({s \in Saves : Taken(s)}) = UploadOf(Settled) \cup UploadOf(Reserved)
  BY DEF UploadOf, Settled, Reserved, Taken
<1>4. disk \cup Freed \subseteq OldObjects \cup UploadOf(Settled) \cup UploadOf(Reserved)
  BY <1>1, <1>2, <1>3 DEF Covered
<1>5. disk \in SUBSET Objects /\ Freed \in SUBSET Objects /\ disk \cap Freed = {}
  BY <1>1, <1>2, CreditedType DEF TypeOK
<1>6. /\ OldObjects \in SUBSET Objects /\ UploadOf(Settled) \in SUBSET Objects
      /\ UploadOf(Reserved) \in SUBSET Objects /\ InFlight = Bytes(UploadOf(Reserved))
  BY <1>1, CreditedType, FlightIs, ObjectsFinite
<1>7. /\ OldObjects \cap UploadOf(Settled) = {}
      /\ (OldObjects \cup UploadOf(Settled)) \cap UploadOf(Reserved) = {}
      /\ OldObjects \cup UploadOf(Settled) \in SUBSET Objects
  BY <1>6, NativeFilesAssumption DEF OldObjects, UploadOf, Settled, Reserved
<1>8. Bytes(OldObjects \cup UploadOf(Settled)) = Bytes(OldObjects) + Bytes(UploadOf(Settled))
  BY <1>6, <1>7, BytesFacts
<1>9. Bytes((OldObjects \cup UploadOf(Settled)) \cup UploadOf(Reserved))
        = Bytes(OldObjects \cup UploadOf(Settled)) + Bytes(UploadOf(Reserved))
  BY <1>6, <1>7, BytesFacts
<1>10. Bytes(disk \cup Freed) = Bytes(disk) + Bytes(Freed) /\ Bytes(disk) \in Nat
  BY <1>5, BytesFacts
<1>11. QED
  BY <1>4, <1>6, <1>8, <1>9, <1>10

LEMMA Undercount == IInv => OnlyDoubleCreditsUndercount
<1>1. SUFFICES ASSUME IInv PROVE OnlyDoubleCreditsUndercount
  OBVIOUS
<1>2. TypeOK /\ Accounted
  BY <1>1 DEF IInv
<1> DEFINE all == OldObjects \cup UploadOf(Settled) \cup UploadOf(Reserved)
<1>3. /\ disk \cup Freed \subseteq all /\ all \in SUBSET Objects
      /\ Bytes(disk \cup Freed) = Bytes(disk) + Bytes(Freed)
      /\ Bytes(all) = Bytes(OldObjects) + Bytes(UploadOf(Settled)) + InFlight
      /\ Bytes(disk) \in Nat
  BY <1>1, DiskAndFreed
<1> HIDE DEF all
<1>4. Bytes(disk \cup Freed) <= Bytes(all)
  <2>1. disk \cup Freed \in SUBSET Objects
    BY <1>3
  <2>2. QED
    BY <1>3, <2>1, BytesFacts
<1>5. /\ Bytes(Freed) \in Nat /\ CreditedTwice \in Nat /\ InFlight \in Nat
      /\ Bytes(OldObjects) \in Nat /\ Bytes(UploadOf(Settled)) \in Nat
  BY <1>2, CreditedType
<1>6. used \in Nat /\ floored \in Nat
  BY <1>2 DEF TypeOK
<1>7. QED
  BY <1>2, <1>3, <1>4, <1>5, <1>6 DEF Accounted, OnlyDoubleCreditsUndercount

LEMMA CapacityKept == IInv => WithinCapacity
<1>1. SUFFICES ASSUME IInv PROVE WithinCapacity
  OBVIOUS
<1>2. TypeOK /\ Within /\ OnlyDoubleCreditsUndercount
  BY <1>1, Undercount DEF IInv
<1>3. CreditedTwice \in Nat /\ InFlight \in Nat /\ Bytes(disk) \in Nat /\ used \in Nat
  BY <1>1, <1>2, CreditedType, DiskAndFreed DEF TypeOK
<1>4. QED
  BY <1>2, <1>3, NativeFilesAssumption DEF Within, OnlyDoubleCreditsUndercount, WithinCapacity

LEMMA Exact == IInv => ExactWithoutFaults
<1>1. SUFFICES ASSUME IInv, faults = 0, \A s \in Saves : save[s].step \in {"idle", "done"}
               PROVE  InFlight = 0 /\ used + CreditedTwice = Bytes(disk) + floored
  BY DEF ExactWithoutFaults
<1>2. TypeOK /\ Shaped /\ Booked /\ Accounted /\ AllDue /\ \A s \in Saves : SmoothAt(s)
  BY <1>1 DEF IInv, Smooth
<1>3. Reserved = {}
  BY <1>1, <1>2 DEF Reserved, SmoothAt, Booked, BookedAt, Doing
<1>4. InFlight = 0
  <2>1. InFlight = Bytes(UploadOf(Reserved))
    BY <1>2, CreditedType, FlightIs
  <2>2. UploadOf(Reserved) = {}
    BY <1>3 DEF UploadOf
  <2>3. Bytes(UploadOf(Reserved)) = Bytes({})
    BY <2>2, Zenon
  <2>4. QED
    BY <2>1, <2>3, BytesFacts
<1>5. Expected = OldObjects \cup UploadOf(Settled)
  <2>1. ASSUME NEW s \in Saves PROVE Kept(s) <=> s \in Settled
    BY <1>1, <1>2 DEF Kept, Settled, Booked, BookedAt, Committed, Doing
  <2>2. {s \in Saves : Kept(s)} = Settled
    BY <2>1 DEF Settled
  <2>3. QED
    BY <2>2 DEF Expected
<1>6. disk \cup Freed = OldObjects \cup UploadOf(Settled)
  <2>1. disk \cup Freed \subseteq OldObjects \cup UploadOf(Settled) \cup UploadOf(Reserved)
    BY <1>1, DiskAndFreed
  <2>2. UploadOf(Reserved) = {}
    BY <1>3 DEF UploadOf
  <2>3. ASSUME NEW o \in Expected, o \notin disk PROVE o \in Freed
    <3>1. PICK s \in Saves : CreditDue(s, o)
      BY <1>2, <2>3 DEF AllDue
    <3>2. o \in save[s].freed /\ s \in credits
      BY <1>1, <3>1 DEF CreditDue, Doing
    <3>3. QED
      BY <3>2 DEF Freed
  <2>4. QED
    BY <1>5, <2>1, <2>2, <2>3
<1>7. Bytes(disk) + Bytes(Freed) = Bytes(OldObjects) + Bytes(UploadOf(Settled))
  <2>1. OldObjects \in SUBSET Objects /\ UploadOf(Settled) \in SUBSET Objects
        /\ OldObjects \cap UploadOf(Settled) = {}
    <3>1. Settled \in SUBSET Saves /\ OldObjects \in SUBSET Objects
      BY ObjectsFinite DEF Settled
    <3>2. QED
      BY <3>1, FlightIs, NativeFilesAssumption DEF OldObjects, UploadOf
  <2>2. Bytes(OldObjects \cup UploadOf(Settled)) = Bytes(OldObjects) + Bytes(UploadOf(Settled))
    BY <2>1, BytesFacts
  <2>3. Bytes(disk \cup Freed) = Bytes(OldObjects \cup UploadOf(Settled))
    BY <1>6, Zenon
  <2>4. Bytes(disk \cup Freed) = Bytes(disk) + Bytes(Freed)
    BY <1>1, DiskAndFreed
  <2>5. QED
    BY <2>2, <2>3, <2>4
<1>8. /\ Bytes(Freed) \in Nat /\ CreditedTwice \in Nat /\ Bytes(disk) \in Nat
      /\ Bytes(OldObjects) \in Nat /\ Bytes(UploadOf(Settled)) \in Nat
  BY <1>1, <1>2, CreditedType, DiskAndFreed
<1>9. used \in Nat /\ floored \in Nat
  BY <1>2 DEF TypeOK
<1>10. used + CreditedTwice = Bytes(disk) + floored
  BY <1>2, <1>7, <1>8, <1>9 DEF Accounted
<1>11. QED
  BY <1>4, <1>10

(* Type correctness of the record's updates, the objects on disk and the
   provider's account. *)
THEOREM TypeCorrect == Spec => []TypeOK
BY Invariance, PTL DEF IInv

(* Bytes are never silently released on an uncertain outcome
   (nativequota.go): whichever answers are late, whichever removals fail and
   wherever the process dies, the provider's account is below the bytes on disk
   by no more than what two saves both found deleted and both credited. *)
THEOREM UndercountsOnlyDoubleCredits == Spec => []OnlyDoubleCreditsUndercount
BY Invariance, Undercount, PTL

(* The quota is a quota: the reservations the provider admits keep the bytes on
   disk within capacityBytes, but for those credited twice. *)
THEOREM DiskWithinCapacity == Spec => []WithinCapacity
BY Invariance, CapacityKept, PTL

(* Where nothing fails no byte is lost to the account: once all updates have
   ended every reservation is settled or released, and usedBytes is what is on
   disk, up to double credits and credits that came before the settlement. *)
THEOREM AccountExact == Spec => []ExactWithoutFaults
BY Invariance, Exact, PTL
=============================================================================
