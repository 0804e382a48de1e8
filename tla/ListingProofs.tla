--------------------------- MODULE ListingProofs ----------------------------
(***************************************************************************)
(* A finite set whose members have distinct ranks can be listed by rank:   *)
(* what the walks over dirty pages (Snapshot) and over the servers of the  *)
(* web driver (HttpServ) choose is there to be chosen.                     *)
(***************************************************************************)
EXTENDS Naturals, FiniteSets, Functions, FiniteSetTheorems, WellFoundedInduction, TLAPS

(* A set of numbers has a least one. *)
LEMMA Least ==
  ASSUME NEW T \in SUBSET Nat, T # {}
  PROVE  \E x \in T : \A y \in T : x <= y
<1>1. IsWellFoundedOn(OpToRel(<, Nat), Nat)
  BY NatLessThanWellFounded DEF OpToRel
<1>2. PICK x \in T : \A y \in T : ~(<<y, x>> \in OpToRel(<, Nat))
  BY <1>1, WFMin
<1>3. \A y \in T : ~(y < x)
  BY <1>2 DEF OpToRel
<1> QED BY <1>3

(* The sequence s lists the set D by ascending rank. *)
Lists(s, D, R) ==
  /\ s \in [1 .. Cardinality(D) -> D]
  /\ Range(s) = D
  /\ \A i, j \in DOMAIN s : i < j => R[s[i]] < R[s[j]]

(* A finite set with distinct ranks can be listed, by induction on its     *)
(* size: the least element comes first.                                    *)
LEMMA Listing ==
  ASSUME NEW D, IsFiniteSet(D), NEW R \in [D -> Nat],
         \A p, q \in D : R[p] = R[q] => p = q
  PROVE  \E s : Lists(s, D, R)
<1> DEFINE T == {n \in Nat : \E E \in SUBSET D : Cardinality(E) = n /\ ~\E s : Lists(s, E, R)}
<1>1. SUFFICES ASSUME ~\E s : Lists(s, D, R) PROVE FALSE
  OBVIOUS
<1>2. Cardinality(D) \in T
  BY <1>1, FS_CardinalityType
<1>3. PICK n \in T : \A m \in T : n <= m
  BY <1>2, Least
<1>4. PICK E \in SUBSET D : Cardinality(E) = n /\ ~\E s : Lists(s, E, R)
  BY <1>3
<1>5. IsFiniteSet(E)
  BY <1>4, FS_Subset
<1>6. E # {}
  <2>1. SUFFICES ASSUME E = {} PROVE FALSE
    OBVIOUS
  <2>2. Lists(<<>>, {}, R)
    BY FS_EmptySet DEF Lists, Range
  <2> QED BY <2>1, <2>2, <1>4
<1>7. PICK p \in E : \A q \in E : R[p] <= R[q]
  <2> DEFINE U == {R[q] : q \in E}
  <2>1. U \in SUBSET Nat /\ U # {}
    BY <1>6
  <2>2. PICK x \in U : \A y \in U : x <= y
    BY <2>1, Least
  <2> QED BY <2>2
<1>8. /\ E \ {p} \in SUBSET D /\ IsFiniteSet(E \ {p})
      /\ n \in Nat /\ Cardinality(E \ {p}) = n - 1 /\ n - 1 \in Nat
  <2>1. IsFiniteSet(E \ {p}) /\ Cardinality(E \ {p}) = n - 1
    BY <1>4, <1>5, FS_RemoveElement
  <2>2. Cardinality(E \ {p}) \in Nat
    BY <2>1, FS_CardinalityType
  <2> QED BY <2>1, <2>2, <1>3
<1>9. PICK s : Lists(s, E \ {p}, R)
  BY <1>3, <1>8
<1> DEFINE z == [i \in 1 .. n |-> IF i = 1 THEN p ELSE s[i - 1]]
<1>10. /\ s \in [1 .. n - 1 -> E \ {p}] /\ Range(s) = E \ {p}
       /\ \A i, j \in 1 .. n - 1 : i < j => R[s[i]] < R[s[j]]
  BY <1>8, <1>9 DEF Lists
<1>11. \A i \in 1 .. n : i # 1 => i - 1 \in 1 .. n - 1
  BY <1>8
<1>12. z \in [1 .. n -> E] /\ n >= 1 /\ z[1] = p
  BY <1>8, <1>10, <1>11
<1>13. \A i \in 1 .. n : i # 1 => z[i] = s[i - 1] /\ z[i] \in E \ {p}
  BY <1>10, <1>11
<1>14. Range(z) = E
  <2>1. Range(z) \subseteq E
    BY <1>12 DEF Range
  <2>2. ASSUME NEW e \in E PROVE e \in Range(z)
    <3>1. CASE e = p
      <4>1. 1 \in DOMAIN z
        BY <1>8, <1>12
      <4> QED BY <3>1, <4>1, <1>12 DEF Range
    <3>2. CASE e # p
      <4>1. PICK i \in 1 .. n - 1 : s[i] = e
        BY <3>2, <1>10 DEF Range
      <4>2. i + 1 \in 1 .. n /\ i + 1 # 1 /\ (i + 1) - 1 = i
        BY <1>8
      <4>3. z[i + 1] = e
        BY <4>1, <4>2, <1>13
      <4>4. i + 1 \in DOMAIN z
        BY <4>2
      <4> QED BY <4>3, <4>4 DEF Range
    <3> QED BY <3>1, <3>2
  <2> QED BY <2>1, <2>2
<1>15. ASSUME NEW i \in 1 .. n, NEW j \in 1 .. n, i < j PROVE R[z[i]] < R[z[j]]
  <2>1. j # 1 /\ j - 1 \in 1 .. n - 1 /\ z[j] = s[j - 1] /\ z[j] \in E \ {p}
    BY <1>11, <1>13, <1>15, <1>8
  <2>2. CASE i = 1
    <3>1. R[p] <= R[z[j]] /\ R[p] # R[z[j]] /\ R[p] \in Nat /\ R[z[j]] \in Nat
      BY <2>1, <1>7, <1>4
    <3> QED BY <3>1, <2>2, <1>12
  <2>3. CASE i # 1
    <3>1. i - 1 \in 1 .. n - 1 /\ z[i] = s[i - 1] /\ i - 1 < j - 1
      BY <2>3, <1>11, <1>13, <1>15, <1>8
    <3> QED BY <3>1, <2>1, <1>10
  <2> QED BY <2>2, <2>3
<1> HIDE DEF z
<1>16. Lists(z, E, R)
  <2>1. DOMAIN z = 1 .. n
    BY <1>12
  <2>2. z \in [1 .. Cardinality(E) -> E]
    BY <1>12, <1>4
  <2> QED BY <1>14, <1>15, <2>1, <2>2 DEF Lists
<1> QED BY <1>4, <1>16
=============================================================================
