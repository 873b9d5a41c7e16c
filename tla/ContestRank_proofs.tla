-------------------------- MODULE ContestRank_proofs --------------------------
(***************************************************************************)
(* What holds of the contest scoreboard for any number of goroutines,      *)
(* users, problems and submissions and any results: type correctness, and  *)
(* the two invariants that the run of MCContestRank checks: no entry has   *)
(* more solves than were marked or failed to be, and of users nothing      *)
(* disturbed the board shows what the rules give.                          *)
(*                                                                         *)
(* Both compare the state with sums over problems.  A sum is a fold, that  *)
(* is a function of sets that calls itself; what the proofs need of it is  *)
(* derived first, by induction in the form that a set of numbers which is  *)
(* not empty has a least one.                                              *)
(***************************************************************************)
EXTENDS ContestRank, FiniteSetTheorems, TLAPS

-----------------------------------------------------------------------------
(***************************************************************************)
(* Sums.                                                                   *)
(***************************************************************************)

\* Induction: a set of natural numbers that is not empty has a least element.
LEMMA LeastNumber ==
  ASSUME NEW T \in SUBSET Nat, T # {}
  PROVE  \E m \in T : \A k \in T : m <= k
<1>1. PICK m \in T : \A k \in T : <<k, m>> \notin OpToRel(<, Nat)
  BY NatLessThanWellFounded, WFMin, Zenon
<1>2. \A k \in T : ~(k < m)
  BY <1>1 DEF OpToRel
<1> QED
  BY <1>2

\* The element that a fold takes next.
First(s) == CHOOSE x \in s : TRUE

\* g sums f over each set of family D, by the equation of the fold.
Sums(g, f, D) ==
  g = [s \in D |-> IF s = {} THEN 0 ELSE f[First(s)] + g[s \ {First(s)}]]

UpTo(S, n) == {s \in SUBSET S : Cardinality(s) <= n}

\* A set without its first element has one element less.
LEMMA RestOfSet ==
  ASSUME NEW S, IsFiniteSet(S), NEW n \in Nat, NEW s \in UpTo(S, n), s # {}
  PROVE  n # 0 /\ First(s) \in s /\ s \ {First(s)} \in UpTo(S, n - 1)
<1>1. First(s) \in s
  BY DEF First
<1>2. IsFiniteSet(s) /\ Cardinality(s) \in Nat /\ Cardinality(s) <= n
  BY FS_Subset, FS_CardinalityType DEF UpTo
<1>3. Cardinality(s \ {First(s)}) = Cardinality(s) - 1
  BY <1>1, <1>2, FS_RemoveElement
<1>4. Cardinality(s) # 0
  BY <1>2, FS_EmptySet
<1> QED
  BY <1>1, <1>2, <1>3, <1>4 DEF UpTo

\* There is a function that satisfies the equation.
LEMMA SumsExist ==
  ASSUME NEW f, NEW S, IsFiniteSet(S)
  PROVE  \E g : Sums(g, f, SUBSET S)
<1> DEFINE T == {n \in Nat : ~ \E g : Sums(g, f, UpTo(S, n))}
<1>1. T = {}
  <2> SUFFICES ASSUME T # {} PROVE FALSE
    OBVIOUS
  <2>1. PICK m \in T : \A k \in T : m <= k
    BY LeastNumber
  <2>2. CASE m = 0
    <3> DEFINE g == [s \in UpTo(S, 0) |-> 0]
    <3>1. \A s \in UpTo(S, 0) : s = {}
      BY RestOfSet
    <3>2. Sums(g, f, UpTo(S, 0))
      BY <3>1 DEF Sums
    <3> QED
      BY <2>2, <3>2
  <2>3. CASE m # 0
    <3>1. m - 1 \in Nat /\ m - 1 \notin T
      BY <2>1, <2>3
    <3>2. PICK g : Sums(g, f, UpTo(S, m - 1))
      BY <3>1
    <3> DEFINE h == [s \in UpTo(S, m) |->
                       IF s = {} THEN 0 ELSE f[First(s)] + g[s \ {First(s)}]]
    <3>3. UpTo(S, m - 1) \subseteq UpTo(S, m)
      <4> SUFFICES ASSUME NEW s \in UpTo(S, m - 1) PROVE s \in UpTo(S, m)
        OBVIOUS
      <4>1. IsFiniteSet(s) /\ Cardinality(s) \in Nat
        BY FS_Subset, FS_CardinalityType DEF UpTo
      <4> QED
        BY <2>1, <4>1 DEF UpTo
    <3>4. \A s \in UpTo(S, m - 1) : h[s] = g[s]
      BY <3>2, <3>3 DEF Sums
    <3>5. \A s \in UpTo(S, m) : s # {} => s \ {First(s)} \in UpTo(S, m - 1)
      BY <2>1, RestOfSet
    <3>6. \A s \in UpTo(S, m) : s # {} => h[s \ {First(s)}] = g[s \ {First(s)}]
      BY <3>4, <3>5
    <3>7. Sums(h, f, UpTo(S, m))
      BY <3>6 DEF Sums
    <3> QED
      BY <2>1, <3>7
  <2> QED
    BY <2>2, <2>3
<1>2. Cardinality(S) \in Nat
  BY FS_CardinalityType
<1>3. PICK g : Sums(g, f, UpTo(S, Cardinality(S)))
  BY <1>1, <1>2
<1>4. UpTo(S, Cardinality(S)) = SUBSET S
  BY FS_Subset DEF UpTo
<1> QED
  BY <1>3, <1>4

\* The fold is the value of such a function.
LEMMA SumIsFold ==
  ASSUME NEW f, NEW S, IsFiniteSet(S)
  PROVE  \E g : Sums(g, f, SUBSET S) /\ SumFunctionOnSet(f, S) = g[S]
<1> DEFINE g == CHOOSE h : Sums(h, f, SUBSET S)
<1>1. Sums(g, f, SUBSET S)
  BY SumsExist
<1>2. SumFunctionOnSet(f, S) = g[S]
  BY DEF SumFunctionOnSet, FoldFunctionOnSet, MapThenFoldSet, Sums, First
<1> QED
  BY <1>1, <1>2

\* Induction over finite sets: a family of sets that is not empty has a member
\* that leaves it whichever element is taken away.
LEMMA SmallestSet ==
  ASSUME NEW S, IsFiniteSet(S), NEW B \in SUBSET (SUBSET S), B # {}
  PROVE  \E s \in B : \A x \in s : s \ {x} \notin B
<1> DEFINE T == {n \in Nat : \E s \in B : Cardinality(s) = n}
<1>1. \A s \in B : IsFiniteSet(s) /\ Cardinality(s) \in Nat
  BY FS_Subset, FS_CardinalityType
<1>2. T # {}
  BY <1>1
<1>3. PICK m \in T : \A k \in T : m <= k
  BY <1>2, LeastNumber
<1>4. PICK s \in B : Cardinality(s) = m
  BY <1>3
<1>5. ASSUME NEW x \in s, s \ {x} \in B  PROVE FALSE
  <2>1. Cardinality(s \ {x}) = m - 1
    BY <1>1, <1>4, FS_RemoveElement
  <2> QED
    BY <1>1, <1>3, <1>5, <2>1
<1> QED
  BY <1>4, <1>5

\* Sums of functions that agree are the same, whatever else they sum.
LEMMA SumsAgree ==
  ASSUME NEW R, IsFiniteSet(R), NEW f, NEW h, \A x \in R : f[x] = h[x],
         NEW a, NEW D, Sums(a, f, D), SUBSET R \in SUBSET D,
         NEW b, NEW E, Sums(b, h, E), SUBSET R \in SUBSET E
  PROVE  a[R] = b[R]
<1> DEFINE B == {s \in SUBSET R : a[s] # b[s]}
<1>1. B = {}
  <2> SUFFICES ASSUME B # {} PROVE FALSE
    OBVIOUS
  <2>1. PICK s \in B : \A x \in s : s \ {x} \notin B
    BY SmallestSet
  <2>2. /\ a[s] = IF s = {} THEN 0 ELSE f[First(s)] + a[s \ {First(s)}]
        /\ b[s] = IF s = {} THEN 0 ELSE h[First(s)] + b[s \ {First(s)}]
    BY DEF Sums
  <2>3. s # {}
    BY <2>2
  <2>4. First(s) \in s
    BY <2>3 DEF First
  <2>5. a[s \ {First(s)}] = b[s \ {First(s)}]
    BY <2>1, <2>4
  <2> QED
    BY <2>2, <2>3, <2>4, <2>5
<1> QED
  BY <1>1

\* A sum depends on nothing but the values summed.
LEMMA SumAgrees ==
  ASSUME NEW S, IsFiniteSet(S), NEW f, NEW h, \A x \in S : f[x] = h[x]
  PROVE  SumFunctionOnSet(f, S) = SumFunctionOnSet(h, S)
<1>1. PICK a : Sums(a, f, SUBSET S) /\ SumFunctionOnSet(f, S) = a[S]
  BY SumIsFold
<1>2. PICK b : Sums(b, h, SUBSET S) /\ SumFunctionOnSet(h, S) = b[S]
  BY SumIsFold
<1>3. a[S] = b[S]
  <2>1. SUBSET S \in SUBSET (SUBSET S)
    OBVIOUS
  <2> QED
    BY <1>1, <1>2, <2>1, SumsAgree
<1> QED
  BY <1>1, <1>2, <1>3

\* The equation of the fold, for the operator.
LEMMA SumEquation ==
  ASSUME NEW S, IsFiniteSet(S), NEW f
  PROVE  SumFunctionOnSet(f, S) =
           IF S = {} THEN 0 ELSE f[First(S)] + SumFunctionOnSet(f, S \ {First(S)})
<1>1. PICK a : Sums(a, f, SUBSET S) /\ SumFunctionOnSet(f, S) = a[S]
  BY SumIsFold
<1>2. \A R \in SUBSET S : a[R] = SumFunctionOnSet(f, R)
  <2> SUFFICES ASSUME NEW R \in SUBSET S PROVE a[R] = SumFunctionOnSet(f, R)
    OBVIOUS
  <2>1. IsFiniteSet(R)
    BY FS_Subset
  <2>2. PICK b : Sums(b, f, SUBSET R) /\ SumFunctionOnSet(f, R) = b[R]
    BY <2>1, SumIsFold
  <2>3. SUBSET R \in SUBSET (SUBSET S) /\ SUBSET R \in SUBSET (SUBSET R)
    OBVIOUS
  <2> QED
    BY <1>1, <2>1, <2>2, <2>3, SumsAgree
<1>3. a[S] = IF S = {} THEN 0 ELSE f[First(S)] + a[S \ {First(S)}]
  BY <1>1 DEF Sums
<1> QED
  BY <1>1, <1>2, <1>3

\* A sum of integers is one.
LEMMA SumInt ==
  ASSUME NEW S, IsFiniteSet(S), NEW f, \A x \in S : f[x] \in Int
  PROVE  SumFunctionOnSet(f, S) \in Int
<1> DEFINE B == {s \in SUBSET S : SumFunctionOnSet(f, s) \notin Int}
<1> SUFFICES ASSUME B # {} PROVE FALSE
  OBVIOUS
<1>1. PICK s \in B : \A x \in s : s \ {x} \notin B
  BY SmallestSet
<1>2. SumFunctionOnSet(f, s) =
        IF s = {} THEN 0 ELSE f[First(s)] + SumFunctionOnSet(f, s \ {First(s)})
  BY FS_Subset, SumEquation
<1>3. s # {} => First(s) \in s
  BY DEF First
<1>4. s # {} => SumFunctionOnSet(f, s \ {First(s)}) \in Int /\ f[First(s)] \in Int
  BY <1>1, <1>3
<1> QED
  BY <1>2, <1>4

\* A sum of natural numbers is one.
LEMMA SumNat ==
  ASSUME NEW S, IsFiniteSet(S), NEW f, \A x \in S : f[x] \in Nat
  PROVE  SumFunctionOnSet(f, S) \in Nat
<1> DEFINE B == {s \in SUBSET S : SumFunctionOnSet(f, s) \notin Nat}
<1> SUFFICES ASSUME B # {} PROVE FALSE
  OBVIOUS
<1>1. PICK s \in B : \A x \in s : s \ {x} \notin B
  BY SmallestSet
<1>2. SumFunctionOnSet(f, s) =
        IF s = {} THEN 0 ELSE f[First(s)] + SumFunctionOnSet(f, s \ {First(s)})
  BY FS_Subset, SumEquation
<1>3. s # {} => First(s) \in s
  BY DEF First
<1>4. s # {} => SumFunctionOnSet(f, s \ {First(s)}) \in Nat /\ f[First(s)] \in Nat
  BY <1>1, <1>3
<1> QED
  BY <1>2, <1>4

\* Any element can be taken first.
LEMMA SumTakes ==
  ASSUME NEW S, IsFiniteSet(S), NEW f, \A x \in S : f[x] \in Int, NEW e \in S
  PROVE  SumFunctionOnSet(f, S) = f[e] + SumFunctionOnSet(f, S \ {e})
<1> DEFINE Sum(s) == SumFunctionOnSet(f, s)
           B == {s \in SUBSET S : \E x \in s : Sum(s) # f[x] + Sum(s \ {x})}
<1>1. B = {}
  <2> SUFFICES ASSUME B # {} PROVE FALSE
    OBVIOUS
  <2>1. PICK s \in B : \A x \in s : s \ {x} \notin B
    BY SmallestSet
  <2>2. PICK x \in s : Sum(s) # f[x] + Sum(s \ {x})
    BY <2>1
  <2>3. IsFiniteSet(s)
    BY FS_Subset
  <2> DEFINE c == First(s)
  <2>4. c \in s
    BY <2>2 DEF First
  <2>5. Sum(s) = f[c] + Sum(s \ {c})
    BY <2>2, <2>3, SumEquation
  <2>6. c # x
    BY <2>2, <2>5
  <2>7. x \in s \ {c} /\ c \in s \ {x} /\ (s \ {c}) \ {x} = (s \ {x}) \ {c}
    BY <2>2, <2>4, <2>6
  <2>8. Sum(s \ {c}) = f[x] + Sum((s \ {c}) \ {x})
    BY <2>1, <2>4, <2>7
  <2>9. Sum(s \ {x}) = f[c] + Sum((s \ {c}) \ {x})
    BY <2>1, <2>2, <2>7
  <2>10. IsFiniteSet((s \ {c}) \ {x}) /\ \A y \in (s \ {c}) \ {x} : f[y] \in Int
    BY <2>3, FS_Subset
  <2>11. Sum((s \ {c}) \ {x}) \in Int /\ f[c] \in Int /\ f[x] \in Int
    BY <2>4, <2>10, SumInt
  <2> HIDE DEF c, Sum
  <2> QED
    BY <2>2, <2>5, <2>8, <2>9, <2>11
<1> QED
  BY <1>1

\* When one value changes, the sum changes by as much.
LEMMA SumMoves ==
  ASSUME NEW S, IsFiniteSet(S), NEW f, NEW h, NEW e \in S,
         \A x \in S : f[x] \in Int /\ h[x] \in Int,
         \A x \in S \ {e} : h[x] = f[x]
  PROVE  SumFunctionOnSet(h, S) = SumFunctionOnSet(f, S) + h[e] - f[e]
<1>1. IsFiniteSet(S \ {e}) /\ \A x \in S \ {e} : f[x] \in Int
  BY FS_Subset
<1>2. SumFunctionOnSet(h, S \ {e}) = SumFunctionOnSet(f, S \ {e})
  BY <1>1, SumAgrees
<1>3. SumFunctionOnSet(f, S \ {e}) \in Int
  BY <1>1, SumInt
<1>4. /\ SumFunctionOnSet(h, S) = h[e] + SumFunctionOnSet(h, S \ {e})
      /\ SumFunctionOnSet(f, S) = f[e] + SumFunctionOnSet(f, S \ {e})
  BY SumTakes
<1> QED
  BY <1>2, <1>3, <1>4

\* One more value is added to the sum.
LEMMA SumGrows ==
  ASSUME NEW S, IsFiniteSet(S), NEW f, NEW h, NEW e, e \notin S,
         \A x \in S : f[x] \in Int /\ h[x] = f[x], h[e] \in Int
  PROVE  SumFunctionOnSet(h, S \cup {e}) = SumFunctionOnSet(f, S) + h[e]
<1>1. IsFiniteSet(S \cup {e}) /\ \A x \in S \cup {e} : h[x] \in Int
  BY FS_AddElement
<1>2. (S \cup {e}) \ {e} = S
  OBVIOUS
<1>3. SumFunctionOnSet(h, S \cup {e}) = h[e] + SumFunctionOnSet(h, S)
  BY <1>1, <1>2, SumTakes
<1>4. SumFunctionOnSet(h, S) = SumFunctionOnSet(f, S) /\ SumFunctionOnSet(f, S) \in Int
  BY SumAgrees, SumInt
<1> QED
  BY <1>3, <1>4

\* No value is more than the sum.
LEMMA SumCovers ==
  ASSUME NEW S, IsFiniteSet(S), NEW f, \A x \in S : f[x] \in Nat, NEW e \in S
  PROVE  f[e] <= SumFunctionOnSet(f, S)
<1>1. SumFunctionOnSet(f, S) = f[e] + SumFunctionOnSet(f, S \ {e})
  BY SumTakes
<1>2. IsFiniteSet(S \ {e}) /\ \A x \in S \ {e} : f[x] \in Nat
  BY FS_Subset
<1>3. SumFunctionOnSet(f, S \ {e}) \in Nat
  BY <1>2, SumNat
<1> QED
  BY <1>1, <1>3

\* A sum of natural numbers is zero when all of them are, and only then.
LEMMA SumIsZero ==
  ASSUME NEW S, IsFiniteSet(S), NEW f, \A x \in S : f[x] \in Nat
  PROVE  SumFunctionOnSet(f, S) = 0 <=> \A x \in S : f[x] = 0
<1>1. ASSUME SumFunctionOnSet(f, S) = 0, NEW x \in S PROVE f[x] = 0
  BY <1>1, SumCovers
<1>2. ASSUME \A x \in S : f[x] = 0 PROVE SumFunctionOnSet(f, S) = 0
  <2> DEFINE B == {s \in SUBSET S : SumFunctionOnSet(f, s) # 0}
  <2> SUFFICES ASSUME B # {} PROVE FALSE
    OBVIOUS
  <2>1. PICK s \in B : \A x \in s : s \ {x} \notin B
    BY SmallestSet
  <2>2. SumFunctionOnSet(f, s) =
          IF s = {} THEN 0 ELSE f[First(s)] + SumFunctionOnSet(f, s \ {First(s)})
    BY FS_Subset, SumEquation
  <2>3. s # {} => First(s) \in s
    BY DEF First
  <2>4. s # {} => SumFunctionOnSet(f, s \ {First(s)}) = 0 /\ f[First(s)] = 0
    BY <1>2, <2>1, <2>3
  <2> QED
    BY <2>2, <2>4
<1> QED
  BY <1>1, <1>2

-----------------------------------------------------------------------------
(***************************************************************************)
(* The composite score of an ACM contest.                                  *)
(***************************************************************************)

\* Decoding a score yields whole numbers, and a penalty that is not negative.
LEMMA DecodedTypes ==
  ASSUME NEW sc \in Int
  PROVE  SolvedIn(sc) \in Int /\ PenaltyIn(sc) \in Nat
  BY DEF SolvedIn, PenaltyIn, Quotient, ACMWeight

\* What updateACMRanking packs into the score of a sorted set is what it unpacks again, if
\* the penalty is less than one solve weighs.
THEOREM DecodesWhatWasEncoded ==
  ASSUME NEW n \in Nat, NEW penalty \in Nat, penalty < ACMWeight
  PROVE  /\ EncodeACM(n, penalty) \in Int
         /\ SolvedIn(EncodeACM(n, penalty)) = n
         /\ PenaltyIn(EncodeACM(n, penalty)) = penalty
<1>1. SolvedIn(EncodeACM(n, penalty)) = n
  BY DEF SolvedIn, EncodeACM, Quotient, ACMWeight
<1> QED
  BY <1>1 DEF PenaltyIn, EncodeACM, ACMWeight

\* However large the penalty, no more solves are decoded than were encoded.
LEMMA DecodesNoMore ==
  ASSUME NEW n \in Int, NEW penalty \in Nat, NEW bound \in Nat, n <= bound
  PROVE  /\ EncodeACM(n, penalty) \in Int
         /\ SolvedIn(EncodeACM(n, penalty)) <= bound
  BY DEF SolvedIn, EncodeACM, Quotient, ACMWeight

-----------------------------------------------------------------------------
(***************************************************************************)
(* Largest and smallest numbers.                                           *)
(***************************************************************************)

LEMMA MaxIsLargest ==
  ASSUME NEW S \in SUBSET Int, IsFiniteSet(S), S # {}
  PROVE  Max(S) \in S /\ \A x \in S : Max(S) >= x
<1> DEFINE Tops(s) == {m \in s : \A x \in s : m >= x}
           B == {s \in SUBSET S : s # {} /\ Tops(s) = {}}
<1>1. B = {}
  <2> SUFFICES ASSUME B # {} PROVE FALSE
    OBVIOUS
  <2>1. PICK s \in B : \A x \in s : s \ {x} \notin B
    BY SmallestSet
  <2>2. PICK c \in s : TRUE
    BY <2>1
  <2>3. CASE s \ {c} = {}
    <3>1. s = {c} /\ c \in Int
      BY <2>2, <2>3
    <3>2. c \in Tops(s)
      BY <3>1
    <3> QED
      BY <2>1, <3>2
  <2>4. CASE s \ {c} # {}
    <3>1. s \ {c} \in SUBSET S /\ s \ {c} \notin B
      BY <2>1, <2>2
    <3>2. PICK m \in Tops(s \ {c}) : TRUE
      BY <2>4, <3>1
    <3>3. m \in s /\ m \in Int /\ c \in Int /\ \A x \in s \ {c} : m >= x /\ x \in Int
      BY <2>2, <3>2
    <3>4. (m >= c => m \in Tops(s)) /\ (c > m => c \in Tops(s))
      BY <3>3
    <3> QED
      BY <2>1, <3>3, <3>4
  <2> QED
    BY <2>3, <2>4
<1>2. PICK m \in S : \A x \in S : m >= x
  BY <1>1
<1> QED
  BY <1>2 DEF Max

LEMMA MinIsSmallest ==
  ASSUME NEW S \in SUBSET Nat, S # {}
  PROVE  Min(S) \in S /\ \A x \in S : Min(S) <= x
  BY LeastNumber DEF Min

-----------------------------------------------------------------------------
(***************************************************************************)
(* Type correctness.                                                       *)
(***************************************************************************)

\* A goroutine ranks a submission that exists.
CallInv == \A w \in Worker : pc[w] # "idle" => cur[w].sub \in 1 .. created

TypeInv == TypeOK /\ CallInv

\* What goroutine w works on, and which row it reads.
LEMMA CallTypes ==
  ASSUME TypeInv, NEW w \in Worker, pc[w] # "idle"
  PROVE  /\ cur[w] \in [sub : Sub, result : Result] /\ cur[w].sub \in 1 .. created
         /\ U(w) \in User /\ P(w) \in Problem
         /\ cur[w].result \in Result
         /\ cur[w].result \in [accepted : BOOLEAN, passed : Nat, at : Nat, used : Nat]
         /\ local[w] \in [penalty : Nat, solved : Int, total : Nat, passed : Nat,
                          used : Nat, todo : SUBSET Problem]
         /\ [problem |-> P(w), result |-> cur[w].result] \in Ranked
<1>1. cur[w] \in [sub : Sub, result : Result] /\ cur[w].sub \in 1 .. created
  BY DEF TypeInv, TypeOK, CallInv
<1>2. local[w] \in [penalty : Nat, solved : Int, total : Nat, passed : Nat,
                    used : Nat, todo : SUBSET Problem]
  BY DEF TypeInv, TypeOK
<1> QED
  BY <1>1, <1>2, ContestRankAssumption DEF ContestRankAssumption, U, P, Ranked

\* The rivals of a submission are numbers up to the newest one, and one is largest.
LEMMA RivalTypes ==
  ASSUME TypeInv, NEW s \in 1 .. created
  PROVE  /\ IsFiniteSet(Rivals(s)) /\ Rivals(s) \subseteq Sub /\ s \in Rivals(s)
         /\ Max(Rivals(s)) \in Rivals(s) /\ \A x \in Rivals(s) : Max(Rivals(s)) >= x
<1>1. created \in Nat /\ created <= Subs /\ Subs \in Nat
  BY ContestRankAssumption DEF TypeInv, TypeOK, ContestRankAssumption
<1>2. IsFiniteSet(1 .. created)
  BY <1>1, FS_Interval
<1>3. Rivals(s) \in SUBSET (1 .. created) /\ s \in Rivals(s)
  BY DEF Rivals
<1>4. IsFiniteSet(Rivals(s)) /\ Rivals(s) \subseteq Sub /\ Rivals(s) \in SUBSET Int
  BY <1>1, <1>2, <1>3, FS_Subset DEF Sub
<1> QED
  BY <1>3, <1>4, MaxIsLargest

\* What TypeInv says, variable by variable, and of the end of a call.
LEMMA TypeFacts ==
  ASSUME TypeInv
  PROVE  /\ wrong \in [User -> [Problem -> Nat]] /\ solved \in [User -> [Problem -> Nat]]
         /\ score \in [User -> [Problem -> Nat]] /\ time \in [User -> [Problem -> Nat]]
         /\ rank \in [User -> Int \cup {Absent}] /\ Absent \notin Int /\ Absent \notin Result
         /\ rule \in {"ACM", "IOI"} /\ created \in Nat /\ created <= Subs /\ Subs \in Nat
  BY ContestRankAssumption DEF TypeInv, TypeOK, ContestRankAssumption

Places == {"idle", "judged", "wrong", "check", "mark", "penalty", "read", "add",
           "latest", "compare", "score", "time", "sum"}

Locals == [penalty : Nat, solved : Int, total : Nat, passed : Nat, used : Nat,
           todo : SUBSET Problem]

\* The types of what a failing call changes besides.
Noted == faults \in 0 .. MaxFaults /\ unmarked \in [User -> Nat] /\ disturbed \subseteq User

LEMMA FineTypes ==
  ASSUME TypeInv, Fine
  PROVE  Outside /\ Noted'
  BY DEF Fine, Noted, TypeInv, TypeOK

\* The variables outside a call, except the number of crashes.
tables == <<rule, created, row, requeued, calls, rejudges>>

\* A goroutine that goes on within its call keeps the types, if it leaves its
\* local variables and the keys in Redis with theirs.
LEMMA GoesOnTypes ==
  ASSUME TypeInv, Outside, Noted',
         NEW w \in Worker, pc[w] # "idle", NEW st \in Places \ {"idle"},
         NEW l \in Locals, GoOn(w, st, l),
         {wrong, solved, score, time}' \subseteq [User -> [Problem -> Nat]],
         rank' \in [User -> Int \cup {Absent}]
  PROVE  TypeInv'
<1>1. /\ pc' \in [Worker -> Places] /\ local' \in [Worker -> Locals]
      /\ \A v \in Worker : pc'[v] = "idle" <=> pc[v] = "idle"
      /\ UNCHANGED <<cur, log>>
  BY DEF TypeInv, TypeOK, GoOn, GoTo, Let, Places, Locals
<1>2. TypeOK'
  BY <1>1 DEF TypeInv, TypeOK, Outside, Noted, Places, Locals
<1>3. CallInv'
  BY <1>1 DEF TypeInv, CallInv, Outside
<1> QED
  BY <1>2, <1>3 DEF TypeInv

\* So does one whose call ends, or whose process dies.
LEMMA EndsTypes ==
  ASSUME TypeInv, UNCHANGED tables, Noted',
         NEW w \in Worker, pc[w] # "idle", GoTo(w, "idle"), Let(w, NoLocal),
         cur' = [cur EXCEPT ![w] = Absent],
         crashes' \in 0 .. MaxCrashes,
         log' \in [User -> Seq(Ranked)],
         {wrong, solved, score, time}' \subseteq [User -> [Problem -> Nat]],
         rank' \in [User -> Int \cup {Absent}]
  PROVE  TypeInv'
<1>1. /\ pc' \in [Worker -> Places] /\ local' \in [Worker -> Locals]
      /\ pc'[w] = "idle" /\ cur'[w] = Absent
      /\ \A v \in Worker \ {w} : pc'[v] = pc[v] /\ cur'[v] = cur[v]
      /\ cur' \in [Worker -> [sub : Sub, result : Result] \cup {Absent}]
  BY DEF TypeInv, TypeOK, GoTo, Let, NoLocal, Places, Locals
<1>2. TypeOK'
  BY <1>1 DEF TypeInv, TypeOK, tables, Noted, Places, Locals
<1>3. CallInv'
  BY <1>1 DEF TypeInv, CallInv, tables
<1> QED
  BY <1>2, <1>3 DEF TypeInv

\* A call that returns is logged.
LEMMA ReturnLogs ==
  ASSUME TypeInv, NEW w \in Worker, pc[w] # "idle", Return(w)
  PROVE  /\ log' \in [User -> Seq(Ranked)]
         /\ log'[U(w)] = Append(log[U(w)], [problem |-> P(w), result |-> cur[w].result])
         /\ \A u \in User \ {U(w)} : log'[u] = log[u]
<1>1. [problem |-> P(w), result |-> cur[w].result] \in Ranked /\ U(w) \in User
  BY CallTypes
<1>2. log \in [User -> Seq(Ranked)]
  BY DEF TypeInv, TypeOK
<1> QED
  BY <1>1, <1>2 DEF Return

\* A call that returns keeps the types, if the keys in Redis keep theirs.
LEMMA ReturnTypes ==
  ASSUME TypeInv, Outside, Noted',
         NEW w \in Worker, pc[w] # "idle", Return(w),
         {wrong, solved, score, time}' \subseteq [User -> [Problem -> Nat]],
         rank' \in [User -> Int \cup {Absent}]
  PROVE  TypeInv'
<1>1. log' \in [User -> Seq(Ranked)]
  BY ReturnLogs
<1>2. GoTo(w, "idle") /\ Let(w, NoLocal) /\ cur' = [cur EXCEPT ![w] = Absent]
  BY DEF Return
<1>3. crashes' \in 0 .. MaxCrashes /\ UNCHANGED tables
  BY DEF TypeInv, TypeOK, Outside, tables
<1> QED
  BY <1>1, <1>2, <1>3, EndsTypes

LEMMA InitTypes == Init => TypeInv
<1> SUFFICES ASSUME Init PROVE TypeInv
  OBVIOUS
<1>1. /\ NoLocal \in Locals /\ [p \in Problem |-> 0] \in [Problem -> Nat]
      /\ \A u \in User : <<>> \in Seq(Ranked)
  BY DEF NoLocal, Locals
<1>2. TypeOK
  BY <1>1, ContestRankAssumption DEF ContestRankAssumption, Init, TypeOK, Locals
<1> QED
  BY <1>2 DEF TypeInv, CallInv, Init

\* A row that changes outside a call keeps the types.
LEMMA RowTypes ==
  ASSUME TypeInv, NEW s \in Sub, NEW x \in Result \cup {Absent},
         row' = [row EXCEPT ![s] = x], requeued' \subseteq Sub,
         rejudges' \in 0 .. MaxRejudges, disturbed' \subseteq User,
         UNCHANGED <<rule, created, redis, pc, cur, local, calls, crashes, faults, log, unmarked>>
  PROVE  TypeInv'
<1>1. TypeOK'
  BY DEF TypeInv, TypeOK, redis
<1>2. CallInv'
  BY DEF TypeInv, CallInv
<1> QED
  BY <1>1, <1>2 DEF TypeInv

LEMMA ACMTypes ==
  ASSUME TypeInv, NEW w \in Worker, UpdateACM(w)
  PROVE  TypeInv'
<1>t. /\ {wrong, solved, score, time} \subseteq [User -> [Problem -> Nat]]
      /\ rank \in [User -> Int \cup {Absent}]
  BY TypeFacts
<1>1. pc[w] # "idle" /\ Fine
  BY DEF UpdateACM, CountWrong, CheckSolved, MarkSolved, ReadWrong, ReadRank, AddRank
<1>2. /\ U(w) \in User /\ P(w) \in Problem /\ cur[w].result.at \in Nat /\ local[w] \in Locals
  BY <1>1, CallTypes DEF Locals
<1>3. Outside /\ Noted'
  BY <1>1, FineTypes
<1>4. {"mark", "penalty", "read", "add"} \subseteq Places \ {"idle"}
  BY DEF Places
<1>5. CASE CountWrong(w)
  <2>1. wrong' \in [User -> [Problem -> Nat]]
    BY <1>t, <1>2, <1>5 DEF CountWrong
  <2> QED
    BY <1>t, <1>1, <1>3, <1>5, <2>1, ReturnTypes DEF CountWrong
<1>6. CASE CheckSolved(w)
  <2>1. Return(w) \/ GoOn(w, "mark", local[w])
    BY <1>6 DEF CheckSolved
  <2>2. UNCHANGED redis
    BY <1>6 DEF CheckSolved
  <2> QED
    BY <1>t, <1>1, <1>2, <1>3, <1>4, <2>1, <2>2, ReturnTypes, GoesOnTypes DEF redis
<1>7. CASE MarkSolved(w)
  <2>1. solved' \in [User -> [Problem -> Nat]]
    BY <1>t, <1>2, <1>7 DEF MarkSolved
  <2> QED
    BY <1>t, <1>1, <1>2, <1>3, <1>4, <1>7, <2>1, GoesOnTypes DEF MarkSolved
<1>8. CASE ReadWrong(w)
  <2> DEFINE l == [local[w] EXCEPT !.penalty =
                     cur[w].result.at + wrong[U(w)][P(w)] * WrongPenalty]
  <2>1. wrong[U(w)][P(w)] \in Nat
    BY <1>t, <1>2
  <2>2. l \in Locals
    BY <1>2, <2>1 DEF WrongPenalty, Locals
  <2>3. GoOn(w, "read", l) /\ UNCHANGED redis
    BY <1>8 DEF ReadWrong, WithPenalty
  <2> HIDE DEF l
  <2> QED
    BY <1>t, <1>1, <1>3, <1>4, <2>2, <2>3, GoesOnTypes DEF redis
<1>9. CASE ReadRank(w)
  <2>1. rank[U(w)] # Absent => SolvedIn(rank[U(w)]) \in Int /\ PenaltyIn(rank[U(w)]) \in Nat
    BY <1>t, <1>2, DecodedTypes
  <2>2. PICK l : /\ GoOn(w, "add", l)
                 /\ l = IF rank[U(w)] = Absent THEN local[w]
                        ELSE [local[w] EXCEPT !.solved = SolvedIn(rank[U(w)]),
                                              !.total = PenaltyIn(rank[U(w)])]
    BY <1>9 DEF ReadRank
  <2>3. l \in Locals
    BY <1>2, <2>1, <2>2 DEF Locals
  <2>4. UNCHANGED redis
    BY <1>9 DEF ReadRank
  <2> QED
    BY <1>t, <1>1, <1>3, <1>4, <2>2, <2>3, <2>4, GoesOnTypes DEF redis
<1>10. CASE AddRank(w)
  <2>1. EncodeACM(local[w].solved + 1, local[w].total + local[w].penalty) \in Int
    BY <1>2 DEF EncodeACM, ACMWeight, Locals
  <2>2. rank' \in [User -> Int \cup {Absent}]
    BY <1>t, <1>2, <1>10, <2>1 DEF AddRank
  <2> QED
    BY <1>t, <1>1, <1>3, <1>10, <2>2, ReturnTypes DEF AddRank
<1> QED
  BY <1>5, <1>6, <1>7, <1>8, <1>9, <1>10 DEF UpdateACM

\* Adding natural numbers to the totals of a call keeps its local variables' types.
LEMMA AddTypes ==
  ASSUME TypeInv, NEW w \in Worker, pc[w] # "idle", local[w].todo # {},
         NEW passed \in Nat, NEW used \in Nat, Add(w, passed, used),
         Outside, Noted', UNCHANGED redis
  PROVE  TypeInv'
<1> DEFINE l == [local[w] EXCEPT !.passed = @ + passed, !.used = @ + used,
                                 !.todo = @ \ {NextProblem(w)}]
<1>1. local[w] \in Locals
  BY CallTypes DEF Locals
<1>2. l \in Locals
  <2>1. /\ local[w].passed + passed \in Nat /\ local[w].used + used \in Nat
        /\ local[w].todo \ {NextProblem(w)} \in SUBSET Problem
    BY <1>1 DEF Locals
  <2> QED
    BY <1>1, <2>1 DEF Locals
<1>3. GoOn(w, "sum", l) /\ "sum" \in Places \ {"idle"}
  BY DEF Add, Places
<1> HIDE DEF l
<1> QED
  BY <1>2, <1>3, TypeFacts, GoesOnTypes DEF redis

\* The problem summed next is one of the contest, with natural numbers in its keys.
LEMMA NextTypes ==
  ASSUME TypeInv, NEW w \in Worker, pc[w] # "idle", local[w].todo # {}
  PROVE  /\ NextProblem(w) \in local[w].todo /\ NextProblem(w) \in Problem
         /\ score[U(w)][NextProblem(w)] \in Nat /\ time[U(w)][NextProblem(w)] \in Nat
<1>1. NextProblem(w) \in local[w].todo
  BY DEF NextProblem
<1>2. NextProblem(w) \in Problem /\ U(w) \in User
  BY <1>1, CallTypes
<1> QED
  BY <1>1, <1>2, TypeFacts

LEMMA IOITypes ==
  ASSUME TypeInv, NEW w \in Worker, UpdateIOI(w)
  PROVE  TypeInv'
<1>t. /\ {wrong, solved, score, time} \subseteq [User -> [Problem -> Nat]]
      /\ rank \in [User -> Int \cup {Absent}]
  BY TypeFacts
<1>1. pc[w] # "idle" /\ Fine
  BY DEF UpdateIOI, ReadLatest, CompareBest, SetScore, SetTime, SumProblem, WriteTotal
<1>2. /\ U(w) \in User /\ P(w) \in Problem /\ cur[w].sub \in 1 .. created
      /\ local[w] \in Locals /\ local[w].passed \in Nat /\ local[w].used \in Nat
  BY <1>1, CallTypes DEF Locals
<1>3. Outside /\ Noted'
  BY <1>1, FineTypes
<1>4. {"compare", "score", "time", "sum"} \subseteq Places \ {"idle"}
  BY DEF Places
<1>5. CASE ReadLatest(w)
  <2> DEFINE newest == row[Max(Rivals(cur[w].sub))]
             l == [local[w] EXCEPT !.passed = newest.passed, !.used = newest.used]
  <2>1. UNCHANGED redis /\ (newest = Absent => Return(w))
                        /\ (newest # Absent => GoOn(w, "compare", l))
    BY <1>5 DEF ReadLatest
  <2>2. newest \in Result \cup {Absent}
    BY <1>2, RivalTypes DEF TypeInv, TypeOK
  <2>3. newest # Absent => l \in Locals
    <3>1. newest # Absent => newest.passed \in Nat /\ newest.used \in Nat
      BY <2>2, ContestRankAssumption DEF ContestRankAssumption
    <3> QED
      BY <1>2, <3>1 DEF Locals
  <2> HIDE DEF newest, l
  <2> QED
    BY <1>t, <1>1, <1>3, <1>4, <2>1, <2>3, ReturnTypes, GoesOnTypes DEF redis
<1>6. CASE CompareBest(w)
  <2>1. UNCHANGED redis /\ (Return(w) \/ GoOn(w, "score", local[w]))
    BY <1>6 DEF CompareBest
  <2> QED
    BY <1>t, <1>1, <1>2, <1>3, <1>4, <2>1, ReturnTypes, GoesOnTypes DEF redis
<1>7. CASE SetScore(w)
  <2>1. score' \in [User -> [Problem -> Nat]]
    BY <1>t, <1>2, <1>7 DEF SetScore
  <2> QED
    BY <1>t, <1>1, <1>2, <1>3, <1>4, <1>7, <2>1, GoesOnTypes DEF SetScore
<1>8. CASE SetTime(w)
  <2>1. time' \in [User -> [Problem -> Nat]]
    BY <1>t, <1>2, <1>8 DEF SetTime
  <2>2. [NoLocal EXCEPT !.todo = Problem] \in Locals
    BY DEF NoLocal, Locals
  <2> QED
    BY <1>t, <1>1, <1>3, <1>4, <1>8, <2>1, <2>2, GoesOnTypes DEF SetTime
<1>9. CASE SumProblem(w)
  <2>1. local[w].todo # {} /\ UNCHANGED redis
        /\ Add(w, score[U(w)][NextProblem(w)], time[U(w)][NextProblem(w)])
    BY <1>9 DEF SumProblem
  <2> QED
    BY <1>1, <1>3, <2>1, NextTypes, AddTypes
<1>10. CASE WriteTotal(w)
  <2>1. rank' \in [User -> Int \cup {Absent}]
    BY <1>t, <1>2, <1>10 DEF WriteTotal, EncodeIOI, IOIWeight
  <2> QED
    BY <1>t, <1>1, <1>3, <1>10, <2>1, ReturnTypes DEF WriteTotal
<1> QED
  BY <1>5, <1>6, <1>7, <1>8, <1>9, <1>10 DEF UpdateIOI

LEMMA FailTypes ==
  ASSUME TypeInv, NEW w \in Worker, CallFails(w)
  PROVE  TypeInv'
<1>t. /\ {wrong, solved, score, time} \subseteq [User -> [Problem -> Nat]]
      /\ rank \in [User -> Int \cup {Absent}]
      /\ unmarked \in [User -> Nat] /\ faults \in 0 .. MaxFaults /\ MaxFaults \in Nat
      /\ disturbed \subseteq User
  BY TypeFacts, ContestRankAssumption DEF TypeInv, TypeOK, ContestRankAssumption
<1>1. pc[w] # "idle" /\ Outside
  BY DEF CallFails, ACMFails, IOIFails
<1>2. /\ U(w) \in User /\ P(w) \in Problem /\ cur[w].result.at \in Nat
      /\ local[w] \in Locals /\ local[w].passed \in Nat /\ local[w].used \in Nat
  BY <1>1, CallTypes DEF Locals
<1>3. Noted'
  <2>1. unmarked' = unmarked \/ unmarked' = [unmarked EXCEPT ![U(w)] = @ + 1]
    BY DEF CallFails, ACMFails
  <2>2. unmarked' \in [User -> Nat]
    <3>1. PICK u \in User : u = U(w)
      BY <1>2
    <3>2. unmarked[u] + 1 \in Nat
      BY <1>t
    <3> QED
      BY <1>t, <2>1, <3>1, <3>2
  <2>3. faults' \in 0 .. MaxFaults /\ disturbed' \subseteq User
    BY <1>t, <1>2 DEF CallFails, Disturb
  <2> QED
    BY <2>2, <2>3 DEF Noted
<1>4. {"mark", "penalty", "read", "add", "score", "time", "sum"} \subseteq Places \ {"idle"}
  BY DEF Places
<1>5. CASE UNCHANGED redis /\ Return(w)
  BY <1>t, <1>1, <1>3, <1>5, ReturnTypes DEF redis
<1>6. ASSUME UNCHANGED redis, NEW st \in {"mark", "penalty", "read", "add", "score", "time", "sum"},
             NEW l \in Locals, GoOn(w, st, l)
      PROVE  TypeInv'
  BY <1>t, <1>1, <1>3, <1>4, <1>6, GoesOnTypes DEF redis
<1>7. CASE ACMFails(w)
  <2>1. ASSUME pc[w] = "wrong", Return(w), UNCHANGED <<solved, score, time, rank>>,
               NEW n \in {0, 2}, wrong' = [wrong EXCEPT ![U(w)][P(w)] = @ + n]
        PROVE  TypeInv'
    <3>1. wrong \in [User -> [Problem -> Nat]] /\ n \in Nat
      BY <1>t, <2>1
    <3>2. wrong' \in [User -> [Problem -> Nat]]
      BY <1>2, <2>1, <3>1
    <3> QED
      BY <1>t, <1>1, <1>3, <2>1, <3>2, ReturnTypes
  <2>2. ASSUME GoOn(w, "penalty", local[w]), UNCHANGED <<wrong, score, time, rank>>,
               solved' = solved \/ solved' = [solved EXCEPT ![U(w)][P(w)] = @ + 2]
        PROVE  TypeInv'
    <3>1. solved' \in [User -> [Problem -> Nat]]
      <4>1. solved \in [User -> [Problem -> Nat]]
        BY <1>t
      <4>2. CASE solved' = [solved EXCEPT ![U(w)][P(w)] = @ + 2]
        BY <1>2, <4>1, <4>2
      <4> QED
        BY <2>2, <4>1, <4>2
    <3> QED
      BY <1>t, <1>1, <1>2, <1>3, <1>4, <2>2, <3>1, GoesOnTypes
  <2>3. ASSUME WithPenalty(w, 0), UNCHANGED redis PROVE TypeInv'
    <3> DEFINE l == [local[w] EXCEPT !.penalty = cur[w].result.at + 0 * WrongPenalty]
    <3>1. l \in Locals
      BY <1>2 DEF WrongPenalty, Locals
    <3>2. GoOn(w, "read", l)
      BY <2>3 DEF WithPenalty
    <3> HIDE DEF l
    <3> QED
      BY <1>6, <2>3, <3>1, <3>2
  <2> QED
    BY <1>2, <1>5, <1>6, <1>7, <2>1, <2>2, <2>3 DEF ACMFails
<1>8. CASE IOIFails(w)
  <2>1. ASSUME NEW used \in {local[w].used, time[U(w)][P(w)]}, NEW todo \in {{}, Problem},
               time' = [time EXCEPT ![U(w)][P(w)] = used],
               GoOn(w, "sum", [NoLocal EXCEPT !.todo = todo]),
               UNCHANGED <<wrong, solved, score, rank>>
        PROVE  TypeInv'
    <3>1. time \in [User -> [Problem -> Nat]] /\ used \in Nat
      <4>1. time \in [User -> [Problem -> Nat]]
        BY <1>t
      <4>2. time[U(w)][P(w)] \in Nat
        BY <1>2, <4>1
      <4> QED
        BY <1>2, <4>1, <4>2
    <3>2. time' \in [User -> [Problem -> Nat]]
      BY <1>2, <2>1, <3>1
    <3>3. [NoLocal EXCEPT !.todo = todo] \in Locals
      BY DEF NoLocal, Locals
    <3> QED
      BY <1>t, <1>1, <1>3, <1>4, <2>1, <3>2, <3>3, GoesOnTypes
  <2>2. ASSUME local[w].todo # {}, UNCHANGED redis,
               NEW passed \in {0, score[U(w)][NextProblem(w)]},
               NEW used \in {0, time[U(w)][NextProblem(w)]}, Add(w, passed, used)
        PROVE  TypeInv'
    <3>1. passed \in Nat /\ used \in Nat
      BY <1>1, <2>2, NextTypes
    <3> QED
      BY <1>1, <1>3, <2>2, <3>1, AddTypes
  <2> QED
    BY <1>2, <1>5, <1>6, <1>8, <2>1, <2>2 DEF IOIFails
<1> QED
  BY <1>5, <1>7, <1>8 DEF CallFails

\* Every step keeps the types.
LEMMA TypeStep == TypeInv /\ [Next]_vars => TypeInv'
<1> SUFFICES ASSUME TypeInv, [Next]_vars PROVE TypeInv'
  OBVIOUS
<1>t. /\ TypeOK /\ CallInv
      /\ {wrong, solved, score, time} \subseteq [User -> [Problem -> Nat]]
      /\ rank \in [User -> Int \cup {Absent}]
      /\ log \in [User -> Seq(Ranked)] /\ requeued \subseteq Sub
      /\ crashes \in 0 .. MaxCrashes /\ disturbed \subseteq User
      /\ Subs \in Nat /\ created \in Nat /\ MaxCrashes \in Nat /\ MaxCalls \in Nat
      /\ MaxFaults \in Nat /\ MaxRejudges \in Nat
      /\ Absent \notin Result /\ \A s \in Sub : Author[s] \in User
  BY ContestRankAssumption DEF TypeInv, TypeOK, ContestRankAssumption
<1>1. ASSUME Create PROVE TypeInv'
  <2>1. created' \in 0 .. Subs /\ created' = created + 1
    BY <1>1, <1>t DEF Create
  <2>2. disturbed' \subseteq User
    BY <1>1, <1>t, <2>1 DEF Create, Disturb, Sub
  <2>3. TypeOK'
    BY <1>1, <1>t, <2>1, <2>2 DEF Create, TypeOK, redis, bounds
  <2>4. CallInv'
    BY <1>1, <1>t, <2>1 DEF Create, CallInv
  <2> QED
    BY <2>3, <2>4 DEF TypeInv
<1>2. ASSUME NEW w \in Worker, NEW s \in Sub, NEW r \in Result, Judge(w, s, r)
      PROVE  TypeInv'
  <2>1. /\ pc' = [pc EXCEPT ![w] = "judged"] /\ s \in 1 .. created
        /\ cur' = [cur EXCEPT ![w] = [sub |-> s, result |-> r]]
        /\ row' = row \/ row' = [row EXCEPT ![s] = r]
        /\ calls' \in 0 .. MaxCalls /\ faults' \in 0 .. MaxFaults
        /\ UNCHANGED <<rule, created, requeued, redis, local, crashes, rejudges, log, unmarked>>
    BY <1>2, <1>t DEF Judge, GoTo, TypeOK, Sub
  <2>2. disturbed' \subseteq User
    BY <1>2, <1>t DEF Judge, Disturb
  <2>3. [sub |-> s, result |-> r] \in [sub : Sub, result : Result]
    OBVIOUS
  <2>4. [sub |-> s, result |-> r] # Absent
    BY ContestRankAssumption DEF ContestRankAssumption
  <2>5. row' \in [Sub -> Result \cup {Absent}]
    BY <1>t, <2>1 DEF TypeOK
  <2>6. TypeOK'
    BY <1>t, <2>1, <2>2, <2>3, <2>4, <2>5 DEF TypeOK, redis
  <2>7. CallInv'
    BY <1>t, <2>1 DEF CallInv, TypeOK
  <2> QED
    BY <2>6, <2>7 DEF TypeInv
<1>3. ASSUME NEW s \in Sub, Rejudge(s) PROVE TypeInv'
  <2>1. /\ row' = [row EXCEPT ![s] = Absent] /\ requeued' \subseteq Sub
        /\ rejudges' \in 0 .. MaxRejudges /\ disturbed' \subseteq User
        /\ UNCHANGED <<rule, created, redis, pc, cur, local, calls, crashes, faults, log, unmarked>>
    BY <1>3, <1>t DEF Rejudge, Disturb, TypeOK
  <2> QED
    BY <2>1, RowTypes
<1>4. ASSUME NEW s \in Sub, NEW r \in Result, WriteUnranked(s, r) PROVE TypeInv'
  <2>1. /\ row' = [row EXCEPT ![s] = r] /\ requeued' \subseteq Sub
        /\ rejudges' \in 0 .. MaxRejudges /\ disturbed' \subseteq User
        /\ UNCHANGED <<rule, created, redis, pc, cur, local, calls, crashes, faults, log, unmarked>>
    BY <1>4, <1>t DEF WriteUnranked, Disturb, TypeOK, bounds
  <2> QED
    BY <2>1, RowTypes
<1>5. ASSUME NEW w \in Worker, Call(w) PROVE TypeInv'
  <2>1. pc[w] # "idle" /\ Fine /\ UNCHANGED redis
    BY <1>5 DEF Call, Fine, Outside, redis, bounds, history
  <2>2. PICK st \in Places \ {"idle"} : GoTo(w, st)
    BY <1>5 DEF Call, Places
  <2>3. local[w] \in Locals
    BY <2>1, CallTypes DEF Locals
  <2>4. GoOn(w, st, local[w])
    BY <1>5, <1>t, <2>2 DEF Call, GoOn, Let, TypeOK, history
  <2> QED
    BY <1>t, <2>1, <2>2, <2>3, <2>4, FineTypes, GoesOnTypes DEF redis
<1>6. ASSUME NEW w \in Worker, Crash(w) PROVE TypeInv'
  <2>1. pc[w] # "idle" /\ U(w) \in User
    BY <1>6, CallTypes DEF Crash
  <2>2. /\ crashes' \in 0 .. MaxCrashes /\ Noted'
        /\ UNCHANGED <<tables, redis, log>>
    BY <1>6, <1>t, <2>1 DEF Crash, Disturb, Noted, tables, TypeOK
  <2> QED
    BY <1>6, <1>t, <2>1, <2>2, EndsTypes DEF Crash, redis
<1>7. ASSUME UNCHANGED vars PROVE TypeInv'
  BY <1>7 DEF vars, redis, bounds, history, TypeInv, TypeOK, CallInv
<1> QED
  BY <1>1, <1>2, <1>3, <1>4, <1>5, <1>6, <1>7, ACMTypes, IOITypes, FailTypes DEF Next

LEMMA TypesInvariant == Spec => []TypeInv
<1> QED
  BY InitTypes, TypeStep, PTL DEF Spec

\* Every variable of ContestRank keeps its type.
THEOREM RankTypes == Spec => []TypeOK
<1>1. TypeInv => TypeOK
  BY DEF TypeInv
<1> QED
  BY <1>1, TypesInvariant, PTL

-----------------------------------------------------------------------------
(***************************************************************************)
(* Nobody has more solves than were marked or failed to be.  A goroutine   *)
(* that is past the mark and has not yet written the entry is owed one     *)
(* solve; what was read from an entry, however old, leaves room for it.    *)
(***************************************************************************)

Marked(u) == {w \in Worker : pc[w] \in {"penalty", "read", "add"} /\ U(w) = u}

\* The marks of a user, made or failed, that may show in the entry.
Marks(u) == SumFunction(solved[u]) + unmarked[u]
Room(u)  == Marks(u) - Cardinality(Marked(u))

\* Goroutine w is in updateACMRanking, and what it read leaves room for its mark.
InRoom(w) ==
  /\ pc[w] \in {"idle", "judged", "wrong", "check", "mark", "penalty", "read", "add"}
  /\ IF pc[w] = "idle" THEN local[w].solved = 0 ELSE local[w].solved <= Room(U(w))

BackedInv ==
  rule = "ACM" =>
    /\ \A w \in Worker : InRoom(w)
    /\ \A u \in User : Room(u) >= 0 /\ (rank[u] # Absent => SolvedIn(rank[u]) <= Room(u))

LEMMA RoomTypes ==
  ASSUME TypeInv
  PROVE  \A u \in User :
           /\ IsFiniteSet(Marked(u)) /\ Cardinality(Marked(u)) \in Nat
           /\ SumFunction(solved[u]) = SumFunctionOnSet(solved[u], Problem)
           /\ SumFunction(solved[u]) \in Nat /\ unmarked[u] \in Nat
           /\ Marks(u) \in Nat /\ Room(u) \in Int
<1> SUFFICES ASSUME NEW u \in User
             PROVE  /\ IsFiniteSet(Marked(u)) /\ Cardinality(Marked(u)) \in Nat
                    /\ SumFunction(solved[u]) = SumFunctionOnSet(solved[u], Problem)
                    /\ SumFunction(solved[u]) \in Nat /\ unmarked[u] \in Nat
                    /\ Marks(u) \in Nat /\ Room(u) \in Int
  OBVIOUS
<1>1. IsFiniteSet(Worker) /\ IsFiniteSet(Problem)
  BY ContestRankAssumption DEF ContestRankAssumption
<1>2. Marked(u) \in SUBSET Worker
  BY DEF Marked
<1>3. IsFiniteSet(Marked(u)) /\ Cardinality(Marked(u)) \in Nat
  BY <1>1, <1>2, FS_Subset, FS_CardinalityType
<1>4. solved[u] \in [Problem -> Nat] /\ unmarked[u] \in Nat
  BY TypeFacts DEF TypeInv, TypeOK
<1>5. SumFunction(solved[u]) = SumFunctionOnSet(solved[u], Problem)
  BY <1>4 DEF SumFunction
<1>6. SumFunctionOnSet(solved[u], Problem) \in Nat
  BY <1>1, <1>4, SumNat
<1> QED
  BY <1>3, <1>4, <1>5, <1>6 DEF Room, Marks

LEMMA RoomNumber == TypeInv => \A u \in User : Room(u) \in Int
<1> QED
  BY RoomTypes

\* A goroutine that moves within its call, without touching marks or entries, leaves
\* all as it is; that includes those that have not marked yet.
LEMMA RoomStays ==
  ASSUME TypeInv, UNCHANGED <<solved, unmarked, cur>>, NEW w \in Worker, NEW st, GoTo(w, st),
         pc[w] \in {"penalty", "read", "add"} <=> st \in {"penalty", "read", "add"}
  PROVE  \A u \in User : Room(u)' = Room(u)
<1>1. pc' = [pc EXCEPT ![w] = st] /\ pc \in [Worker -> Places]
  BY DEF GoTo, TypeInv, TypeOK, Places
<1>2. \A u \in User : Marked(u)' = Marked(u)
  BY <1>1 DEF Marked, U
<1> QED
  BY <1>2 DEF Room, Marks

\* When a call ends, the mark it made may show.
LEMMA RoomFreed ==
  ASSUME TypeInv, UNCHANGED <<solved, unmarked>>, NEW w \in Worker, pc[w] # "idle",
         GoTo(w, "idle"), cur' = [cur EXCEPT ![w] = Absent]
  PROVE  \A u \in User :
           Room(u)' >= Room(u) /\ (w \in Marked(u) => Room(u)' = Room(u) + 1)
<1>1. pc' = [pc EXCEPT ![w] = "idle"] /\ pc \in [Worker -> Places]
  BY DEF GoTo, TypeInv, TypeOK, Places
<1>2. \A v \in Worker \ {w} : pc'[v] = pc[v] /\ cur'[v] = cur[v]
  BY <1>1 DEF TypeInv, TypeOK
<1>3. \A u \in User : Marked(u)' = Marked(u) \ {w} /\ Marks(u)' = Marks(u)
  BY <1>1, <1>2 DEF Marked, Marks, U
<1>4. \A u \in User : IsFiniteSet(Marked(u)) /\ Cardinality(Marked(u)) \in Nat
                      /\ Marks(u) \in Nat
  BY RoomTypes
<1>5. ASSUME NEW u \in User
      PROVE  Cardinality(Marked(u) \ {w}) =
               IF w \in Marked(u) THEN Cardinality(Marked(u)) - 1 ELSE Cardinality(Marked(u))
  BY <1>4, FS_RemoveElement
<1>6. \A u \in User : Room(u)' = Marks(u) - Cardinality(Marked(u) \ {w})
  BY <1>3 DEF Room
<1>7. ASSUME NEW u \in User
      PROVE  Room(u)' >= Room(u) /\ (w \in Marked(u) => Room(u)' = Room(u) + 1)
  <2>1. /\ Cardinality(Marked(u)) \in Nat /\ Marks(u) \in Nat
        /\ Room(u)' = Marks(u) - Cardinality(Marked(u) \ {w})
        /\ Room(u) = Marks(u) - Cardinality(Marked(u))
    BY <1>4, <1>6 DEF Room
  <2>2. CASE w \in Marked(u)
    BY <1>5, <2>1, <2>2
  <2>3. CASE w \notin Marked(u)
    BY <1>5, <2>1, <2>3
  <2> QED
    BY <2>2, <2>3
<1> QED
  BY <1>7

\* More marks of a problem are as many more in all.
LEMMA MarksAdded ==
  ASSUME TypeInv, NEW u \in User, NEW p \in Problem, NEW n \in Nat,
         solved' = [solved EXCEPT ![u][p] = @ + n], UNCHANGED unmarked
  PROVE  Marks(u)' = Marks(u) + n /\ \A x \in User \ {u} : Marks(x)' = Marks(x)
<1>1. solved \in [User -> [Problem -> Nat]] /\ IsFiniteSet(Problem)
  BY TypeFacts, ContestRankAssumption DEF ContestRankAssumption
<1>2. PICK f, h : f = solved[u] /\ h = solved'[u]
  OBVIOUS
<1>3. /\ f \in [Problem -> Nat] /\ h \in [Problem -> Nat] /\ h[p] = f[p] + n
      /\ \A q \in Problem \ {p} : h[q] = f[q]
      /\ \A x \in User \ {u} : solved'[x] = solved[x]
  BY <1>1, <1>2
<1>4. SumFunctionOnSet(h, Problem) = SumFunctionOnSet(f, Problem) + h[p] - f[p]
  <2>1. \A q \in Problem : f[q] \in Int /\ h[q] \in Int
    BY <1>3
  <2>2. \A q \in Problem \ {p} : h[q] = f[q]
    BY <1>3
  <2>3. IsFiniteSet(Problem)
    BY <1>1
  <2> QED
    BY <2>1, <2>2, <2>3, SumMoves
<1>5. SumFunctionOnSet(f, Problem) \in Nat
  BY <1>1, <1>3, SumNat
<1>6. SumFunction(h) = SumFunctionOnSet(h, Problem) /\ SumFunction(f) = SumFunctionOnSet(f, Problem)
  BY <1>3 DEF SumFunction
<1>7. SumFunction(h) = SumFunction(f) + n /\ SumFunction(f) \in Nat
  BY <1>3, <1>4, <1>5, <1>6
<1>8. Marks(u)' = SumFunction(h) + unmarked[u] /\ Marks(u) = SumFunction(f) + unmarked[u]
  BY <1>2 DEF Marks
<1>9. unmarked[u] \in Nat
  BY DEF TypeInv, TypeOK
<1>10. Marks(u)' = Marks(u) + n
  BY <1>7, <1>8, <1>9
<1> QED
  BY <1>3, <1>10 DEF Marks

\* A mark is owed from the moment it is made, or fails to be.
LEMMA RoomMarked ==
  ASSUME TypeInv, NEW w \in Worker, pc[w] = "mark", GoTo(w, "penalty"), UNCHANGED cur,
         Marks(U(w))' > Marks(U(w)), Marks(U(w))' \in Int,
         \A x \in User \ {U(w)} : Marks(x)' = Marks(x)
  PROVE  \A u \in User : Room(u)' >= Room(u)
<1>1. pc' = [pc EXCEPT ![w] = "penalty"] /\ pc \in [Worker -> Places] /\ U(w) \in User
  BY CallTypes DEF GoTo, TypeInv, TypeOK, Places
<1>2. \A u \in User : Marked(u)' = IF u = U(w) THEN Marked(u) \cup {w} ELSE Marked(u)
  BY <1>1 DEF Marked, U
<1>3. \A u \in User : /\ IsFiniteSet(Marked(u)) /\ Cardinality(Marked(u)) \in Nat
                      /\ Marks(u) \in Nat /\ Room(u) \in Int
  BY RoomTypes
<1>4. ASSUME NEW u \in User, u # U(w) PROVE Room(u)' >= Room(u)
  <2>1. Room(u)' = Room(u)
    BY <1>2, <1>4 DEF Room
  <2> QED
    BY <1>3, <2>1
<1>5. ASSUME NEW u \in User, u = U(w) PROVE Room(u)' >= Room(u)
  <2>1. w \notin Marked(u)
    BY DEF Marked
  <2>2. Cardinality(Marked(u) \cup {w}) = Cardinality(Marked(u)) + 1
    BY <1>3, <2>1, FS_AddElement
  <2>3. PICK m : m = Marks(u)' /\ m \in Int /\ m > Marks(u)
    <3>1. Marks(u)' = Marks(U(w))'
      <4>1. U(w)' = U(w)
        BY DEF U
      <4> QED
        BY <1>5, <4>1 DEF Marks
    <3> QED
      BY <1>5, <3>1
  <2>4. Room(u)' = m - Cardinality(Marked(u) \cup {w})
    BY <1>2, <1>5, <2>3 DEF Room
  <2>5. Room(u) = Marks(u) - Cardinality(Marked(u))
    BY DEF Room
  <2> QED
    BY <1>3, <2>2, <2>3, <2>4, <2>5
<1> QED
  BY <1>4, <1>5

\* A step of w leaves the others as they are, if there is no less room after it.
LEMMA OthersInRoom ==
  ASSUME TypeInv, TypeInv', BackedInv, rule = "ACM", NEW w \in Worker,
         \A v \in Worker \ {w} : pc'[v] = pc[v] /\ cur'[v] = cur[v] /\ local'[v] = local[v],
         \A u \in User : Room(u)' >= Room(u),
         InRoom(w)',
         \A u \in User : rank'[u] = rank[u] \/ SolvedIn(rank'[u]) <= Room(u)'
  PROVE  BackedInv'
<1>1. \A u \in User : Room(u) \in Int /\ Room(u)' \in Int
  <2>1. TypeInv' => (\A u \in User : Room(u) \in Int)'
    BY RoomNumber, PTL
  <2> QED
    BY <2>1, RoomNumber
<1>2. ASSUME NEW u \in User
      PROVE  Room(u)' >= 0 /\ (rank'[u] # Absent => SolvedIn(rank'[u]) <= Room(u)')
  <2>1. Room(u) >= 0 /\ (rank[u] # Absent => SolvedIn(rank[u]) <= Room(u))
    BY DEF BackedInv
  <2>2. rank[u] # Absent => SolvedIn(rank[u]) \in Int
    BY TypeFacts, DecodedTypes
  <2> QED
    BY <1>1, <2>1, <2>2
<1>3. ASSUME NEW v \in Worker \ {w} PROVE InRoom(v)'
  <2>1. InRoom(v) /\ pc'[v] = pc[v] /\ U(v)' = U(v) /\ local'[v] = local[v]
    BY DEF BackedInv, U
  <2>2. pc[v] # "idle" => U(v) \in User /\ local[v].solved \in Int
    BY CallTypes
  <2> QED
    BY <1>1, <2>1, <2>2 DEF InRoom
<1> QED
  BY <1>2, <1>3 DEF BackedInv

\* A call that ends, by returning or in a crash, makes room and forgets what it read.
LEMMA EndsInRoom ==
  ASSUME TypeInv, TypeInv', BackedInv, rule = "ACM", UNCHANGED <<solved, unmarked>>,
         NEW w \in Worker, pc[w] # "idle",
         GoTo(w, "idle"), Let(w, NoLocal), cur' = [cur EXCEPT ![w] = Absent],
         \A u \in User : rank'[u] = rank[u] \/ SolvedIn(rank'[u]) <= Room(u)'
  PROVE  BackedInv'
<1>1. \A u \in User : Room(u)' >= Room(u)
  BY RoomFreed
<1>2. \A v \in Worker \ {w} : pc'[v] = pc[v] /\ cur'[v] = cur[v] /\ local'[v] = local[v]
  BY DEF GoTo, Let, TypeInv, TypeOK
<1>3. pc'[w] = "idle" /\ local'[w].solved = 0
  BY DEF GoTo, Let, NoLocal, TypeInv, TypeOK
<1>4. InRoom(w)'
  BY <1>3 DEF InRoom
<1> QED
  BY <1>1, <1>2, <1>4, OthersInRoom

\* A goroutine that goes on, with no more solves than there is room for.
LEMMA MovesInRoom ==
  ASSUME TypeInv, TypeInv', BackedInv, rule = "ACM", UNCHANGED <<cur, rank>>,
         NEW w \in Worker, pc[w] # "idle",
         NEW st \in {"judged", "wrong", "check", "mark", "penalty", "read", "add"}, GoTo(w, st),
         \A u \in User : Room(u)' >= Room(u),
         \A v \in Worker \ {w} : local'[v] = local[v],
         local'[w].solved <= Room(U(w))
  PROVE  BackedInv'
<1>1. pc'[w] = st /\ \A v \in Worker \ {w} : pc'[v] = pc[v]
  BY DEF GoTo, TypeInv, TypeOK
<1>2. U(w)' = U(w) /\ U(w) \in User
  BY CallTypes DEF U
<1>3. /\ \A u \in User : Room(u) \in Int /\ Room(u)' \in Int
      /\ local'[w].solved \in Int
  <2>1. TypeInv' => (\A u \in User : Room(u) \in Int)'
    BY RoomNumber, PTL
  <2> QED
    BY <2>1, RoomNumber DEF TypeInv, TypeOK
<1>4. InRoom(w)'
  BY <1>1, <1>2, <1>3 DEF InRoom
<1> QED
  BY <1>1, <1>4, OthersInRoom

LEMMA InitBacked == Init => BackedInv
<1> SUFFICES ASSUME Init, rule = "ACM" PROVE BackedInv
  BY DEF BackedInv
<1>1. TypeInv
  BY InitTypes
<1>2. \A u \in User : Marked(u) = {}
  BY DEF Marked, Init
<1>3. \A u \in User : Room(u) >= 0
  BY <1>1, <1>2, RoomTypes, FS_EmptySet DEF Room, Marks
<1> QED
  BY <1>3 DEF BackedInv, InRoom, Init, NoLocal

\* A goroutine that goes on without touching marks or entries.
LEMMA GoesOnInRoom ==
  ASSUME TypeInv, TypeInv', BackedInv, rule = "ACM", UNCHANGED <<solved, unmarked, rank>>,
         NEW w \in Worker, pc[w] # "idle",
         NEW st \in {"judged", "wrong", "check", "mark", "penalty", "read", "add"},
         NEW l, GoOn(w, st, l),
         pc[w] \in {"penalty", "read", "add"} <=> st \in {"penalty", "read", "add"},
         l.solved = local[w].solved \/ l.solved <= Room(U(w))
  PROVE  BackedInv'
<1>1. /\ GoTo(w, st) /\ UNCHANGED cur /\ local'[w] = l
      /\ \A v \in Worker \ {w} : local'[v] = local[v]
  BY DEF GoOn, Let, TypeInv, TypeOK
<1>2. \A u \in User : Room(u)' = Room(u) /\ Room(u) \in Int
  BY <1>1, RoomStays, RoomTypes
<1>3. local'[w].solved <= Room(U(w))
  BY <1>1 DEF BackedInv, InRoom
<1>4. \A u \in User : Room(u)' >= Room(u)
  BY <1>2
<1> QED
  BY <1>1, <1>3, <1>4, MovesInRoom

\* One that marks, or fails to.
LEMMA MarksInRoom ==
  ASSUME TypeInv, TypeInv', BackedInv, rule = "ACM", UNCHANGED rank,
         NEW w \in Worker, pc[w] = "mark", GoOn(w, "penalty", local[w]),
         Marks(U(w))' > Marks(U(w)), Marks(U(w))' \in Int,
         \A x \in User \ {U(w)} : Marks(x)' = Marks(x)
  PROVE  BackedInv'
<1>1. /\ GoTo(w, "penalty") /\ UNCHANGED cur /\ local'[w] = local[w]
      /\ \A v \in Worker \ {w} : local'[v] = local[v]
  BY DEF GoOn, Let, TypeInv, TypeOK
<1>2. local'[w].solved <= Room(U(w))
  BY <1>1 DEF BackedInv, InRoom
<1>3. \A u \in User : Room(u)' >= Room(u)
  BY <1>1, RoomMarked
<1> QED
  BY <1>1, <1>2, <1>3, MovesInRoom

LEMMA ACMInRoom ==
  ASSUME TypeInv, TypeInv', BackedInv, rule = "ACM", NEW w \in Worker, UpdateACM(w)
  PROVE  BackedInv'
<1>1. pc[w] # "idle" /\ Fine
  BY DEF UpdateACM, CountWrong, CheckSolved, MarkSolved, ReadWrong, ReadRank, AddRank
<1>2. /\ U(w) \in User /\ P(w) \in Problem /\ local[w].solved \in Int
      /\ local[w].total \in Nat /\ local[w].penalty \in Nat
  BY <1>1, CallTypes
<1>3. UNCHANGED unmarked
  BY <1>1 DEF Fine
<1>4. /\ Room(U(w)) \in Int /\ Room(U(w)) >= 0 /\ InRoom(w)
      /\ rank[U(w)] # Absent => rank[U(w)] \in Int /\ SolvedIn(rank[U(w)]) <= Room(U(w))
  BY <1>2, RoomTypes, TypeFacts DEF BackedInv
<1>5. ASSUME Return(w), UNCHANGED <<solved, rank>> PROVE BackedInv'
  BY <1>1, <1>3, <1>5, EndsInRoom DEF Return
<1>6. CASE CountWrong(w)
  BY <1>5, <1>6 DEF CountWrong
<1>7. CASE CheckSolved(w)
  <2>1. pc[w] = "check" /\ UNCHANGED <<solved, rank>> /\ (Return(w) \/ GoOn(w, "mark", local[w]))
    BY <1>7 DEF CheckSolved, redis
  <2> QED
    BY <1>1, <1>3, <1>5, <2>1, GoesOnInRoom
<1>8. CASE MarkSolved(w)
  <2>1. Marks(U(w))' = Marks(U(w)) + 1 /\ \A x \in User \ {U(w)} : Marks(x)' = Marks(x)
    <3>1. PICK u \in User : u = U(w)
      BY <1>2
    <3>2. solved' = [solved EXCEPT ![u][P(w)] = @ + 1]
      BY <1>8, <3>1 DEF MarkSolved
    <3>3. Marks(u)' = Marks(u) + 1 /\ \A x \in User \ {u} : Marks(x)' = Marks(x)
      BY <1>2, <1>3, <3>2, MarksAdded
    <3>4. U(w)' = U(w)
      BY <1>8 DEF MarkSolved, GoOn, U
    <3>5. Marks(U(w))' = Marks(u)'
      BY <3>1, <3>4 DEF Marks
    <3> QED
      BY <3>1, <3>3, <3>5
  <2>2. Marks(U(w)) \in Nat
    BY <1>2, RoomTypes
  <2>3. Marks(U(w))' > Marks(U(w)) /\ Marks(U(w))' \in Int
    BY <2>1, <2>2
  <2> QED
    BY <1>8, <2>1, <2>3, MarksInRoom DEF MarkSolved
<1>9. CASE ReadWrong(w)
  <2> DEFINE l == [local[w] EXCEPT !.penalty =
                     cur[w].result.at + wrong[U(w)][P(w)] * WrongPenalty]
  <2>1. pc[w] = "penalty" /\ UNCHANGED <<solved, rank>> /\ GoOn(w, "read", l)
    BY <1>9 DEF ReadWrong, WithPenalty, redis
  <2>2. l.solved = local[w].solved
    OBVIOUS
  <2> HIDE DEF l
  <2> QED
    BY <1>1, <1>3, <2>1, <2>2, GoesOnInRoom
<1>10. CASE ReadRank(w)
  <2>1. PICK l : /\ GoOn(w, "add", l)
                 /\ l = IF rank[U(w)] = Absent THEN local[w]
                        ELSE [local[w] EXCEPT !.solved = SolvedIn(rank[U(w)]),
                                              !.total = PenaltyIn(rank[U(w)])]
    BY <1>10 DEF ReadRank
  <2>2. pc[w] = "read" /\ UNCHANGED <<solved, rank>>
    BY <1>10 DEF ReadRank, redis
  <2>3. l.solved = local[w].solved \/ l.solved <= Room(U(w))
    <3>1. local[w] \in Locals
      BY <1>1, CallTypes DEF Locals
    <3> QED
      BY <1>4, <2>1, <3>1 DEF Locals
  <2> QED
    BY <1>1, <1>3, <2>1, <2>2, <2>3, GoesOnInRoom
<1>11. CASE AddRank(w)
  <2> DEFINE sc == EncodeACM(local[w].solved + 1, local[w].total + local[w].penalty)
  <2>1. /\ pc[w] = "add" /\ Return(w) /\ UNCHANGED <<solved, unmarked>>
        /\ rank' = [rank EXCEPT ![U(w)] = sc]
    BY <1>3, <1>11 DEF AddRank
  <2>2. GoTo(w, "idle") /\ Let(w, NoLocal) /\ cur' = [cur EXCEPT ![w] = Absent]
    BY <2>1 DEF Return
  <2>3. w \in Marked(U(w))
    BY <2>1 DEF Marked
  <2>4. PICK u \in User : u = U(w)
    BY <1>2
  <2>5. Room(u)' = Room(u) + 1
    BY <1>1, <2>1, <2>2, <2>3, <2>4, RoomFreed
  <2>6. local[w].solved <= Room(u)
    BY <1>4, <2>1, <2>4 DEF InRoom
  <2>7. SolvedIn(sc) <= Room(u) + 1
    <3>1. PICK n, penalty, bound : /\ n = local[w].solved + 1
                                   /\ penalty = local[w].total + local[w].penalty
                                   /\ bound = Room(u) + 1
      OBVIOUS
    <3>2. n \in Int /\ penalty \in Nat /\ bound \in Nat /\ n <= bound
      BY <1>2, <1>4, <2>4, <2>6, <3>1
    <3>3. SolvedIn(EncodeACM(n, penalty)) <= bound
      BY <3>2, DecodesNoMore
    <3> QED
      BY <3>1, <3>3
  <2> HIDE DEF sc
  <2>8. rank'[u] = sc /\ \A x \in User \ {u} : rank'[x] = rank[x]
    BY <2>1, <2>4, TypeFacts
  <2>9. \A x \in User : rank'[x] = rank[x] \/ SolvedIn(rank'[x]) <= Room(x)'
    BY <2>5, <2>7, <2>8
  <2> QED
    BY <1>1, <2>1, <2>2, <2>9, EndsInRoom
<1> QED
  BY <1>6, <1>7, <1>8, <1>9, <1>10, <1>11 DEF UpdateACM

\* A call that fails in an ACM contest; a mark that does is counted.
LEMMA FailsInRoom ==
  ASSUME TypeInv, TypeInv', BackedInv, rule = "ACM", NEW w \in Worker, CallFails(w)
  PROVE  BackedInv'
<1>1. pc[w] # "idle"
  BY DEF CallFails, ACMFails, IOIFails
<1>2. /\ U(w) \in User /\ P(w) \in Problem /\ local[w] \in Locals
  BY <1>1, CallTypes DEF Locals
<1>3. InRoom(w)
  BY DEF BackedInv
<1>4. ~IOIFails(w)
  BY <1>3 DEF InRoom, IOIFails
<1>5. ASSUME Return(w), UNCHANGED <<solved, unmarked, rank>> PROVE BackedInv'
  BY <1>1, <1>5, EndsInRoom DEF Return
<1>6. CASE pc[w] = "judged" /\ Return(w) /\ UNCHANGED <<redis, unmarked>>
  BY <1>5, <1>6 DEF redis
<1>7. CASE ACMFails(w)
  <2>1. CASE pc[w] = "wrong"
    <3>1. Return(w) /\ UNCHANGED <<solved, unmarked, rank>>
      BY <1>7, <2>1 DEF ACMFails
    <3> QED
      BY <1>5, <3>1
  <2>2. CASE pc[w] = "check"
    <3>1. GoOn(w, "mark", local[w]) /\ UNCHANGED <<solved, unmarked, rank>>
      BY <1>7, <2>2 DEF ACMFails, redis
    <3> QED
      BY <1>1, <2>2, <3>1, GoesOnInRoom
  <2>3. CASE pc[w] = "mark"
    <3>1. /\ GoOn(w, "penalty", local[w]) /\ UNCHANGED rank
          /\ \/ unmarked' = [unmarked EXCEPT ![U(w)] = @ + 1] /\ UNCHANGED solved
             \/ solved' = [solved EXCEPT ![U(w)][P(w)] = @ + 2] /\ UNCHANGED unmarked
      BY <1>7, <2>3 DEF ACMFails
    <3>2. PICK u \in User : u = U(w)
      BY <1>2
    <3>3. U(w)' = U(w)
      BY <3>1 DEF GoOn, U
    <3>4. Marks(u)' \in {Marks(u) + 1, Marks(u) + 2} /\ \A x \in User \ {u} : Marks(x)' = Marks(x)
      <4>1. CASE unmarked' = [unmarked EXCEPT ![u] = @ + 1] /\ UNCHANGED solved
        <5>1. /\ unmarked'[u] = unmarked[u] + 1
              /\ \A x \in User \ {u} : unmarked'[x] = unmarked[x]
          BY <4>1 DEF TypeInv, TypeOK
        <5>2. SumFunction(solved[u]) \in Nat /\ unmarked[u] \in Nat
          BY RoomTypes
        <5>3. Marks(u)' = SumFunction(solved[u]) + (unmarked[u] + 1)
          BY <4>1, <5>1 DEF Marks
        <5>4. Marks(u)' = Marks(u) + 1
          BY <5>2, <5>3 DEF Marks
        <5> QED
          BY <4>1, <5>1, <5>4 DEF Marks
      <4>2. CASE solved' = [solved EXCEPT ![u][P(w)] = @ + 2] /\ UNCHANGED unmarked
        BY <1>2, <4>2, MarksAdded
      <4> QED
        BY <3>1, <3>2, <4>1, <4>2
    <3>5. Marks(u) \in Nat
      BY RoomTypes
    <3>6. Marks(U(w))' = Marks(u)'
      BY <3>2, <3>3 DEF Marks
    <3>7. Marks(U(w))' > Marks(U(w)) /\ Marks(U(w))' \in Int
      BY <3>2, <3>4, <3>5, <3>6
    <3> QED
      BY <2>3, <3>1, <3>2, <3>4, <3>7, MarksInRoom
  <2>4. CASE pc[w] = "penalty"
    <3> DEFINE l == [local[w] EXCEPT !.penalty = cur[w].result.at + 0 * WrongPenalty]
    <3>1. GoOn(w, "read", l) /\ UNCHANGED <<solved, unmarked, rank>>
      BY <1>7, <2>4 DEF ACMFails, WithPenalty, redis
    <3>2. l.solved = local[w].solved
      BY <1>2 DEF Locals
    <3> HIDE DEF l
    <3> QED
      BY <1>1, <2>4, <3>1, <3>2, GoesOnInRoom
  <2>5. CASE pc[w] = "read"
    <3>1. GoOn(w, "add", local[w]) /\ UNCHANGED <<solved, unmarked, rank>>
      BY <1>7, <2>5 DEF ACMFails, redis
    <3> QED
      BY <1>1, <2>5, <3>1, GoesOnInRoom
  <2>6. CASE pc[w] = "add"
    <3>1. Return(w) /\ UNCHANGED <<solved, unmarked, rank>>
      BY <1>7, <2>6 DEF ACMFails, redis
    <3> QED
      BY <1>5, <3>1
  <2> QED
    BY <1>7, <2>1, <2>2, <2>3, <2>4, <2>5, <2>6 DEF ACMFails
<1> QED
  BY <1>4, <1>6, <1>7 DEF CallFails

LEMMA BackedStep == TypeInv /\ TypeInv' /\ BackedInv /\ [Next]_vars => BackedInv'
<1> SUFFICES ASSUME TypeInv, TypeInv', BackedInv, [Next]_vars, rule' = "ACM"
             PROVE  BackedInv'
  BY DEF BackedInv
<1>r. rule = "ACM"
  BY DEF Next, Create, Rejudge, WriteUnranked, Judge, Call, UpdateACM, CountWrong, CheckSolved,
         MarkSolved, ReadWrong, ReadRank, AddRank, UpdateIOI, ReadLatest, CompareBest, SetScore,
         SetTime, SumProblem, WriteTotal, CallFails, Crash, Fine, Outside, vars
<1>i. \A w \in Worker : InRoom(w)
  BY <1>r DEF BackedInv
<1>n. \A u \in User : /\ Room(u) \in Int /\ Room(u) >= 0
                      /\ rank[u] # Absent => rank[u] \in Int /\ SolvedIn(rank[u]) <= Room(u)
  BY <1>r, RoomTypes, TypeFacts DEF BackedInv
<1>1. ASSUME UNCHANGED <<pc, cur, local, solved, unmarked, rank, rule>> PROVE BackedInv'
  <2>1. \A u \in User : Room(u)' = Room(u)
    BY <1>1 DEF Room, Marks, Marked, U
  <2>2. \A w \in Worker : InRoom(w)'
    <3> SUFFICES ASSUME NEW w \in Worker PROVE InRoom(w)'
      OBVIOUS
    <3>1. InRoom(w) /\ U(w)' = U(w) /\ (pc[w] # "idle" => U(w) \in User)
      BY <1>i, <1>1, CallTypes DEF U
    <3>2. pc[w] # "idle" => Room(U(w))' = Room(U(w))
      BY <2>1, <3>1
    <3> QED
      BY <1>1, <3>1, <3>2 DEF InRoom
  <2> QED
    BY <1>n, <1>1, <2>1, <2>2 DEF BackedInv
<1>2. CASE Create \/ UNCHANGED vars
  BY <1>1, <1>2 DEF Create, vars, redis, history
<1>3. ASSUME NEW s \in Sub, Rejudge(s) PROVE BackedInv'
  BY <1>1, <1>3 DEF Rejudge, redis
<1>4. ASSUME NEW s \in Sub, NEW r \in Result, WriteUnranked(s, r) PROVE BackedInv'
  BY <1>1, <1>4 DEF WriteUnranked, redis
<1>5. ASSUME NEW w \in Worker, NEW s \in Sub, NEW r \in Result, Judge(w, s, r)
      PROVE  BackedInv'
  <2>1. /\ pc[w] = "idle" /\ pc' = [pc EXCEPT ![w] = "judged"]
        /\ cur' = [cur EXCEPT ![w] = [sub |-> s, result |-> r]]
        /\ UNCHANGED <<solved, unmarked, rank, local>>
    BY <1>5 DEF Judge, GoTo, redis
  <2>2. /\ pc'[w] = "judged"
        /\ \A v \in Worker \ {w} : pc'[v] = pc[v] /\ cur'[v] = cur[v]
    BY <2>1 DEF TypeInv, TypeOK
  <2>3. \A u \in User : Marked(u)' = Marked(u)
    BY <2>1, <2>2 DEF Marked, U
  <2>4. \A u \in User : Room(u)' = Room(u)
    BY <2>1, <2>3 DEF Room, Marks
  <2>5. U(w)' \in User
    <3>1. cur'[w].sub = s
      BY <2>1 DEF TypeInv, TypeOK
    <3> QED
      BY <3>1, ContestRankAssumption DEF ContestRankAssumption, U
  <2>6. local'[w].solved = 0
    BY <1>i, <2>1 DEF InRoom
  <2>7. InRoom(w)'
    <3>1. Room(U(w)') >= 0 /\ Room(U(w)') \in Int
      BY <1>n, <2>5
    <3>2. Room(U(w))' = Room(U(w)')
      <4>1. PICK u \in User : u = U(w)'
        BY <2>5
      <4>2. Room(u)' = Room(u)
        BY <2>4
      <4>3. Marked(U(w))' = Marked(u)'
        BY <4>1 DEF Marked
      <4> QED
        BY <2>1, <4>1, <4>2, <4>3 DEF Room, Marks
    <3> QED
      BY <2>2, <2>6, <3>1, <3>2 DEF InRoom
  <2>8. \A u \in User : Room(u)' >= Room(u)
    BY <1>n, <2>4
  <2> QED
    BY <1>r, <2>1, <2>2, <2>7, <2>8, OthersInRoom
<1>6. ASSUME NEW w \in Worker, Call(w) PROVE BackedInv'
  <2>1. PICK st \in {"check", "wrong"} : GoTo(w, st)
    BY <1>6, <1>r DEF Call
  <2>2. /\ pc[w] = "judged" /\ UNCHANGED <<solved, unmarked, rank>>
        /\ GoOn(w, st, local[w])
    BY <1>6, <2>1 DEF Call, GoOn, Let, redis, history, TypeInv, TypeOK
  <2> QED
    BY <1>r, <2>2, GoesOnInRoom
<1>7. ASSUME NEW w \in Worker, UpdateIOI(w) PROVE FALSE
  BY <1>7, <1>i DEF InRoom, UpdateIOI, ReadLatest, CompareBest, SetScore, SetTime, SumProblem,
                    WriteTotal
<1>8. ASSUME NEW w \in Worker, Crash(w) PROVE BackedInv'
  BY <1>8, <1>r, EndsInRoom DEF Crash, redis
<1> QED
  BY <1>r, <1>2, <1>3, <1>4, <1>5, <1>6, <1>7, <1>8, ACMInRoom, FailsInRoom DEF Next

LEMMA BackedInvariant == Spec => []BackedInv
<1> QED
  BY InitBacked, BackedStep, TypesInvariant, PTL DEF Spec

\* Whatever overlaps, crashes or fails, no entry has more solves than marks that were made
\* or failed.
THEOREM SolvesBacked == Spec => []SolvesAreBacked
<1>1. TypeInv /\ BackedInv => SolvesAreBacked
  <2> SUFFICES ASSUME TypeInv, BackedInv, rule = "ACM", NEW u \in User, rank[u] # Absent
               PROVE  SolvedIn(rank[u]) <= SumFunction(solved[u]) + unmarked[u]
    BY DEF SolvesAreBacked
  <2>1. SolvedIn(rank[u]) <= Room(u) /\ SolvedIn(rank[u]) \in Int
    BY TypeFacts, DecodedTypes DEF BackedInv
  <2> QED
    BY <2>1, RoomTypes DEF Room, Marks
<1> QED
  BY <1>1, TypesInvariant, BackedInvariant, PTL
-----------------------------------------------------------------------------
(***************************************************************************)
(* The log of a user, when one more call is appended to it.                *)
(***************************************************************************)

Results == [accepted : BOOLEAN, passed : Nat, at : Nat, used : Nat]

LEMMA LogTypes ==
  ASSUME NEW l \in Seq(Ranked), NEW p \in Problem
  PROVE  /\ Len(l) \in Nat /\ DOMAIN l = 1 .. Len(l)
         /\ Calls(l, p) \in SUBSET (1 .. Len(l)) /\ Accepted(l, p) \in SUBSET Calls(l, p)
         /\ IsFiniteSet(Calls(l, p)) /\ Cardinality(Calls(l, p)) \in Nat
         /\ \A i \in 1 .. Len(l) : l[i].problem \in Problem /\ l[i].result \in Results
<1>1. Len(l) \in Nat /\ DOMAIN l = 1 .. Len(l) /\ \A i \in 1 .. Len(l) : l[i] \in Ranked
  OBVIOUS
<1>2. Calls(l, p) \in SUBSET (1 .. Len(l)) /\ Accepted(l, p) \in SUBSET Calls(l, p)
  BY <1>1 DEF Calls, Accepted
<1>3. IsFiniteSet(1 .. Len(l))
  BY <1>1, FS_Interval
<1>4. IsFiniteSet(Calls(l, p)) /\ Cardinality(Calls(l, p)) \in Nat
  BY <1>2, <1>3, FS_Subset, FS_CardinalityType
<1> QED
  BY <1>1, <1>2, <1>4, ContestRankAssumption DEF ContestRankAssumption, Ranked, Results

\* The calls for a problem in the longer log.
LEMMA CallsGrow ==
  ASSUME NEW l \in Seq(Ranked), NEW e \in Ranked, NEW p \in Problem
  PROVE  LET m == Append(l, e)
             n == Len(l) + 1
         IN /\ n \notin 1 .. Len(l) /\ \A i \in 1 .. Len(l) : i < n /\ m[i] = l[i]
            /\ m[n] = e /\ m \in Seq(Ranked)
            /\ Calls(m, p) = IF e.problem = p THEN Calls(l, p) \cup {n} ELSE Calls(l, p)
            /\ Accepted(m, p) = IF e.problem = p /\ e.result.accepted
                                THEN Accepted(l, p) \cup {n} ELSE Accepted(l, p)
            /\ Cardinality(Calls(m, p)) =
                 IF e.problem = p THEN Cardinality(Calls(l, p)) + 1 ELSE Cardinality(Calls(l, p))
<1> DEFINE m == Append(l, e)
           n == Len(l) + 1
<1>1. Len(l) \in Nat /\ DOMAIN l = 1 .. Len(l)
  OBVIOUS
<1>2. /\ n \notin 1 .. Len(l) /\ DOMAIN m = (1 .. Len(l)) \cup {n} /\ m[n] = e
      /\ \A i \in 1 .. Len(l) : i < n /\ m[i] = l[i]
      /\ m \in Seq(Ranked)
  OBVIOUS
<1> HIDE DEF m, n
<1>3. Calls(m, p) = IF e.problem = p THEN Calls(l, p) \cup {n} ELSE Calls(l, p)
  BY <1>1, <1>2 DEF Calls
<1>4. \A i \in Calls(l, p) : m[i] = l[i]
  BY <1>1, <1>2 DEF Calls
<1>5. Accepted(m, p) = IF e.problem = p /\ e.result.accepted
                       THEN Accepted(l, p) \cup {n} ELSE Accepted(l, p)
  BY <1>2, <1>3, <1>4 DEF Accepted
<1>6. n \notin Calls(l, p) /\ IsFiniteSet(Calls(l, p))
  BY <1>2, LogTypes
<1>7. Cardinality(Calls(l, p) \cup {n}) = Cardinality(Calls(l, p)) + 1
  BY <1>6, FS_AddElement
<1> QED
  BY <1>2, <1>3, <1>5, <1>7 DEF m, n

\* The penalty of a problem that is solved is settled.
LEMMA PenaltyKept ==
  ASSUME NEW l \in Seq(Ranked), NEW e \in Ranked, NEW p \in Solved(l)
  PROVE  /\ ICPCPenalty(Append(l, e), p) = ICPCPenalty(l, p)
         /\ ICPCPenalty(l, p) \in Nat
<1> DEFINE m == Append(l, e)
           n == Len(l) + 1
           i == Min(Accepted(l, p))
<1>0. p \in Problem /\ Accepted(l, p) # {}
  BY DEF Solved
<1>1. /\ Accepted(l, p) \in SUBSET Nat /\ Accepted(l, p) \in SUBSET (1 .. Len(l))
      /\ Calls(l, p) \in SUBSET (1 .. Len(l)) /\ Len(l) \in Nat
      /\ \A k \in 1 .. Len(l) : l[k].result.at \in Nat
      /\ IsFiniteSet(Calls(l, p))
  BY <1>0, LogTypes DEF Results
<1>2. i \in Accepted(l, p) /\ \A k \in Accepted(l, p) : i <= k
  BY <1>0, <1>1, MinIsSmallest
<1>3. /\ \A k \in 1 .. Len(l) : k < n /\ m[k] = l[k]
      /\ Calls(m, p) \in SUBSET (Calls(l, p) \cup {n}) /\ Calls(l, p) \in SUBSET Calls(m, p)
      /\ Accepted(m, p) \in SUBSET (Accepted(l, p) \cup {n})
      /\ Accepted(l, p) \in SUBSET Accepted(m, p)
  BY <1>0, CallsGrow
<1> HIDE DEF m
<1>4. Min(Accepted(m, p)) = i
  <2>1. Accepted(m, p) \in SUBSET Nat /\ Accepted(m, p) # {}
    BY <1>1, <1>2, <1>3
  <2>2. Min(Accepted(m, p)) \in Accepted(m, p) /\ \A k \in Accepted(m, p) : Min(Accepted(m, p)) <= k
    BY <2>1, MinIsSmallest
  <2> HIDE DEF i
  <2>3. i \in Nat /\ i < n /\ Min(Accepted(m, p)) <= i /\ Min(Accepted(m, p)) \in Nat
    BY <1>1, <1>2, <1>3, <2>1, <2>2
  <2>4. Min(Accepted(m, p)) # n
    BY <1>1, <2>3
  <2> QED
    BY <1>2, <1>3, <2>2, <2>3, <2>4
<1> HIDE DEF i
<1>5. {k \in Calls(m, p) : k < i} = {k \in Calls(l, p) : k < i}
  BY <1>1, <1>2, <1>3
<1>6. m[i] = l[i] /\ l[i].result.at \in Nat
  BY <1>1, <1>2, <1>3
<1>7. Cardinality({k \in Calls(l, p) : k < i}) \in Nat
  BY <1>1, FS_Subset, FS_CardinalityType
<1>8. ICPCPenalty(l, p) = l[i].result.at + WrongPenalty * Cardinality({k \in Calls(l, p) : k < i})
  BY DEF ICPCPenalty, i
<1>9. ICPCPenalty(m, p) = ICPCPenalty(l, p)
  BY <1>4, <1>5, <1>6, <1>8 DEF ICPCPenalty
<1> QED
  BY <1>6, <1>7, <1>8, <1>9 DEF WrongPenalty, m

\* The penalty of a problem when it is solved.
LEMMA PenaltyEarned ==
  ASSUME NEW l \in Seq(Ranked), NEW e \in Ranked, NEW p \in Problem,
         e.problem = p, e.result.accepted, Accepted(l, p) = {}
  PROVE  ICPCPenalty(Append(l, e), p) = e.result.at + WrongPenalty * Cardinality(Calls(l, p))
<1> DEFINE m == Append(l, e)
           n == Len(l) + 1
<1>1. Calls(l, p) \in SUBSET (1 .. Len(l)) /\ Len(l) \in Nat
  BY LogTypes
<1>2. /\ \A k \in 1 .. Len(l) : k < n
      /\ m[n] = e /\ Calls(m, p) = Calls(l, p) \cup {n} /\ Accepted(m, p) = {n}
  BY CallsGrow
<1> HIDE DEF m
<1>3. Min(Accepted(m, p)) = n
  <2>1. {n} \in SUBSET Nat /\ {n} # {}
    BY <1>1
  <2>2. Min({n}) \in {n}
    BY <2>1, MinIsSmallest
  <2> QED
    BY <1>2, <2>2
<1>4. {k \in Calls(m, p) : k < n} = Calls(l, p)
  BY <1>1, <1>2
<1>5. ICPCPenalty(m, p) = m[n].result.at + WrongPenalty * Cardinality(Calls(l, p))
  BY <1>3, <1>4 DEF ICPCPenalty
<1> QED
  BY <1>2, <1>5 DEF m

\* The total is a sum over the problems solved, of which there are finitely many.
LEMMA TotalTypes ==
  ASSUME NEW l \in Seq(Ranked)
  PROVE  /\ Solved(l) \subseteq Problem /\ IsFiniteSet(Solved(l))
         /\ Cardinality(Solved(l)) \in Nat
         /\ TotalPenalty(l) =
              SumFunctionOnSet([p \in Solved(l) |-> ICPCPenalty(l, p)], Solved(l))
         /\ TotalPenalty(l) \in Nat
<1>1. Solved(l) \subseteq Problem /\ IsFiniteSet(Solved(l)) /\ Cardinality(Solved(l)) \in Nat
  BY ContestRankAssumption, FS_Subset, FS_CardinalityType DEF ContestRankAssumption, Solved
<1> DEFINE f == [p \in Solved(l) |-> ICPCPenalty(l, p)]
<1>2. TotalPenalty(l) = SumFunctionOnSet(f, Solved(l))
  BY DEF TotalPenalty, SumFunction
<1>3. \A p \in Solved(l) : f[p] \in Nat
  <2> SUFFICES ASSUME NEW p \in Solved(l) PROVE f[p] \in Nat
    OBVIOUS
  <2>1. PICK e \in Ranked : TRUE
    <3>1. p \in Problem /\ Accepted(l, p) # {}
      BY DEF Solved
    <3>2. PICK i \in Accepted(l, p) : TRUE
      BY <3>1
    <3>3. i \in DOMAIN l
      BY <3>2 DEF Accepted, Calls
    <3> QED
      BY <3>3
  <2>2. ICPCPenalty(l, p) \in Nat
    BY <2>1, PenaltyKept
  <2> QED
    BY <2>2
<1> HIDE DEF f
<1>4. SumFunctionOnSet(f, Solved(l)) \in Nat
  BY <1>1, <1>3, SumNat
<1> QED
  BY <1>1, <1>2, <1>4 DEF f

\* A call that solves nothing new leaves the total as it is.
LEMMA TotalKept ==
  ASSUME NEW l \in Seq(Ranked), NEW e \in Ranked,
         e.result.accepted => Accepted(l, e.problem) # {}
  PROVE  Solved(Append(l, e)) = Solved(l) /\ TotalPenalty(Append(l, e)) = TotalPenalty(l)
<1> DEFINE m == Append(l, e)
<1>1. \A p \in Problem : Accepted(m, p) # {} <=> Accepted(l, p) # {}
  <2> SUFFICES ASSUME NEW p \in Problem PROVE Accepted(m, p) # {} <=> Accepted(l, p) # {}
    OBVIOUS
  <2>1. Accepted(m, p) = IF e.problem = p /\ e.result.accepted
                         THEN Accepted(l, p) \cup {Len(l) + 1} ELSE Accepted(l, p)
    BY CallsGrow
  <2> QED
    BY <2>1
<1>2. Solved(m) = Solved(l)
  BY <1>1 DEF Solved
<1>3. \A p \in Solved(l) : ICPCPenalty(m, p) = ICPCPenalty(l, p)
  BY PenaltyKept
<1> HIDE DEF m
<1>4. [p \in Solved(m) |-> ICPCPenalty(m, p)] = [p \in Solved(l) |-> ICPCPenalty(l, p)]
  BY <1>2, <1>3
<1>5. TotalPenalty(m) = TotalPenalty(l)
  BY <1>4 DEF TotalPenalty
<1> QED
  BY <1>2, <1>5 DEF m

\* A call that solves a problem adds its penalty.
LEMMA TotalGrows ==
  ASSUME NEW l \in Seq(Ranked), NEW e \in Ranked,
         e.result.accepted, Accepted(l, e.problem) = {}
  PROVE  /\ Solved(Append(l, e)) = Solved(l) \cup {e.problem}
         /\ Cardinality(Solved(Append(l, e))) = Cardinality(Solved(l)) + 1
         /\ TotalPenalty(Append(l, e)) =
              TotalPenalty(l) + e.result.at + WrongPenalty * Cardinality(Calls(l, e.problem))
<1> DEFINE m == Append(l, e)
           q == e.problem
<1>1. q \in Problem /\ e.result.at \in Nat
  BY ContestRankAssumption DEF ContestRankAssumption, Ranked
<1>2. \A p \in Problem : Accepted(m, p) # {} <=> Accepted(l, p) # {} \/ p = q
  <2> SUFFICES ASSUME NEW p \in Problem
               PROVE Accepted(m, p) # {} <=> Accepted(l, p) # {} \/ p = q
    OBVIOUS
  <2>1. Accepted(m, p) = IF e.problem = p /\ e.result.accepted
                         THEN Accepted(l, p) \cup {Len(l) + 1} ELSE Accepted(l, p)
    BY CallsGrow
  <2> QED
    BY <2>1
<1>3. Solved(m) = Solved(l) \cup {q} /\ q \notin Solved(l)
  BY <1>1, <1>2 DEF Solved
<1>4. ICPCPenalty(m, q) = e.result.at + WrongPenalty * Cardinality(Calls(l, q))
  BY <1>1, PenaltyEarned
<1>5. \A p \in Solved(l) : ICPCPenalty(m, p) = ICPCPenalty(l, p) /\ ICPCPenalty(l, p) \in Nat
  BY PenaltyKept
<1>6. m \in Seq(Ranked)
  OBVIOUS
<1>7. Cardinality(Calls(l, q)) \in Nat
  BY <1>1, LogTypes
<1>8. /\ IsFiniteSet(Solved(l)) /\ Cardinality(Solved(l)) \in Nat
      /\ TotalPenalty(l) =
           SumFunctionOnSet([p \in Solved(l) |-> ICPCPenalty(l, p)], Solved(l))
      /\ TotalPenalty(m) =
           SumFunctionOnSet([p \in Solved(m) |-> ICPCPenalty(m, p)], Solved(m))
  BY <1>6, TotalTypes
<1> HIDE DEF m, q
<1>9. Cardinality(Solved(m)) = Cardinality(Solved(l)) + 1
  BY <1>3, <1>8, FS_AddElement
<1>10. TotalPenalty(m) = TotalPenalty(l) + ICPCPenalty(m, q)
  <2>1. PICK f, h : /\ f = [p \in Solved(l) |-> ICPCPenalty(l, p)]
                    /\ h = [p \in Solved(m) |-> ICPCPenalty(m, p)]
    OBVIOUS
  <2>2. \A x \in Solved(l) : f[x] \in Int /\ h[x] = f[x]
    BY <1>3, <1>5, <2>1
  <2>3. h[q] = ICPCPenalty(m, q) /\ h[q] \in Int
    BY <1>1, <1>3, <1>4, <1>7, <2>1 DEF WrongPenalty
  <2>4. SumFunctionOnSet(h, Solved(l) \cup {q}) = SumFunctionOnSet(f, Solved(l)) + h[q]
    BY <1>3, <1>8, <2>2, <2>3, SumGrows
  <2> QED
    BY <1>3, <1>8, <2>1, <2>3, <2>4
<1>11. TotalPenalty(l) \in Nat
  BY TotalTypes
<1>12. TotalPenalty(m) = TotalPenalty(l) + e.result.at + WrongPenalty * Cardinality(Calls(l, q))
  BY <1>1, <1>4, <1>7, <1>10, <1>11 DEF WrongPenalty
<1> QED
  BY <1>3, <1>9, <1>12 DEF m, q

\* The values of a function at finitely many arguments are finitely many.
LEMMA ImageFinite ==
  ASSUME NEW S, IsFiniteSet(S), NEW l
  PROVE  IsFiniteSet({l[i].result.passed : i \in S})
<1> DEFINE T == {l[i].result.passed : i \in S}
           f == [i \in S |-> l[i].result.passed]
<1>1. f \in Surjection(S, T)
  BY DEF Surjection
<1> HIDE DEF f, T
<1>2. IsFiniteSet(T)
  BY <1>1, FS_Surjection
<1> QED
  BY <1>2 DEF T

\* The best result of a problem is the largest, or 0 when there is none.
LEMMA BestIsLargest ==
  ASSUME NEW l \in Seq(Ranked), NEW p \in Problem
  PROVE  /\ Best(l, p) \in Nat
         /\ \A i \in Calls(l, p) : l[i].result.passed \in Nat /\ l[i].result.passed <= Best(l, p)
         /\ Best(l, p) = 0 \/ \E i \in Calls(l, p) : l[i].result.passed = Best(l, p)
<1> DEFINE S == {l[i].result.passed : i \in Calls(l, p)}
<1>1. IsFiniteSet(Calls(l, p)) /\ \A i \in Calls(l, p) : l[i].result.passed \in Nat
  BY LogTypes DEF Results
<1>2. IsFiniteSet(S)
  BY <1>1, ImageFinite
<1>3. S \in SUBSET Nat
  BY <1>1
<1>4. \A i \in Calls(l, p) : l[i].result.passed \in S
  OBVIOUS
<1>5. \A x \in S : \E i \in Calls(l, p) : l[i].result.passed = x
  OBVIOUS
<1>6. Best(l, p) = Max({0} \cup S)
  BY DEF Best
<1> HIDE DEF S
<1>7. IsFiniteSet({0} \cup S)
  BY <1>2, FS_Singleton, FS_Union
<1>8. {0} \cup S \in SUBSET Int /\ {0} \cup S # {}
  BY <1>3
<1>9. Best(l, p) \in {0} \cup S /\ \A x \in {0} \cup S : Best(l, p) >= x
  BY <1>6, <1>7, <1>8, MaxIsLargest
<1>10. Best(l, p) \in Nat
  <2>1. {0} \cup S \in SUBSET Nat
    BY <1>3
  <2> QED
    BY <1>9, <2>1
<1>11. \A i \in Calls(l, p) : l[i].result.passed \in Nat /\ l[i].result.passed <= Best(l, p)
  <2> SUFFICES ASSUME NEW i \in Calls(l, p) PROVE l[i].result.passed <= Best(l, p)
    BY <1>1
  <2>1. l[i].result.passed \in Nat /\ Best(l, p) >= l[i].result.passed
    BY <1>1, <1>4, <1>9
  <2> QED
    BY <1>10, <2>1
<1>12. Best(l, p) = 0 \/ \E i \in Calls(l, p) : l[i].result.passed = Best(l, p)
  BY <1>5, <1>9
<1> QED
  BY <1>10, <1>11, <1>12

\* Nothing else is.
LEMMA BestIsOne ==
  ASSUME NEW l \in Seq(Ranked), NEW p \in Problem, NEW b \in Nat,
         \A i \in Calls(l, p) : l[i].result.passed <= b,
         b = 0 \/ \E i \in Calls(l, p) : l[i].result.passed = b
  PROVE  b = Best(l, p)
<1>1. /\ Best(l, p) \in Nat
      /\ \A i \in Calls(l, p) : l[i].result.passed \in Nat /\ l[i].result.passed <= Best(l, p)
      /\ Best(l, p) = 0 \/ \E i \in Calls(l, p) : l[i].result.passed = Best(l, p)
  BY BestIsLargest
<1>2. Best(l, p) <= b
  BY <1>1
<1>3. b <= Best(l, p)
  BY <1>1
<1> QED
  BY <1>1, <1>2, <1>3

LEMMA BestGrows ==
  ASSUME NEW l \in Seq(Ranked), NEW e \in Ranked, NEW p \in Problem
  PROVE  Best(Append(l, e), p) = IF e.problem = p /\ e.result.passed > Best(l, p)
                                 THEN e.result.passed ELSE Best(l, p)
<1> DEFINE m == Append(l, e)
           n == Len(l) + 1
           b == IF e.problem = p /\ e.result.passed > Best(l, p)
                THEN e.result.passed ELSE Best(l, p)
<1>1. /\ m \in Seq(Ranked) /\ m[n] = e /\ \A i \in 1 .. Len(l) : m[i] = l[i]
      /\ Calls(m, p) = IF e.problem = p THEN Calls(l, p) \cup {n} ELSE Calls(l, p)
  BY CallsGrow
<1>2. Calls(l, p) \in SUBSET (1 .. Len(l))
  BY LogTypes
<1>3. /\ Best(l, p) \in Nat
      /\ \A i \in Calls(l, p) : l[i].result.passed \in Nat /\ l[i].result.passed <= Best(l, p)
      /\ Best(l, p) = 0 \/ \E i \in Calls(l, p) : l[i].result.passed = Best(l, p)
  BY BestIsLargest
<1>4. e.result.passed \in Nat
  BY ContestRankAssumption DEF ContestRankAssumption, Ranked
<1> HIDE DEF m, n
<1>5. b \in Nat /\ b >= Best(l, p) /\ (e.problem = p => e.result.passed <= b)
  BY <1>3, <1>4
<1>6. \A i \in Calls(m, p) : m[i].result.passed <= b
  <2> SUFFICES ASSUME NEW i \in Calls(m, p) PROVE m[i].result.passed <= b
    OBVIOUS
  <2>1. CASE i \in Calls(l, p)
    <3>1. m[i] = l[i] /\ l[i].result.passed \in Nat /\ l[i].result.passed <= Best(l, p)
      BY <1>1, <1>2, <1>3, <2>1
    <3> HIDE DEF b
    <3> QED
      BY <1>3, <1>5, <3>1
  <2>2. CASE i \notin Calls(l, p)
    BY <1>1, <1>5, <2>2
  <2> QED
    BY <2>1, <2>2
<1>7. b = 0 \/ \E i \in Calls(m, p) : m[i].result.passed = b
  <2>1. CASE e.problem = p /\ e.result.passed > Best(l, p)
    BY <1>1, <2>1
  <2>2. CASE ~(e.problem = p /\ e.result.passed > Best(l, p))
    <3>1. b = Best(l, p)
      BY <2>2
    <3>2. \A i \in Calls(l, p) : i \in Calls(m, p) /\ m[i] = l[i]
      BY <1>1, <1>2
    <3> HIDE DEF b
    <3> QED
      BY <1>3, <3>1, <3>2
  <2> QED
    BY <2>1, <2>2
<1> HIDE DEF b
<1>8. b = Best(m, p)
  BY <1>1, <1>5, <1>6, <1>7, BestIsOne
<1> QED
  BY <1>8 DEF b, m

\* The calls with the best result.
Tops(l, p) == {i \in Calls(l, p) : l[i].result.passed = Best(l, p)}

LEMMA TopsTypes ==
  ASSUME NEW l \in Seq(Ranked), NEW p \in Problem
  PROVE  /\ Tops(l, p) \in SUBSET (1 .. Len(l)) /\ Tops(l, p) \in SUBSET Nat
         /\ IsFiniteSet(Tops(l, p)) /\ Len(l) \in Nat
         /\ Best(l, p) > 0 => Tops(l, p) # {}
         /\ BestTime(l, p) = IF Tops(l, p) = {} THEN 0
                             ELSE l[IF Best(l, p) > 0 THEN Min(Tops(l, p))
                                    ELSE Max(Tops(l, p))].result.used
<1>1. /\ Calls(l, p) \in SUBSET (1 .. Len(l)) /\ IsFiniteSet(Calls(l, p)) /\ Len(l) \in Nat
  BY LogTypes
<1>2. Tops(l, p) \in SUBSET Calls(l, p)
  BY DEF Tops
<1>3. IsFiniteSet(Tops(l, p))
  BY <1>1, <1>2, FS_Subset
<1>4. Best(l, p) > 0 => Tops(l, p) # {}
  BY BestIsLargest DEF Tops
<1>5. BestTime(l, p) = IF Tops(l, p) = {} THEN 0
                       ELSE l[IF Best(l, p) > 0 THEN Min(Tops(l, p))
                              ELSE Max(Tops(l, p))].result.used
  BY DEF BestTime, Tops
<1> QED
  BY <1>1, <1>2, <1>3, <1>4, <1>5

\* The time is that of a new best result; among results of nothing the last one counts.
LEMMA BestTimeGrows ==
  ASSUME NEW l \in Seq(Ranked), NEW e \in Ranked, NEW p \in Problem
  PROVE  BestTime(Append(l, e), p) =
           IF e.problem = p /\ (e.result.passed > Best(l, p) \/ Best(l, p) = 0)
           THEN e.result.used ELSE BestTime(l, p)
<1> DEFINE m == Append(l, e)
           n == Len(l) + 1
<1>1. /\ m \in Seq(Ranked) /\ m[n] = e /\ \A i \in 1 .. Len(l) : i < n /\ m[i] = l[i]
      /\ Calls(m, p) = IF e.problem = p THEN Calls(l, p) \cup {n} ELSE Calls(l, p)
  BY CallsGrow
<1>2. Calls(l, p) \in SUBSET (1 .. Len(l)) /\ Len(l) \in Nat
  BY LogTypes
<1>3. /\ Best(l, p) \in Nat
      /\ \A i \in Calls(l, p) : l[i].result.passed \in Nat /\ l[i].result.passed <= Best(l, p)
  BY BestIsLargest
<1>4. e.result.passed \in Nat
  BY ContestRankAssumption DEF ContestRankAssumption, Ranked
<1>5. Best(m, p) = IF e.problem = p /\ e.result.passed > Best(l, p)
                   THEN e.result.passed ELSE Best(l, p)
  BY BestGrows
<1>6. /\ Tops(m, p) \in SUBSET Nat /\ IsFiniteSet(Tops(m, p))
      /\ Best(m, p) > 0 => Tops(m, p) # {}
      /\ BestTime(m, p) = IF Tops(m, p) = {} THEN 0
                          ELSE m[IF Best(m, p) > 0 THEN Min(Tops(m, p))
                                 ELSE Max(Tops(m, p))].result.used
  BY <1>1, TopsTypes
<1>7. /\ Tops(l, p) \in SUBSET Nat /\ IsFiniteSet(Tops(l, p)) /\ Tops(l, p) \in SUBSET (1 .. Len(l))
      /\ Best(l, p) > 0 => Tops(l, p) # {}
      /\ BestTime(l, p) = IF Tops(l, p) = {} THEN 0
                          ELSE l[IF Best(l, p) > 0 THEN Min(Tops(l, p))
                                 ELSE Max(Tops(l, p))].result.used
  BY TopsTypes
<1>8. \A i \in Calls(l, p) : m[i] = l[i] /\ i < n
  BY <1>1, <1>2
<1>9. Tops(l, p) # {} => /\ Min(Tops(l, p)) \in Tops(l, p) /\ Max(Tops(l, p)) \in Tops(l, p)
                         /\ \A x \in Tops(l, p) : Min(Tops(l, p)) <= x
  BY <1>7, MinIsSmallest, MaxIsLargest
<1>10. Tops(m, p) # {} => /\ Min(Tops(m, p)) \in Tops(m, p) /\ Max(Tops(m, p)) \in Tops(m, p)
                          /\ \A x \in Tops(m, p) : Min(Tops(m, p)) <= x /\ Max(Tops(m, p)) >= x
  BY <1>6, MinIsSmallest, MaxIsLargest
<1> HIDE DEF m, n
<1>11. CASE e.problem # p
  <2>1. Calls(m, p) = Calls(l, p) /\ Best(m, p) = Best(l, p)
    BY <1>1, <1>5, <1>11
  <2>2. Tops(m, p) = Tops(l, p)
    BY <1>8, <2>1 DEF Tops
  <2>3. Tops(l, p) # {} => m[Min(Tops(l, p))] = l[Min(Tops(l, p))]
                           /\ m[Max(Tops(l, p))] = l[Max(Tops(l, p))]
    BY <1>1, <1>7, <1>9
  <2>4. BestTime(m, p) = BestTime(l, p)
    BY <1>6, <1>7, <2>1, <2>2, <2>3
  <2> QED
    BY <1>11, <2>4 DEF m
<1>12. CASE e.problem = p /\ e.result.passed > Best(l, p)
  <2>1. Best(m, p) = e.result.passed /\ Best(m, p) > 0
    BY <1>3, <1>4, <1>5, <1>12
  <2>2. \A i \in Calls(l, p) : m[i].result.passed # Best(m, p)
    BY <1>3, <1>4, <1>8, <1>12, <2>1
  <2>3. Tops(m, p) = {n}
    BY <1>1, <1>12, <2>1, <2>2 DEF Tops
  <2>4. BestTime(m, p) = e.result.used
    BY <1>1, <1>6, <1>10, <2>1, <2>3
  <2> QED
    BY <1>12, <2>4 DEF m
<1>13. CASE e.problem = p /\ ~(e.result.passed > Best(l, p)) /\ Best(l, p) = 0
  <2>1. Best(m, p) = 0 /\ e.result.passed = 0
    BY <1>3, <1>4, <1>5, <1>13
  <2>2. n \in Tops(m, p) /\ \A i \in Tops(m, p) : i <= n
    <3>1. n \in Calls(m, p) /\ m[n].result.passed = Best(m, p)
      BY <1>1, <1>13, <2>1
    <3>2. \A i \in Calls(m, p) : i <= n
      <4> SUFFICES ASSUME NEW i \in Calls(l, p) PROVE i <= n
        BY <1>1, <1>2, <1>13 DEF n
      <4> QED
        BY <1>2, <1>8 DEF n
    <3> QED
      BY <3>1, <3>2 DEF Tops
  <2>3. Max(Tops(m, p)) = n
    <3>1. Max(Tops(m, p)) >= n /\ Max(Tops(m, p)) <= n /\ Max(Tops(m, p)) \in Nat /\ n \in Nat
      BY <1>6, <1>10, <2>2
    <3> QED
      BY <3>1
  <2>4. BestTime(m, p) = e.result.used
    BY <1>1, <1>6, <2>1, <2>2, <2>3
  <2> QED
    BY <1>13, <2>4 DEF m
<1>14. CASE e.problem = p /\ ~(e.result.passed > Best(l, p)) /\ Best(l, p) # 0
  <2>1. Best(m, p) = Best(l, p) /\ Best(l, p) > 0
    BY <1>3, <1>5, <1>14
  <2>2. Tops(l, p) \in SUBSET Tops(m, p) /\ Tops(m, p) \in SUBSET (Tops(l, p) \cup {n})
    BY <1>1, <1>8, <2>1 DEF Tops
  <2>3. Tops(l, p) # {} /\ Tops(m, p) # {}
    BY <1>7, <2>1, <2>2
  <2>4. Min(Tops(m, p)) = Min(Tops(l, p))
    <3>1. PICK x, y : x = Min(Tops(l, p)) /\ y = Min(Tops(m, p))
      OBVIOUS
    <3>2. x \in Tops(l, p) /\ x \in Nat /\ x < n /\ y \in Tops(m, p) /\ y <= x /\ y \in Nat
      BY <1>1, <1>6, <1>7, <1>9, <1>10, <2>2, <2>3, <3>1
    <3>3. y \in Tops(l, p)
      BY <1>2, <2>2, <3>2 DEF n
    <3>4. x <= y
      BY <1>9, <3>1, <3>3
    <3> QED
      BY <3>1, <3>2, <3>4
  <2>5. m[Min(Tops(l, p))] = l[Min(Tops(l, p))]
    BY <1>1, <1>7, <1>9, <2>3
  <2>6. BestTime(m, p) = BestTime(l, p)
    BY <1>6, <1>7, <2>1, <2>3, <2>4, <2>5
  <2> QED
    BY <1>14, <2>1, <2>6 DEF m
<1> QED
  BY <1>11, <1>12, <1>13, <1>14

\* Nothing was called for.
LEMMA EmptyLog ==
  ASSUME NEW p \in Problem
  PROVE  /\ Calls(<<>>, p) = {} /\ Accepted(<<>>, p) = {} /\ Solved(<<>>) = {}
         /\ Best(<<>>, p) = 0 /\ BestTime(<<>>, p) = 0
<1>1. <<>> \in Seq(Ranked) /\ Len(<<>>) = 0
  OBVIOUS
<1>2. \A q \in Problem : Calls(<<>>, q) = {} /\ Accepted(<<>>, q) = {}
  BY DEF Calls, Accepted
<1>3. Solved(<<>>) = {}
  BY <1>2 DEF Solved
<1>4. Best(<<>>, p) = 0
  BY <1>1, <1>2, BestIsOne
<1>5. BestTime(<<>>, p) = 0
  BY <1>2 DEF BestTime
<1> QED
  BY <1>2, <1>3, <1>4, <1>5

-----------------------------------------------------------------------------
(***************************************************************************)
(* The scoreboard of users nothing disturbed.  Each has one goroutine at   *)
(* most in a call, so that Redis holds what the rules give for the log,    *)
(* but for what that one call has written already.                         *)
(***************************************************************************)

\* The goroutines in a call for user u.
Working(u) == {w \in Worker : pc[w] # "idle" /\ U(w) = u}

\* The problems of those that are at one of some places of it.
Touched(u, places) == {P(w) : w \in {v \in Working(u) : pc[v] \in places}}

HasMarked == {"penalty", "read", "add"}
HasScored == {"time", "sum"}
HasTimed  == {"sum"}

\* A contest goes by one set of rules, and a call begins with new local variables.
ByRule(w) ==
  /\ pc[w] \in IF rule = "ACM"
               THEN {"idle", "judged", "wrong", "check", "mark"} \cup HasMarked
               ELSE {"idle", "judged", "latest", "compare", "score"} \cup HasScored
  /\ pc[w] \in {"idle", "judged", "wrong", "check", "mark", "penalty", "latest"} =>
       local[w] = NoLocal
  /\ pc[w] = "read" => local[w].solved = 0 /\ local[w].total = 0

\* Nobody else is in a call for the user, whose newest submission is ranked.
Lone(w) ==
  /\ Working(U(w)) = {w}
  /\ rule # "ACM" => row[cur[w].sub] = cur[w].result
  /\ \A x \in Rivals(cur[w].sub) : x <= cur[w].sub

ACMCall(w) ==
  LET l == log[U(w)]
  IN /\ pc[w] \in {"check", "mark"} \cup HasMarked => cur[w].result.accepted
     /\ pc[w] = "wrong" => ~cur[w].result.accepted
     /\ pc[w] \in {"mark"} \cup HasMarked => Accepted(l, P(w)) = {}
     /\ pc[w] \in {"read", "add"} =>
          local[w].penalty = cur[w].result.at + WrongPenalty * Cardinality(Calls(l, P(w)))
     /\ pc[w] = "add" /\ TotalPenalty(l) < ACMWeight =>
          local[w].solved = Cardinality(Solved(l)) /\ local[w].total = TotalPenalty(l)

ACMEntry(l) ==
  IF Solved(l) = {} THEN Absent ELSE EncodeACM(Cardinality(Solved(l)), TotalPenalty(l))

ACMBoard(u) ==
  /\ \A p \in Problem :
       /\ Accepted(log[u], p) = {} => wrong[u][p] = Cardinality(Calls(log[u], p))
       /\ solved[u][p] > 0 <=> Accepted(log[u], p) # {} \/ p \in Touched(u, HasMarked)
  /\ TotalPenalty(log[u]) < ACMWeight => rank[u] = ACMEntry(log[u])

\* The result of w is better than the best one, or the best one is nothing.
Improves(w) ==
  LET best == Best(log[U(w)], P(w))
  IN cur[w].result.passed > best \/ best = 0

IOICall(w) ==
  /\ pc[w] \in {"compare", "score", "time"} =>
       local[w].passed = cur[w].result.passed /\ local[w].used = cur[w].result.used
  /\ pc[w] \in {"score"} \cup HasScored => Improves(w)
  /\ pc[w] \in HasScored => score[U(w)][P(w)] = cur[w].result.passed
  /\ pc[w] \in HasTimed => time[U(w)][P(w)] = cur[w].result.used
  /\ pc[w] = "sum" =>
       /\ local[w].passed = SumFunctionOnSet(score[U(w)], Problem \ local[w].todo)
       /\ local[w].used = SumFunctionOnSet(time[U(w)], Problem \ local[w].todo)

\* The keys of user u hold the best results, but for those that a call has written.
IOIBoard(u) ==
  /\ \A p \in Problem :
       /\ p \notin Touched(u, HasScored) => score[u][p] = Best(log[u], p)
       /\ p \notin Touched(u, HasTimed) => time[u][p] = BestTime(log[u], p)
  /\ ShowsIOI(u)

CallFits(w) == IF rule = "ACM" THEN ACMCall(w) ELSE IOICall(w)
BoardFits(u) == IF rule = "ACM" THEN ACMBoard(u) ELSE IOIBoard(u)

BoardInv ==
  /\ \A w \in Worker : ByRule(w)
  /\ \A w \in Worker : pc[w] # "idle" /\ U(w) \notin disturbed => Lone(w) /\ CallFits(w)
  /\ \A u \in User \ disturbed : BoardFits(u)

\* What is touched depends on where the goroutines are and what they work on.
LEMMA TouchedSame ==
  ASSUME NEW u \in User, NEW places, Working(u)' = Working(u),
         \A v \in Working(u) : P(v)' = P(v) /\ (pc'[v] \in places <=> pc[v] \in places)
  PROVE  Touched(u, places)' = Touched(u, places)
  BY DEF Touched

\* Of a user with one goroutine in a call, its problem at most is touched.
LEMMA AloneTouches ==
  ASSUME TypeInv, BoardInv, NEW w \in Worker, pc[w] # "idle",
         \A v \in Worker \ {w} : pc'[v] = pc[v] /\ cur'[v] = cur[v],
         pc'[w] = "idle" \/ cur'[w] = cur[w],
         NEW u \in User, u = U(w), u \notin disturbed
  PROVE  /\ Working(u) = {w} /\ Working(u)' = IF pc'[w] = "idle" THEN {} ELSE {w}
         /\ \A places : "idle" \notin places =>
              /\ Touched(u, places) = IF pc[w] \in places THEN {P(w)} ELSE {}
              /\ Touched(u, places)' = IF pc'[w] \in places THEN {P(w)} ELSE {}
<1>1. Working(u) = {w}
  BY DEF BoardInv, Lone
<1>2. ASSUME NEW v \in Worker PROVE v \in Working(u)' <=> v = w /\ pc'[w] # "idle"
  <2>1. CASE v = w
    BY <2>1 DEF Working, U
  <2>2. CASE v # w
    <3>1. v \notin Working(u) /\ pc'[v] = pc[v] /\ U(v)' = U(v)
      BY <1>1, <2>2 DEF U
    <3> QED
      BY <2>2, <3>1 DEF Working
  <2> QED
    BY <2>1, <2>2
<1>3. Working(u)' \subseteq Worker
  BY DEF Working
<1>4. Working(u)' = IF pc'[w] = "idle" THEN {} ELSE {w}
  BY <1>2, <1>3
<1>5. ASSUME NEW places, "idle" \notin places
      PROVE  /\ Touched(u, places) = IF pc[w] \in places THEN {P(w)} ELSE {}
             /\ Touched(u, places)' = IF pc'[w] \in places THEN {P(w)} ELSE {}
  <2>1. Touched(u, places) = IF pc[w] \in places THEN {P(w)} ELSE {}
    BY <1>1 DEF Touched
  <2>2. CASE pc'[w] = "idle"
    <3>1. {v \in Working(u)' : pc'[v] \in places} = {} /\ pc'[w] \notin places
      BY <1>4, <1>5, <2>2
    <3>2. Touched(u, places)' = {}
      BY <3>1, Zenon DEF Touched
    <3> QED
      BY <2>1, <3>1, <3>2
  <2>3. CASE pc'[w] # "idle"
    <3>1. P(w)' = P(w) /\ Working(u)' = {w}
      BY <1>4, <2>3 DEF P
    <3>2. {v \in Working(u)' : pc'[v] \in places} = IF pc'[w] \in places THEN {w} ELSE {}
      BY <3>1
    <3>3. Touched(u, places)' = {P(v)' : v \in {x \in Working(u)' : pc'[x] \in places}}
      BY Zenon DEF Touched
    <3>4. pc'[w] \in places => Touched(u, places)' = {P(w)}
      BY <3>1, <3>2, <3>3
    <3>5. pc'[w] \notin places => Touched(u, places)' = {}
      BY <3>2, <3>3
    <3> QED
      BY <2>1, <3>4, <3>5
  <2> QED
    BY <2>1, <2>2, <2>3
<1> QED
  BY <1>1, <1>4, <1>5

\* Boards and calls of other users stay as they are.
LEMMA BoardSame ==
  ASSUME NEW u \in User, BoardFits(u), rule' = rule, Working(u)' = Working(u),
         \A v \in Working(u) : pc'[v] = pc[v] /\ cur'[v] = cur[v],
         log'[u] = log[u], wrong'[u] = wrong[u], solved'[u] = solved[u],
         score'[u] = score[u], time'[u] = time[u], rank'[u] = rank[u]
  PROVE  BoardFits(u)'
<1>1. \A v \in Working(u) : P(v)' = P(v)
  BY DEF P
<1>2. \A places : Touched(u, places)' = Touched(u, places)
  BY <1>1, TouchedSame
<1>3. CASE rule = "ACM"
  <2>1. ACMBoard(u)'
    BY <1>2, <1>3 DEF BoardFits, ACMBoard
  <2> QED
    BY <1>3, <2>1 DEF BoardFits
<1>4. CASE rule # "ACM"
  <2>1. ShowsIOI(u)'
    BY <1>4 DEF BoardFits, IOIBoard, ShowsIOI
  <2>2. IOIBoard(u)'
    BY <1>2, <1>4, <2>1 DEF BoardFits, IOIBoard
  <2> QED
    BY <1>4, <2>2 DEF BoardFits
<1> QED
  BY <1>3, <1>4

LEMMA CallSame ==
  ASSUME TypeInv, NEW w \in Worker, CallFits(w), rule' = rule,
         pc'[w] = pc[w], cur'[w] = cur[w], local'[w] = local[w],
         NEW u \in User, u = U(w), log'[u] = log[u], score'[u] = score[u], time'[u] = time[u]
  PROVE  CallFits(w)'
<1>1. U(w)' = u /\ P(w)' = P(w)
  BY DEF U, P
<1>2. CASE rule = "ACM"
  <2>1. ACMCall(w)'
    BY <1>1, <1>2 DEF CallFits, ACMCall
  <2> QED
    BY <1>2, <2>1 DEF CallFits
<1>3. CASE rule # "ACM"
  <2>1. Improves(w)' <=> Improves(w)
    BY <1>1 DEF Improves
  <2>2. IOICall(w)'
    BY <1>1, <1>3, <2>1 DEF CallFits, IOICall
  <2> QED
    BY <1>3, <2>2 DEF CallFits
<1> QED
  BY <1>2, <1>3

\* A step of w within its call, or out of it, concerns its user alone.
LEMMA OthersOnBoard ==
  ASSUME TypeInv, BoardInv, NEW w \in Worker, pc[w] # "idle",
         UNCHANGED <<rule, created, row>>, disturbed \subseteq disturbed',
         \A v \in Worker \ {w} : pc'[v] = pc[v] /\ cur'[v] = cur[v] /\ local'[v] = local[v],
         pc'[w] = "idle" \/ cur'[w] = cur[w],
         NEW u \in User, u = U(w),
         \A x \in User \ {u} :
           /\ log'[x] = log[x] /\ wrong'[x] = wrong[x] /\ solved'[x] = solved[x]
           /\ score'[x] = score[x] /\ time'[x] = time[x] /\ rank'[x] = rank[x],
         ByRule(w)',
         u \notin disturbed' => (pc'[w] # "idle" => CallFits(w)') /\ BoardFits(u)'
  PROVE  BoardInv'
<1>1. ASSUME NEW v \in Worker PROVE ByRule(v)'
  BY DEF BoardInv, ByRule
<1>2. ASSUME NEW x \in User, x \notin disturbed' PROVE BoardFits(x)'
  <2>1. CASE x # u
    <3>1. w \notin Working(x)
      BY <2>1 DEF Working
    <3>2. \A v \in Worker : v \in Working(x)' <=> v \in Working(x)
      <4> SUFFICES ASSUME NEW v \in Worker PROVE v \in Working(x)' <=> v \in Working(x)
        OBVIOUS
      <4>1. CASE v = w
        BY <2>1, <3>1, <4>1 DEF Working, U
      <4>2. CASE v # w
        BY <4>2 DEF Working, U
      <4> QED
        BY <4>1, <4>2
    <3>3. Working(x)' = Working(x)
      BY <3>2 DEF Working
    <3>4. \A v \in Working(x) : pc'[v] = pc[v] /\ cur'[v] = cur[v]
      BY <3>1 DEF Working
    <3>5. BoardFits(x)
      BY <1>2 DEF BoardInv
    <3> QED
      BY <2>1, <3>3, <3>4, <3>5, BoardSame
  <2>2. CASE x = u
    BY <1>2, <2>2
  <2> QED
    BY <2>1, <2>2
<1>3. ASSUME NEW v \in Worker, pc'[v] # "idle", U(v)' \notin disturbed'
      PROVE  Lone(v)' /\ CallFits(v)'
  <2>1. pc[v] # "idle" /\ cur'[v] = cur[v] /\ U(v)' = U(v) /\ U(v) \notin disturbed
    BY <1>3 DEF U
  <2>2. Lone(v) /\ CallFits(v) /\ U(v) \in User
    BY <2>1, CallTypes DEF BoardInv
  <2>3. \A x : Rivals(x)' = Rivals(x)
    BY DEF Rivals
  <2>4. CASE v = w
    <3>1. Working(u)' = {w}
      BY <1>3, <2>1, <2>4, AloneTouches
    <3>2. Lone(w)'
      BY <2>1, <2>2, <2>3, <2>4, <3>1 DEF Lone
    <3> QED
      BY <1>3, <2>1, <2>4, <3>2
  <2>5. CASE v # w
    <3>1. U(v) # u
      BY <2>2, <2>5 DEF Lone, Working
    <3>2. Working(U(v))' = Working(U(v))
      <4>1. \A x \in Worker : x \in Working(U(v))' <=> x \in Working(U(v))
        <5> SUFFICES ASSUME NEW x \in Worker PROVE x \in Working(U(v))' <=> x \in Working(U(v))
          OBVIOUS
        <5>1. CASE x = w
          BY <2>1, <3>1, <5>1 DEF Working, U
        <5>2. CASE x # w
          BY <2>1, <5>2 DEF Working, U
        <5> QED
          BY <5>1, <5>2
      <4> QED
        BY <4>1 DEF Working
    <3>3. Lone(v)'
      BY <2>1, <2>2, <2>3, <3>2 DEF Lone
    <3>4. CallFits(v)'
      <4>1. PICK x \in User : x = U(v)
        BY <2>2
      <4>2. pc'[v] = pc[v] /\ local'[v] = local[v] /\ cur'[v] = cur[v]
        BY <2>5
      <4>3. log'[x] = log[x] /\ score'[x] = score[x] /\ time'[x] = time[x]
        BY <3>1, <4>1
      <4> QED
        BY <2>2, <4>1, <4>2, <4>3, CallSame
    <3> QED
      BY <3>3, <3>4
  <2> QED
    BY <2>4, <2>5
<1> QED
  BY <1>1, <1>2, <1>3 DEF BoardInv

\* A goroutine that goes on without writing leaves the board as it is.
LEMMA MovesOnBoard ==
  ASSUME TypeInv, BoardInv, UNCHANGED <<rule, created, row, redis, cur, log, disturbed>>,
         NEW w \in Worker, pc[w] # "idle", NEW st, st # "idle", GoTo(w, st),
         \A v \in Worker \ {w} : local'[v] = local[v],
         pc[w] \in HasMarked <=> st \in HasMarked,
         pc[w] \in HasScored <=> st \in HasScored,
         pc[w] \in HasTimed <=> st \in HasTimed,
         ByRule(w)', U(w) \notin disturbed => CallFits(w)'
  PROVE  BoardInv'
<1>1. /\ pc'[w] = st /\ pc'[w] # "idle" /\ cur'[w] = cur[w]
      /\ \A v \in Worker \ {w} : pc'[v] = pc[v] /\ cur'[v] = cur[v]
  BY DEF GoTo, TypeInv, TypeOK
<1>2. PICK u \in User : u = U(w)
  BY CallTypes
<1>3. ASSUME u \notin disturbed PROVE BoardFits(u)'
  <2>1. \A places : "idle" \notin places =>
             /\ Touched(u, places) = IF pc[w] \in places THEN {P(w)} ELSE {}
             /\ Touched(u, places)' = IF pc'[w] \in places THEN {P(w)} ELSE {}
    BY <1>1, <1>2, <1>3, AloneTouches
  <2>2. /\ Touched(u, HasMarked)' = Touched(u, HasMarked)
        /\ Touched(u, HasScored)' = Touched(u, HasScored)
        /\ Touched(u, HasTimed)' = Touched(u, HasTimed)
    <3>1. "idle" \notin HasMarked /\ "idle" \notin HasScored /\ "idle" \notin HasTimed
      BY DEF HasMarked, HasScored, HasTimed
    <3> QED
      BY <1>1, <2>1, <3>1
  <2>3. BoardFits(u)
    BY <1>3 DEF BoardInv
  <2>4. ShowsIOI(u)' <=> ShowsIOI(u)
    BY DEF ShowsIOI, redis
  <2>5. CASE rule = "ACM"
    BY <2>2, <2>3, <2>5 DEF BoardFits, ACMBoard, redis
  <2>6. CASE rule # "ACM"
    BY <2>2, <2>3, <2>4, <2>6 DEF BoardFits, IOIBoard, redis
  <2> QED
    BY <2>5, <2>6
<1> QED
  BY <1>1, <1>2, <1>3, OthersOnBoard DEF redis

\* When a call returns, nothing of its user is touched, and the log is longer.
LEMMA EndsOnBoard ==
  ASSUME TypeInv, BoardInv, UNCHANGED <<rule, created, row, disturbed>>,
         NEW w \in Worker, pc[w] # "idle", Return(w),
         NEW u \in User, u = U(w),
         \A x \in User \ {u} :
           /\ wrong'[x] = wrong[x] /\ solved'[x] = solved[x]
           /\ score'[x] = score[x] /\ time'[x] = time[x] /\ rank'[x] = rank[x],
         u \notin disturbed => BoardFits(u)'
  PROVE  BoardInv'
<1>1. /\ pc'[w] = "idle" /\ local'[w] = NoLocal
      /\ \A v \in Worker \ {w} : pc'[v] = pc[v] /\ cur'[v] = cur[v] /\ local'[v] = local[v]
  BY DEF Return, GoTo, Let, TypeInv, TypeOK
<1>2. ByRule(w)'
  BY <1>1 DEF ByRule
<1>3. \A x \in User \ {u} : log'[x] = log[x]
  BY ReturnLogs
<1> QED
  BY <1>1, <1>2, <1>3, OthersOnBoard

\* What the end of a call means for the log and the marks of its user.
LEMMA ReturnOnBoard ==
  ASSUME TypeInv, BoardInv, NEW w \in Worker, pc[w] # "idle", Return(w),
         NEW u \in User, u = U(w), u \notin disturbed
  PROVE  \E e \in Ranked :
           /\ e.problem = P(w) /\ e.result = cur[w].result /\ P(w) \in Problem
           /\ log[u] \in Seq(Ranked) /\ log'[u] = Append(log[u], e)
           /\ \A places : "idle" \notin places =>
                /\ Touched(u, places) = IF pc[w] \in places THEN {P(w)} ELSE {}
                /\ Touched(u, places)' = {}
<1> DEFINE e == [problem |-> P(w), result |-> cur[w].result]
<1>1. e \in Ranked /\ P(w) \in Problem
  BY CallTypes
<1>2. log[u] \in Seq(Ranked) /\ log'[u] = Append(log[u], e)
  BY ReturnLogs DEF TypeInv, TypeOK
<1>3. /\ pc'[w] = "idle"
      /\ \A v \in Worker \ {w} : pc'[v] = pc[v] /\ cur'[v] = cur[v]
  BY DEF Return, GoTo, TypeInv, TypeOK
<1>4. \A places : "idle" \notin places =>
        /\ Touched(u, places) = IF pc[w] \in places THEN {P(w)} ELSE {}
        /\ Touched(u, places)' = {}
  BY <1>3, AloneTouches
<1> QED
  BY <1>1, <1>2, <1>4

LEMMA CountWrongOnBoard ==
  ASSUME TypeInv, BoardInv, rule = "ACM", NEW w \in Worker, CountWrong(w)
  PROVE  BoardInv'
<1>1. /\ pc[w] = "wrong" /\ pc[w] # "idle" /\ Return(w)
      /\ UNCHANGED <<rule, created, row, solved, score, time, rank, disturbed>>
      /\ wrong' = [wrong EXCEPT ![U(w)][P(w)] = @ + 1]
  BY DEF CountWrong, Fine, Outside
<1>2. PICK u \in User : u = U(w)
  BY <1>1, CallTypes
<1>3. \A x \in User \ {u} : wrong'[x] = wrong[x]
  BY <1>1, <1>2, TypeFacts
<1>4. ASSUME u \notin disturbed PROVE BoardFits(u)'
  <2>1. PICK e \in Ranked :
          /\ e.problem = P(w) /\ e.result = cur[w].result /\ P(w) \in Problem
          /\ log[u] \in Seq(Ranked) /\ log'[u] = Append(log[u], e)
          /\ \A places : "idle" \notin places =>
               /\ Touched(u, places) = IF pc[w] \in places THEN {P(w)} ELSE {}
               /\ Touched(u, places)' = {}
    BY <1>1, <1>2, <1>4, ReturnOnBoard
  <2>2. Touched(u, HasMarked) = {} /\ Touched(u, HasMarked)' = {}
    BY <1>1, <2>1 DEF HasMarked
  <2>3. ~e.result.accepted
    BY <1>1, <1>2, <1>4, <2>1 DEF BoardInv, CallFits, ACMCall
  <2>4. ACMBoard(u)
    BY <1>4 DEF BoardInv, BoardFits
  <2>5. Solved(log'[u]) = Solved(log[u]) /\ TotalPenalty(log'[u]) = TotalPenalty(log[u])
    BY <2>1, <2>3, TotalKept
  <2>6. \A p \in Problem :
          /\ Accepted(log'[u], p) = Accepted(log[u], p)
          /\ Cardinality(Calls(log'[u], p)) = IF p = P(w) THEN Cardinality(Calls(log[u], p)) + 1
                                              ELSE Cardinality(Calls(log[u], p))
    BY <2>1, <2>3, CallsGrow
  <2>7. \A p \in Problem : wrong'[u][p] = IF p = P(w) THEN wrong[u][p] + 1 ELSE wrong[u][p]
    BY <1>1, <1>2, <2>1, TypeFacts
  <2>8. ASSUME NEW p \in Problem
        PROVE  /\ Accepted(log'[u], p) = {} => wrong'[u][p] = Cardinality(Calls(log'[u], p))
               /\ solved'[u][p] > 0 <=> Accepted(log'[u], p) # {} \/ p \in Touched(u, HasMarked)'
    BY <1>1, <2>2, <2>4, <2>6, <2>7 DEF ACMBoard
  <2>9. TotalPenalty(log'[u]) < ACMWeight => rank'[u] = ACMEntry(log'[u])
    BY <1>1, <2>4, <2>5 DEF ACMBoard, ACMEntry
  <2>10. ACMBoard(u)'
    BY <2>8, <2>9 DEF ACMBoard, ACMEntry
  <2> QED
    BY <1>1, <2>10 DEF BoardFits
<1> QED
  BY <1>1, <1>2, <1>3, <1>4, EndsOnBoard

LEMMA CheckSolvedOnBoard ==
  ASSUME TypeInv, BoardInv, rule = "ACM", NEW w \in Worker, CheckSolved(w)
  PROVE  BoardInv'
<1>1. /\ pc[w] = "check" /\ pc[w] # "idle"
      /\ UNCHANGED <<rule, created, row, redis, disturbed>>
  BY DEF CheckSolved, Fine, Outside
<1>2. PICK u \in User : u = U(w)
  BY <1>1, CallTypes
<1>3. P(w) \in Problem /\ solved[u][P(w)] \in Nat
  <2>1. P(w) \in Problem
    BY <1>1, CallTypes
  <2>2. solved \in [User -> [Problem -> Nat]]
    BY TypeFacts
  <2> QED
    BY <2>1, <2>2
<1>4. u \notin disturbed => cur[w].result.accepted /\ ACMBoard(u)
  BY <1>1, <1>2 DEF BoardInv, CallFits, ACMCall, BoardFits
<1>5. CASE solved[U(w)][P(w)] > 0
  <2>1. Return(w)
    BY <1>5 DEF CheckSolved
  <2>2. ASSUME u \notin disturbed PROVE BoardFits(u)'
    <3>1. PICK e \in Ranked :
            /\ e.problem = P(w) /\ e.result = cur[w].result /\ P(w) \in Problem
            /\ log[u] \in Seq(Ranked) /\ log'[u] = Append(log[u], e)
            /\ \A places : "idle" \notin places =>
                 /\ Touched(u, places) = IF pc[w] \in places THEN {P(w)} ELSE {}
                 /\ Touched(u, places)' = {}
      BY <1>1, <1>2, <2>1, <2>2, ReturnOnBoard
    <3>2. Touched(u, HasMarked) = {} /\ Touched(u, HasMarked)' = {}
      BY <1>1, <3>1 DEF HasMarked
    <3>3. Accepted(log[u], P(w)) # {}
      BY <1>2, <1>3, <1>4, <1>5, <2>2, <3>2 DEF ACMBoard
    <3>4. Solved(log'[u]) = Solved(log[u]) /\ TotalPenalty(log'[u]) = TotalPenalty(log[u])
      BY <3>1, <3>3, TotalKept
    <3>5. \A p \in Problem :
            /\ Accepted(log'[u], p) = {} <=> Accepted(log[u], p) = {}
            /\ p # P(w) => Cardinality(Calls(log'[u], p)) = Cardinality(Calls(log[u], p))
      BY <3>1, <3>3, CallsGrow
    <3>6. ASSUME NEW p \in Problem
          PROVE  /\ Accepted(log'[u], p) = {} => wrong'[u][p] = Cardinality(Calls(log'[u], p))
                 /\ solved'[u][p] > 0 <=> Accepted(log'[u], p) # {} \/ p \in Touched(u, HasMarked)'
      BY <1>1, <1>4, <2>2, <3>2, <3>3, <3>5 DEF ACMBoard, redis
    <3>7. TotalPenalty(log'[u]) < ACMWeight => rank'[u] = ACMEntry(log'[u])
      BY <1>1, <1>4, <2>2, <3>4 DEF ACMBoard, ACMEntry, redis
    <3>8. ACMBoard(u)'
      BY <3>6, <3>7 DEF ACMBoard, ACMEntry
    <3> QED
      BY <1>1, <3>8 DEF BoardFits
  <2> QED
    BY <1>1, <1>2, <2>1, <2>2, EndsOnBoard DEF redis
<1>6. CASE ~(solved[U(w)][P(w)] > 0)
  <2>1. GoTo(w, "mark") /\ UNCHANGED <<cur, local, log>>
    BY <1>6 DEF CheckSolved, GoOn, Let, TypeInv, TypeOK
  <2>2. pc'[w] = "mark" /\ U(w)' = U(w) /\ P(w)' = P(w) /\ log' = log /\ cur' = cur
    BY <2>1 DEF GoTo, TypeInv, TypeOK, U, P
  <2>3. u \notin disturbed => Accepted(log[u], P(w)) = {}
    BY <1>2, <1>3, <1>4, <1>6 DEF ACMBoard
  <2>4. U(w) \notin disturbed => CallFits(w)'
    BY <1>1, <1>2, <1>4, <2>2, <2>3 DEF CallFits, ACMCall, HasMarked
  <2>5. ByRule(w)'
    BY <1>1, <2>1, <2>2 DEF BoardInv, ByRule
  <2> QED
    BY <1>1, <2>1, <2>4, <2>5, MovesOnBoard DEF HasMarked, HasScored, HasTimed
<1> QED
  BY <1>5, <1>6

LEMMA MarkSolvedOnBoard ==
  ASSUME TypeInv, BoardInv, rule = "ACM", NEW w \in Worker, MarkSolved(w)
  PROVE  BoardInv'
<1>1. /\ pc[w] = "mark" /\ pc[w] # "idle" /\ GoTo(w, "penalty")
      /\ UNCHANGED <<rule, created, row, wrong, score, time, rank, cur, local, log, disturbed>>
      /\ solved' = [solved EXCEPT ![U(w)][P(w)] = @ + 1]
  BY DEF MarkSolved, GoOn, Let, Fine, Outside, TypeInv, TypeOK
<1>2. PICK u \in User : u = U(w)
  BY <1>1, CallTypes
<1>3. /\ pc'[w] = "penalty"
      /\ \A v \in Worker \ {w} : pc'[v] = pc[v] /\ cur'[v] = cur[v]
  BY <1>1 DEF GoTo, TypeInv, TypeOK
<1>4. P(w) \in Problem
  BY <1>1, CallTypes
<1>5. /\ \A x \in User \ {u} : solved'[x] = solved[x]
      /\ solved'[u][P(w)] > 0
      /\ \A p \in Problem \ {P(w)} : solved'[u][p] = solved[u][p]
  <2>1. solved \in [User -> [Problem -> Nat]]
    BY TypeFacts
  <2> QED
    BY <1>1, <1>2, <1>4, <2>1
<1>6. ASSUME u \notin disturbed PROVE CallFits(w)' /\ BoardFits(u)'
  <2>1. Touched(u, HasMarked) = {} /\ Touched(u, HasMarked)' = {P(w)}
    <3>1. \A places : "idle" \notin places =>
            /\ Touched(u, places) = IF pc[w] \in places THEN {P(w)} ELSE {}
            /\ Touched(u, places)' = IF pc'[w] \in places THEN {P(w)} ELSE {}
      BY <1>1, <1>2, <1>3, <1>6, AloneTouches
    <3>2. "idle" \notin HasMarked /\ pc[w] \notin HasMarked /\ pc'[w] \in HasMarked
      BY <1>1, <1>3 DEF HasMarked
    <3> QED
      BY <3>1, <3>2
  <2>2. ACMBoard(u) /\ ACMCall(w)
    BY <1>1, <1>2, <1>6 DEF BoardInv, BoardFits, CallFits
  <2>3. U(w)' = U(w) /\ P(w)' = P(w)
    BY <1>1 DEF U, P
  <2>4. ACMCall(w)'
    BY <1>1, <1>3, <2>2, <2>3 DEF ACMCall, HasMarked
  <2>5. ASSUME NEW p \in Problem
        PROVE  /\ Accepted(log[u], p) = {} => wrong'[u][p] = Cardinality(Calls(log[u], p))
               /\ solved'[u][p] > 0 <=> Accepted(log[u], p) # {} \/ p \in Touched(u, HasMarked)'
    BY <1>1, <1>5, <2>1, <2>2 DEF ACMBoard
  <2>6. ACMBoard(u)'
    BY <1>1, <2>2, <2>5 DEF ACMBoard
  <2> QED
    BY <1>1, <2>4, <2>6 DEF CallFits, BoardFits
<1>7. ByRule(w)'
  BY <1>1, <1>3 DEF BoardInv, ByRule, HasMarked
<1> QED
  BY <1>1, <1>2, <1>3, <1>5, <1>6, <1>7, OthersOnBoard

LEMMA ReadWrongOnBoard ==
  ASSUME TypeInv, BoardInv, rule = "ACM", NEW w \in Worker, ReadWrong(w)
  PROVE  BoardInv'
<1>1. /\ pc[w] = "penalty" /\ pc[w] # "idle" /\ GoTo(w, "read")
      /\ UNCHANGED <<rule, created, row, redis, cur, log, disturbed>>
      /\ local' = [local EXCEPT ![w] = [local[w] EXCEPT
                     !.penalty = cur[w].result.at + wrong[U(w)][P(w)] * WrongPenalty]]
  BY DEF ReadWrong, WithPenalty, GoOn, Let, Fine, Outside
<1>2. PICK u \in User : u = U(w)
  BY <1>1, CallTypes
<1>3. pc'[w] = "read" /\ U(w)' = U(w) /\ P(w)' = P(w)
  BY <1>1 DEF GoTo, TypeInv, TypeOK, U, P
<1>4. local[w] = NoLocal
  BY <1>1 DEF BoardInv, ByRule
<1>5. /\ local'[w].penalty = cur[w].result.at + wrong[U(w)][P(w)] * WrongPenalty
      /\ local'[w].solved = 0 /\ local'[w].total = 0
      /\ \A v \in Worker \ {w} : local'[v] = local[v]
  BY <1>1, <1>4 DEF TypeInv, TypeOK, NoLocal
<1>6. ASSUME U(w) \notin disturbed PROVE CallFits(w)'
  <2>1. ACMBoard(u) /\ ACMCall(w) /\ P(w) \in Problem
    BY <1>1, <1>2, <1>6, CallTypes DEF BoardInv, BoardFits, CallFits
  <2>2. Accepted(log[u], P(w)) = {} /\ cur[w].result.accepted
    BY <1>1, <1>2, <2>1 DEF ACMCall, HasMarked
  <2>3. wrong[u][P(w)] = Cardinality(Calls(log[u], P(w)))
    BY <2>1, <2>2 DEF ACMBoard
  <2>4. Cardinality(Calls(log[u], P(w))) \in Nat
    BY <2>1, LogTypes DEF TypeInv, TypeOK
  <2>5. local'[w].penalty = cur[w].result.at + WrongPenalty * Cardinality(Calls(log[u], P(w)))
    BY <1>2, <1>5, <2>3, <2>4 DEF WrongPenalty
  <2>6. ACMCall(w)'
    BY <1>1, <1>2, <1>3, <2>2, <2>5 DEF ACMCall
  <2> QED
    BY <1>1, <2>6 DEF CallFits
<1>7. ByRule(w)'
  BY <1>1, <1>3, <1>5 DEF ByRule, HasMarked
<1> QED
  BY <1>1, <1>5, <1>6, <1>7, MovesOnBoard DEF HasMarked, HasScored, HasTimed

LEMMA ReadRankOnBoard ==
  ASSUME TypeInv, BoardInv, rule = "ACM", NEW w \in Worker, ReadRank(w)
  PROVE  BoardInv'
<1>1. /\ pc[w] = "read" /\ pc[w] # "idle" /\ GoTo(w, "add")
      /\ UNCHANGED <<rule, created, row, redis, cur, log, disturbed>>
  BY DEF ReadRank, GoOn, Fine, Outside
<1>2. PICK u \in User : u = U(w)
  BY <1>1, CallTypes
<1>3. pc'[w] = "add" /\ U(w)' = U(w) /\ P(w)' = P(w)
  BY <1>1 DEF GoTo, TypeInv, TypeOK, U, P
<1>4. local[w].solved = 0 /\ local[w].total = 0
  BY <1>1 DEF BoardInv, ByRule
<1>5. /\ local'[w].penalty = local[w].penalty
      /\ local'[w].solved = IF rank[u] = Absent THEN 0 ELSE SolvedIn(rank[u])
      /\ local'[w].total = IF rank[u] = Absent THEN 0 ELSE PenaltyIn(rank[u])
      /\ \A v \in Worker \ {w} : local'[v] = local[v]
  BY <1>2, <1>4 DEF ReadRank, GoOn, Let, TypeInv, TypeOK
<1>6. ASSUME U(w) \notin disturbed PROVE CallFits(w)'
  <2> DEFINE l == log[u]
  <2>1. ACMBoard(u) /\ ACMCall(w) /\ l \in Seq(Ranked)
    BY <1>1, <1>2, <1>6 DEF BoardInv, BoardFits, CallFits, TypeInv, TypeOK
  <2>2. ASSUME TotalPenalty(l) < ACMWeight
        PROVE  local'[w].solved = Cardinality(Solved(l)) /\ local'[w].total = TotalPenalty(l)
    <3>1. /\ Cardinality(Solved(l)) \in Nat /\ TotalPenalty(l) \in Nat
          /\ IsFiniteSet(Solved(l))
          /\ TotalPenalty(l) =
               SumFunctionOnSet([p \in Solved(l) |-> ICPCPenalty(l, p)], Solved(l))
      BY <2>1, TotalTypes
    <3>2. rank[u] = ACMEntry(l)
      BY <2>1, <2>2 DEF ACMBoard
    <3>3. CASE Solved(l) = {}
      <4>1. Cardinality(Solved(l)) = 0
        BY <3>3, FS_EmptySet
      <4>2. TotalPenalty(l) = 0
        BY <3>1, <3>3, SumEquation
      <4> QED
        BY <1>5, <3>2, <3>3, <4>1, <4>2 DEF ACMEntry
    <3>4. CASE Solved(l) # {}
      <4>1. rank[u] = EncodeACM(Cardinality(Solved(l)), TotalPenalty(l))
        BY <3>2, <3>4 DEF ACMEntry
      <4>2. /\ rank[u] \in Int
            /\ SolvedIn(rank[u]) = Cardinality(Solved(l)) /\ PenaltyIn(rank[u]) = TotalPenalty(l)
        BY <2>2, <3>1, <4>1, DecodesWhatWasEncoded
      <4>3. rank[u] # Absent
        BY <4>2, TypeFacts
      <4> QED
        BY <1>5, <4>2, <4>3
    <3> QED
      BY <3>3, <3>4
  <2>3. ACMCall(w)'
    BY <1>1, <1>2, <1>3, <1>5, <2>1, <2>2 DEF ACMCall, HasMarked
  <2> QED
    BY <1>1, <2>3 DEF CallFits
<1>7. ByRule(w)'
  BY <1>1, <1>3 DEF ByRule, HasMarked
<1> QED
  BY <1>1, <1>5, <1>6, <1>7, MovesOnBoard DEF HasMarked, HasScored, HasTimed

LEMMA AddRankOnBoard ==
  ASSUME TypeInv, BoardInv, rule = "ACM", NEW w \in Worker, AddRank(w)
  PROVE  BoardInv'
<1> DEFINE sc == EncodeACM(local[w].solved + 1, local[w].total + local[w].penalty)
<1>1. /\ pc[w] = "add" /\ pc[w] # "idle" /\ Return(w)
      /\ UNCHANGED <<rule, created, row, wrong, solved, score, time, disturbed>>
      /\ rank' = [rank EXCEPT ![U(w)] = sc]
  BY DEF AddRank, Fine, Outside
<1>2. PICK u \in User : u = U(w)
  BY <1>1, CallTypes
<1>3. rank'[u] = sc /\ \A x \in User \ {u} : rank'[x] = rank[x]
  BY <1>1, <1>2, TypeFacts
<1>4. ASSUME u \notin disturbed PROVE BoardFits(u)'
  <2>1. PICK e \in Ranked :
          /\ e.problem = P(w) /\ e.result = cur[w].result /\ P(w) \in Problem
          /\ log[u] \in Seq(Ranked) /\ log'[u] = Append(log[u], e)
          /\ \A places : "idle" \notin places =>
               /\ Touched(u, places) = IF pc[w] \in places THEN {P(w)} ELSE {}
               /\ Touched(u, places)' = {}
    BY <1>1, <1>2, <1>4, ReturnOnBoard
  <2>2. Touched(u, HasMarked) = {P(w)} /\ Touched(u, HasMarked)' = {}
    BY <1>1, <2>1 DEF HasMarked
  <2>3. ACMBoard(u) /\ ACMCall(w)
    BY <1>1, <1>2, <1>4 DEF BoardInv, BoardFits, CallFits
  <2>4. /\ e.result.accepted /\ Accepted(log[u], e.problem) = {}
        /\ local[w].penalty = e.result.at + WrongPenalty * Cardinality(Calls(log[u], e.problem))
        /\ TotalPenalty(log[u]) < ACMWeight =>
             /\ local[w].solved = Cardinality(Solved(log[u]))
             /\ local[w].total = TotalPenalty(log[u])
    BY <1>1, <1>2, <2>1, <2>3 DEF ACMCall, HasMarked
  <2>5. /\ Solved(log'[u]) = Solved(log[u]) \cup {e.problem}
        /\ Cardinality(Solved(log'[u])) = Cardinality(Solved(log[u])) + 1
        /\ TotalPenalty(log'[u]) = TotalPenalty(log[u]) + e.result.at
             + WrongPenalty * Cardinality(Calls(log[u], e.problem))
    BY <2>1, <2>4, TotalGrows
  <2>6. \A p \in Problem :
          /\ p = P(w) => Accepted(log'[u], p) # {}
          /\ p # P(w) => /\ Accepted(log'[u], p) = Accepted(log[u], p)
                         /\ Cardinality(Calls(log'[u], p)) = Cardinality(Calls(log[u], p))
    <3> TAKE p \in Problem
    <3>1. /\ Accepted(log'[u], p) = IF e.problem = p /\ e.result.accepted
                                    THEN Accepted(log[u], p) \cup {Len(log[u]) + 1}
                                    ELSE Accepted(log[u], p)
          /\ Cardinality(Calls(log'[u], p)) = IF e.problem = p
                                              THEN Cardinality(Calls(log[u], p)) + 1
                                              ELSE Cardinality(Calls(log[u], p))
      <4>1. PICK l : l = log[u] /\ l \in Seq(Ranked) /\ log'[u] = Append(l, e)
        BY <2>1
      <4>2. l \in Seq(Ranked)
        BY <4>1
      <4>3. /\ Accepted(Append(l, e), p) = IF e.problem = p /\ e.result.accepted
                                          THEN Accepted(l, p) \cup {Len(l) + 1}
                                          ELSE Accepted(l, p)
            /\ Cardinality(Calls(Append(l, e), p)) = IF e.problem = p
                                                     THEN Cardinality(Calls(l, p)) + 1
                                                     ELSE Cardinality(Calls(l, p))
        BY <4>2, CallsGrow
      <4> QED
        BY <4>1, <4>3, Zenon
    <3> QED
      BY <2>1, <2>4, <3>1
  <2>7. ASSUME NEW p \in Problem
        PROVE  /\ Accepted(log'[u], p) = {} => wrong'[u][p] = Cardinality(Calls(log'[u], p))
               /\ solved'[u][p] > 0 <=> Accepted(log'[u], p) # {} \/ p \in Touched(u, HasMarked)'
    BY <1>1, <2>2, <2>3, <2>6 DEF ACMBoard
  <2>8. ASSUME TotalPenalty(log'[u]) < ACMWeight PROVE rank'[u] = ACMEntry(log'[u])
    <3>1. /\ TotalPenalty(log[u]) \in Nat /\ Cardinality(Calls(log[u], e.problem)) \in Nat
          /\ e.result.at \in Nat
      BY <2>1, TotalTypes, LogTypes, ContestRankAssumption DEF ContestRankAssumption, Ranked
    <3>2. /\ TotalPenalty(log'[u]) = TotalPenalty(log[u]) + local[w].penalty
          /\ TotalPenalty(log[u]) < ACMWeight
      BY <2>4, <2>5, <2>8, <3>1 DEF WrongPenalty, ACMWeight
    <3>3. sc = EncodeACM(Cardinality(Solved(log'[u])), TotalPenalty(log'[u]))
      BY <2>4, <2>5, <3>2
    <3> HIDE DEF sc
    <3> QED
      BY <1>3, <2>5, <3>3 DEF ACMEntry
  <2>9. ACMBoard(u)'
    BY <2>7, <2>8 DEF ACMBoard, ACMEntry
  <2> QED
    BY <1>1, <2>9 DEF BoardFits
<1> HIDE DEF sc
<1> QED
  BY <1>1, <1>2, <1>3, <1>4, EndsOnBoard

\* The submission that is ranked is the newest one, and its row is the one just written.
LEMMA ReadLatestOnBoard ==
  ASSUME TypeInv, BoardInv, rule # "ACM", NEW w \in Worker, ReadLatest(w)
  PROVE  BoardInv'
<1> DEFINE newest == row[Max(Rivals(cur[w].sub))]
<1>1. pc[w] = "latest" /\ pc[w] # "idle" /\ UNCHANGED <<rule, created, row, redis, disturbed>>
  BY DEF ReadLatest, Fine, Outside
<1>2. PICK u \in User : u = U(w)
  BY <1>1, CallTypes
<1>3. ASSUME u \notin disturbed PROVE newest = cur[w].result /\ newest # Absent
  <2>1. PICK s : s = cur[w].sub
    OBVIOUS
  <2>2. s \in 1 .. created /\ cur[w].result \in Result
    BY <1>1, <2>1, CallTypes
  <2>3. row[s] = cur[w].result /\ \A x \in Rivals(s) : x <= s
    BY <1>1, <1>2, <1>3, <2>1 DEF BoardInv, Lone
  <2>4. s \in Rivals(s) /\ Max(Rivals(s)) \in Rivals(s) /\ Max(Rivals(s)) >= s
    BY <2>2, RivalTypes
  <2>5. Max(Rivals(s)) \in Int /\ s \in Int
    BY <2>2, <2>4 DEF Rivals
  <2>6. Max(Rivals(s)) = s
    BY <2>3, <2>4, <2>5
  <2> QED
    BY <2>1, <2>2, <2>3, <2>6, TypeFacts
<1>4. CASE newest = Absent
  <2>1. Return(w)
    BY <1>4 DEF ReadLatest
  <2> QED
    BY <1>1, <1>2, <1>3, <1>4, <2>1, EndsOnBoard DEF redis
<1>5. CASE newest # Absent
  <2>1. /\ local' = [local EXCEPT ![w] =
                       [local[w] EXCEPT !.passed = newest.passed, !.used = newest.used]]
        /\ GoTo(w, "compare") /\ UNCHANGED <<cur, log>>
    BY <1>5 DEF ReadLatest, GoOn, Let
  <2> HIDE DEF newest
  <2>2. pc'[w] = "compare" /\ U(w)' = U(w) /\ P(w)' = P(w)
    BY <2>1 DEF GoTo, TypeInv, TypeOK, U, P
  <2>3. /\ local'[w].passed = newest.passed /\ local'[w].used = newest.used
        /\ \A v \in Worker \ {w} : local'[v] = local[v]
    BY <2>1 DEF TypeInv, TypeOK
  <2>4. U(w) \notin disturbed => CallFits(w)'
    BY <1>1, <1>2, <1>3, <2>1, <2>2, <2>3 DEF CallFits, IOICall, HasScored, HasTimed
  <2>5. ByRule(w)'
    BY <1>1, <2>2 DEF ByRule
  <2> QED
    BY <1>1, <2>1, <2>3, <2>4, <2>5, MovesOnBoard DEF HasMarked, HasScored, HasTimed
<1> QED
  BY <1>4, <1>5

\* Before a call has written its result, the key holds the best one of the log.
LEMMA ScoreIsBest ==
  ASSUME TypeInv, BoardInv, rule # "ACM", NEW w \in Worker, pc[w] = "compare",
         NEW u \in User, u = U(w), u \notin disturbed
  PROVE  /\ score[u][P(w)] = Best(log[u], P(w)) /\ local[w].passed = cur[w].result.passed
         /\ Best(log[u], P(w)) \in Nat /\ cur[w].result.passed \in Nat
<1>1. IOIBoard(u) /\ IOICall(w) /\ P(w) \in Problem /\ Working(u) = {w}
  BY CallTypes DEF BoardInv, BoardFits, CallFits, Lone
<1>2. Touched(u, HasScored) = {}
  BY <1>1 DEF Touched, HasScored
<1>3. log[u] \in Seq(Ranked) /\ cur[w].result.passed \in Nat
  BY CallTypes DEF TypeInv, TypeOK
<1>4. Best(log[u], P(w)) \in Nat
  BY <1>1, <1>3, BestIsLargest
<1> QED
  BY <1>1, <1>2, <1>3, <1>4 DEF IOIBoard, IOICall

LEMMA CompareBestOnBoard ==
  ASSUME TypeInv, BoardInv, rule # "ACM", NEW w \in Worker, CompareBest(w)
  PROVE  BoardInv'
<1>1. pc[w] = "compare" /\ pc[w] # "idle" /\ UNCHANGED <<rule, created, row, redis, disturbed>>
  BY DEF CompareBest, Fine, Outside
<1>2. PICK u \in User : u = U(w)
  BY <1>1, CallTypes
<1>3. CASE local[w].passed <= score[U(w)][P(w)] /\ score[U(w)][P(w)] > 0
  <2>1. Return(w)
    BY <1>3 DEF CompareBest
  <2>2. ASSUME u \notin disturbed PROVE BoardFits(u)'
    <3>1. PICK e \in Ranked :
            /\ e.problem = P(w) /\ e.result = cur[w].result /\ P(w) \in Problem
            /\ log[u] \in Seq(Ranked) /\ log'[u] = Append(log[u], e)
            /\ \A places : "idle" \notin places =>
                 /\ Touched(u, places) = IF pc[w] \in places THEN {P(w)} ELSE {}
                 /\ Touched(u, places)' = {}
      BY <1>1, <1>2, <2>1, <2>2, ReturnOnBoard
    <3>2. Touched(u, HasScored) = {} /\ Touched(u, HasTimed) = {}
      BY <1>1, <3>1 DEF HasScored, HasTimed
    <3>3. e.result.passed <= Best(log[u], P(w)) /\ Best(log[u], P(w)) > 0
          /\ e.result.passed \in Nat /\ Best(log[u], P(w)) \in Nat
      BY <1>1, <1>2, <1>3, <2>2, <3>1, ScoreIsBest
    <3>4. \A p \in Problem : /\ Best(log'[u], p) = Best(log[u], p)
                             /\ BestTime(log'[u], p) = BestTime(log[u], p)
      BY <3>1, <3>3, BestGrows, BestTimeGrows
    <3>5. IOIBoard(u)
      BY <1>1, <2>2 DEF BoardInv, BoardFits
    <3>6. /\ [p \in Problem |-> Best(log'[u], p)] = [p \in Problem |-> Best(log[u], p)]
          /\ [p \in Problem |-> BestTime(log'[u], p)] = [p \in Problem |-> BestTime(log[u], p)]
      BY <3>4
    <3>7. ShowsIOI(u)'
      BY <1>1, <3>5, <3>6 DEF IOIBoard, ShowsIOI, redis
    <3>8. IOIBoard(u)'
      BY <1>1, <3>2, <3>4, <3>5, <3>7 DEF IOIBoard, redis
    <3> QED
      BY <1>1, <3>8 DEF BoardFits
  <2> QED
    BY <1>1, <1>2, <2>1, <2>2, EndsOnBoard DEF redis
<1>4. CASE ~(local[w].passed <= score[U(w)][P(w)] /\ score[U(w)][P(w)] > 0)
  <2>1. GoTo(w, "score") /\ UNCHANGED <<cur, local, log>>
    BY <1>4 DEF CompareBest, GoOn, Let, TypeInv, TypeOK
  <2>2. pc'[w] = "score" /\ U(w)' = U(w) /\ P(w)' = P(w)
    BY <2>1 DEF GoTo, TypeInv, TypeOK, U, P
  <2>3. ASSUME u \notin disturbed PROVE CallFits(w)'
    <3>1. IOICall(w)
      BY <1>1, <1>2, <2>3 DEF BoardInv, CallFits
    <3>2. Improves(w)
      BY <1>1, <1>2, <1>4, <2>3, ScoreIsBest DEF Improves
    <3>3. Improves(w)'
      BY <2>1, <2>2, <3>2 DEF Improves
    <3>4. IOICall(w)'
      BY <1>1, <2>1, <2>2, <3>1, <3>3 DEF IOICall, HasScored, HasTimed
    <3> QED
      BY <1>1, <3>4 DEF CallFits
  <2>4. ByRule(w)'
    BY <1>1, <2>2 DEF ByRule
  <2> QED
    BY <1>1, <1>2, <2>1, <2>3, <2>4, MovesOnBoard DEF HasMarked, HasScored, HasTimed
<1> QED
  BY <1>3, <1>4

LEMMA SetScoreOnBoard ==
  ASSUME TypeInv, BoardInv, rule # "ACM", NEW w \in Worker, SetScore(w)
  PROVE  BoardInv'
<1>1. /\ pc[w] = "score" /\ pc[w] # "idle" /\ GoTo(w, "time")
      /\ UNCHANGED <<rule, created, row, wrong, solved, time, rank, cur, local, log, disturbed>>
      /\ score' = [score EXCEPT ![U(w)][P(w)] = local[w].passed]
  BY DEF SetScore, GoOn, Let, Fine, Outside, TypeInv, TypeOK
<1>2. PICK u \in User : u = U(w)
  BY <1>1, CallTypes
<1>3. /\ pc'[w] = "time" /\ U(w)' = U(w) /\ P(w)' = P(w)
      /\ \A v \in Worker \ {w} : pc'[v] = pc[v] /\ cur'[v] = cur[v]
  BY <1>1 DEF GoTo, TypeInv, TypeOK, U, P
<1>4. P(w) \in Problem
  BY <1>1, CallTypes
<1>5. /\ \A x \in User \ {u} : score'[x] = score[x]
      /\ score'[u][P(w)] = local[w].passed
      /\ \A p \in Problem \ {P(w)} : score'[u][p] = score[u][p]
  <2>1. score \in [User -> [Problem -> Nat]]
    BY TypeFacts
  <2> QED
    BY <1>1, <1>2, <1>4, <2>1
<1>6. ASSUME u \notin disturbed PROVE CallFits(w)' /\ BoardFits(u)'
  <2>1. /\ Touched(u, HasScored) = {} /\ Touched(u, HasScored)' = {P(w)}
        /\ Touched(u, HasTimed) = {} /\ Touched(u, HasTimed)' = {}
    <3>1. \A places : "idle" \notin places =>
            /\ Touched(u, places) = IF pc[w] \in places THEN {P(w)} ELSE {}
            /\ Touched(u, places)' = IF pc'[w] \in places THEN {P(w)} ELSE {}
      BY <1>1, <1>2, <1>3, <1>6, AloneTouches
    <3> QED
      BY <1>1, <1>3, <3>1 DEF HasScored, HasTimed
  <2>2. IOIBoard(u) /\ IOICall(w)
    BY <1>1, <1>2, <1>6 DEF BoardInv, BoardFits, CallFits
  <2>3. /\ local[w].passed = cur[w].result.passed /\ local[w].used = cur[w].result.used
        /\ Improves(w)
    BY <1>1, <2>2 DEF IOICall
  <2>4. Improves(w)'
    BY <1>1, <1>3, <2>3 DEF Improves
  <2>5. IOICall(w)'
    BY <1>1, <1>2, <1>3, <1>5, <2>3, <2>4 DEF IOICall, HasScored, HasTimed
  <2>6. ShowsIOI(u)'
    BY <1>1, <2>2 DEF IOIBoard, ShowsIOI
  <2>7. IOIBoard(u)'
    BY <1>1, <1>5, <2>1, <2>2, <2>6 DEF IOIBoard
  <2> QED
    BY <1>1, <2>5, <2>7 DEF CallFits, BoardFits
<1>7. ByRule(w)'
  BY <1>1, <1>3 DEF ByRule, HasScored
<1> QED
  BY <1>1, <1>2, <1>3, <1>5, <1>6, <1>7, OthersOnBoard

LEMMA SetTimeOnBoard ==
  ASSUME TypeInv, BoardInv, rule # "ACM", NEW w \in Worker, SetTime(w)
  PROVE  BoardInv'
<1>1. /\ pc[w] = "time" /\ pc[w] # "idle" /\ GoTo(w, "sum")
      /\ UNCHANGED <<rule, created, row, wrong, solved, score, rank, cur, log, disturbed>>
      /\ time' = [time EXCEPT ![U(w)][P(w)] = local[w].used]
      /\ local' = [local EXCEPT ![w] = [NoLocal EXCEPT !.todo = Problem]]
  BY DEF SetTime, GoOn, Let, Fine, Outside
<1>2. PICK u \in User : u = U(w)
  BY <1>1, CallTypes
<1>3. /\ pc'[w] = "sum" /\ U(w)' = U(w) /\ P(w)' = P(w)
      /\ \A v \in Worker \ {w} : pc'[v] = pc[v] /\ cur'[v] = cur[v] /\ local'[v] = local[v]
      /\ local'[w].passed = 0 /\ local'[w].used = 0 /\ local'[w].todo = Problem
  BY <1>1 DEF GoTo, TypeInv, TypeOK, U, P, NoLocal
<1>4. P(w) \in Problem
  BY <1>1, CallTypes
<1>5. /\ \A x \in User \ {u} : time'[x] = time[x]
      /\ time'[u][P(w)] = local[w].used
      /\ \A p \in Problem \ {P(w)} : time'[u][p] = time[u][p]
  <2>1. time \in [User -> [Problem -> Nat]]
    BY TypeFacts
  <2> QED
    BY <1>1, <1>2, <1>4, <2>1
<1>6. ASSUME u \notin disturbed PROVE CallFits(w)' /\ BoardFits(u)'
  <2>1. /\ Touched(u, HasScored) = {P(w)} /\ Touched(u, HasScored)' = {P(w)}
        /\ Touched(u, HasTimed) = {} /\ Touched(u, HasTimed)' = {P(w)}
    <3>1. \A places : "idle" \notin places =>
            /\ Touched(u, places) = IF pc[w] \in places THEN {P(w)} ELSE {}
            /\ Touched(u, places)' = IF pc'[w] \in places THEN {P(w)} ELSE {}
      BY <1>1, <1>2, <1>3, <1>6, AloneTouches
    <3> QED
      BY <1>1, <1>3, <3>1 DEF HasScored, HasTimed
  <2>2. IOIBoard(u) /\ IOICall(w)
    BY <1>1, <1>2, <1>6 DEF BoardInv, BoardFits, CallFits
  <2>3. /\ score[u][P(w)] = cur[w].result.passed /\ local[w].used = cur[w].result.used
        /\ Improves(w)
    BY <1>1, <1>2, <2>2 DEF IOICall, HasScored
  <2>4. Improves(w)'
    BY <1>1, <1>3, <2>3 DEF Improves
  <2>5. /\ Problem \ local'[w].todo = {}
        /\ SumFunctionOnSet(score'[u], {}) = 0 /\ SumFunctionOnSet(time'[u], {}) = 0
    BY <1>3, FS_EmptySet, SumEquation
  <2>6. /\ score'[u][P(w)] = cur[w].result.passed /\ time'[u][P(w)] = cur[w].result.used
    BY <1>1, <1>5, <2>3
  <2>7. IOICall(w)'
    BY <1>1, <1>2, <1>3, <2>4, <2>5, <2>6 DEF IOICall, HasScored, HasTimed
  <2>8. ShowsIOI(u)'
    BY <1>1, <2>2 DEF IOIBoard, ShowsIOI
  <2>9. IOIBoard(u)'
    BY <1>1, <1>5, <2>1, <2>2, <2>8 DEF IOIBoard
  <2> QED
    BY <1>1, <2>7, <2>9 DEF CallFits, BoardFits
<1>7. ByRule(w)'
  BY <1>1, <1>3 DEF ByRule, HasScored
<1> QED
  BY <1>1, <1>2, <1>3, <1>5, <1>6, <1>7, OthersOnBoard

\* One problem more is summed.
LEMMA SumProblemOnBoard ==
  ASSUME TypeInv, BoardInv, rule # "ACM", NEW w \in Worker, SumProblem(w)
  PROVE  BoardInv'
<1>1. /\ pc[w] = "sum" /\ pc[w] # "idle"
      /\ UNCHANGED <<rule, created, row, redis, pc, cur, log, disturbed>>
  BY DEF SumProblem, Add, GoOn, GoTo, Fine, Outside, TypeInv, TypeOK
<1>2. PICK u \in User : u = U(w)
  BY <1>1, CallTypes
<1>3. PICK q \in local[w].todo : local' = [local EXCEPT ![w] =
        [local[w] EXCEPT !.passed = @ + score[U(w)][q], !.used = @ + time[U(w)][q],
                         !.todo = @ \ {q}]]
  BY DEF SumProblem, Add, NextProblem, GoOn, Let
<1>4. /\ local'[w].passed = local[w].passed + score[u][q]
      /\ local'[w].used = local[w].used + time[u][q] /\ local'[w].todo = local[w].todo \ {q}
      /\ \A v \in Worker \ {w} : local'[v] = local[v]
  BY <1>2, <1>3 DEF TypeInv, TypeOK
<1>5. GoTo(w, "sum") /\ pc'[w] = "sum" /\ U(w)' = U(w) /\ P(w)' = P(w)
  BY <1>1 DEF GoTo, TypeInv, TypeOK, U, P
<1>6. ASSUME u \notin disturbed PROVE CallFits(w)'
  <2> DEFINE done == Problem \ local[w].todo
  <2>1. IOICall(w)
    BY <1>1, <1>2, <1>6 DEF BoardInv, CallFits
  <2>2. local[w].todo \subseteq Problem /\ q \in Problem
    BY <1>1, CallTypes
  <2>3. IsFiniteSet(done) /\ q \notin done /\ Problem \ local'[w].todo = done \cup {q}
    BY <1>4, <2>2, ContestRankAssumption, FS_Subset DEF ContestRankAssumption
  <2>4. \A p \in Problem : score[u][p] \in Int /\ time[u][p] \in Int
    BY TypeFacts
  <2> HIDE DEF done
  <2>5. /\ SumFunctionOnSet(score[u], done \cup {q}) = SumFunctionOnSet(score[u], done) + score[u][q]
        /\ SumFunctionOnSet(time[u], done \cup {q}) = SumFunctionOnSet(time[u], done) + time[u][q]
    <3>1. PICK f, h : f = score[u] /\ h = time[u]
      OBVIOUS
    <3>2. \A p \in done \cup {q} : f[p] \in Int /\ h[p] \in Int
      BY <2>2, <2>4, <3>1 DEF done
    <3>3. IsFiniteSet(done) /\ q \notin done
      BY <2>3
    <3>4. (\A p \in done : f[p] \in Int /\ f[p] = f[p]) /\ f[q] \in Int
      BY <3>2
    <3>5. (\A p \in done : h[p] \in Int /\ h[p] = h[p]) /\ h[q] \in Int
      BY <3>2
    <3>6. SumFunctionOnSet(f, done \cup {q}) = SumFunctionOnSet(f, done) + f[q]
      BY <3>3, <3>4, SumGrows
    <3>7. SumFunctionOnSet(h, done \cup {q}) = SumFunctionOnSet(h, done) + h[q]
      BY <3>3, <3>5, SumGrows
    <3> QED
      BY <3>1, <3>6, <3>7
  <2>6. /\ local[w].passed = SumFunctionOnSet(score[u], done)
        /\ local[w].used = SumFunctionOnSet(time[u], done)
    BY <1>1, <1>2, <2>1 DEF IOICall, done
  <2>7. /\ local'[w].passed = SumFunctionOnSet(score[u], Problem \ local'[w].todo)
        /\ local'[w].used = SumFunctionOnSet(time[u], Problem \ local'[w].todo)
    BY <1>4, <2>3, <2>5, <2>6
  <2>8. Improves(w)' <=> Improves(w)
    BY <1>1, <1>5 DEF Improves
  <2>9. IOICall(w)'
    BY <1>1, <1>2, <1>5, <2>1, <2>7, <2>8 DEF IOICall, HasScored, HasTimed, redis
  <2> QED
    BY <1>1, <2>9 DEF CallFits
<1>7. ByRule(w)'
  BY <1>1, <1>5 DEF ByRule, HasScored
<1> QED
  BY <1>1, <1>2, <1>4, <1>5, <1>6, <1>7, MovesOnBoard

\* The total is written once the keys of all problems are summed.
LEMMA WriteTotalOnBoard ==
  ASSUME TypeInv, BoardInv, rule # "ACM", NEW w \in Worker, WriteTotal(w)
  PROVE  BoardInv'
<1>1. /\ pc[w] = "sum" /\ pc[w] # "idle" /\ local[w].todo = {} /\ Return(w)
      /\ UNCHANGED <<rule, created, row, wrong, solved, score, time, disturbed>>
      /\ rank' = IF local[w].passed > 0
                 THEN [rank EXCEPT ![U(w)] = EncodeIOI(local[w].passed, local[w].used)]
                 ELSE rank
  BY DEF WriteTotal, Fine, Outside
<1>2. PICK u \in User : u = U(w)
  BY <1>1, CallTypes
<1>3. /\ rank'[u] = IF local[w].passed > 0 THEN EncodeIOI(local[w].passed, local[w].used)
                    ELSE rank[u]
      /\ \A x \in User \ {u} : rank'[x] = rank[x]
  BY <1>1, <1>2, TypeFacts
<1>4. ASSUME u \notin disturbed PROVE BoardFits(u)'
  <2>1. PICK e \in Ranked :
          /\ e.problem = P(w) /\ e.result = cur[w].result /\ P(w) \in Problem
          /\ log[u] \in Seq(Ranked) /\ log'[u] = Append(log[u], e)
          /\ \A places : "idle" \notin places =>
               /\ Touched(u, places) = IF pc[w] \in places THEN {P(w)} ELSE {}
               /\ Touched(u, places)' = {}
    BY <1>1, <1>2, <1>4, ReturnOnBoard
  <2>2. Touched(u, HasScored) = {P(w)} /\ Touched(u, HasTimed) = {P(w)}
    BY <1>1, <2>1 DEF HasScored, HasTimed
  <2>3. IOIBoard(u) /\ IOICall(w)
    BY <1>1, <1>2, <1>4 DEF BoardInv, BoardFits, CallFits
  <2>4. /\ score[u][P(w)] = e.result.passed /\ time[u][P(w)] = e.result.used
        /\ e.result.passed > Best(log[u], P(w)) \/ Best(log[u], P(w)) = 0
        /\ local[w].passed = SumFunctionOnSet(score[u], Problem)
        /\ local[w].used = SumFunctionOnSet(time[u], Problem)
    <3>1. Problem \ local[w].todo = Problem
      BY <1>1
    <3>2. Improves(w) /\ score[u][P(w)] = cur[w].result.passed
          /\ time[u][P(w)] = cur[w].result.used
      BY <1>1, <1>2, <2>3 DEF IOICall, HasScored, HasTimed
    <3> QED
      BY <1>1, <1>2, <2>1, <2>3, <3>1, <3>2 DEF IOICall, Improves
  <2>5. /\ \A p \in Problem \ {P(w)} : /\ score[u][p] = Best(log[u], p)
                                       /\ time[u][p] = BestTime(log[u], p)
        /\ ShowsIOI(u)
    BY <2>2, <2>3 DEF IOIBoard
  <2>6. PICK l, m : /\ l = log[u] /\ l \in Seq(Ranked) /\ m = log'[u] /\ m = Append(l, e)
    BY <2>1
  <2>7. \A p \in Problem :
          /\ Best(m, p) = IF e.problem = p /\ e.result.passed > Best(l, p)
                          THEN e.result.passed ELSE Best(l, p)
          /\ BestTime(m, p) =
               IF e.problem = p /\ (e.result.passed > Best(l, p) \/ Best(l, p) = 0)
               THEN e.result.used ELSE BestTime(l, p)
          /\ Best(l, p) \in Nat
    BY <2>6, BestGrows, BestTimeGrows, BestIsLargest
  <2>8. e.result.passed \in Nat
    BY ContestRankAssumption DEF ContestRankAssumption, Ranked
  <2>9. PICK f, g : f = score[u] /\ g = time[u]
    OBVIOUS
  <2>10. f \in [Problem -> Nat] /\ g \in [Problem -> Nat] /\ IsFiniteSet(Problem)
    BY <2>9, TypeFacts, ContestRankAssumption DEF ContestRankAssumption
  <2>11. ASSUME NEW p \in Problem
         PROVE  f[p] = Best(m, p) /\ g[p] = BestTime(m, p) /\ Best(l, p) <= Best(m, p)
    <3>1. CASE p = P(w)
      <4>1. e.problem = p /\ (e.result.passed > Best(l, p) \/ Best(l, p) = 0)
        BY <2>1, <2>4, <2>6, <3>1
      <4>2. g[p] = BestTime(m, p)
        BY <2>4, <2>7, <2>9, <3>1, <4>1
      <4>3. f[p] = e.result.passed
        BY <2>4, <2>9, <3>1
      <4>4. Best(m, p) = e.result.passed /\ Best(l, p) <= Best(m, p)
        BY <2>7, <2>8, <4>1
      <4> QED
        BY <4>2, <4>3, <4>4
    <3>2. CASE p # P(w)
      BY <2>1, <2>5, <2>6, <2>7, <2>9, <3>2
    <3> QED
      BY <3>1, <3>2
  <2>12. /\ f = [p \in Problem |-> Best(m, p)]
         /\ g = [p \in Problem |-> BestTime(m, p)]
    BY <2>10, <2>11
  <2>13. /\ SumFunction([p \in Problem |-> Best(m, p)]) = local[w].passed
         /\ SumFunction([p \in Problem |-> BestTime(m, p)]) = local[w].used
    BY <2>4, <2>9, <2>10, <2>12 DEF SumFunction
  <2>14. rank'[u] = IF local[w].passed = 0 THEN Absent
                    ELSE EncodeIOI(local[w].passed, local[w].used)
    <3>1. local[w].passed \in Nat
      BY <1>1, CallTypes
    <3>2. CASE local[w].passed = 0
      <4>1. SumFunctionOnSet(f, Problem) = 0
        BY <2>4, <2>9, <3>2
      <4>2. \A p \in Problem : f[p] = 0
        BY <2>10, <4>1, SumIsZero
      <4>3. \A p \in Problem : Best(l, p) = 0
        BY <2>7, <2>11, <4>2
      <4>4. [p \in Problem |-> Best(l, p)] = f
        BY <2>10, <4>2, <4>3
      <4>5. SumFunction([p \in Problem |-> Best(l, p)]) = 0
        BY <2>10, <4>1, <4>4 DEF SumFunction
      <4>6. rank[u] = Absent
        BY <2>5, <2>6, <4>5 DEF ShowsIOI
      <4> QED
        BY <1>3, <3>2, <4>6
    <3>3. CASE local[w].passed > 0
      BY <1>3, <3>1, <3>3
    <3> QED
      BY <3>1, <3>2, <3>3
  <2>15. ShowsIOI(u)'
    BY <2>6, <2>13, <2>14 DEF ShowsIOI
  <2>16. \A p \in Problem : score'[u][p] = Best(log'[u], p) /\ time'[u][p] = BestTime(log'[u], p)
    BY <1>1, <2>6, <2>9, <2>11
  <2>17. IOIBoard(u)'
    BY <2>15, <2>16 DEF IOIBoard
  <2> QED
    BY <1>1, <2>17 DEF BoardFits
<1> QED
  BY <1>1, <1>2, <1>3, <1>4, EndsOnBoard

LEMMA CrashOnBoard ==
  ASSUME TypeInv, BoardInv, NEW w \in Worker, Crash(w)
  PROVE  BoardInv'
<1>1. /\ pc[w] # "idle" /\ GoTo(w, "idle") /\ Let(w, NoLocal)
      /\ cur' = [cur EXCEPT ![w] = Absent] /\ disturbed' = disturbed \cup {U(w)}
      /\ UNCHANGED <<rule, created, row, redis, log>>
  BY DEF Crash, Disturb
<1>2. PICK u \in User : u = U(w)
  BY <1>1, CallTypes
<1>3. /\ pc'[w] = "idle" /\ local'[w] = NoLocal
      /\ \A v \in Worker \ {w} : pc'[v] = pc[v] /\ cur'[v] = cur[v] /\ local'[v] = local[v]
  BY <1>1 DEF GoTo, Let, TypeInv, TypeOK
<1>4. ByRule(w)'
  BY <1>3 DEF ByRule
<1> QED
  BY <1>1, <1>2, <1>3, <1>4, OthersOnBoard DEF redis

\* So does a call that fails: its user is disturbed, and no other.
LEMMA FailsOnBoard ==
  ASSUME TypeInv, BoardInv, NEW w \in Worker, CallFails(w)
  PROVE  BoardInv'
<1>1. /\ pc[w] # "idle" /\ disturbed' = disturbed \cup {U(w)}
      /\ UNCHANGED <<rule, created, row>>
  BY DEF CallFails, ACMFails, IOIFails, Disturb, Outside
<1>2. PICK u \in User : u = U(w)
  BY <1>1, CallTypes
<1>3. PICK p \in Problem : p = P(w)
  BY <1>1, CallTypes
<1>4. Return(w) \/ \E st \in Places \ {"idle"} : \E l : GoOn(w, st, l)
  <2>1. {"mark", "penalty", "read", "add", "score", "time", "sum"} \subseteq Places \ {"idle"}
    BY DEF Places
  <2> QED
    BY <2>1 DEF CallFails, ACMFails, IOIFails, WithPenalty, Add
<1>5. \A v \in Worker \ {w} : pc'[v] = pc[v] /\ cur'[v] = cur[v] /\ local'[v] = local[v]
  BY <1>4 DEF Return, GoOn, GoTo, Let, TypeInv, TypeOK
<1>6. pc'[w] = "idle" \/ cur'[w] = cur[w]
  BY <1>4 DEF Return, GoOn, GoTo, TypeInv, TypeOK
<1>7. \A x \in User \ {u} : log'[x] = log[x]
  <2>1. CASE Return(w)
    BY <1>1, <1>2, <2>1, ReturnLogs
  <2>2. CASE \E st \in Places \ {"idle"} : \E l : GoOn(w, st, l)
    BY <2>2 DEF GoOn
  <2> QED
    BY <1>4, <2>1, <2>2
<1>8. /\ wrong' = wrong \/ \E n : wrong' = [wrong EXCEPT ![u][p] = n]
      /\ solved' = solved \/ \E n : solved' = [solved EXCEPT ![u][p] = n]
      /\ time' = time \/ \E n : time' = [time EXCEPT ![u][p] = n]
      /\ UNCHANGED <<score, rank>>
  BY <1>2, <1>3 DEF CallFails, ACMFails, IOIFails, redis
<1>9. \A x \in User \ {u} :
        /\ wrong'[x] = wrong[x] /\ solved'[x] = solved[x] /\ score'[x] = score[x]
        /\ time'[x] = time[x] /\ rank'[x] = rank[x]
  BY <1>8, TypeFacts
<1>10. ByRule(w)'
  <2>1. ByRule(w) /\ local[w] \in Locals /\ (rule = "ACM" \/ rule # "ACM")
    BY <1>1, CallTypes DEF BoardInv, Locals
  <2>2. CASE Return(w)
    <3>1. pc'[w] = "idle" /\ local'[w] = NoLocal
      BY <2>2 DEF Return, GoTo, Let, TypeInv, TypeOK
    <3> QED
      BY <3>1 DEF ByRule
  <2>3. ASSUME NEW st \in Places \ {"idle"}, NEW l, GoOn(w, st, l),
               /\ pc[w] \in {"check", "mark", "penalty", "read"} =>
                    /\ st \in {"mark", "penalty", "read", "add"}
                    /\ st \in {"mark", "penalty"} => pc[w] # "read" /\ l = local[w]
                    /\ st = "read" => pc[w] = "penalty" /\ l.solved = local[w].solved
                                      /\ l.total = local[w].total
               /\ pc[w] \notin {"check", "mark", "penalty", "read"} =>
                    pc[w] \in {"compare", "score", "time", "sum"} /\ st \in {"score", "time", "sum"}
        PROVE  ByRule(w)'
    <3>1. pc'[w] = st /\ local'[w] = l
      BY <2>3 DEF GoOn, GoTo, Let, TypeInv, TypeOK
    <3>2. pc[w] \in {"check", "mark", "penalty"} =>
            local[w].solved = 0 /\ local[w].total = 0 /\ local[w] = NoLocal
      BY <2>1 DEF ByRule, NoLocal
    <3> QED
      BY <1>1, <2>1, <2>3, <3>1, <3>2 DEF ByRule, HasMarked, HasScored
  <2>4. CASE ~Return(w)
    <3>1. {"mark", "penalty", "read", "add", "score", "time", "sum"} \subseteq Places \ {"idle"}
      BY DEF Places
    <3>2. CASE ACMFails(w)
      <4>1. CASE pc[w] \in {"check", "mark", "read"}
        BY <2>3, <2>4, <3>1, <3>2, <4>1 DEF ACMFails
      <4>2. CASE pc[w] = "penalty"
        <5> DEFINE l == [local[w] EXCEPT !.penalty = cur[w].result.at + 0 * WrongPenalty]
        <5>1. GoOn(w, "read", l)
          BY <3>2, <4>2 DEF ACMFails, WithPenalty
        <5>2. l.solved = local[w].solved /\ l.total = local[w].total
          BY <2>1 DEF Locals
        <5> HIDE DEF l
        <5> QED
          BY <2>3, <3>1, <4>2, <5>1, <5>2
      <4> QED
        BY <2>4, <3>2, <4>1, <4>2 DEF ACMFails
    <3>3. CASE IOIFails(w)
      BY <2>3, <2>4, <3>1, <3>3 DEF IOIFails, Add
    <3> QED
      BY <2>4, <3>2, <3>3 DEF CallFails
  <2> QED
    BY <2>2, <2>4
<1> QED
  BY <1>1, <1>2, <1>5, <1>6, <1>7, <1>9, <1>10, OthersOnBoard

LEMMA CallOnBoard ==
  ASSUME TypeInv, BoardInv, NEW w \in Worker, Call(w)
  PROVE  BoardInv'
<1>1. /\ pc[w] = "judged" /\ pc[w] # "idle"
      /\ UNCHANGED <<rule, created, row, redis, cur, local, log, disturbed>>
  BY DEF Call, history
<1>2. PICK st : /\ GoTo(w, st)
                /\ st = IF rule = "IOI" THEN "latest"
                        ELSE IF cur[w].result.accepted THEN "check" ELSE "wrong"
  BY DEF Call
<1>3. st \in {"latest", "check", "wrong"} /\ (rule = "ACM" <=> st # "latest")
  BY <1>2, TypeFacts
<1>4. pc'[w] = st /\ U(w)' = U(w) /\ P(w)' = P(w)
  BY <1>1, <1>2 DEF GoTo, TypeInv, TypeOK, U, P
<1>5. ByRule(w)'
  BY <1>1, <1>3, <1>4 DEF BoardInv, ByRule
<1>6. CallFits(w)'
  <2>1. CASE rule = "ACM"
    <3>1. cur'[w].result.accepted <=> st = "check"
      BY <1>1, <1>2, <1>3, <2>1
    <3>2. ACMCall(w)'
      BY <1>3, <1>4, <2>1, <3>1 DEF ACMCall, HasMarked
    <3> QED
      BY <1>1, <2>1, <3>2 DEF CallFits
  <2>2. CASE rule # "ACM"
    <3>1. IOICall(w)'
      BY <1>3, <1>4, <2>2 DEF IOICall, HasScored, HasTimed
    <3> QED
      BY <1>1, <2>2, <3>1 DEF CallFits
  <2> QED
    BY <2>1, <2>2
<1> QED
  BY <1>1, <1>2, <1>3, <1>5, <1>6, MovesOnBoard DEF HasMarked, HasScored, HasTimed

\* A new submission disturbs its author, if a call is under way, and is nobody else's rival.
LEMMA CreateOnBoard ==
  ASSUME TypeInv, BoardInv, Create
  PROVE  BoardInv'
<1> DEFINE a == Author[created + 1]
<1>1. /\ created' = created + 1 /\ created \in Nat /\ disturbed \subseteq disturbed'
      /\ (\E w \in Worker : pc[w] # "idle" /\ U(w) = a) => a \in disturbed'
      /\ UNCHANGED <<rule, row, redis, pc, cur, local, log>>
  BY TypeFacts DEF Create, Disturb, Active
<1> HIDE DEF a
<1>2. \A u : Working(u)' = Working(u)
  BY <1>1 DEF Working, U
<1>3. ASSUME NEW w \in Worker PROVE ByRule(w)'
  BY <1>1 DEF BoardInv, ByRule
<1>4. ASSUME NEW u \in User, u \notin disturbed' PROVE BoardFits(u)'
  <2>1. BoardFits(u)
    BY <1>1, <1>4 DEF BoardInv
  <2> QED
    BY <1>1, <1>2, <2>1, BoardSame DEF redis
<1>5. ASSUME NEW w \in Worker, pc'[w] # "idle", U(w)' \notin disturbed'
      PROVE  Lone(w)' /\ CallFits(w)'
  <2>1. U(w)' = U(w)
    BY <1>1 DEF U
  <2>2. pc[w] # "idle" /\ U(w) \notin disturbed /\ U(w) # a
    BY <1>1, <1>5, <2>1
  <2>3. Lone(w) /\ CallFits(w)
    BY <2>2 DEF BoardInv
  <2>4. Rivals(cur[w].sub)' = Rivals(cur[w].sub)
    <3>1. PICK s : s = cur[w].sub
      OBVIOUS
    <3>2. Author[s] # a
      BY <2>2, <3>1 DEF U
    <3>3. 1 .. created' = (1 .. created) \cup {created + 1}
      BY <1>1
    <3>4. Rivals(s)' = Rivals(s)
      BY <3>2, <3>3 DEF Rivals, a
    <3>5. Rivals(cur[w].sub)' = Rivals(s)'
      BY <1>1, <3>1 DEF Rivals
    <3> QED
      BY <3>1, <3>4, <3>5
  <2>5. Lone(w)'
    <3>1. Working(U(w))' = Working(U(w))
      BY <1>1 DEF Working, U
    <3> QED
      BY <1>1, <2>3, <2>4, <3>1 DEF Lone
  <2>6. CallFits(w)'
    <3>1. PICK u \in User : u = U(w)
      BY <2>2, CallTypes
    <3> QED
      BY <1>1, <2>3, <3>1, CallSame DEF redis
  <2> QED
    BY <2>5, <2>6
<1> QED
  BY <1>3, <1>4, <1>5 DEF BoardInv

\* A row that changes outside a call is read by calls of an IOI contest for its author
\* alone, whom the change disturbs.
LEMMA RowOnBoard ==
  ASSUME TypeInv, BoardInv, NEW s \in Sub, NEW x, row' = [row EXCEPT ![s] = x],
         UNCHANGED <<rule, created, redis, pc, cur, local, log>>,
         Disturb(Author[s], rule = "IOI" /\ Active(Author[s]))
  PROVE  BoardInv'
<1>1. disturbed \subseteq disturbed'
  BY DEF Disturb
<1>2. \A u : Working(u)' = Working(u)
  BY DEF Working, U
<1>3. ASSUME NEW w \in Worker PROVE ByRule(w)'
  BY DEF BoardInv, ByRule
<1>4. ASSUME NEW u \in User, u \notin disturbed' PROVE BoardFits(u)'
  <2>1. BoardFits(u)
    BY <1>1, <1>4 DEF BoardInv
  <2> QED
    BY <1>2, <2>1, BoardSame DEF redis
<1>5. ASSUME NEW w \in Worker, pc'[w] # "idle", U(w)' \notin disturbed'
      PROVE  Lone(w)' /\ CallFits(w)'
  <2>1. U(w)' = U(w) /\ pc[w] # "idle"
    BY <1>5 DEF U
  <2>2. U(w) \notin disturbed /\ Lone(w) /\ CallFits(w)
    BY <1>1, <1>5, <2>1 DEF BoardInv
  <2>3. rule # "ACM" => cur[w].sub # s
    <3>1. ASSUME rule # "ACM", cur[w].sub = s PROVE FALSE
      <4>1. rule = "IOI" /\ U(w) = Author[s] /\ Active(Author[s])
        BY <2>1, <3>1, TypeFacts DEF Active, U
      <4>2. Author[s] \in disturbed'
        BY <4>1 DEF Disturb
      <4> QED
        BY <1>5, <2>1, <4>1, <4>2
    <3> QED
      BY <3>1
  <2>4. rule # "ACM" => row'[cur[w].sub] = cur[w].result
    <3>1. cur[w].sub \in Sub
      BY <2>1, CallTypes
    <3> QED
      BY <2>2, <2>3, <3>1 DEF Lone, TypeInv, TypeOK
  <2>5. Lone(w)'
    <3>1. /\ Working(U(w))' = Working(U(w)) /\ Rivals(cur[w].sub)' = Rivals(cur[w].sub)
          /\ cur' = cur /\ rule' = rule
      BY DEF Working, U, Rivals
    <3> QED
      BY <2>2, <2>4, <3>1 DEF Lone
  <2>6. CallFits(w)'
    <3>1. PICK u \in User : u = U(w)
      BY <2>1, CallTypes
    <3> QED
      BY <2>2, <3>1, CallSame DEF redis
  <2> QED
    BY <2>5, <2>6
<1> QED
  BY <1>3, <1>4, <1>5 DEF BoardInv

\* A call that starts disturbs its user, unless it is the only one and for the newest
\* submission, whose row an IOI contest has.
LEMMA JudgeOnBoard ==
  ASSUME TypeInv, BoardInv, NEW w \in Worker, NEW s \in Sub, NEW r \in Result, Judge(w, s, r)
  PROVE  BoardInv'
<1> DEFINE a == Author[s]
<1>1. /\ pc[w] = "idle" /\ s \in 1 .. created /\ a \in User
      /\ row' = row \/ row' = [row EXCEPT ![s] = r]
      /\ disturbed \subseteq disturbed'
      /\ a \notin disturbed' => /\ \A v \in Worker : pc[v] # "idle" => U(v) # a
                                /\ s = Max(Rivals(s))
                                /\ rule # "ACM" => row' = [row EXCEPT ![s] = r]
      /\ UNCHANGED <<rule, created, redis, local, log>>
  <2>1. s \in 1 .. created /\ a \in User
    BY ContestRankAssumption, TypeFacts DEF ContestRankAssumption, Judge, Sub
  <2>2. disturbed' = disturbed \cup
          (IF Active(a) \/ s # Max(Rivals(s)) \/ (rule = "IOI" /\ faults' # faults)
           THEN {a} ELSE {})
    BY DEF Judge, Disturb
  <2>3. a \notin disturbed' => /\ ~Active(a) /\ s = Max(Rivals(s))
                               /\ ~(rule = "IOI" /\ faults' # faults)
    <3> DEFINE c == Active(a) \/ s # Max(Rivals(s)) \/ (rule = "IOI" /\ faults' # faults)
    <3>1. c => a \in disturbed'
      <4>1. disturbed' = disturbed \cup (IF c THEN {a} ELSE {})
        BY <2>2
      <4> HIDE DEF c, a
      <4> QED
        BY <4>1
    <3> QED
      BY <3>1
  <2>4. a \notin disturbed' => /\ \A v \in Worker : pc[v] # "idle" => U(v) # a
                               /\ s = Max(Rivals(s))
                               /\ rule # "ACM" => row' = [row EXCEPT ![s] = r]
    <3>1. row' = [row EXCEPT ![s] = r] \/ faults' = faults + 1
      BY DEF Judge
    <3>2. faults \in Nat
      BY ContestRankAssumption DEF ContestRankAssumption, TypeInv, TypeOK
    <3> QED
      BY <2>3, <3>1, <3>2, TypeFacts DEF Active
  <2>5. disturbed \subseteq disturbed'
    BY <2>2
  <2>6. row' = row \/ row' = [row EXCEPT ![s] = r]
    BY DEF Judge
  <2> QED
    BY <2>1, <2>4, <2>5, <2>6 DEF Judge
<1>2. /\ pc'[w] = "judged" /\ cur'[w] = [sub |-> s, result |-> r]
      /\ \A v \in Worker \ {w} : pc'[v] = pc[v] /\ cur'[v] = cur[v]
  BY DEF Judge, GoTo, TypeInv, TypeOK
<1>3. U(w)' = a
  BY <1>2 DEF U
<1> HIDE DEF a
<1>4. ASSUME NEW v \in Worker PROVE ByRule(v)'
  <2>1. CASE v = w
    <3>1. local[w] = NoLocal
      BY <1>1 DEF BoardInv, ByRule
    <3> QED
      BY <1>1, <1>2, <2>1, <3>1 DEF ByRule
  <2>2. CASE v # w
    BY <1>1, <1>2, <2>2 DEF BoardInv, ByRule
  <2> QED
    BY <2>1, <2>2
<1>5. ASSUME NEW u \in User, u # a
      PROVE  Working(u)' = Working(u) /\ \A v \in Working(u) : pc'[v] = pc[v] /\ cur'[v] = cur[v]
  <2>1. \A v \in Worker : v \in Working(u)' <=> v \in Working(u)
    <3> SUFFICES ASSUME NEW v \in Worker PROVE v \in Working(u)' <=> v \in Working(u)
      OBVIOUS
    <3>1. CASE v = w
      BY <1>1, <1>3, <1>5, <3>1 DEF Working
    <3>2. CASE v # w
      BY <1>2, <3>2 DEF Working, U
    <3> QED
      BY <3>1, <3>2
  <2>2. Working(u)' = Working(u)
    BY <2>1 DEF Working
  <2>3. \A v \in Working(u) : v # w /\ v \in Worker
    BY <1>1 DEF Working
  <2> QED
    BY <1>2, <2>2, <2>3
<1>6. ASSUME a \notin disturbed' PROVE Working(a) = {} /\ Working(a)' = {w}
  <2>1. Working(a) = {}
    BY <1>1, <1>6 DEF Working
  <2>2. \A v \in Worker : v \in Working(a)' <=> v = w
    <3> SUFFICES ASSUME NEW v \in Worker PROVE v \in Working(a)' <=> v = w
      OBVIOUS
    <3>1. CASE v = w
      BY <1>2, <1>3, <3>1 DEF Working
    <3>2. CASE v # w
      BY <1>2, <2>1, <3>2 DEF Working, U
    <3> QED
      BY <3>1, <3>2
  <2> QED
    BY <2>1, <2>2 DEF Working
<1>7. ASSUME NEW u \in User, u \notin disturbed' PROVE BoardFits(u)'
  <2>1. BoardFits(u)
    BY <1>1, <1>7 DEF BoardInv
  <2>2. CASE u # a
    BY <1>1, <1>5, <2>1, <2>2, BoardSame DEF redis
  <2>3. CASE u = a
    <3>1. Working(u) = {} /\ Working(u)' = {w}
      BY <1>6, <1>7, <2>3
    <3>2. ASSUME NEW places, "judged" \notin places
          PROVE  Touched(u, places) = {} /\ Touched(u, places)' = {}
      <4>1. Touched(u, places) = {}
        BY <3>1 DEF Touched
      <4>2. {v \in Working(u)' : pc'[v] \in places} = {}
        BY <1>2, <3>1, <3>2
      <4>3. Touched(u, places)' = {P(v)' : v \in {x \in Working(u)' : pc'[x] \in places}}
        BY Zenon DEF Touched
      <4> QED
        BY <4>1, <4>2, <4>3
    <3>3. /\ Touched(u, HasMarked)' = Touched(u, HasMarked)
          /\ Touched(u, HasScored)' = Touched(u, HasScored)
          /\ Touched(u, HasTimed)' = Touched(u, HasTimed)
      <4>1. "judged" \notin HasMarked /\ "judged" \notin HasScored /\ "judged" \notin HasTimed
        BY DEF HasMarked, HasScored, HasTimed
      <4> QED
        BY <3>2, <4>1
    <3>4. ShowsIOI(u)' <=> ShowsIOI(u)
      BY <1>1 DEF ShowsIOI, redis
    <3>5. CASE rule = "ACM"
      BY <1>1, <2>1, <3>3, <3>5 DEF BoardFits, ACMBoard, redis
    <3>6. CASE rule # "ACM"
      BY <1>1, <2>1, <3>3, <3>4, <3>6 DEF BoardFits, IOIBoard, redis
    <3> QED
      BY <3>5, <3>6
  <2> QED
    BY <2>2, <2>3
<1>8. \A x : Rivals(x)' = Rivals(x)
  BY <1>1 DEF Rivals
<1>9. ASSUME NEW v \in Worker, pc'[v] # "idle", U(v)' \notin disturbed'
      PROVE  Lone(v)' /\ CallFits(v)'
  <2>1. CASE v = w
    <3>1. Working(U(w))' = {w}
      <4>1. Working(U(w))' = Working(a)'
        BY <1>3 DEF Working
      <4> QED
        BY <1>3, <1>6, <1>9, <2>1, <4>1
    <3>2. rule # "ACM" => row'[s] = r
      BY <1>1, <1>3, <1>9, <2>1 DEF TypeInv, TypeOK
    <3>3. \A x \in Rivals(s) : x <= s
      <4>1. s = Max(Rivals(s)) /\ s \in Int
        BY <1>1, <1>3, <1>9, <2>1
      <4>2. \A x \in Rivals(s) : Max(Rivals(s)) >= x /\ x \in Int
        <5>1. \A x \in Rivals(s) : Max(Rivals(s)) >= x
          BY <1>1, RivalTypes
        <5>2. Rivals(s) \subseteq 1 .. created /\ created \in Nat
          BY ContestRankAssumption DEF Rivals, TypeInv, TypeOK, ContestRankAssumption
        <5> QED
          BY <5>1, <5>2
      <4> QED
        BY <4>1, <4>2
    <3>4. \A x \in Rivals(cur[w].sub)' : x <= s
      <4>1. Rivals(cur[w].sub)' = Rivals(s)'
        BY <1>2 DEF Rivals
      <4> QED
        BY <1>8, <3>3, <4>1
    <3>5. cur'[w].sub = s /\ cur'[w].result = r
      BY <1>2
    <3>6. Lone(w)'
      BY <1>1, <3>1, <3>2, <3>4, <3>5 DEF Lone
    <3>7. CallFits(w)'
      BY <1>2 DEF CallFits, ACMCall, IOICall, HasMarked, HasScored, HasTimed
    <3> QED
      BY <2>1, <3>6, <3>7
  <2>2. CASE v # w
    <3>1. pc[v] # "idle" /\ pc'[v] = pc[v] /\ cur'[v] = cur[v] /\ U(v)' = U(v)
          /\ U(v) \notin disturbed
      BY <1>1, <1>2, <1>9, <2>2 DEF U
    <3>2. U(v) # a
      BY <1>1, <1>9, <3>1
    <3>3. PICK u \in User : u = U(v)
      BY <3>1, CallTypes
    <3>4. Lone(v) /\ CallFits(v)
      BY <3>1 DEF BoardInv
    <3>5. CallFits(v)'
      <4>1. /\ rule' = rule /\ local'[v] = local[v] /\ log'[u] = log[u]
            /\ score'[u] = score[u] /\ time'[u] = time[u]
        BY <1>1 DEF redis
      <4> QED
        BY <3>1, <3>3, <3>4, <4>1, CallSame
    <3>6. Working(U(v))' = Working(U(v))
      <4>1. Working(U(v))' = Working(u)'
        BY <3>1, <3>3 DEF Working
      <4> QED
        BY <1>5, <3>2, <3>3, <4>1
    <3>7. row'[cur[v].sub] = row[cur[v].sub]
      <4>1. cur[v].sub # s
        BY <3>2 DEF a, U
      <4>2. cur[v].sub \in Sub
        BY <3>1, CallTypes
      <4> QED
        BY <1>1, <4>1, <4>2 DEF TypeInv, TypeOK
    <3>8. Lone(v)'
      BY <1>1, <1>8, <3>1, <3>4, <3>6, <3>7 DEF Lone
    <3> QED
      BY <3>5, <3>8
  <2> QED
    BY <2>1, <2>2
<1> QED
  BY <1>4, <1>7, <1>9 DEF BoardInv

LEMMA InitOnBoard == Init => BoardInv
<1> SUFFICES ASSUME Init PROVE BoardInv
  OBVIOUS
<1>1. \A w \in Worker : ByRule(w) /\ pc[w] = "idle"
  BY DEF Init, ByRule
<1>2. ASSUME NEW u \in User PROVE BoardFits(u)
  <2>1. Working(u) = {}
    BY <1>1 DEF Working
  <2>2. \A places : Touched(u, places) = {}
    BY <2>1 DEF Touched
  <2>3. /\ log[u] = <<>> /\ rank[u] = Absent
        /\ \A p \in Problem : wrong[u][p] = 0 /\ solved[u][p] = 0
                              /\ score[u][p] = 0 /\ time[u][p] = 0
    BY DEF Init
  <2>4. Solved(<<>>) = {}
    BY DEF Solved, Accepted, Calls
  <2>5. ACMBoard(u)
    <3>1. \A p \in Problem : Calls(<<>>, p) = {} /\ Accepted(<<>>, p) = {}
      BY EmptyLog
    <3>2. Cardinality({}) = 0
      BY FS_EmptySet
    <3>3. ASSUME NEW p \in Problem
          PROVE  /\ wrong[u][p] = Cardinality(Calls(log[u], p))
                 /\ solved[u][p] > 0 <=> Accepted(log[u], p) # {} \/ p \in Touched(u, HasMarked)
      <4>1. Touched(u, HasMarked) = {}
        BY <2>2
      <4>2. wrong[u][p] = 0 /\ solved[u][p] = 0
        BY <2>3
      <4>3. Calls(log[u], p) = {} /\ Accepted(log[u], p) = {}
        BY <2>3, <3>1
      <4> QED
        BY <3>2, <4>1, <4>2, <4>3
    <3>4. rank[u] = ACMEntry(log[u])
      BY <2>3, <2>4 DEF ACMEntry
    <3> QED
      BY <3>3, <3>4 DEF ACMBoard
  <2>6. ShowsIOI(u)
    <3> DEFINE f == [p \in Problem |-> Best(log[u], p)]
    <3>1. \A p \in Problem : f[p] = 0
      BY <2>3, EmptyLog
    <3>2. SumFunction(f) = SumFunctionOnSet(f, Problem)
      BY DEF SumFunction
    <3> HIDE DEF f
    <3>3. SumFunctionOnSet(f, Problem) = 0
      BY <3>1, SumIsZero, ContestRankAssumption DEF ContestRankAssumption
    <3> QED
      BY <2>3, <3>2, <3>3 DEF ShowsIOI, f
  <2>7. IOIBoard(u)
    BY <2>2, <2>3, <2>6, EmptyLog DEF IOIBoard
  <2> QED
    BY <2>5, <2>7 DEF BoardFits
<1> QED
  BY <1>1, <1>2 DEF BoardInv

LEMMA BoardStep == TypeInv /\ BoardInv /\ [Next]_vars => BoardInv'
<1> SUFFICES ASSUME TypeInv, BoardInv, [Next]_vars PROVE BoardInv'
  OBVIOUS
<1>1. ASSUME NEW w \in Worker, UpdateACM(w) PROVE BoardInv'
  <2>1. rule = "ACM"
    BY <1>1 DEF BoardInv, ByRule, HasScored, UpdateACM, CountWrong, CheckSolved, MarkSolved,
                ReadWrong, ReadRank, AddRank
  <2> QED
    BY <1>1, <2>1, CountWrongOnBoard, CheckSolvedOnBoard, MarkSolvedOnBoard, ReadWrongOnBoard,
       ReadRankOnBoard, AddRankOnBoard DEF UpdateACM
<1>2. ASSUME NEW w \in Worker, UpdateIOI(w) PROVE BoardInv'
  <2>1. rule # "ACM"
    BY <1>2 DEF BoardInv, ByRule, HasMarked, UpdateIOI, ReadLatest, CompareBest, SetScore,
                SetTime, SumProblem, WriteTotal
  <2> QED
    BY <1>2, <2>1, ReadLatestOnBoard, CompareBestOnBoard, SetScoreOnBoard, SetTimeOnBoard,
       SumProblemOnBoard, WriteTotalOnBoard DEF UpdateIOI
<1>3. ASSUME UNCHANGED vars PROVE BoardInv'
  <2>1. UNCHANGED <<rule, created, row, redis, pc, cur, local, log, disturbed>>
    BY <1>3 DEF vars, history
  <2>2. \A u : Working(u)' = Working(u)
    BY <2>1 DEF Working, U
  <2>3. ASSUME NEW w \in Worker PROVE ByRule(w)'
    BY <2>1 DEF BoardInv, ByRule
  <2>4. ASSUME NEW u \in User, u \notin disturbed' PROVE BoardFits(u)'
    <3>1. BoardFits(u)
      BY <2>1, <2>4 DEF BoardInv
    <3> QED
      BY <2>1, <2>2, <3>1, BoardSame DEF redis
  <2>5. ASSUME NEW w \in Worker, pc'[w] # "idle", U(w)' \notin disturbed'
        PROVE  Lone(w)' /\ CallFits(w)'
    <3>1. pc[w] # "idle" /\ U(w) \notin disturbed
      BY <2>1, <2>5 DEF U
    <3>2. Lone(w) /\ CallFits(w)
      BY <3>1 DEF BoardInv
    <3>3. PICK u \in User : u = U(w)
      BY <3>1, CallTypes
    <3>4. CallFits(w)'
      BY <2>1, <3>2, <3>3, CallSame DEF redis
    <3>5. Lone(w)'
      BY <2>1, <3>2 DEF Lone, Working, U, Rivals
    <3> QED
      BY <3>4, <3>5
  <2> QED
    BY <2>3, <2>4, <2>5 DEF BoardInv
<1>4. ASSUME NEW s \in Sub, Rejudge(s) PROVE BoardInv'
  BY <1>4, RowOnBoard DEF Rejudge
<1>5. ASSUME NEW s \in Sub, NEW r \in Result, WriteUnranked(s, r) PROVE BoardInv'
  BY <1>5, RowOnBoard DEF WriteUnranked
<1> QED
  BY <1>1, <1>2, <1>3, <1>4, <1>5, CreateOnBoard, JudgeOnBoard, CallOnBoard, CrashOnBoard,
     FailsOnBoard DEF Next

LEMMA BoardInvariant == Spec => []BoardInv
<1> QED
  BY InitOnBoard, BoardStep, TypesInvariant, PTL DEF Spec

\* Of a user for whom no calls overlapped, none crashed or was failed by Redis or MySQL and
\* each ranked the newest submission, the scoreboard shows what the rules give for the
\* calls that ended, whatever was rejudged between them and whatever happened to others.
THEOREM BoardShowsVerdicts == Spec => []BoardMatchesVerdicts
<1>1. TypeInv /\ BoardInv => BoardMatchesVerdicts
  <2> SUFFICES ASSUME TypeInv, BoardInv, NEW u \in User, Quiet(u)
               PROVE  IF rule = "ACM"
                      THEN TotalPenalty(log[u]) < ACMWeight => ShowsACM(u) ELSE ShowsIOI(u)
    BY DEF BoardMatchesVerdicts
  <2>1. BoardFits(u)
    BY DEF BoardInv, Quiet
  <2>2. CASE rule # "ACM"
    BY <2>1, <2>2 DEF BoardFits, IOIBoard
  <2>3. ASSUME rule = "ACM", TotalPenalty(log[u]) < ACMWeight PROVE ShowsACM(u)
    <3>1. rank[u] = ACMEntry(log[u]) /\ log[u] \in Seq(Ranked)
      BY <2>1, <2>3 DEF BoardFits, ACMBoard, TypeInv, TypeOK
    <3>2. Cardinality(Solved(log[u])) \in Nat /\ TotalPenalty(log[u]) \in Nat
      BY <3>1, TotalTypes
    <3>3. CASE Solved(log[u]) = {}
      BY <3>1, <3>3 DEF ACMEntry, ShowsACM
    <3>4. CASE Solved(log[u]) # {}
      <4>1. rank[u] = EncodeACM(Cardinality(Solved(log[u])), TotalPenalty(log[u]))
        BY <3>1, <3>4 DEF ACMEntry
      <4>2. /\ rank[u] \in Int
            /\ SolvedIn(rank[u]) = Cardinality(Solved(log[u]))
            /\ PenaltyIn(rank[u]) = TotalPenalty(log[u])
        BY <2>3, <3>2, <4>1, DecodesWhatWasEncoded
      <4> QED
        BY <3>4, <4>2, TypeFacts DEF ShowsACM
    <3> QED
      BY <3>3, <3>4
  <2> QED
    BY <2>2, <2>3
<1> QED
  BY <1>1, TypesInvariant, BoardInvariant, PTL
=============================================================================
