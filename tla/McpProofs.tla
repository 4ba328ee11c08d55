------------------------------ MODULE McpProofs ------------------------------
(***************************************************************************)
(* What holds of jobctl-mcp for any constants: of a call of a QuickBooks   *)
(* tool (QboTools), whatever the books, links, classes and customers and   *)
(* however they change, and of the server (McpServer), for any number of   *)
(* messages and any number of times the database goes away.                *)
(***************************************************************************)
EXTENDS McpServer, QboTools, TLAPS, FiniteSetTheorems, SequenceTheorems, WellFoundedInduction

-----------------------------------------------------------------------------
(* What InOrder makes of a finite set.  An order is a set of pairs here.   *)

IsStrictOrder(R, S) ==
    /\ \A x \in S : <<x, x>> \notin R
    /\ \A x, y \in S : x # y => <<x, y>> \in R \/ <<y, x>> \in R
    /\ IsTransitivelyClosedOn(R, S)

LEMMA LeastNumber ==
    ASSUME NEW S \in SUBSET Nat, S # {}
    PROVE  Min(S) \in S /\ \A y \in S : Min(S) =< y
<1> DEFINE R == {p \in Nat \X Nat : p[1] < p[2]}
<1>1. \E x \in S : \A y \in S : ~(<<y, x>> \in R)
  BY NatLessThanWellFounded, WFMin DEF OpToRel
<1>2. \A x, y \in Nat : <<y, x>> \in R <=> y < x
  OBVIOUS
<1> HIDE DEF R
<1>3. PICK x \in S : \A y \in S : ~(<<y, x>> \in R)
  BY <1>1
<1>4. \A y \in S : x =< y
  <2> TAKE y \in S
  <2>1. x \in Nat /\ y \in Nat /\ ~(y < x)
    BY <1>2, <1>3
  <2> QED BY <2>1
<1> QED BY <1>4 DEF Min

(* How many come before x.                                                 *)
Preceding(x, R, S) == Cardinality(SetLessThan(x, R, S))

LEMMA PrecedingIsOrder ==
    ASSUME NEW S, IsFiniteSet(S), NEW R, IsStrictOrder(R, S)
    PROVE  /\ Cardinality(S) \in Nat
           /\ \A x \in S : Preceding(x, R, S) \in 0..(Cardinality(S) - 1)
           /\ \A x, y \in S : <<x, y>> \in R <=> Preceding(x, R, S) < Preceding(y, R, S)
           /\ \A x, y \in S : Preceding(x, R, S) = Preceding(y, R, S) => x = y
<1>1. Cardinality(S) \in Nat
  BY FS_CardinalityType
<1>2. \A x \in S : /\ SetLessThan(x, R, S) \in SUBSET S
                   /\ x \notin SetLessThan(x, R, S)
  BY DEF SetLessThan, IsStrictOrder
<1>3. \A x \in S : IsFiniteSet(SetLessThan(x, R, S)) /\ Preceding(x, R, S) \in Nat
  BY <1>2, FS_Subset, FS_CardinalityType DEF Preceding
<1>4. \A x \in S : Preceding(x, R, S) < Cardinality(S)
  <2> TAKE x \in S
  <2>1. SetLessThan(x, R, S) # S
    BY <1>2
  <2> QED BY <1>1, <1>2, <1>3, <2>1, FS_Subset DEF Preceding
<1>5. ASSUME NEW x \in S, NEW y \in S, <<x, y>> \in R
      PROVE  Preceding(x, R, S) < Preceding(y, R, S)
  <2>1. SetLessThan(x, R, S) \in SUBSET SetLessThan(y, R, S)
    BY <1>5 DEF SetLessThan, IsStrictOrder, IsTransitivelyClosedOn
  <2>2. x \in SetLessThan(y, R, S) /\ x \notin SetLessThan(x, R, S)
    BY <1>2, <1>5 DEF SetLessThan
  <2>3. Cardinality(SetLessThan(x, R, S)) <= Cardinality(SetLessThan(y, R, S))
    BY <1>3, <2>1, FS_Subset
  <2>4. Cardinality(SetLessThan(x, R, S)) # Cardinality(SetLessThan(y, R, S))
    BY <1>3, <2>1, <2>2, FS_Subset
  <2> QED BY <1>3, <2>3, <2>4 DEF Preceding
<1>6. \A x, y \in S : <<x, y>> \in R \/ x = y \/ <<y, x>> \in R
  BY DEF IsStrictOrder
<1>7. \A x, y \in S : <<x, y>> \in R <=> Preceding(x, R, S) < Preceding(y, R, S)
  <2> TAKE x, y \in S
  <2>1. Preceding(x, R, S) \in Nat /\ Preceding(y, R, S) \in Nat
    BY <1>3
  <2>2. CASE <<x, y>> \in R
    BY <1>5, <2>2
  <2>3. CASE x = y
    BY <2>1, <2>3 DEF IsStrictOrder
  <2>4. CASE <<y, x>> \in R /\ ~(<<x, y>> \in R)
    BY <1>5, <2>1, <2>4
  <2> QED BY <1>6, <2>2, <2>3, <2>4
<1>8. \A x, y \in S : Preceding(x, R, S) = Preceding(y, R, S) => x = y
  <2> TAKE x, y \in S
  <2>1. Preceding(x, R, S) \in Nat /\ Preceding(y, R, S) \in Nat
    BY <1>3
  <2>2. <<x, y>> \in R => Preceding(x, R, S) # Preceding(y, R, S)
    BY <1>5, <2>1
  <2>3. <<y, x>> \in R => Preceding(x, R, S) # Preceding(y, R, S)
    BY <1>5, <2>1
  <2> QED BY <1>6, <2>2, <2>3
<1>9. \A x \in S : Preceding(x, R, S) \in 0..(Cardinality(S) - 1)
  BY <1>1, <1>3, <1>4
<1> QED BY <1>1, <1>7, <1>8, <1>9

(* Every place is taken.                                                   *)
LEMMA PlacesAreTaken ==
    ASSUME NEW S, IsFiniteSet(S), NEW R, IsStrictOrder(R, S),
           NEW n \in 0..(Cardinality(S) - 1)
    PROVE  \E x \in S : Preceding(x, R, S) = n
<1> DEFINE f == [x \in S |-> Preceding(x, R, S)]
           T == 0..(Cardinality(S) - 1)
<1>1. f \in Injection(S, T)
  BY PrecedingIsOrder DEF Injection, IsInjective
<1>2. Cardinality(S) \in Nat
  BY PrecedingIsOrder
<1>3. IsFiniteSet(T) /\ Cardinality(T) = Cardinality(S)
  BY <1>2, FS_Interval
<1>4. f \in Surjection(S, T)
  BY <1>1, <1>3, FS_Injection
<1> QED BY <1>4 DEF Surjection

(* A function that has at each place the one with as many before it is S   *)
(* in order.                                                               *)
LEMMA OrderedBy ==
    ASSUME NEW S, IsFiniteSet(S), NEW R, IsStrictOrder(R, S),
           NEW s, s = [n \in 1..Cardinality(S) |-> s[n]],
           \A n \in 1..Cardinality(S) :
               (\E x \in S : Preceding(x, R, S) = n - 1)
                   => s[n] \in S /\ Preceding(s[n], R, S) = n - 1
    PROVE  /\ s \in Seq(S) /\ Len(s) = Cardinality(S)
           /\ \A n \in 1..Cardinality(S) : s[n] \in S /\ Preceding(s[n], R, S) = n - 1
           /\ \A x \in S : s[Preceding(x, R, S) + 1] = x
<1>1. Cardinality(S) \in Nat
  BY PrecedingIsOrder
<1>2. \A n \in 1..Cardinality(S) : s[n] \in S /\ Preceding(s[n], R, S) = n - 1
  <2> TAKE n \in 1..Cardinality(S)
  <2>1. n - 1 \in 0..(Cardinality(S) - 1)
    BY <1>1
  <2> QED BY <2>1, PlacesAreTaken
<1>3. s \in Seq(S) /\ Len(s) = Cardinality(S)
  BY <1>1, <1>2
<1>4. ASSUME NEW x \in S PROVE s[Preceding(x, R, S) + 1] = x
  <2> DEFINE n == Preceding(x, R, S) + 1
  <2>1. n \in 1..Cardinality(S) /\ Preceding(x, R, S) = n - 1
    BY <1>1, PrecedingIsOrder
  <2>2. s[n] \in S /\ Preceding(s[n], R, S) = Preceding(x, R, S)
    BY <1>2, <2>1
  <2> QED BY <2>2, PrecedingIsOrder
<1> QED BY <1>2, <1>3, <1>4

-----------------------------------------------------------------------------
(* The days of invoices: how many are from before a day, and how many from *)
(* it or before, say which places of a query are the day's.                *)

Earlier(S, day) == Cardinality({i \in S : i.date < day})

Until(S, day) == Cardinality({i \in S : i.date <= day})

LEMMA CountsOfDays ==
    ASSUME NEW S \in SUBSET Invoices
    PROVE  /\ IsFiniteSet(S) /\ Cardinality(S) \in Nat
           /\ \A i \in S : i.date \in Nat
           /\ \A d \in Nat : Earlier(S, d) \in Nat /\ Until(S, d) \in Nat
           /\ \A d \in Nat : Until(S, d) <= Cardinality(S)
           /\ \A d, e \in Nat : d < e => Until(S, d) <= Earlier(S, e)
           /\ \A i \in S : Earlier(S, i.date) < Until(S, i.date)
<1>1. IsFiniteSet(S) /\ \A i \in S : i.date \in Nat
  BY ToolsAssumption, FS_Subset
<1>2. \A T \in SUBSET S : IsFiniteSet(T) /\ Cardinality(T) \in Nat /\ Cardinality(T) <= Cardinality(S)
  BY <1>1, FS_Subset, FS_CardinalityType
<1>3. \A d : {i \in S : i.date < d} \in SUBSET S /\ {i \in S : i.date <= d} \in SUBSET S
  OBVIOUS
<1>4. \A d \in Nat : Earlier(S, d) \in Nat /\ Until(S, d) \in Nat /\ Until(S, d) <= Cardinality(S)
  BY <1>2, <1>3 DEF Earlier, Until
<1>5. ASSUME NEW d \in Nat, NEW e \in Nat, d < e PROVE Until(S, d) <= Earlier(S, e)
  <2>1. {i \in S : i.date <= d} \in SUBSET {i \in S : i.date < e}
    BY <1>1, <1>5
  <2> QED BY <1>2, <1>3, <2>1, FS_Subset DEF Earlier, Until
<1>6. ASSUME NEW i \in S PROVE Earlier(S, i.date) < Until(S, i.date)
  <2> DEFINE A == {j \in S : j.date < i.date}
             B == {j \in S : j.date <= i.date}
  <2>1. A \in SUBSET B /\ i \in B /\ i \notin A
    BY <1>1
  <2>2. IsFiniteSet(B) /\ Cardinality(B) \in Nat /\ Cardinality(A) \in Nat
    BY <1>2, <1>3
  <2>3. Earlier(S, i.date) = Cardinality(A) /\ Until(S, i.date) = Cardinality(B)
    BY DEF Earlier, Until
  <2> HIDE DEF A, B
  <2>4. Cardinality(A) <= Cardinality(B) /\ (Cardinality(B) = Cardinality(A) => B = A)
    BY <2>1, <2>2, FS_Subset
  <2> QED BY <2>1, <2>2, <2>3, <2>4
<1>7. Cardinality(S) \in Nat
  BY <1>1, FS_CardinalityType
<1> QED BY <1>1, <1>4, <1>5, <1>6, <1>7

(* With invoices removed, fewer are from before a day, if anything.        *)
LEMMA CountsGrow ==
    ASSUME NEW T \in SUBSET Invoices, NEW S \in SUBSET T, NEW d \in Nat
    PROVE  Earlier(S, d) <= Earlier(T, d) /\ Earlier(S, d) \in Nat /\ Earlier(T, d) \in Nat
<1>1. {i \in S : i.date < d} \in SUBSET {i \in T : i.date < d}
  OBVIOUS
<1>2. IsFiniteSet(T) /\ {i \in T : i.date < d} \in SUBSET T
  BY ToolsAssumption, FS_Subset
<1>3. IsFiniteSet({i \in T : i.date < d})
  BY <1>2, FS_Subset
<1> QED BY <1>1, <1>3, FS_Subset, FS_CardinalityType DEF Earlier

(* A day has as many invoices as places.                                   *)
LEMMA InvoicesOfDay ==
    ASSUME NEW S \in SUBSET Invoices, NEW d \in Nat
    PROVE  LET D == {i \in S : i.date = d}
           IN  IsFiniteSet(D) /\ Cardinality(D) = Until(S, d) - Earlier(S, d)
<1> DEFINE A == {i \in S : i.date < d}
           B == {i \in S : i.date <= d}
           D == {i \in S : i.date = d}
<1>1. IsFiniteSet(S) /\ \A i \in S : i.date \in Nat
  BY ToolsAssumption, FS_Subset
<1>2. B = A \cup D /\ A \cap D = {}
  BY <1>1
<1>3. A \in SUBSET S /\ D \in SUBSET S
  OBVIOUS
<1>4. Until(S, d) = Cardinality(B) /\ Earlier(S, d) = Cardinality(A)
  BY DEF Until, Earlier
<1> HIDE DEF A, B, D
<1>5. IsFiniteSet(A) /\ IsFiniteSet(D) /\ Cardinality(A) \in Nat /\ Cardinality(D) \in Nat
  BY <1>1, <1>3, FS_Subset, FS_CardinalityType
<1>6. Cardinality(B) = Cardinality(A) + Cardinality(D) - Cardinality(A \cap D)
  BY <1>2, <1>5, FS_Union
<1>7. Cardinality(A \cap D) = 0
  BY <1>2, FS_EmptySet
<1>8. Cardinality(D) = Until(S, d) - Earlier(S, d)
  BY <1>4, <1>5, <1>6, <1>7
<1> QED BY <1>5, <1>8 DEF D

-----------------------------------------------------------------------------
(* A page.                                                                 *)

LEMMA MinOfTwo ==
    ASSUME NEW a \in Int, NEW b \in Int
    PROVE  Min({a, b}) = IF a <= b THEN a ELSE b
<1> DEFINE m == IF a <= b THEN a ELSE b
<1>1. m \in {a, b} /\ \A y \in {a, b} : m =< y
  OBVIOUS
<1>2. \A x \in {a, b} : (\A y \in {a, b} : x =< y) => x = m
  OBVIOUS
<1>3. Min({a, b}) \in {a, b} /\ \A y \in {a, b} : Min({a, b}) =< y
  BY <1>1 DEF Min
<1> QED BY <1>2, <1>3

LEMMA PagesOfSize ==
    ASSUME NEW p \in 0..MaxPages
    PROVE  /\ p * PageSize \in Nat /\ MaxPages * PageSize \in Nat
           /\ (p + 1) * PageSize = p * PageSize + PageSize
           /\ p < MaxPages => p * PageSize + PageSize <= MaxPages * PageSize
<1>1. p \in Nat /\ MaxPages \in Nat /\ PageSize \in Nat
  BY ToolsAssumption
<1>2. p * PageSize \in Nat /\ MaxPages * PageSize \in Nat
  BY <1>1
<1>3. (p + 1) * PageSize = p * PageSize + PageSize
  BY <1>1
<1>4. ASSUME p < MaxPages PROVE (p + 1) * PageSize <= MaxPages * PageSize
  <2>1. PICK d \in Nat : MaxPages = p + 1 + d
    <3>1. MaxPages - p - 1 \in Nat /\ MaxPages = p + 1 + (MaxPages - p - 1)
      BY <1>1, <1>4
    <3> QED BY <3>1
  <2>2. MaxPages * PageSize = (p + 1) * PageSize + d * PageSize /\ d * PageSize \in Nat
    BY <1>1, <2>1
  <2> QED BY <1>1, <1>2, <1>3, <2>2
<1> QED BY <1>2, <1>3, <1>4


(* What a query for a page gives: as many as there are, in the order of    *)
(* their dates, each in one of the places of its day.                      *)
IsPage(batch) ==
    LET n == page * PageSize
    IN  /\ batch \in Seq(books) /\ IsInjective(batch)
        /\ Len(batch) <= PageSize
        /\ Len(batch) < PageSize =>
              /\ Cardinality(books) < n + PageSize
              /\ Cardinality(books) <= n + Len(batch)
        /\ \A k \in 1..Len(batch) :
              /\ batch[k] \in books
              /\ Earlier(books, batch[k].date) < n + k
              /\ n + k <= Until(books, batch[k].date)

LEMMA BatchIsPage ==
    ASSUME books \in SUBSET Invoices, page \in 0..MaxPages, NEW batch \in Batches
    PROVE  IsPage(batch)
<1> DEFINE n == page * PageSize
           c == Cardinality(books)
           rest == c - (n + 1) + 1
           size == CASE rest <= 0 -> 0
                     [] 0 < rest /\ rest < PageSize -> rest
                     [] OTHER -> PageSize
<1>1. n \in Nat /\ PageSize \in Nat /\ c \in Nat
  BY ToolsAssumption, PagesOfSize, CountsOfDays
<1>2. /\ batch \in [1..size -> books] /\ IsInjective(batch)
      /\ \A k \in 1..size : MayBeAt(batch[k], n + 1 + k - 1)
  BY DEF Batches, StartPosition
<1> HIDE DEF n, c
<1>3. /\ size \in Nat /\ size <= PageSize
      /\ size < PageSize => c < n + PageSize /\ c <= n + size
  <2>1. CASE rest <= 0
    BY <1>1, <2>1
  <2>2. CASE 0 < rest /\ rest < PageSize
    BY <1>1, <2>2
  <2>3. CASE 0 < rest /\ PageSize <= rest
    BY <1>1, <2>3
  <2> QED BY <1>1, <2>1, <2>2, <2>3
<1> HIDE DEF size
<1>4. batch \in Seq(books) /\ Len(batch) = size
  BY <1>2, <1>3
<1>5. \A k \in 1..size : /\ batch[k] \in books
                         /\ Earlier(books, batch[k].date) < n + k
                         /\ n + k <= Until(books, batch[k].date)
  <2> TAKE k \in 1..size
  <2>1. n + 1 + k - 1 = n + k
    BY <1>1, <1>3
  <2>2. MayBeAt(batch[k], n + k)
    BY <1>2, <2>1
  <2> QED BY <1>2, <2>2 DEF MayBeAt, DatedBefore, DatedUntil, Earlier, Until
<1> QED BY <1>2, <1>3, <1>4, <1>5 DEF IsPage, n, c

(* At a place of a day there is an invoice of that day.                    *)
LEMMA PlaceOfDay ==
    ASSUME books \in SUBSET Invoices, page \in 0..MaxPages, NEW batch, IsPage(batch),
           NEW k \in 1..Len(batch), NEW d \in Nat,
           Earlier(books, d) < page * PageSize + k, page * PageSize + k <= Until(books, d)
    PROVE  batch[k].date = d
<1> DEFINE n == page * PageSize
           e == batch[k].date
<1>1. n \in Nat /\ Len(batch) \in Nat /\ k \in Nat
  BY PagesOfSize DEF IsPage
<1>2. batch[k] \in books /\ Earlier(books, e) < n + k /\ n + k <= Until(books, e)
  BY DEF IsPage
<1> HIDE DEF n
<1>3. e \in Nat
  BY <1>2, CountsOfDays
<1> HIDE DEF e
<1>4. /\ Earlier(books, d) \in Nat /\ Until(books, d) \in Nat
      /\ Earlier(books, e) \in Nat /\ Until(books, e) \in Nat
  BY <1>3, CountsOfDays
<1>5. /\ e < d => Until(books, e) <= Earlier(books, d)
      /\ d < e => Until(books, d) <= Earlier(books, e)
  BY <1>3, CountsOfDays
<1>6. Earlier(books, d) < n + k /\ n + k <= Until(books, d)
  BY DEF n
<1>7. ~(e < d) /\ ~(d < e)
  BY <1>1, <1>2, <1>4, <1>5, <1>6
<1>8. e = d
  BY <1>3, <1>7
<1> QED BY <1>8 DEF e

(* The dates of a page go up.                                              *)
LEMMA PageInOrder ==
    ASSUME books \in SUBSET Invoices, page \in 0..MaxPages, NEW batch, IsPage(batch),
           NEW j \in 1..Len(batch), NEW k \in 1..Len(batch), j < k
    PROVE  batch[j].date <= batch[k].date
<1> DEFINE n == page * PageSize
           d == batch[j].date
           e == batch[k].date
<1>1. n \in Nat /\ Len(batch) \in Nat /\ j \in Nat /\ k \in Nat
  BY PagesOfSize DEF IsPage
<1>2. /\ batch[j] \in books /\ Earlier(books, d) < n + j
      /\ batch[k] \in books /\ n + k <= Until(books, e)
  BY DEF IsPage
<1> HIDE DEF n
<1>3. d \in Nat /\ e \in Nat
  BY <1>2, CountsOfDays
<1> HIDE DEF d, e
<1>4. Earlier(books, d) \in Nat /\ Until(books, e) \in Nat /\ (e < d => Until(books, e) <= Earlier(books, d))
  BY <1>3, CountsOfDays
<1>5. ~(e < d)
  BY <1>1, <1>2, <1>4
<1>6. d <= e
  BY <1>3, <1>5
<1> QED BY <1>6 DEF d, e

(* A day that lies within a page is all on it.                             *)
LEMMA DayWithinPage ==
    ASSUME books \in SUBSET Invoices, page \in 0..MaxPages, NEW batch, IsPage(batch),
           NEW i \in books, page * PageSize <= Earlier(books, i.date),
           Until(books, i.date) <= page * PageSize + Len(batch)
    PROVE  i \in ToSet(batch)
<1> DEFINE n == page * PageSize
           a == Earlier(books, i.date)
           b == Until(books, i.date)
           D == {x \in books : x.date = i.date}
           P == (a - n + 1)..(b - n)
           f == [k \in P |-> batch[k]]
<1>1. /\ n \in Nat /\ Len(batch) \in Nat /\ a \in Nat /\ b \in Nat /\ a < b /\ i.date \in Nat
      /\ n <= a /\ b <= n + Len(batch)
  <2>1. n \in Nat /\ Len(batch) \in Nat
    BY PagesOfSize DEF IsPage
  <2>2. i.date \in Nat /\ a < b
    BY CountsOfDays
  <2>3. a \in Nat /\ b \in Nat
    BY <2>2, CountsOfDays
  <2> QED BY <2>1, <2>2, <2>3
<1>2. IsFiniteSet(D) /\ Cardinality(D) = b - a
  BY <1>1, InvoicesOfDay
<1>3. \A k \in P : k \in 1..Len(batch) /\ a < n + k /\ n + k <= b
  <2> HIDE DEF n, a, b
  <2> QED BY <1>1
<1>4. \A k \in P : batch[k] \in D
  <2> TAKE k \in P
  <2>1. k \in 1..Len(batch) /\ a < n + k /\ n + k <= b
    BY <1>3
  <2>2. batch[k].date = i.date
    BY <1>1, <2>1, PlaceOfDay
  <2>3. batch[k] \in books
    BY <2>1 DEF IsPage
  <2> QED BY <2>2, <2>3
<1>5. f \in Injection(P, D)
  <2>1. f \in [P -> D]
    BY <1>4
  <2>2. DOMAIN batch = 1..Len(batch) /\ IsInjective(batch)
    BY DEF IsPage
  <2>3. \A j, k \in P : f[j] = f[k] => j = k
    <3> HIDE DEF P
    <3> QED BY <1>3, <2>2 DEF IsInjective
  <2>4. DOMAIN f = P
    OBVIOUS
  <2> HIDE DEF f, P, D
  <2>5. IsInjective(f)
    BY <2>3, <2>4 DEF IsInjective
  <2> QED BY <2>1, <2>5 DEF Injection
<1>6. Cardinality(P) = b - a
  <2> HIDE DEF n, a, b
  <2>1. a - n + 1 \in Int /\ b - n \in Int /\ ~(a - n + 1 > b - n) /\ (b - n) - (a - n + 1) + 1 = b - a
    BY <1>1
  <2> QED BY <2>1, FS_Interval
<1> HIDE DEF f, P, D, a, b, n
<1>7. f \in Surjection(P, D)
  BY <1>2, <1>5, <1>6, FS_Injection
<1>8. i \in D
  BY DEF D
<1>9. PICK k \in P : f[k] = i
  BY <1>7, <1>8 DEF Surjection
<1>10. k \in 1..Len(batch) /\ batch[k] = i
  BY <1>3, <1>9 DEF f
<1>11. DOMAIN batch = 1..Len(batch)
  BY DEF IsPage
<1> QED BY <1>10, <1>11 DEF ToSet

-----------------------------------------------------------------------------
(* The invoices of the customers sold to.                                  *)

PositionsOf(c, invoices) == {k \in DOMAIN invoices : invoices[k].customer = c}

LEMMA InvoicesOfAll ==
    ASSUME NEW invoices \in Seq(Invoices), NEW c
    PROVE  /\ InvoicesOf(c, invoices) \in Seq(Invoices)
           /\ \A k \in PositionsOf(c, invoices) : invoices[k] \in ToSet(InvoicesOf(c, invoices))
           /\ \A i \in ToSet(InvoicesOf(c, invoices)) : i.customer = c
<1> DEFINE S == PositionsOf(c, invoices)
           First(j, k) == \/ DocBefore(invoices[j], invoices[k])
                          \/ invoices[j] = invoices[k] /\ j < k
           R == {p \in S \X S : First(p[1], p[2])}
           order == InOrder(S, First)
<1>1. S \subseteq 1..Len(invoices) /\ Len(invoices) \in Nat
  BY DEF PositionsOf
<1>2. IsFiniteSet(S)
  <2>1. IsFiniteSet(1..Len(invoices))
    BY <1>1, FS_Interval
  <2> QED BY <1>1, <2>1, FS_Subset
<1>3. \A k \in S : invoices[k] \in Invoices
  BY DEF PositionsOf
<1>4. \A x, y \in S : <<x, y>> \in R <=> First(x, y)
  OBVIOUS
<1>5. \A x, y \in Invoices : DocBefore(x, y) \/ x = y \/ DocBefore(y, x)
  <2> TAKE x, y \in Invoices
  <2>1. x # y => x.id # y.id
    BY ToolsAssumption
  <2>2. x.id \in Nat /\ x.date \in Nat /\ y.id \in Nat /\ y.date \in Nat
    BY ToolsAssumption
  <2> QED BY <2>1, <2>2 DEF DocBefore
<1>6. /\ \A x \in Invoices : ~DocBefore(x, x)
      /\ \A x, y, z \in Invoices : DocBefore(x, y) /\ DocBefore(y, z) => DocBefore(x, z)
  <2>1. \A x \in Invoices : x.id \in Nat /\ x.date \in Nat
    BY ToolsAssumption
  <2> QED BY <2>1 DEF DocBefore
<1>7. S \subseteq Nat
  BY <1>1
<1>8. \A x \in S : ~First(x, x)
  BY <1>3, <1>6, <1>7
<1>9. \A x, y \in S : x # y => First(x, y) \/ First(y, x)
  BY <1>3, <1>5, <1>7
<1>10. \A x, y, z \in S : First(x, y) /\ First(y, z) => First(x, z)
  <2> TAKE x, y, z \in S
  <2>1. invoices[x] \in Invoices /\ invoices[y] \in Invoices /\ invoices[z] \in Invoices
    BY <1>3
  <2>2. x \in Nat /\ y \in Nat /\ z \in Nat
    BY <1>7
  <2> QED BY <1>6, <2>1, <2>2
<1> HIDE DEF S, First
<1>11. IsStrictOrder(R, S)
  BY <1>4, <1>8, <1>9, <1>10 DEF IsStrictOrder, IsTransitivelyClosedOn
<1>12. \A x \in S : {y \in S : First(y, x)} = SetLessThan(x, R, S)
  BY DEF SetLessThan
<1>13. order = [n \in 1..Cardinality(S) |->
                  CHOOSE x \in S : Cardinality({y \in S : First(y, x)}) = n - 1]
  BY DEF InOrder
<1> HIDE DEF R, order
<1>14. ASSUME NEW n \in 1..Cardinality(S), \E x \in S : Preceding(x, R, S) = n - 1
       PROVE  order[n] \in S /\ Preceding(order[n], R, S) = n - 1
  <2>1. \E x \in S : Cardinality({y \in S : First(y, x)}) = n - 1
    BY <1>12, <1>14 DEF Preceding
  <2>2. order[n] \in S /\ Cardinality({y \in S : First(y, order[n])}) = n - 1
    BY <1>13, <2>1
  <2> QED BY <1>12, <2>2 DEF Preceding
<1>15. /\ order \in Seq(S) /\ Len(order) = Cardinality(S)
       /\ \A n \in 1..Cardinality(S) : order[n] \in S /\ Preceding(order[n], R, S) = n - 1
       /\ \A x \in S : order[Preceding(x, R, S) + 1] = x
  <2>1. order = [n \in 1..Cardinality(S) |-> order[n]]
    BY <1>13
  <2>2. \A n \in 1..Cardinality(S) :
           (\E x \in S : Preceding(x, R, S) = n - 1)
               => order[n] \in S /\ Preceding(order[n], R, S) = n - 1
    BY <1>14
  <2> QED BY <1>2, <1>11, <2>1, <2>2, OrderedBy
<1>16. InvoicesOf(c, invoices) = [n \in DOMAIN order |-> invoices[order[n]]]
  BY DEF InvoicesOf, order, S, PositionsOf, First
<1>17. InvoicesOf(c, invoices) \in Seq(Invoices)
  <2>1. Len(order) \in Nat /\ DOMAIN order = 1..Len(order)
    BY <1>15
  <2>2. \A n \in DOMAIN order : invoices[order[n]] \in Invoices
    BY <1>3, <1>15
  <2> QED BY <1>16, <2>1, <2>2
<1>18. ASSUME NEW k \in S PROVE invoices[k] \in ToSet(InvoicesOf(c, invoices))
  <2> DEFINE n == Preceding(k, R, S) + 1
  <2>1. Cardinality(S) \in Nat /\ Preceding(k, R, S) \in 0..(Cardinality(S) - 1)
    BY <1>2, <1>11, PrecedingIsOrder
  <2>2. n \in DOMAIN order /\ order[n] = k
    BY <1>15, <2>1
  <2>3. n \in DOMAIN InvoicesOf(c, invoices) /\ InvoicesOf(c, invoices)[n] = invoices[k]
    BY <1>16, <2>2
  <2> QED BY <2>3 DEF ToSet
<1>19. ASSUME NEW i \in ToSet(InvoicesOf(c, invoices)) PROVE i.customer = c
  <2>1. PICK n \in DOMAIN order : i = invoices[order[n]]
    BY <1>16 DEF ToSet
  <2>2. order[n] \in S
    BY <1>15
  <2> QED BY <2>1, <2>2 DEF S, PositionsOf
<1> QED BY <1>17, <1>18, <1>19 DEF S

(* An invoice on one of the pages is shown with its customer if, and only  *)
(* if, this is one of those sold to.                                       *)
LEMMA AttachedAll ==
    ASSUME NEW C \in SUBSET Customers, NEW invoices \in Seq(Invoices)
    PROVE  LET attached == AttachInvoices(C, invoices)
           IN  /\ attached \in Seq([customer : C, invoices : Seq(Invoices)])
               /\ \A shown \in ToSet(attached) : \A i \in ToSet(shown.invoices) : i.customer \in C
               /\ \A k \in DOMAIN invoices :
                     invoices[k].customer \in C =>
                         \E shown \in ToSet(attached) : invoices[k] \in ToSet(shown.invoices)
<1> DEFINE Ahead(a, b) == FirstBefore(a, b, invoices)
           R == {p \in C \X C : Ahead(p[1], p[2])}
           order == InOrder(C, LAMBDA a, b : FirstBefore(a, b, invoices))
           Of(c) == InvoicesOf(c, invoices)
<1>0. IsFiniteSet(C)
  BY ToolsAssumption, FS_Subset
<1>1. \A c \in C : c \in Nat
  BY ToolsAssumption
<1>2. \A c \in C : Of(c) # <<>> => Of(c)[1].date \in Nat
  <2> TAKE c \in C
  <2>1. Of(c) \in Seq(Invoices)
    BY InvoicesOfAll
  <2>2. Of(c) # <<>> => Of(c)[1] \in Invoices
    BY <2>1
  <2> QED BY <2>2, ToolsAssumption
<1>3. \A a, b \in C : Ahead(a, b) <=>
         \/ Of(a) # <<>> /\ Of(b) = <<>>
         \/ Of(a) = <<>> /\ Of(b) = <<>> /\ a < b
         \/ /\ Of(a) # <<>> /\ Of(b) # <<>>
            /\ \/ Of(a)[1].date < Of(b)[1].date
               \/ Of(a)[1].date = Of(b)[1].date /\ a < b
  BY DEF FirstBefore
<1> HIDE DEF Of, Ahead
<1>4. \A a \in C : ~Ahead(a, a)
  BY <1>1, <1>2, <1>3
<1>5. \A a, b \in C : a # b => Ahead(a, b) \/ Ahead(b, a)
  <2> TAKE a, b \in C
  <2>1. a \in Nat /\ b \in Nat
    BY <1>1
  <2>2. (Of(a) # <<>> => Of(a)[1].date \in Nat) /\ (Of(b) # <<>> => Of(b)[1].date \in Nat)
    BY <1>2
  <2> QED BY <1>3, <2>1, <2>2
<1>6. \A a, b, c \in C : Ahead(a, b) /\ Ahead(b, c) => Ahead(a, c)
  <2> TAKE a, b, c \in C
  <2>1. a \in Nat /\ b \in Nat /\ c \in Nat
    BY <1>1
  <2>2. /\ Of(a) # <<>> => Of(a)[1].date \in Nat
        /\ Of(b) # <<>> => Of(b)[1].date \in Nat
        /\ Of(c) # <<>> => Of(c)[1].date \in Nat
    BY <1>2
  <2> QED BY <1>3, <2>1, <2>2
<1>7. IsStrictOrder(R, C)
  BY <1>4, <1>5, <1>6 DEF IsStrictOrder, IsTransitivelyClosedOn
<1>8. \A x \in C : {y \in C : Ahead(y, x)} = SetLessThan(x, R, C)
  BY DEF SetLessThan
<1>9. order = [n \in 1..Cardinality(C) |->
                 CHOOSE x \in C : Cardinality({y \in C : Ahead(y, x)}) = n - 1]
  BY DEF InOrder, Ahead
<1> HIDE DEF R, order
<1>10. ASSUME NEW n \in 1..Cardinality(C), \E x \in C : Preceding(x, R, C) = n - 1
       PROVE  order[n] \in C /\ Preceding(order[n], R, C) = n - 1
  <2>1. \E x \in C : Cardinality({y \in C : Ahead(y, x)}) = n - 1
    BY <1>8, <1>10 DEF Preceding
  <2>2. order[n] \in C /\ Cardinality({y \in C : Ahead(y, order[n])}) = n - 1
    BY <1>9, <2>1
  <2> QED BY <1>8, <2>2 DEF Preceding
<1>11. /\ order \in Seq(C) /\ Len(order) = Cardinality(C)
       /\ \A n \in 1..Cardinality(C) : order[n] \in C /\ Preceding(order[n], R, C) = n - 1
       /\ \A x \in C : order[Preceding(x, R, C) + 1] = x
  <2>1. order = [n \in 1..Cardinality(C) |-> order[n]]
    <3> DEFINE e(n) == CHOOSE x \in C : Cardinality({y \in C : Ahead(y, x)}) = n - 1
    <3>1. order = [n \in 1..Cardinality(C) |-> e(n)]
      BY <1>9
    <3> HIDE DEF e
    <3> QED BY <3>1
  <2>2. \A n \in 1..Cardinality(C) :
           (\E x \in C : Preceding(x, R, C) = n - 1)
               => order[n] \in C /\ Preceding(order[n], R, C) = n - 1
    BY <1>10
  <2> QED BY <1>0, <1>7, <2>1, <2>2, OrderedBy
<1> DEFINE attached == AttachInvoices(C, invoices)
<1>12. attached = [m \in DOMAIN order |-> [customer |-> order[m], invoices |-> Of(order[m])]]
  BY DEF AttachInvoices, order, Of
<1>13. DOMAIN order = 1..Cardinality(C) /\ Cardinality(C) \in Nat /\ \A m \in DOMAIN order : order[m] \in C
  BY <1>0, <1>11, FS_CardinalityType
<1> HIDE DEF attached
<1>14. attached \in Seq([customer : C, invoices : Seq(Invoices)])
  <2>1. \A m \in DOMAIN order : Of(order[m]) \in Seq(Invoices)
    BY InvoicesOfAll DEF Of
  <2> DEFINE T == [customer : C, invoices : Seq(Invoices)]
  <2>2. \A m \in DOMAIN order : [customer |-> order[m], invoices |-> Of(order[m])] \in T
    BY <1>13, <2>1
  <2> HIDE DEF T
  <2>3. attached \in [1..Cardinality(C) -> T]
    BY <1>12, <1>13, <2>2
  <2>4. attached \in Seq(T)
    BY <1>13, <2>3
  <2> QED BY <2>4 DEF T
<1>15. ASSUME NEW shown \in ToSet(attached), NEW i \in ToSet(shown.invoices) PROVE i.customer \in C
  <2>1. PICK m \in DOMAIN order : shown = attached[m]
    BY <1>12, <1>15 DEF ToSet
  <2>2. shown.invoices = Of(order[m]) /\ order[m] \in C
    BY <1>12, <1>13, <2>1
  <2>3. i.customer = order[m]
    BY <1>15, <2>2, InvoicesOfAll DEF Of
  <2> QED BY <2>2, <2>3
<1>16. ASSUME NEW k \in DOMAIN invoices, invoices[k].customer \in C
       PROVE  \E shown \in ToSet(attached) : invoices[k] \in ToSet(shown.invoices)
  <2> DEFINE c == invoices[k].customer
             n == Preceding(c, R, C) + 1
  <2>1. Preceding(c, R, C) \in 0..(Cardinality(C) - 1)
    BY <1>0, <1>7, <1>16, PrecedingIsOrder
  <2>2. n \in DOMAIN order /\ order[n] = c
    BY <1>11, <1>13, <1>16, <2>1
  <2> HIDE DEF n
  <2>3. n \in DOMAIN attached /\ attached[n].invoices = Of(c)
    BY <1>12, <2>2
  <2>4. invoices[k] \in ToSet(Of(c))
    <3>1. k \in PositionsOf(c, invoices)
      BY DEF PositionsOf
    <3> QED BY <3>1, InvoicesOfAll DEF Of
  <2>5. attached[n] \in ToSet(attached)
    BY <2>3 DEF ToSet
  <2> QED BY <2>3, <2>4, <2>5
<1> QED BY <1>14, <1>15, <1>16 DEF attached

-----------------------------------------------------------------------------
(* Picking a customer.                                                     *)

LEMMA EntriesOf ==
    ASSUME NEW directory \in Directories
    PROVE  /\ IsFiniteSet(DOMAIN directory)
           /\ \A k \in DOMAIN directory : directory[k].id \in Customers
           /\ \A j, k \in DOMAIN directory : directory[j].id = directory[k].id => j = k
<1> DEFINE E == [id : Customers, name : {"same", "contains", "other"}, sameEmail : BOOLEAN]
<1>1. directory \in Seq(E) /\ IsInjective(Ids(directory))
  BY DirectoriesAssumption
<1>2. \A x \in E : x.id \in Customers
  OBVIOUS
<1> HIDE DEF E
<1>3. DOMAIN directory = 1..Len(directory) /\ Len(directory) \in Nat
  BY <1>1
<1>4. IsFiniteSet(DOMAIN directory)
  BY <1>3, FS_Interval
<1>5. \A k \in DOMAIN directory : directory[k] \in E
  BY <1>1
<1>6. \A j, k \in DOMAIN directory : directory[j].id = directory[k].id => j = k
  BY <1>1 DEF IsInjective, Ids
<1> QED BY <1>2, <1>4, <1>5, <1>6

(* No other entry has the same name and, if addresses are compared, the    *)
(* same address.                                                           *)
Unlike(directory, k, hasEmail) ==
    \A j \in DOMAIN directory :
        \/ j = k
        \/ directory[j].name # directory[k].name
        \/ hasEmail /\ directory[j].sameEmail # directory[k].sameEmail

LEMMA AloneByEmail ==
    ASSUME NEW directory \in Directories, Cardinality(ByEmail(directory)) = 1,
           NEW k \in ByEmail(directory)
    PROVE  k \in DOMAIN directory /\ Unlike(directory, k, TRUE)
<1>1. k \in DOMAIN directory /\ directory[k].sameEmail
  BY DEF ByEmail
<1>2. ByEmail(directory) \in SUBSET DOMAIN directory
  BY DEF ByEmail
<1>3. IsFiniteSet(ByEmail(directory))
  BY <1>2, EntriesOf, FS_Subset
<1>4. PICK x : ByEmail(directory) = {x}
  BY <1>3, FS_Singleton
<1>5. ASSUME NEW j \in DOMAIN directory, directory[j].sameEmail = directory[k].sameEmail PROVE j = k
  <2>1. j \in ByEmail(directory)
    BY <1>1, <1>5 DEF ByEmail
  <2> QED BY <1>4, <2>1
<1> QED BY <1>1, <1>5 DEF Unlike

(* The one that is picked is one of the directory, and no other is like it *)
(* if all that match were looked at.                                       *)
LEMMA AloneByName ==
    ASSUME NEW directory \in Directories, NEW matches \in SUBSET ByName(directory),
           NEW hasEmail \in BOOLEAN, PickByName(directory, matches, hasEmail) # None
    PROVE  \E k \in DOMAIN directory :
              /\ PickByName(directory, matches, hasEmail) = directory[k].id
              /\ matches = ByName(directory) => Unlike(directory, k, hasEmail)
<1> DEFINE exact == {k \in matches : directory[k].name = "same"}
           SameEmail(S) == {k \in S : hasEmail /\ directory[k].sameEmail}
           lists == <<exact, SameEmail(exact), SameEmail(matches), matches>>
           single == {i \in DOMAIN lists : Cardinality(lists[i]) = 1}
           m == Min(single)
<1>1. matches \in SUBSET DOMAIN directory /\ IsFiniteSet(DOMAIN directory)
  BY EntriesOf DEF ByName
<1>2. PickByName(directory, matches, hasEmail) =
        IF single = {} THEN None ELSE directory[CHOOSE k \in lists[m] : TRUE].id
  BY ZenonT(60) DEF PickByName
<1>3. single # {}
  <2> HIDE DEF single, lists, m
  <2> QED BY <1>2
<1>4. DOMAIN lists = 1..4
  OBVIOUS
<1>5. m \in single
  <2>1. single \in SUBSET Nat
    BY <1>4
  <2> HIDE DEF single
  <2> QED BY <1>3, <2>1, LeastNumber
<1> HIDE DEF m
<1>6. m \in 1..4 /\ Cardinality(lists[m]) = 1
  BY <1>4, <1>5
<1>7. lists[m] \in {exact, SameEmail(exact), SameEmail(matches), matches}
  BY <1>6
<1>8. lists[m] \in SUBSET DOMAIN directory
  BY <1>1, <1>7
<1> HIDE DEF lists
<1>9. PICK k \in DOMAIN directory : lists[m] = {k} /\ (CHOOSE x \in lists[m] : TRUE) = k
  <2>1. IsFiniteSet(lists[m])
    BY <1>1, <1>8, FS_Subset
  <2>2. PICK k : lists[m] = {k}
    BY <1>6, <2>1, FS_Singleton
  <2>3. k \in DOMAIN directory /\ (CHOOSE x \in lists[m] : TRUE) = k
    BY <1>8, <2>2
  <2> QED BY <2>2, <2>3
<1>10. PickByName(directory, matches, hasEmail) = directory[k].id
  BY <1>2, <1>3, <1>9
<1>11. ASSUME matches = ByName(directory), NEW j \in DOMAIN directory, j # k,
              directory[j].name = directory[k].name,
              hasEmail => directory[j].sameEmail = directory[k].sameEmail
       PROVE  FALSE
  <2>1. matches # {k}
    BY <1>11 DEF ByName
  <2>2. exact # {k}
    BY <1>11 DEF ByName
  <2>3. SameEmail(matches) # {k}
    BY <1>11 DEF ByName
  <2>4. SameEmail(exact) # {k}
    BY <1>11 DEF ByName
  <2> QED BY <1>7, <1>9, <2>1, <2>2, <2>3, <2>4
<1>12. matches = ByName(directory) => Unlike(directory, k, hasEmail)
  BY <1>11 DEF Unlike
<1> QED BY <1>10, <1>12

-----------------------------------------------------------------------------
(* A call.                                                                 *)

(* What a tool is asked for.                                               *)
RequestOK ==
    /\ req.tool \in {"invoice", "customer_invoices", "crm_invoices", "sales_rep",
                     "invoices_in_range", "class_sales", "query", "report", "search_customers"}
    /\ req.tool = "invoice" => req.arg \in Invoices
    /\ req.tool = "customer_invoices" => req.arg \in Customers
    /\ req.tool = "crm_invoices" => req.arg.hasEmail \in BOOLEAN /\ req.arg.hasName \in BOOLEAN

(* Which tools come to a step, who asks, and what is found out by then.    *)
StageOK ==
    /\ step = "invoice" => req.tool = "invoice"
    /\ step = "links" => \/ req.tool = "invoice" /\ target = req.arg.customer
                         \/ req.tool = "customer_invoices"
                         \/ req.tool = "search_customers"
    /\ step \in {"crm", "by_email", "by_name"} => req.tool = "crm_invoices"
    /\ step = "by_email" => req.arg.hasEmail
    /\ step = "customer" =>
          \/ req.tool = "customer_invoices" /\ (req.admin \/ target \in linked)
          \/ req.tool = "crm_invoices" /\ matchedBy = "link" /\ target \in linked
          \/ req.tool = "crm_invoices" /\ matchedBy \in {"email", "name"}
    /\ step = "fetch" => req.tool \in {"class_sales", "query", "report", "search_customers"}
    /\ step = "own_name" => req.tool = "sales_rep"
    /\ step \in {"class_sales", "classes", "sellers"} =>
          req.tool = "sales_rep" /\ (req.admin \/ req.arg)
    /\ step = "page" => \/ req.tool = "sales_rep" /\ (req.admin \/ req.arg)
                        \/ req.tool = "invoices_in_range" /\ req.admin
    /\ req.tool # "crm_invoices" => matchedBy = "none"

(* The pages read so far: full ones, as long as there are more to read.    *)
ReadOK ==
    /\ step \notin {"page", "done"} => page = 0
    /\ step = "page" => page < MaxPages /\ Len(all) = page * PageSize
    /\ Len(all) <= page * PageSize

CallShape == CallTypeOK /\ RequestOK /\ StageOK /\ ReadOK

LEMMA CallShapeInit == CallInit => CallShape
<1> SUFFICES ASSUME CallInit PROVE CallShape
  OBVIOUS
<1>1. RequestOK
  BY DEF CallInit, Starts, RequestOK
<1>2. books \subseteq Invoices /\ links \subseteq Customers
  BY DEF CallInit, Starts
<1>3. CallTypeOK
  <2>1. MaxPages \in Nat /\ MaxPages * PageSize \in Nat
    BY ToolsAssumption
  <2> QED BY <1>2, <2>1 DEF CallInit, CallTypeOK, Outcomes, None
<1>4. StageOK
  BY DEF CallInit, StageOK
<1>5. ReadOK
  <2>1. 0 * PageSize = 0
    BY ToolsAssumption
  <2> QED BY <2>1 DEF CallInit, ReadOK
<1> QED BY <1>1, <1>3, <1>4, <1>5 DEF CallShape

(* Nothing was read before the first page.                                 *)
LEMMA FirstPage == CallShape /\ page = 0 => all = <<>> /\ Len(all) = page * PageSize
<1> SUFFICES ASSUME CallShape, page = 0 PROVE all = <<>> /\ Len(all) = page * PageSize
  OBVIOUS
<1>1. all \in Seq(Invoices) /\ Len(all) <= page * PageSize
  BY DEF CallShape, CallTypeOK, ReadOK
<1>2. page * PageSize = 0
  BY ToolsAssumption
<1> QED BY <1>1, <1>2, EmptySeq

(* An answer ends the call; what it shows is at most what it would be.     *)
LEMMA AnswerEnds ==
    ASSUME NEW outcome, NEW value, Answer(outcome, value)
    PROVE  step' = "done" /\ result'.outcome = outcome /\ (~result'.cut => result'.value = value)
BY DEF Answer

LEMMA AnswerShows ==
    ASSUME NEW outcome, NEW S, NEW value \in Seq(S), Answer(outcome, value)
    PROVE  \A x \in ToSet(result'.value) : x \in ToSet(value)
<1>1. CASE result'.value = value
  BY <1>1
<1>2. CASE \E n \in 0..(Len(value) - 1) : result'.value = SubSeq(value, 1, n)
  <2>1. PICK n \in 0..(Len(value) - 1) : result'.value = SubSeq(value, 1, n)
    BY <1>2
  <2>2. Len(value) \in Nat /\ DOMAIN value = 1..Len(value) /\ n \in Nat /\ n < Len(value)
    BY <2>1
  <2>3. \A k \in 1..n : k \in DOMAIN value /\ value[k] \in S
    BY <2>2
  <2>4. /\ SubSeq(value, 1, n) \in Seq(S)
        /\ Len(SubSeq(value, 1, n)) = IF 1 <= n THEN n - 1 + 1 ELSE 0
        /\ \A k \in 1..(n - 1 + 1) : SubSeq(value, 1, n)[k] = value[1 + k - 1]
    BY <2>2, <2>3, SubSeqProperties
  <2>5. DOMAIN SubSeq(value, 1, n) = 1..n
    BY <2>2, <2>4
  <2>6. \A k \in 1..n : SubSeq(value, 1, n)[k] = value[k]
    BY <2>2, <2>4
  <2>7. \A k \in DOMAIN SubSeq(value, 1, n) : SubSeq(value, 1, n)[k] \in ToSet(value)
    BY <2>3, <2>5, <2>6 DEF ToSet
  <2> QED BY <2>1, <2>7 DEF ToSet
<1> QED BY <1>1, <1>2 DEF Answer

LEMMA CallShapeStep == CallShape /\ [CallNext]_callVars => CallShape'
<1> SUFFICES ASSUME CallShape, [CallNext]_callVars PROVE CallShape'
  OBVIOUS
<1> USE DEF CallShape
<1>0. /\ "none" \in Outcomes /\ "ok" \in Outcomes /\ "denied" \in Outcomes /\ "error" \in Outcomes
      /\ "ok" # "none" /\ "denied" # "none" /\ "error" # "none"
  BY DEF Outcomes
<1>1. CASE Authorize
  <2>1. CASE Answer("denied", NoValue)
    <3>1. step' = "done" /\ result'.outcome = "denied"
      BY <2>1, AnswerEnds
    <3>2. CallTypeOK'
      BY <1>0, <1>1, <3>1 DEF Authorize, world, found, pages, CallTypeOK, RequestOK
    <3> QED BY <1>1, <3>1, <3>2 DEF Authorize, world, pages, StageOK, RequestOK, ReadOK
  <2>2. CASE ~(req.tool \in AdminOnly /\ ~req.admin)
    <3>1. result' = result /\ step = "authorize" /\
          step' = CASE req.tool = "invoice"           -> "invoice"
                 [] req.tool = "customer_invoices" -> "links"
                 [] req.tool = "crm_invoices"      -> "crm"
                 [] req.tool = "sales_rep"         -> "own_name"
                 [] req.tool = "invoices_in_range" -> "page"
                 [] OTHER                          -> "fetch"
      BY <1>1, <2>2 DEF Authorize, Go
    <3>2. CallTypeOK'
      BY <1>0, <1>1, <3>1 DEF Authorize, world, pages, CallTypeOK, RequestOK
    <3>3. RequestOK' /\ ReadOK'
      BY <1>1, <3>1, FirstPage, ToolsAssumption DEF Authorize, world, pages, RequestOK, ReadOK
    <3>4. StageOK'
      BY <1>1, <2>2, <3>1 DEF Authorize, world, StageOK, RequestOK, AdminOnly
    <3> QED BY <3>2, <3>3, <3>4
  <2> QED BY <1>1, <2>1, <2>2 DEF Authorize
<1>2. CASE FetchInvoice
  <2>1. CASE Answer("error", NoValue) /\ UNCHANGED target
    <3>1. step' = "done" /\ result'.outcome = "error"
      BY <2>1, AnswerEnds
    <3>2. CallTypeOK'
      BY <1>0, <1>2, <2>1, <3>1 DEF FetchInvoice, world, pages, CallTypeOK
    <3> QED BY <1>2, <3>1, <3>2 DEF FetchInvoice, world, pages, StageOK, RequestOK, ReadOK
  <2>2. CASE Go("links") /\ target' = req.arg.customer
    <3>1. CallTypeOK'
      BY <1>0, <1>2, <2>2, ToolsAssumption DEF FetchInvoice, Go, world, pages, CallTypeOK, StageOK, RequestOK
    <3> QED BY <1>2, <2>2, <3>1 DEF FetchInvoice, Go, world, pages, StageOK, RequestOK, ReadOK
  <2> QED BY <1>2, <2>1, <2>2 DEF FetchInvoice
<1>3. ASSUME UNCHANGED <<world, req, sellers, pages>>, target' \in Customers \cup {None},
             matchedBy' \in {"none", "link", "email", "name"},
             req.tool # "crm_invoices" => matchedBy' = "none",
             step' = "done", result'.outcome \in Outcomes \ {"none"}
      PROVE  CallShape'
  <2>1. CallTypeOK'
    BY <1>0, <1>3 DEF world, pages, CallTypeOK
  <2> QED BY <1>3, <2>1 DEF world, pages, StageOK, RequestOK, ReadOK
<1>4. ASSUME UNCHANGED <<world, req, sellers, pages, result>>, step \notin {"page", "done"},
             target' \in Customers \cup {None}, matchedBy' \in {"none", "link", "email", "name"},
             step' \in {"links", "customer", "by_email", "by_name", "class_sales", "classes", "sellers"},
             StageOK'
      PROVE  CallShape'
  <2>1. CallTypeOK'
    BY <1>0, <1>4 DEF world, pages, CallTypeOK
  <2> QED BY <1>4, <2>1 DEF world, pages, RequestOK, ReadOK
<1>5. ASSUME UNCHANGED <<world, req, target, matchedBy, sellers, pages>>,
             NEW outcome \in Outcomes \ {"none"}, NEW value, Answer(outcome, value)
      PROVE  CallShape'
  <2>1. step' = "done" /\ result'.outcome = outcome
    BY <1>5, AnswerEnds
  <2> QED BY <1>3, <1>5, <2>1 DEF CallTypeOK, StageOK
<1>6. CASE ReadLinks
  <2>1. CASE Go("customer") /\ req.tool = "customer_invoices" /\ (req.admin \/ target \in links)
    <3>1. StageOK'
      BY <1>6, <2>1 DEF ReadLinks, Go, world, found, StageOK, CallTypeOK
    <3> QED BY <1>4, <1>6, <2>1, <3>1 DEF ReadLinks, Go, found, CallTypeOK
  <2>2. CASE \E outcome \in {"ok", "denied"} : \E value : Answer(outcome, value)
    BY <1>0, <1>5, <1>6, <2>2 DEF ReadLinks, found
  <2> QED BY <1>6, <2>1, <2>2 DEF ReadLinks, StageOK
<1>7. CASE Fetch
  <2>1. CASE Go("links") /\ req.tool = "search_customers"
    <3>1. StageOK'
      BY <1>7, <2>1 DEF Fetch, Go, world, found, StageOK
    <3> QED BY <1>4, <1>7, <2>1, <3>1 DEF Fetch, Go, found, CallTypeOK
  <2>2. CASE \E value : Answer("ok", value)
    BY <1>0, <1>5, <1>7, <2>2 DEF Fetch, found
  <2> QED BY <1>7, <2>1, <2>2 DEF Fetch
<1>8. CASE FetchCustomer
  <2>1. PICK value : Answer("ok", value)
    BY <1>8 DEF FetchCustomer
  <2> QED BY <1>0, <1>5, <1>8, <2>1 DEF FetchCustomer
<1>9. CASE ReadCrmCustomer
  <2>1. PICK link \in links \cup {None} :
           /\ target' = link
           /\ matchedBy' = IF link # None THEN "link" ELSE "none"
           /\ CASE link # None -> Go("customer")
                [] link = None /\ req.arg.hasEmail -> Go("by_email")
                [] link = None /\ ~req.arg.hasEmail /\ req.arg.hasName -> Go("by_name")
                [] OTHER -> Answer("error", NoValue)
    BY <1>9 DEF ReadCrmCustomer
  <2>2. target' \in Customers \cup {None} /\ (link # None => link \in linked) /\ req.tool = "crm_invoices"
    BY <1>9, <2>1 DEF ReadCrmCustomer, CallTypeOK, StageOK
  <2>3. CASE Answer("error", NoValue)
    <3>1. step' = "done" /\ result'.outcome = "error"
      BY <2>3, AnswerEnds
    <3> QED BY <1>0, <1>3, <1>9, <2>1, <2>2, <3>1 DEF ReadCrmCustomer
  <2>4. CASE \/ link # None /\ Go("customer")
             \/ req.arg.hasEmail /\ Go("by_email")
             \/ Go("by_name")
    <3>1. StageOK'
      BY <1>9, <2>1, <2>2, <2>4 DEF ReadCrmCustomer, Go, world, StageOK
    <3> QED BY <1>4, <1>9, <2>1, <2>2, <2>4, <3>1 DEF ReadCrmCustomer, Go
  <2> QED BY <2>1, <2>3, <2>4
<1>10. ASSUME UNCHANGED <<world, req, sellers, pages>>, NEW directory \in Directories,
              NEW how \in {"email", "name"}, NEW k \in DOMAIN directory,
              Found(directory, how, directory[k].id),
              req.tool = "crm_invoices", step \notin {"page", "done"}
       PROVE  CallShape'
  <2>1. target' \in Customers
    BY <1>10, EntriesOf DEF Found
  <2>2. StageOK'
    BY <1>10 DEF Found, Go, world, StageOK
  <2> QED BY <1>4, <1>10, <2>1, <2>2 DEF Found, Go
<1>11. CASE FindByEmail
  <2>1. req.tool = "crm_invoices" /\ step = "by_email" /\ UNCHANGED <<world, req, sellers, pages>>
    BY <1>11 DEF FindByEmail, StageOK
  <2>2. CASE \E directory \in Directories :
                \E k \in ByEmail(directory) : Found(directory, "email", directory[k].id)
    BY <1>10, <2>1, <2>2 DEF ByEmail
  <2>3. CASE UNCHANGED <<target, matchedBy>> /\ Go("by_name")
    <3>1. StageOK'
      BY <2>1, <2>3 DEF Go, world, StageOK
    <3> QED BY <1>4, <2>1, <2>3, <3>1 DEF Go, CallTypeOK
  <2>4. CASE UNCHANGED <<target, matchedBy>> /\ Answer("error", NoValue)
    BY <1>0, <1>5, <2>1, <2>4
  <2> QED BY <1>11, <2>2, <2>3, <2>4 DEF FindByEmail
<1>12. CASE FindByName
  <2>1. req.tool = "crm_invoices" /\ step = "by_name" /\ UNCHANGED <<world, req, sellers, pages>>
    BY <1>12 DEF FindByName, StageOK
  <2>0. PICK directory \in Directories : \E matches \in SUBSET ByName(directory) :
           LET id == PickByName(directory, matches, req.arg.hasEmail)
           IN  IF id = None
               THEN Answer("error", NoValue) /\ UNCHANGED <<target, matchedBy, seen>>
               ELSE Found(directory, "name", id)
    BY <1>12 DEF FindByName
  <2>2. PICK matches \in SUBSET ByName(directory) :
           LET id == PickByName(directory, matches, req.arg.hasEmail)
           IN  IF id = None
               THEN Answer("error", NoValue) /\ UNCHANGED <<target, matchedBy, seen>>
               ELSE Found(directory, "name", id)
    BY <2>0
  <2>3. CASE Answer("error", NoValue) /\ UNCHANGED <<target, matchedBy, seen>>
    BY <1>0, <1>5, <2>1, <2>3
  <2>4. CASE PickByName(directory, matches, req.arg.hasEmail) # None
    <3>1. req.arg.hasEmail \in BOOLEAN
      BY <2>1 DEF RequestOK
    <3>2. PICK k \in DOMAIN directory : PickByName(directory, matches, req.arg.hasEmail) = directory[k].id
      BY <2>4, <3>1, AloneByName
    <3>3. Found(directory, "name", directory[k].id)
      BY <2>2, <2>4, <3>2
    <3> QED BY <1>10, <2>1, <3>3
  <2> QED BY <2>2, <2>3, <2>4
<1>13. CASE ReadOwnName
  <2>1. CASE Go("class_sales") /\ (req.admin \/ req.arg)
    <3>1. StageOK'
      BY <1>13, <2>1 DEF ReadOwnName, Go, world, found, StageOK
    <3> QED BY <1>4, <1>13, <2>1, <3>1 DEF ReadOwnName, Go, found, CallTypeOK
  <2>2. CASE Answer("denied", NoValue)
    BY <1>0, <1>5, <1>13, <2>2 DEF ReadOwnName, found
  <2> QED BY <1>13, <2>1, <2>2 DEF ReadOwnName
<1>14. CASE FetchClassSales
  <2>1. StageOK'
    BY <1>14 DEF FetchClassSales, Go, world, found, StageOK
  <2> QED BY <1>4, <1>14, <2>1 DEF FetchClassSales, Go, found, CallTypeOK
<1>15. CASE FetchClasses
  <2>1. CASE Go("sellers")
    <3>1. StageOK'
      BY <1>15, <2>1 DEF FetchClasses, Go, world, StageOK
    <3> QED BY <1>4, <1>15, <2>1, <3>1 DEF FetchClasses, Go, CallTypeOK
  <2>2. CASE Answer("ok", NoValue)
    BY <1>0, <1>5, <1>15, <2>2 DEF FetchClasses
  <2> QED BY <1>15, <2>1, <2>2 DEF FetchClasses
<1>16. CASE FetchSellers
  <2>1. StageOK'
    BY <1>16 DEF FetchSellers, Go, world, StageOK
  <2>2. CallTypeOK'
    BY <1>16 DEF FetchSellers, Go, world, pages, CallTypeOK
  <2>3. RequestOK' /\ ReadOK'
    BY <1>16, FirstPage, ToolsAssumption DEF FetchSellers, Go, pages, RequestOK, ReadOK
  <2> QED BY <2>1, <2>2, <2>3
<1>17. CASE FetchPage
  <2>1. page \in 0..(MaxPages - 1) /\ page \in 0..MaxPages /\ books \in SUBSET Invoices /\ page' = page + 1
    <3>1. step = "page" /\ page' = page + 1
      BY <1>17 DEF FetchPage
    <3>2. page < MaxPages /\ page \in 0..MaxPages /\ books \in SUBSET Invoices
      BY <3>1 DEF ReadOK, CallTypeOK
    <3> QED BY <3>1, <3>2, ToolsAssumption
  <2>2. page' \in 1..MaxPages
    BY <2>1, ToolsAssumption
  <2>3. PICK batch \in Batches :
           /\ all' = all \o batch
           /\ IF Len(batch) < PageSize \/ page + 1 = MaxPages
              THEN Answer("ok", Value(all'))
              ELSE Go("page")
    BY <1>17 DEF FetchPage
  <2>4. batch \in Seq(Invoices) /\ Len(batch) <= PageSize
    BY <2>1, BatchIsPage, SeqMonotonic DEF IsPage
  <2>5. all' \in Seq(Invoices) /\ Len(all') = Len(all) + Len(batch)
    BY <2>3, <2>4, ConcatProperties DEF CallTypeOK
  <2>6. /\ Len(all') <= page' * PageSize /\ Len(all') <= MaxPages * PageSize
        /\ Len(batch) = PageSize => Len(all') = page' * PageSize
    <3>1. Len(all) \in Nat /\ Len(batch) \in Nat /\ PageSize \in Nat
      BY <2>4, ToolsAssumption DEF CallTypeOK
    <3>2. /\ page * PageSize \in Nat /\ MaxPages * PageSize \in Nat
          /\ (page + 1) * PageSize = page * PageSize + PageSize
          /\ page * PageSize + PageSize <= MaxPages * PageSize
      BY <2>1, PagesOfSize, ToolsAssumption
    <3>3. Len(all) = page * PageSize
      BY <1>17 DEF FetchPage, ReadOK
    <3> QED BY <2>1, <2>4, <2>5, <3>1, <3>2, <3>3
  <2>7. \/ step' = "done" /\ result'.outcome = "ok"
        \/ step' = "page" /\ result' = result /\ Len(batch) = PageSize /\ page' < MaxPages
    <3>1. CASE Answer("ok", Value(all'))
      BY <3>1, AnswerEnds
    <3>2. CASE Go("page") /\ ~(Len(batch) < PageSize) /\ page + 1 # MaxPages
      <4>1. Len(batch) \in Nat /\ PageSize \in Nat /\ MaxPages \in Nat
        BY <2>4, ToolsAssumption
      <4> QED BY <2>1, <2>2, <2>4, <3>2, <4>1 DEF Go
    <3> QED BY <2>3, <3>1, <3>2
  <2>8. StageOK'
    BY <1>17, <2>7 DEF FetchPage, world, found, StageOK
  <2>9. CallTypeOK'
    BY <1>0, <1>17, <2>2, <2>5, <2>6, <2>7 DEF FetchPage, world, found, CallTypeOK
  <2>10. RequestOK' /\ ReadOK'
    BY <1>17, <2>6, <2>7 DEF FetchPage, RequestOK, ReadOK
  <2> QED BY <2>8, <2>9, <2>10
<1>18. CASE Fails
  BY <1>0, <1>5, <1>18 DEF Fails, found
<1>19. CASE InvoiceAdded \/ InvoiceRemoved
  <2>1. UNCHANGED <<call, links, linked>> /\ books' \subseteq Invoices /\ midway' \subseteq {"added", "removed"}
    BY <1>19 DEF InvoiceAdded, InvoiceRemoved, BooksChange, Change, CallTypeOK
  <2>2. CallTypeOK'
    BY <2>1 DEF call, found, pages, CallTypeOK
  <2>3. StageOK' /\ RequestOK' /\ ReadOK'
    BY <2>1 DEF call, found, pages, StageOK, RequestOK, ReadOK
  <2> QED BY <2>2, <2>3
<1>20. CASE LinksChange
  <2>1. links' \subseteq linked' /\ linked' \subseteq Customers /\ linked \subseteq linked'
    BY <1>20 DEF LinksChange, CallTypeOK
  <2>2. StageOK'
    BY <1>20, <2>1 DEF LinksChange, Change, call, found, StageOK
  <2> QED BY <1>20, <2>1, <2>2 DEF LinksChange, Change, call, found, pages, CallTypeOK, RequestOK, ReadOK
<1>21. CASE UNCHANGED callVars
  BY <1>21 DEF callVars, call, world, found, pages, StageOK, CallTypeOK, RequestOK, ReadOK
<1> QED BY <1>1, <1>2, <1>6, <1>7, <1>8, <1>9, <1>11, <1>12, <1>13, <1>14, <1>15, <1>16, <1>17, <1>18,
           <1>19, <1>20, <1>21 DEF CallNext, Tool, Others

(* What an answer shows is in its value.                                   *)
LEMMA ShownIsListed ==
    ASSUME NEW S, NEW value \in Seq(S), Answer("ok", value), NEW i \in Shown'
    PROVE  \/ req'.tool = "sales_rep" /\ \E c \in ToSet(value) : i \in ToSet(c.invoices)
           \/ /\ req'.tool \in {"invoice", "customer_invoices", "crm_invoices", "invoices_in_range"}
              /\ i \in ToSet(value)
<1>1. \A x \in ToSet(result'.value) : x \in ToSet(value)
  BY AnswerShows
<1>2. CASE req'.tool = "sales_rep"
  <2>1. i \in UNION {ToSet(c.invoices) : c \in ToSet(result'.value)}
    BY <1>2 DEF Shown
  <2>2. PICK c \in ToSet(result'.value) : i \in ToSet(c.invoices)
    BY <2>1
  <2> QED BY <1>1, <1>2, <2>2
<1>3. CASE req'.tool \in {"invoice", "customer_invoices", "crm_invoices", "invoices_in_range"}
  BY <1>1, <1>3 DEF Shown
<1> QED BY <1>2, <1>3 DEF Shown

(* Who is not an admin sees no other customers than these.                 *)
LEMMA LinkedOrOwnStep ==
    CallShape /\ NonAdminsSeeLinkedOrOwn /\ [CallNext]_callVars => NonAdminsSeeLinkedOrOwn'
<1> SUFFICES ASSUME CallShape, NonAdminsSeeLinkedOrOwn, [CallNext]_callVars
             PROVE  NonAdminsSeeLinkedOrOwn'
  OBVIOUS
<1> USE DEF CallShape
<1>1. ASSUME ~Answered' PROVE NonAdminsSeeLinkedOrOwn'
  <2>1. Shown' = {}
    BY <1>1 DEF Shown
  <2> QED BY <2>1 DEF NonAdminsSeeLinkedOrOwn
<1>2. ASSUME NEW outcome \in {"denied", "error"}, NEW value, Answer(outcome, value)
      PROVE  NonAdminsSeeLinkedOrOwn'
  <2>1. result'.outcome # "ok"
    BY <1>2, AnswerEnds
  <2> QED BY <1>1, <2>1 DEF Answered
<1>3. ASSUME NEW to, Go(to), to # "done" PROVE NonAdminsSeeLinkedOrOwn'
  BY <1>1, <1>3 DEF Go, Answered
<1>4. ASSUME req'.tool \notin {"invoice", "customer_invoices", "crm_invoices", "invoices_in_range", "sales_rep"}
      PROVE  NonAdminsSeeLinkedOrOwn'
  <2>1. Shown' = {}
    BY <1>4 DEF Shown
  <2> QED BY <2>1 DEF NonAdminsSeeLinkedOrOwn
<1>5. ASSUME Answer("ok", NoValue) PROVE NonAdminsSeeLinkedOrOwn'
  <2>1. NoValue \in Seq({}) /\ ToSet(NoValue) = {}
    BY DEF NoValue, ToSet
  <2>2. Shown' = {}
    BY <1>5, <2>1, ShownIsListed
  <2> QED BY <2>2 DEF NonAdminsSeeLinkedOrOwn
<1>6. CASE Authorize
  BY <1>2, <1>3, <1>6 DEF Authorize
<1>7. CASE FetchInvoice
  BY <1>2, <1>3, <1>7 DEF FetchInvoice
<1>8. CASE ReadLinks
  <2>1. CASE req.tool = "invoice" /\ Answer("ok", <<req.arg>>) /\ (req.admin \/ target \in links)
    <3>1. <<req.arg>> \in Seq({req.arg}) /\ ToSet(<<req.arg>>) = {req.arg}
      BY DEF ToSet
    <3>2. \A i \in Shown' : i = req.arg
      BY <1>8, <2>1, <3>1, ShownIsListed DEF ReadLinks
    <3>3. req' = req /\ linked' = linked /\ links \subseteq linked /\ target = req.arg.customer
      BY <1>8, <2>1 DEF ReadLinks, world, CallTypeOK, StageOK
    <3> QED BY <2>1, <3>2, <3>3 DEF NonAdminsSeeLinkedOrOwn
  <2>2. CASE req.tool = "search_customers"
    BY <1>4, <1>8, <2>2 DEF ReadLinks
  <2>3. CASE Answer("denied", NoValue) \/ Go("customer")
    BY <1>2, <1>3, <2>3
  <2> QED BY <1>8, <2>1, <2>2, <2>3 DEF ReadLinks, StageOK
<1>9. CASE Fetch
  BY <1>4, <1>9 DEF Fetch, StageOK
<1>10. CASE FetchCustomer
  <2> DEFINE own == {i \in books : i.customer = target}
             size == Min({MaxOfCustomer, Cardinality(own)})
  <2>1. PICK listing \in [1..size -> own] : Answer("ok", listing)
    BY <1>10 DEF FetchCustomer
  <2>2. size \in Nat
    <3>1. own \in SUBSET Invoices
      BY DEF CallTypeOK
    <3>2. Cardinality(own) \in Nat /\ MaxOfCustomer \in Nat
      BY <3>1, CountsOfDays, ToolsAssumption
    <3> QED BY <3>2, MinOfTwo
  <2> HIDE DEF size
  <2>3. listing \in Seq(own) /\ \A i \in ToSet(listing) : i.customer = target
    BY <2>1, <2>2 DEF ToSet
  <2>4. req' = req /\ linked' = linked /\ target' = target /\ matchedBy' = matchedBy
        /\ req.tool \in {"customer_invoices", "crm_invoices"}
    BY <1>10 DEF FetchCustomer, world, StageOK
  <2> HIDE DEF own
  <2>5. \A i \in Shown' : i.customer = target
    BY <2>1, <2>3, <2>4, ShownIsListed
  <2>6. \/ req.admin \/ target \in linked
        \/ req.tool = "crm_invoices" /\ matchedBy \in {"email", "name"}
    BY <1>10 DEF FetchCustomer, StageOK
  <2> QED BY <2>4, <2>5, <2>6 DEF NonAdminsSeeLinkedOrOwn
<1>11. CASE ReadCrmCustomer
  BY <1>2, <1>3, <1>11 DEF ReadCrmCustomer
<1>12. CASE FindByEmail
  BY <1>2, <1>3, <1>12 DEF FindByEmail, Found
<1>13. CASE FindByName
  BY <1>2, <1>3, <1>13 DEF FindByName, Found
<1>14. CASE ReadOwnName \/ FetchClassSales \/ FetchSellers
  BY <1>2, <1>3, <1>14 DEF ReadOwnName, FetchClassSales, FetchSellers
<1>15. CASE FetchClasses
  BY <1>3, <1>5, <1>15 DEF FetchClasses
<1>16. CASE FetchPage
  <2>1. CASE Go("page")
    BY <1>3, <2>1
  <2>2. CASE Answer("ok", Value(all')) /\ req.tool = "sales_rep" /\ (req.admin \/ req.arg)
    <3>1. CallShape'
      BY CallShapeStep
    <3>2. all' \in Seq(Invoices) /\ sellers \in SUBSET Customers
      BY <3>1 DEF CallTypeOK
    <3>3. Value(all') = AttachInvoices(sellers, all')
      BY <2>2 DEF Value
    <3> DEFINE attached == AttachInvoices(sellers, all')
    <3>4. /\ attached \in Seq([customer : sellers, invoices : Seq(Invoices)])
          /\ \A shown \in ToSet(attached) : \A i \in ToSet(shown.invoices) : i.customer \in sellers
      BY <3>2, AttachedAll
    <3>5. req' = req /\ sellers' = sellers
      BY <1>16 DEF FetchPage
    <3> HIDE DEF attached
    <3>6. Answer("ok", attached)
      BY <2>2, <3>3 DEF attached
    <3>7. \A i \in Shown' : i.customer \in sellers
      BY <2>2, <3>4, <3>5, <3>6, ShownIsListed
    <3> QED BY <2>2, <3>5, <3>7 DEF NonAdminsSeeLinkedOrOwn
  <2>3. CASE req.admin
    BY <1>16, <2>3 DEF FetchPage, NonAdminsSeeLinkedOrOwn
  <2> QED BY <1>16, <2>1, <2>2, <2>3 DEF FetchPage, StageOK
<1>17. CASE Fails
  BY <1>2, <1>17 DEF Fails
<1>18. CASE Others
  BY <1>1, <1>18 DEF Others, InvoiceAdded, InvoiceRemoved, LinksChange, BooksChange, Change, call, Answered
<1>19. CASE UNCHANGED callVars
  BY <1>19 DEF callVars, call, world, found, NonAdminsSeeLinkedOrOwn, Shown, Answered
<1> QED BY <1>6, <1>7, <1>8, <1>9, <1>10, <1>11, <1>12, <1>13, <1>14, <1>15, <1>16, <1>17, <1>18, <1>19
        DEF CallNext, Tool

-----------------------------------------------------------------------------
(* The pages.                                                              *)

(* Unless something was added: all that there is was there at the first    *)
(* page, and fewer than k invoices are from before the day of the k-th     *)
(* that was read.                                                          *)
ReadComesFirst ==
    (step = "page" /\ "added" \notin midway) =>
        /\ page > 0 => books \subseteq before
        /\ \A k \in DOMAIN all : Earlier(books, all[k].date) < k

(* Unless something was removed: what was there at the first page still    *)
(* is, and was read if its day begins on one of the pages read, or one of  *)
(* them ended within that day.                                             *)
ReadUpToHere ==
    (step = "page" /\ page > 0 /\ "removed" \notin midway) =>
        /\ before \subseteq books
        /\ \A i \in before :
              i \in ToSet(all) \/ PageEndsOnDayOf(i) \/ page * PageSize <= Earlier(books, i.date)

PagesInv == ReadComesFirst /\ ReadUpToHere /\ PagesInOrder /\ NothingMissed

LEMMA PagesInit == CallInit => PagesInv
BY DEF CallInit, PagesInv, ReadComesFirst, ReadUpToHere, PagesInOrder, NothingMissed, Answered

(* A page adds to what was read.                                           *)
Appended(batch, longer) ==
    LET n == page * PageSize
    IN  /\ Len(all) = n /\ Len(batch) \in Nat
        /\ longer \in Seq(Invoices) /\ Len(longer) = n + Len(batch)
        /\ DOMAIN longer = 1..(n + Len(batch)) /\ DOMAIN all = 1..n
        /\ \A k \in 1..n : longer[k] = all[k]
        /\ \A k \in 1..Len(batch) : longer[n + k] = batch[k]
        /\ \A k \in DOMAIN longer : k \in 1..n \/ \E m \in 1..Len(batch) : k = n + m
        /\ \A x \in ToSet(all) \cup ToSet(batch) : x \in ToSet(longer)

LEMMA PageAppended ==
    ASSUME CallShape, step = "page", NEW batch, IsPage(batch)
    PROVE  Appended(batch, all \o batch)
<1> DEFINE longer == all \o batch
<1>1. all \in Seq(Invoices) /\ batch \in Seq(Invoices) /\ Len(all) = page * PageSize
  BY SeqMonotonic DEF CallShape, CallTypeOK, ReadOK, IsPage
<1>2. Len(all) \in Nat /\ Len(batch) \in Nat /\ DOMAIN all = 1..Len(all) /\ DOMAIN batch = 1..Len(batch)
  BY <1>1
<1>3. /\ longer \in Seq(Invoices) /\ Len(longer) = Len(all) + Len(batch)
      /\ \A i \in 1..(Len(all) + Len(batch)) :
            longer[i] = IF i <= Len(all) THEN all[i] ELSE batch[i - Len(all)]
  BY <1>1, ConcatProperties
<1> HIDE DEF longer
<1>4. DOMAIN longer = 1..(Len(all) + Len(batch))
  BY <1>3
<1>5. \A k \in 1..Len(all) : k \in DOMAIN longer /\ longer[k] = all[k]
  <2>1. \A k \in 1..Len(all) : k \in 1..(Len(all) + Len(batch)) /\ k <= Len(all)
    BY <1>2
  <2> QED BY <1>3, <1>4, <2>1
<1>6. \A k \in 1..Len(batch) : Len(all) + k \in DOMAIN longer /\ longer[Len(all) + k] = batch[k]
  <2>1. \A k \in 1..Len(batch) : /\ Len(all) + k \in 1..(Len(all) + Len(batch))
                                 /\ ~(Len(all) + k <= Len(all)) /\ (Len(all) + k) - Len(all) = k
    BY <1>2
  <2> QED BY <1>3, <1>4, <2>1
<1>7. ASSUME NEW k \in DOMAIN longer, k \notin 1..Len(all)
      PROVE  \E m \in 1..Len(batch) : k = Len(all) + m
  <2>1. k - Len(all) \in 1..Len(batch) /\ k = Len(all) + (k - Len(all))
    BY <1>2, <1>4, <1>7
  <2> QED BY <2>1
<1>8. \A x \in ToSet(all) \cup ToSet(batch) : x \in ToSet(longer)
  BY <1>2, <1>5, <1>6 DEF ToSet
<1>9. Appended(batch, longer)
  BY <1>1, <1>2, <1>3, <1>4, <1>5, <1>6, <1>7, <1>8 DEF Appended
<1> QED BY <1>9 DEF longer

(* An invoice of a page that was read already shares its day with another, *)
(* and none of a page is from before one that was read.                    *)
LEMMA PageFollows ==
    ASSUME CallShape, ReadComesFirst, step = "page", "added" \notin midway,
           NEW batch, IsPage(batch), NEW j \in DOMAIN all, NEW k \in 1..Len(batch)
    PROVE  /\ all[j].date <= batch[k].date
           /\ all[j] = batch[k] => \E i \in before : i # batch[k] /\ i.date = batch[k].date
<1> DEFINE n == page * PageSize
           d == all[j].date
           e == batch[k].date
<1>1. /\ books \in SUBSET Invoices /\ page \in 0..MaxPages /\ all \in Seq(Invoices)
      /\ Len(all) = n
  BY DEF CallShape, CallTypeOK, ReadOK
<1>2. n \in Nat
  BY <1>1, PagesOfSize
<1> HIDE DEF n
<1>3. j \in 1..n /\ all[j] \in Invoices
  BY <1>1
<1>4. d \in Nat /\ Earlier(books, d) < j
  BY <1>3, ToolsAssumption DEF ReadComesFirst
<1>5. batch[k] \in books /\ n + k <= Until(books, e) /\ k \in Nat /\ k >= 1
  BY DEF IsPage, n
<1>6. e \in Nat
  BY <1>1, <1>5, CountsOfDays
<1> HIDE DEF d, e
<1>7. /\ Earlier(books, d) \in Nat /\ Until(books, e) \in Nat
      /\ e < d => Until(books, e) <= Earlier(books, d)
  BY <1>1, <1>4, <1>6, CountsOfDays
<1>8. d <= e
  BY <1>2, <1>3, <1>4, <1>5, <1>6, <1>7
<1>9. ASSUME all[j] = batch[k] PROVE \E i \in before : i # batch[k] /\ i.date = batch[k].date
  <2> DEFINE D == {i \in books : i.date = e}
  <2>1. d = e
    BY <1>9 DEF d, e
  <2>2. IsFiniteSet(D) /\ Cardinality(D) = Until(books, e) - Earlier(books, e)
    BY <1>1, <1>6, InvoicesOfDay
  <2>3. Cardinality(D) >= 2
    BY <1>2, <1>3, <1>4, <1>5, <1>7, <2>1, <2>2
  <2>4. D # {batch[k]}
    <3>1. Cardinality({batch[k]}) = 1
      BY FS_Singleton
    <3> HIDE DEF D
    <3>2. D = {batch[k]} => Cardinality(D) = 1
      BY <3>1, Zenon
    <3> QED BY <2>3, <3>2
  <2>5. batch[k] \in D
    BY <1>5 DEF e
  <2>6. PICK i \in D : i # batch[k]
    BY <2>4, <2>5
  <2>7. page > 0
    <3>1. page = 0 => n = 0
      BY ToolsAssumption DEF n
    <3> QED BY <1>1, <1>3, <3>1, ToolsAssumption
  <2>8. i \in before /\ i.date = batch[k].date
    BY <2>6, <2>7 DEF ReadComesFirst, e
  <2> QED BY <2>6, <2>8
<1> QED BY <1>8, <1>9 DEF d, e

(* What becomes of an invoice that was not read before this page, if its   *)
(* day does not begin before.                                              *)
LEMMA ReadNowOrLater ==
    ASSUME CallShape, step = "page", NEW batch, IsPage(batch), NEW i \in books,
           page * PageSize <= Earlier(books, i.date)
    PROVE  \/ i \in ToSet(batch)
           \/ Len(batch) = PageSize /\ batch[PageSize].date = i.date
           \/ page * PageSize + PageSize <= Earlier(books, i.date)
<1> DEFINE n == page * PageSize
           a == Earlier(books, i.date)
           b == Until(books, i.date)
<1>1. books \in SUBSET Invoices /\ page \in 0..MaxPages
  BY DEF CallShape, CallTypeOK
<1>2. n \in Nat /\ PageSize \in Nat \ {0} /\ Len(batch) \in Nat /\ Len(batch) <= PageSize
  BY <1>1, PagesOfSize, ToolsAssumption DEF IsPage
<1>3. i.date \in Nat /\ a < b
  BY <1>1, CountsOfDays
<1>4. a \in Nat /\ b \in Nat /\ b <= Cardinality(books) /\ Cardinality(books) \in Nat
  BY <1>1, <1>3, CountsOfDays
<1>5. Len(batch) < PageSize => Cardinality(books) <= n + Len(batch)
  BY DEF IsPage
<1>6. n <= a
  OBVIOUS
<1> HIDE DEF n, a, b
<1>7. CASE b <= n + Len(batch)
  BY <1>1, <1>6, <1>7, DayWithinPage DEF n, a, b
<1>8. CASE ~(b <= n + Len(batch)) /\ a < n + PageSize
  <2>1. Len(batch) = PageSize /\ PageSize \in 1..Len(batch) /\ n + PageSize <= b
    BY <1>2, <1>4, <1>5, <1>8
  <2>2. batch[PageSize].date = i.date
    BY <1>1, <1>3, <1>8, <2>1, PlaceOfDay DEF n, a, b
  <2> QED BY <2>1, <2>2
<1>9. CASE n + PageSize <= a
  BY <1>9 DEF n, a
<1> QED BY <1>2, <1>4, <1>7, <1>8, <1>9

LEMMA PagesOnFetch == CallShape /\ PagesInv /\ FetchPage => PagesInv'
<1> SUFFICES ASSUME CallShape, PagesInv, FetchPage PROVE PagesInv'
  OBVIOUS
<1> DEFINE n == page * PageSize
<1>1. /\ books \in SUBSET Invoices /\ page \in 0..MaxPages /\ page < MaxPages
      /\ step = "page" /\ page' = page + 1
      /\ books' = books /\ midway' = midway /\ sellers' = sellers /\ req' = req
      /\ before' = IF page = 0 THEN books ELSE before
  BY DEF FetchPage, world, CallShape, CallTypeOK, ReadOK
<1>2. n \in Nat /\ PageSize \in Nat \ {0} /\ page' * PageSize = n + PageSize
  BY <1>1, PagesOfSize, ToolsAssumption
<1>3. PICK batch \in Batches :
         /\ all' = all \o batch
         /\ IF Len(batch) < PageSize \/ page + 1 = MaxPages
            THEN Answer("ok", Value(all'))
            ELSE Go("page")
  BY DEF FetchPage
<1>4. IsPage(batch)
  BY <1>1, BatchIsPage
<1>5. /\ Len(all) = n /\ Len(batch) \in Nat
      /\ all' \in Seq(Invoices) /\ Len(all') = n + Len(batch)
      /\ DOMAIN all' = 1..(n + Len(batch)) /\ DOMAIN all = 1..n
      /\ \A k \in 1..n : all'[k] = all[k]
      /\ \A k \in 1..Len(batch) : all'[n + k] = batch[k]
      /\ \A k \in DOMAIN all' : k \in 1..n \/ \E m \in 1..Len(batch) : k = n + m
      /\ \A x \in ToSet(all) \cup ToSet(batch) : x \in ToSet(all')
  <2>1. Appended(batch, all \o batch)
    BY <1>1, <1>4, PageAppended
  <2>2. Appended(batch, all')
    BY <1>3, <2>1
  <2> QED BY <2>2 DEF Appended
<1>6. Len(batch) <= PageSize /\ IsInjective(batch) /\ DOMAIN batch = 1..Len(batch)
  BY <1>4 DEF IsPage
<1>7. page = 0 <=> n = 0
  <2>1. page \in Nat /\ PageSize \in Nat \ {0}
    BY <1>1, <1>2, ToolsAssumption
  <2>2. page = 0 => n = 0
    BY <2>1
  <2>3. page # 0 => n # 0
    BY <2>1
  <2> QED BY <2>2, <2>3
<1> HIDE DEF n
<1>8. ReadComesFirst'
  <2> SUFFICES ASSUME "added" \notin midway
               PROVE  /\ books \subseteq before'
                      /\ \A k \in DOMAIN all' : Earlier(books, all'[k].date) < k
    BY <1>1 DEF ReadComesFirst
  <2>1. books \subseteq before'
    BY <1>1, ToolsAssumption DEF PagesInv, ReadComesFirst
  <2>2. ASSUME NEW k \in 1..n PROVE Earlier(books, all'[k].date) < k
    BY <1>1, <1>5, <2>2 DEF PagesInv, ReadComesFirst
  <2>3. ASSUME NEW m \in 1..Len(batch) PROVE Earlier(books, all'[n + m].date) < n + m
    BY <1>4, <1>5, <2>3 DEF IsPage, n
  <2> QED BY <1>5, <2>1, <2>2, <2>3
<1>9. PagesInOrder'
  <2> SUFFICES ASSUME "added" \notin midway, NEW j \in DOMAIN all', NEW k \in DOMAIN all', j < k
               PROVE  /\ all'[j].date <= all'[k].date
                      /\ all'[j] = all'[k] =>
                            /\ \E i \in before' : i # all'[k] /\ i.date = all'[k].date
                            /\ \E m \in 1..page' : j <= m * PageSize /\ m * PageSize < k
    BY <1>1 DEF PagesInOrder
  <2>0. j \in Nat /\ k \in Nat /\ j >= 1 /\ page \in Nat
    BY <1>1, <1>2, <1>5, ToolsAssumption
  <2>1. CASE k \in 1..n
    <3>1. j \in 1..n
      BY <1>2, <2>0, <2>1
    <3>2. page # 0 /\ before' = before
      BY <1>1, <1>7, <2>1
    <3>3. 1..page \subseteq 1..page'
      BY <1>1, <2>0
    <3>4. /\ all[j].date <= all[k].date
          /\ all[j] = all[k] =>
                /\ \E i \in before : i # all[k] /\ i.date = all[k].date
                /\ \E m \in 1..page : j <= m * PageSize /\ m * PageSize < k
      BY <1>5, <2>1, <3>1 DEF PagesInv, PagesInOrder
    <3>5. all'[j] = all[j] /\ all'[k] = all[k]
      BY <1>5, <2>1, <3>1
    <3> QED BY <3>2, <3>3, <3>4, <3>5
  <2>2. CASE j \in 1..n /\ k \notin 1..n
    <3>1. PICK m \in 1..Len(batch) : k = n + m
      BY <1>5, <2>2
    <3>2. all'[k] = batch[m] /\ all'[j] = all[j] /\ j \in DOMAIN all
      BY <1>5, <2>2, <3>1
    <3>3. page # 0 /\ before' = before
      BY <1>1, <1>7, <2>2
    <3>4. /\ all[j].date <= batch[m].date
          /\ all[j] = batch[m] => \E i \in before : i # batch[m] /\ i.date = batch[m].date
      BY <1>1, <1>4, <3>2, PageFollows DEF PagesInv
    <3>5. page \in 1..page' /\ j <= page * PageSize /\ page * PageSize < k
      BY <1>1, <1>2, <2>0, <2>2, <3>1, <3>3 DEF n
    <3> QED BY <3>2, <3>3, <3>4, <3>5
  <2>3. CASE j \notin 1..n /\ k \notin 1..n
    <3>1. PICK l \in 1..Len(batch) : j = n + l
      BY <1>5, <2>3
    <3>2. PICK m \in 1..Len(batch) : k = n + m
      BY <1>5, <2>3
    <3>3. l < m
      BY <1>2, <1>5, <3>1, <3>2
    <3>4. batch[l].date <= batch[m].date
      BY <1>1, <1>4, <3>3, PageInOrder
    <3>5. batch[l] # batch[m]
      <4>1. l # m
        BY <1>5, <3>3
      <4> QED BY <1>6, <4>1 DEF IsInjective
    <3> QED BY <1>5, <3>1, <3>2, <3>4, <3>5
  <2> QED BY <2>1, <2>2, <2>3
<1>10. ASSUME "removed" \notin midway
       PROVE  /\ before' \subseteq books
              /\ \A i \in before' :
                    i \in ToSet(all') \/ PageEndsOnDayOf(i)' \/ n + PageSize <= Earlier(books, i.date)
  <2>1. before' \subseteq books
    BY <1>1, <1>10, ToolsAssumption DEF PagesInv, ReadUpToHere
  <2>2. ASSUME NEW i \in before'
        PROVE  i \in ToSet(all') \/ PageEndsOnDayOf(i)' \/ n + PageSize <= Earlier(books, i.date)
    <3>1. i \in books /\ i.date \in Nat
      BY <1>1, <2>1, CountsOfDays
    <3>2. Earlier(books, i.date) \in Nat
      BY <1>1, <3>1, CountsOfDays
    <3>3. i \in ToSet(all) \/ PageEndsOnDayOf(i) \/ n <= Earlier(books, i.date)
      <4>1. CASE page = 0
        BY <1>7, <3>2, <4>1
      <4>2. CASE page > 0
        BY <1>1, <1>10, <4>2 DEF PagesInv, ReadUpToHere, n
      <4> QED BY <1>1, <4>1, <4>2, ToolsAssumption
    <3>4. CASE PageEndsOnDayOf(i)
      <4>1. PICK m \in 1..page : m * PageSize <= Len(all) /\ all[m * PageSize].date = i.date
        BY <3>4 DEF PageEndsOnDayOf
      <4>2. m \in 1..page' /\ m \in Nat /\ m >= 1
        BY <1>1, ToolsAssumption
      <4>3. m * PageSize \in Nat /\ m * PageSize >= 1
        BY <1>2, <4>2
      <4>4. m * PageSize \in 1..n /\ m * PageSize <= Len(all')
        BY <1>2, <1>5, <4>1, <4>3
      <4>5. all'[m * PageSize].date = i.date
        BY <1>5, <4>1, <4>4
      <4> QED BY <4>2, <4>4, <4>5 DEF PageEndsOnDayOf
    <3>5. CASE i \in ToSet(all)
      BY <1>5, <3>5
    <3>6. CASE n <= Earlier(books, i.date)
      <4>1. \/ i \in ToSet(batch)
            \/ Len(batch) = PageSize /\ batch[PageSize].date = i.date
            \/ n + PageSize <= Earlier(books, i.date)
        BY <1>1, <1>4, <3>1, <3>6, ReadNowOrLater DEF n
      <4>2. CASE i \in ToSet(batch)
        BY <1>5, <4>2
      <4>3. CASE Len(batch) = PageSize /\ batch[PageSize].date = i.date
        <5>1. PageSize \in 1..Len(batch)
          BY <1>2, <4>3
        <5>2. all'[page' * PageSize].date = i.date /\ page' * PageSize <= Len(all')
          BY <1>2, <1>5, <4>3, <5>1
        <5>3. page' \in 1..page'
          BY <1>1, ToolsAssumption
        <5> QED BY <5>2, <5>3 DEF PageEndsOnDayOf
      <4> QED BY <4>1, <4>2, <4>3
    <3> QED BY <3>3, <3>4, <3>5, <3>6
  <2> QED BY <2>1, <2>2
<1>11. ReadUpToHere'
  BY <1>1, <1>2, <1>10 DEF ReadUpToHere
<1>12. NothingMissed'
  <2> SUFFICES ASSUME Answered', ~result'.cut, "removed" \notin midway,
                      Cardinality(books) <= PageSize * MaxPages, NEW i \in before'
               PROVE  \/ i \in Shown'
                      \/ req.tool = "sales_rep" /\ i.customer \notin sellers
                      \/ PageEndsOnDayOf(i)'
    BY <1>1 DEF NothingMissed
  <2>1. i \in books /\ i.date \in Nat
    BY <1>1, <1>10, CountsOfDays
  <2>2. /\ Earlier(books, i.date) \in Nat /\ Until(books, i.date) \in Nat /\ Cardinality(books) \in Nat
        /\ Earlier(books, i.date) < Until(books, i.date) /\ Until(books, i.date) <= Cardinality(books)
    BY <1>1, <2>1, CountsOfDays
  <2>3. (Len(batch) < PageSize \/ page + 1 = MaxPages) /\ Answer("ok", Value(all'))
    BY <1>3 DEF Answered, Go
  <2>4. Cardinality(books) <= n + PageSize
    <3>1. CASE Len(batch) < PageSize
      BY <1>2, <1>4, <2>2, <3>1 DEF IsPage, n
    <3>2. CASE page + 1 = MaxPages
      <4>1. MaxPages * PageSize = n + PageSize
        BY <1>1, <1>2, <3>2
      <4>2. MaxPages * PageSize = PageSize * MaxPages
        BY ToolsAssumption
      <4> QED BY <4>1, <4>2
    <3> QED BY <2>3, <3>1, <3>2
  <2>5. ~(n + PageSize <= Earlier(books, i.date))
    BY <1>2, <2>2, <2>4
  <2>6. i \in ToSet(all') \/ PageEndsOnDayOf(i)'
    BY <1>10, <2>5
  <2>7. result'.value = Value(all')
    BY <2>3, AnswerEnds
  <2>8. req.tool \in {"sales_rep", "invoices_in_range"}
    BY <1>1 DEF CallShape, StageOK
  <2>9. CASE i \in ToSet(all') /\ req.tool = "invoices_in_range"
    <3>1. Shown' = ToSet(all')
      BY <1>1, <2>7, <2>9 DEF Shown, Value
    <3> QED BY <2>9, <3>1
  <2>10. CASE i \in ToSet(all') /\ req.tool = "sales_rep" /\ i.customer \in sellers
    <3>1. result'.value = AttachInvoices(sellers, all')
      BY <2>7, <2>10 DEF Value
    <3>2. PICK k \in DOMAIN all' : all'[k] = i
      BY <2>10 DEF ToSet
    <3>3. sellers \in SUBSET Customers
      BY DEF CallShape, CallTypeOK
    <3>4. \E shown \in ToSet(result'.value) : i \in ToSet(shown.invoices)
      BY <1>5, <2>10, <3>1, <3>2, <3>3, AttachedAll
    <3>5. Shown' = UNION {ToSet(c.invoices) : c \in ToSet(result'.value)}
      BY <1>1, <2>10 DEF Shown
    <3> QED BY <3>4, <3>5
  <2> QED BY <2>6, <2>8, <2>9, <2>10
<1> QED BY <1>8, <1>9, <1>11, <1>12 DEF PagesInv

LEMMA PagesOnAdded == CallShape /\ PagesInv /\ InvoiceAdded => PagesInv'
<1> SUFFICES ASSUME CallShape, PagesInv, InvoiceAdded PROVE PagesInv'
  OBVIOUS
<1>1. /\ step' = step /\ step # "done" /\ page' = page /\ all' = all /\ before' = before
      /\ midway' = IF page > 0 THEN midway \cup {"added"} ELSE midway
      /\ books \in SUBSET Invoices /\ page \in 0..MaxPages
      /\ books' \in SUBSET Invoices /\ books \in SUBSET books'
  BY DEF InvoiceAdded, BooksChange, Change, call, pages, CallShape, CallTypeOK
<1>2. page > 0 \/ all = <<>>
  BY <1>1, FirstPage, ToolsAssumption
<1>3. ReadComesFirst'
  BY <1>1, <1>2 DEF ReadComesFirst
<1>4. ReadUpToHere'
  <2> SUFFICES ASSUME step = "page", page > 0, "removed" \notin midway
               PROVE  /\ before \subseteq books'
                      /\ \A i \in before : \/ i \in ToSet(all) \/ PageEndsOnDayOf(i)
                                           \/ page * PageSize <= Earlier(books', i.date)
    BY <1>1 DEF ReadUpToHere, PageEndsOnDayOf
  <2>1. before \subseteq books
    BY DEF PagesInv, ReadUpToHere
  <2>2. ASSUME NEW i \in before, page * PageSize <= Earlier(books, i.date)
        PROVE  page * PageSize <= Earlier(books', i.date)
    <3>1. i.date \in Nat
      BY <1>1, <2>1, CountsOfDays
    <3>2. Earlier(books, i.date) <= Earlier(books', i.date)
          /\ Earlier(books, i.date) \in Nat /\ Earlier(books', i.date) \in Nat
      BY <1>1, <3>1, CountsGrow
    <3>3. page * PageSize \in Nat
      BY <1>1, PagesOfSize
    <3> QED BY <2>2, <3>2, <3>3
  <2> QED BY <1>1, <2>1, <2>2 DEF PagesInv, ReadUpToHere
<1>5. PagesInOrder'
  BY <1>1 DEF PagesInv, PagesInOrder
<1>6. NothingMissed'
  BY <1>1 DEF NothingMissed, Answered
<1> QED BY <1>3, <1>4, <1>5, <1>6 DEF PagesInv

LEMMA PagesOnRemoved == CallShape /\ PagesInv /\ InvoiceRemoved => PagesInv'
<1> SUFFICES ASSUME CallShape, PagesInv, InvoiceRemoved PROVE PagesInv'
  OBVIOUS
<1>1. /\ step' = step /\ step # "done" /\ page' = page /\ all' = all /\ before' = before
      /\ midway' = IF page > 0 THEN midway \cup {"removed"} ELSE midway
      /\ books \in SUBSET Invoices /\ page \in 0..MaxPages /\ all \in Seq(Invoices)
      /\ books' \in SUBSET books
  BY DEF InvoiceRemoved, BooksChange, Change, call, pages, CallShape, CallTypeOK
<1>2. ReadComesFirst'
  <2> SUFFICES ASSUME step = "page", "added" \notin midway
               PROVE  /\ page > 0 => books' \subseteq before
                      /\ \A k \in DOMAIN all : Earlier(books', all[k].date) < k
    BY <1>1 DEF ReadComesFirst
  <2>1. ASSUME NEW k \in DOMAIN all PROVE Earlier(books', all[k].date) < k
    <3>1. k \in Nat /\ all[k] \in Invoices
      BY <1>1
    <3>2. all[k].date \in Nat
      BY <3>1, ToolsAssumption
    <3>3. Earlier(books', all[k].date) <= Earlier(books, all[k].date)
          /\ Earlier(books', all[k].date) \in Nat /\ Earlier(books, all[k].date) \in Nat
      BY <1>1, <3>2, CountsGrow
    <3>4. Earlier(books, all[k].date) < k
      BY DEF PagesInv, ReadComesFirst
    <3> QED BY <3>1, <3>3, <3>4
  <2> QED BY <1>1, <2>1 DEF PagesInv, ReadComesFirst
<1>3. ReadUpToHere'
  BY <1>1 DEF ReadUpToHere
<1>4. PagesInOrder'
  BY <1>1 DEF PagesInv, PagesInOrder
<1>5. NothingMissed'
  BY <1>1 DEF NothingMissed, Answered
<1> QED BY <1>2, <1>3, <1>4, <1>5 DEF PagesInv

LEMMA PagesStep == CallShape /\ PagesInv /\ [CallNext]_callVars => PagesInv'
<1> SUFFICES ASSUME CallShape, PagesInv, [CallNext]_callVars PROVE PagesInv'
  OBVIOUS
<1>1. ASSUME page' = page, all' = all, midway' = midway, step # "page", step # "done"
      PROVE  PagesInv'
  <2>1. page = 0 /\ all = <<>>
    BY <1>1, FirstPage DEF CallShape, CallTypeOK, ReadOK
  <2>2. page' = 0 /\ all' = <<>>
    BY <1>1, <2>1
  <2> QED BY <2>2 DEF PagesInv, ReadComesFirst, ReadUpToHere, PagesInOrder, NothingMissed
<1>2. CASE Authorize \/ FetchInvoice \/ ReadLinks \/ Fetch \/ FetchCustomer \/ ReadCrmCustomer
           \/ FindByEmail \/ FindByName \/ ReadOwnName \/ FetchClassSales \/ FetchClasses \/ FetchSellers
  BY <1>1, <1>2 DEF Authorize, FetchInvoice, ReadLinks, Fetch, FetchCustomer, ReadCrmCustomer,
                    FindByEmail, FindByName, ReadOwnName, FetchClassSales, FetchClasses, FetchSellers,
                    world, pages
<1>3. CASE FetchPage
  BY <1>3, PagesOnFetch
<1>4. CASE Fails
  <2>1. step' = "done" /\ ~Answered'
    BY <1>4, AnswerEnds DEF Fails, Answered
  <2> QED BY <1>4, <2>1 DEF Fails, world, pages, PagesInv, ReadComesFirst, ReadUpToHere, PagesInOrder,
                            NothingMissed
<1>5. CASE InvoiceAdded \/ InvoiceRemoved
  BY <1>5, PagesOnAdded, PagesOnRemoved
<1>6. CASE LinksChange
  <2>1. step \notin {"page", "done"} /\ UNCHANGED <<call, midway>>
    BY <1>6 DEF LinksChange, Change
  <2> QED BY <1>1, <2>1 DEF call, pages
<1>7. CASE UNCHANGED callVars
  BY <1>7 DEF callVars, call, world, found, pages, PagesInv, ReadComesFirst, ReadUpToHere, PagesInOrder,
              NothingMissed, Answered, Shown, PageEndsOnDayOf
<1> QED BY <1>2, <1>3, <1>4, <1>5, <1>6, <1>7 DEF CallNext, Tool, Others

-----------------------------------------------------------------------------
(* The customer is the only one that fits.                                 *)
LEMMA UnlikeIsAlone ==
    ASSUME NEW directory \in Directories, NEW k \in DOMAIN directory,
           NEW hasEmail \in BOOLEAN, hasEmail = req.arg.hasEmail,
           Unlike(directory, k, hasEmail),
           NEW i \in DOMAIN directory, NEW j \in DOMAIN directory,
           directory[i].id = directory[k].id, i # j
    PROVE  ~Alike(directory[i], directory[j])
<1>1. i = k
  BY EntriesOf
<1> QED BY <1>1 DEF Unlike, Alike

LEMMA NeverGuessesStep == CallShape /\ NeverGuesses /\ [CallNext]_callVars => NeverGuesses'
<1> SUFFICES ASSUME CallShape, NeverGuesses, [CallNext]_callVars PROVE NeverGuesses'
  OBVIOUS
<1>1. ASSUME req' = req, NEW directory \in Directories, NEW k \in DOMAIN directory, NEW how,
             Found(directory, how, directory[k].id), req.arg.hasEmail \in BOOLEAN,
             how = "name" /\ Cardinality(ByName(directory)) <= MaxMatches
                 => Unlike(directory, k, req.arg.hasEmail),
             how # "name" => Unlike(directory, k, req.arg.hasEmail)
      PROVE  NeverGuesses'
  <2> SUFFICES ASSUME how = "name" => Cardinality(ByName(directory)) <= MaxMatches,
                      NEW i \in DOMAIN directory, NEW j \in DOMAIN directory,
                      directory[i].id = directory[k].id, i # j
               PROVE  ~Alike(directory[i], directory[j])
    BY <1>1 DEF Found, NeverGuesses, Alike
  <2>1. Unlike(directory, k, req.arg.hasEmail)
    BY <1>1
  <2> QED BY <1>1, <2>1, UnlikeIsAlone
<1>2. ASSUME step' # "customer" \/ matchedBy' \notin {"email", "name"} PROVE NeverGuesses'
  BY <1>2 DEF NeverGuesses
<1>3. ASSUME NEW to, Go(to), to # "customer" PROVE NeverGuesses'
  BY <1>2, <1>3 DEF Go
<1>4. ASSUME NEW outcome, NEW value, Answer(outcome, value) PROVE NeverGuesses'
  BY <1>2, <1>4, AnswerEnds
<1>5. CASE Authorize
  <2>1. CASE Answer("denied", NoValue)
    BY <1>4, <2>1
  <2>2. CASE ~(req.tool \in AdminOnly /\ ~req.admin)
    <3>1. step' # "customer"
      BY <1>5, <2>2 DEF Authorize, Go
    <3> QED BY <1>2, <3>1
  <2> QED BY <1>5, <2>1, <2>2 DEF Authorize
<1>6. CASE FetchInvoice
  BY <1>3, <1>4, <1>6 DEF FetchInvoice
<1>7. CASE ReadLinks
  <2>1. CASE req.tool = "customer_invoices"
    <3>1. matchedBy' = "none"
      BY <1>7, <2>1 DEF ReadLinks, found, CallShape, StageOK
    <3> QED BY <1>2, <3>1
  <2>2. CASE req.tool # "customer_invoices"
    BY <1>4, <1>7, <2>2 DEF ReadLinks, CallShape, StageOK
  <2> QED BY <2>1, <2>2
<1>8. CASE Fetch
  BY <1>3, <1>4, <1>8 DEF Fetch
<1>9. CASE FetchCustomer
  BY <1>4, <1>9 DEF FetchCustomer
<1>10. CASE ReadCrmCustomer
  <2>1. matchedBy' \notin {"email", "name"}
    BY <1>10 DEF ReadCrmCustomer
  <2> QED BY <1>2, <2>1
<1>11. CASE FindByEmail
  <2>1. req' = req /\ req.arg.hasEmail /\ req.arg.hasEmail \in BOOLEAN
    BY <1>11 DEF FindByEmail, CallShape, StageOK, RequestOK
  <2>2. ASSUME NEW directory \in Directories, Cardinality(ByEmail(directory)) = 1,
               NEW k \in ByEmail(directory), Found(directory, "email", directory[k].id)
        PROVE  NeverGuesses'
    <3>1. k \in DOMAIN directory /\ Unlike(directory, k, TRUE)
      BY <2>2, AloneByEmail
    <3>2. Unlike(directory, k, req.arg.hasEmail)
      BY <2>1, <3>1 DEF Unlike
    <3> QED BY <1>1, <2>1, <2>2, <3>1, <3>2
  <2> QED BY <1>3, <1>4, <1>11, <2>2 DEF FindByEmail
<1>12. CASE FindByName
  <2>1. req' = req /\ req.arg.hasEmail \in BOOLEAN
    BY <1>12 DEF FindByName, CallShape, StageOK, RequestOK
  <2>2. ASSUME NEW directory \in Directories, NEW matches \in SUBSET ByName(directory),
               Cardinality(matches) = Min({MaxMatches, Cardinality(ByName(directory))}),
               PickByName(directory, matches, req.arg.hasEmail) # None,
               Found(directory, "name", PickByName(directory, matches, req.arg.hasEmail))
        PROVE  NeverGuesses'
    <3>1. PICK k \in DOMAIN directory :
             /\ PickByName(directory, matches, req.arg.hasEmail) = directory[k].id
             /\ matches = ByName(directory) => Unlike(directory, k, req.arg.hasEmail)
      BY <2>1, <2>2, AloneByName
    <3>2. IsFiniteSet(ByName(directory)) /\ Cardinality(ByName(directory)) \in Nat
      <4>1. ByName(directory) \in SUBSET DOMAIN directory
        BY DEF ByName
      <4> QED BY <4>1, EntriesOf, FS_Subset, FS_CardinalityType
    <3>3. ASSUME Cardinality(ByName(directory)) <= MaxMatches
          PROVE  Unlike(directory, k, req.arg.hasEmail)
      <4>1. MaxMatches \in Nat
        BY ToolsAssumption
      <4>2. Min({MaxMatches, Cardinality(ByName(directory))}) = Cardinality(ByName(directory))
        BY <3>2, <3>3, <4>1, MinOfTwo
      <4>3. matches = ByName(directory)
        BY <2>2, <3>2, <4>2, FS_Subset
      <4> QED BY <3>1, <4>3
    <3> QED BY <1>1, <2>1, <2>2, <3>1, <3>3
  <2>3. PICK directory \in Directories : \E matches \in SUBSET ByName(directory) :
           /\ Cardinality(matches) = Min({MaxMatches, Cardinality(ByName(directory))})
           /\ IF PickByName(directory, matches, req.arg.hasEmail) = None
              THEN Answer("error", NoValue)
              ELSE Found(directory, "name", PickByName(directory, matches, req.arg.hasEmail))
    BY <1>12 DEF FindByName
  <2> QED BY <1>4, <2>2, <2>3
<1>13. CASE ReadOwnName \/ FetchClassSales \/ FetchClasses \/ FetchSellers
  BY <1>3, <1>4, <1>13 DEF ReadOwnName, FetchClassSales, FetchClasses, FetchSellers
<1>14. CASE FetchPage \/ Fails
  BY <1>3, <1>4, <1>14 DEF FetchPage, Fails
<1>15. CASE Others \/ UNCHANGED callVars
  BY <1>15 DEF Others, InvoiceAdded, InvoiceRemoved, LinksChange, BooksChange, Change, call, found,
               callVars, NeverGuesses, Alike
<1> QED BY <1>5, <1>6, <1>7, <1>8, <1>9, <1>10, <1>11, <1>12, <1>13, <1>14, <1>15 DEF CallNext, Tool

-----------------------------------------------------------------------------
(* The classes of a rep.                                                   *)

(* At takes the elements at the positions, each of them once.              *)
TakesAll(order, s, P) ==
    /\ order \in Seq(P)
    /\ IsInjective(order)
    /\ \A p \in P : \E n \in DOMAIN order : order[n] = p
    /\ DOMAIN At(s, P) = DOMAIN order
    /\ \A n \in DOMAIN order : At(s, P)[n] = s[order[n]]

LEMMA AtPositions ==
    ASSUME NEW s, NEW P \in SUBSET Nat, IsFiniteSet(P)
    PROVE  \E order : TakesAll(order, s, P)
<1> DEFINE R == {p \in P \X P : p[1] < p[2]}
           order == InOrder(P, <)
<1>1. IsFiniteSet(P) /\ P \subseteq Nat
  OBVIOUS
<1>2. \A x, y \in P : <<x, y>> \in R <=> x < y
  OBVIOUS
<1>3. \A x, y, z \in P : /\ ~(x < x)
                         /\ x # y => x < y \/ y < x
                         /\ x < y /\ y < z => x < z
  BY <1>1
<1>4. \A x \in P : {y \in P : y < x} = SetLessThan(x, R, P)
  BY DEF SetLessThan
<1>5. order = [n \in 1..Cardinality(P) |-> CHOOSE x \in P : Cardinality({y \in P : y < x}) = n - 1]
  BY DEF InOrder
<1> HIDE DEF R, order
<1>6. IsStrictOrder(R, P)
  BY <1>2, <1>3 DEF IsStrictOrder, IsTransitivelyClosedOn
<1>7. ASSUME NEW n \in 1..Cardinality(P), \E x \in P : Preceding(x, R, P) = n - 1
      PROVE  order[n] \in P /\ Preceding(order[n], R, P) = n - 1
  <2>1. \E x \in P : Cardinality({y \in P : y < x}) = n - 1
    BY <1>4, <1>7 DEF Preceding
  <2>2. order[n] \in P /\ Cardinality({y \in P : y < order[n]}) = n - 1
    BY <1>5, <2>1
  <2> QED BY <1>4, <2>2 DEF Preceding
<1>8. /\ order \in Seq(P) /\ Len(order) = Cardinality(P)
      /\ \A n \in 1..Cardinality(P) : order[n] \in P /\ Preceding(order[n], R, P) = n - 1
      /\ \A x \in P : order[Preceding(x, R, P) + 1] = x
  <2>1. order = [n \in 1..Cardinality(P) |-> order[n]]
    <3> DEFINE e(n) == CHOOSE x \in P : Cardinality({y \in P : y < x}) = n - 1
    <3>1. order = [n \in 1..Cardinality(P) |-> e(n)]
      BY <1>5
    <3> HIDE DEF e
    <3> QED BY <3>1
  <2>2. \A n \in 1..Cardinality(P) :
           (\E x \in P : Preceding(x, R, P) = n - 1)
               => order[n] \in P /\ Preceding(order[n], R, P) = n - 1
    BY <1>7
  <2> QED BY <1>1, <1>6, <2>1, <2>2, OrderedBy
<1>9. /\ Cardinality(P) \in Nat
      /\ \A x \in P : Preceding(x, R, P) \in 0..(Cardinality(P) - 1)
  BY <1>1, <1>6, PrecedingIsOrder
<1>10. DOMAIN order = 1..Cardinality(P)
  BY <1>8
<1>11. IsInjective(order)
  <2> SUFFICES ASSUME NEW m \in 1..Cardinality(P), NEW n \in 1..Cardinality(P), order[m] = order[n]
               PROVE  m = n
    BY <1>10 DEF IsInjective
  <2>1. m - 1 = n - 1
    BY <1>8
  <2> QED BY <1>9, <2>1
<1>12. ASSUME NEW p \in P PROVE \E n \in DOMAIN order : order[n] = p
  <2>1. Preceding(p, R, P) + 1 \in 1..Cardinality(P)
    BY <1>9
  <2> QED BY <1>8, <1>10, <2>1
<1>13. At(s, P) = [n \in DOMAIN order |-> s[order[n]]]
  BY DEF At, order
<1>14. TakesAll(order, s, P)
  BY <1>8, <1>11, <1>12, <1>13 DEF TakesAll
<1> QED BY <1>14

(* The ids of the elements at the positions, each once.                    *)
ListsIds(ids, cs, P) ==
    /\ ids \in Seq(Nat)
    /\ IsInjective(ids)
    /\ \A id : id \in ToSet(ids) <=> \E k \in P : id = cs[k].id

LEMMA IdsAt ==
    ASSUME NEW cs, NEW P \in SUBSET Nat, IsFiniteSet(P),
           \A k \in P : cs[k].id \in Nat,
           \A j, k \in P : cs[j].id = cs[k].id => j = k
    PROVE  ListsIds(Ids(At(cs, P)), cs, P)
<1> DEFINE ids == Ids(At(cs, P))
<1>0. PICK order : TakesAll(order, cs, P)
  BY AtPositions
<1>1. /\ order \in Seq(P)
      /\ IsInjective(order)
      /\ \A p \in P : \E n \in DOMAIN order : order[n] = p
      /\ DOMAIN At(cs, P) = DOMAIN order
      /\ \A n \in DOMAIN order : At(cs, P)[n] = cs[order[n]]
  BY <1>0 DEF TakesAll
<1>2. DOMAIN order = 1..Len(order) /\ Len(order) \in Nat /\ \A n \in DOMAIN order : order[n] \in P
  BY <1>1
<1>3. ids = [n \in DOMAIN order |-> cs[order[n]].id]
  BY <1>1 DEF Ids
<1> HIDE DEF ids
<1>4. ids \in Seq(Nat)
  <2>1. \A n \in DOMAIN order : cs[order[n]].id \in Nat
    BY <1>2
  <2>2. ids \in [1..Len(order) -> Nat]
    BY <1>2, <1>3, <2>1
  <2> QED BY <1>2, <2>2
<1>5. IsInjective(ids)
  <2> SUFFICES ASSUME NEW m \in DOMAIN order, NEW n \in DOMAIN order, ids[m] = ids[n]
               PROVE  m = n
    BY <1>3 DEF IsInjective
  <2>1. cs[order[m]].id = cs[order[n]].id /\ order[m] \in P /\ order[n] \in P
    BY <1>2, <1>3
  <2>2. order[m] = order[n]
    BY <2>1
  <2> QED BY <1>1, <2>2 DEF IsInjective
<1>6. ASSUME NEW id PROVE id \in ToSet(ids) <=> \E k \in P : id = cs[k].id
  <2>1. ASSUME id \in ToSet(ids) PROVE \E k \in P : id = cs[k].id
    <3>1. PICK n \in DOMAIN order : id = ids[n]
      BY <1>3, <2>1 DEF ToSet
    <3> QED BY <1>2, <1>3, <3>1
  <2>2. ASSUME NEW k \in P, id = cs[k].id PROVE id \in ToSet(ids)
    <3>1. PICK n \in DOMAIN order : order[n] = k
      BY <1>1
    <3>2. n \in DOMAIN ids /\ ids[n] = id
      BY <1>3, <2>2, <3>1
    <3> QED BY <3>2 DEF ToSet
  <2> QED BY <2>1, <2>2
<1> QED BY <1>4, <1>5, <1>6 DEF ids, ListsIds

(* The rounds of WithDescendants: there are such sequences, up to any n.   *)
AreRounds(f, cs, matched, N) ==
    /\ f = [n \in 0..N |-> f[n]]
    /\ f[0] = matched
    /\ \A n \in 1..N : f[n] = f[n - 1] \o Children(cs, f[n - 1])

LEMMA RoundsExist ==
    ASSUME NEW cs, NEW matched, NEW N \in Nat
    PROVE  \E f : AreRounds(f, cs, matched, N)
<1> DEFINE Next1(s) == s \o Children(cs, s)
           Is(f, m) == f = [n \in 0..m |-> IF n = 0 THEN matched ELSE Next1(f[n - 1])]
           Bad == {m \in Nat : ~(\E f : Is(f, m))}
<1> HIDE DEF Next1
<1>1. Is([n \in 0..0 |-> matched], 0)
  OBVIOUS
<1>2. ASSUME NEW m \in Nat, NEW f, Is(f, m) PROVE \E g : Is(g, m + 1)
  <2> DEFINE g == [n \in 0..(m + 1) |-> IF n = m + 1 THEN Next1(f[m]) ELSE f[n]]
  <2>1. \A n \in 0..m : f[n] = IF n = 0 THEN matched ELSE Next1(f[n - 1])
    BY <1>2
  <2>2. \A n \in 0..(m + 1) : g[n] = IF n = 0 THEN matched ELSE Next1(g[n - 1])
    <3> TAKE n \in 0..(m + 1)
    <3>1. CASE n = m + 1
      <4>1. n # 0 /\ n - 1 = m /\ m \in 0..(m + 1) /\ m # m + 1
        BY <3>1
      <4> QED BY <3>1, <4>1
    <3>2. CASE n # m + 1
      <4>1. n \in 0..m /\ n - 1 # m + 1 /\ (n # 0 => n - 1 \in 0..(m + 1))
        BY <3>2
      <4> QED BY <2>1, <3>2, <4>1
    <3> QED BY <3>1, <3>2
  <2>3. g = [n \in 0..(m + 1) |-> g[n]]
    OBVIOUS
  <2> HIDE DEF g
  <2>4. Is(g, m + 1)
    BY <2>2, <2>3
  <2> QED BY <2>4
<1> HIDE DEF Is
<1>3. Bad = {}
  <2> SUFFICES ASSUME Bad # {} PROVE FALSE
    OBVIOUS
  <2> DEFINE b == Min(Bad)
  <2>1. b \in Bad /\ \A y \in Bad : b =< y
    BY LeastNumber
  <2> HIDE DEF b
  <2>2. b \in Nat /\ b # 0
    BY <1>1, <2>1
  <2>3. b - 1 \in Nat /\ b - 1 \notin Bad /\ (b - 1) + 1 = b
    BY <2>1, <2>2
  <2>4. PICK f : Is(f, b - 1)
    BY <2>3
  <2>5. \E g : Is(g, b)
    BY <1>2, <2>3, <2>4
  <2> QED BY <2>1, <2>5
<1>4. \E f : Is(f, N)
  BY <1>3
<1>5. PICK f : Is(f, N)
  BY <1>4
<1>6. f = [n \in 0..N |-> f[n]] /\ f[0] = matched
  BY <1>5 DEF Is
<1>7. \A n \in 1..N : f[n] = Next1(f[n - 1])
  <2> TAKE n \in 1..N
  <2>1. n \in 0..N /\ n # 0
    OBVIOUS
  <2> QED BY <1>5, <2>1 DEF Is
<1>8. AreRounds(f, cs, matched, N)
  BY <1>6, <1>7 DEF AreRounds, Next1
<1> QED BY <1>8

LEMMA Rounds ==
    ASSUME NEW cs, Len(cs) \in Nat, NEW matched
    PROVE  \E f : /\ AreRounds(f, cs, matched, Len(cs))
                  /\ WithDescendants(cs, matched) = f[Len(cs)]
<1> DEFINE IsAfter(f) ==
               f = [n \in 0..Len(cs) |-> IF n = 0 THEN matched ELSE f[n - 1] \o Children(cs, f[n - 1])]
           After == CHOOSE f : IsAfter(f)
<1>1. IsAfter(After)
  <2>1. PICK f : AreRounds(f, cs, matched, Len(cs))
    BY RoundsExist
  <2>2. IsAfter(f)
    <3>1. \A n \in 0..Len(cs) : n = 0 \/ n \in 1..Len(cs)
      OBVIOUS
    <3> QED BY <2>1, <3>1 DEF AreRounds
  <2> HIDE DEF IsAfter
  <2> QED BY <2>2
<1>2. WithDescendants(cs, matched) = After[Len(cs)]
  BY DEF WithDescendants
<1> HIDE DEF After
<1>3. \A n \in 0..Len(cs) :
         After[n] = IF n = 0 THEN matched ELSE After[n - 1] \o Children(cs, After[n - 1])
  BY <1>1
<1>4. \A n \in 1..Len(cs) : After[n] = After[n - 1] \o Children(cs, After[n - 1])
  <2> TAKE n \in 1..Len(cs)
  <2>1. n \in 0..Len(cs) /\ n # 0
    OBVIOUS
  <2> QED BY <1>3, <2>1
<1>5. After = [n \in 0..Len(cs) |-> After[n]] /\ After[0] = matched
  BY <1>1, <1>3
<1>6. AreRounds(After, cs, matched, Len(cs))
  BY <1>4, <1>5 DEF AreRounds
<1> QED BY <1>2, <1>6

LEMMA PrefixOf ==
    ASSUME NEW X, NEW s \in Seq(X), NEW m \in 0..Len(s)
    PROVE  /\ SubSeq(s, 1, m) \in Seq(X) /\ Len(SubSeq(s, 1, m)) = m
           /\ \A k \in 0..m : SubSeq(SubSeq(s, 1, m), 1, k) = SubSeq(s, 1, k)
<1>1. Len(s) \in Nat /\ \A i \in 1..Len(s) : s[i] \in X
  OBVIOUS
<1>2. ASSUME NEW k \in 0..Len(s)
      PROVE  /\ SubSeq(s, 1, k) \in Seq(X) /\ Len(SubSeq(s, 1, k)) = k
             /\ \A i \in 1..k : SubSeq(s, 1, k)[i] = s[i]
  BY <1>1, SubSeqProperties
<1> DEFINE t == SubSeq(s, 1, m)
<1>3. t \in Seq(X) /\ Len(t) = m /\ \A i \in 1..m : t[i] = s[i]
  BY <1>2
<1> HIDE DEF t
<1>4. ASSUME NEW k \in 0..m PROVE SubSeq(t, 1, k) = SubSeq(s, 1, k)
  <2>1. \A i \in 1..k : t[i] \in X
    BY <1>1, <1>3
  <2>2. /\ SubSeq(t, 1, k) \in Seq(X) /\ Len(SubSeq(t, 1, k)) = k
        /\ \A i \in 1..k : SubSeq(t, 1, k)[i] = t[i]
    BY <1>1, <2>1, SubSeqProperties
  <2>3. /\ SubSeq(s, 1, k) \in Seq(X) /\ Len(SubSeq(s, 1, k)) = k
        /\ \A i \in 1..k : SubSeq(s, 1, k)[i] = s[i]
    BY <1>1, <1>2
  <2>4. \A i \in 1..k : SubSeq(t, 1, k)[i] = SubSeq(s, 1, k)[i]
    BY <1>1, <1>3, <2>2, <2>3
  <2> HIDE DEF t
  <2> QED BY <2>2, <2>3, <2>4, SeqEqual
<1> QED BY <1>3, <1>4 DEF t

LEMMA ListOfClasses ==
    ASSUME NEW classes \in ClassLists
    PROVE  /\ Len(classes) \in Nat /\ DOMAIN classes = 1..Len(classes)
           /\ \A k \in DOMAIN classes :
                 /\ classes[k] \in [id : Nat \ {0}, fqn : Seq(Seq(Seq(Words))) \ {<<>>}, parent : Nat]
                 /\ classes[k].id \in Nat /\ classes[k].id # None
                 /\ classes[k].fqn \in Seq(Seq(Seq(Words))) /\ Len(classes[k].fqn) \in Nat \ {0}
                 /\ Front(classes[k].fqn) \in Seq(Seq(Seq(Words)))
                 /\ Len(Front(classes[k].fqn)) = Len(classes[k].fqn) - 1
           /\ \A j, k \in DOMAIN classes : classes[j].id = classes[k].id => j = k
           /\ \A j, k \in DOMAIN classes : classes[j].fqn = classes[k].fqn => j = k
<1> DEFINE N == Seq(Seq(Words))
           C == [id : Nat \ {0}, fqn : Seq(N) \ {<<>>}, parent : Nat]
<1>1. classes \in Seq(C)
  BY ClassesAssumption
<1>2. \A j, k \in DOMAIN classes :
         \/ j = k
         \/ classes[j].id # classes[k].id /\ classes[j].fqn # classes[k].fqn
  BY ClassesAssumption
<1> HIDE DEF C, N
<1>3. Len(classes) \in Nat /\ DOMAIN classes = 1..Len(classes)
  BY <1>1
<1>4. ASSUME NEW k \in DOMAIN classes
      PROVE  /\ classes[k] \in C
             /\ classes[k].id \in Nat /\ classes[k].id # None
             /\ classes[k].fqn \in Seq(N) /\ Len(classes[k].fqn) \in Nat \ {0}
             /\ Front(classes[k].fqn) \in Seq(N)
             /\ Len(Front(classes[k].fqn)) = Len(classes[k].fqn) - 1
  <2>1. classes[k] \in C
    BY <1>1
  <2>2. classes[k].id \in Nat /\ classes[k].id # None /\ classes[k].fqn \in Seq(N) /\ classes[k].fqn # <<>>
    BY <2>1 DEF C, None
  <2>3. Len(classes[k].fqn) \in Nat \ {0}
    BY <2>2, EmptySeq
  <2>4. Len(classes[k].fqn) - 1 \in 0..Len(classes[k].fqn)
    BY <2>3
  <2>5. /\ Front(classes[k].fqn) \in Seq(N)
        /\ Len(Front(classes[k].fqn)) = Len(classes[k].fqn) - 1
    BY <2>2, <2>4, PrefixOf DEF Front
  <2> QED BY <2>1, <2>2, <2>3, <2>5
<1> QED BY <1>2, <1>3, <1>4 DEF C, N

(* Given or inferred, the parent is the class named like all but the last  *)
(* part.                                                                   *)
LEMMA ParentsByName ==
    ASSUME NEW classes \in ClassLists, NEW cs, cs = ResolveParents(classes)
    PROVE  /\ DOMAIN cs = DOMAIN classes /\ Len(cs) = Len(classes)
           /\ \A k \in DOMAIN classes : cs[k].id = classes[k].id /\ cs[k].fqn = classes[k].fqn
           /\ \A j, k \in DOMAIN classes :
                 cs[k].parent # None /\ cs[k].parent = classes[j].id
                     <=> classes[j].fqn = Front(classes[k].fqn)
<1> DEFINE D == DOMAIN classes
           named(k) == {j \in D : classes[j].fqn = Front(classes[k].fqn)}
           inferred(k) == /\ classes[k].parent = None /\ Len(classes[k].fqn) > 1 /\ named(k) # {}
                          /\ classes[Max(named(k))].id # classes[k].id
           C == [id : Nat \ {0}, fqn : Seq(Seq(Seq(Words))) \ {<<>>}, parent : Nat]
<1>1. /\ Len(classes) \in Nat /\ D = 1..Len(classes)
      /\ \A k \in D : /\ classes[k] \in C /\ classes[k].id \in Nat /\ classes[k].id # None
                      /\ Len(classes[k].fqn) \in Nat \ {0}
                      /\ Len(Front(classes[k].fqn)) = Len(classes[k].fqn) - 1
      /\ \A j, k \in D : classes[j].id = classes[k].id => j = k
      /\ \A j, k \in D : classes[j].fqn = classes[k].fqn => j = k
  BY ListOfClasses
<1>2. cs = [k \in D |-> IF inferred(k)
                        THEN [classes[k] EXCEPT !.parent = classes[Max(named(k))].id]
                        ELSE classes[k]]
  BY DEF ResolveParents
<1> HIDE DEF inferred, named
<1>3. DOMAIN cs = D /\ Len(cs) = Len(classes)
  BY <1>1, <1>2
<1>4. ASSUME NEW k \in D PROVE cs[k].id = classes[k].id /\ cs[k].fqn = classes[k].fqn
  BY <1>1, <1>2
<1>5. ASSUME NEW k \in D, NEW j \in D
      PROVE  cs[k].parent # None /\ cs[k].parent = classes[j].id
                 <=> classes[j].fqn = Front(classes[k].fqn)
  <2>1. CASE classes[k].parent # None
    <3>1. cs[k] = classes[k]
      BY <1>2, <2>1 DEF inferred
    <3>2. classes[j].id = classes[k].parent <=> classes[j].fqn = Front(classes[k].fqn)
      BY <2>1, ClassesAssumption
    <3> QED BY <2>1, <3>1, <3>2
  <2>2. CASE classes[k].parent = None /\ named(k) = {}
    <3>1. cs[k] = classes[k]
      BY <1>2, <2>2 DEF inferred
    <3> QED BY <2>2, <3>1 DEF named
  <2>3. CASE classes[k].parent = None /\ named(k) # {}
    <3>1. PICK m \in D : m \in named(k)
      BY <2>3 DEF named
    <3>2. classes[m].fqn = Front(classes[k].fqn)
      BY <3>1 DEF named
    <3>3. named(k) = {m} /\ m \in Nat
      <4>1. m \in Nat
        BY <1>1
      <4>2. ASSUME NEW x \in named(k) PROVE x = m
        <5>1. x \in D /\ classes[x].fqn = classes[m].fqn
          BY <3>2 DEF named
        <5> QED BY <5>1, ListOfClasses
      <4> QED BY <3>1, <4>1, <4>2
    <3>4. Max(named(k)) = m
      BY <3>3 DEF Max
    <3> HIDE DEF C
    <3>5. Len(classes[k].fqn) > 1
      BY <1>1, <3>2
    <3>6. classes[m].fqn # classes[k].fqn
      BY <1>1, <3>2
    <3>7. inferred(k)
      BY <1>1, <2>3, <3>4, <3>5, <3>6 DEF inferred
    <3>8. cs[k].parent = classes[m].id
      BY <1>1, <1>2, <3>4, <3>7 DEF C
    <3> QED BY <1>1, <3>2, <3>8
  <2> QED BY <2>1, <2>2, <2>3
<1> QED BY <1>3, <1>4, <1>5

(* The name of the k-th class has, in its first n parts, a class of the    *)
(* rep, and all in between are listed.                                     *)
Leads(classes, k, n) ==
    /\ n \in 1..Len(classes[k].fqn)
    /\ \E c \in DOMAIN classes :
          classes[c].fqn = SubSeq(classes[k].fqn, 1, n) /\ ClassMatches(classes[c], Rep)
    /\ \A m \in n..Len(classes[k].fqn) :
          \E c \in DOMAIN classes : classes[c].fqn = SubSeq(classes[k].fqn, 1, m)

IsOfRep(classes, k) == \E n : Leads(classes, k, n)

LEMMA NamedByLeads ==
    ASSUME NEW classes \in ClassLists, NEW id
    PROVE  id \in NamedAfterRep(classes)
               <=> \E k \in DOMAIN classes : id = classes[k].id /\ IsOfRep(classes, k)
<1> DEFINE D == DOMAIN classes
           Prefix(cls, n) == SubSeq(cls.fqn, 1, n)
           Matching(fqn) == \E c \in ToSet(classes) : c.fqn = fqn /\ ClassMatches(c, Rep)
           IsListed(fqn) == \E c \in ToSet(classes) : c.fqn = fqn
           Under(d) == \E n \in 1..Len(d.fqn) :
                          Matching(Prefix(d, n)) /\ \A k \in n..Len(d.fqn) : IsListed(Prefix(d, k))
<1>1. NamedAfterRep(classes) = {c.id : c \in {d \in ToSet(classes) : Under(d)}}
  BY DEF NamedAfterRep
<1>2. \A fqn : Matching(fqn) <=> \E c \in D : classes[c].fqn = fqn /\ ClassMatches(classes[c], Rep)
  BY DEF ToSet
<1>3. \A fqn : IsListed(fqn) <=> \E c \in D : classes[c].fqn = fqn
  BY DEF ToSet
<1>4. ASSUME NEW k \in D PROVE Under(classes[k]) <=> IsOfRep(classes, k)
  <2> HIDE DEF Matching, IsListed
  <2> QED BY <1>2, <1>3 DEF IsOfRep, Leads
<1> HIDE DEF Under
<1>5. id \in NamedAfterRep(classes) <=> \E k \in D : id = classes[k].id /\ Under(classes[k])
  BY <1>1 DEF ToSet
<1> QED BY <1>4, <1>5

LEMMA ChildrenOfMatched ==
    ASSUME NEW classes \in ClassLists, NEW cs, cs = ResolveParents(classes), NEW s \in Seq(Nat)
    PROVE  /\ Children(cs, s) \in Seq(Nat) /\ IsInjective(Children(cs, s))
           /\ \A id : id \in ToSet(Children(cs, s)) <=>
                 \E k \in DOMAIN classes :
                    /\ id = classes[k].id /\ id \notin ToSet(s)
                    /\ cs[k].parent # None /\ cs[k].parent \in ToSet(s)
<1> DEFINE D == DOMAIN classes
           P == {k \in DOMAIN cs : /\ cs[k].parent # None
                                   /\ Contains(s, cs[k].parent)
                                   /\ ~Contains(s, cs[k].id)}
<1>1. /\ DOMAIN cs = D
      /\ \A k \in D : cs[k].id = classes[k].id
  BY ParentsByName
<1>2. /\ Len(classes) \in Nat /\ D = 1..Len(classes)
      /\ \A k \in D : classes[k].id \in Nat
      /\ \A j, k \in D : classes[j].id = classes[k].id => j = k
  BY ListOfClasses
<1>3. \A e : Contains(s, e) <=> e \in ToSet(s)
  BY DEF Contains, ToSet
<1>4. P \in SUBSET (1..Len(classes))
  BY <1>1, <1>2
<1>5. \A k \in D : k \in P <=> /\ cs[k].parent # None /\ cs[k].parent \in ToSet(s)
                               /\ classes[k].id \notin ToSet(s)
  BY <1>1, <1>3
<1>6. Children(cs, s) = Ids(At(cs, P))
  BY DEF Children
<1> HIDE DEF P
<1>7. /\ \A k \in P : k \in D /\ cs[k].id \in Nat /\ cs[k].id = classes[k].id
      /\ \A j, k \in P : cs[j].id = cs[k].id => j = k
  BY <1>1, <1>2, <1>4
<1>8. ListsIds(Ids(At(cs, P)), cs, P)
  <2>1. P \in SUBSET Nat /\ IsFiniteSet(P)
    <3>1. Len(classes) \in Nat
      BY <1>2
    <3>2. IsFiniteSet(1..Len(classes))
      BY <3>1, FS_Interval
    <3>3. 1..Len(classes) \subseteq Nat
      OBVIOUS
    <3> QED BY <1>4, <3>2, <3>3, FS_Subset
  <2>2. \A k \in P : cs[k].id \in Nat
    BY <1>7
  <2>3. \A j, k \in P : cs[j].id = cs[k].id => j = k
    BY <1>7
  <2> QED BY <2>1, <2>2, <2>3, IdsAt
<1>9. /\ Children(cs, s) \in Seq(Nat) /\ IsInjective(Children(cs, s))
      /\ \A id : id \in ToSet(Children(cs, s)) <=> \E k \in P : id = cs[k].id
  BY <1>6, <1>8 DEF ListsIds
<1>10. ASSUME NEW id
       PROVE  (\E k \in P : id = cs[k].id) <=>
                 \E k \in D : /\ id = classes[k].id /\ id \notin ToSet(s)
                             /\ cs[k].parent # None /\ cs[k].parent \in ToSet(s)
  BY <1>5, <1>7
<1> QED BY <1>9, <1>10

LEMMA ConcatInjective ==
    ASSUME NEW s \in Seq(Nat), NEW t \in Seq(Nat), IsInjective(s), IsInjective(t),
           \A id \in ToSet(t) : id \notin ToSet(s)
    PROVE  /\ s \o t \in Seq(Nat) /\ IsInjective(s \o t)
           /\ \A id : id \in ToSet(s \o t) <=> id \in ToSet(s) \/ id \in ToSet(t)
<1> DEFINE u == s \o t
<1>1. /\ u \in Seq(Nat) /\ Len(u) = Len(s) + Len(t)
      /\ Len(s) \in Nat /\ Len(t) \in Nat
      /\ DOMAIN u = 1..(Len(s) + Len(t)) /\ DOMAIN s = 1..Len(s) /\ DOMAIN t = 1..Len(t)
      /\ \A i \in 1..(Len(s) + Len(t)) : u[i] = IF i <= Len(s) THEN s[i] ELSE t[i - Len(s)]
  BY ConcatProperties
<1> HIDE DEF u
<1>2. \A i \in DOMAIN u : \/ i \in DOMAIN s /\ u[i] = s[i]
                          \/ i - Len(s) \in DOMAIN t /\ u[i] = t[i - Len(s)]
  BY <1>1
<1>3. \A i \in DOMAIN s : i \in DOMAIN u /\ u[i] = s[i]
  BY <1>1
<1>4. \A i \in DOMAIN t : Len(s) + i \in DOMAIN u /\ u[Len(s) + i] = t[i]
  <2> TAKE i \in DOMAIN t
  <2>1. Len(s) + i \in 1..(Len(s) + Len(t)) /\ ~(Len(s) + i <= Len(s)) /\ (Len(s) + i) - Len(s) = i
    BY <1>1
  <2> QED BY <1>1, <2>1
<1>5. \A id : id \in ToSet(u) <=> id \in ToSet(s) \/ id \in ToSet(t)
  BY <1>2, <1>3, <1>4 DEF ToSet
<1>6. IsInjective(u)
  <2> SUFFICES ASSUME NEW i \in DOMAIN u, NEW j \in DOMAIN u, u[i] = u[j] PROVE i = j
    BY DEF IsInjective
  <2>1. CASE i \in DOMAIN s /\ j \in DOMAIN s
    BY <1>3, <2>1 DEF IsInjective
  <2>2. CASE /\ i - Len(s) \in DOMAIN t /\ u[i] = t[i - Len(s)]
             /\ j - Len(s) \in DOMAIN t /\ u[j] = t[j - Len(s)]
    <3>1. i - Len(s) = j - Len(s)
      BY <2>2 DEF IsInjective
    <3> QED BY <1>1, <3>1
  <2>3. CASE i \in DOMAIN s /\ j - Len(s) \in DOMAIN t /\ u[j] = t[j - Len(s)]
    BY <1>3, <2>3 DEF ToSet
  <2>4. CASE j \in DOMAIN s /\ i - Len(s) \in DOMAIN t /\ u[i] = t[i - Len(s)]
    BY <1>3, <2>4 DEF ToSet
  <2> QED BY <1>2, <2>1, <2>2, <2>3, <2>4
<1> QED BY <1>1, <1>5, <1>6 DEF u

(* What a round has found: classes of the rep, each once.                  *)
FoundOnly(classes, s) ==
    /\ s \in Seq(Nat)
    /\ IsInjective(s)
    /\ \A id \in ToSet(s) : \E k \in DOMAIN classes : id = classes[k].id /\ IsOfRep(classes, k)

(* A class below one of the rep is one of the rep.                         *)
LEMMA BelowIsOfRep ==
    ASSUME NEW classes \in ClassLists, NEW j \in DOMAIN classes, NEW k \in DOMAIN classes,
           IsOfRep(classes, j), classes[j].fqn = Front(classes[k].fqn)
    PROVE  IsOfRep(classes, k)
<1> DEFINE a == classes[j].fqn
           b == classes[k].fqn
<1>1. PICK n : Leads(classes, j, n)
  BY DEF IsOfRep
<1>2. /\ a \in Seq(Seq(Seq(Words))) /\ b \in Seq(Seq(Seq(Words)))
      /\ Len(a) \in Nat /\ Len(b) \in Nat /\ Len(a) = Len(b) - 1 /\ a = SubSeq(b, 1, Len(a))
  BY ListOfClasses DEF Front
<1>3. \A m \in 0..Len(a) : SubSeq(a, 1, m) = SubSeq(b, 1, m)
  BY <1>2, PrefixOf
<1>4. SubSeq(b, 1, Len(b)) = b
  BY <1>2, SubSeqFull
<1>5. n \in 1..Len(a) /\ n \in 1..Len(b) /\ n \in 0..Len(a)
  BY <1>1, <1>2 DEF Leads
<1>6. \E c \in DOMAIN classes : classes[c].fqn = SubSeq(b, 1, n) /\ ClassMatches(classes[c], Rep)
  BY <1>1, <1>3, <1>5 DEF Leads
<1>7. ASSUME NEW m \in n..Len(b)
      PROVE  \E c \in DOMAIN classes : classes[c].fqn = SubSeq(b, 1, m)
  <2>1. CASE m = Len(b)
    BY <1>4, <2>1
  <2>2. CASE m # Len(b)
    <3>1. m \in n..Len(a) /\ m \in 0..Len(a)
      BY <1>2, <1>5, <2>2
    <3> QED BY <1>1, <1>3, <3>1 DEF Leads
  <2> QED BY <2>1, <2>2
<1>8. Leads(classes, k, n)
  BY <1>5, <1>6, <1>7 DEF Leads
<1> QED BY <1>8 DEF IsOfRep

LEMMA RoundFinds ==
    ASSUME NEW classes \in ClassLists, NEW cs, cs = ResolveParents(classes),
           NEW s, FoundOnly(classes, s), NEW t, t = s \o Children(cs, s)
    PROVE  /\ FoundOnly(classes, t)
           /\ ToSet(s) \subseteq ToSet(t)
           /\ \A j, k \in DOMAIN classes :
                 classes[j].id \in ToSet(s) /\ classes[j].fqn = Front(classes[k].fqn)
                     => classes[k].id \in ToSet(t)
<1> DEFINE D == DOMAIN classes
           new == Children(cs, s)
<1>1. /\ s \in Seq(Nat) /\ IsInjective(s)
      /\ \A id \in ToSet(s) : \E k \in D : id = classes[k].id /\ IsOfRep(classes, k)
  BY DEF FoundOnly
<1>2. /\ new \in Seq(Nat) /\ IsInjective(new)
      /\ \A id : id \in ToSet(new) <=>
            \E k \in D : /\ id = classes[k].id /\ id \notin ToSet(s)
                         /\ cs[k].parent # None /\ cs[k].parent \in ToSet(s)
  BY <1>1, ChildrenOfMatched
<1>3. \A j, k \in D : cs[k].parent # None /\ cs[k].parent = classes[j].id
                          <=> classes[j].fqn = Front(classes[k].fqn)
  BY ParentsByName
<1> HIDE DEF new
<1>4. \A id \in ToSet(new) : id \notin ToSet(s)
  BY <1>2
<1>5. /\ t \in Seq(Nat) /\ IsInjective(t)
      /\ \A id : id \in ToSet(t) <=> id \in ToSet(s) \/ id \in ToSet(new)
  BY <1>1, <1>2, <1>4, ConcatInjective DEF new
<1>6. ASSUME NEW id \in ToSet(new) PROVE \E k \in D : id = classes[k].id /\ IsOfRep(classes, k)
  <2>1. PICK k \in D : id = classes[k].id /\ cs[k].parent # None /\ cs[k].parent \in ToSet(s)
    BY <1>2
  <2>2. PICK j \in D : cs[k].parent = classes[j].id /\ IsOfRep(classes, j)
    BY <1>1, <2>1
  <2>3. classes[j].fqn = Front(classes[k].fqn)
    BY <1>3, <2>1, <2>2
  <2>4. IsOfRep(classes, k)
    BY <2>2, <2>3, BelowIsOfRep
  <2> QED BY <2>1, <2>4
<1>7. FoundOnly(classes, t)
  BY <1>1, <1>5, <1>6 DEF FoundOnly
<1>8. ASSUME NEW j \in D, NEW k \in D, classes[j].id \in ToSet(s), classes[j].fqn = Front(classes[k].fqn)
      PROVE  classes[k].id \in ToSet(t)
  <2>1. cs[k].parent # None /\ cs[k].parent \in ToSet(s)
    BY <1>3, <1>8
  <2> QED BY <1>2, <1>5, <2>1
<1> QED BY <1>5, <1>7, <1>8

(* There are not more parts between a class and a superior in the list     *)
(* than there are classes.                                                 *)
LEMMA AsManyRounds ==
    ASSUME NEW classes \in ClassLists, NEW k \in DOMAIN classes, NEW n, Leads(classes, k, n)
    PROVE  Len(classes[k].fqn) - n <= Len(classes)
<1> DEFINE D == DOMAIN classes
           b == classes[k].fqn
           g == [m \in n..Len(b) |-> CHOOSE c \in D : classes[c].fqn = SubSeq(b, 1, m)]
<1>1. /\ Len(classes) \in Nat /\ D = 1..Len(classes)
      /\ b \in Seq(Seq(Seq(Words))) /\ Len(b) \in Nat
  BY ListOfClasses
<1>2. n \in 1..Len(b)
  BY DEF Leads
<1>3. \A m \in n..Len(b) : g[m] \in D /\ classes[g[m]].fqn = SubSeq(b, 1, m)
  BY DEF Leads
<1>4. g \in [n..Len(b) -> D]
  <2> DEFINE e(m) == CHOOSE c \in D : classes[c].fqn = SubSeq(b, 1, m)
  <2>1. g = [m \in n..Len(b) |-> e(m)]
    OBVIOUS
  <2> HIDE DEF e
  <2>2. DOMAIN g = n..Len(b) /\ g = [m \in n..Len(b) |-> g[m]]
    BY <2>1
  <2> HIDE DEF g
  <2> QED BY <1>3, <2>2
<1> HIDE DEF g
<1>5. IsInjective(g)
  <2> SUFFICES ASSUME NEW l \in n..Len(b), NEW m \in n..Len(b), g[l] = g[m] PROVE l = m
    BY <1>4 DEF IsInjective
  <2>1. SubSeq(b, 1, l) = SubSeq(b, 1, m)
    BY <1>3
  <2>2. l \in 0..Len(b) /\ m \in 0..Len(b)
    BY <1>1, <1>2
  <2>3. Len(SubSeq(b, 1, l)) = l /\ Len(SubSeq(b, 1, m)) = m
    BY <1>1, <2>2, PrefixOf
  <2> QED BY <2>1, <2>3
<1>6. g \in Injection(n..Len(b), D)
  BY <1>4, <1>5 DEF Injection
<1> HIDE DEF D, b
<1>7. IsFiniteSet(D) /\ Cardinality(D) = Len(classes)
  <2>1. /\ IsFiniteSet(1..Len(classes))
        /\ Cardinality(1..Len(classes)) = IF 1 > Len(classes) THEN 0 ELSE Len(classes) - 1 + 1
    BY <1>1, FS_Interval
  <2> QED BY <1>1, <2>1
<1>8. Cardinality(n..Len(b)) = Len(b) - n + 1
  <2>1. n \in Int /\ Len(b) \in Int /\ ~(n > Len(b))
    BY <1>1, <1>2
  <2>2. Cardinality(n..Len(b)) = IF n > Len(b) THEN 0 ELSE Len(b) - n + 1
    BY <2>1, FS_Interval
  <2> QED BY <2>1, <2>2
<1>9. Cardinality(n..Len(b)) <= Cardinality(D)
  BY <1>6, <1>7, FS_Injection
<1> QED BY <1>1, <1>2, <1>7, <1>8, <1>9 DEF b

(* class_ids_for_rep: the parents lead to the classes that the names say.  *)
LEMMA ClassesByName ==
    ASSUME NEW classes \in ClassLists
    PROVE  /\ ToSet(ClassIdsForRep(ResolveParents(classes), Rep)) = NamedAfterRep(classes)
           /\ FoundOnly(classes, ClassIdsForRep(ResolveParents(classes), Rep))
<1> DEFINE D == DOMAIN classes
           cs == ResolveParents(classes)
           N == Len(classes)
           P == {k \in DOMAIN cs : ClassMatches(cs[k], Rep)}
           matched == Ids(At(cs, P))
<1>1. /\ N \in Nat /\ D = 1..N
      /\ \A k \in D : /\ classes[k].id \in Nat
                      /\ classes[k].fqn \in Seq(Seq(Seq(Words))) /\ Len(classes[k].fqn) \in Nat \ {0}
      /\ \A j, k \in D : classes[j].id = classes[k].id => j = k
      /\ \A j, k \in D : classes[j].fqn = classes[k].fqn => j = k
  BY ListOfClasses
<1>2. /\ DOMAIN cs = D /\ Len(cs) = N
      /\ \A k \in D : cs[k].id = classes[k].id /\ cs[k].fqn = classes[k].fqn
  BY ParentsByName
<1>3. ClassIdsForRep(cs, Rep) = WithDescendants(cs, matched)
  BY DEF ClassIdsForRep
<1>4. \A k \in D : k \in P <=> ClassMatches(classes[k], Rep)
  BY <1>2 DEF ClassMatches
<1>5. P \subseteq D
  BY <1>2
<1> HIDE DEF P
<1>6. ListsIds(matched, cs, P)
  <2>1. IsFiniteSet(1..N) /\ 1..N \subseteq Nat
    BY <1>1, FS_Interval
  <2>2. P \in SUBSET Nat /\ IsFiniteSet(P)
    BY <1>1, <1>5, <2>1, FS_Subset
  <2>3. \A k \in P : cs[k].id \in Nat
    BY <1>1, <1>2, <1>5
  <2>4. \A j, k \in P : cs[j].id = cs[k].id => j = k
    BY <1>1, <1>2, <1>5
  <2> QED BY <2>2, <2>3, <2>4, IdsAt
<1> HIDE DEF matched, N, cs
<1>7. cs = ResolveParents(classes)
  BY DEF cs
<1>8. PICK f : AreRounds(f, cs, matched, N) /\ WithDescendants(cs, matched) = f[N]
  BY <1>1, <1>2, Rounds
<1>9. f[0] = matched /\ \A n \in 1..N : f[n] = f[n - 1] \o Children(cs, f[n - 1])
  BY <1>8 DEF AreRounds
<1>10. FoundOnly(classes, matched)
  <2>1. ASSUME NEW k \in P PROVE Leads(classes, k, Len(classes[k].fqn))
    <3> DEFINE b == classes[k].fqn
    <3>1. k \in D /\ Len(b) \in Nat \ {0} /\ b \in Seq(Seq(Seq(Words)))
      BY <1>1, <1>5
    <3>2. SubSeq(b, 1, Len(b)) = b
      BY <3>1, SubSeqFull
    <3>3. \A m \in Len(b)..Len(b) : m = Len(b)
      BY <3>1
    <3>4. Len(b) \in 1..Len(b)
      BY <3>1
    <3> QED BY <1>4, <3>1, <3>2, <3>3, <3>4 DEF Leads
  <2>2. \A k \in P : k \in D /\ IsOfRep(classes, k) /\ cs[k].id = classes[k].id
    BY <1>2, <1>5, <2>1 DEF IsOfRep
  <2> QED BY <1>6, <2>2 DEF FoundOnly, ListsIds
<1>11. \A n \in 0..N : FoundOnly(classes, f[n])
  <2> DEFINE Bad == {n \in 0..N : ~FoundOnly(classes, f[n])}
  <2> SUFFICES ASSUME Bad # {} PROVE FALSE
    OBVIOUS
  <2>1. Bad \in SUBSET Nat
    BY <1>1
  <2>2. PICK b \in Bad : \A y \in Bad : b =< y
    BY <2>1, LeastNumber
  <2>3. b \in 1..N
    BY <1>1, <1>9, <1>10, <2>2
  <2>4. b - 1 \in 0..N /\ b - 1 \notin Bad
    BY <1>1, <2>2, <2>3
  <2>5. FoundOnly(classes, f[b - 1]) /\ f[b] = f[b - 1] \o Children(cs, f[b - 1])
    BY <1>9, <2>3, <2>4
  <2> QED BY <1>7, <2>2, <2>5, RoundFinds
<1>12. \A id \in ToSet(f[N]) : \E k \in D : id = classes[k].id /\ IsOfRep(classes, k)
  <2>1. N \in 0..N
    BY <1>1
  <2> QED BY <1>11, <2>1 DEF FoundOnly
<1>13. ASSUME NEW k \in D, IsOfRep(classes, k) PROVE classes[k].id \in ToSet(f[N])
  <2> DEFINE b == classes[k].fqn
  <2>1. PICK n : Leads(classes, k, n)
    BY <1>13 DEF IsOfRep
  <2>2. b \in Seq(Seq(Seq(Words))) /\ Len(b) \in Nat /\ n \in 1..Len(b) /\ Len(b) - n <= N
    BY <1>1, <2>1, AsManyRounds DEF Leads, N
  <2> DEFINE Reached(r) ==
                 \A m \in n..Len(b), c \in D :
                     m - n <= r /\ classes[c].fqn = SubSeq(b, 1, m) => classes[c].id \in ToSet(f[r])
             Bad == {r \in 0..N : ~Reached(r)}
  <2>3. Reached(0)
    <3> SUFFICES ASSUME NEW m \in n..Len(b), NEW c \in D, m - n <= 0,
                        classes[c].fqn = SubSeq(b, 1, m)
                 PROVE  classes[c].id \in ToSet(f[0])
      OBVIOUS
    <3>1. m = n
      BY <2>2
    <3>2. PICK d \in D : classes[d].fqn = SubSeq(b, 1, n) /\ ClassMatches(classes[d], Rep)
      BY <2>1 DEF Leads
    <3>3. c = d
      BY <1>1, <3>1, <3>2
    <3>4. c \in P
      BY <1>4, <3>2, <3>3
    <3> QED BY <1>2, <1>6, <1>9, <3>4 DEF ListsIds
  <2>4. ASSUME NEW r \in 1..N, Reached(r - 1) PROVE Reached(r)
    <3> SUFFICES ASSUME NEW m \in n..Len(b), NEW c \in D, m - n <= r,
                        classes[c].fqn = SubSeq(b, 1, m)
                 PROVE  classes[c].id \in ToSet(f[r])
      OBVIOUS
    <3>1. FoundOnly(classes, f[r - 1]) /\ f[r] = f[r - 1] \o Children(cs, f[r - 1])
      <4>1. r - 1 \in 0..N
        BY <1>1
      <4> QED BY <1>9, <1>11, <4>1
    <3>2. /\ ToSet(f[r - 1]) \subseteq ToSet(f[r])
          /\ \A i, j \in D : classes[i].id \in ToSet(f[r - 1]) /\ classes[i].fqn = Front(classes[j].fqn)
                               => classes[j].id \in ToSet(f[r])
      <4> DEFINE s == f[r - 1]
                 t == f[r]
      <4>1. FoundOnly(classes, s) /\ t = s \o Children(cs, s)
        BY <3>1
      <4> HIDE DEF s, t
      <4>2. /\ ToSet(s) \subseteq ToSet(t)
            /\ \A i, j \in D : classes[i].id \in ToSet(s) /\ classes[i].fqn = Front(classes[j].fqn)
                                 => classes[j].id \in ToSet(t)
        BY <1>7, <4>1, RoundFinds
      <4> QED BY <4>2 DEF s, t
    <3>3. CASE m - n <= r - 1
      BY <2>4, <3>2, <3>3
    <3>4. CASE ~(m - n <= r - 1)
      <4>1. m - 1 \in n..Len(b) /\ (m - 1) - n <= r - 1 /\ m \in 0..Len(b) /\ m - 1 \in 0..m
        BY <1>1, <2>2, <3>4
      <4>2. PICK d \in D : classes[d].fqn = SubSeq(b, 1, m - 1)
        BY <2>1, <4>1 DEF Leads
      <4>3. classes[d].id \in ToSet(f[r - 1])
        BY <2>4, <4>1, <4>2
      <4>4. Front(classes[c].fqn) = SubSeq(b, 1, m - 1)
        <5>1. Len(SubSeq(b, 1, m)) = m /\ SubSeq(SubSeq(b, 1, m), 1, m - 1) = SubSeq(b, 1, m - 1)
          BY <2>2, <4>1, PrefixOf
        <5> QED BY <5>1 DEF Front
      <4> QED BY <3>2, <4>2, <4>3, <4>4
    <3> QED BY <3>3, <3>4
  <2> HIDE DEF Reached
  <2>5. Bad = {}
    <3> SUFFICES ASSUME Bad # {} PROVE FALSE
      OBVIOUS
    <3>1. Bad \in SUBSET Nat
      BY <1>1
    <3>2. PICK r \in Bad : \A y \in Bad : r =< y
      BY <3>1, LeastNumber
    <3>3. r \in 1..N
      BY <1>1, <2>3, <3>2
    <3>4. r - 1 \in 0..N /\ r - 1 \notin Bad
      BY <1>1, <3>2, <3>3
    <3> QED BY <2>4, <3>2, <3>3, <3>4
  <2>6. Reached(N)
    BY <1>1, <2>5
  <2>7. SubSeq(b, 1, Len(b)) = b /\ Len(b) \in n..Len(b)
    BY <2>2, SubSeqFull
  <2> QED BY <2>2, <2>6, <2>7 DEF Reached
<1>14. \A id : id \in ToSet(f[N]) <=> id \in NamedAfterRep(classes)
  BY <1>12, <1>13, NamedByLeads
<1>15. FoundOnly(classes, f[N])
  <2>1. N \in 0..N
    BY <1>1
  <2> QED BY <1>11, <2>1
<1>16. ToSet(f[N]) = NamedAfterRep(classes)
  BY <1>14
<1> QED BY <1>3, <1>7, <1>8, <1>15, <1>16

(* The loop of class_ids_for_rep, which goes on until a round finds no     *)
(* child and has no bound of its own, has come to its end after as many    *)
(* rounds as there are classes.                                            *)
THEOREM ClassesLoopEnds ==
    ASSUME NEW classes \in ClassLists
    PROVE  Children(ResolveParents(classes), ClassIdsForRep(ResolveParents(classes), Rep)) = <<>>
<1> DEFINE cs == ResolveParents(classes)
           s == ClassIdsForRep(cs, Rep)
           new == Children(cs, s)
           t == s \o new
<1>1. ToSet(s) = NamedAfterRep(classes) /\ FoundOnly(classes, s)
  BY ClassesByName
<1>2. s \in Seq(Nat) /\ IsInjective(s)
  BY <1>1 DEF FoundOnly
<1>3. cs = ResolveParents(classes)
  OBVIOUS
<1> HIDE DEF cs, s
<1>4. /\ new \in Seq(Nat) /\ IsInjective(new)
      /\ \A id \in ToSet(new) : id \notin ToSet(s)
  BY <1>2, <1>3, ChildrenOfMatched
<1>5. FoundOnly(classes, t)
  BY <1>1, <1>3, RoundFinds
<1> HIDE DEF new
<1>6. \A id \in ToSet(new) : id \in ToSet(t)
  BY <1>2, <1>4, ConcatInjective
<1> HIDE DEF t
<1>7. \A id \in ToSet(t) : id \in NamedAfterRep(classes)
  BY <1>5, NamedByLeads DEF FoundOnly
<1>8. ToSet(new) = {}
  BY <1>1, <1>4, <1>6, <1>7
<1>9. new = <<>>
  <2> SUFFICES ASSUME new # <<>> PROVE FALSE
    OBVIOUS
  <2>1. Len(new) \in Nat \ {0} /\ DOMAIN new = 1..Len(new)
    BY <1>4, EmptySeq
  <2>2. new[1] \in ToSet(new)
    BY <2>1 DEF ToSet
  <2> QED BY <1>8, <2>2
<1> QED BY <1>9 DEF new, s, cs


(* The classes found are those of the rep asked for.                       *)
LEMMA RepClassesStep == CallShape /\ RepClassesByName /\ [CallNext]_callVars => RepClassesByName'
<1> SUFFICES ASSUME CallShape, RepClassesByName, [CallNext]_callVars PROVE RepClassesByName'
  OBVIOUS
<1>1. CASE FetchClasses
  <2>1. PICK classes \in ClassLists :
           classIds' = ClassIdsForRep(ResolveParents(classes), Rep) /\ seen' = classes
    BY <1>1 DEF FetchClasses
  <2>2. ToSet(classIds') = NamedAfterRep(seen') /\ IsInjective(classIds')
    BY <2>1, ClassesByName DEF FoundOnly
  <2> QED BY <2>2 DEF RepClassesByName, NamedAfterRep
<1>2. CASE FetchSellers
  <2>1. classIds' = <<>> /\ seen' = <<>>
    BY <1>2 DEF FetchSellers
  <2>2. ToSet(<<>>) = {} /\ IsInjective(<<>>)
    BY DEF ToSet, IsInjective
  <2>3. NamedAfterRep(<<>>) = {}
    BY <2>2 DEF NamedAfterRep
  <2> QED BY <2>1, <2>2, <2>3 DEF RepClassesByName, NamedAfterRep
<1>3. CASE FetchCustomer \/ FindByEmail \/ FindByName
  <2>1. req' = req /\ req.tool # "sales_rep"
    BY <1>3 DEF FetchCustomer, FindByEmail, FindByName, CallShape, StageOK
  <2> QED BY <2>1 DEF RepClassesByName
<1>4. ASSUME UNCHANGED <<req, classIds, seen>> PROVE RepClassesByName'
  BY <1>4 DEF RepClassesByName, NamedAfterRep
<1>5. CASE Authorize \/ FetchInvoice \/ ReadLinks \/ Fetch \/ ReadCrmCustomer \/ ReadOwnName
           \/ FetchClassSales \/ FetchPage \/ Fails
  BY <1>4, <1>5 DEF Authorize, FetchInvoice, ReadLinks, Fetch, ReadCrmCustomer, ReadOwnName,
                    FetchClassSales, FetchPage, Fails, found
<1>6. CASE Others \/ UNCHANGED callVars
  BY <1>4, <1>6 DEF Others, InvoiceAdded, InvoiceRemoved, LinksChange, BooksChange, Change, call, found,
                    callVars
<1> QED BY <1>1, <1>2, <1>3, <1>5, <1>6 DEF CallNext, Tool

(* The inductive invariant of a call.                                      *)
CallInv == CallShape /\ NonAdminsSeeLinkedOrOwn /\ PagesInv /\ NeverGuesses /\ RepClassesByName

LEMMA CallIsInductive == CallSpec => []CallInv
<1>1. CallInit => CallInv
  <2> SUFFICES ASSUME CallInit PROVE CallInv
    OBVIOUS
  <2>1. NonAdminsSeeLinkedOrOwn /\ NeverGuesses
    BY DEF CallInit, NonAdminsSeeLinkedOrOwn, Shown, Answered, NeverGuesses
  <2>2. RepClassesByName
    <3>1. classIds = <<>> /\ seen = <<>>
      BY DEF CallInit
    <3>2. ToSet(<<>>) = {} /\ IsInjective(<<>>)
      BY DEF ToSet, IsInjective
    <3>3. NamedAfterRep(<<>>) = {}
      BY <3>2 DEF NamedAfterRep
    <3> QED BY <3>1, <3>2, <3>3 DEF RepClassesByName
  <2> QED BY <2>1, <2>2, CallShapeInit, PagesInit DEF CallInv
<1>2. CallInv /\ [CallNext]_callVars => CallInv'
  BY CallShapeStep, LinkedOrOwnStep, PagesStep, NeverGuessesStep, RepClassesStep DEF CallInv
<1> QED BY <1>1, <1>2, PTL DEF CallSpec

(* What a call of a tool holds is what it should, at every step.           *)
THEOREM CallTypeCorrect == CallSpec => []CallTypeOK
<1>1. CallInv => CallTypeOK
  BY DEF CallInv, CallShape
<1> QED BY <1>1, CallIsInductive, PTL

(* Who is not an admin gets only invoices of a customer linked to a CRM    *)
(* customer at some moment of the call, or, without a link, those of the   *)
(* customers of their own classes and of the customer found by e-mail or   *)
(* name, however the links change meanwhile (Session::invoice,             *)
(* customer_invoices, crm_customer_invoices, sales_rep).                   *)
THEOREM LinkedOrOwnOnly == CallSpec => []NonAdminsSeeLinkedOrOwn
<1>1. CallInv => NonAdminsSeeLinkedOrOwn
  BY DEF CallInv
<1> QED BY <1>1, CallIsInductive, PTL

(* An answer that is not cut leaves nothing out of what was there at the   *)
(* first page, if nothing is removed and the pages are not too many, but   *)
(* invoices of a day that a page ended within (invoices_between).          *)
THEOREM NoInvoiceMissed == CallSpec => []NothingMissed
<1>1. CallInv => NothingMissed
  BY DEF CallInv, PagesInv
<1> QED BY <1>1, CallIsInductive, PTL

(* The pages follow each other in the order of dates if none is added, and *)
(* repeat none but an invoice of a day that goes on from one to the next.  *)
THEOREM PagesFollow == CallSpec => []PagesInOrder
<1>1. CallInv => PagesInOrder
  BY DEF CallInv, PagesInv
<1> QED BY <1>1, CallIsInductive, PTL

(* A rep gets all the classes below those named after them, each once, and *)
(* a CRM customer only a QuickBooks customer without another like it, as   *)
(* long as the query by name gives all of that name (class_ids_for_rep,    *)
(* resolve_customer).                                                      *)
THEOREM NamesLeadHome == CallSpec => []NamesFindTheirOwn
<1>1. CallInv => NamesFindTheirOwn
  BY DEF CallInv, NamesFindTheirOwn
<1> QED BY <1>1, CallIsInductive, PTL

-----------------------------------------------------------------------------
(* The server.                                                             *)

(* What the cached connection has cost so far, by what has become of it.   *)
FailuresOfConnection ==
    /\ conn = "open" => failed = 0 /\ ~bye
    /\ conn = "bye" => failed = 0 /\ bye
    /\ conn = "broken" => failed <= (IF bye THEN 1 ELSE 0)
    /\ conn = "none" => failed <= (IF bye THEN 2 ELSE 1)

(* What has been read and answered, by where the server is.                *)
AnswersSoFar ==
    /\ pc = "read" => due = stdout
    /\ pc \in {"handle", "connect", "run"} => due = Append(stdout, AnswerId(current))
    /\ pc = "exited" => due = stdout \/ \E id \in 0..MaxMessages : due = Append(stdout, id)

(* The inductive invariant.                                                *)
McpInv ==
    /\ TypeOK
    /\ FailuresOfConnection
    /\ AnswersSoFar
    /\ current.id \in 0..MaxMessages
    /\ \A i \in DOMAIN stdin : stdin[i].id \in 0..MaxMessages

USE McpAssumption

LEMMA McpInvInit == Init => McpInv
<1> SUFFICES ASSUME Init PROVE McpInv
  OBVIOUS
<1>1. current = NoMessage /\ NoMessage \in Message /\ current.id = 0
  BY DEF Init, NoMessage, Message, Kinds
<1>2. stdin = <<>> /\ stdout = <<>> /\ due = <<>> /\ sent = 0 /\ drops = 0
  BY DEF Init
<1>3. stdin \in Seq(Message) /\ Len(stdin) = 0 /\ DOMAIN stdin = {}
  BY <1>2
<1>4. stdout \in Seq(0..MaxMessages) /\ due \in Seq(0..MaxMessages)
  BY <1>2
<1>5. TypeOK
  <2>1. sent \in 0..MaxMessages /\ drops \in 0..MaxDrops /\ failed \in Nat
    BY DEF Init
  <2>2. pc \in Pcs /\ conn \in Conns /\ up \in BOOLEAN /\ bye \in BOOLEAN
    BY DEF Init, Pcs, Conns
  <2>3. (pc = "run" => conn # "none") /\ (pc = "connect" => conn = "none")
    BY DEF Init
  <2>4. job \in [qbo : BOOLEAN, admin : BOOLEAN, database : BOOLEAN]
    BY DEF Init
  <2> QED
    BY <1>1, <1>2, <1>3, <1>4, <2>1, <2>2, <2>3, <2>4 DEF TypeOK
<1>6. FailuresOfConnection /\ AnswersSoFar
  BY DEF Init, FailuresOfConnection, AnswersSoFar
<1> QED
  BY <1>1, <1>3, <1>5, <1>6 DEF McpInv

(* A request leaves at most its own answer missing.                        *)
LEMMA McpInvAnswers == McpInv => AnsweredInOrder
<1> SUFFICES ASSUME McpInv PROVE AnsweredInOrder
  OBVIOUS
<1>1. stdout \in Seq(0..MaxMessages) /\ due \in Seq(0..MaxMessages) /\ pc \in Pcs
  BY DEF McpInv, TypeOK
<1>2. CASE due = stdout
  BY <1>1, <1>2 DEF AnsweredInOrder, IsPrefix
<1>3. CASE pc # "read" /\ \E id \in 0..MaxMessages : due = Append(stdout, id)
  <2>1. PICK id \in 0..MaxMessages : due = Append(stdout, id)
    BY <1>3
  <2>2. Len(due) = Len(stdout) + 1
    BY <1>1, <2>1
  <2>3. SubSeq(due, 1, Len(stdout)) = stdout
    BY <1>1, <2>1
  <2> QED
    BY <1>1, <1>3, <2>2, <2>3 DEF AnsweredInOrder, IsPrefix
<1>4. AnswerId(current) \in 0..MaxMessages
  BY DEF McpInv, AnswerId
<1> QED
  BY <1>1, <1>2, <1>3, <1>4 DEF McpInv, AnswersSoFar, Pcs

-----------------------------------------------------------------------------
(* What Reply does to the answers: the request is answered, or the server  *)
(* exits and owes this one answer.                                         *)
LEMMA ReplyAnswers ==
    ASSUME McpInv, pc \in {"handle", "connect", "run"}, Reply, UNCHANGED due
    PROVE  /\ AnswersSoFar'
           /\ stdout' \in Seq(0..MaxMessages)
           /\ pc' \in {"read", "exited"}
           /\ current' = NoMessage /\ current' \in Message /\ current'.id = 0
<1>1. due = Append(stdout, AnswerId(current))
  BY DEF McpInv, AnswersSoFar
<1>2. AnswerId(current) \in 0..MaxMessages
  BY DEF McpInv, AnswerId
<1>3. stdout \in Seq(0..MaxMessages)
  BY DEF McpInv, TypeOK
<1>4. NoMessage \in Message /\ NoMessage.id = 0
  BY DEF NoMessage, Message, Kinds
<1>5. CASE stdout' = Append(stdout, AnswerId(current)) /\ pc' = "read"
  BY <1>1, <1>2, <1>3, <1>4, <1>5 DEF Reply, AnswersSoFar
<1>6. CASE UNCHANGED stdout /\ pc' = "exited"
  BY <1>1, <1>2, <1>3, <1>4, <1>6 DEF Reply, AnswersSoFar
<1> QED
  BY <1>5, <1>6 DEF Reply

(* What the server owes and how its connection fared are not touched by a  *)
(* step that leaves these variables alone.                                 *)
LEMMA AnswersStay ==
    ASSUME AnswersSoFar, FailuresOfConnection,
           UNCHANGED <<current, pc, due, conn, stdout, failed, bye>>
    PROVE  AnswersSoFar' /\ FailuresOfConnection'
<1>1. AnswersSoFar'
  BY DEF AnswersSoFar, AnswerId
<1>2. FailuresOfConnection'
  BY DEF FailuresOfConnection
<1> QED
  BY <1>1, <1>2

LEMMA McpInvStep == McpInv /\ [Next]_vars => McpInv'
<1> SUFFICES ASSUME McpInv, [Next]_vars PROVE McpInv'
  OBVIOUS
<1> USE DEF McpInv
<1>1. CASE ReadLine
  <2> DEFINE line == Head(stdin)
  <2>1. line \in Message /\ line.id \in 0..MaxMessages
    BY <1>1 DEF ReadLine, TypeOK
  <2>2. /\ stdin' \in Seq(Message) /\ Len(stdin') <= sent
        /\ \A i \in DOMAIN stdin' : stdin'[i].id \in 0..MaxMessages
    BY <1>1 DEF ReadLine, TypeOK
  <2>3. CASE line.kind \in {"blank", "notification"}
    <3>1. UNCHANGED <<current, pc, due, job, sent, conn, up, drops, stdout, failed, bye>>
      BY <1>1, <2>3 DEF ReadLine
    <3>2. AnswersSoFar' /\ FailuresOfConnection'
      BY <3>1, AnswersStay
    <3>3. TypeOK'
      BY <2>2, <3>1 DEF TypeOK
    <3> QED
      BY <2>2, <3>1, <3>2, <3>3
  <2>4. CASE line.kind \notin {"blank", "notification"}
    <3>1. /\ pc = "read" /\ current' = line /\ pc' = "handle"
          /\ due' = Append(due, AnswerId(line))
          /\ UNCHANGED <<job, sent, conn, up, drops, stdout, failed, bye>>
      BY <1>1, <2>4 DEF ReadLine
    <3>2. AnswerId(line) \in 0..MaxMessages
      BY <2>1 DEF AnswerId
    <3>3. due = stdout
      BY <3>1 DEF AnswersSoFar
    <3>4. AnswersSoFar'
      BY <3>1, <3>3 DEF AnswersSoFar, AnswerId
    <3>5. TypeOK'
      BY <2>1, <2>2, <3>1, <3>2 DEF TypeOK, Pcs
    <3> QED
      BY <2>1, <2>2, <3>1, <3>4, <3>5 DEF FailuresOfConnection
  <2> QED
    BY <2>3, <2>4
<1>2. CASE Exit
  <2>1. AnswersSoFar'
    BY <1>2 DEF Exit, AnswersSoFar, environment
  <2> QED
    BY <1>2, <2>1 DEF Exit, environment, TypeOK, FailuresOfConnection, Pcs
<1>3. CASE HandleAtOnce
  <2>1. /\ pc = "handle" /\ Reply
        /\ UNCHANGED <<job, stdin, sent, up, drops, conn, due, failed, bye>>
    BY <1>3 DEF HandleAtOnce, environment
  <2>2. /\ AnswersSoFar' /\ stdout' \in Seq(0..MaxMessages)
        /\ pc' \in {"read", "exited"} /\ current' \in Message /\ current'.id = 0
    BY <2>1, ReplyAnswers
  <2> QED
    BY <2>1, <2>2 DEF TypeOK, FailuresOfConnection, Pcs
<1>4. CASE UseConnection
  <2>1. AnswersSoFar'
    BY <1>4 DEF UseConnection, AnswersSoFar, AnswerId
  <2> QED
    BY <1>4, <2>1 DEF UseConnection, environment, TypeOK, FailuresOfConnection, Pcs
<1>5. CASE Connect
  <2>1. AnswersSoFar'
    BY <1>5 DEF Connect, AnswersSoFar, AnswerId
  <2> QED
    BY <1>5, <2>1 DEF Connect, environment, TypeOK, FailuresOfConnection, Pcs, Conns
<1>6. CASE ConnectFails
  <2>1. /\ pc = "connect" /\ Reply
        /\ UNCHANGED <<job, stdin, sent, up, drops, conn, due, failed, bye>>
    BY <1>6 DEF ConnectFails, environment
  <2>2. /\ AnswersSoFar' /\ stdout' \in Seq(0..MaxMessages)
        /\ pc' \in {"read", "exited"} /\ current' \in Message /\ current'.id = 0
    BY <2>1, ReplyAnswers
  <2> QED
    BY <2>1, <2>2 DEF TypeOK, FailuresOfConnection, Pcs
<1>7. CASE RunTool
  <2>1. PICK ending \in Endings(current.kind) :
            /\ conn' = KeptAfter(ending)
            /\ failed' = IF conn # "open" /\ ending \in {"database", "connection"}
                         THEN failed + 1 ELSE failed
    BY <1>7 DEF RunTool
  <2>2. /\ pc = "run" /\ Reply
        /\ UNCHANGED <<job, stdin, sent, up, drops, due, bye>>
    BY <1>7 DEF RunTool, environment
  <2>3. /\ AnswersSoFar' /\ stdout' \in Seq(0..MaxMessages)
        /\ pc' \in {"read", "exited"} /\ current' \in Message /\ current'.id = 0
    BY <2>2, ReplyAnswers
  <2>4. conn \in {"open", "bye", "broken"} /\ bye \in BOOLEAN /\ failed \in Nat
    BY <2>2 DEF TypeOK, Conns
  <2>5. ending \in {"ok", "other", "database", "connection"}
        /\ (conn = "open" /\ ending = "connection" => FALSE)
        /\ (conn = "bye" /\ ending = "connection" => FALSE)
        /\ (conn = "broken" /\ ending = "database" => FALSE)
    BY <2>1, <2>4 DEF Endings
  <2>6. FailuresOfConnection' /\ conn' \in Conns /\ failed' \in Nat
    BY <2>1, <2>2, <2>4, <2>5 DEF KeptAfter, FailuresOfConnection, Conns
  <2> QED
    BY <2>2, <2>3, <2>6 DEF TypeOK, Pcs
<1>8. CASE Send
  <2>1. PICK kind \in Kinds : stdin' = Append(stdin, [id |-> sent + 1, kind |-> kind])
    BY <1>8 DEF Send
  <2>2. /\ sent < MaxMessages /\ sent' = sent + 1
        /\ UNCHANGED <<job, current, pc, conn, up, drops, stdout, due, failed, bye>>
    BY <1>8 DEF Send
  <2>3. sent + 1 \in 0..MaxMessages /\ [id |-> sent + 1, kind |-> kind] \in Message
    BY <2>1, <2>2 DEF TypeOK, Message
  <2>4. stdin' \in Seq(Message) /\ Len(stdin') <= sent'
    BY <2>1, <2>2, <2>3 DEF TypeOK
  <2>5. \A i \in DOMAIN stdin' : stdin'[i].id \in 0..MaxMessages
    BY <2>1, <2>3 DEF TypeOK
  <2>6. AnswersSoFar' /\ FailuresOfConnection'
    BY <2>2, AnswersStay
  <2>7. TypeOK'
    BY <2>2, <2>3, <2>4 DEF TypeOK
  <2> QED
    BY <2>2, <2>4, <2>5, <2>6, <2>7
<1>9. CASE Drop
  <2>1. AnswersSoFar'
    BY <1>9 DEF Drop, AnswersSoFar, AnswerId
  <2>2. FailuresOfConnection' /\ conn' \in Conns /\ bye' \in BOOLEAN
    <3>1. /\ conn' \in IF conn = "open" THEN {"bye", "broken"} ELSE {conn}
          /\ bye' = (bye \/ conn' = "bye")
          /\ failed' = failed
      BY <1>9 DEF Drop
    <3>2. bye \in BOOLEAN /\ conn \in Conns
      BY DEF TypeOK
    <3>3. CASE conn = "open"
      <4>1. (conn' = "bye" \/ conn' = "broken") /\ ~bye /\ failed = 0
        BY <3>1, <3>3 DEF FailuresOfConnection
      <4>2. CASE conn' = "bye"
        BY <3>1, <4>1, <4>2 DEF FailuresOfConnection, Conns
      <4>3. CASE conn' = "broken"
        BY <3>1, <4>1, <4>3 DEF FailuresOfConnection, Conns
      <4> QED
        BY <4>1, <4>2, <4>3
    <3>4. CASE conn # "open"
      <4>1. conn' = conn
        BY <3>1, <3>4
      <4>2. bye' = bye
        BY <3>1, <3>2, <4>1 DEF FailuresOfConnection
      <4> QED
        BY <3>1, <3>2, <4>1, <4>2 DEF FailuresOfConnection
    <3> QED
      BY <3>3, <3>4
  <2>3. (conn' = "none") = (conn = "none")
    BY <1>9 DEF Drop
  <2> QED
    BY <1>9, <2>1, <2>2, <2>3 DEF Drop, TypeOK
<1>10. CASE ComesBack
  <2>1. /\ up' \in BOOLEAN
        /\ UNCHANGED <<job, stdin, sent, current, pc, drops, conn, due, stdout, failed, bye>>
    BY <1>10 DEF ComesBack
  <2>2. AnswersSoFar' /\ FailuresOfConnection'
    BY <2>1, AnswersStay
  <2>3. TypeOK'
    BY <2>1 DEF TypeOK
  <2> QED
    BY <2>1, <2>2, <2>3
<1>11. CASE UNCHANGED vars
  <2>1. AnswersSoFar' /\ FailuresOfConnection'
    BY <1>11, AnswersStay DEF vars
  <2>2. TypeOK'
    BY <1>11 DEF vars, TypeOK
  <2> QED
    BY <1>11, <2>1, <2>2 DEF vars
<1> QED
  BY <1>1, <1>2, <1>3, <1>4, <1>5, <1>6, <1>7, <1>8, <1>9, <1>10, <1>11 DEF Next, Server

-----------------------------------------------------------------------------
(* The theorems.                                                           *)

LEMMA McpInvAlways == Spec => []McpInv
BY McpInvInit, McpInvStep, PTL DEF Spec

(* Requests are answered once each and in order, whatever comes between    *)
(* them and however the tools end (main).                                  *)
THEOREM RequestsAnswered == Spec => []AnsweredInOrder
BY McpInvAnswers, McpInvAlways, PTL

(* Types hold; a connection the database drops costs one call, or two      *)
(* after a parting message (forget_broken_connection).                     *)
THEOREM McpServerIsSafe == Spec => [](TypeOK /\ DropFailsOneCall)
<1>1. McpInv => TypeOK
  BY DEF McpInv
<1>2. McpInv => DropFailsOneCall
  BY DEF McpInv, FailuresOfConnection, DropFailsOneCall, TypeOK, Conns
<1> QED
  BY <1>1, <1>2, McpInvAlways, PTL

(* No error of a tool costs a connection that works                        *)
(* (forget_broken_connection).                                             *)
THEOREM GoodConnectionStays == Spec => KeepsGoodConnection
<1>1. McpInv /\ [Next]_vars => [conn = "open" => conn' # "none"]_vars
  <2> SUFFICES ASSUME McpInv, Next, conn = "open" PROVE conn' # "none"
    BY DEF vars
  <2>1. CASE RunTool
    <3>1. PICK ending \in Endings(current.kind) : conn' = KeptAfter(ending)
      BY <2>1 DEF RunTool
    <3> QED
      BY <3>1 DEF Endings, KeptAfter
  <2>2. CASE ReadLine \/ Exit \/ HandleAtOnce \/ UseConnection \/ Connect \/ ConnectFails
    BY <2>2 DEF ReadLine, Exit, HandleAtOnce, UseConnection, Connect, ConnectFails
  <2>3. CASE Send \/ Drop \/ ComesBack
    BY <2>3 DEF Send, Drop, ComesBack
  <2> QED
    BY <2>1, <2>2, <2>3 DEF Next, Server
<1> QED
  BY <1>1, McpInvAlways, PTL DEF Spec, KeepsGoodConnection
=============================================================================
