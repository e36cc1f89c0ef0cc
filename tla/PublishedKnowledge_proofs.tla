---------------------- MODULE PublishedKnowledge_proofs ----------------------
(***************************************************************************)
(* Theorems about PublishedKnowledge, for any documents, revisions, files, *)
(* lengths, capacity and dialogs that satisfy PublishedAssumption, and     *)
(* about the locks of the transactions that change it (LockOrder).         *)
(***************************************************************************)
EXTENDS PublishedKnowledge, LockOrder, FiniteSetTheorems, WellFoundedInduction, TLAPS

----------------------------------------------------------------------------
(* Sums over sets of revisions.                                            *)

Pick(s) == CHOOSE x \in s : TRUE

\* f adds up the blocks of every subset of S, in the order of Pick.
IsSum(f, S) ==
  f = [s \in SUBSET S |-> IF s = {} THEN 0 ELSE Blocks[Pick(s)] + f[s \ {Pick(s)}]]

\* The blocks of a set of originals.
Size(A) == MapThenSumSet(LAMBDA r : Blocks[r], A)

\* The same up to a number of members.
IsSumUpTo(f, S, n) ==
  f = [s \in {t \in SUBSET S : Cardinality(t) <= n} |->
         IF s = {} THEN 0 ELSE Blocks[Pick(s)] + f[s \ {Pick(s)}]]

\* Sets of revisions are finite, and smaller by one without a member.
LEMMA SetsOfRevs ==
  ASSUME NEW s \in SUBSET Revs
  PROVE  /\ IsFiniteSet(s) /\ Cardinality(s) \in Nat
         /\ Cardinality(s) = 0 <=> s = {}
         /\ \A y \in s : Cardinality(s \ {y}) = Cardinality(s) - 1
<1>1. IsFiniteSet(Revs)
  BY FS_Interval, PublishedAssumption DEF Revs
<1>2. IsFiniteSet(s)
  BY <1>1, FS_Subset
<1> QED BY <1>2, FS_CardinalityType, FS_EmptySet, FS_RemoveElement

\* Every set of numbers has a least one.
LEMMA LeastNumber ==
  ASSUME NEW T, T \subseteq Nat, T # {}
  PROVE  \E x \in T : \A y \in T : x <= y
<1>1. PICK x \in T : \A y \in T : ~(<<y, x>> \in OpToRel(<, Nat))
  BY NatLessThanWellFounded, WFMin
<1>2. \A y \in T : ~(y < x)
  BY <1>1 DEF OpToRel
<1> QED BY <1>2

\* Induction over sets of revisions: of sets that are not all fine, one is not
\* although it is without any one of its members.
LEMMA MinimalSet ==
  ASSUME NEW B, B \subseteq SUBSET Revs, B # {}
  PROVE  \E s \in B : \A y \in s : s \ {y} \notin B
<1> DEFINE T == {Cardinality(s) : s \in B}
<1>1. T \subseteq Nat /\ T # {}
  BY SetsOfRevs
<1>2. PICK x \in T : \A y \in T : x <= y
  <2> HIDE DEF T
  <2> QED BY <1>1, LeastNumber
<1>3. PICK s \in B : x = Cardinality(s)
  OBVIOUS
<1>4. ASSUME NEW y \in s, s \ {y} \in B PROVE FALSE
  <2>1. Cardinality(s \ {y}) = x - 1 /\ x \in Nat
    BY <1>3, SetsOfRevs
  <2>2. Cardinality(s \ {y}) \in T
    BY <1>4
  <2> HIDE DEF T
  <2>3. x <= x - 1
    BY <2>1, <2>2, <1>2
  <2> QED BY <2>1, <2>3
<1> QED BY <1>4

\* The recursive sum is defined.
LEMMA SumUpToExists ==
  ASSUME NEW S \in SUBSET Revs, NEW n \in Nat
  PROVE  \E f : IsSumUpTo(f, S, n)
<1> DEFINE T == {m \in Nat : ~ \E f : IsSumUpTo(f, S, m)}
<1> SUFFICES ASSUME T # {} PROVE FALSE
  OBVIOUS
<1>1. PICK m \in T : \A k \in T : m <= k
  <2>1. T \subseteq Nat
    OBVIOUS
  <2> HIDE DEF T
  <2> QED BY <2>1, LeastNumber
<1>2. CASE m = 0
  <2> DEFINE f == [s \in {t \in SUBSET S : Cardinality(t) <= 0} |-> 0]
  <2>1. \A s \in {t \in SUBSET S : Cardinality(t) <= 0} : s = {}
    BY SetsOfRevs
  <2>2. IsSumUpTo(f, S, 0)
    BY <2>1 DEF IsSumUpTo
  <2> QED BY <1>2, <2>2
<1>3. CASE m # 0
  <2>1. m - 1 \in Nat /\ m - 1 \notin T
    BY <1>1, <1>3
  <2>2. PICK f : IsSumUpTo(f, S, m - 1)
    BY <2>1
  <2> DEFINE D == {t \in SUBSET S : Cardinality(t) <= m}
             E == {t \in SUBSET S : Cardinality(t) <= m - 1}
             g == [s \in D |-> IF s = {} THEN 0 ELSE Blocks[Pick(s)] + f[s \ {Pick(s)}]]
  <2>3. ASSUME NEW s \in E PROVE g[s] = f[s]
    <3>1. s \in D
      BY SetsOfRevs, <2>1
    <3>2. f[s] = IF s = {} THEN 0 ELSE Blocks[Pick(s)] + f[s \ {Pick(s)}]
      BY <2>2 DEF IsSumUpTo
    <3> QED BY <3>1, <3>2
  <2>4. ASSUME NEW s \in D, s # {} PROVE s \ {Pick(s)} \in E
    <3>1. Pick(s) \in s
      BY <2>4 DEF Pick
    <3> QED BY <3>1, SetsOfRevs, <2>1
  <2>5. g = [s \in D |-> IF s = {} THEN 0 ELSE Blocks[Pick(s)] + g[s \ {Pick(s)}]]
    <3> SUFFICES ASSUME NEW s \in D
                 PROVE g[s] = IF s = {} THEN 0 ELSE Blocks[Pick(s)] + g[s \ {Pick(s)}]
      OBVIOUS
    <3>1. CASE s = {}
      BY <3>1
    <3>2. CASE s # {}
      BY <3>2, <2>3, <2>4
    <3> QED BY <3>1, <3>2
  <2>6. IsSumUpTo(g, S, m)
    <3> HIDE DEF g
    <3> QED BY <2>5 DEF IsSumUpTo
  <2> QED BY <2>6
<1> QED BY <1>2, <1>3

LEMMA SumExists ==
  ASSUME NEW S \in SUBSET Revs
  PROVE  \E f : IsSum(f, S)
<1>1. PICK f : IsSumUpTo(f, S, Cardinality(S))
  BY SumUpToExists, SetsOfRevs
<1>2. ASSUME NEW t \in SUBSET S PROVE Cardinality(t) <= Cardinality(S)
  BY SetsOfRevs, FS_Subset
<1>3. {t \in SUBSET S : Cardinality(t) <= Cardinality(S)} = SUBSET S
  BY <1>2
<1> QED BY <1>1, <1>3 DEF IsSum, IsSumUpTo

LEMMA SizeIsSum ==
  ASSUME NEW S \in SUBSET Revs
  PROVE  \E f : IsSum(f, S) /\ Size(S) = f[S]
<1> DEFINE g == CHOOSE f : IsSum(f, S)
<1>1. IsSum(g, S)
  BY SumExists
<1>2. Size(S) = g[S]
  BY Zenon DEF Size, MapThenSumSet, MapThenFoldSet, IsSum, Pick
<1> QED BY <1>1, <1>2

\* A sum of lengths is a number,
LEMMA SumIsNumber ==
  ASSUME NEW S \in SUBSET Revs, NEW f, IsSum(f, S)
  PROVE  \A s \in SUBSET S : f[s] \in Nat
<1> DEFINE B == {s \in SUBSET S : f[s] \notin Nat}
<1> SUFFICES ASSUME B # {} PROVE FALSE
  OBVIOUS
<1>1. PICK s \in B : \A y \in s : s \ {y} \notin B
  <2>1. B \subseteq SUBSET Revs
    OBVIOUS
  <2> HIDE DEF B
  <2> QED BY <2>1, MinimalSet
<1>2. f[s] = IF s = {} THEN 0 ELSE Blocks[Pick(s)] + f[s \ {Pick(s)}]
  BY DEF IsSum
<1>3. CASE s = {}
  BY <1>2, <1>3
<1>4. CASE s # {}
  <2> DEFINE z == Pick(s)
  <2>1. z \in s /\ z \in Revs
    BY <1>4 DEF Pick
  <2>2. f[s] = Blocks[z] + f[s \ {z}]
    BY <1>2, <1>4
  <2> HIDE DEF z
  <2>3. s \ {z} \in SUBSET S /\ s \ {z} \notin B
    BY <2>1, <1>1
  <2>4. f[s \ {z}] \in Nat
    BY <2>3
  <2>5. Blocks[z] \in Nat
    BY <2>1, PublishedAssumption
  <2> QED BY <2>2, <2>4, <2>5
<1> QED BY <1>3, <1>4

\* and does not depend on the order of its members.
LEMMA SumOrder ==
  ASSUME NEW S \in SUBSET Revs, NEW f, IsSum(f, S)
  PROVE  \A s \in SUBSET S : \A y \in s : f[s] = Blocks[y] + f[s \ {y}]
<1> DEFINE Fine(s) == \A y \in s : f[s] = Blocks[y] + f[s \ {y}]
           B == {s \in SUBSET S : ~Fine(s)}
<1> SUFFICES ASSUME B # {} PROVE FALSE
  OBVIOUS
<1>1. PICK s \in B : \A y \in s : s \ {y} \notin B
  <2>1. B \subseteq SUBSET Revs
    OBVIOUS
  <2> HIDE DEF B
  <2> QED BY <2>1, MinimalSet
<1>2. \A y \in s : Fine(s \ {y})
  BY <1>1
<1>3. \A t \in SUBSET S : f[t] = IF t = {} THEN 0 ELSE Blocks[Pick(t)] + f[t \ {Pick(t)}]
  BY DEF IsSum
<1>4. PICK y \in s : f[s] # Blocks[y] + f[s \ {y}]
  OBVIOUS
<1> DEFINE z == Pick(s)
<1>5. z \in s
  BY DEF Pick
<1>6. f[s] = Blocks[z] + f[s \ {z}]
  BY <1>3, <1>4
<1> HIDE DEF z
<1>7. y # z
  BY <1>4, <1>6
<1>8. f[s \ {z}] = Blocks[y] + f[(s \ {z}) \ {y}]
  BY <1>2, <1>5, <1>7
<1>9. f[s \ {y}] = Blocks[z] + f[(s \ {y}) \ {z}]
  BY <1>2, <1>5, <1>7
<1> DEFINE rest == f[(s \ {y}) \ {z}]
<1>10. (s \ {z}) \ {y} = (s \ {y}) \ {z}
  OBVIOUS
<1>11. rest \in Nat
  <2>1. (s \ {y}) \ {z} \in SUBSET S
    OBVIOUS
  <2> QED BY <2>1, SumIsNumber
<1>12. Blocks[y] \in Nat /\ Blocks[z] \in Nat
  BY <1>5, PublishedAssumption
<1>13. f[s] = Blocks[z] + (Blocks[y] + rest) /\ f[s \ {y}] = Blocks[z] + rest
  BY <1>6, <1>8, <1>9, <1>10
<1> HIDE DEF rest
<1> QED BY <1>4, <1>11, <1>12, <1>13

\* Two sums agree wherever both are defined.
LEMMA SumsAgree ==
  ASSUME NEW S \in SUBSET Revs, NEW T \in SUBSET Revs, NEW f, NEW g, IsSum(f, S), IsSum(g, T)
  PROVE  \A s \in (SUBSET S) \cap (SUBSET T) : f[s] = g[s]
<1> DEFINE B == {s \in (SUBSET S) \cap (SUBSET T) : f[s] # g[s]}
<1> SUFFICES ASSUME B # {} PROVE FALSE
  OBVIOUS
<1>1. PICK s \in B : \A y \in s : s \ {y} \notin B
  <2>1. B \subseteq SUBSET Revs
    OBVIOUS
  <2> HIDE DEF B
  <2> QED BY <2>1, MinimalSet
<1>2. /\ f[s] = IF s = {} THEN 0 ELSE Blocks[Pick(s)] + f[s \ {Pick(s)}]
      /\ g[s] = IF s = {} THEN 0 ELSE Blocks[Pick(s)] + g[s \ {Pick(s)}]
  <2>1. s \in SUBSET S /\ s \in SUBSET T
    OBVIOUS
  <2> HIDE DEF B
  <2>2. f[s] = IF s = {} THEN 0 ELSE Blocks[Pick(s)] + f[s \ {Pick(s)}]
    BY <2>1 DEF IsSum
  <2>3. g[s] = IF s = {} THEN 0 ELSE Blocks[Pick(s)] + g[s \ {Pick(s)}]
    BY <2>1 DEF IsSum
  <2> QED BY <2>2, <2>3
<1>3. CASE s = {}
  BY <1>2, <1>3
<1>4. CASE s # {}
  <2>1. Pick(s) \in s
    BY <1>4 DEF Pick
  <2>2. f[s \ {Pick(s)}] = g[s \ {Pick(s)}]
    BY <2>1, <1>1
  <2> QED BY <2>2, <1>2
<1> QED BY <1>3, <1>4

\* What the originals need: nothing for none, and for each its blocks.
LEMMA SizeOfSet ==
  ASSUME NEW A \in SUBSET Revs
  PROVE  /\ Size(A) \in Nat
         /\ \A y \in A : Size(A) = Blocks[y] + Size(A \ {y})
<1>1. PICK f : IsSum(f, A) /\ Size(A) = f[A]
  BY SizeIsSum
<1>2. Size(A) \in Nat
  BY <1>1, SumIsNumber
<1>3. ASSUME NEW y \in A PROVE Size(A) = Blocks[y] + Size(A \ {y})
  <2>1. PICK g : IsSum(g, A \ {y}) /\ Size(A \ {y}) = g[A \ {y}]
    BY SizeIsSum
  <2>2. f[A \ {y}] = g[A \ {y}]
    <3>1. A \ {y} \in SUBSET Revs /\ A \ {y} \in (SUBSET A) \cap (SUBSET (A \ {y}))
      OBVIOUS
    <3> DEFINE T == A \ {y}
    <3>2. IsSum(g, T) /\ T \in SUBSET Revs
      BY <2>1, <3>1
    <3> HIDE DEF T
    <3>3. \A s \in (SUBSET A) \cap (SUBSET T) : f[s] = g[s]
      BY <1>1, <3>2, SumsAgree
    <3> QED BY <3>1, <3>3 DEF T
  <2>3. f[A] = Blocks[y] + f[A \ {y}]
    BY <1>1, SumOrder
  <2> QED BY <1>1, <2>1, <2>2, <2>3
<1> QED BY <1>2, <1>3

\* One more original takes no more than its blocks.
LEMMA SizeWithOneMore ==
  ASSUME NEW A \in SUBSET Revs, NEW r \in Revs
  PROVE  Size(A \cup {r}) <= Size(A) + Blocks[r]
<1>1. Blocks[r] \in Nat /\ Size(A) \in Nat
  BY SizeOfSet, PublishedAssumption
<1>2. CASE r \in A
  <2>1. A \cup {r} = A
    BY <1>2
  <2>2. Size(A \cup {r}) = Size(A)
    BY <2>1
  <2> QED BY <1>1, <2>2
<1>3. CASE r \notin A
  <2>1. (A \cup {r}) \ {r} = A
    BY <1>3
  <2>2. Size(A \cup {r}) = Blocks[r] + Size((A \cup {r}) \ {r})
    BY SizeOfSet
  <2> QED BY <1>1, <2>1, <2>2
<1> QED BY <1>2, <1>3

\* Fewer originals take no more.
LEMMA SizeOfSubset ==
  ASSUME NEW A \in SUBSET Revs, NEW X
  PROVE  Size(A \ X) <= Size(A)
<1> DEFINE B == {s \in SUBSET A : ~(Size(s \ X) <= Size(s))}
<1>1. CASE B = {}
  BY <1>1
<1>2. CASE B # {}
  <2>1. PICK s \in B : \A y \in s : s \ {y} \notin B
    <3>1. B \subseteq SUBSET Revs
      OBVIOUS
    <3> HIDE DEF B
    <3> QED BY <3>1, <1>2, MinimalSet
  <2>2. Size(s) \in Nat /\ Size(s \ X) \in Nat /\ ~(Size(s \ X) <= Size(s))
    BY <2>1, SizeOfSet
  <2>3. PICK y \in s : y \in X
    <3>1. s \ X # s
      BY <2>2
    <3> QED BY <3>1
  <2>4. (s \ {y}) \ X = s \ X
    BY <2>3
  <2>5. Size(s \ X) <= Size(s \ {y})
    BY <2>1, <2>4
  <2>6. Size(s) = Blocks[y] + Size(s \ {y}) /\ Size(s \ {y}) \in Nat /\ Blocks[y] \in Nat
    BY SizeOfSet, PublishedAssumption
  <2> QED BY <2>2, <2>5, <2>6
<1> QED BY <1>1, <1>2

----------------------------------------------------------------------------
(* The invariant.                                                          *)

Dialog == [pc : Asking \cup {"closed", "ready", "failed"},
           of : Lectures \cup {<<"reference", r>> : r \in Revs} \cup {<<"none", 0>>},
           rev : Revs \cup {0}, length : Nat, parts : [DOMAIN Closed.parts -> Revs \cup {0}]]

Upload == [pc : {"idle", "uploading", "storing"}, rev : Revs \cup {0},
           file : {FileOf[r] : r \in Revs} \cup {0}]

Types ==
  /\ TypeOK
  /\ attach \in Upload
  /\ attach.pc # "idle" => attach.rev \in Revs
  /\ bundle.sources \subseteq Revs

\* Whoever is past the knowledge lock holds it,
Locked ==
  /\ lock = Instructor <=> attach.pc = "storing"
  /\ \A v \in Viewers : lock = v <=> view[v].rev # 0

\* a request that holds it was asked for something and found it published,
Authorized ==
  \A v \in Viewers : view[v].rev # 0 =>
    /\ view[v].pc \in Asking
    /\ view[v].rev \in Live

\* and an upload that holds it found room.
RoomLeft == attach.pc = "storing" => Size(archive) + Blocks[attach.rev] <= Capacity

Fits == Size(archive) <= Capacity

\* A dialog of a reference reads the revision of the reference only, and every
\* part it has is of a file of the length it knows.
OfOneFile(d) ==
  /\ d.pc = "metadata" => \A n \in DOMAIN Closed.parts : d.parts[n] = 0
  /\ d.rev # 0 /\ d.of[1] # "document" => d.rev = d.of[2]
  /\ \A n \in DOMAIN Closed.parts : d.parts[n] # 0 =>
       /\ Blocks[d.parts[n]] = d.length
       /\ d.of[1] # "document" => d.parts[n] = d.of[2]

PartsMatch == \A v \in Viewers : OfOneFile(view[v])

IInv == Types /\ Locked /\ Authorized /\ NothingWithdrawnRead /\ RoomLeft /\ Fits /\ PartsMatch

LEMMA FirstIsRev == \A d \in Docs : First(d) \in Revs
<1> SUFFICES ASSUME NEW d \in Docs PROVE First(d) \in Revs
  OBVIOUS
<1> DEFINE T == {r \in Revs : DocOf[r] = d}
<1>1. T \subseteq Nat /\ T # {}
  <2>1. \A r \in Revs : r \in Nat
    BY PublishedAssumption DEF Revs
  <2>2. \E r \in Revs : DocOf[r] = d
    BY PublishedAssumption
  <2> QED BY <2>1, <2>2
<1>2. \E x \in T : \A y \in T : x <= y
  <2> HIDE DEF T
  <2> QED BY <1>1, LeastNumber
<1>3. First(d) = CHOOSE x \in T : \A y \in T : x <= y
  BY DEF First, Min
<1>4. First(d) \in T
  <2> HIDE DEF T
  <2> QED BY <1>2, <1>3
<1> QED BY <1>4

\* A closed dialog has nothing.
LEMMA ClosedDialog ==
  /\ Closed \in Dialog /\ OfOneFile(Closed) /\ Closed.rev = 0 /\ Closed.pc = "closed"
  /\ \A n \in DOMAIN Closed.parts : Closed.parts[n] = 0
<1> DEFINE parts == [n \in 1 .. Max({Blocks[r] : r \in Revs}) |-> 0]
<1>1. Closed = [pc |-> "closed", of |-> <<"none", 0>>, rev |-> 0, length |-> 0, parts |-> parts]
  BY DEF Closed
<1>2. parts = [n \in DOMAIN Closed.parts |-> 0]
  BY <1>1
<1>3. parts \in [DOMAIN Closed.parts -> Revs \cup {0}] /\ \A n \in DOMAIN Closed.parts : parts[n] = 0
  BY <1>2
<1> HIDE DEF parts
<1>4. Closed \in Dialog
  BY <1>1, <1>3 DEF Dialog
<1>5. OfOneFile(Closed)
  BY <1>1, <1>3 DEF OfOneFile
<1>6. \A n \in DOMAIN Closed.parts : Closed.parts[n] = 0
  BY <1>1, <1>3
<1> QED BY <1>1, <1>4, <1>5, <1>6

LEMMA InitInv == Init => IInv
<1> SUFFICES ASSUME Init PROVE IInv
  OBVIOUS
<1>1. content \in [Revs -> [status : {"none", "pending_index", "ready", "removed"},
                            active : BOOLEAN, published : BOOLEAN]]
  BY DEF Init, Absent, Ready
<1>2. PICK kept \in SUBSET {First(d) : d \in Docs} :
        MapThenSumSet(LAMBDA r : Blocks[r], kept) <= Capacity /\ archive = kept
  BY DEF Init
<1>3. archive \subseteq Revs
  BY <1>2, FirstIsRev
<1>4. view \in [Viewers -> Dialog] /\ \A v \in Viewers : view[v] = Closed
  BY ClosedDialog DEF Init
<1>5. Types
  BY <1>1, <1>3, <1>4 DEF Init, Types, TypeOK, Dialog, Upload, NoAttach, NoBundle
<1>6. Locked /\ Authorized /\ RoomLeft
  BY <1>4, ClosedDialog, PublishedAssumption DEF Init, Locked, Authorized, RoomLeft, NoAttach
<1>7. Fits
  BY <1>2 DEF Fits, Size
<1>8. NothingWithdrawnRead /\ PartsMatch
  BY <1>4, ClosedDialog DEF Init, NothingWithdrawnRead, PartsMatch
<1> QED BY <1>5, <1>6, <1>7, <1>8 DEF IInv

----------------------------------------------------------------------------
(* The instructor and the workers.                                         *)

\* Nobody reads or stores while the knowledge lock is free.
LEMMA NobodyInside ==
  ASSUME IInv, Free
  PROVE  attach.pc # "storing" /\ \A v \in Viewers : view[v].rev = 0
BY PublishedAssumption DEF IInv, Locked, Free, Types, TypeOK

\* So a transaction of the corpus under the lock leaves the rest as it was.
LEMMA CorpusStep ==
  ASSUME IInv, Free, UNCHANGED Readers,
         content' \in [Revs -> [status : {"none", "pending_index", "ready", "removed"},
                                active : BOOLEAN, published : BOOLEAN]],
         archive' \subseteq Revs, Size(archive') <= Capacity, bundle'.sources \subseteq Revs
  PROVE  IInv'
<1>1. attach.pc # "storing" /\ \A v \in Viewers : view[v].rev = 0
  BY NobodyInside
<1>2. Types'
  BY DEF IInv, Types, TypeOK, Readers
<1>3. Locked'
  BY DEF IInv, Locked, Readers
<1>4. Authorized' /\ RoomLeft'
  BY <1>1 DEF Authorized, RoomLeft, Readers
<1>5. NothingWithdrawnRead' /\ PartsMatch'
  BY DEF IInv, NothingWithdrawnRead, PartsMatch, Readers
<1>6. Fits'
  BY DEF Fits
<1> QED BY <1>2, <1>3, <1>4, <1>5, <1>6 DEF IInv

\* Room is what the originals leave.
LEMMA RoomIs == ASSUME NEW r PROVE Room(r) <=> Size(archive) + Blocks[r] <= Capacity
BY DEF Room, Stored, Size

LEMMA CapacityIs == WithinCapacity <=> Fits
BY DEF WithinCapacity, Fits, Size

LEMMA CaptureInv == ASSUME IInv, NEW r \in Revs, Capture(r) PROVE IInv'
<1>1. /\ content' \in [Revs -> [status : {"none", "pending_index", "ready", "removed"},
                                active : BOOLEAN, published : BOOLEAN]]
      /\ archive' = archive \cup {r} /\ archive \subseteq Revs
      /\ bundle'.sources \subseteq Revs
  BY DEF Capture, IInv, Types, TypeOK
<1>2. Size(archive) + Blocks[r] <= Capacity
  BY RoomIs DEF Capture
<1>3. Size(archive') <= Capacity
  <2>1. Size(archive') <= Size(archive) + Blocks[r]
    BY <1>1, SizeWithOneMore
  <2>2. Size(archive') \in Nat /\ Size(archive) \in Nat /\ Blocks[r] \in Nat /\ Capacity \in Nat
    BY <1>1, SizeOfSet, PublishedAssumption
  <2> QED BY <1>2, <2>1, <2>2
<1> QED BY <1>1, <1>3, CorpusStep DEF Capture

LEMMA IndexInv == ASSUME IInv, NEW r \in Revs, Index(r) PROVE IInv'
<1>1. /\ content' \in [Revs -> [status : {"none", "pending_index", "ready", "removed"},
                                active : BOOLEAN, published : BOOLEAN]]
      /\ archive' = archive /\ archive \subseteq Revs
  BY ZenonT(60) DEF Index, IInv, Types, TypeOK
<1>2. bundle'.sources \subseteq Revs
  BY DEF Index, Bump, IInv, Types
<1>3. Size(archive') <= Capacity
  BY <1>1 DEF IInv, Fits
<1> QED BY <1>1, <1>2, <1>3, CorpusStep DEF Index

LEMMA PublishInv ==
  ASSUME IInv, NEW d \in Docs, NEW public, public \in BOOLEAN, Publish(d, public)
  PROVE  IInv'
<1>1. PICK r \in ActiveOf(d) :
        Free /\ content' = [content EXCEPT ![r].published = public]
             /\ Bump({r}) /\ UNCHANGED archive /\ UNCHANGED Readers
  BY DEF Publish
<1>2. content' \in [Revs -> [status : {"none", "pending_index", "ready", "removed"},
                             active : BOOLEAN, published : BOOLEAN]]
  <2>1. content \in [Revs -> [status : {"none", "pending_index", "ready", "removed"},
                              active : BOOLEAN, published : BOOLEAN]]
    BY DEF IInv, Types, TypeOK
  <2>2. content' = [content EXCEPT ![r].published = public]
    BY <1>1
  <2> QED BY <2>1, <2>2
<1>3. archive' = archive /\ archive \subseteq Revs
  BY <1>1 DEF IInv, Types, TypeOK
<1>4. bundle'.sources \subseteq Revs
  BY <1>1 DEF Bump, IInv, Types
<1>5. Size(archive') <= Capacity
  BY <1>3 DEF IInv, Fits
<1> QED BY <1>1, <1>2, <1>3, <1>4, <1>5, CorpusStep

LEMMA RemoveInv == ASSUME IInv, NEW d \in Docs, Remove(d) PROVE IInv'
<1>1. /\ content' \in [Revs -> [status : {"none", "pending_index", "ready", "removed"},
                                active : BOOLEAN, published : BOOLEAN]]
      /\ archive' = archive \ RevsOf(d) /\ archive \subseteq Revs
  BY DEF Remove, IInv, Types, TypeOK, Absent
<1>2. bundle'.sources \subseteq Revs
  BY DEF Remove, Bump, IInv, Types
<1>3. Size(archive') <= Capacity
  <2>1. Size(archive') <= Size(archive)
    BY <1>1, SizeOfSubset
  <2>2. Size(archive') \in Nat /\ Size(archive) \in Nat /\ Capacity \in Nat
    BY <1>1, SizeOfSet, PublishedAssumption
  <2> QED BY <2>1, <2>2 DEF IInv, Fits
<1> QED BY <1>1, <1>2, <1>3, CorpusStep DEF Remove

LEMMA AnswerInv == ASSUME IInv, NEW sources \in SUBSET Live, Answer(sources) PROVE IInv'
<1>1. content' = content /\ archive' = archive /\ bundle'.sources \subseteq Revs
  BY DEF Answer, Live
<1>2. Size(archive') <= Capacity
  BY <1>1 DEF IInv, Fits
<1> QED BY <1>1, <1>2, CorpusStep DEF Answer, IInv, Types, TypeOK

\* An upload of an original.
LEMMA AttachReadInv ==
  ASSUME IInv, NEW d \in Docs, NEW q \in Revs, AttachRead(d, FileOf[q])
  PROVE  IInv'
<1>1. PICK r \in ActiveOf(d) :
        /\ attach = NoAttach
        /\ attach' = [pc |-> "uploading", rev |-> r, file |-> FileOf[q]]
        /\ UNCHANGED <<corpus, view, lock, withdrawn>>
  BY DEF AttachRead
<1>2. r \in Revs
  BY <1>1 DEF ActiveOf, Kept, RevsOf
<1>3. Types'
  BY <1>1, <1>2 DEF IInv, Types, TypeOK, Upload, corpus
<1>4. Locked'
  BY <1>1 DEF IInv, Locked, NoAttach
<1>5. Authorized' /\ RoomLeft'
  BY <1>1 DEF IInv, Authorized, RoomLeft, Live, corpus
<1>6. NothingWithdrawnRead' /\ PartsMatch' /\ Fits'
  BY <1>1 DEF IInv, NothingWithdrawnRead, PartsMatch, Fits, corpus
<1> QED BY <1>3, <1>4, <1>5, <1>6 DEF IInv

LEMMA AttachLockInv == ASSUME IInv, AttachLock PROVE IInv'
<1>1. /\ Free /\ attach.pc = "uploading" /\ attach \in Upload /\ attach.rev \in Revs
      /\ UNCHANGED <<corpus, view, withdrawn>>
  BY DEF AttachLock, IInv, Types
<1>2. /\ attach' \in Upload
      /\ attach'.pc # "idle" => attach'.rev \in Revs
      /\ attach'.pc = "storing" => Attachable(attach.rev) /\ attach'.rev = attach.rev
      /\ attach'.pc = "storing" => lock' = Instructor
      /\ attach'.pc # "storing" => lock' = lock
  BY <1>1 DEF AttachLock, Upload, NoAttach
<1>3. Types'
  BY <1>1, <1>2 DEF IInv, Types, TypeOK, corpus
<1>4. Locked'
  BY <1>1, <1>2, PublishedAssumption DEF IInv, Locked, Free
<1>5. Authorized'
  BY <1>1 DEF IInv, Authorized, Live, corpus
<1>6. RoomLeft'
  BY <1>1, <1>2, RoomIs DEF Attachable, RoomLeft, corpus
<1>7. NothingWithdrawnRead' /\ PartsMatch' /\ Fits'
  BY <1>1 DEF IInv, NothingWithdrawnRead, PartsMatch, Fits, corpus
<1> QED BY <1>3, <1>4, <1>5, <1>6, <1>7 DEF IInv

LEMMA AttachStoreInv == ASSUME IInv, AttachStore PROVE IInv'
<1>1. /\ attach.pc = "storing" /\ attach.rev \in Revs /\ archive \subseteq Revs
      /\ archive' = archive \cup {attach.rev}
      /\ attach' = NoAttach /\ lock' = NoOne
      /\ UNCHANGED <<content, bundle, message, view, withdrawn>>
  BY DEF AttachStore, IInv, Types, TypeOK
<1>2. lock = Instructor /\ \A v \in Viewers : view[v].rev = 0
  BY <1>1, PublishedAssumption DEF IInv, Locked, Types, TypeOK
<1>3. Types'
  BY <1>1 DEF IInv, Types, TypeOK, Upload, NoAttach
<1>4. Locked' /\ Authorized' /\ RoomLeft'
  BY <1>1, <1>2, PublishedAssumption DEF Locked, Authorized, RoomLeft, NoAttach
<1>5. Fits'
  <2>1. Size(archive') <= Size(archive) + Blocks[attach.rev]
    BY <1>1, SizeWithOneMore
  <2>2. /\ Size(archive') \in Nat /\ Size(archive) \in Nat
        /\ Blocks[attach.rev] \in Nat /\ Capacity \in Nat
    BY <1>1, SizeOfSet, PublishedAssumption
  <2>3. Size(archive) + Blocks[attach.rev] <= Capacity
    BY <1>1 DEF IInv, RoomLeft
  <2> QED BY <2>1, <2>2, <2>3 DEF Fits
<1>6. NothingWithdrawnRead' /\ PartsMatch'
  BY <1>1 DEF IInv, NothingWithdrawnRead, PartsMatch
<1> QED BY <1>3, <1>4, <1>5, <1>6 DEF IInv

----------------------------------------------------------------------------
(* Students.                                                               *)

LEMMA ReadHistoryInv == ASSUME IInv, ReadHistory PROVE IInv'
<1>1. UNCHANGED <<content, archive, bundle, lock, attach, view>>
  BY DEF ReadHistory
<1>2. withdrawn' = {}
  <2> DEFINE found == IF message.current THEN message.sources \cap Live ELSE {}
  <2>1. withdrawn = {}
    BY DEF IInv, NothingWithdrawnRead
  <2>2. withdrawn' = IF found = message.sources THEN withdrawn \cup (message.sources \ Live)
                     ELSE withdrawn
    BY DEF ReadHistory, AllShown
  <2>3. found \subseteq Live
    OBVIOUS
  <2> HIDE DEF found
  <2> QED BY <2>1, <2>2, <2>3
<1>3. Types' /\ Locked' /\ Authorized' /\ RoomLeft' /\ Fits' /\ PartsMatch'
  BY <1>1 DEF IInv, Types, TypeOK, Locked, Authorized, Live, RoomLeft, Fits, PartsMatch
<1> QED BY <1>2, <1>3 DEF IInv, NothingWithdrawnRead

\* A step of one dialog under which the lock follows its revision.
LEMMA DialogStep ==
  ASSUME IInv, NEW v \in Viewers, NEW d \in Dialog,
         view' = [view EXCEPT ![v] = d],
         UNCHANGED <<corpus, attach>>, withdrawn' = {},
         OfOneFile(d), d.rev # 0 => d.pc \in Asking /\ d.rev \in Live,
         \/ view[v].rev = 0 /\ lock = NoOne /\ lock' = IF d.rev # 0 THEN v ELSE NoOne
         \/ view[v].rev # 0 /\ d.rev = 0 /\ lock' = NoOne
         \/ view[v].rev = 0 /\ d.rev = 0 /\ lock' = lock
  PROVE  IInv'
<1>1. view \in [Viewers -> Dialog]
  BY DEF IInv, Types, TypeOK, Dialog
<1>2. view' \in [Viewers -> Dialog] /\ view'[v] = d /\ \A u \in Viewers \ {v} : view'[u] = view[u]
  BY <1>1
<1>3. lock' \in {lock, v, NoOne}
  OBVIOUS
<1>4. Types'
  BY <1>2 DEF IInv, Types, TypeOK, Dialog, corpus
<1>5. Locked'
  <2>1. /\ lock = Instructor <=> attach.pc = "storing"
        /\ \A u \in Viewers : lock = u <=> view[u].rev # 0
    BY DEF IInv, Locked
  <2>2. lock' = Instructor <=> attach'.pc = "storing"
    BY <2>1, PublishedAssumption DEF corpus
  <2>3. ASSUME NEW u \in Viewers PROVE lock' = u <=> view'[u].rev # 0
    BY <1>2, <2>1, PublishedAssumption
  <2> QED BY <2>2, <2>3 DEF Locked
<1>6. Authorized'
  BY <1>2 DEF IInv, Authorized, Live, corpus
<1>7. RoomLeft' /\ Fits'
  BY DEF IInv, RoomLeft, Fits, corpus
<1>8. NothingWithdrawnRead' /\ PartsMatch'
  BY <1>2 DEF IInv, NothingWithdrawnRead, PartsMatch
<1> QED BY <1>4, <1>5, <1>6, <1>7, <1>8 DEF IInv

\* What a dialog is before its step.
LEMMA DialogNow ==
  ASSUME IInv, NEW v \in Viewers
  PROVE  view[v] \in Dialog /\ OfOneFile(view[v]) /\ withdrawn = {}
BY DEF IInv, Types, TypeOK, Dialog, PartsMatch, NothingWithdrawnRead

LEMMA OpenInv ==
  ASSUME IInv, NEW v \in Viewers, NEW of \in Lectures \cup References, Open(v, of)
  PROVE  IInv'
<1> DEFINE d == [Closed EXCEPT !.pc = "metadata", !.of = of]
<1>1. of \in Lectures \cup {<<"reference", r>> : r \in Revs}
  BY DEF References, IInv, Types
<1>2. d \in Dialog
  BY <1>1, ClosedDialog DEF Dialog, Asking
<1>3. OfOneFile(d) /\ d.rev = 0
  BY ClosedDialog DEF OfOneFile, Dialog
<1>4. view' = [view EXCEPT ![v] = d] /\ view[v].rev = 0 /\ UNCHANGED <<corpus, lock, attach, withdrawn>>
  BY ClosedDialog DEF Open
<1> HIDE DEF d
<1> QED BY <1>2, <1>3, <1>4, DialogNow, DialogStep

\* What a request may read is published,
LEMMA TargetIsLive ==
  ASSUME NEW v \in Viewers, NEW r \in Found(v)
  PROVE  r \in Live /\ r \in Revs /\ (view[v].of[1] # "document" => r = view[v].of[2])
BY DEF Found, Target, LiveOf, Live

LEMMA AuthorizeInv == ASSUME IInv, NEW v \in Viewers, Authorize(v) PROVE IInv'
<1>1. PICK r \in Found(v) : view' = [view EXCEPT ![v].rev = r]
  BY DEF Authorize
<1> DEFINE d == [view[v] EXCEPT !.rev = r]
<1>2. view[v] \in Dialog /\ OfOneFile(view[v]) /\ withdrawn = {}
  BY DialogNow
<1>3. r \in Live /\ r \in Revs /\ r # 0 /\ (view[v].of[1] # "document" => r = view[v].of[2])
  BY TargetIsLive, PublishedAssumption DEF Revs
<1>4. d \in Dialog
  BY <1>2, <1>3 DEF Dialog
<1>5. OfOneFile(d) /\ d.rev = r /\ d.pc = view[v].pc
  BY <1>2, <1>3 DEF OfOneFile, Dialog
<1>6. view' = [view EXCEPT ![v] = d] /\ view[v].rev = 0 /\ view[v].pc \in Asking
  BY <1>1 DEF Authorize, Waiting
<1>7. lock = NoOne /\ lock' = v /\ UNCHANGED <<corpus, attach, withdrawn>>
  BY DEF Authorize, Free
<1> HIDE DEF d
<1> QED BY <1>2, <1>3, <1>4, <1>5, <1>6, <1>7, DialogStep

LEMMA RefuseInv == ASSUME IInv, NEW v \in Viewers, Refuse(v) PROVE IInv'
<1> DEFINE d == IF view[v].pc \in OfPdf THEN [view[v] EXCEPT !.pc = "recheck"] ELSE Closed
<1>1. view[v] \in Dialog /\ OfOneFile(view[v]) /\ withdrawn = {}
  BY DialogNow
<1>2. view' = [view EXCEPT ![v] = d] /\ view[v].rev = 0 /\ lock = NoOne /\ lock' = NoOne
      /\ UNCHANGED <<corpus, attach, withdrawn>>
  BY <1>1 DEF Refuse, Waiting, Free, RollsBack, IInv, Types, TypeOK
<1>3. d \in Dialog /\ d.rev = 0
  BY <1>1, <1>2, ClosedDialog DEF Dialog, Asking
<1>4. OfOneFile(d)
  BY <1>1, ClosedDialog DEF OfOneFile, Dialog
<1> HIDE DEF d
<1> QED BY <1>1, <1>2, <1>3, <1>4, DialogStep

\* and what a dialog receives fits what it has.
LEMMA ReceivedMatches ==
  ASSUME IInv, NEW v \in Viewers, view[v].rev # 0
  PROVE  Received(v) \in Dialog /\ OfOneFile(Received(v)) /\ Received(v).rev = 0
<1> DEFINE e == view[v]
           d == [e EXCEPT !.rev = 0]
           r == e.rev
<1>1. e \in Dialog /\ OfOneFile(e) /\ e.pc \in Asking /\ r \in Revs
  BY DialogNow DEF IInv, Authorized, Live
<1>2. Blocks[r] \in Nat
  BY <1>1, PublishedAssumption
<1>3. d \in Dialog /\ OfOneFile(d) /\ d.rev = 0 /\ d.pc = e.pc /\ d.length = e.length /\ d.of = e.of
      /\ d.parts = e.parts
  BY <1>1 DEF Dialog, OfOneFile
<1>4. e.of[1] # "document" => r = e.of[2]
  BY <1>1 DEF OfOneFile
<1>5. CASE e.pc = "metadata"
  <2>1. Received(v) = [d EXCEPT !.pc = "range", !.length = Blocks[r]]
    BY <1>5, <1>3 DEF Received
  <2> HIDE DEF d, r
  <2> QED BY <2>1, <1>2, <1>3, <1>5, <1>1, ZenonT(60) DEF Dialog, OfOneFile, Asking
<1>6. CASE e.pc = "range" /\ SameLength(v)
  <2> DEFINE m == Min(Missing(v))
  <2>1. Received(v) = [d EXCEPT !.pc = "ready", !.parts[m] = r]
    BY <1>6, <1>3 DEF Received
  <2>2. Blocks[r] = d.length
    BY <1>6, <1>3 DEF SameLength
  <2> DEFINE parts == [d.parts EXCEPT ![m] = r]
  <2>3. Received(v) = [d EXCEPT !.pc = "ready", !.parts = parts]
    BY <2>1
  <2>4. d.parts \in [DOMAIN Closed.parts -> Revs \cup {0}]
    BY <1>3 DEF Dialog
  <2>5. /\ parts \in [DOMAIN Closed.parts -> Revs \cup {0}]
        /\ \A n \in DOMAIN Closed.parts : parts[n] \in {r, d.parts[n]}
    BY <2>4, <1>1
  <2> HIDE DEF d, r, parts, m
  <2>6. Received(v) \in Dialog
    BY <2>3, <2>5, <1>3 DEF Dialog
  <2>7. /\ Received(v).pc = "ready" /\ Received(v).rev = 0 /\ Received(v).parts = parts
        /\ Received(v).of = d.of /\ Received(v).length = d.length
    BY <2>3, <1>3 DEF Dialog
  <2>8. OfOneFile(Received(v))
    BY <2>2, <2>5, <2>7, <1>3, <1>4 DEF OfOneFile
  <2> QED BY <2>6, <2>7, <2>8
<1>7. CASE e.pc = "check" /\ SameLength(v)
  <2>1. Received(v) = [d EXCEPT !.pc = "turn"]
    BY <1>7, <1>3 DEF Received
  <2> HIDE DEF d, r
  <2> QED BY <2>1, <1>3 DEF Dialog, OfOneFile, Asking
<1>8. CASE e.pc \in {"range", "check"} /\ ~SameLength(v)
  <2>1. Received(v) = [d EXCEPT !.pc = "recheck"]
    BY <1>8, <1>3 DEF Received
  <2> HIDE DEF d, r
  <2> QED BY <2>1, <1>3 DEF Dialog, OfOneFile, Asking
<1>9. CASE e.pc \in {"turn", "recheck"}
  <2>1. \E pc \in {"ready", "failed"} : Received(v) = [d EXCEPT !.pc = pc]
    BY <1>9, <1>3 DEF Received
  <2> HIDE DEF d, r
  <2> QED BY <2>1, <1>3 DEF Dialog, OfOneFile, Asking
<1> QED BY <1>1, <1>5, <1>6, <1>7, <1>8, <1>9 DEF Asking

LEMMA RespondInv == ASSUME IInv, NEW v \in Viewers, Respond(v) PROVE IInv'
<1>1. view[v] \in Dialog /\ OfOneFile(view[v]) /\ withdrawn = {}
  BY DialogNow
<1>2. view[v].rev # 0 /\ view[v].rev \in Live /\ lock' = NoOne /\ UNCHANGED <<corpus, attach>>
  BY DEF Respond, IInv, Authorized
<1>3. CASE view[v].pc \in OfPdf /\ view[v].rev \notin archive
  <2> DEFINE d == [view[v] EXCEPT !.pc = "recheck", !.rev = 0]
  <2>1. view' = [view EXCEPT ![v] = d] /\ withdrawn' = {}
    BY <1>1, <1>3 DEF Respond, IInv, Types, TypeOK
  <2>2. d \in Dialog /\ OfOneFile(d) /\ d.rev = 0
    BY <1>1 DEF Dialog, OfOneFile, Asking
  <2> HIDE DEF d
  <2> QED BY <1>2, <2>1, <2>2, DialogStep
<1>4. CASE ~(view[v].pc \in OfPdf /\ view[v].rev \notin archive)
  <2>1. view' = [view EXCEPT ![v] = Received(v)] /\ withdrawn' = {}
    BY <1>1, <1>2, <1>4 DEF Respond
  <2> QED BY <1>2, <2>1, ReceivedMatches, DialogStep
<1> QED BY <1>3, <1>4

LEMMA ContinueInv == ASSUME IInv, NEW v \in Viewers, Continue(v) PROVE IInv'
<1>1. view[v] \in Dialog /\ OfOneFile(view[v]) /\ withdrawn = {}
  BY DialogNow
<1>2. PICK pc \in {"range", "check"} : view' = [view EXCEPT ![v].pc = pc]
  BY DEF Continue
<1> DEFINE d == [view[v] EXCEPT !.pc = pc]
<1>3. view' = [view EXCEPT ![v] = d] /\ UNCHANGED <<corpus, lock, attach, withdrawn>>
  BY <1>2 DEF Continue
<1>4. view[v].rev = 0
  BY DEF Continue, IInv, Authorized, Asking
<1>5. d \in Dialog /\ OfOneFile(d) /\ d.rev = 0
  BY <1>1, <1>4 DEF Dialog, OfOneFile, Asking
<1> HIDE DEF d
<1> QED BY <1>1, <1>3, <1>4, <1>5, DialogStep

LEMMA CloseInv == ASSUME IInv, NEW v \in Viewers, Close(v) PROVE IInv'
<1>1. view' = [view EXCEPT ![v] = Closed] /\ UNCHANGED <<corpus, lock, attach, withdrawn>>
  BY DEF Close
<1>2. view[v].rev = 0
  BY DEF Close, IInv, Authorized, Asking
<1> QED BY <1>1, <1>2, DialogNow, ClosedDialog, DialogStep

----------------------------------------------------------------------------
LEMMA StepInv == IInv /\ [Next]_vars => IInv'
<1> SUFFICES ASSUME IInv, [Next]_vars PROVE IInv'
  OBVIOUS
<1>1. CASE Teaching
  BY <1>1, CaptureInv, IndexInv, PublishInv, RemoveInv, AttachReadInv, AttachLockInv, AttachStoreInv
     DEF Teaching, Attaching
<1>2. CASE \E sources \in (SUBSET Live) \ {{}} : Answer(sources)
  BY <1>2, AnswerInv
<1>3. CASE ReadHistory
  BY <1>3, ReadHistoryInv
<1>4. CASE \E v \in Viewers : Reading(v)
  BY <1>4, OpenInv, AuthorizeInv, RefuseInv, RespondInv, ContinueInv, CloseInv DEF Reading, Request
<1>5. CASE UNCHANGED vars
  BY <1>5 DEF vars, IInv, Types, TypeOK, Locked, Authorized, Live, NothingWithdrawnRead, RoomLeft,
              Fits, PartsMatch
<1> QED BY <1>1, <1>2, <1>3, <1>4, <1>5 DEF Next

THEOREM Invariance == Spec => []IInv
BY InitInv, StepInv, PTL DEF Spec

\* The rows and the dialogs keep their columns and parts.
THEOREM TypeCorrect == Spec => []TypeOK
<1>1. IInv => TypeOK
  BY DEF IInv, Types
<1> QED BY <1>1, Invariance, PTL

\* Nothing withdrawn is read: a request that holds the knowledge lock found what
\* it reads published, and nobody publishes, withdraws, replaces or removes
\* without the lock; history decides in one query.
THEOREM OnlyPublishedRead == Spec => []NothingWithdrawnRead
<1>1. IInv => NothingWithdrawnRead
  BY DEF IInv
<1> QED BY <1>1, Invariance, PTL

\* A dialog has parts of files of one length only, and those of a reference of
\* one revision only.
THEOREM PartsOfOneFile == Spec => []OneFile
<1>1. IInv => OneFile
  <2> SUFFICES ASSUME IInv, NEW v \in Viewers,
                      NEW m \in DOMAIN view[v].parts, NEW n \in DOMAIN view[v].parts,
                      view[v].parts[m] # 0, view[v].parts[n] # 0
               PROVE  \/ view[v].parts[m] = view[v].parts[n]
                      \/ /\ view[v].of[1] = "document"
                         /\ Blocks[view[v].parts[m]] = Blocks[view[v].parts[n]]
    BY DEF OneFile
  <2>1. view[v] \in Dialog /\ OfOneFile(view[v])
    BY DialogNow
  <2> QED BY <2>1 DEF Dialog, OfOneFile
<1> QED BY <1>1, Invariance, PTL

\* The originals fit into the capacity: whoever adds one found room for it and
\* holds the lock until it is stored.
THEOREM OriginalsFit == Spec => []WithinCapacity
<1>1. IInv => WithinCapacity
  BY CapacityIs DEF IInv
<1> QED BY <1>1, Invariance, PTL

-----------------------------------------------------------------------------
(* The locks of the transactions that meet on a subject (LockOrder): what is   *)
(* published, captured and answered is deleted with it.                        *)

\* Rows are locked in order, and none is left out.
LEMMA InOrderCovers ==
  ASSUME NEW S, S \subseteq Nat, IsFiniteSet(S)
  PROVE  /\ Cardinality(S) \in Nat /\ DOMAIN InOrder(S) = 1 .. Cardinality(S)
         /\ \A i \in S : \E n \in 1 .. Cardinality(S) : InOrder(S)[n] = i
<1> DEFINE below(i) == {j \in S : j < i}
           Kth(n) == CHOOSE i \in S : Cardinality(below(i)) = n - 1
           ranks == [i \in S |-> Cardinality(below(i))]
           T == {n \in 0 .. Cardinality(S) : \A i \in S : ranks[i] # n}
<1>1. Cardinality(S) \in Nat
  BY FS_CardinalityType
<1>2. ASSUME NEW i \in S
      PROVE  /\ IsFiniteSet(below(i)) /\ ranks[i] \in 0 .. Cardinality(S) - 1
             /\ ranks[i] = Cardinality(below(i))
  <2>1. below(i) \subseteq S /\ i \in S /\ i \notin below(i) /\ below(i) # S
    OBVIOUS
  <2> HIDE DEF below
  <2>2. IsFiniteSet(below(i)) /\ Cardinality(below(i)) <= Cardinality(S)
    BY <2>1, FS_Subset
  <2>3. Cardinality(below(i)) # Cardinality(S)
    BY <2>1, FS_Subset
  <2>4. Cardinality(below(i)) \in Nat
    BY <2>2, FS_CardinalityType
  <2> QED BY <1>1, <2>2, <2>3, <2>4
<1>3. ASSUME NEW i \in S, NEW k \in S, k < i
      PROVE  ranks[k] # ranks[i]
  <2>0. i \in Nat /\ k \in Nat
    OBVIOUS
  <2>1. below(k) \subseteq below(i) /\ k \in below(i) /\ k \notin below(k)
    <3>1. \A j \in S : j < k => j < i
      BY <1>3, <2>0
    <3>2. k < i /\ ~(k < k)
      BY <1>3, <2>0
    <3> QED BY <3>1, <3>2, Zenon
  <2>2. IsFiniteSet(below(i)) /\ ranks[k] = Cardinality(below(k)) /\ ranks[i] = Cardinality(below(i))
    BY <1>2
  <2> HIDE DEF below, ranks
  <2> QED BY <2>1, <2>2, FS_Subset
<1>4. InOrder(S) = [n \in 1 .. Cardinality(S) |-> CHOOSE i \in S : ranks[i] = n - 1]
  <2>1. InOrder(S) = [n \in 1 .. Cardinality(S) |-> CHOOSE i \in S : Cardinality(below(i)) = n - 1]
    BY DEF InOrder
  <2>2. \A i \in S : Cardinality(below(i)) = ranks[i]
    OBVIOUS
  <2>3. ASSUME NEW n
        PROVE  (CHOOSE i \in S : Cardinality(below(i)) = n - 1) = CHOOSE i \in S : ranks[i] = n - 1
    <3> HIDE DEF below, ranks
    <3> QED BY <2>2, Zenon
  <2> HIDE DEF below, ranks
  <2> QED BY <2>1, <2>3
<1> DEFINE nth(n) == CHOOSE i \in S : ranks[i] = n - 1
<1>5. ASSUME NEW i \in S
      PROVE  /\ ranks[i] + 1 \in 1 .. Cardinality(S)
             /\ InOrder(S)[ranks[i] + 1] = i
  <2>1. ranks[i] + 1 \in 1 .. Cardinality(S) /\ (ranks[i] + 1) - 1 = ranks[i]
    <3> HIDE DEF below, ranks
    <3> QED BY <1>1, <1>2
  <2> HIDE DEF ranks
  <2>2. nth(ranks[i] + 1) \in S /\ ranks[nth(ranks[i] + 1)] = ranks[i]
    BY <2>1
  <2> HIDE DEF nth
  <2>3. nth(ranks[i] + 1) = i
    <3>1. ~(nth(ranks[i] + 1) < i) /\ ~(i < nth(ranks[i] + 1))
      BY <1>3, <2>2
    <3>2. nth(ranks[i] + 1) \in Nat /\ i \in Nat
      BY <2>2
    <3> QED BY <3>1, <3>2
  <2>4. InOrder(S)[ranks[i] + 1] = nth(ranks[i] + 1)
    BY <1>4, <2>1 DEF nth
  <2> QED BY <2>1, <2>3, <2>4
<1>6. DOMAIN InOrder(S) = 1 .. Cardinality(S)
  <2> HIDE DEF ranks
  <2> QED BY <1>4
<1> HIDE DEF ranks
<1> QED BY <1>1, <1>5, <1>6

LEMMA Concatenation ==
  ASSUME NEW Z, NEW s \in Seq(Z), NEW t \in Seq(Z)
  PROVE  /\ s \o t \in Seq(Z) /\ Len(s) \in Nat /\ Len(t) \in Nat
         /\ Len(s \o t) = Len(s) + Len(t)
         /\ \A n \in 1 .. Len(s) : (s \o t)[n] = s[n]
         /\ \A n \in 1 .. Len(t) : (s \o t)[Len(s) + n] = t[n]
OBVIOUS

\* The sequence s contains every one of rows, locked exclusively.
Covers(s, rows) == \A row \in rows : \E n \in 1 .. Len(s) : s[n] = Exclusive(row)

LEMMA LockAllJobs ==
  ASSUME Jobs \subseteq Nat, IsFiniteSet(Jobs)
  PROVE  \E X : /\ LockAll(Jobs, JobRow) \in Seq(X)
                /\ Covers(LockAll(Jobs, JobRow), {JobRow(j) : j \in Jobs})
<1> DEFINE s == LockAll(Jobs, JobRow)
           X == {Exclusive(JobRow(InOrder(Jobs)[n])) : n \in 1 .. Cardinality(Jobs)}
<1>1. s = [n \in 1 .. Cardinality(Jobs) |-> Exclusive(JobRow(InOrder(Jobs)[n]))]
  BY DEF LockAll
<1>2. Cardinality(Jobs) \in Nat
  BY InOrderCovers
<1> HIDE DEF s
<1>3. s \in Seq(X) /\ Len(s) = Cardinality(Jobs)
  BY <1>1, <1>2
<1>4. ASSUME NEW j \in Jobs
      PROVE  \E n \in 1 .. Len(s) : s[n] = Exclusive(JobRow(j))
  <2>1. PICK n \in 1 .. Cardinality(Jobs) : InOrder(Jobs)[n] = j
    BY InOrderCovers
  <2> QED BY <1>1, <1>3, <2>1
<1>5. Covers(s, {JobRow(j) : j \in Jobs})
  BY <1>4 DEF Covers
<1> QED BY <1>3, <1>5 DEF s

LEMMA LockAllAnswers ==
  ASSUME Answers \subseteq Nat, IsFiniteSet(Answers)
  PROVE  \E X : /\ LockAll(Answers, AnswerRow) \in Seq(X)
                /\ Covers(LockAll(Answers, AnswerRow), {AnswerRow(a) : a \in Answers})
<1> DEFINE s == LockAll(Answers, AnswerRow)
           X == {Exclusive(AnswerRow(InOrder(Answers)[n])) : n \in 1 .. Cardinality(Answers)}
<1>1. s = [n \in 1 .. Cardinality(Answers) |-> Exclusive(AnswerRow(InOrder(Answers)[n]))]
  BY DEF LockAll
<1>2. Cardinality(Answers) \in Nat
  BY InOrderCovers
<1> HIDE DEF s
<1>3. s \in Seq(X) /\ Len(s) = Cardinality(Answers)
  BY <1>1, <1>2
<1>4. ASSUME NEW a \in Answers
      PROVE  \E n \in 1 .. Len(s) : s[n] = Exclusive(AnswerRow(a))
  <2>1. PICK n \in 1 .. Cardinality(Answers) : InOrder(Answers)[n] = a
    BY InOrderCovers
  <2> QED BY <1>1, <1>3, <2>1
<1>5. Covers(s, {AnswerRow(a) : a \in Answers})
  BY <1>4 DEF Covers
<1> QED BY <1>3, <1>5 DEF s

\* The rows of all work are locked before the deletion looks at them.
LEMMA WorkRowsCover ==
  \E X : WorkRows \in Seq(X) /\ Covers(WorkRows, Items)
<1> DEFINE s == LockAll(Jobs, JobRow)
           t == LockAll(Answers, AnswerRow)
<1>1. /\ Jobs \subseteq Nat /\ IsFiniteSet(Jobs)
      /\ Answers \subseteq Nat /\ IsFiniteSet(Answers)
  BY LockAssumption
<1>2. PICK X : s \in Seq(X) /\ Covers(s, {JobRow(j) : j \in Jobs})
  BY <1>1, LockAllJobs
<1>3. PICK Y : t \in Seq(Y) /\ Covers(t, {AnswerRow(a) : a \in Answers})
  BY <1>1, LockAllAnswers
<1>4. WorkRows = s \o t
  BY DEF WorkRows
<1> HIDE DEF s, t
<1>5. s \in Seq(X \cup Y) /\ t \in Seq(X \cup Y)
  BY <1>2, <1>3
<1>6. /\ s \o t \in Seq(X \cup Y) /\ Len(s \o t) = Len(s) + Len(t)
      /\ \A n \in 1 .. Len(s) : (s \o t)[n] = s[n]
      /\ \A n \in 1 .. Len(t) : (s \o t)[Len(s) + n] = t[n]
  BY <1>5
<1>7. Len(s) \in Nat /\ Len(t) \in Nat
  BY <1>5
<1>8. Covers(s \o t, {JobRow(j) : j \in Jobs})
  <2>1. \A n \in 1 .. Len(s) : n \in 1 .. Len(s \o t)
    BY <1>6, <1>7
  <2> QED BY <1>2, <1>6, <2>1 DEF Covers
<1>9. Covers(s \o t, {AnswerRow(a) : a \in Answers})
  <2>1. \A n \in 1 .. Len(t) : Len(s) + n \in 1 .. Len(s \o t)
    BY <1>6, <1>7
  <2> QED BY <1>3, <1>6, <2>1 DEF Covers
<1>10. Covers(s \o t, Items)
  BY <1>8, <1>9 DEF Covers, Items
<1> QED BY <1>4, <1>6, <1>10

LEMMA Cascades ==
  ASSUME Jobs \subseteq Nat, IsFiniteSet(Jobs), Answers \subseteq Nat, IsFiniteSet(Answers)
  PROVE  \E X : Cascade \in Seq(X)
<1> DEFINE s == LockAll(Jobs, Source)
           t == LockAll(Answers, Thread)
           X == {Exclusive(Source(InOrder(Jobs)[n])) : n \in 1 .. Cardinality(Jobs)}
           Y == {Exclusive(Thread(InOrder(Answers)[n])) : n \in 1 .. Cardinality(Answers)}
           Z == X \cup Y \cup {Exclusive(Document)}
<1>1. /\ s = [n \in 1 .. Cardinality(Jobs) |-> Exclusive(Source(InOrder(Jobs)[n]))]
      /\ t = [n \in 1 .. Cardinality(Answers) |-> Exclusive(Thread(InOrder(Answers)[n]))]
  BY DEF LockAll
<1>2. Cardinality(Jobs) \in Nat /\ Cardinality(Answers) \in Nat
  BY InOrderCovers
<1>3. Cascade = <<Exclusive(Document)>> \o s \o t
  BY DEF Cascade
<1> HIDE DEF s, t
<1>4. s \in Seq(Z) /\ t \in Seq(Z) /\ <<Exclusive(Document)>> \in Seq(Z)
  <2> DEFINE S(n) == Exclusive(Source(InOrder(Jobs)[n]))
             T(n) == Exclusive(Thread(InOrder(Answers)[n]))
  <2>1. /\ \A n \in 1 .. Cardinality(Jobs) : S(n) \in Z
        /\ \A n \in 1 .. Cardinality(Answers) : T(n) \in Z
    OBVIOUS
  <2>2. /\ s = [n \in 1 .. Cardinality(Jobs) |-> S(n)]
        /\ t = [n \in 1 .. Cardinality(Answers) |-> T(n)]
    BY <1>1
  <2>3. Exclusive(Document) \in Z
    OBVIOUS
  <2> HIDE DEF S, T, Z
  <2>4. s \in Seq(Z)
    BY <1>2, <2>1, <2>2
  <2>5. t \in Seq(Z)
    BY <1>2, <2>1, <2>2
  <2>6. <<Exclusive(Document)>> \in Seq(Z)
    BY <2>3
  <2> QED BY <2>4, <2>5, <2>6
<1> HIDE DEF Z
<1>5. Cascade \in Seq(Z)
  BY <1>3, <1>4
<1> QED BY <1>5

\* The deletion of the subject holds them all once it has looked.
LEMMA DeletionHolds ==
  /\ Len(WorkRows) \in Nat /\ Len(DeleteSubject) \in Nat
  /\ Len(DeleteSubject) >= 2 + Len(WorkRows)
  /\ \A row \in Items : \E n \in 1 .. 2 + Len(WorkRows) :
        DeleteSubject[n] = Exclusive(row)
<1> DEFINE w == WorkRows
           a == <<Knowledge, Exclusive(Subject)>>
           c == Cascade
<1>1. PICK X : w \in Seq(X) /\ Covers(w, Items)
  BY WorkRowsCover
<1>2. PICK Y : c \in Seq(Y)
  BY Cascades, LockAssumption
<1>3. DeleteSubject = a \o w \o c
  BY DEF DeleteSubject
<1> DEFINE Z == X \cup Y \cup {Knowledge, Exclusive(Subject)}
<1>4. w \in Seq(Z) /\ c \in Seq(Z) /\ a \in Seq(Z) /\ Len(a) = 2
  BY <1>1, <1>2
<1> HIDE DEF w, a, c, Z
<1>5. /\ a \o w \in Seq(Z) /\ Len(a \o w) = 2 + Len(w)
      /\ \A n \in 1 .. Len(w) : (a \o w)[2 + n] = w[n]
  <2>1. /\ a \o w \in Seq(Z) /\ Len(a \o w) = Len(a) + Len(w)
        /\ \A n \in 1 .. Len(w) : (a \o w)[Len(a) + n] = w[n]
    <3>1. a \in Seq(Z) /\ w \in Seq(Z)
      BY <1>4
    <3> QED BY ONLY <3>1, Concatenation
  <2> QED BY <1>4, <2>1
<1>6. /\ Len((a \o w) \o c) = Len(a \o w) + Len(c) /\ Len(c) \in Nat /\ Len(w) \in Nat
      /\ \A n \in 1 .. Len(a \o w) : ((a \o w) \o c)[n] = (a \o w)[n]
  <2> DEFINE b == a \o w
  <2>1. b \in Seq(Z) /\ c \in Seq(Z) /\ w \in Seq(Z)
    BY <1>4, <1>5
  <2> HIDE DEF b
  <2>2. /\ Len(b \o c) = Len(b) + Len(c) /\ Len(c) \in Nat
        /\ \A n \in 1 .. Len(b) : (b \o c)[n] = b[n]
    BY <2>1, Concatenation
  <2>3. Len(w) \in Nat
    BY <2>1
  <2> QED BY <2>2, <2>3 DEF b
<1>7. ASSUME NEW row \in Items
      PROVE  \E n \in 1 .. 2 + Len(w) : DeleteSubject[n] = Exclusive(row)
  <2>1. PICK n \in 1 .. Len(w) : w[n] = Exclusive(row)
    BY <1>1 DEF Covers
  <2>2. 2 + n \in 1 .. 2 + Len(w)
    BY <1>6
  <2> QED BY <1>3, <1>5, <1>6, <2>1, <2>2
<1> QED BY <1>3, <1>5, <1>6, <1>7 DEF w

-----------------------------------------------------------------------------
(* The invariant                                                           *)

\* The variables have their types; a session is idle or has taken some of the
\* locks of its transaction.
LockTypes ==
  /\ status \in [Items -> {"awaiting", "queued", "running", "idle"}]
  /\ gone \in BOOLEAN /\ DOMAIN tx = Tx
  /\ \A t \in Tx :
        \/ tx[t] = Idle
        \/ /\ tx[t] \in [kind : Kinds, item : ItemsOf(tx[t].kind), taken : Nat]

\* Sessions hold no locks that are in each other's way.
LocksAgree ==
  \A t, u \in Tx : t # u =>
     \A h \in Held(t), l \in Held(u) : h.row = l.row => ~Conflict(h.mode, l.mode)

Claims == {"claim", "answer claim"}

\* A deletion that has looked keeps the subject quiet, and what a claim holds
\* when it is complete no deletion holds.
DeletionAlone ==
  /\ \A t \in Tx : tx[t].kind = "delete subject" /\ tx[t].taken >= 2 + Len(WorkRows) => Quiet
  /\ gone => \A t \in Tx : tx[t].kind \in Claims => ~Complete(t)
  /\ NoWorkWithoutSubject

LockInv == LockTypes /\ LocksAgree /\ DeletionAlone

\* A session that is idle or begins holds nothing, and one that goes on holds one
\* lock more.
LEMMA Holding ==
  ASSUME NEW t \in Tx, LockTypes
  PROVE  /\ tx[t].taken \in Nat
         /\ tx[t].taken = 0 => Held(t) = {}
         /\ Held(t) = {Steps(t)[n] : n \in 1 .. tx[t].taken}
<1>1. tx[t].taken \in Nat
  BY DEF LockTypes, Idle
<1>2. Held(t) = IF tx[t].taken = 0 THEN {} ELSE {Steps(t)[n] : n \in 1 .. tx[t].taken}
  BY DEF Held
<1>3. tx[t].taken = 0 => 1 .. tx[t].taken = {}
  OBVIOUS
<1> QED BY <1>1, <1>2, <1>3

LEMMA KindsKnown ==
  /\ "none" \notin Kinds
  /\ \A kind \in Kinds : kind \in OfJob \cup OfAnswer \cup OfAll
  /\ "claim" \in OfJob /\ "answer claim" \notin OfJob
  /\ "delete subject" \notin OfJob /\ "delete subject" \notin OfAnswer
BY LockAssumption DEF OfJob, OfAnswer, OfAll

\* The program of a running session.
LEMMA StepsOf ==
  ASSUME LockTypes, NEW t \in Tx, tx[t].kind # "none"
  PROVE  /\ tx[t] \in [kind : Kinds, item : ItemsOf(tx[t].kind), taken : Nat]
         /\ Steps(t) = Program(tx[t].kind, tx[t].item)
<1>1. tx[t] # Idle
  BY DEF Idle
<1>2. tx[t] \in [kind : Kinds, item : ItemsOf(tx[t].kind), taken : Nat]
  BY <1>1 DEF LockTypes
<1>3. <<tx[t].kind, tx[t].item>> \in UNION {{kind} \X ItemsOf(kind) : kind \in Kinds}
  <2>1. tx[t].kind \in Kinds /\ tx[t].item \in ItemsOf(tx[t].kind)
    BY <1>2
  <2> QED BY <2>1
<1> DEFINE p == <<tx[t].kind, tx[t].item>>
<1>4. p[1] = tx[t].kind /\ p[2] = tx[t].item
  OBVIOUS
<1>5. Steps(t) = Programs[p]
  BY DEF Steps
<1> HIDE DEF p
<1>6. Programs[p] = Program(p[1], p[2])
  BY <1>3 DEF Programs, p
<1> QED BY <1>2, <1>4, <1>5, <1>6

\* The deletion and the claims.
LEMMA DeletionSteps ==
  ASSUME LockTypes, NEW t \in Tx, tx[t].kind = "delete subject"
  PROVE  Steps(t) = DeleteSubject
<1>1. Program("delete subject", tx[t].item) = DeleteSubject
  BY DEF Program
<1> QED BY <1>1, StepsOf

LEMMA ClaimSteps ==
  ASSUME LockTypes, NEW t \in Tx, tx[t].kind \in Claims
  PROVE  /\ Own(t) \in Items
         /\ Complete(t) => SkipLocked(Own(t)) \in Held(t)
<1>1. CASE tx[t].kind = "claim"
  <2>1. Program("claim", tx[t].item) = <<Admission, SkipLocked(JobRow(tx[t].item))>>
    BY DEF Program, Claim
  <2>2. Steps(t) = <<Admission, SkipLocked(JobRow(tx[t].item))>>
    BY <1>1, <2>1, StepsOf
  <2>3. Own(t) = JobRow(tx[t].item)
    BY <1>1, KindsKnown DEF Own
  <2>4. tx[t].item \in Jobs
    BY <1>1, StepsOf, KindsKnown DEF ItemsOf
  <2>5. Complete(t) => SkipLocked(Own(t)) \in Held(t)
    BY <2>2, <2>3, Holding DEF Complete
  <2> QED BY <2>3, <2>4, <2>5 DEF Items
<1>2. CASE tx[t].kind = "answer claim"
  <2>1. Program("answer claim", tx[t].item) = <<SkipLocked(AnswerRow(tx[t].item))>>
    BY DEF Program, AnswerClaim
  <2>2. Steps(t) = <<SkipLocked(AnswerRow(tx[t].item))>>
    BY <1>2, <2>1, StepsOf
  <2>3. Own(t) = AnswerRow(tx[t].item)
    BY <1>2, KindsKnown DEF Own
  <2>4. tx[t].item \in Answers
    BY <1>2, StepsOf, KindsKnown DEF ItemsOf, OfAnswer
  <2>5. Complete(t) => SkipLocked(Own(t)) \in Held(t)
    BY <2>2, <2>3, Holding DEF Complete
  <2> QED BY <2>3, <2>4, <2>5 DEF Items
<1> QED BY <1>1, <1>2 DEF Claims

\* A deletion that has looked and a claim that is complete exclude each other.
LEMMA ClaimAlone ==
  ASSUME LockTypes, LocksAgree, NEW t \in Tx, NEW u \in Tx,
         tx[t].kind = "delete subject", tx[t].taken >= 2 + Len(WorkRows),
         tx[u].kind \in Claims, Complete(u)
  PROVE  FALSE
<1>1. t # u
  BY DEF Claims
<1>2. Own(u) \in Items /\ SkipLocked(Own(u)) \in Held(u)
  BY ClaimSteps
<1>3. Exclusive(Own(u)) \in Held(t)
  <2>1. PICK n \in 1 .. 2 + Len(WorkRows) : DeleteSubject[n] = Exclusive(Own(u))
    BY <1>2, DeletionHolds
  <2>2. tx[t].taken \in Nat /\ Len(WorkRows) \in Nat
    BY DeletionHolds, Holding
  <2>3. n \in 1 .. tx[t].taken
    BY ONLY <2>2, tx[t].taken >= 2 + Len(WorkRows), n \in 1 .. 2 + Len(WorkRows)
  <2> QED BY <2>1, <2>3, DeletionSteps, Holding
<1>4. ~Conflict(Exclusive(Own(u)).mode, SkipLocked(Own(u)).mode)
  <2>1. Exclusive(Own(u)).row = SkipLocked(Own(u)).row
    BY DEF Exclusive, SkipLocked
  <2> QED BY <1>1, <1>2, <1>3, <2>1 DEF LocksAgree
<1> QED BY <1>4 DEF Conflict, Exclusive, SkipLocked

-----------------------------------------------------------------------------
(* What the steps do                                                       *)

\* Nothing changes for a session whose record stays the same,
LEMMA SameSession ==
  ASSUME NEW u, tx'[u] = tx[u]
  PROVE  Held(u)' = Held(u) /\ Complete(u)' = Complete(u) /\ Steps(u)' = Steps(u)
<1>1. Steps(u)' = Steps(u)
  BY DEF Steps, Programs, Program
<1> QED BY <1>1 DEF Held, Complete

\* and one that begins or ends gets in nobody's way.
LEMMA EmptyHanded ==
  ASSUME LockTypes, LocksAgree, NEW t \in Tx,
         LockTypes', tx'[t].taken = 0, \A u \in Tx : u # t => tx'[u] = tx[u]
  PROVE  LocksAgree'
<1>1. Held(t)' = {}
  <2>1. tx'[t].taken = 0 => Held(t)' = {}
    BY DEF Held
  <2> QED BY <2>1
<1>2. \A u \in Tx : u # t => Held(u)' = Held(u)
  BY SameSession
<1>3. \A m, n : Conflict(m, n)' = Conflict(m, n)
  BY DEF Conflict
<1> QED BY <1>1, <1>2 DEF LocksAgree, Conflict

\* A session takes the lock that is in nobody's way.
LEMMA OneMoreLock ==
  ASSUME LockTypes, LocksAgree, NEW t \in Tx, LockTypes',
         Running(t), ~Complete(t), Blockers(t) = {},
         tx'[t] = [tx[t] EXCEPT !.taken = @ + 1], \A u \in Tx : u # t => tx'[u] = tx[u]
  PROVE  LocksAgree'
<1>1. tx[t].taken \in Nat /\ tx'[t].taken = tx[t].taken + 1
      /\ tx'[t].kind = tx[t].kind /\ tx'[t].item = tx[t].item
  BY DEF LockTypes, Idle
<1>2. Steps(t)' = Steps(t)
  BY <1>1 DEF Steps, Programs, Program
<1>3. ASSUME NEW h \in Held(t)'
      PROVE  h \in Held(t) \/ h = Wanted(t)
  <2>1. Held(t)' = {Steps(t)[n] : n \in 1 .. tx[t].taken + 1}
    BY <1>1, <1>2 DEF Held
  <2>2. PICK n \in 1 .. tx[t].taken + 1 : h = Steps(t)[n]
    BY <1>3, <2>1
  <2>3. CASE n = tx[t].taken + 1
    BY <2>2, <2>3 DEF Wanted
  <2>4. CASE n # tx[t].taken + 1
    <3>1. n \in 1 .. tx[t].taken
      BY <1>1, <2>2, <2>4
    <3> QED BY <2>2, <3>1, Holding
  <2> QED BY <2>3, <2>4
<1>4. \A u \in Tx : u # t => Held(u)' = Held(u)
  BY SameSession
<1>5. ASSUME NEW u \in Tx, u # t, NEW h \in Held(u), h.row = Wanted(t).row
      PROVE  ~Conflict(h.mode, Wanted(t).mode)
  <2>1. Holders(t, Wanted(t)) = {}
    BY DEF Blockers
  <2> QED BY <1>5, <2>1 DEF Holders
<1>6. \A m, n : Conflict(m, n) <=> Conflict(n, m)
  BY DEF Conflict
<1>7. ASSUME NEW u \in Tx, NEW v \in Tx, u # v, NEW h \in Held(u)', NEW l \in Held(v)',
             h.row = l.row
      PROVE  ~Conflict(h.mode, l.mode)
  <2>1. CASE u # t /\ v # t
    BY <1>4, <1>7, <2>1 DEF LocksAgree
  <2>2. CASE u = t
    <3>1. v # t /\ l \in Held(v) /\ (h \in Held(t) \/ h = Wanted(t))
      BY <1>3, <1>4, <1>7, <2>2
    <3>2. CASE h \in Held(t)
      BY <1>7, <2>2, <3>1, <3>2 DEF LocksAgree
    <3>3. CASE h = Wanted(t)
      BY <1>5, <1>6, <1>7, <3>1, <3>3
    <3> QED BY <3>1, <3>2, <3>3
  <2>3. CASE v = t
    <3>1. u # t /\ h \in Held(u) /\ (l \in Held(t) \/ l = Wanted(t))
      BY <1>3, <1>4, <1>7, <2>3
    <3>2. CASE l \in Held(t)
      BY <1>7, <2>3, <3>1, <3>2 DEF LocksAgree
    <3>3. CASE l = Wanted(t)
      BY <1>5, <1>7, <3>1, <3>3
    <3> QED BY <3>1, <3>2, <3>3
  <2> QED BY <1>7, <2>1, <2>2, <2>3
<1> QED BY <1>7 DEF LocksAgree, Conflict

\* Work that a transaction puts to rest or in the queue is not running: only a
\* claim makes it run.
LEMMA Afterwards ==
  ASSUME LockTypes, NEW t \in Tx, tx[t].kind \in Kinds, NEW s \in After(tx[t].kind)
  PROVE  /\ s \in {"queued", "running", "idle"}
         /\ s = "running" => tx[t].kind \in Claims
BY DEF After, Claims

LEMMA LockStart ==
  ASSUME LockInit
  PROVE  LockInv
<1>1. LockTypes
  BY DEF LockInit, LockTypes
<1>2. \A t \in Tx : Held(t) = {}
  BY DEF LockInit, Idle, Held
<1>3. DeletionAlone
  BY DEF LockInit, Idle, DeletionAlone, NoWorkWithoutSubject
<1> QED BY <1>1, <1>2, <1>3 DEF LockInv, LocksAgree

\* A transaction begins.
LEMMA BeginKeeps ==
  ASSUME LockInv, NEW t \in Tx, Begin(t)
  PROVE  LockInv'
<1>1. PICK kind \in Kinds :
         \E i \in ItemsOf(kind) :
            tx' = [tx EXCEPT ![t] = [kind |-> kind, item |-> i, taken |-> 0]]
  BY DEF Begin
<1>a. PICK i \in ItemsOf(kind) :
         tx' = [tx EXCEPT ![t] = [kind |-> kind, item |-> i, taken |-> 0]]
  BY <1>1
<1>2. ~gone /\ UNCHANGED <<status, gone>>
  BY DEF Begin
<1>3. tx'[t] = [kind |-> kind, item |-> i, taken |-> 0] /\ \A u \in Tx : u # t => tx'[u] = tx[u]
  BY <1>a DEF LockInv, LockTypes
<1>4. LockTypes'
  <2>1. \A k : ItemsOf(k)' = ItemsOf(k)
    BY DEF ItemsOf
  <2>2. DOMAIN tx' = Tx
    BY <1>a DEF LockInv, LockTypes
  <2> QED BY <1>2, <1>3, <2>1, <2>2 DEF LockInv, LockTypes, ItemsOf
<1>5. LocksAgree'
  BY <1>3, <1>4, EmptyHanded DEF LockInv
<1>6. DeletionAlone'
  <2>1. Len(WorkRows) \in Nat
    BY DeletionHolds
  <2>2. Quiet' = Quiet /\ WorkRows' = WorkRows
    BY <1>2 DEF Quiet
  <2>3. \A u \in Tx : tx'[u].kind = "delete subject" /\ tx'[u].taken >= 2 + Len(WorkRows)
           => tx'[u] = tx[u]
    <3>1. ~(tx'[t].taken >= 2 + Len(WorkRows))
      BY <1>3, <2>1
    <3> QED BY <1>3, <3>1
  <2> QED BY <1>2, <2>2, <2>3 DEF LockInv, DeletionAlone, NoWorkWithoutSubject
<1> QED BY <1>4, <1>5, <1>6 DEF LockInv

\* A session lets go of its locks and nothing else changes: a transaction that
\* stops, or that the database ends.
LEMMA ReleaseKeeps ==
  ASSUME LockInv, NEW t \in Tx, Release(t), UNCHANGED <<status, gone>>
  PROVE  LockInv'
<1>1. tx'[t] = Idle /\ \A u \in Tx : u # t => tx'[u] = tx[u]
  BY DEF Release, LockInv, LockTypes
<1>2. LockTypes'
  <2>1. DOMAIN tx' = Tx
    BY DEF Release, LockInv, LockTypes
  <2> QED BY <1>1, <2>1 DEF LockInv, LockTypes, ItemsOf, Idle
<1>3. LocksAgree'
  BY <1>1, <1>2, EmptyHanded DEF LockInv, Idle
<1>4. DeletionAlone'
  <2>1. tx'[t].kind = "none"
    BY <1>1 DEF Idle
  <2>2. Quiet' = Quiet /\ WorkRows' = WorkRows
    BY DEF Quiet
  <2>3. \A u \in Tx : u # t => Complete(u)' = Complete(u)
    BY <1>1, SameSession
  <2> QED BY <1>1, <2>1, <2>2, <2>3 DEF LockInv, DeletionAlone, NoWorkWithoutSubject, Claims
<1> QED BY <1>2, <1>3, <1>4 DEF LockInv

\* A transaction takes its next lock and goes on.
LEMMA TakeKeeps ==
  ASSUME LockInv, NEW t \in Tx, Take(t)
  PROVE  LockInv'
<1>0. /\ Running(t) /\ ~Complete(t) /\ Blockers(t) = {} /\ ~gone /\ GoesOn(t)
      /\ tx' = [tx EXCEPT ![t].taken = @ + 1] /\ UNCHANGED <<status, gone>>
  BY DEF Take
<1>1. tx'[t] = [tx[t] EXCEPT !.taken = @ + 1] /\ \A u \in Tx : u # t => tx'[u] = tx[u]
  BY <1>0 DEF LockInv, LockTypes
<1>2. /\ tx[t] \in [kind : Kinds, item : ItemsOf(tx[t].kind), taken : Nat]
      /\ tx[t].kind # "none"
  BY <1>0, StepsOf DEF Running, LockInv
<1>3. /\ tx'[t].kind = tx[t].kind /\ tx'[t].item = tx[t].item /\ tx'[t].taken = tx[t].taken + 1
      /\ tx[t].taken \in Nat
  BY <1>1, <1>2
<1>4. LockTypes'
  <2>1. DOMAIN tx' = Tx
    BY <1>0 DEF LockInv, LockTypes
  <2>2. tx'[t] \in [kind : Kinds, item : ItemsOf(tx'[t].kind), taken : Nat]
    BY <1>1, <1>2, <1>3
  <2> QED BY <1>0, <1>1, <2>1, <2>2 DEF LockInv, LockTypes, ItemsOf
<1>5. LocksAgree'
  BY <1>0, <1>1, <1>4, OneMoreLock DEF LockInv
<1>6. DeletionAlone'
  <2>1. Quiet' = Quiet /\ WorkRows' = WorkRows
    BY <1>0 DEF Quiet
  <2>2. ASSUME tx'[t].kind = "delete subject", tx'[t].taken >= 2 + Len(WorkRows)
        PROVE  Quiet
    <3>1. CASE tx[t].taken >= 2 + Len(WorkRows)
      BY <1>3, <2>2, <3>1 DEF LockInv, DeletionAlone
    <3>2. CASE ~(tx[t].taken >= 2 + Len(WorkRows))
      <4>1. Len(WorkRows) \in Nat
        BY DeletionHolds
      <4>2. tx[t].taken + 1 = 2 + Len(WorkRows)
        <5> DEFINE n == tx[t].taken
                   w == Len(WorkRows)
        <5>1. n \in Nat /\ w \in Nat /\ n + 1 >= 2 + w /\ ~(n >= 2 + w)
          BY <1>3, <2>2, <3>2, <4>1
        <5> HIDE DEF n, w
        <5>2. n + 1 = 2 + w
          BY ONLY <5>1
        <5> QED BY <5>2 DEF n, w
      <4> QED BY <1>0, <1>3, <2>2, <4>2 DEF GoesOn
    <3> QED BY <3>1, <3>2
  <2>3. ASSUME NEW u \in Tx, tx'[u].kind = "delete subject", tx'[u].taken >= 2 + Len(WorkRows)
        PROVE  Quiet
    <3>1. CASE u = t
      BY <2>2, <2>3, <3>1
    <3>2. CASE u # t
      BY <1>1, <2>3, <3>2 DEF LockInv, DeletionAlone
    <3> QED BY <3>1, <3>2
  <2> QED BY <1>0, <2>1, <2>3 DEF DeletionAlone, NoWorkWithoutSubject
<1> QED BY <1>4, <1>5, <1>6 DEF LockInv

\* A transaction commits: it writes its job, or the subject is gone.
LEMMA CommitKeeps ==
  ASSUME LockInv, NEW t \in Tx, Commit(t)
  PROVE  LockInv'
<1> USE DEF LockInv
<1>0. /\ Running(t) /\ Complete(t) /\ tx' = [tx EXCEPT ![t] = Idle]
      /\ gone' = (gone \/ tx[t].kind = "delete subject")
      /\ \/ status' = status
         \/ \E s \in After(tx[t].kind) : status' = [status EXCEPT ![Own(t)] = s]
  BY DEF Commit, Release
<1>1. tx'[t] = Idle /\ DOMAIN tx' = Tx /\ \A u \in Tx : u # t => tx'[u] = tx[u]
  BY <1>0 DEF LockTypes
<1>2. tx[t] \in [kind : Kinds, item : ItemsOf(tx[t].kind), taken : Nat]
  BY <1>0, StepsOf DEF Running
<1>3. \/ status' = status
      \/ \E s \in {"queued", "running", "idle"} :
            /\ status' = [status EXCEPT ![Own(t)] = s]
            /\ s = "running" => tx[t].kind \in Claims
  BY <1>0, <1>2, Afterwards
<1>4. LockTypes'
  <2>1. status' \in [Items -> {"awaiting", "queued", "running", "idle"}]
    BY <1>3 DEF LockTypes
  <2>2. gone' \in BOOLEAN
    BY <1>0 DEF LockTypes
  <2>3. Items' = Items
    BY DEF Items
  <2> QED BY <1>1, <2>1, <2>2, <2>3 DEF LockTypes, ItemsOf
<1>5. LocksAgree'
  BY <1>1, <1>4, EmptyHanded DEF Idle
<1>6. Quiet /\ tx[t].kind \notin Claims => Quiet'
  <2>1. \A i \in Items : status'[i] = "running" => status[i] = "running" \/ tx[t].kind \in Claims
    BY <1>3 DEF LockTypes
  <2> QED BY <2>1 DEF Quiet
<1>7. tx[t].kind = "delete subject" => Quiet /\ tx[t].taken >= 2 + Len(WorkRows)
  <2>1. ASSUME tx[t].kind = "delete subject" PROVE tx[t].taken >= 2 + Len(WorkRows)
    <3>1. tx[t].taken = Len(DeleteSubject)
      BY <1>0, <2>1, DeletionSteps DEF Complete
    <3> QED BY <3>1, DeletionHolds
  <2> QED BY <2>1 DEF DeletionAlone
<1>8. ASSUME NEW u \in Tx, tx'[u].kind = "delete subject", tx'[u].taken >= 2 + Len(WorkRows)
      PROVE  Quiet'
  <2>0. tx'[t].kind = "none"
    BY <1>1 DEF Idle
  <2>1. u # t /\ tx[u] = tx'[u]
    BY <1>1, <1>8, <2>0
  <2>2. Quiet
    BY <1>8, <2>1 DEF DeletionAlone
  <2>3. tx[t].kind \notin Claims
    BY <1>0, <1>8, <2>1, ClaimAlone
  <2> QED BY <1>6, <2>2, <2>3
<1>9. ASSUME gone', NEW u \in Tx, tx'[u].kind \in Claims PROVE ~Complete(u)'
  <2>1. u # t /\ tx[u] = tx'[u] /\ Complete(u)' = Complete(u)
    <3>0. tx'[t].kind = "none"
      BY <1>1 DEF Idle
    <3>1. u # t
      BY <1>9, <3>0 DEF Claims
    <3> QED BY <1>1, <3>1, SameSession
  <2>2. CASE gone
    BY <1>9, <2>1, <2>2 DEF DeletionAlone
  <2>3. CASE tx[t].kind = "delete subject"
    BY <1>7, <1>9, <2>1, <2>3, ClaimAlone
  <2> QED BY <1>0, <1>9, <2>2, <2>3
<1>10. gone' => Quiet'
  <2>1. CASE gone
    BY <1>0, <1>6, <2>1 DEF DeletionAlone, NoWorkWithoutSubject
  <2>2. CASE tx[t].kind = "delete subject"
    BY <1>6, <1>7, <2>2 DEF Claims
  <2> QED BY <1>0, <2>1, <2>2
<1>11. DeletionAlone'
  <2>1. WorkRows' = WorkRows
    OBVIOUS
  <2> QED BY <1>8, <1>9, <1>10, <2>1 DEF DeletionAlone, NoWorkWithoutSubject
<1> QED BY <1>4, <1>5, <1>11

LEMMA LockStep ==
  ASSUME LockInv, [LockNext]_lock_vars
  PROVE  LockInv'
<1>1. CASE UNCHANGED lock_vars
  <2>1. status' = status /\ gone' = gone /\ tx' = tx
    BY <1>1 DEF lock_vars
  <2>2. \A t : Held(t)' = Held(t) /\ Complete(t)' = Complete(t)
    BY <2>1, SameSession
  <2>3. Quiet' = Quiet /\ WorkRows' = WorkRows
    BY <2>1 DEF Quiet
  <2>4. LockTypes'
    BY <2>1 DEF LockInv, LockTypes, ItemsOf
  <2>5. LocksAgree'
    BY <2>2 DEF LockInv, LocksAgree, Conflict
  <2>6. DeletionAlone'
    BY <2>1, <2>2, <2>3 DEF LockInv, DeletionAlone, NoWorkWithoutSubject
  <2> QED BY <2>4, <2>5, <2>6 DEF LockInv
<1>2. ASSUME NEW t \in Tx, Begin(t) PROVE LockInv'
  BY <1>2, BeginKeeps
<1>3. ASSUME NEW t \in Tx, Take(t) PROVE LockInv'
  BY <1>3, TakeKeeps
<1>4. ASSUME NEW t \in Tx, Stop(t) PROVE LockInv'
  BY <1>4, ReleaseKeeps DEF Stop
<1>5. ASSUME NEW t \in Tx, Commit(t) PROVE LockInv'
  BY <1>5, CommitKeeps
<1>6. CASE Abort
  <2>1. PICK t \in Tx : Release(t) /\ UNCHANGED <<status, gone>>
    BY <1>6 DEF Abort, Cycles
  <2> QED BY <2>1, ReleaseKeeps
<1> QED BY <1>1, <1>2, <1>3, <1>4, <1>5, <1>6 DEF LockNext

\* For any jobs, questions and sessions and whatever transactions meet: no job is
\* claimed when the deletion of its subject commits or later (delete_subject,
\* _claim_one).
THEOREM NoOrphanedWork == LockSpec => []NoWorkWithoutSubject
<1>1. LockInit => LockInv
  BY LockStart
<1>2. LockInv /\ [LockNext]_lock_vars => LockInv'
  BY LockStep
<1>3. LockInv => NoWorkWithoutSubject
  BY DEF LockInv, DeletionAlone
<1> QED BY <1>1, <1>2, <1>3, PTL DEF LockSpec

=============================================================================
