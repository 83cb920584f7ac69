--------------------------- MODULE CmPrograms_proofs ---------------------------
(***************************************************************************)
(* Proofs about the reference counts of programs, kernels and kernel data, *)
(* for every set of programs, names, kernels and tasks and every number of *)
(* calls, whatever fails.                                                  *)
(***************************************************************************)
EXTENDS CmProgramsInv, TLAPS, SequenceTheorems, FiniteSetTheorems,
        WellFoundedInduction

\* A nonempty set of numbers has a least element.
LEMMA LeastExists ==
  ASSUME NEW S \in SUBSET Nat, S # {}
  PROVE  \E i \in S : \A j \in S : i <= j
<1> DEFINE R == OpToRel(<, Nat)
<1>1. IsWellFoundedOn(R, Nat)
  BY NatLessThanWellFounded
<1> HIDE DEF R
<1>2. PICK x \in S : \A y \in S : ~ (<<y, x>> \in R)
  BY <1>1, WFMin
<1>3. \A y \in S : ~ (y < x)
  <2> TAKE y \in S
  <2>1. <<y, x>> \notin R
    BY <1>2
  <2> QED BY <2>1 DEF R, OpToRel
<1> QED BY <1>3

\* The minimum of a set is in it.
LEMMA MinFacts ==
  ASSUME NEW S \in SUBSET Nat, S # {}
  PROVE  Min(S) \in S
  BY LeastExists DEF Min

\* The places for kernel data: one of each kernel for each task, and its last.
LEMMA DatasFacts ==
  /\ Datas \subseteq Nat \ {0} /\ IsFiniteSet(Datas)
  /\ Cardinality(Tasks) \in Nat /\ Cardinality(Kernels) \in Nat
  /\ Cardinality(Datas) = (Cardinality(Tasks) + 1) * Cardinality(Kernels)
<1>1. Cardinality(Tasks) \in Nat /\ Cardinality(Kernels) \in Nat
  BY CmProgramsAssumption, FS_CardinalityType
<1>2. PICK n \in Nat : n = (Cardinality(Tasks) + 1) * Cardinality(Kernels)
  BY <1>1
<1>3. Datas = 1 .. n
  BY <1>2 DEF Datas
<1>4. IsFiniteSet(1 .. n) /\ Cardinality(1 .. n) = n
  BY FS_Interval
<1> QED BY <1>1, <1>2, <1>3, <1>4

-----------------------------------------------------------------------------
(***************************************************************************)
(* The arrays of the device.                                               *)
(***************************************************************************)
LEMMA PutFacts ==
  ASSUME NEW S, NULL \notin S, NEW array \in Seq(S \cup {NULL}), NEW x \in S
  PROVE  /\ PutInFreeSlot(array, x) \in Seq(S \cup {NULL})
         /\ Range(PutInFreeSlot(array, x)) \ {NULL} = (Range(array) \ {NULL}) \cup {x}
<1>0. DOMAIN array = 1 .. Len(array) /\ Len(array) \in Nat
  BY LenProperties
<1>1. CASE Places(array, NULL) = {}
  <2> DEFINE r == Append(array, x)
  <2>1. /\ r \in Seq(S \cup {NULL}) /\ DOMAIN r = 1 .. (Len(array) + 1)
        /\ \A i \in 1 .. Len(array) : r[i] = array[i]
        /\ r[Len(array) + 1] = x
    BY <1>0, AppendProperties, LenProperties
  <2> HIDE DEF r
  <2>2. PutInFreeSlot(array, x) = r
    BY <1>1 DEF PutInFreeSlot, r
  <2>3. Range(r) = Range(array) \cup {x}
    <3>1. Range(r) \subseteq Range(array) \cup {x}
      BY <1>0, <2>1 DEF Range
    <3>2. Range(array) \cup {x} \subseteq Range(r)
      BY <1>0, <2>1 DEF Range
    <3> QED BY <3>1, <3>2
  <2> QED BY <2>1, <2>2, <2>3
<1>2. CASE Places(array, NULL) # {}
  <2>1. Places(array, NULL) \in SUBSET Nat
    BY <1>0 DEF Places
  <2>2. PICK m : m = Min(Places(array, NULL))
    OBVIOUS
  <2>3. m \in DOMAIN array /\ array[m] = NULL
    BY <1>2, <2>1, <2>2, MinFacts DEF Places
  <2> DEFINE r == [array EXCEPT ![m] = x]
  <2>4. /\ r \in Seq(S \cup {NULL}) /\ DOMAIN r = DOMAIN array /\ r[m] = x
        /\ \A i \in DOMAIN array : i # m => r[i] = array[i]
    BY <2>3, ExceptSeq
  <2> HIDE DEF r
  <2>5. PutInFreeSlot(array, x) = r
    BY <1>2, <2>2 DEF PutInFreeSlot, r
  <2>6. Range(r) \ {NULL} = (Range(array) \ {NULL}) \cup {x}
    <3>1. Range(r) \ {NULL} \subseteq (Range(array) \ {NULL}) \cup {x}
      BY <2>3, <2>4 DEF Range
    <3>2. (Range(array) \ {NULL}) \cup {x} \subseteq Range(r) \ {NULL}
      BY <2>3, <2>4 DEF Range
    <3> QED BY <3>1, <3>2
  <2> QED BY <2>4, <2>5, <2>6
<1> QED BY <1>1, <1>2

\* ClearSlot takes one object out of an array and keeps the others.
LEMMA ClearFacts ==
  ASSUME NEW S, NEW array \in Seq(S \cup {NULL}), NEW x
  PROVE  /\ ClearSlot(array, x) \in Seq(S \cup {NULL})
         /\ Range(ClearSlot(array, x)) \ {NULL} = Range(array) \ {x, NULL}
         /\ ClearSlot(array, x) = <<>> <=> array = <<>>
<1>0. DOMAIN array = 1 .. Len(array) /\ Len(array) \in Nat
  BY LenProperties
<1> DEFINE r == ClearSlot(array, x)
<1>1. /\ DOMAIN r = DOMAIN array
      /\ \A i \in DOMAIN array : r[i] = IF array[i] = x THEN NULL ELSE array[i]
      /\ r = [i \in 1 .. Len(array) |-> IF array[i] = x THEN NULL ELSE array[i]]
  BY <1>0 DEF ClearSlot
<1>2. \A i \in 1 .. Len(array) : array[i] \in S \cup {NULL}
  BY <1>0, ElementOfSeq
<1> HIDE DEF r
<1>3. r \in Seq(S \cup {NULL}) /\ Len(r) = Len(array)
  BY <1>0, <1>1, <1>2, IsASeq
<1>4. Range(r) \ {NULL} \subseteq Range(array) \ {x, NULL}
  BY <1>1 DEF Range
<1>5. Range(array) \ {x, NULL} \subseteq Range(r) \ {NULL}
  BY <1>1 DEF Range
<1>6. r = <<>> <=> array = <<>>
  BY <1>3, EmptySeq
<1> QED BY <1>3, <1>4, <1>5, <1>6 DEF r

\* An array is its first slot and the others.
LEMMA TailFacts ==
  ASSUME NEW S, NEW array \in Seq(S), array # <<>>
  PROVE  /\ Tail(array) \in Seq(S) /\ Head(array) \in S
         /\ Head(array) \in Range(array)
         /\ Range(array) = Range(Tail(array)) \cup {Head(array)}
<1>1. /\ Tail(array) \in Seq(S) /\ Head(array) \in S /\ Head(array) = array[1]
      /\ Len(array) \in Nat /\ Len(array) # 0 /\ DOMAIN array = 1 .. Len(array)
      /\ DOMAIN Tail(array) = 1 .. (Len(array) - 1)
      /\ \A i \in 1 .. (Len(array) - 1) : Tail(array)[i] = array[i + 1]
  BY HeadTailProperties, EmptySeq, LenProperties
<1>2. Head(array) \in Range(array)
  BY <1>1 DEF Range
<1>3. Range(Tail(array)) \subseteq Range(array)
  <2> SUFFICES ASSUME NEW i \in DOMAIN Tail(array)  PROVE  Tail(array)[i] \in Range(array)
    BY DEF Range
  <2>1. i + 1 \in DOMAIN array /\ Tail(array)[i] = array[i + 1]
    BY <1>1
  <2> QED BY <2>1 DEF Range
<1>4. \A i \in DOMAIN array : array[i] \in Range(Tail(array)) \cup {Head(array)}
  <2> TAKE i \in DOMAIN array
  <2>1. CASE i = 1
    BY <1>1, <2>1
  <2>2. CASE i # 1
    <3>1. i - 1 \in DOMAIN Tail(array) /\ i = (i - 1) + 1
      BY <1>1, <2>2
    <3>2. Tail(array)[i - 1] = array[i]
      BY <1>1, <3>1
    <3> QED BY <3>1, <3>2 DEF Range
  <2> QED BY <2>1, <2>2
<1>5. Range(array) \subseteq Range(Tail(array)) \cup {Head(array)}
  BY <1>4 DEF Range
<1> QED BY <1>1, <1>2, <1>3, <1>5

\* An object has a place in an array if it is in it.
LEMMA ListedFacts ==
  ASSUME NEW array, NEW x
  PROVE  Places(array, x) # {} <=> x \in Range(array)
  BY DEF Places, Range

-----------------------------------------------------------------------------
(***************************************************************************)
(* Counting.                                                               *)
(***************************************************************************)
LEMMA KernelFacts ==
  ASSUME NEW kernel \in KernelTable, NEW k \in Kernels
  PROVE  /\ kernel[k].ref \in Nat
         /\ kernel[k].ref > 0 => kernel[k] \in KernelType
         /\ kernel[k].ref = 0 => kernel[k] = NoKernel
<1>1. kernel[k] \in {NoKernel} \cup KernelType
  BY DEF KernelTable
<1> QED BY <1>1 DEF NoKernel, KernelType

\* Kernel data is there if it has references.
LEMMA DataFacts ==
  ASSUME NEW data \in DataTable, NEW d \in Datas
  PROVE  /\ data[d].ref \in Nat
         /\ data[d].ref > 0 => data[d] \in DataType
         /\ data[d].ref = 0 => data[d] = NoData
<1>1. data[d] \in {NoData} \cup DataType
  BY DEF DataTable
<1> QED BY <1>1 DEF NoData, DataType

\* One more reference of kernel k is one more token of its program.
LEMMA OneProgramToken ==
  ASSUME NEW old \in KernelTable, NEW new \in KernelTable, NEW k \in Kernels, NEW q,
         NEW r \in Nat, old[k].ref = r, r > 0 => old[k].program = q,
         new[k].ref = r + 1, new[k].program = q,
         \A j \in Kernels : j # k =>
            /\ new[j].ref = old[j].ref
            /\ old[j].ref > 0 => new[j].program = old[j].program
  PROVE  \A p :
           /\ IsFiniteSet(ProgramTokens(old, p)) <=> IsFiniteSet(ProgramTokens(new, p))
           /\ IsFiniteSet(ProgramTokens(old, p)) =>
                /\ Cardinality(ProgramTokens(old, p)) \in Nat
                /\ Cardinality(ProgramTokens(new, p)) =
                     Cardinality(ProgramTokens(old, p)) + One(p = q)
<1> TAKE p
<1> DEFINE A == ProgramTokens(old, p)
           B == ProgramTokens(new, p)
           token == <<k, r + 1>>
<1>1. \A j \in Kernels : old[j].ref \in Nat /\ new[j].ref \in Nat
  BY KernelFacts
<1>2. ASSUME p # q  PROVE A = B
  BY <1>1, <1>2 DEF ProgramTokens
<1>3. ASSUME p = q  PROVE A = B \ {token} /\ token \in B
  <2>1. token \in B
    BY <1>3 DEF ProgramTokens
  <2>2. ASSUME NEW j \in Kernels, NEW i \in Nat \ {0}
        PROVE  (i <= old[j].ref /\ old[j].program = p)
                 <=> (i <= new[j].ref /\ new[j].program = p) /\ <<j, i>> # token
    <3>1. CASE j = k
      BY <1>1, <1>3, <3>1
    <3>2. CASE j # k
      BY <1>1, <1>3, <3>2
    <3> QED BY <3>1, <3>2
  <2>3. \A e \in Kernels \X (Nat \ {0}) : e = <<e[1], e[2]>> /\ e[1] \in Kernels /\ e[2] \in Nat \ {0}
    OBVIOUS
  <2>4. \A e \in Kernels \X (Nat \ {0}) : e \in A <=> e \in B /\ e # token
    BY <2>2, <2>3 DEF ProgramTokens
  <2>5. A \subseteq Kernels \X (Nat \ {0}) /\ B \subseteq Kernels \X (Nat \ {0})
    BY DEF ProgramTokens
  <2> HIDE DEF A, B, token
  <2> QED BY <2>1, <2>4, <2>5
<1> HIDE DEF A, B, token
<1>4. CASE p # q
  <2>1. IsFiniteSet(A) => Cardinality(A) \in Nat
    BY FS_CardinalityType
  <2> QED BY <1>2, <1>4, <2>1 DEF One, A, B
<1>5. CASE p = q
  <2>1. A = B \ {token} /\ token \in B /\ B = A \cup {token} /\ token \notin A
    BY <1>3, <1>5
  <2>2. ASSUME IsFiniteSet(A)
        PROVE  IsFiniteSet(B) /\ Cardinality(B) = Cardinality(A) + 1 /\ Cardinality(A) \in Nat
    <3>1. /\ IsFiniteSet(A \cup {token})
          /\ Cardinality(A \cup {token}) = IF token \in A THEN Cardinality(A) ELSE Cardinality(A) + 1
      BY <2>2, FS_AddElement
    <3>2. Cardinality(A) \in Nat
      BY <2>2, FS_CardinalityType
    <3> QED BY <2>1, <3>1, <3>2
  <2>3. ASSUME IsFiniteSet(B)  PROVE IsFiniteSet(A)
    BY <2>1, <2>3, FS_RemoveElement
  <2> QED BY <1>5, <2>2, <2>3 DEF One, A, B
<1> QED BY <1>4, <1>5

\* Programs count the same for two tables that agree on programs and references.
LEMMA SameProgramTokens ==
  ASSUME NEW old \in KernelTable, NEW new \in KernelTable,
         \A j \in Kernels :
            /\ new[j].ref = old[j].ref
            /\ old[j].ref > 0 => new[j].program = old[j].program
  PROVE  \A p : ProgramTokens(new, p) = ProgramTokens(old, p)
<1>1. \A j \in Kernels : old[j].ref \in Nat /\ new[j].ref \in Nat
  BY KernelFacts
<1> QED BY <1>1 DEF ProgramTokens

\* What a place holds of references of its kernel.
Acquired(data, d) == IF data[d].ref > 0 THEN data[d].kernelRef ELSE 0

\* If no data acquires or releases, its kernels keep their tokens.
LEMMA SameKernelTokens ==
  ASSUME NEW old \in DataTable, NEW new \in DataTable, NEW k,
         \A d \in Datas :
            /\ Acquired(new, d) = Acquired(old, d)
            /\ Acquired(old, d) > 0 => new[d].kernel = old[d].kernel
  PROVE  KernelTokens(new, k) = KernelTokens(old, k)
<1>1. \A d \in Datas : /\ old[d].ref > 0 => old[d].kernelRef \in Nat
                       /\ new[d].ref > 0 => new[d].kernelRef \in Nat
                       /\ new[d].ref \in Nat /\ old[d].ref \in Nat
  BY DataFacts DEF DataType
<1>2. ASSUME NEW d \in Datas, NEW i \in Nat \ {0}
      PROVE  (old[d].ref > 0 /\ old[d].kernel = k /\ i <= old[d].kernelRef)
                <=> (new[d].ref > 0 /\ new[d].kernel = k /\ i <= new[d].kernelRef)
  BY <1>1 DEF Acquired
<1> QED BY <1>2 DEF KernelTokens

\* AcquireKernel gives the kernel of the data one token more, and no other.
LEMMA OneKernelToken ==
  ASSUME NEW old \in DataTable, NEW new \in DataTable, NEW d \in Datas, NEW k,
         NEW r \in Nat, r = Acquired(old, d), r > 0 => old[d].kernel = k,
         Acquired(new, d) = r + 1, new[d].kernel = k,
         \A e \in Datas : e # d =>
            /\ Acquired(new, e) = Acquired(old, e)
            /\ Acquired(old, e) > 0 => new[e].kernel = old[e].kernel
  PROVE  \A j :
           /\ IsFiniteSet(KernelTokens(old, j)) <=> IsFiniteSet(KernelTokens(new, j))
           /\ IsFiniteSet(KernelTokens(old, j)) =>
                /\ Cardinality(KernelTokens(old, j)) \in Nat
                /\ Cardinality(KernelTokens(new, j)) =
                     Cardinality(KernelTokens(old, j)) + One(j = k)
<1> TAKE j
<1> DEFINE A == KernelTokens(old, j)
           B == KernelTokens(new, j)
           token == <<d, r + 1>>
<1>1. \A e \in Datas : /\ old[e].ref > 0 => old[e].kernelRef \in Nat
                       /\ new[e].ref > 0 => new[e].kernelRef \in Nat
                       /\ new[e].ref \in Nat /\ old[e].ref \in Nat
  BY DataFacts DEF DataType
<1>2. ASSUME j # k  PROVE A = B
  <2>1. ASSUME NEW e \in Datas, NEW i \in Nat \ {0}
        PROVE  (old[e].ref > 0 /\ old[e].kernel = j /\ i <= old[e].kernelRef)
                 <=> (new[e].ref > 0 /\ new[e].kernel = j /\ i <= new[e].kernelRef)
    BY <1>1, <1>2 DEF Acquired
  <2> QED BY <2>1 DEF KernelTokens
<1>3. ASSUME j = k  PROVE A = B \ {token} /\ token \in B
  <2>1. token \in B
    BY <1>1, <1>3 DEF KernelTokens, Acquired
  <2>2. ASSUME NEW e \in Datas, NEW i \in Nat \ {0}
        PROVE  (old[e].ref > 0 /\ old[e].kernel = j /\ i <= old[e].kernelRef)
                 <=> (new[e].ref > 0 /\ new[e].kernel = j /\ i <= new[e].kernelRef)
                        /\ <<e, i>> # token
    <3>1. CASE e = d
      BY <1>1, <1>3, <3>1 DEF Acquired
    <3>2. CASE e # d
      BY <1>1, <1>3, <3>2 DEF Acquired
    <3> QED BY <3>1, <3>2
  <2>3. \A e \in Datas \X (Nat \ {0}) : e = <<e[1], e[2]>> /\ e[1] \in Datas /\ e[2] \in Nat \ {0}
    OBVIOUS
  <2>4. \A e \in Datas \X (Nat \ {0}) : e \in A <=> e \in B /\ e # token
    BY <2>2, <2>3 DEF KernelTokens
  <2>5. A \subseteq Datas \X (Nat \ {0}) /\ B \subseteq Datas \X (Nat \ {0})
    BY DEF KernelTokens
  <2> HIDE DEF A, B, token
  <2> QED BY <2>1, <2>4, <2>5
<1> HIDE DEF A, B, token
<1>4. CASE j # k
  <2>1. IsFiniteSet(A) => Cardinality(A) \in Nat
    BY FS_CardinalityType
  <2> QED BY <1>2, <1>4, <2>1 DEF One, A, B
<1>5. CASE j = k
  <2>1. A = B \ {token} /\ token \in B /\ B = A \cup {token} /\ token \notin A
    BY <1>3, <1>5
  <2>2. ASSUME IsFiniteSet(A)
        PROVE  IsFiniteSet(B) /\ Cardinality(B) = Cardinality(A) + 1 /\ Cardinality(A) \in Nat
    <3>1. /\ IsFiniteSet(A \cup {token})
          /\ Cardinality(A \cup {token}) = IF token \in A THEN Cardinality(A) ELSE Cardinality(A) + 1
      BY <2>2, FS_AddElement
    <3>2. Cardinality(A) \in Nat
      BY <2>2, FS_CardinalityType
    <3> QED BY <2>1, <3>1, <3>2
  <2>3. ASSUME IsFiniteSet(B)  PROVE IsFiniteSet(A)
    BY <2>1, <2>3, FS_RemoveElement
  <2> QED BY <1>5, <2>2, <2>3 DEF One, A, B
<1> QED BY <1>4, <1>5

\* Who holds kernel data, when one more task does or one less.
LEMMA HoldersFacts ==
  ASSUME NEW held, NEW d
  PROVE  /\ IsFiniteSet(HoldersOf(held, d)) /\ Cardinality(HoldersOf(held, d)) \in Nat
         /\ Cardinality(HoldersOf(held, d)) = 0 <=> HoldersOf(held, d) = {}
<1>1. HoldersOf(held, d) \in SUBSET Tasks
  BY DEF HoldersOf
<1>2. IsFiniteSet(HoldersOf(held, d))
  BY <1>1, CmProgramsAssumption, FS_Subset
<1> QED BY <1>2, FS_CardinalityType, FS_EmptySet

\* A task that takes kernel data is one holder more.
LEMMA OneHolder ==
  ASSUME NEW held, NEW t \in Tasks, NEW d, <<t, d>> \notin held
  PROVE  \A e : Cardinality(HoldersOf(held \cup {<<t, d>>}, e)) =
                  Cardinality(HoldersOf(held, e)) + One(e = d)
<1> TAKE e
<1>1. CASE e # d
  <2>1. HoldersOf(held \cup {<<t, d>>}, e) = HoldersOf(held, e)
    BY <1>1 DEF HoldersOf
  <2> QED BY <1>1, <2>1, HoldersFacts DEF One
<1>2. CASE e = d
  <2>1. HoldersOf(held \cup {<<t, d>>}, e) = HoldersOf(held, e) \cup {t}
    BY <1>2 DEF HoldersOf
  <2>2. t \notin HoldersOf(held, e)
    BY <1>2 DEF HoldersOf
  <2> QED BY <1>2, <2>1, <2>2, HoldersFacts, FS_AddElement DEF One
<1> QED BY <1>1, <1>2

\* A task that gives up kernel data is one holder less.
LEMMA OneHolderLess ==
  ASSUME NEW held, NEW t \in Tasks, NEW d, <<t, d>> \in held
  PROVE  \A e : Cardinality(HoldersOf(held, e)) =
                  Cardinality(HoldersOf(held \ {<<t, d>>}, e)) + One(e = d)
<1>1. <<t, d>> \notin held \ {<<t, d>>}
  OBVIOUS
<1>2. held = (held \ {<<t, d>>}) \cup {<<t, d>>}
  OBVIOUS
<1>3. PICK rest : rest = held \ {<<t, d>>}
  OBVIOUS
<1> QED BY <1>1, <1>2, <1>3, OneHolder

\* There are finitely many kernels of a name.
LEMMA NamesakesFacts ==
  ASSUME NEW kernel, NEW x
  PROVE  /\ IsFiniteSet(Namesakes(kernel, x)) /\ Cardinality(Namesakes(kernel, x)) \in Nat
         /\ Cardinality(Namesakes(kernel, x)) = 0 <=> Namesakes(kernel, x) = {}
<1>1. Namesakes(kernel, x) \in SUBSET Kernels
  BY DEF Namesakes
<1>2. IsFiniteSet(Namesakes(kernel, x))
  BY <1>1, CmProgramsAssumption, FS_Subset
<1> QED BY <1>2, FS_CardinalityType, FS_EmptySet

\* Kernel k, new in its table, is one more of its name.
LEMMA OneNamesake ==
  ASSUME NEW old \in KernelTable, NEW new \in KernelTable, NEW k \in Kernels,
         old[k].ref = 0, new[k].ref > 0,
         \A j \in Kernels : j # k => new[j] = old[j]
  PROVE  \A x \in Programs \X Names :
           Cardinality(Namesakes(new, x)) =
             Cardinality(Namesakes(old, x)) + One(x = <<new[k].program, new[k].name>>)
<1> TAKE x \in Programs \X Names
<1>0. x = <<x[1], x[2]>>
  OBVIOUS
<1>1. CASE x # <<new[k].program, new[k].name>>
  <2>1. \A j \in Kernels : j \in Namesakes(new, x) <=> j \in Namesakes(old, x)
    BY <1>0, <1>1 DEF Namesakes
  <2>2. Namesakes(new, x) = Namesakes(old, x)
    BY <2>1 DEF Namesakes
  <2> QED BY <1>1, <2>2, NamesakesFacts DEF One
<1>2. CASE x = <<new[k].program, new[k].name>>
  <2>1. Namesakes(new, x) = Namesakes(old, x) \cup {k} /\ k \notin Namesakes(old, x)
    BY <1>2 DEF Namesakes
  <2> QED BY <1>2, <2>1, NamesakesFacts, FS_AddElement DEF One
<1> QED BY <1>1, <1>2

\* If no kernel comes or goes, the kernels of each name stay.
LEMMA SameNamesakes ==
  ASSUME NEW old \in KernelTable, NEW new \in KernelTable,
         \A j \in Kernels :
            /\ new[j].ref > 0 <=> old[j].ref > 0
            /\ old[j].ref > 0 => new[j].program = old[j].program /\ new[j].name = old[j].name
  PROVE  \A x : Namesakes(new, x) = Namesakes(old, x)
  BY DEF Namesakes

-----------------------------------------------------------------------------
(***************************************************************************)
(* Kernel data is released.                                                *)
(***************************************************************************)
Released(old, new, d) ==
    /\ old \in DataTable /\ new \in DataTable
    /\ old[d].ref > 0 /\ new[d].ref = old[d].ref - 1
    /\ new[d].ref > 0 => new[d].kernelRef = old[d].kernelRef /\ new[d].kernel = old[d].kernel
    /\ \A e \in Datas : e # d => new[e] = old[e]

\* ReleaseData changes kernel data alone.
LEMMA ReleaseDataIs ==
  ASSUME NEW h \in HeapType, NEW d \in Datas, h.data[d].ref > 0
  PROVE  /\ ReleaseData(h, d) \in HeapType
         /\ ReleaseData(h, d) = [h EXCEPT !.data = ReleaseData(h, d).data]
         /\ Released(h.data, ReleaseData(h, d).data, d)
<1>0. h.data \in DataTable /\ h.data[d] \in DataType /\ DOMAIN h.data = Datas
  BY DataFacts DEF HeapType, DataTable
<1>1. CASE h.data[d].ref = 1
  <2> DEFINE new == [h.data EXCEPT ![d] = NoData]
  <2>1. ReleaseData(h, d) = [h EXCEPT !.data = new]
    BY <1>1 DEF ReleaseData, HeapType
  <2>2. new \in DataTable
    BY <1>0 DEF DataTable
  <2>3. [h EXCEPT !.data = new] \in HeapType /\ [h EXCEPT !.data = new].data = new
    BY <2>2 DEF HeapType
  <2>4. Released(h.data, new, d)
    BY <1>0, <1>1, <2>2 DEF Released, NoData
  <2> QED BY <2>1, <2>3, <2>4
<1>2. CASE h.data[d].ref # 1
  <2>0. PICK r \in Nat : r = h.data[d].ref - 1 /\ r > 0
    BY <1>0, <1>2 DEF DataType
  <2> DEFINE new == [h.data EXCEPT ![d] = [ref |-> r, kernelRef |-> h.data[d].kernelRef,
                                           kernel |-> h.data[d].kernel]]
  <2>1. ReleaseData(h, d) = [h EXCEPT !.data[d].ref = r]
    BY <1>2, <2>0 DEF ReleaseData
  <2>2. [h.data[d] EXCEPT !.ref = r] = [ref |-> r, kernelRef |-> h.data[d].kernelRef,
                                        kernel |-> h.data[d].kernel]
    BY <1>0 DEF DataType
  <2>3. ReleaseData(h, d) = [h EXCEPT !.data = new]
    BY <2>1, <2>2 DEF HeapType
  <2>4. new \in DataTable
    BY <1>0, <2>0 DEF DataTable, DataType
  <2>5. [h EXCEPT !.data = new] \in HeapType /\ [h EXCEPT !.data = new].data = new
    BY <2>4 DEF HeapType
  <2>6. Released(h.data, new, d)
    BY <1>0, <2>0, <2>4 DEF Released
  <2> QED BY <2>3, <2>5, <2>6
<1> QED BY <1>1, <1>2

\* When q gives up kernel data, its count is that of its holders again.
LEMMA ReleasedData ==
  ASSUME NEW old, NEW new, NEW d \in Datas, Released(old, new, d),
         NEW kernel \in KernelTable, NEW held,
         DataCount(old, kernel, held, d), LastInv(old, kernel)
  PROVE  DataCount(new, kernel, held, 0) /\ LastInv(new, kernel)
<1>0. old \in DataTable /\ new \in DataTable
  BY DEF Released
<1>1. DataCount(new, kernel, held, 0)
  <2> SUFFICES ASSUME NEW e \in Datas
               PROVE  new[e].ref = One(IsLast(kernel, e)) + One(e = 0)
                                     + Cardinality(HoldersOf(held, e))
    BY DEF DataCount
  <2>1. old[e].ref = One(IsLast(kernel, e)) + One(e = d) + Cardinality(HoldersOf(held, e))
    BY DEF DataCount
  <2>2. e # 0
    BY DatasFacts
  <2>3. One(IsLast(kernel, e)) \in {0, 1} /\ Cardinality(HoldersOf(held, e)) \in Nat
    BY HoldersFacts DEF One
  <2>4. e # d => new[e].ref = old[e].ref
    BY DEF Released
  <2>5. new[d].ref = old[d].ref - 1
    BY DEF Released
  <2>6. One(e = 0) = 0 /\ One(e = d) = IF e = d THEN 1 ELSE 0
    BY <2>2 DEF One
  <2> QED BY <2>1, <2>3, <2>4, <2>5, <2>6
<1>2. LastInv(new, kernel)
  <2> SUFFICES ASSUME NEW k \in Kernels, kernel[k].ref > 0, kernel[k].last # 0
               PROVE  new[kernel[k].last].ref > 0 /\ new[kernel[k].last].kernel = k
    BY DEF LastInv
  <2>1. PICK e \in Datas : e = kernel[k].last
    BY KernelFacts DEF KernelType
  <2>2. IsLast(kernel, e)
    BY <2>1 DEF IsLast
  <2>3. new[e].ref > 0
    <3>1. new[e].ref = One(IsLast(kernel, e)) + One(e = 0) + Cardinality(HoldersOf(held, e))
      BY <1>1 DEF DataCount
    <3>2. One(IsLast(kernel, e)) = 1 /\ One(e = 0) \in {0, 1}
      BY <2>2 DEF One
    <3> QED BY <3>1, <3>2, HoldersFacts
  <2>4. old[e].ref > 0 /\ old[e].kernel = k
    BY <2>1 DEF LastInv
  <2> QED BY <2>1, <2>3, <2>4 DEF Released
<1> QED BY <1>1, <1>2

\* No token is lost but of a kernel that failed: who is freed waits nowhere.
LEMMA ReleasedTokens ==
  ASSUME NEW old, NEW new, NEW d \in Datas, Released(old, new, d),
         NEW kernel, NEW held, NEW waits \in SUBSET held, NEW A, NEW F, NEW q,
         DataCount(new, kernel, held, 0),
         KernelCount(kernel, old, A, F, q), WaitCount(old, waits, F),
         kernel \in KernelTable
  PROVE  KernelCount(kernel, new, A, F, q) /\ WaitCount(new, waits, F)
<1>0. old \in DataTable /\ new \in DataTable
  BY DEF Released
<1>1. WaitCount(new, waits, F)
  <2> SUFFICES ASSUME NEW e \in Datas, new[e].ref > 0
               PROVE  /\ new[e].kernelRef >= Cardinality(HoldersOf(waits, e))
                      /\ new[e].kernel \notin F =>
                           new[e].kernelRef = Cardinality(HoldersOf(waits, e))
    BY DEF WaitCount
  <2>1. old[e].ref > 0 /\ new[e].kernelRef = old[e].kernelRef /\ new[e].kernel = old[e].kernel
    BY DEF Released
  <2> QED BY <2>1 DEF WaitCount
<1>2. ASSUME new[d].ref = 0, old[d].kernel \notin F  PROVE old[d].kernelRef = 0
  <2>1. new[d].ref = One(IsLast(kernel, d)) + One(d = 0) + Cardinality(HoldersOf(held, d))
    BY DEF DataCount
  <2>2. One(IsLast(kernel, d)) \in Nat /\ One(d = 0) \in Nat
    BY DEF One
  <2>3. HoldersOf(held, d) = {}
    BY <1>2, <2>1, <2>2, HoldersFacts
  <2>4. HoldersOf(waits, d) = {}
    BY <2>3 DEF HoldersOf
  <2> QED BY <1>2, <2>4, HoldersFacts DEF WaitCount, Released
<1>3. \A e \in Datas : /\ old[e].ref > 0 => old[e].kernelRef \in Nat
                       /\ new[e].ref > 0 => new[e].kernelRef \in Nat
                       /\ new[e].ref \in Nat /\ old[e].ref \in Nat
  BY <1>0, DataFacts DEF DataType
<1>4. \A j : KernelTokens(new, j) \subseteq KernelTokens(old, j)
  <2>1. \A e \in Datas : new[e].ref > 0 =>
           old[e].ref > 0 /\ new[e].kernelRef = old[e].kernelRef /\ new[e].kernel = old[e].kernel
    BY DEF Released
  <2> QED BY <2>1 DEF KernelTokens
<1>5. ASSUME NEW j, j \notin F  PROVE KernelTokens(old, j) \subseteq KernelTokens(new, j)
  <2>1. ASSUME NEW e \in Datas, old[e].ref > 0, old[e].kernel = j, old[e].kernelRef # 0
        PROVE  new[e].ref > 0 /\ new[e].kernelRef = old[e].kernelRef /\ new[e].kernel = j
    BY <1>2, <1>3, <1>5, <2>1 DEF Released
  <2>2. ASSUME NEW e \in Datas, NEW i \in Nat \ {0}, old[e].ref > 0, old[e].kernel = j,
               i <= old[e].kernelRef
        PROVE  old[e].kernelRef # 0
    BY <1>3, <2>2
  <2> QED BY <2>1, <2>2 DEF KernelTokens
<1>6. KernelCount(kernel, new, A, F, q)
  <2> SUFFICES ASSUME NEW k \in Kernels
               PROVE  /\ IsFiniteSet(KernelTokens(new, k))
                      /\ kernel[k].ref + One(k = q) >= One(k \in A) + Cardinality(KernelTokens(new, k))
                      /\ k \notin F => kernel[k].ref + One(k = q) =
                                         One(k \in A) + Cardinality(KernelTokens(new, k))
    BY DEF KernelCount
  <2>1. /\ IsFiniteSet(KernelTokens(old, k))
        /\ kernel[k].ref + One(k = q) >= One(k \in A) + Cardinality(KernelTokens(old, k))
        /\ k \notin F => kernel[k].ref + One(k = q) =
                           One(k \in A) + Cardinality(KernelTokens(old, k))
    BY DEF KernelCount
  <2>2. /\ IsFiniteSet(KernelTokens(new, k))
        /\ Cardinality(KernelTokens(new, k)) <= Cardinality(KernelTokens(old, k))
        /\ Cardinality(KernelTokens(new, k)) \in Nat /\ Cardinality(KernelTokens(old, k)) \in Nat
    BY <1>4, <2>1, FS_Subset, FS_CardinalityType
  <2>3. ASSUME k \notin F  PROVE KernelTokens(new, k) = KernelTokens(old, k)
    <3>1. KernelTokens(old, k) \subseteq KernelTokens(new, k)
      BY <1>5, <2>3
    <3>2. KernelTokens(new, k) \subseteq KernelTokens(old, k)
      BY <1>4
    <3> QED BY <3>1, <3>2
  <2>4. kernel[k].ref \in Nat /\ One(k = q) \in Nat /\ One(k \in A) \in Nat
    BY KernelFacts DEF One
  <2> QED BY <2>1, <2>2, <2>3, <2>4
<1> QED BY <1>1, <1>6

\* Data that is given up does not become that of another kernel.
LEMMA ReleasedOneOfAKernel ==
  ASSUME NEW old, NEW new, NEW d \in Datas, Released(old, new, d),
         NEW kernel, NEW held \in SUBSET (Tasks \X Datas),
         DataCount(new, kernel, held, 0), OneOfAKernel(old, held)
  PROVE  OneOfAKernel(new, held)
<1>1. ASSUME NEW e \in held  PROVE new[e[2]].kernel = old[e[2]].kernel
  <2>1. e = <<e[1], e[2]>> /\ e[1] \in Tasks /\ e[2] \in Datas
    OBVIOUS
  <2>2. e[1] \in HoldersOf(held, e[2])
    BY <2>1 DEF HoldersOf
  <2>3. new[e[2]].ref = One(IsLast(kernel, e[2])) + One(e[2] = 0)
                          + Cardinality(HoldersOf(held, e[2]))
    BY <2>1 DEF DataCount
  <2>4. Cardinality(HoldersOf(held, e[2])) \in Nat \ {0}
    BY <2>2, HoldersFacts
  <2>5. new[e[2]].ref > 0
    BY <2>3, <2>4 DEF One
  <2> QED BY <2>1, <2>5 DEF Released
<1> QED BY <1>1 DEF OneOfAKernel

-----------------------------------------------------------------------------
(***************************************************************************)
(* A reference of a program is given up.                                   *)
(***************************************************************************)
\* What ReleaseProgram and DeleteProgram leave alone.
OnlyProgram(h, g) ==
    /\ g \in HeapType
    /\ g.kernel = h.kernel /\ g.data = h.data /\ g.kernelArray = h.kernelArray

\* ~CmProgram_RT takes the program, its share of each information and its slot.
LEMMA DeleteProgramIs ==
  ASSUME NEW h \in HeapType, NEW p \in Programs, h.program[p] > 0,
         InfoCount(h.info, h.program, h.kernel), ProgramsListed(h)
  PROVE  /\ OnlyProgram(h, DeleteProgram(h, p))
         /\ DeleteProgram(h, p).program = [h.program EXCEPT ![p] = 0]
         /\ InfoCount(DeleteProgram(h, p).info, DeleteProgram(h, p).program, h.kernel)
         /\ ProgramsListed(DeleteProgram(h, p))
         /\ DeleteProgram(h, p).programArray = ClearSlot(h.programArray, p)
<1> DEFINE info == [x \in DOMAIN h.info |->
                 IF x[1] # p THEN h.info[x]
                 ELSE IF h.info[x].ref <= 1 THEN NoInfo
                 ELSE [ref |-> h.info[x].ref - 1, parsed |-> h.info[x].ref > 2]]
           program == [h.program EXCEPT ![p] = 0]
           array == ClearSlot(h.programArray, p)
           g == [h EXCEPT !.program = program, !.info = info, !.programArray = array]
<1>0. /\ h.program \in [Programs -> Nat] /\ h.info \in InfoTable
      /\ DOMAIN h.info = Programs \X Names
      /\ h.programArray \in Seq(Programs \cup {NULL}) /\ NULL \notin Programs
  BY CmProgramsAssumption DEF HeapType, InfoTable
<1>1. DeleteProgram(h, p) = g
  BY <1>0 DEF DeleteProgram, HeapType
<1>2. \A x \in Programs \X Names :
        /\ h.info[x].ref \in Nat /\ h.info[x].parsed \in BOOLEAN
        /\ h.info[x] = [ref |-> h.info[x].ref, parsed |-> h.info[x].parsed]
  BY <1>0 DEF InfoTable
<1>3. info \in InfoTable
  <2> SUFFICES ASSUME NEW x \in Programs \X Names  PROVE info[x] \in [ref : Nat, parsed : BOOLEAN]
    BY <1>0 DEF InfoTable
  <2>1. info[x] = IF x[1] # p THEN h.info[x]
                 ELSE IF h.info[x].ref <= 1 THEN NoInfo
                 ELSE [ref |-> h.info[x].ref - 1, parsed |-> h.info[x].ref > 2]
    BY <1>0
  <2> HIDE DEF info
  <2>2. CASE x[1] # p
    BY <1>0, <2>1, <2>2 DEF InfoTable
  <2>3. CASE x[1] = p /\ h.info[x].ref <= 1
    BY <2>1, <2>3 DEF NoInfo
  <2>4. CASE x[1] = p /\ ~ h.info[x].ref <= 1
    <3>1. PICK r \in Nat : r = h.info[x].ref
      BY <1>2
    <3>2. info[x] = [ref |-> r - 1, parsed |-> r > 2] /\ r > 1
      BY <2>1, <2>4, <3>1
    <3>3. r - 1 \in Nat /\ (r > 2) \in BOOLEAN
      BY <3>2
    <3> QED BY <3>2, <3>3
  <2> QED BY <2>2, <2>3, <2>4
<1>4. program \in [Programs -> Nat] /\ program[p] = 0
      /\ \A q \in Programs : q # p => program[q] = h.program[q]
  BY <1>0
<1>5. array \in Seq(Programs \cup {NULL}) /\ Range(array) \ {NULL} = Range(h.programArray) \ {p, NULL}
  BY <1>0, ClearFacts
<1>6. \A x \in Programs \X Names : info[x] =
        IF x[1] # p THEN h.info[x]
        ELSE IF h.info[x].ref <= 1 THEN NoInfo
        ELSE [ref |-> h.info[x].ref - 1, parsed |-> h.info[x].ref > 2]
  BY <1>0
<1> HIDE DEF info, program, array
<1>7. /\ g \in HeapType /\ g.kernel = h.kernel /\ g.data = h.data
      /\ g.kernelArray = h.kernelArray /\ g.program = program /\ g.info = info
      /\ g.programArray = array
  BY <1>3, <1>4, <1>5 DEF HeapType
<1>8. InfoCount(info, program, h.kernel)
  <2> SUFFICES ASSUME NEW x \in Programs \X Names
               PROVE  /\ info[x].ref = One(program[x[1]] > 0) + Cardinality(Namesakes(h.kernel, x))
                      /\ info[x].parsed = (info[x].ref >= 2)
    BY DEF InfoCount
  <2>0. PICK n \in Nat : n = Cardinality(Namesakes(h.kernel, x))
    BY NamesakesFacts
  <2>1. /\ h.info[x].ref = One(h.program[x[1]] > 0) + n
        /\ h.info[x].parsed = (h.info[x].ref >= 2)
    BY <2>0 DEF InfoCount
  <2>2. x[1] \in Programs
    OBVIOUS
  <2>3. CASE x[1] # p
    BY <1>4, <1>6, <2>0, <2>1, <2>2, <2>3
  <2>4. CASE x[1] = p
    <3>1. h.info[x].ref = n + 1
      BY <2>1, <2>4 DEF One
    <3>2. One(program[x[1]] > 0) = 0
      BY <1>4, <2>4 DEF One
    <3>3. info[x] = IF n = 0 THEN NoInfo ELSE [ref |-> n, parsed |-> n > 1]
      BY <1>6, <2>4, <3>1
    <3>4. info[x].ref = n /\ info[x].parsed = (n >= 2)
      <4>1. CASE n = 0
        <5>1. info[x] = NoInfo
          BY <3>3, <4>1
        <5>2. info[x].ref = 0 /\ info[x].parsed = FALSE
          BY <5>1 DEF NoInfo
        <5>3. (n >= 2) = FALSE
          BY <4>1
        <5> QED BY <4>1, <5>2, <5>3
      <4>2. CASE n # 0
        <5>1. info[x].ref = n /\ info[x].parsed = (n > 1)
          BY <3>3, <4>2
        <5> QED BY <5>1
      <4> QED BY <4>1, <4>2
    <3> QED BY <2>0, <3>2, <3>4
  <2> QED BY <2>3, <2>4
<1>9. ProgramsListed(g)
  BY <1>0, <1>4, <1>5, <1>7 DEF ProgramsListed
<1> QED BY <1>1, <1>7, <1>8, <1>9 DEF OnlyProgram, program, array

\* ReleaseProgram gives up one reference and, with the last, the program.
LEMMA ReleaseProgramIs ==
  ASSUME NEW h \in HeapType, NEW p \in Programs, NEW A,
         ProgramCount(h.program, h.kernel, A, p),
         InfoCount(h.info, h.program, h.kernel), ProgramsListed(h)
  PROVE  /\ OnlyProgram(h, ReleaseProgram(h, p))
         /\ ProgramCount(ReleaseProgram(h, p).program, h.kernel, A, NULL)
         /\ InfoCount(ReleaseProgram(h, p).info, ReleaseProgram(h, p).program, h.kernel)
         /\ ProgramsListed(ReleaseProgram(h, p))
         /\ ReleaseProgram(h, p).program[p] = h.program[p] - 1
         /\ \A q \in Programs : q # p => ReleaseProgram(h, p).program[q] = h.program[q]
         /\ \/ ReleaseProgram(h, p).programArray = h.programArray
            \/ ReleaseProgram(h, p).programArray = ClearSlot(h.programArray, p)
<1>0. h.program \in [Programs -> Nat] /\ NULL \notin Programs
  BY CmProgramsAssumption DEF HeapType
<1>1. \A q \in Programs : /\ IsFiniteSet(ProgramTokens(h.kernel, q))
                          /\ Cardinality(ProgramTokens(h.kernel, q)) \in Nat
                          /\ h.program[q] = One(q \in A) + One(q = p) + Cardinality(ProgramTokens(h.kernel, q))
  BY FS_CardinalityType DEF ProgramCount
<1>2. \A c : One(c) \in Nat
  BY DEF One
<1>3. One(p = p) = 1 /\ \A q \in Programs : One(q = NULL) = 0 /\ (q # p => One(q = p) = 0)
  BY <1>0 DEF One
<1>4. h.program[p] > 0
  BY <1>1, <1>2, <1>3
<1>5. ASSUME NEW program, program[p] = h.program[p] - 1,
             \A q \in Programs : q # p => program[q] = h.program[q]
      PROVE  ProgramCount(program, h.kernel, A, NULL)
  <2> SUFFICES ASSUME NEW q \in Programs
               PROVE  program[q] = One(q \in A) + One(q = NULL) + Cardinality(ProgramTokens(h.kernel, q))
    BY <1>1 DEF ProgramCount
  <2> QED BY <1>1, <1>2, <1>3, <1>5
<1>6. CASE h.program[p] = 1
  <2>1. ReleaseProgram(h, p) = DeleteProgram(h, p)
    BY <1>6 DEF ReleaseProgram
  <2>2. PICK g : g = DeleteProgram(h, p)
    OBVIOUS
  <2>3. /\ OnlyProgram(h, g) /\ g.program = [h.program EXCEPT ![p] = 0]
        /\ InfoCount(g.info, g.program, h.kernel) /\ ProgramsListed(g)
        /\ g.programArray = ClearSlot(h.programArray, p)
    BY <1>4, <2>2, DeleteProgramIs
  <2>4. g.program[p] = h.program[p] - 1 /\ \A q \in Programs : q # p => g.program[q] = h.program[q]
    BY <1>0, <1>6, <2>3
  <2>5. ProgramCount(g.program, h.kernel, A, NULL)
    BY <1>5, <2>4
  <2> QED BY <2>1, <2>2, <2>3, <2>4, <2>5
<1>7. CASE h.program[p] # 1
  <2>0. PICK n \in Nat : n = h.program[p] - 1 /\ n > 0
    BY <1>0, <1>4, <1>7
  <2> DEFINE program == [h.program EXCEPT ![p] = n]
             g == [h EXCEPT !.program = program]
  <2>1. ReleaseProgram(h, p) = g
    BY <1>7, <2>0 DEF ReleaseProgram, HeapType
  <2>2. program \in [Programs -> Nat] /\ program[p] = n
        /\ \A q \in Programs : q # p => program[q] = h.program[q]
    BY <1>0
  <2> HIDE DEF program
  <2>3. /\ g \in HeapType /\ g.kernel = h.kernel /\ g.data = h.data
        /\ g.kernelArray = h.kernelArray /\ g.program = program /\ g.info = h.info
        /\ g.programArray = h.programArray
    BY <2>2 DEF HeapType
  <2>4. \A q \in Programs : program[q] > 0 <=> h.program[q] > 0
    BY <1>4, <2>0, <2>2
  <2>5. InfoCount(h.info, program, h.kernel)
    <3> SUFFICES ASSUME NEW x \in Programs \X Names
                 PROVE  One(program[x[1]] > 0) = One(h.program[x[1]] > 0)
      BY DEF InfoCount
    <3>1. x[1] \in Programs
      OBVIOUS
    <3> QED BY <2>4, <3>1 DEF One
  <2>6. ProgramsListed(g)
    BY <2>3, <2>4 DEF ProgramsListed
  <2>7. ProgramCount(program, h.kernel, A, NULL)
    BY <1>5, <2>0, <2>2
  <2> QED BY <2>0, <2>1, <2>2, <2>3, <2>5, <2>6, <2>7 DEF OnlyProgram
<1> QED BY <1>6, <1>7

-----------------------------------------------------------------------------
(***************************************************************************)
(* A reference of a kernel is given up.                                    *)
(***************************************************************************)
LessInfo(i) == [ref |-> i.ref - 1, parsed |-> i.parsed /\ i.ref > 2]

\* ReleaseKernelInfo keeps the information counted when a kernel goes.
LEMMA ReleaseKernelInfoIs ==
  ASSUME NEW info \in InfoTable, NEW program \in [Programs -> Nat],
         NEW old \in KernelTable, NEW new \in KernelTable, NEW k \in Kernels,
         old[k].ref > 0, new[k].ref = 0, \A j \in Kernels : j # k => new[j] = old[j],
         NEW x \in Programs \X Names, x = <<old[k].program, old[k].name>>,
         InfoCount(info, program, old),
         NEW f \in InfoTable, f[x] = LessInfo(info[x]),
         \A y \in Programs \X Names : y # x => f[y] = info[y]
  PROVE  InfoCount(f, program, new)
<1>1. \A y \in Programs \X Names : Cardinality(Namesakes(old, y)) =
                                     Cardinality(Namesakes(new, y)) + One(y = x)
  BY OneNamesake
<1>2. PICK n \in Nat : n = Cardinality(Namesakes(new, x))
  BY NamesakesFacts
<1>3. PICK b \in {0, 1} : b = One(program[x[1]] > 0)
  BY DEF One
<1>4. info[x].ref = b + n + 1 /\ info[x].parsed = (info[x].ref >= 2)
  <2>1. Cardinality(Namesakes(old, x)) = n + 1
    BY <1>1, <1>2 DEF One
  <2> QED BY <1>3, <2>1 DEF InfoCount
<1>5. f[x] = [ref |-> b + n, parsed |-> (b + n + 1 >= 2) /\ (b + n + 1 > 2)]
  <2>1. info[x].ref - 1 = b + n
    BY <1>4
  <2> QED BY <1>4, <2>1 DEF LessInfo
<1>6. f[x].ref = b + n /\ f[x].parsed = (b + n >= 2)
  <2>1. ((b + n + 1 >= 2) /\ (b + n + 1 > 2)) = (b + n >= 2)
    OBVIOUS
  <2>2. f[x] = [ref |-> b + n, parsed |-> (b + n >= 2)]
    BY <1>5, <2>1
  <2> QED BY <2>2
<1>8. InfoCount(f, program, new)
  <2> SUFFICES ASSUME NEW y \in Programs \X Names
               PROVE  /\ f[y].ref = One(program[y[1]] > 0) + Cardinality(Namesakes(new, y))
                      /\ f[y].parsed = (f[y].ref >= 2)
    BY DEF InfoCount
  <2>1. CASE y = x
    BY <1>2, <1>3, <1>6, <2>1
  <2>2. CASE y # x
    <3>1. Cardinality(Namesakes(old, y)) = Cardinality(Namesakes(new, y))
      BY <1>1, <2>2, NamesakesFacts DEF One
    <3> QED BY <2>2, <3>1 DEF InfoCount
  <2> QED BY <2>1, <2>2
<1> QED BY <1>8

\* Kernel k is gone, or has no last data any more, which is not yet released.
LEMMA GoneKernel ==
  ASSUME NEW data \in DataTable, NEW old \in KernelTable, NEW new \in KernelTable,
         NEW k \in Kernels, old[k].ref > 0, new[k].ref > 0 => new[k].last = 0,
         \A j \in Kernels : j # k => new[j] = old[j],
         NEW held, DataCount(data, old, held, 0), LastInv(data, old)
  PROVE  DataCount(data, new, held, old[k].last) /\ LastInv(data, new)
<1>1. LastInv(data, new)
  BY KernelFacts DEF LastInv
<1>2. \A d \in Datas : IsLast(old, d) <=> IsLast(new, d) \/ d = old[k].last
  <2> TAKE d \in Datas
  <2>1. d = old[k].last => IsLast(old, d)
    BY DEF IsLast
  <2>0. d # 0
    BY DatasFacts
  <2>2. IsLast(new, d) => IsLast(old, d)
    BY <2>0, KernelFacts DEF IsLast
  <2>3. IsLast(old, d) => IsLast(new, d) \/ d = old[k].last
    BY KernelFacts DEF IsLast
  <2> QED BY <2>1, <2>2, <2>3
<1>3. \A d \in Datas : d = old[k].last => ~ IsLast(new, d)
  <2> SUFFICES ASSUME NEW d \in Datas, d = old[k].last, NEW j \in Kernels, new[j].ref > 0,
                      new[j].last = d
               PROVE FALSE
    BY DEF IsLast
  <2>1. d # 0
    BY DatasFacts
  <2>2. j # k /\ new[j] = old[j]
    BY <2>1, KernelFacts
  <2>3. data[d].kernel = j
    BY <2>1, <2>2 DEF LastInv
  <2>4. data[d].kernel = k
    BY <2>1 DEF LastInv
  <2> QED BY <2>2, <2>3, <2>4
<1>4. DataCount(data, new, held, old[k].last)
  <2> SUFFICES ASSUME NEW d \in Datas
               PROVE  One(IsLast(old, d)) + One(d = 0) = One(IsLast(new, d)) + One(d = old[k].last)
    <3>1. \A d \in Datas : Cardinality(HoldersOf(held, d)) \in Nat
      BY HoldersFacts
    <3>2. \A c : One(c) \in Nat
      BY DEF One
    <3> QED BY <3>1, <3>2 DEF DataCount
  <2>1. d # 0
    BY DatasFacts
  <2> QED BY <1>2, <1>3, <2>1 DEF One
<1> QED BY <1>1, <1>4

\* One reference less; the last one takes the kernel with it.
Dropped(old, new, k) ==
    /\ new \in KernelTable /\ new[k].ref = old[k].ref - 1
    /\ new[k].ref > 0 => /\ new[k].program = old[k].program /\ new[k].name = old[k].name
                         /\ new[k].last = old[k].last
    /\ \A j \in Kernels : j # k => new[j] = old[j]

\* A kernel with a reference less leaves its program one ahead.
LEMMA DroppedProgramCount ==
  ASSUME NEW old \in KernelTable, NEW new, NEW k \in Kernels, old[k].ref > 0,
         Dropped(old, new, k), NEW program, NEW A,
         ProgramCount(program, old, A, NULL)
  PROVE  ProgramCount(program, new, A, old[k].program)
<1>0. /\ new \in KernelTable /\ new[k].ref \in Nat /\ old[k].ref = new[k].ref + 1
      /\ \A j \in Kernels : j # k => new[j].ref = old[j].ref
                                     /\ (new[j].ref > 0 => new[j].program = old[j].program)
      /\ new[k].ref > 0 => new[k].program = old[k].program
      /\ old[k].program \in Programs
  BY KernelFacts DEF Dropped, KernelType
<1>1. \A p : /\ IsFiniteSet(ProgramTokens(new, p)) <=> IsFiniteSet(ProgramTokens(old, p))
             /\ IsFiniteSet(ProgramTokens(new, p)) =>
                  /\ Cardinality(ProgramTokens(new, p)) \in Nat
                  /\ Cardinality(ProgramTokens(old, p)) =
                       Cardinality(ProgramTokens(new, p)) + One(p = old[k].program)
  <2>1. PICK q \in Programs, r \in Nat : q = old[k].program /\ r = new[k].ref
    BY <1>0
  <2>2. old[k].ref = r + 1 /\ old[k].program = q /\ new[k].ref = r
        /\ (r > 0 => new[k].program = q)
    BY <1>0, <2>1
  <2>3. \A j \in Kernels : j # k => old[j].ref = new[j].ref
                                    /\ (new[j].ref > 0 => old[j].program = new[j].program)
    BY <1>0
  <2> QED BY <1>0, <2>1, <2>2, <2>3, OneProgramToken
<1>2. ASSUME NEW p \in Programs
      PROVE  /\ IsFiniteSet(ProgramTokens(new, p))
             /\ program[p] = One(p \in A) + One(p = old[k].program) + Cardinality(ProgramTokens(new, p))
  <2>1. /\ IsFiniteSet(ProgramTokens(old, p))
        /\ program[p] = One(p \in A) + One(p = NULL) + Cardinality(ProgramTokens(old, p))
    BY DEF ProgramCount
  <2>2. One(p = NULL) = 0
    BY CmProgramsAssumption DEF One
  <2>3. \A c : One(c) \in Nat
    BY DEF One
  <2> QED BY <1>1, <2>1, <2>2, <2>3
<1> QED BY <1>2 DEF ProgramCount

\* A kernel with a reference less is one behind.
LEMMA DroppedKernelCount ==
  ASSUME NEW old \in KernelTable, NEW new, NEW k \in Kernels, Dropped(old, new, k),
         NEW data, NEW A, NEW F, KernelCount(old, data, A, F, NULL)
  PROVE  KernelCount(new, data, A, F, k)
<1> SUFFICES ASSUME NEW j \in Kernels
             PROVE  new[j].ref + One(j = k) = old[j].ref + One(j = NULL)
  BY DEF KernelCount
<1>1. One(j = NULL) = 0
  BY CmProgramsAssumption DEF One
<1>2. old[j].ref \in Nat
  BY KernelFacts
<1> QED BY <1>1, <1>2 DEF Dropped, One

\* ~CmKernel_RT gives up the information and the last data of the kernel.
LEMMA DeleteKernelIs ==
  ASSUME NEW h \in HeapType, NEW k \in Kernels, h.kernel[k].ref = 1, NEW held,
         InfoCount(h.info, h.program, h.kernel),
         DataCount(h.data, h.kernel, held, 0), LastInv(h.data, h.kernel)
  PROVE  /\ DeleteKernel(h, k) \in HeapType
         /\ DeleteKernel(h, k).program = h.program
         /\ DeleteKernel(h, k).programArray = h.programArray
         /\ DeleteKernel(h, k).kernelArray = ClearSlot(h.kernelArray, k)
         /\ Dropped(h.kernel, DeleteKernel(h, k).kernel, k)
         /\ InfoCount(DeleteKernel(h, k).info, h.program, DeleteKernel(h, k).kernel)
         /\ DataCount(DeleteKernel(h, k).data, DeleteKernel(h, k).kernel, held, 0)
         /\ LastInv(DeleteKernel(h, k).data, DeleteKernel(h, k).kernel)
         /\ DeleteKernel(h, k).data = h.data
            \/ \E d \in Datas : Released(h.data, DeleteKernel(h, k).data, d)
<1>0. /\ h.kernel \in KernelTable /\ h.kernel[k] \in KernelType /\ h.data \in DataTable
      /\ h.info \in InfoTable /\ h.program \in [Programs -> Nat]
      /\ h.kernelArray \in Seq(Kernels \cup {NULL})
  BY KernelFacts DEF HeapType
<1>1. PICK last \in {0} \cup Datas : last = h.kernel[k].last
  BY <1>0 DEF KernelType
<1>2. PICK x \in Programs \X Names : x = <<h.kernel[k].program, h.kernel[k].name>>
  BY <1>0 DEF KernelType
<1>3. PICK w : w = IF last = 0 THEN h ELSE ReleaseData(h, last)
  OBVIOUS
<1> DEFINE kernel == [h.kernel EXCEPT ![k] = NoKernel]
           r == [ref |-> h.info[x].ref - 1, parsed |-> h.info[x].parsed /\ h.info[x].ref > 2]
           info == [h.info EXCEPT ![x] = r]
           array == ClearSlot(h.kernelArray, k)
<1>4. /\ kernel \in KernelTable /\ kernel[k] = NoKernel
      /\ \A j \in Kernels : j # k => kernel[j] = h.kernel[j]
  BY <1>0 DEF KernelTable
<1> HIDE DEF kernel
<1>5. Dropped(h.kernel, kernel, k) /\ kernel[k].ref = 0
  BY <1>4 DEF Dropped, NoKernel
<1>6. info \in InfoTable /\ InfoCount(info, h.program, kernel)
  <2>1. h.kernel[k].ref > 0
    OBVIOUS
  <2>2. r = LessInfo(h.info[x])
    BY DEF LessInfo
  <2> HIDE DEF r
  <2>3. info = [h.info EXCEPT ![x] = r]
    OBVIOUS
  <2> HIDE DEF info
  <2>4. r \in [ref : Nat, parsed : BOOLEAN]
    <3>1. h.info[x].ref >= 1
      <4>1. k \in Namesakes(h.kernel, x)
        BY <1>2, <2>1 DEF Namesakes
      <4>2. Cardinality(Namesakes(h.kernel, x)) \in Nat \ {0}
        BY <4>1, NamesakesFacts
      <4>3. h.info[x].ref = One(h.program[x[1]] > 0) + Cardinality(Namesakes(h.kernel, x))
        BY DEF InfoCount
      <4> QED BY <4>2, <4>3 DEF One
    <3>2. h.info[x].ref \in Nat /\ h.info[x].parsed \in BOOLEAN
      BY <1>0 DEF InfoTable
    <3>3. PICK n \in Nat : n = h.info[x].ref - 1
      BY <3>1, <3>2
    <3>4. PICK b \in BOOLEAN : b = (h.info[x].parsed /\ h.info[x].ref > 2)
      BY <3>2
    <3>5. r = [ref |-> n, parsed |-> b]
      BY <3>3, <3>4 DEF r
    <3> QED BY <3>5
  <2>5. /\ info \in InfoTable /\ info[x] = LessInfo(h.info[x])
        /\ \A y \in Programs \X Names : y # x => info[y] = h.info[y]
    BY <1>0, <2>2, <2>3, <2>4 DEF InfoTable
  <2>6. PICK i : i = h.info
    OBVIOUS
  <2>7. PICK q : q = h.program
    OBVIOUS
  <2>8. PICK old : old = h.kernel
    OBVIOUS
  <2>9. /\ i \in InfoTable /\ q \in [Programs -> Nat] /\ old \in KernelTable
        /\ kernel \in KernelTable
    BY <1>0, <1>4, <2>6, <2>7, <2>8
  <2>10. /\ old[k].ref > 0 /\ kernel[k].ref = 0
         /\ \A j \in Kernels : j # k => kernel[j] = old[j]
    BY <1>4, <1>5, <2>1, <2>8
  <2>11. InfoCount(i, q, old)
    BY <2>6, <2>7, <2>8
  <2>12. x = <<old[k].program, old[k].name>>
    BY <1>2, <2>8
  <2>13. /\ info[x] = LessInfo(i[x]) /\ info \in InfoTable
         /\ \A y \in Programs \X Names : y # x => info[y] = i[y]
    BY <2>5, <2>6
  <2>14. InfoCount(info, q, kernel)
    BY <2>9, <2>10, <2>11, <2>12, <2>13, ReleaseKernelInfoIs
  <2> QED BY <2>5, <2>7, <2>14
<1>7. DataCount(h.data, kernel, held, last) /\ LastInv(h.data, kernel)
  BY <1>0, <1>1, <1>4, <1>5, GoneKernel
<1>8. /\ w \in HeapType /\ w.program = h.program /\ w.info = h.info /\ w.kernel = h.kernel
      /\ w.programArray = h.programArray /\ w.kernelArray = h.kernelArray
      /\ DataCount(w.data, kernel, held, 0) /\ LastInv(w.data, kernel)
      /\ w.data = h.data \/ \E d \in Datas : Released(h.data, w.data, d)
  <2>1. CASE last = 0
    BY <1>3, <1>7, <2>1
  <2>2. CASE last # 0
    <3>1. last \in Datas /\ h.data[last].ref > 0 /\ w = ReleaseData(h, last)
      BY <1>0, <1>1, <1>3, <2>2 DEF LastInv
    <3>2. w \in HeapType /\ w = [h EXCEPT !.data = w.data] /\ Released(h.data, w.data, last)
      BY <3>1, ReleaseDataIs
    <3>3. /\ w.program = h.program /\ w.info = h.info /\ w.kernel = h.kernel
          /\ w.programArray = h.programArray /\ w.kernelArray = h.kernelArray
      BY <3>2 DEF HeapType
    <3>4. DataCount(w.data, kernel, held, 0) /\ LastInv(w.data, kernel)
      BY <1>4, <1>7, <3>1, <3>2, ReleasedData
    <3> QED BY <3>1, <3>2, <3>3, <3>4
  <2> QED BY <2>1, <2>2
<1> HIDE DEF info, array
<1> DEFINE g == [w EXCEPT !.info = info, !.kernel = kernel, !.kernelArray = array]
<1>9. DeleteKernel(h, k) = g
  <2>1. ReleaseKernelInfo(w, x) = [w EXCEPT !.info = info]
    BY <1>8 DEF ReleaseKernelInfo, HeapType, info
  <2>2. DeleteKernel(h, k) = [ReleaseKernelInfo(w, x) EXCEPT !.kernel[k] = NoKernel,
                                !.kernelArray = ClearSlot(@, k)]
    BY <1>1, <1>2, <1>3 DEF DeleteKernel
  <2> QED BY <1>8, <2>1, <2>2 DEF HeapType, kernel, array
<1>10. array \in Seq(Kernels \cup {NULL})
  BY <1>0, ClearFacts DEF array
<1>11. /\ g \in HeapType /\ g.program = w.program /\ g.programArray = w.programArray
       /\ g.kernelArray = array /\ g.kernel = kernel /\ g.info = info /\ g.data = w.data
  BY <1>4, <1>6, <1>8, <1>10 DEF HeapType
<1> HIDE DEF g
<1> QED BY <1>5, <1>6, <1>8, <1>9, <1>11 DEF array

\* A kernel that loses a reference but not the last holds what it held.
LEMMA DroppedHold ==
  ASSUME NEW h \in HeapType, NEW k \in Kernels, h.kernel[k].ref > 1, NEW held,
         InfoCount(h.info, h.program, h.kernel),
         DataCount(h.data, h.kernel, held, 0), LastInv(h.data, h.kernel),
         NEW w, w = [h EXCEPT !.kernel[k].ref = @ - 1]
  PROVE  /\ w \in HeapType
         /\ w.program = h.program /\ w.programArray = h.programArray
         /\ w.kernelArray = h.kernelArray /\ w.data = h.data /\ w.info = h.info
         /\ Dropped(h.kernel, w.kernel, k)
         /\ InfoCount(h.info, h.program, w.kernel)
         /\ DataCount(h.data, w.kernel, held, 0)
         /\ LastInv(h.data, w.kernel)
<1>0. h.kernel \in KernelTable /\ h.kernel[k] \in KernelType
  BY KernelFacts DEF HeapType
<1>1. PICK r \in Nat \ {0} : r = h.kernel[k].ref - 1
  BY <1>0 DEF KernelType
<1> DEFINE new == [h.kernel EXCEPT ![k] = [ref |-> r, program |-> h.kernel[k].program,
                     name |-> h.kernel[k].name, last |-> h.kernel[k].last]]
<1>2. w = [h EXCEPT !.kernel[k].ref = r]
  BY <1>1
<1>3. [h.kernel[k] EXCEPT !.ref = r] = [ref |-> r, program |-> h.kernel[k].program,
         name |-> h.kernel[k].name, last |-> h.kernel[k].last]
  BY <1>0 DEF KernelType
<1>4. w = [h EXCEPT !.kernel = new]
  BY <1>2, <1>3 DEF HeapType
<1>5. /\ new \in KernelTable /\ new[k].ref = r /\ new[k].program = h.kernel[k].program
      /\ new[k].name = h.kernel[k].name /\ new[k].last = h.kernel[k].last
      /\ \A j \in Kernels : j # k => new[j] = h.kernel[j]
  BY <1>0 DEF KernelTable, KernelType
<1> HIDE DEF new
<1>6. /\ w \in HeapType /\ w.program = h.program /\ w.programArray = h.programArray
      /\ w.kernelArray = h.kernelArray /\ w.data = h.data /\ w.info = h.info /\ w.kernel = new
  BY <1>4, <1>5 DEF HeapType
<1>7. Dropped(h.kernel, new, k)
  BY <1>1, <1>5 DEF Dropped
<1>8. \A j \in Kernels :
        /\ new[j].ref > 0 <=> h.kernel[j].ref > 0
        /\ new[j].program = h.kernel[j].program /\ new[j].name = h.kernel[j].name
        /\ new[j].last = h.kernel[j].last
  <2> TAKE j \in Kernels
  <2>1. CASE j = k
    <3>1. new[k].ref > 0 /\ h.kernel[k].ref > 0
      <4>1. r > 0
        OBVIOUS
      <4>2. h.kernel[k].ref \in Nat /\ h.kernel[k].ref > 1
        BY <1>0 DEF KernelType
      <4> QED BY <1>5, <4>1, <4>2
    <3> QED BY <1>5, <2>1, <3>1
  <2>2. CASE j # k
    BY <1>5, <2>2
  <2> QED BY <2>1, <2>2
<1>9. InfoCount(h.info, h.program, new)
  BY <1>0, <1>5, <1>8, SameNamesakes DEF InfoCount
<1>10. \A d : IsLast(new, d) <=> IsLast(h.kernel, d)
  BY <1>8 DEF IsLast
<1>11. DataCount(h.data, new, held, 0)
  BY <1>10 DEF DataCount, One
<1>12. LastInv(h.data, new)
  BY <1>8 DEF LastInv
<1> QED BY <1>6, <1>7, <1>9, <1>11, <1>12

\* One reference less of a kernel, and of its program: the other counts hold.
LEMMA DestroyKernelReferenceIs ==
  ASSUME NEW h \in HeapType, NEW k \in Kernels, h.kernel[k].ref > 0, NEW held, NEW A,
         ProgramCount(h.program, h.kernel, A, NULL), InfoCount(h.info, h.program, h.kernel),
         DataCount(h.data, h.kernel, held, 0), LastInv(h.data, h.kernel), ProgramsListed(h),
         NEW g, g = DestroyKernelReference(h, k)
  PROVE  /\ g \in HeapType
         /\ ProgramCount(g.program, g.kernel, A, NULL)
         /\ InfoCount(g.info, g.program, g.kernel)
         /\ DataCount(g.data, g.kernel, held, 0) /\ LastInv(g.data, g.kernel)
         /\ ProgramsListed(g)
         /\ Dropped(h.kernel, g.kernel, k)
         /\ g.kernelArray = IF h.kernel[k].ref = 1 THEN ClearSlot(h.kernelArray, k)
                            ELSE h.kernelArray
         /\ g.data = h.data \/ \E d \in Datas : Released(h.data, g.data, d)
<1>0. h.kernel \in KernelTable /\ h.kernel[k] \in KernelType
  BY KernelFacts DEF HeapType
<1>1. PICK p \in Programs : p = h.kernel[k].program
  BY <1>0 DEF KernelType
<1>2. PICK w : w = IF h.kernel[k].ref = 1 THEN DeleteKernel(h, k)
                   ELSE [h EXCEPT !.kernel[k].ref = @ - 1]
  OBVIOUS
<1>3. g = ReleaseProgram(w, p)
  BY <1>1, <1>2 DEF DestroyKernelReference
<1>4. /\ w \in HeapType
      /\ w.program = h.program /\ w.programArray = h.programArray
      /\ Dropped(h.kernel, w.kernel, k)
      /\ InfoCount(w.info, w.program, w.kernel)
      /\ DataCount(w.data, w.kernel, held, 0) /\ LastInv(w.data, w.kernel)
      /\ w.kernelArray = IF h.kernel[k].ref = 1 THEN ClearSlot(h.kernelArray, k)
                         ELSE h.kernelArray
      /\ w.data = h.data \/ \E d \in Datas : Released(h.data, w.data, d)
  <2>1. CASE h.kernel[k].ref = 1
    <3>1. w = DeleteKernel(h, k)
      BY <1>2, <2>1
    <3> QED BY <2>1, <3>1, DeleteKernelIs
  <2>2. CASE h.kernel[k].ref # 1
    <3>1. w = [h EXCEPT !.kernel[k].ref = @ - 1]
      BY <1>2, <2>2
    <3>2. h.kernel[k].ref > 1
      BY <1>0, <2>2 DEF KernelType
    <3>3. /\ w \in HeapType
          /\ w.program = h.program /\ w.programArray = h.programArray
          /\ w.kernelArray = h.kernelArray /\ w.data = h.data /\ w.info = h.info
      BY <3>1, <3>2, DroppedHold
    <3>4. Dropped(h.kernel, w.kernel, k)
      BY <3>1, <3>2, DroppedHold
    <3>5. InfoCount(h.info, h.program, w.kernel)
      BY <3>1, <3>2, DroppedHold
    <3>6. DataCount(h.data, w.kernel, held, 0) /\ LastInv(h.data, w.kernel)
      BY <3>1, <3>2, DroppedHold
    <3> QED BY <2>2, <3>3, <3>4, <3>5, <3>6
  <2> QED BY <2>1, <2>2
<1>5. ProgramCount(w.program, w.kernel, A, p)
  <2>1. PICK old, new, program : old = h.kernel /\ new = w.kernel /\ program = h.program
    OBVIOUS
  <2>2. old \in KernelTable /\ old[k].ref > 0 /\ Dropped(old, new, k)
        /\ ProgramCount(program, old, A, NULL) /\ p = old[k].program
    BY <1>0, <1>1, <1>4, <2>1
  <2>3. ProgramCount(program, new, A, p)
    BY <2>2, DroppedProgramCount
  <2> QED BY <1>4, <2>1, <2>3
<1>6. ProgramsListed(w)
  BY <1>4 DEF ProgramsListed
<1>7. /\ OnlyProgram(w, g)
      /\ ProgramCount(g.program, w.kernel, A, NULL)
      /\ InfoCount(g.info, g.program, w.kernel)
      /\ ProgramsListed(g)
  BY <1>3, <1>4, <1>5, <1>6, ReleaseProgramIs
<1> QED BY <1>4, <1>7 DEF OnlyProgram

-----------------------------------------------------------------------------
(***************************************************************************)
(* While the device is open.                                               *)
(***************************************************************************)
LEMMA LiveKernel ==
  ASSUME NEW kernel \in KernelTable, NEW k \in Kernels, kernel[k].ref > 0,
         NEW program, NEW A, ProgramCount(program, kernel, A, NULL)
  PROVE  kernel[k].program \in Programs /\ program[kernel[k].program] > 0
<1>1. PICK p \in Programs : p = kernel[k].program
  BY KernelFacts DEF KernelType
<1>2. kernel[k].ref \in Nat /\ kernel[k].ref >= 1
  BY KernelFacts
<1>3. <<k, 1>> \in ProgramTokens(kernel, p)
  BY <1>1, <1>2 DEF ProgramTokens
<1>4. /\ IsFiniteSet(ProgramTokens(kernel, p))
      /\ program[p] = One(p \in A) + One(p = NULL) + Cardinality(ProgramTokens(kernel, p))
  BY DEF ProgramCount
<1>5. Cardinality(ProgramTokens(kernel, p)) \in Nat \ {0}
  BY <1>3, <1>4, FS_CardinalityType, FS_EmptySet
<1> QED BY <1>1, <1>4, <1>5 DEF One

\* As long as the device is open the kernel is one behind then.
LEMMA DestroyInOpen ==
  ASSUME NEW h \in HeapType, NEW k \in Kernels, h.kernel[k].ref > 0,
         NEW A, NEW F, NEW held, NEW waits,
         OpenInv(h, A, held, waits, F, NULL),
         NEW g, g = DestroyKernelReference(h, k)
  PROVE  /\ g \in HeapType /\ OpenInv(g, A, held, waits, F, k)
         /\ g.data = h.data \/ \E d \in Datas : Released(h.data, g.data, d)
<1>00. held \in SUBSET (Tasks \X Datas) /\ waits \in SUBSET held
  BY DEF OpenInv
<1> USE <1>00
<1>0. h.kernel \in KernelTable /\ h.data \in DataTable /\ h.kernelArray \in Seq(Kernels \cup {NULL})
  BY DEF HeapType
<1>1. /\ g \in HeapType
      /\ ProgramCount(g.program, g.kernel, A, NULL)
      /\ InfoCount(g.info, g.program, g.kernel)
      /\ DataCount(g.data, g.kernel, held, 0) /\ LastInv(g.data, g.kernel)
      /\ ProgramsListed(g)
      /\ Dropped(h.kernel, g.kernel, k)
      /\ g.kernelArray = IF h.kernel[k].ref = 1 THEN ClearSlot(h.kernelArray, k)
                         ELSE h.kernelArray
      /\ g.data = h.data \/ \E d \in Datas : Released(h.data, g.data, d)
  BY DestroyKernelReferenceIs DEF OpenInv
<1>2. PICK old, new, data, later : /\ old = h.kernel /\ new = g.kernel
                                   /\ data = h.data /\ later = g.data
  OBVIOUS
<1>3. /\ old \in KernelTable /\ new \in KernelTable /\ Dropped(old, new, k)
      /\ KernelCount(old, data, A, F, NULL)
  BY <1>0, <1>1, <1>2 DEF OpenInv, Dropped
<1>4. KernelCount(new, data, A, F, k)
  BY <1>3, DroppedKernelCount
<1>5. KernelCount(new, later, A, F, k) /\ WaitCount(later, waits, F) /\ OneOfAKernel(later, held)
  <2>1. WaitCount(data, waits, F) /\ OneOfAKernel(data, held) /\ DataCount(later, new, held, 0)
    BY <1>1, <1>2 DEF OpenInv
  <2>2. CASE later = data
    BY <1>4, <2>1, <2>2
  <2>3. ASSUME NEW d \in Datas, Released(data, later, d)
        PROVE  KernelCount(new, later, A, F, k) /\ WaitCount(later, waits, F)
               /\ OneOfAKernel(later, held)
    <3>1. KernelCount(new, later, A, F, k) /\ WaitCount(later, waits, F)
      BY <1>3, <1>4, <2>1, <2>3, ReleasedTokens
    <3>2. OneOfAKernel(later, held)
      BY <2>1, <2>3, ReleasedOneOfAKernel
    <3> QED BY <3>1, <3>2
  <2> QED BY <1>1, <1>2, <2>2, <2>3
<1>6. KernelsListed(g)
  <2>1. Range(h.kernelArray) \ {NULL} = {j \in Kernels : h.kernel[j].ref > 0}
    BY DEF OpenInv, KernelsListed
  <2>2. CASE h.kernel[k].ref = 1
    <3>1. Range(g.kernelArray) \ {NULL} = Range(h.kernelArray) \ {k, NULL}
      BY <1>0, <1>1, <2>2, ClearFacts
    <3>2. \A j \in Kernels : g.kernel[j].ref > 0 <=> h.kernel[j].ref > 0 /\ j # k
      BY <1>1, <2>2 DEF Dropped
    <3> QED BY <2>1, <3>1, <3>2 DEF KernelsListed
  <2>3. CASE h.kernel[k].ref # 1
    <3>1. g.kernelArray = h.kernelArray
      BY <1>1, <2>3
    <3>2. h.kernel[k].ref \in Nat
      BY <1>0, KernelFacts
    <3>3. g.kernel[k].ref > 0
      BY <1>1, <2>3, <3>2 DEF Dropped
    <3>4. \A j \in Kernels : g.kernel[j].ref > 0 <=> h.kernel[j].ref > 0
      BY <1>1, <3>3 DEF Dropped
    <3> QED BY <2>1, <3>1, <3>4 DEF KernelsListed
  <2> QED BY <2>2, <2>3
<1> QED BY <1>1, <1>2, <1>5, <1>6 DEF OpenInv

\* The device finds a kernel that lives.
LEMMA DeviceFindsKernel ==
  ASSUME NEW h \in HeapType, NEW k \in Kernels, h.kernel[k].ref > 0,
         NEW A, NEW F, NEW held, NEW waits, OpenInv(h, A, held, waits, F, NULL)
  PROVE  DestroyKernelInDevice(h, k) = DestroyKernelReference(h, k)
<1>1. k \in Range(h.kernelArray)
  BY DEF OpenInv, KernelsListed
<1>2. h.kernel[k].program \in Programs /\ h.program[h.kernel[k].program] > 0
  <2>1. h.kernel \in KernelTable
    BY DEF HeapType
  <2> QED BY <2>1, LiveKernel DEF OpenInv
<1>3. h.kernel[k].program \in Range(h.programArray)
  BY <1>2 DEF OpenInv, ProgramsListed
<1> QED BY <1>1, <1>3, ListedFacts DEF DestroyKernelInDevice

\* The application's reference is the one that was given up.
LEMMA KernelNotHeld ==
  ASSUME NEW h \in HeapType, NEW k \in Kernels, NEW A, k \in A,
         NEW F, NEW held, NEW waits, OpenInv(h, A, held, waits, F, k)
  PROVE  OpenInv(h, A \ {k}, held, waits, F, NULL)
<1>1. KernelCount(h.kernel, h.data, A \ {k}, F, NULL)
  <2>0. KernelCount(h.kernel, h.data, A, F, k)
    BY DEF OpenInv
  <2>1. \A j \in Kernels : /\ h.kernel[j].ref \in Nat
                           /\ IsFiniteSet(KernelTokens(h.data, j))
                           /\ Cardinality(KernelTokens(h.data, j)) \in Nat
    BY <2>0, KernelFacts, FS_CardinalityType DEF KernelCount, HeapType
  <2>2. \A j \in Kernels : /\ One(j = NULL) = 0
                           /\ One(j \in A) = One(j \in A \ {k}) + One(j = k)
                           /\ One(j \in A) \in Nat /\ One(j = k) \in Nat
                           /\ One(j \in A \ {k}) \in Nat
    BY CmProgramsAssumption DEF One
  <2> QED BY <2>0, <2>1, <2>2 DEF KernelCount
<1>2. ProgramCount(h.program, h.kernel, A \ {k}, NULL)
  <2>1. \A p \in Programs : p \in A <=> p \in A \ {k}
    BY CmProgramsAssumption
  <2> QED BY <2>1 DEF OpenInv, ProgramCount, One
<1> QED BY <1>1, <1>2 DEF OpenInv

\* DestroyKernel of the device gives up the reference of the application.
LEMMA DestroyKernelOpen ==
  ASSUME NEW h \in HeapType, NEW k \in Kernels, NEW A, k \in A,
         NEW F, NEW held, NEW waits,
         OpenInv(h, A, held, waits, F, NULL),
         NEW g, g = DestroyKernelInDevice(h, k)
  PROVE  /\ g \in HeapType /\ OpenInv(g, A \ {k}, held, waits, F, NULL)
         /\ g.data = h.data \/ \E d \in Datas : Released(h.data, g.data, d)
<1>00. held \in SUBSET (Tasks \X Datas) /\ waits \in SUBSET held
  BY DEF OpenInv
<1> USE <1>00
<1>1. h.kernel[k].ref > 0
  <2>1. /\ IsFiniteSet(KernelTokens(h.data, k))
        /\ h.kernel[k].ref + One(k = NULL) >= One(k \in A) + Cardinality(KernelTokens(h.data, k))
    BY DEF OpenInv, KernelCount
  <2>2. One(k = NULL) = 0 /\ One(k \in A) = 1
    BY CmProgramsAssumption DEF One
  <2>3. h.kernel[k].ref \in Nat
    BY KernelFacts DEF HeapType
  <2> QED BY <2>1, <2>2, <2>3, FS_CardinalityType
<1>2. g = DestroyKernelReference(h, k)
  BY <1>1, DeviceFindsKernel
<1>3. /\ g \in HeapType /\ OpenInv(g, A, held, waits, F, k)
      /\ g.data = h.data \/ \E d \in Datas : Released(h.data, g.data, d)
  BY <1>1, <1>2, DestroyInOpen
<1>4. OpenInv(g, A \ {k}, held, waits, F, NULL)
  BY <1>3, KernelNotHeld
<1> QED BY <1>3, <1>4

SameHolds(old, new) ==
    \A e \in Datas : new[e].ref = old[e].ref /\ new[e].kernel = old[e].kernel

CountDown(h, d) == [h EXCEPT !.data[d].kernelRef = @ - 1]

\* The reference that waiting kernel data had is the one that was given up.
LEMMA KernelNotWaited ==
  ASSUME NEW h \in HeapType, NEW A, NEW F, NEW t \in Tasks, NEW d \in Datas, NEW k \in Kernels,
         NEW held, NEW waits,
         <<t, d>> \in waits, OpenInv(h, A, held, waits, F, k),
         h.data[d].ref > 0, h.data[d].kernel = k, h.data[d].kernelRef > 0,
         NEW g, g = CountDown(h, d)
  PROVE  /\ g \in HeapType /\ OpenInv(g, A, held, waits \ {<<t, d>>}, F, NULL)
         /\ SameHolds(h.data, g.data)
<1>00. held \in SUBSET (Tasks \X Datas) /\ waits \in SUBSET held
  BY DEF OpenInv
<1> USE <1>00
<1>0. /\ h.data \in DataTable /\ h.data[d] \in DataType /\ h.kernel \in KernelTable
      /\ \A e \in Datas : h.data[e] \in {NoData} \cup DataType
  BY DataFacts DEF HeapType, DataTable
<1>1. PICK r \in Nat : r = h.data[d].kernelRef - 1
  BY <1>0 DEF DataType
<1> DEFINE new == [h.data EXCEPT ![d] = [ref |-> h.data[d].ref, kernelRef |-> r, kernel |-> k]]
<1>2. g = [h EXCEPT !.data[d].kernelRef = r]
  BY <1>1 DEF CountDown
<1>3. [h.data[d] EXCEPT !.kernelRef = r] = [ref |-> h.data[d].ref, kernelRef |-> r, kernel |-> k]
  BY <1>0 DEF DataType
<1>4. g = [h EXCEPT !.data = new]
  BY <1>2, <1>3 DEF HeapType
<1>5. /\ new \in DataTable /\ new[d].ref = h.data[d].ref /\ new[d].kernelRef = r
      /\ new[d].kernel = k /\ \A e \in Datas : e # d => new[e] = h.data[e]
  BY <1>0 DEF DataTable, DataType
<1> HIDE DEF new
<1>6. /\ g \in HeapType /\ g.program = h.program /\ g.programArray = h.programArray
      /\ g.kernelArray = h.kernelArray /\ g.kernel = h.kernel /\ g.info = h.info /\ g.data = new
  BY <1>4, <1>5 DEF HeapType
<1>7. \A e \in Datas : new[e].ref = h.data[e].ref /\ new[e].kernel = h.data[e].kernel
  BY <1>5
<1>8. DataCount(new, h.kernel, held, 0) /\ LastInv(new, h.kernel)
  <2>1. DataCount(new, h.kernel, held, 0)
    BY <1>7 DEF OpenInv, DataCount
  <2>2. \A j \in Kernels : h.kernel[j].ref > 0 /\ h.kernel[j].last # 0 => h.kernel[j].last \in Datas
    BY <1>0, KernelFacts DEF KernelType
  <2> QED BY <1>7, <2>1, <2>2 DEF OpenInv, LastInv
<1>9. OneOfAKernel(new, held)
  <2>1. \A e \in held : e[2] \in Datas
    OBVIOUS
  <2>2. \A e \in held : new[e[2]].kernel = h.data[e[2]].kernel
    BY <1>7, <2>1
  <2> QED BY <2>2 DEF OpenInv, OneOfAKernel
<1>10. WaitCount(new, waits \ {<<t, d>>}, F)
  <2>1. \A e : Cardinality(HoldersOf(waits, e)) =
                 Cardinality(HoldersOf(waits \ {<<t, d>>}, e)) + One(e = d)
    BY OneHolderLess
  <2>2. WaitCount(h.data, waits, F)
    BY DEF OpenInv
  <2> SUFFICES ASSUME NEW e \in Datas, new[e].ref > 0
               PROVE  /\ new[e].kernelRef >= Cardinality(HoldersOf(waits \ {<<t, d>>}, e))
                      /\ new[e].kernel \notin F =>
                           new[e].kernelRef = Cardinality(HoldersOf(waits \ {<<t, d>>}, e))
    BY DEF WaitCount
  <2>3. /\ h.data[e].ref > 0 /\ h.data[e].kernelRef \in Nat
        /\ h.data[e].kernelRef >= Cardinality(HoldersOf(waits, e))
        /\ h.data[e].kernel \notin F => h.data[e].kernelRef = Cardinality(HoldersOf(waits, e))
    BY <1>0, <1>7, <2>2, DataFacts DEF WaitCount, DataType
  <2>4. h.data[e].kernelRef = new[e].kernelRef + One(e = d)
    BY <1>0, <1>1, <1>5, <2>3 DEF One
  <2>5. Cardinality(HoldersOf(waits \ {<<t, d>>}, e)) \in Nat /\ One(e = d) \in {0, 1}
        /\ new[e].kernelRef \in Nat
    BY <1>5, <2>3, HoldersFacts DEF One
  <2>6. new[e].kernel = h.data[e].kernel
    BY <1>7
  <2>7. PICK c \in Nat : c = Cardinality(HoldersOf(waits \ {<<t, d>>}, e))
    BY <2>5
  <2>8. Cardinality(HoldersOf(waits, e)) = c + One(e = d)
    BY <2>1, <2>7
  <2> QED BY <2>3, <2>4, <2>5, <2>6, <2>7, <2>8
<1>11. KernelCount(h.kernel, new, A, F, NULL)
  <2>1. PICK old : old = h.data
    OBVIOUS
  <2>2. /\ Acquired(new, d) = r /\ Acquired(old, d) = r + 1 /\ new[d].kernel = k /\ old[d].kernel = k
        /\ \A e \in Datas : e # d => Acquired(new, e) = Acquired(old, e) /\ new[e].kernel = old[e].kernel
    BY <1>0, <1>1, <1>5, <1>7, <2>1 DEF Acquired, DataType
  <2>3. old \in DataTable
    BY <1>0, <2>1
  <2>4. \A j : /\ IsFiniteSet(KernelTokens(new, j)) <=> IsFiniteSet(KernelTokens(old, j))
               /\ IsFiniteSet(KernelTokens(new, j)) =>
                   /\ Cardinality(KernelTokens(new, j)) \in Nat
                   /\ Cardinality(KernelTokens(old, j)) = Cardinality(KernelTokens(new, j)) + One(j = k)
    <3>1. /\ r = Acquired(new, d) /\ (r > 0 => new[d].kernel = k)
          /\ Acquired(old, d) = r + 1 /\ old[d].kernel = k
          /\ \A e \in Datas : e # d => /\ Acquired(old, e) = Acquired(new, e)
                                       /\ Acquired(new, e) > 0 => old[e].kernel = new[e].kernel
      BY <2>2
    <3> QED BY <1>5, <2>3, <3>1, OneKernelToken
  <2>5. KernelCount(h.kernel, old, A, F, k)
    BY <2>1 DEF OpenInv
  <2> SUFFICES ASSUME NEW j \in Kernels
               PROVE  /\ IsFiniteSet(KernelTokens(new, j))
                      /\ h.kernel[j].ref + One(j = NULL) >= One(j \in A) + Cardinality(KernelTokens(new, j))
                      /\ j \notin F => h.kernel[j].ref + One(j = NULL) =
                                         One(j \in A) + Cardinality(KernelTokens(new, j))
    BY DEF KernelCount
  <2>6. /\ IsFiniteSet(KernelTokens(old, j))
        /\ h.kernel[j].ref + One(j = k) >= One(j \in A) + Cardinality(KernelTokens(old, j))
        /\ j \notin F => h.kernel[j].ref + One(j = k) =
                           One(j \in A) + Cardinality(KernelTokens(old, j))
    BY <2>5 DEF KernelCount
  <2>7. One(j = NULL) = 0 /\ One(j = k) \in Nat /\ One(j \in A) \in Nat /\ h.kernel[j].ref \in Nat
    BY <1>0, CmProgramsAssumption, KernelFacts DEF One
  <2>8. PICK c \in Nat : c = Cardinality(KernelTokens(new, j))
    BY <2>4, <2>6
  <2>9. IsFiniteSet(KernelTokens(new, j)) /\ Cardinality(KernelTokens(old, j)) = c + One(j = k)
    BY <2>4, <2>6, <2>8
  <2> QED BY <2>6, <2>7, <2>8, <2>9
<1>12. ProgramsListed(g) /\ KernelsListed(g)
  BY <1>6 DEF OpenInv, ProgramsListed, KernelsListed
<1> QED BY <1>6, <1>7, <1>8, <1>9, <1>10, <1>11, <1>12 DEF OpenInv, SameHolds

\* Who holds kernel data keeps it.
LEMMA HeldIsThere ==
  ASSUME NEW data \in DataTable, NEW kernel, NEW held, NEW q, DataCount(data, kernel, held, q),
         NEW t \in Tasks, NEW d \in Datas, <<t, d>> \in held
  PROVE  data[d].ref > 0
<1>1. t \in HoldersOf(held, d)
  BY DEF HoldersOf
<1>2. Cardinality(HoldersOf(held, d)) \in Nat \ {0}
  BY <1>1, HoldersFacts
<1> QED BY <1>2 DEF DataCount, One

\* Kernel data keeps its kernel as long as it is there.
SameKernels(old, new) ==
    \A e \in Datas : new[e].ref > 0 /\ old[e].ref > 0 => new[e].kernel = old[e].kernel

\* ReleaseKernel gives up a reference that the data acquired for a task.
LEMMA ReleaseKernelOpen ==
  ASSUME NEW h \in HeapType, NEW A, NEW F, NEW t \in Tasks, NEW d \in Datas,
         NEW held, NEW waits,
         <<t, d>> \in waits, OpenInv(h, A, held, waits, F, NULL),
         NEW g, g = ReleaseKernel(h, d)
  PROVE  /\ g \in HeapType /\ OpenInv(g, A, held, waits \ {<<t, d>>}, F, NULL)
         /\ SameKernels(h.data, g.data)
<1>00. held \in SUBSET (Tasks \X Datas) /\ waits \in SUBSET held
  BY DEF OpenInv
<1> USE <1>00
<1>0. h.data \in DataTable /\ h.kernel \in KernelTable
  BY DEF HeapType
<1>1. h.data[d].ref > 0 /\ h.data[d] \in DataType
  <2>1. DataCount(h.data, h.kernel, held, 0) /\ <<t, d>> \in held
    BY DEF OpenInv
  <2>2. PICK data, kernel : data = h.data /\ kernel = h.kernel
    OBVIOUS
  <2>3. data[d].ref > 0
    BY <1>0, <2>1, <2>2, HeldIsThere
  <2> QED BY <1>0, <2>2, <2>3, DataFacts
<1>2. h.data[d].kernelRef > 0
  <2>1. t \in HoldersOf(waits, d)
    BY DEF HoldersOf
  <2>2. Cardinality(HoldersOf(waits, d)) \in Nat \ {0}
    BY <2>1, HoldersFacts
  <2>3. h.data[d].kernelRef >= Cardinality(HoldersOf(waits, d)) /\ h.data[d].kernelRef \in Nat
    BY <1>1 DEF OpenInv, WaitCount, DataType
  <2> QED BY <2>2, <2>3
<1>3. PICK k \in Kernels : k = h.data[d].kernel
  BY <1>1 DEF DataType
<1>4. h.kernel[k].ref > 0
  <2>1. /\ IsFiniteSet(KernelTokens(h.data, k))
        /\ h.kernel[k].ref + One(k = NULL) >= One(k \in A) + Cardinality(KernelTokens(h.data, k))
    BY DEF OpenInv, KernelCount
  <2>2. h.data[d].kernelRef \in Nat /\ h.data[d].kernelRef >= 1
    BY <1>1, <1>2 DEF DataType
  <2>3. <<d, 1>> \in KernelTokens(h.data, k)
    BY <1>1, <1>3, <2>2 DEF KernelTokens
  <2>4. Cardinality(KernelTokens(h.data, k)) \in Nat \ {0}
    BY <2>1, <2>3, FS_CardinalityType, FS_EmptySet
  <2>5. One(k = NULL) = 0 /\ One(k \in A) \in Nat /\ h.kernel[k].ref \in Nat
    BY <1>0, CmProgramsAssumption, KernelFacts DEF One
  <2> QED BY <2>1, <2>4, <2>5
<1>5. PICK w : w = DestroyKernelReference(h, k)
  OBVIOUS
<1>6. g = CountDown(w, d)
  <2>1. DestroyKernelInDevice(h, k) = w
    BY <1>4, <1>5, DeviceFindsKernel
  <2> QED BY <1>2, <1>3, <2>1 DEF ReleaseKernel, CountDown
<1>7. /\ w \in HeapType /\ OpenInv(w, A, held, waits, F, k)
      /\ w.data = h.data \/ \E e \in Datas : Released(h.data, w.data, e)
  BY <1>4, <1>5, DestroyInOpen
<1>8. w.data[d].ref > 0
  <2>1. DataCount(w.data, w.kernel, held, 0) /\ <<t, d>> \in held /\ w.data \in DataTable
    BY <1>7 DEF OpenInv, HeapType
  <2>2. PICK data, kernel : data = w.data /\ kernel = w.kernel
    OBVIOUS
  <2>3. data[d].ref > 0
    BY <2>1, <2>2, HeldIsThere
  <2> QED BY <2>2, <2>3
<1>9. w.data[d].kernel = k /\ w.data[d].kernelRef > 0
  <2>1. CASE w.data = h.data
    BY <1>2, <1>3, <2>1
  <2>2. ASSUME NEW e \in Datas, Released(h.data, w.data, e)
        PROVE  w.data[d].kernel = k /\ w.data[d].kernelRef > 0
    BY <1>2, <1>3, <1>8, <2>2 DEF Released
  <2> QED BY <1>7, <2>1, <2>2
<1>10. /\ g \in HeapType /\ OpenInv(g, A, held, waits \ {<<t, d>>}, F, NULL)
       /\ SameHolds(w.data, g.data)
  BY <1>6, <1>7, <1>8, <1>9, KernelNotWaited
<1>11. SameKernels(h.data, w.data)
  <2>1. CASE w.data = h.data
    BY <2>1 DEF SameKernels
  <2>2. ASSUME NEW e \in Datas, Released(h.data, w.data, e)
        PROVE  SameKernels(h.data, w.data)
    BY <2>2 DEF Released, SameKernels
  <2> QED BY <1>7, <2>1, <2>2
<1>12. SameKernels(h.data, g.data)
  BY <1>10, <1>11 DEF SameKernels, SameHolds
<1> QED BY <1>10, <1>12

-----------------------------------------------------------------------------
(***************************************************************************)
(* Kernel data is made.                                                    *)
(***************************************************************************)
SameLasts(old, new) ==
    \A j \in Kernels :
      /\ new[j].ref > 0 <=> old[j].ref > 0
      /\ new[j].program = old[j].program /\ new[j].name = old[j].name
      /\ new[j].last = old[j].last

\* AcquireKernel takes a reference for a task that has the data.
LEMMA AcquireOpen ==
  ASSUME NEW h \in HeapType, NEW A, NEW F, NEW t \in Tasks, NEW d \in Datas, NEW held, NEW waits,
         <<t, d>> \in held, <<t, d>> \notin waits, OpenInv(h, A, held, waits, F, NULL),
         NEW k \in Kernels, h.data[d].kernel = k, h.kernel[k].ref > 0,
         NEW g, g = AcquireKernel(h, d)
  PROVE  /\ g \in HeapType /\ OpenInv(g, A, held, waits \cup {<<t, d>>}, F, NULL)
         /\ SameHolds(h.data, g.data) /\ SameLasts(h.kernel, g.kernel)
<1>00. held \in SUBSET (Tasks \X Datas) /\ waits \in SUBSET held
       /\ waits \cup {<<t, d>>} \in SUBSET held
  BY DEF OpenInv
<1> USE <1>00
<1>0. /\ h.data \in DataTable /\ h.kernel \in KernelTable /\ h.program \in [Programs -> Nat]
      /\ h.kernel[k] \in KernelType
  BY KernelFacts DEF HeapType
<1>1. h.data[d].ref > 0 /\ h.data[d] \in DataType
  <2>1. PICK data, kernel : data = h.data /\ kernel = h.kernel
    OBVIOUS
  <2>2. data \in DataTable /\ DataCount(data, kernel, held, 0)
    BY <1>0, <2>1 DEF OpenInv
  <2>3. data[d].ref > 0
    BY <2>2, HeldIsThere
  <2> QED BY <1>0, <2>1, <2>3, DataFacts
<1>2. PICK p \in Programs : p = h.kernel[k].program
  BY <1>0 DEF KernelType
<1>3. PICK r \in Nat : r = h.data[d].kernelRef
  BY <1>1 DEF DataType
<1>4. PICK s \in Nat \ {0} : s = h.kernel[k].ref
  BY <1>0 DEF KernelType
<1>5. PICK n \in Nat : n = h.program[p]
  BY <1>0
<1> DEFINE data == [h.data EXCEPT ![d] = [ref |-> h.data[d].ref, kernelRef |-> r + 1, kernel |-> k]]
           kernel == [h.kernel EXCEPT ![k] = [ref |-> s + 1, program |-> p,
                        name |-> h.kernel[k].name, last |-> h.kernel[k].last]]
           program == [h.program EXCEPT ![p] = n + 1]
<1>6. g = [h EXCEPT !.data[d].kernelRef = r + 1, !.kernel[k].ref = s + 1, !.program[p] = n + 1]
  BY <1>2, <1>3, <1>4, <1>5 DEF AcquireKernel
<1>7. [h.data[d] EXCEPT !.kernelRef = r + 1] =
        [ref |-> h.data[d].ref, kernelRef |-> r + 1, kernel |-> k]
  BY <1>1 DEF DataType
<1>8. [h.kernel[k] EXCEPT !.ref = s + 1] =
        [ref |-> s + 1, program |-> p, name |-> h.kernel[k].name, last |-> h.kernel[k].last]
  BY <1>0, <1>2 DEF KernelType
<1>9. g = [h EXCEPT !.data = data, !.kernel = kernel, !.program = program]
  BY <1>6, <1>7, <1>8 DEF HeapType
<1>10. /\ data \in DataTable /\ data[d].ref = h.data[d].ref /\ data[d].kernelRef = r + 1
       /\ data[d].kernel = k /\ \A e \in Datas : e # d => data[e] = h.data[e]
  BY <1>0, <1>1 DEF DataTable, DataType
<1>11. /\ kernel \in KernelTable /\ kernel[k].ref = s + 1 /\ kernel[k].program = p
       /\ kernel[k].name = h.kernel[k].name /\ kernel[k].last = h.kernel[k].last
       /\ \A j \in Kernels : j # k => kernel[j] = h.kernel[j]
  BY <1>0 DEF KernelTable, KernelType
<1>12. /\ program \in [Programs -> Nat] /\ program[p] = n + 1
       /\ \A q \in Programs : q # p => program[q] = h.program[q]
  BY <1>0
<1> HIDE DEF data, kernel, program
<1>13. /\ g \in HeapType /\ g.program = program /\ g.programArray = h.programArray
       /\ g.kernelArray = h.kernelArray /\ g.kernel = kernel /\ g.info = h.info /\ g.data = data
  BY <1>9, <1>10, <1>11, <1>12 DEF HeapType
<1>14. SameHolds(h.data, data)
  BY <1>10 DEF SameHolds
<1>15. SameLasts(h.kernel, kernel)
  <2> SUFFICES ASSUME NEW j \in Kernels
               PROVE  /\ kernel[j].ref > 0 <=> h.kernel[j].ref > 0
                      /\ kernel[j].program = h.kernel[j].program
                      /\ kernel[j].name = h.kernel[j].name
                      /\ kernel[j].last = h.kernel[j].last
    BY DEF SameLasts
  <2>1. CASE j = k
    <3>1. s + 1 > 0 /\ s > 0
      OBVIOUS
    <3> QED BY <1>2, <1>4, <1>11, <2>1, <3>1
  <2>2. CASE j # k
    BY <1>11, <2>2
  <2> QED BY <2>1, <2>2
<1>16. ProgramCount(program, kernel, A, NULL)
  <2>1. PICK old : old = h.kernel
    OBVIOUS
  <2>2. /\ old \in KernelTable /\ old[k].ref = s /\ old[k].program = p
        /\ \A j \in Kernels : j # k => /\ kernel[j].ref = old[j].ref
                                       /\ old[j].ref > 0 => kernel[j].program = old[j].program
    BY <1>0, <1>2, <1>4, <1>11, <2>1
  <2>3. \A q : /\ IsFiniteSet(ProgramTokens(old, q)) <=> IsFiniteSet(ProgramTokens(kernel, q))
               /\ IsFiniteSet(ProgramTokens(old, q)) =>
                    /\ Cardinality(ProgramTokens(old, q)) \in Nat
                    /\ Cardinality(ProgramTokens(kernel, q)) =
                         Cardinality(ProgramTokens(old, q)) + One(q = p)
    BY <1>11, <2>2, OneProgramToken
  <2> SUFFICES ASSUME NEW q \in Programs
               PROVE  /\ IsFiniteSet(ProgramTokens(kernel, q))
                      /\ program[q] = One(q \in A) + One(q = NULL) + Cardinality(ProgramTokens(kernel, q))
    BY DEF ProgramCount
  <2>4. /\ IsFiniteSet(ProgramTokens(old, q))
        /\ h.program[q] = One(q \in A) + One(q = NULL) + Cardinality(ProgramTokens(old, q))
    BY <2>1 DEF OpenInv, ProgramCount
  <2>5. program[q] = h.program[q] + One(q = p)
    BY <1>0, <1>5, <1>12 DEF One
  <2>6. PICK c \in Nat : c = Cardinality(ProgramTokens(old, q))
    BY <2>3, <2>4
  <2>7. One(q \in A) \in Nat /\ One(q = NULL) \in Nat /\ One(q = p) \in Nat
    BY DEF One
  <2>8. IsFiniteSet(ProgramTokens(kernel, q)) /\ Cardinality(ProgramTokens(kernel, q)) = c + One(q = p)
    BY <2>3, <2>4, <2>6
  <2> QED BY <2>4, <2>5, <2>6, <2>7, <2>8
<1>17. InfoCount(h.info, program, kernel)
  <2>1. \A x : Namesakes(kernel, x) = Namesakes(h.kernel, x)
    BY <1>15 DEF Namesakes, SameLasts
  <2>2. h.program[p] > 0
    <3>1. PICK old, prog : old = h.kernel /\ prog = h.program
      OBVIOUS
    <3>2. old \in KernelTable /\ old[k].ref > 0 /\ ProgramCount(prog, old, A, NULL) /\ p = old[k].program
      BY <1>0, <1>2, <3>1 DEF OpenInv
    <3>3. prog[p] > 0
      BY <3>2, LiveKernel
    <3> QED BY <3>1, <3>3
  <2>3. \A x \in Programs \X Names : One(program[x[1]] > 0) = One(h.program[x[1]] > 0)
    <3> TAKE x \in Programs \X Names
    <3>1. x[1] \in Programs
      OBVIOUS
    <3>2. n + 1 > 0
      OBVIOUS
    <3> QED BY <1>12, <2>2, <3>1, <3>2 DEF One
  <2> QED BY <2>1, <2>3 DEF OpenInv, InfoCount
<1>18. KernelCount(kernel, data, A, F, NULL)
  <2>1. PICK old : old = h.data
    OBVIOUS
  <2>2. /\ old \in DataTable /\ r = Acquired(old, d) /\ old[d].kernel = k
        /\ Acquired(data, d) = r + 1
        /\ \A e \in Datas : e # d => /\ Acquired(data, e) = Acquired(old, e)
                                     /\ Acquired(old, e) > 0 => data[e].kernel = old[e].kernel
    BY <1>0, <1>1, <1>3, <1>10, <2>1 DEF Acquired
  <2>3. \A j : /\ IsFiniteSet(KernelTokens(old, j)) <=> IsFiniteSet(KernelTokens(data, j))
               /\ IsFiniteSet(KernelTokens(old, j)) =>
                   /\ Cardinality(KernelTokens(old, j)) \in Nat
                   /\ Cardinality(KernelTokens(data, j)) = Cardinality(KernelTokens(old, j)) + One(j = k)
    BY <1>10, <2>2, OneKernelToken
  <2> SUFFICES ASSUME NEW j \in Kernels
               PROVE  /\ IsFiniteSet(KernelTokens(data, j))
                      /\ kernel[j].ref + One(j = NULL) >= One(j \in A) + Cardinality(KernelTokens(data, j))
                      /\ j \notin F => kernel[j].ref + One(j = NULL) =
                                         One(j \in A) + Cardinality(KernelTokens(data, j))
    BY DEF KernelCount
  <2>4. /\ IsFiniteSet(KernelTokens(old, j))
        /\ h.kernel[j].ref + One(j = NULL) >= One(j \in A) + Cardinality(KernelTokens(old, j))
        /\ j \notin F => h.kernel[j].ref + One(j = NULL) =
                           One(j \in A) + Cardinality(KernelTokens(old, j))
    BY <2>1 DEF OpenInv, KernelCount
  <2>5. kernel[j].ref = h.kernel[j].ref + One(j = k) /\ h.kernel[j].ref \in Nat
    BY <1>0, <1>4, <1>11, KernelFacts DEF One
  <2>6. One(j = NULL) \in Nat /\ One(j = k) \in Nat /\ One(j \in A) \in Nat
    BY DEF One
  <2>7. PICK c \in Nat : c = Cardinality(KernelTokens(old, j))
    BY <2>3, <2>4
  <2>8. IsFiniteSet(KernelTokens(data, j)) /\ Cardinality(KernelTokens(data, j)) = c + One(j = k)
    BY <2>3, <2>4, <2>7
  <2> QED BY <2>4, <2>5, <2>6, <2>7, <2>8
<1>19. DataCount(data, kernel, held, 0) /\ LastInv(data, kernel)
  <2>1. \A e : IsLast(kernel, e) <=> IsLast(h.kernel, e)
    BY <1>15 DEF IsLast, SameLasts
  <2>2. DataCount(data, kernel, held, 0)
    BY <1>14, <2>1 DEF OpenInv, DataCount, SameHolds, One
  <2>3. \A j \in Kernels : h.kernel[j].ref > 0 /\ h.kernel[j].last # 0 => h.kernel[j].last \in Datas
    BY <1>0, KernelFacts DEF KernelType
  <2> QED BY <1>14, <1>15, <2>2, <2>3 DEF OpenInv, LastInv, SameHolds, SameLasts
<1>20. WaitCount(data, waits \cup {<<t, d>>}, F)
  <2>1. \A e : Cardinality(HoldersOf(waits \cup {<<t, d>>}, e)) =
                 Cardinality(HoldersOf(waits, e)) + One(e = d)
    BY OneHolder
  <2> SUFFICES ASSUME NEW e \in Datas, data[e].ref > 0
               PROVE  /\ data[e].kernelRef >= Cardinality(HoldersOf(waits \cup {<<t, d>>}, e))
                      /\ data[e].kernel \notin F =>
                           data[e].kernelRef = Cardinality(HoldersOf(waits \cup {<<t, d>>}, e))
    BY DEF WaitCount
  <2>2. /\ h.data[e].ref > 0 /\ h.data[e].kernelRef \in Nat /\ data[e].kernel = h.data[e].kernel
        /\ h.data[e].kernelRef >= Cardinality(HoldersOf(waits, e))
        /\ h.data[e].kernel \notin F => h.data[e].kernelRef = Cardinality(HoldersOf(waits, e))
    BY <1>0, <1>14, DataFacts DEF OpenInv, WaitCount, DataType, SameHolds
  <2>3. data[e].kernelRef = h.data[e].kernelRef + One(e = d) /\ One(e = d) \in Nat
    BY <1>3, <1>10, <2>2 DEF One
  <2>4. PICK c \in Nat : c = Cardinality(HoldersOf(waits, e))
    BY HoldersFacts
  <2>5. Cardinality(HoldersOf(waits \cup {<<t, d>>}, e)) = c + One(e = d)
    BY <2>1, <2>4
  <2> QED BY <2>2, <2>3, <2>4, <2>5
<1>21. OneOfAKernel(data, held)
  <2>1. \A e \in held : e[2] \in Datas
    OBVIOUS
  <2>2. \A e \in held : data[e[2]].kernel = h.data[e[2]].kernel
    BY <1>14, <2>1 DEF SameHolds
  <2> QED BY <2>2 DEF OpenInv, OneOfAKernel
<1>22. ProgramsListed(g) /\ KernelsListed(g)
  <2>1. \A q \in Programs : program[q] > 0 <=> h.program[q] > 0
    <3>1. h.program[p] > 0
      <4>1. PICK old, prog : old = h.kernel /\ prog = h.program
        OBVIOUS
      <4>2. old \in KernelTable /\ old[k].ref > 0 /\ ProgramCount(prog, old, A, NULL) /\ p = old[k].program
        BY <1>0, <1>2, <4>1 DEF OpenInv
      <4>3. prog[p] > 0
        BY <4>2, LiveKernel
      <4> QED BY <4>1, <4>3
    <3>2. n + 1 > 0
      OBVIOUS
    <3> QED BY <1>12, <3>1, <3>2
  <2>2. \A j \in Kernels : kernel[j].ref > 0 <=> h.kernel[j].ref > 0
    BY <1>15 DEF SameLasts
  <2> QED BY <1>13, <2>1, <2>2 DEF OpenInv, ProgramsListed, KernelsListed
<1> QED BY <1>13, <1>14, <1>15, <1>16, <1>17, <1>18, <1>19, <1>20, <1>21, <1>22 DEF OpenInv

\* A task is given new kernel data, which is the last of its kernel.
NewData(old, new, k, d) ==
    /\ old \in DataTable /\ new \in DataTable /\ old[d].ref = 0
    /\ new[d] = [ref |-> 2, kernelRef |-> 0, kernel |-> k]
    /\ \A e \in Datas : e # d => new[e] = old[e]

\* New last data has two holders: its kernel and the task it is made for.
LEMMA NewDataCounts ==
  ASSUME NEW old, NEW new, NEW k \in Kernels, NEW d \in Datas, NewData(old, new, k, d),
         NEW kernel \in KernelTable, NEW last \in KernelTable,
         kernel[k].last = 0, last[k].ref > 0, last[k].last = d,
         \A j \in Kernels : j # k => last[j] = kernel[j],
         NEW held, NEW t \in Tasks,
         DataCount(old, kernel, held, 0), LastInv(old, kernel)
  PROVE  /\ HoldersOf(held, d) = {}
         /\ DataCount(new, last, held \cup {<<t, d>>}, 0) /\ LastInv(new, last)
<1>0. /\ old \in DataTable /\ new \in DataTable /\ old[d].ref = 0 /\ new[d].ref = 2
      /\ new[d].kernel = k /\ \A e \in Datas : e # d => new[e] = old[e]
  BY DEF NewData
<1>1. HoldersOf(held, d) = {} /\ ~ IsLast(kernel, d)
  <2>1. 0 = One(IsLast(kernel, d)) + One(d = 0) + Cardinality(HoldersOf(held, d))
    BY <1>0 DEF DataCount
  <2>2. PICK c \in Nat : c = Cardinality(HoldersOf(held, d))
    BY HoldersFacts
  <2>3. c = 0 /\ ~ IsLast(kernel, d)
    BY <2>1, <2>2 DEF One
  <2> QED BY <2>2, <2>3, HoldersFacts
<1>2. IsLast(last, d)
  BY DEF IsLast
<1>3. \A e \in Datas : e # d => (IsLast(last, e) <=> IsLast(kernel, e))
  <2>0. 0 \notin Datas
    BY DatasFacts
  <2> QED BY <2>0 DEF IsLast
<1>4. <<t, d>> \notin held
  BY <1>1 DEF HoldersOf
<1>5. DataCount(new, last, held \cup {<<t, d>>}, 0)
  <2>1. \A e : Cardinality(HoldersOf(held \cup {<<t, d>>}, e)) =
                 Cardinality(HoldersOf(held, e)) + One(e = d)
    BY <1>4, OneHolder
  <2> SUFFICES ASSUME NEW e \in Datas
               PROVE  new[e].ref = One(IsLast(last, e)) + One(e = 0)
                                     + Cardinality(HoldersOf(held \cup {<<t, d>>}, e))
    BY DEF DataCount
  <2>2. PICK c \in Nat : c = Cardinality(HoldersOf(held, e))
    BY HoldersFacts
  <2>3. Cardinality(HoldersOf(held \cup {<<t, d>>}, e)) = c + One(e = d)
    BY <2>1, <2>2
  <2>4. old[e].ref = One(IsLast(kernel, e)) + One(e = 0) + c
    BY <2>2 DEF DataCount
  <2>5. e # 0
    BY DatasFacts
  <2>6. CASE e = d
    <3>1. c = 0
      BY <1>1, <2>2, <2>6, HoldersFacts
    <3> QED BY <1>0, <1>2, <2>3, <2>5, <2>6, <3>1 DEF One
  <2>7. CASE e # d
    BY <1>0, <1>3, <2>3, <2>4, <2>7 DEF One
  <2> QED BY <2>6, <2>7
<1>6. LastInv(new, last)
  <2> SUFFICES ASSUME NEW j \in Kernels, last[j].ref > 0, last[j].last # 0
               PROVE  new[last[j].last].ref > 0 /\ new[last[j].last].kernel = j
    BY DEF LastInv
  <2>1. CASE j = k
    BY <1>0, <2>1
  <2>2. CASE j # k
    <3>1. kernel[j].last = last[j].last /\ kernel[j].ref > 0 /\ kernel[j].last \in Datas
      BY <2>2, KernelFacts DEF KernelType
    <3>2. old[kernel[j].last].ref > 0 /\ old[kernel[j].last].kernel = j
      BY <3>1 DEF LastInv
    <3>3. kernel[j].last # d
      BY <1>0, <3>2
    <3> QED BY <1>0, <3>1, <3>2, <3>3
  <2> QED BY <2>1, <2>2
<1> QED BY <1>1, <1>5, <1>6

\* New data changes no count of those who wait.
LEMMA NewDataWaits ==
  ASSUME NEW old, NEW new, NEW k \in Kernels, NEW d \in Datas, NewData(old, new, k, d),
         NEW held, HoldersOf(held, d) = {}, NEW waits \in SUBSET held, NEW F,
         WaitCount(old, waits, F)
  PROVE  WaitCount(new, waits, F)
<1>0. new[d].kernelRef = 0 /\ \A e \in Datas : e # d => new[e] = old[e]
  BY DEF NewData
<1>1. HoldersOf(waits, d) = {}
  BY DEF HoldersOf
<1>2. Cardinality(HoldersOf(waits, d)) = 0
  BY <1>1, HoldersFacts
<1> SUFFICES ASSUME NEW e \in Datas, new[e].ref > 0
             PROVE  /\ new[e].kernelRef >= Cardinality(HoldersOf(waits, e))
                    /\ new[e].kernel \notin F => new[e].kernelRef = Cardinality(HoldersOf(waits, e))
  BY DEF WaitCount
<1>3. CASE e = d
  BY <1>0, <1>2, <1>3
<1>4. CASE e # d
  BY <1>0, <1>4 DEF WaitCount
<1> QED BY <1>3, <1>4

\* New data is the only one of its kernel that the task has.
LEMMA NewDataOneOfAKernel ==
  ASSUME NEW old, NEW new, NEW k \in Kernels, NEW d \in Datas, NewData(old, new, k, d),
         NEW held \in SUBSET (Tasks \X Datas), HoldersOf(held, d) = {}, NEW t \in Tasks,
         \A e \in held : e[1] = t => old[e[2]].kernel # k, OneOfAKernel(old, held)
  PROVE  OneOfAKernel(new, held \cup {<<t, d>>})
<1>1. \A e \in held : e[2] # d /\ e[2] \in Datas
  <2> TAKE e \in held
  <2>1. e = <<e[1], e[2]>> /\ e[1] \in Tasks /\ e[2] \in Datas
    OBVIOUS
  <2> QED BY <2>1 DEF HoldersOf
<1>2. /\ new[d].kernel = k
      /\ \A e \in held : new[e[2]].kernel = old[e[2]].kernel
  BY <1>1 DEF NewData
<1> SUFFICES ASSUME NEW e \in held \cup {<<t, d>>}, NEW f \in held \cup {<<t, d>>},
                    e[1] = f[1], new[e[2]].kernel = new[f[2]].kernel
             PROVE  e = f
  BY DEF OneOfAKernel
<1>3. CASE e \in held /\ f \in held
  BY <1>2, <1>3 DEF OneOfAKernel
<1>4. CASE e = <<t, d>> /\ f \in held
  BY <1>2, <1>4
<1>5. CASE f = <<t, d>> /\ e \in held
  BY <1>2, <1>5
<1>6. CASE f = <<t, d>> /\ e = <<t, d>>
  BY <1>6
<1> QED BY <1>3, <1>4, <1>5, <1>6

\* What a task that is given kernel data d of kernel k can rely on.
GaveData(h, g, k, d) ==
    /\ g.kernel[k].ref > 0 /\ g.kernel[k].last = d /\ g.data[d].kernel = k
    /\ SameKernels(h.data, g.data)
    /\ \A j \in Kernels : /\ g.kernel[j].ref > 0 <=> h.kernel[j].ref > 0
                          /\ j # k => g.kernel[j].last = h.kernel[j].last

LastIs(h, k, d) == h.kernel[k].last = d

\* Task t has no kernel data of kernel k.
NoneOf(data, held, t, k) == \A e \in held : e[1] = t => data[e[2]].kernel # k

\* The last kernel data has one more holder.
LEMMA SharedOpen ==
  ASSUME NEW h \in HeapType, NEW A, NEW F, NEW t \in Tasks, NEW held, NEW waits,
         OpenInv(h, A, held, waits, F, NULL),
         NEW k \in Kernels, h.kernel[k].ref > 0, NEW d \in Datas, LastIs(h, k, d),
         NoneOf(h.data, held, t, k),
         NEW g, g = SharedData(h, k)
  PROVE  /\ g \in HeapType /\ OpenInv(g, A, held \cup {<<t, d>>}, waits \cup {<<t, d>>}, F, NULL)
         /\ GaveData(h, g, k, d)
<1>000. h.kernel[k].last = d
  BY DEF LastIs
<1>001. \A e \in held : e[1] = t => h.data[e[2]].kernel # k
  BY DEF NoneOf
<1> USE <1>000, <1>001
<1>00. held \in SUBSET (Tasks \X Datas) /\ waits \in SUBSET held
       /\ held \cup {<<t, d>>} \in SUBSET (Tasks \X Datas)
  BY DEF OpenInv
<1>0. /\ h.data \in DataTable /\ h.kernel \in KernelTable /\ h.kernel[k] \in KernelType
      /\ 0 \notin Datas
  BY KernelFacts, DatasFacts DEF HeapType
<1>1. h.data[d].ref > 0 /\ h.data[d] \in DataType /\ h.data[d].kernel = k
  <2>1. d # 0 /\ LastInv(h.data, h.kernel)
    BY <1>0 DEF OpenInv
  <2>2. h.data[d].ref > 0 /\ h.data[d].kernel = k
    BY <2>1 DEF LastInv
  <2> QED BY <1>0, <2>2, DataFacts
<1>2. PICK r \in Nat \ {0} : r = h.data[d].ref
  BY <1>1 DEF DataType
<1>3. PICK w : w = [h EXCEPT !.data[d].ref = r + 1]
  OBVIOUS
<1> DEFINE data == [h.data EXCEPT ![d] = [ref |-> r + 1, kernelRef |-> h.data[d].kernelRef, kernel |-> k]]
<1>4. [h.data[d] EXCEPT !.ref = r + 1] =
        [ref |-> r + 1, kernelRef |-> h.data[d].kernelRef, kernel |-> k]
  BY <1>1 DEF DataType
<1>5. w = [h EXCEPT !.data = data]
  BY <1>3, <1>4 DEF HeapType
<1>6. /\ data \in DataTable /\ data[d].ref = r + 1 /\ data[d].kernelRef = h.data[d].kernelRef
      /\ data[d].kernel = k /\ \A e \in Datas : e # d => data[e] = h.data[e]
  BY <1>0, <1>1 DEF DataTable, DataType
<1> HIDE DEF data
<1>7. /\ w \in HeapType /\ w.program = h.program /\ w.programArray = h.programArray
      /\ w.kernelArray = h.kernelArray /\ w.kernel = h.kernel /\ w.info = h.info /\ w.data = data
  BY <1>5, <1>6 DEF HeapType
<1>8. /\ \A e \in Datas : data[e].kernel = h.data[e].kernel /\ (data[e].ref > 0 <=> h.data[e].ref > 0)
      /\ \A e \in Datas : data[e].kernelRef = h.data[e].kernelRef
  <2>1. r + 1 > 0 /\ r > 0
    OBVIOUS
  <2> QED BY <1>1, <1>2, <1>6, <2>1
<1>9. <<t, d>> \notin held
  BY <1>1
<1>10. DataCount(data, h.kernel, held \cup {<<t, d>>}, 0)
  <2>1. \A e : Cardinality(HoldersOf(held \cup {<<t, d>>}, e)) =
                 Cardinality(HoldersOf(held, e)) + One(e = d)
    BY <1>9, OneHolder
  <2> SUFFICES ASSUME NEW e \in Datas
               PROVE  data[e].ref = One(IsLast(h.kernel, e)) + One(e = 0)
                                      + Cardinality(HoldersOf(held \cup {<<t, d>>}, e))
    BY DEF DataCount
  <2>2. PICK c \in Nat : c = Cardinality(HoldersOf(held, e))
    BY HoldersFacts
  <2>3. Cardinality(HoldersOf(held \cup {<<t, d>>}, e)) = c + One(e = d)
    BY <2>1, <2>2
  <2>4. h.data[e].ref = One(IsLast(h.kernel, e)) + One(e = 0) + c
    BY <2>2 DEF OpenInv, DataCount
  <2>5. data[e].ref = h.data[e].ref + One(e = d) /\ h.data[e].ref \in Nat
    BY <1>0, <1>2, <1>6, DataFacts DEF One
  <2>6. One(IsLast(h.kernel, e)) \in Nat /\ One(e = 0) \in Nat /\ One(e = d) \in Nat
    BY DEF One
  <2> QED BY <2>3, <2>4, <2>5, <2>6
<1>11. LastInv(data, h.kernel)
  <2>1. \A j \in Kernels : h.kernel[j].ref > 0 /\ h.kernel[j].last # 0 => h.kernel[j].last \in Datas
    BY <1>0, KernelFacts DEF KernelType
  <2> QED BY <1>8, <2>1 DEF OpenInv, LastInv
<1>12. KernelCount(h.kernel, data, A, F, NULL)
  <2>1. PICK old : old = h.data
    OBVIOUS
  <2>2. \A e \in Datas : /\ Acquired(data, e) = Acquired(old, e)
                         /\ Acquired(old, e) > 0 => data[e].kernel = old[e].kernel
    BY <1>8, <2>1 DEF Acquired
  <2>3. \A j : KernelTokens(data, j) = KernelTokens(old, j)
    BY <1>0, <1>6, <2>1, <2>2, SameKernelTokens
  <2> QED BY <2>1, <2>3 DEF OpenInv, KernelCount
<1>13. WaitCount(data, waits, F)
  BY <1>8 DEF OpenInv, WaitCount
<1>14. OneOfAKernel(data, held \cup {<<t, d>>})
  <2>1. \A e \in held \cup {<<t, d>>} : e[2] \in Datas
    BY <1>00
  <2>2. \A e \in held \cup {<<t, d>>} : data[e[2]].kernel = h.data[e[2]].kernel
    BY <1>8, <2>1
  <2> SUFFICES ASSUME NEW e \in held \cup {<<t, d>>}, NEW f \in held \cup {<<t, d>>},
                      e[1] = f[1], h.data[e[2]].kernel = h.data[f[2]].kernel
               PROVE  e = f
    BY <2>2 DEF OneOfAKernel
  <2>3. CASE e \in held /\ f \in held
    BY <2>3 DEF OpenInv, OneOfAKernel
  <2>4. CASE e = <<t, d>> /\ f \in held
    BY <1>1, <2>4
  <2>5. CASE f = <<t, d>> /\ e \in held
    BY <1>1, <2>5
  <2>6. CASE f = <<t, d>> /\ e = <<t, d>>
    BY <2>6
  <2> QED BY <2>3, <2>4, <2>5, <2>6
<1>15. ProgramsListed(w) /\ KernelsListed(w)
  BY <1>7 DEF OpenInv, ProgramsListed, KernelsListed
<1>16. OpenInv(w, A, held \cup {<<t, d>>}, waits, F, NULL)
  BY <1>00, <1>7, <1>10, <1>11, <1>12, <1>13, <1>14, <1>15 DEF OpenInv
<1>17. g = AcquireKernel(w, d)
  BY <1>2, <1>3 DEF SharedData
<1>18. /\ w.data[d].kernel = k /\ w.kernel[k].ref > 0
       /\ <<t, d>> \in held \cup {<<t, d>>} /\ <<t, d>> \notin waits
  BY <1>00, <1>6, <1>7, <1>9
<1>19. /\ g \in HeapType /\ OpenInv(g, A, held \cup {<<t, d>>}, waits \cup {<<t, d>>}, F, NULL)
       /\ SameHolds(w.data, g.data) /\ SameLasts(w.kernel, g.kernel)
  BY <1>7, <1>16, <1>17, <1>18, AcquireOpen
<1>20. GaveData(h, g, k, d)
  <2>1. SameKernels(h.data, g.data) /\ g.data[d].kernel = k
    BY <1>6, <1>7, <1>8, <1>19 DEF SameKernels, SameHolds
  <2> QED BY <1>7, <1>19, <2>1 DEF GaveData, SameLasts
<1> QED BY <1>19, <1>20

\* The last kernel data is released and what the task is given takes its place.
LEMMA NewLastOpen ==
  ASSUME NEW h \in HeapType, NEW A, NEW F, NEW t \in Tasks, NEW held, NEW waits,
         OpenInv(h, A, held, waits, F, NULL),
         NEW k \in Kernels, h.kernel[k].ref > 0, NEW d \in Datas, h.data[d].ref = 0,
         NoneOf(h.data, held, t, k),
         NEW g, g = NewLastData(h, k, d)
  PROVE  /\ g \in HeapType /\ OpenInv(g, A, held \cup {<<t, d>>}, waits \cup {<<t, d>>}, F, NULL)
         /\ GaveData(h, g, k, d)
<1>001. \A e \in held : e[1] = t => h.data[e[2]].kernel # k
  BY DEF NoneOf
<1>00. held \in SUBSET (Tasks \X Datas) /\ waits \in SUBSET held
       /\ held \cup {<<t, d>>} \in SUBSET (Tasks \X Datas)
  BY DEF OpenInv
<1>0. /\ h.data \in DataTable /\ h.kernel \in KernelTable /\ h.kernel[k] \in KernelType
      /\ 0 \notin Datas
  BY KernelFacts, DatasFacts DEF HeapType
<1>1. PICK old \in {0} \cup Datas : old = h.kernel[k].last
  BY <1>0 DEF KernelType
<1>2. PICK v : v = IF old = 0 THEN h ELSE ReleaseData(h, old)
  OBVIOUS
<1>3. PICK w : w = [v EXCEPT !.data[d] = [ref |-> 2, kernelRef |-> 0, kernel |-> k],
                             !.kernel[k].last = d]
  OBVIOUS
<1>4. g = AcquireKernel(w, d)
  BY <1>1, <1>2, <1>3 DEF NewLastData
<1> DEFINE none == [h.kernel EXCEPT ![k] = [ref |-> h.kernel[k].ref, program |-> h.kernel[k].program,
                                            name |-> h.kernel[k].name, last |-> 0]]
           kernel == [h.kernel EXCEPT ![k] = [ref |-> h.kernel[k].ref, program |-> h.kernel[k].program,
                                              name |-> h.kernel[k].name, last |-> d]]
           data == [v.data EXCEPT ![d] = [ref |-> 2, kernelRef |-> 0, kernel |-> k]]
<1>5. /\ none \in KernelTable /\ none[k].ref = h.kernel[k].ref /\ none[k].last = 0
      /\ \A j \in Kernels : j # k => none[j] = h.kernel[j]
  BY <1>0 DEF KernelTable, KernelType
<1>6. /\ kernel \in KernelTable /\ kernel[k].ref = h.kernel[k].ref
      /\ kernel[k].program = h.kernel[k].program /\ kernel[k].name = h.kernel[k].name
      /\ kernel[k].last = d
      /\ \A j \in Kernels : j # k => kernel[j] = h.kernel[j]
  BY <1>0 DEF KernelTable, KernelType
<1>7. [h.kernel[k] EXCEPT !.last = d] =
        [ref |-> h.kernel[k].ref, program |-> h.kernel[k].program,
         name |-> h.kernel[k].name, last |-> d]
  BY <1>0 DEF KernelType
<1>8. DataCount(h.data, none, held, old) /\ LastInv(h.data, none)
  <2>1. PICK was : was = h.kernel
    OBVIOUS
  <2>2. /\ was \in KernelTable /\ was[k].ref > 0 /\ was[k].last = old
        /\ \A j \in Kernels : j # k => none[j] = was[j]
        /\ DataCount(h.data, was, held, 0) /\ LastInv(h.data, was)
    BY <1>0, <1>1, <1>5, <2>1 DEF OpenInv
  <2> HIDE DEF none
  <2>3. DataCount(h.data, none, held, was[k].last) /\ LastInv(h.data, none)
    BY <1>0, <1>5, <2>2, GoneKernel
  <2> QED BY <2>2, <2>3
<1> HIDE DEF none
<1>9. /\ v \in HeapType /\ v = [h EXCEPT !.data = v.data]
      /\ v.data = h.data \/ (old \in Datas /\ Released(h.data, v.data, old))
      /\ old = 0 => v.data = h.data
      /\ old # 0 => Released(h.data, v.data, old)
  <2>1. CASE old = 0
    <3>1. h = [h EXCEPT !.data = h.data]
      BY DEF HeapType
    <3> QED BY <1>2, <2>1, <3>1
  <2>2. CASE old # 0
    <3>1. old \in Datas /\ h.data[old].ref > 0
      BY <1>1, <2>2 DEF OpenInv, LastInv
    <3> QED BY <1>2, <2>2, <3>1, ReleaseDataIs
  <2> QED BY <2>1, <2>2
<1>10. DataCount(v.data, none, held, 0) /\ LastInv(v.data, none)
  <2>1. CASE old = 0
    BY <1>8, <1>9, <2>1
  <2>2. CASE old # 0
    BY <1>1, <1>5, <1>8, <1>9, <2>2, ReleasedData
  <2> QED BY <2>1, <2>2
<1>11. KernelCount(h.kernel, v.data, A, F, NULL) /\ WaitCount(v.data, waits, F)
       /\ OneOfAKernel(v.data, held)
  <2>1. CASE old = 0
    BY <1>9, <2>1 DEF OpenInv
  <2>2. CASE old # 0
    <3>0. PICK was, now, kern : was = h.data /\ now = v.data /\ kern = h.kernel
      OBVIOUS
    <3>1. /\ old \in Datas /\ Released(was, now, old) /\ KernelCount(kern, was, A, F, NULL)
          /\ WaitCount(was, waits, F) /\ OneOfAKernel(was, held)
          /\ DataCount(now, none, held, 0)
          /\ kern \in KernelTable
      BY <1>0, <1>1, <1>9, <1>10, <2>2, <3>0 DEF OpenInv
    <3>2. KernelCount(none, was, A, F, NULL)
      <4>1. \A j \in Kernels : none[j].ref = kern[j].ref
        BY <1>5, <3>0
      <4> QED BY <3>1, <4>1 DEF KernelCount
    <3>3. KernelCount(none, now, A, F, NULL) /\ WaitCount(now, waits, F)
      BY <1>00, <1>5, <3>1, <3>2, ReleasedTokens
    <3>4. KernelCount(kern, now, A, F, NULL)
      <4>1. \A j \in Kernels : none[j].ref = kern[j].ref
        BY <1>5, <3>0
      <4> QED BY <3>3, <4>1 DEF KernelCount
    <3>5. OneOfAKernel(now, held)
      BY <1>00, <3>1, ReleasedOneOfAKernel
    <3> QED BY <3>0, <3>3, <3>4, <3>5
  <2> QED BY <2>1, <2>2
<1>12. v.data[d].ref = 0 /\ v.data \in DataTable
  <2>1. PICK was, now : was = h.data /\ now = v.data
    OBVIOUS
  <2>2. now = was \/ Released(was, now, old)
    BY <1>9, <2>1
  <2>3. was[d].ref = 0 /\ now \in DataTable
    BY <1>9, <2>1 DEF HeapType
  <2>4. now[d].ref = 0
    BY <2>2, <2>3 DEF Released
  <2> QED BY <2>1, <2>3, <2>4
<1>13. NewData(v.data, data, k, d)
  <2>1. /\ data \in DataTable /\ data[d] = [ref |-> 2, kernelRef |-> 0, kernel |-> k]
        /\ \A e \in Datas : e # d => data[e] = v.data[e]
    BY <1>12 DEF DataTable, DataType
  <2> QED BY <1>12, <2>1 DEF NewData
<1>14. w = [h EXCEPT !.data = data, !.kernel = kernel]
  <2>1. v.kernel = h.kernel
    BY <1>9 DEF HeapType
  <2>2. w = [v EXCEPT !.data = data, !.kernel = kernel]
    BY <1>3, <1>7, <1>9, <2>1 DEF HeapType
  <2> HIDE DEF data, kernel
  <2> QED BY <1>9, <2>2 DEF HeapType
<1>15. data \in DataTable /\ data[d].kernel = k /\ data[d].ref = 2 /\ data[d].kernelRef = 0
  BY <1>13 DEF NewData
<1> HIDE DEF data, kernel
<1>16. /\ w \in HeapType /\ w.program = h.program /\ w.programArray = h.programArray
       /\ w.kernelArray = h.kernelArray /\ w.kernel = kernel /\ w.info = h.info /\ w.data = data
  BY <1>6, <1>14, <1>15 DEF HeapType
<1>17. /\ HoldersOf(held, d) = {}
       /\ DataCount(data, kernel, held \cup {<<t, d>>}, 0) /\ LastInv(data, kernel)
  <2>1. PICK now : now = v.data
    OBVIOUS
  <2>2. /\ NewData(now, data, k, d) /\ none[k].last = 0 /\ kernel[k].ref > 0 /\ kernel[k].last = d
        /\ \A j \in Kernels : j # k => kernel[j] = none[j]
        /\ DataCount(now, none, held, 0) /\ LastInv(now, none)
    BY <1>5, <1>6, <1>10, <1>13, <2>1
  <2> QED BY <1>5, <1>6, <2>2, NewDataCounts
<1>18. WaitCount(data, waits, F)
  <2>1. PICK now : now = v.data
    OBVIOUS
  <2> QED BY <1>00, <1>11, <1>13, <1>17, <2>1, NewDataWaits
<1>19. SameKernels(h.data, data) /\ \A e \in held : h.data[e[2]].ref > 0 /\ v.data[e[2]].ref > 0
                                                     /\ v.data[e[2]].kernel = h.data[e[2]].kernel
  <2>1. SameKernels(h.data, v.data)
    BY <1>9 DEF SameKernels, Released
  <2>2. SameKernels(h.data, data)
    BY <1>13, <2>1 DEF SameKernels, NewData
  <2>3. ASSUME NEW e \in held
        PROVE  h.data[e[2]].ref > 0 /\ v.data[e[2]].ref > 0
    <3>1. e = <<e[1], e[2]>> /\ e[1] \in Tasks /\ e[2] \in Datas
      BY <1>00
    <3>2. PICK was, now, kern : was = h.data /\ now = v.data /\ kern = h.kernel
      OBVIOUS
    <3>3. /\ was \in DataTable /\ now \in DataTable
          /\ DataCount(was, kern, held, 0) /\ DataCount(now, none, held, 0)
      BY <1>0, <1>10, <1>12, <3>2 DEF OpenInv
    <3>4. was[e[2]].ref > 0 /\ now[e[2]].ref > 0
      BY <3>1, <3>3, HeldIsThere
    <3> QED BY <3>2, <3>4
  <2>4. \A e \in held : e[2] \in Datas
    BY <1>00
  <2> QED BY <2>1, <2>2, <2>3, <2>4 DEF SameKernels
<1>20. OneOfAKernel(data, held \cup {<<t, d>>})
  <2>1. PICK now : now = v.data
    OBVIOUS
  <2>2. \A e \in held : e[1] = t => now[e[2]].kernel # k
    BY <1>001, <1>19, <2>1
  <2>3. NewData(now, data, k, d) /\ OneOfAKernel(now, held)
    BY <1>11, <1>13, <2>1
  <2> QED BY <1>00, <1>17, <2>2, <2>3, NewDataOneOfAKernel
<1>21. KernelCount(kernel, data, A, F, NULL)
  <2>1. PICK now : now = v.data
    OBVIOUS
  <2>2. \A e \in Datas : /\ Acquired(data, e) = Acquired(now, e)
                         /\ Acquired(now, e) > 0 => data[e].kernel = now[e].kernel
    BY <1>12, <1>13, <2>1 DEF Acquired, NewData
  <2>3. \A j : KernelTokens(data, j) = KernelTokens(now, j)
    BY <1>12, <1>15, <2>1, <2>2, SameKernelTokens
  <2>4. \A j \in Kernels : kernel[j].ref = h.kernel[j].ref
    BY <1>6
  <2> QED BY <1>11, <2>1, <2>3, <2>4 DEF KernelCount
<1>22. /\ ProgramCount(h.program, kernel, A, NULL) /\ InfoCount(h.info, h.program, kernel)
  <2>1. PICK was : was = h.kernel
    OBVIOUS
  <2>2. /\ was \in KernelTable
        /\ \A j \in Kernels : /\ kernel[j].ref = was[j].ref
                              /\ kernel[j].program = was[j].program
                              /\ kernel[j].name = was[j].name
    BY <1>0, <1>6, <2>1
  <2>3. \A p : ProgramTokens(kernel, p) = ProgramTokens(was, p)
    BY <1>6, <2>2, SameProgramTokens
  <2>4. \A x : Namesakes(kernel, x) = Namesakes(was, x)
    BY <2>2 DEF Namesakes
  <2> QED BY <2>1, <2>3, <2>4 DEF OpenInv, ProgramCount, InfoCount
<1>23. ProgramsListed(w) /\ KernelsListed(w)
  <2>1. \A j \in Kernels : kernel[j].ref = h.kernel[j].ref
    BY <1>6
  <2> QED BY <1>16, <2>1 DEF OpenInv, ProgramsListed, KernelsListed
<1>24. OpenInv(w, A, held \cup {<<t, d>>}, waits, F, NULL)
  BY <1>00, <1>16, <1>17, <1>18, <1>20, <1>21, <1>22, <1>23 DEF OpenInv
<1>25. /\ w.data[d].kernel = k /\ w.kernel[k].ref > 0
       /\ <<t, d>> \in held \cup {<<t, d>>} /\ <<t, d>> \notin waits
  BY <1>00, <1>6, <1>15, <1>16, <1>17 DEF HoldersOf
<1>26. /\ g \in HeapType /\ OpenInv(g, A, held \cup {<<t, d>>}, waits \cup {<<t, d>>}, F, NULL)
       /\ SameHolds(w.data, g.data) /\ SameLasts(w.kernel, g.kernel)
  BY <1>4, <1>16, <1>24, <1>25, AcquireOpen
<1>27. GaveData(h, g, k, d)
  <2>1. SameKernels(h.data, g.data) /\ g.data[d].kernel = k
    BY <1>15, <1>16, <1>19, <1>26 DEF SameKernels, SameHolds
  <2>2. g.kernel[k].ref > 0 /\ g.kernel[k].last = d
    BY <1>6, <1>16, <1>26 DEF SameLasts
  <2>3. \A j \in Kernels : /\ g.kernel[j].ref > 0 <=> h.kernel[j].ref > 0
                           /\ j # k => g.kernel[j].last = h.kernel[j].last
    BY <1>6, <1>16, <1>26 DEF SameLasts
  <2> QED BY <2>1, <2>2, <2>3 DEF GaveData
<1> QED BY <1>26, <1>27

-----------------------------------------------------------------------------
(***************************************************************************)
(* There is free kernel data: what is in use is the last of its kernel or  *)
(* is held by a task, which has one of each kernel.  Each thus has a place *)
(* of its own, and the place of a task that asks for data is not taken.    *)
(***************************************************************************)
LEMMA FreeDataExists ==
  ASSUME NEW h \in HeapType, NEW held \in SUBSET (Tasks \X Datas),
         DataCount(h.data, h.kernel, held, 0), LastInv(h.data, h.kernel),
         OneOfAKernel(h.data, held),
         NEW t \in Tasks, NEW k \in Kernels,
         NoneOf(h.data, held, t, k)
  PROVE  Min(FreeData(h)) \in Datas /\ h.data[Min(FreeData(h))].ref = 0
<1>0. \A e \in held : e[1] = t => h.data[e[2]].kernel # k
  BY DEF NoneOf
<1> USE <1>0
<1>1. PICK data, kernel : data = h.data /\ kernel = h.kernel
  OBVIOUS
<1>2. data \in DataTable /\ kernel \in KernelTable
  BY <1>1 DEF HeapType
<1> SUFFICES FreeData(h) # {}
  <2>1. FreeData(h) \in SUBSET Nat
    BY DatasFacts DEF FreeData
  <2>2. Min(FreeData(h)) \in FreeData(h)
    BY <2>1, MinFacts
  <2> QED BY <2>2 DEF FreeData
<1> SUFFICES ASSUME \A d \in Datas : data[d].ref > 0
             PROVE  FALSE
  <2>1. \A d \in Datas : data[d].ref \in Nat
    BY <1>2, DataFacts
  <2> QED BY <1>1, <2>1 DEF FreeData
<1> DEFINE Holder(d) == CHOOSE u \in Tasks : <<u, d>> \in held
           User(d) == IF IsLast(kernel, d) THEN NULL ELSE Holder(d)
           place == [d \in Datas |-> <<data[d].kernel, User(d)>>]
           All == Kernels \X (Tasks \cup {NULL})
           Others == All \ {<<k, t>>}
<1>3. NULL \notin Tasks /\ IsFiniteSet(Tasks) /\ IsFiniteSet(Kernels)
  BY CmProgramsAssumption
<1>4. ASSUME NEW d \in Datas, ~ IsLast(kernel, d)
      PROVE  Holder(d) \in Tasks /\ <<Holder(d), d>> \in held
  <2>1. data[d].ref = One(IsLast(kernel, d)) + One(d = 0) + Cardinality(HoldersOf(held, d))
    BY <1>1 DEF DataCount
  <2>2. d # 0
    BY DatasFacts
  <2>3. Cardinality(HoldersOf(held, d)) # 0
    BY <1>4, <2>1, <2>2 DEF One
  <2>4. HoldersOf(held, d) # {}
    BY <2>3, HoldersFacts
  <2>5. \E u \in Tasks : <<u, d>> \in held
    BY <2>4 DEF HoldersOf
  <2> QED BY <2>5
<1>5. ASSUME NEW d \in Datas
      PROVE  data[d].kernel \in Kernels /\ place[d] \in Others
  <2>1. data[d].kernel \in Kernels
    BY <1>2, DataFacts DEF DataType
  <2>2. CASE IsLast(kernel, d)
    BY <1>3, <2>1, <2>2
  <2>3. CASE ~ IsLast(kernel, d)
    <3>1. Holder(d) \in Tasks /\ <<Holder(d), d>> \in held
      BY <1>4, <2>3
    <3>2. Holder(d) = t => data[d].kernel # k
      BY <1>1, <3>1
    <3>3. place[d] = <<data[d].kernel, Holder(d)>>
      BY <2>3
    <3> HIDE DEF Holder, place, User
    <3> QED BY <2>1, <3>1, <3>2, <3>3
  <2> QED BY <2>2, <2>3
<1>6. ASSUME NEW d \in Datas, NEW e \in Datas, place[d] = place[e]
      PROVE  d = e
  <2>1. data[d].kernel = data[e].kernel /\ User(d) = User(e)
    <3> HIDE DEF User, Holder
    <3>1. place[d] = <<data[d].kernel, User(d)>> /\ place[e] = <<data[e].kernel, User(e)>>
      OBVIOUS
    <3>2. PICK u, v : u = User(d) /\ v = User(e)
      OBVIOUS
    <3>3. place[d] = place[e]
      BY <1>6
    <3> HIDE DEF place
    <3>4. <<data[d].kernel, u>> = <<data[e].kernel, v>>
      BY <3>1, <3>2, <3>3
    <3> QED BY <3>2, <3>4
  <2>2. CASE IsLast(kernel, d)
    <3>1. IsLast(kernel, e)
      <4> SUFFICES ASSUME ~ IsLast(kernel, e) PROVE FALSE
        OBVIOUS
      <4>1. User(d) = NULL /\ User(e) = Holder(e)
        BY <2>2
      <4>2. Holder(e) \in Tasks
        BY <1>4
      <4> HIDE DEF User, Holder
      <4> QED BY <1>3, <2>1, <4>1, <4>2
    <3>2. \A x \in Datas : IsLast(kernel, x) => kernel[data[x].kernel].last = x
      <4>1. \A x \in Datas : x # 0
        BY DatasFacts
      <4> QED BY <1>1, <4>1 DEF IsLast, LastInv
    <3> QED BY <2>1, <2>2, <3>1, <3>2
  <2>3. CASE ~ IsLast(kernel, d)
    <3>1. ~ IsLast(kernel, e)
      <4> SUFFICES ASSUME IsLast(kernel, e) PROVE FALSE
        OBVIOUS
      <4>1. User(e) = NULL /\ User(d) = Holder(d)
        BY <2>3
      <4>2. Holder(d) \in Tasks
        BY <1>4, <2>3
      <4> HIDE DEF User, Holder
      <4> QED BY <1>3, <2>1, <4>1, <4>2
    <3>2. User(d) = Holder(d) /\ User(e) = Holder(e)
      BY <2>3, <3>1
    <3>3. <<Holder(d), d>> \in held /\ <<Holder(e), e>> \in held
      BY <1>4, <2>3, <3>1
    <3> HIDE DEF User, Holder
    <3>4. <<Holder(d), d>> = <<Holder(e), e>>
      BY <1>1, <2>1, <3>2, <3>3 DEF OneOfAKernel
    <3> QED BY <3>4
  <2> QED BY <2>2, <2>3
<1>7. place \in [Datas -> Others]
  BY <1>5
<1> HIDE DEF place
<1>8. IsFiniteSet(Others) /\ Cardinality(Others) < Cardinality(Datas)
  <2>1. PICK a \in Nat, b \in Nat : a = Cardinality(Tasks) /\ b = Cardinality(Kernels)
    BY DatasFacts
  <2>2. IsFiniteSet(Tasks \cup {NULL}) /\ Cardinality(Tasks \cup {NULL}) = a + 1
    <3>1. /\ IsFiniteSet(Tasks \cup {NULL})
          /\ Cardinality(Tasks \cup {NULL}) =
               IF NULL \in Tasks THEN Cardinality(Tasks) ELSE Cardinality(Tasks) + 1
      BY <1>3, FS_AddElement
    <3> QED BY <1>3, <2>1, <3>1
  <2>3. IsFiniteSet(All) /\ Cardinality(All) = b * (a + 1)
    BY <1>3, <2>1, <2>2, FS_Product
  <2>4. <<k, t>> \in All
    OBVIOUS
  <2> HIDE DEF All
  <2>5. /\ IsFiniteSet(Others)
        /\ Cardinality(Others) = IF <<k, t>> \in All THEN Cardinality(All) - 1
                                 ELSE Cardinality(All)
    BY <2>3, FS_RemoveElement
  <2>6. Cardinality(Datas) = (a + 1) * b
    BY <2>1, DatasFacts
  <2>7. (a + 1) * b = b * (a + 1) /\ b * (a + 1) \in Nat
    OBVIOUS
  <2>8. PICK c \in Nat : c = b * (a + 1)
    BY <2>7
  <2> QED BY <2>3, <2>4, <2>5, <2>6, <2>7, <2>8
<1> HIDE DEF Others
<1>9. \E d, e \in Datas : d # e /\ place[d] = place[e]
  <2>1. IsFiniteSet(Datas)
    BY DatasFacts
  <2>2. PICK S, f : S = Others /\ f = place
    OBVIOUS
  <2>3. IsFiniteSet(S) /\ Cardinality(S) < Cardinality(Datas) /\ f \in [Datas -> S]
    BY <1>7, <1>8, <2>2
  <2>4. \E d, e \in Datas : d # e /\ f[d] = f[e]
    BY <2>1, <2>3, FS_PigeonHole
  <2> QED BY <2>2, <2>4
<1> QED BY <1>6, <1>9

\* The task has no kernel data of the kernel, and may share what there is.
MayHave(h, held, t, k, share) ==
    /\ h.kernel[k].ref > 0 /\ (share => h.kernel[k].last # 0)
    /\ NoneOf(h.data, held, t, k)

Has(h, g, A, F, t, held, waits, k, d) ==
    /\ g \in HeapType
    /\ OpenInv(g, A, held \cup {<<t, d>>}, waits \cup {<<t, d>>}, F, NULL)
    /\ GaveData(h, g, k, d)

\* CreateKernelData, for a task that has none of the kernel yet.
LEMMA CreateKernelDataOpen ==
  ASSUME NEW h \in HeapType, NEW A, NEW F, NEW t \in Tasks, NEW held, NEW waits,
         OpenInv(h, A, held, waits, F, NULL),
         NEW k \in Kernels, NEW share \in BOOLEAN, MayHave(h, held, t, k, share),
         NEW g, g = CreateKernelData(h, k, share)
  PROVE  \E d \in Datas : Has(h, g, A, F, t, held, waits, k, d)
<1>01. h.kernel[k].ref > 0
  BY DEF MayHave
<1>02. share => h.kernel[k].last # 0
  BY DEF MayHave
<1>03. NoneOf(h.data, held, t, k)
  BY DEF MayHave
<1>1. CASE share
  <2>1. PICK d \in Datas : d = h.kernel[k].last
    <3>1. h.kernel[k] \in KernelType
      BY <1>01, KernelFacts DEF HeapType
    <3> QED BY <1>1, <1>02, <3>1 DEF KernelType
  <2>2. g = SharedData(h, k)
    BY <1>1 DEF CreateKernelData
  <2>3. LastIs(h, k, d)
    BY <2>1 DEF LastIs
  <2>4. /\ g \in HeapType /\ OpenInv(g, A, held \cup {<<t, d>>}, waits \cup {<<t, d>>}, F, NULL)
        /\ GaveData(h, g, k, d)
    BY <1>01, <1>03, <2>2, <2>3, SharedOpen
  <2> QED BY <2>4 DEF Has
<1>2. CASE ~ share
  <2>1. PICK d \in Datas : d = Min(FreeData(h)) /\ h.data[d].ref = 0
    <3>1. held \in SUBSET (Tasks \X Datas)
      BY DEF OpenInv
    <3>2. /\ DataCount(h.data, h.kernel, held, 0) /\ LastInv(h.data, h.kernel)
          /\ OneOfAKernel(h.data, held)
      BY DEF OpenInv
    <3>3. Min(FreeData(h)) \in Datas /\ h.data[Min(FreeData(h))].ref = 0
      BY <1>03, <3>1, <3>2, FreeDataExists
    <3> QED BY <3>3
  <2>2. g = NewLastData(h, k, d)
    BY <1>2, <2>1 DEF CreateKernelData
  <2>3. h.data[d].ref = 0
    BY <2>1
  <2>4. /\ g \in HeapType /\ OpenInv(g, A, held \cup {<<t, d>>}, waits \cup {<<t, d>>}, F, NULL)
        /\ GaveData(h, g, k, d)
    BY <1>01, <1>03, <2>2, <2>3, NewLastOpen
  <2> QED BY <2>4 DEF Has
<1> QED BY <1>1, <1>2

-----------------------------------------------------------------------------
(***************************************************************************)
(* A task gives up what it holds.                                          *)
(***************************************************************************)
LEMMA ReleaseHeld ==
  ASSUME NEW h \in HeapType, NEW t \in Tasks, NEW d \in Datas, NEW held, <<t, d>> \in held,
         DataCount(h.data, h.kernel, held, 0), LastInv(h.data, h.kernel),
         NEW g, g = ReleaseData(h, d)
  PROVE  /\ g \in HeapType /\ g = [h EXCEPT !.data = g.data]
         /\ Released(h.data, g.data, d)
         /\ DataCount(g.data, h.kernel, held \ {<<t, d>>}, 0) /\ LastInv(g.data, h.kernel)
<1>1. PICK data, kernel : data = h.data /\ kernel = h.kernel
  OBVIOUS
<1>2. /\ data \in DataTable /\ kernel \in KernelTable
      /\ DataCount(data, kernel, held, 0) /\ LastInv(data, kernel)
  BY <1>1 DEF HeapType
<1>3. data[d].ref > 0
  BY <1>2, HeldIsThere
<1>4. g \in HeapType /\ g = [h EXCEPT !.data = g.data] /\ Released(data, g.data, d)
  BY <1>1, <1>3, ReleaseDataIs
<1>5. DataCount(data, kernel, held \ {<<t, d>>}, d)
  <2>1. \A e : Cardinality(HoldersOf(held, e)) =
                 Cardinality(HoldersOf(held \ {<<t, d>>}, e)) + One(e = d)
    BY OneHolderLess
  <2> SUFFICES ASSUME NEW e \in Datas
               PROVE  data[e].ref = One(IsLast(kernel, e)) + One(e = d)
                                      + Cardinality(HoldersOf(held \ {<<t, d>>}, e))
    BY DEF DataCount
  <2>2. PICK c \in Nat : c = Cardinality(HoldersOf(held \ {<<t, d>>}, e))
    BY HoldersFacts
  <2>3. Cardinality(HoldersOf(held, e)) = c + One(e = d)
    BY <2>1, <2>2
  <2>4. data[e].ref = One(IsLast(kernel, e)) + One(e = 0) + Cardinality(HoldersOf(held, e))
    BY <1>2 DEF DataCount
  <2>5. e # 0
    BY DatasFacts
  <2> QED BY <2>2, <2>3, <2>4, <2>5 DEF One
<1>6. DataCount(g.data, kernel, held \ {<<t, d>>}, 0) /\ LastInv(g.data, kernel)
  <2>1. PICK new : new = g.data
    OBVIOUS
  <2>2. Released(data, new, d)
    BY <1>4, <2>1
  <2>3. DataCount(new, kernel, held \ {<<t, d>>}, 0) /\ LastInv(new, kernel)
    BY <1>2, <1>5, <2>2, ReleasedData
  <2> QED BY <2>1, <2>3
<1> QED BY <1>1, <1>4, <1>6

\* Nobody's count of a kernel changes when kernel data loses a reference.
LEMMA ReleasedCounts ==
  ASSUME NEW old, NEW new, old = new \/ \E d \in Datas : Released(old, new, d),
         NEW kernel \in KernelTable, NEW held \in SUBSET (Tasks \X Datas),
         NEW waits \in SUBSET held, NEW A, NEW F, NEW q,
         DataCount(new, kernel, held, 0), OneOfAKernel(old, held),
         KernelCount(kernel, old, A, F, q), WaitCount(old, waits, F)
  PROVE  /\ KernelCount(kernel, new, A, F, q) /\ WaitCount(new, waits, F)
         /\ OneOfAKernel(new, held) /\ SameKernels(old, new)
<1>1. CASE old = new
  BY <1>1 DEF SameKernels
<1>2. ASSUME NEW d \in Datas, Released(old, new, d)
      PROVE  /\ KernelCount(kernel, new, A, F, q) /\ WaitCount(new, waits, F)
             /\ OneOfAKernel(new, held) /\ SameKernels(old, new)
  <2>1. KernelCount(kernel, new, A, F, q) /\ WaitCount(new, waits, F)
    BY <1>2, ReleasedTokens
  <2>2. OneOfAKernel(new, held)
    BY <1>2, ReleasedOneOfAKernel
  <2>3. SameKernels(old, new)
    BY <1>2 DEF SameKernels, Released
  <2> QED BY <2>1, <2>2, <2>3
<1> QED BY <1>1, <1>2

\* A task that waits no longer may give up its data.
LEMMA ReleaseHeldOpen ==
  ASSUME NEW h \in HeapType, NEW A, NEW F, NEW t \in Tasks, NEW d \in Datas, NEW held, NEW waits,
         <<t, d>> \in held, <<t, d>> \notin waits, OpenInv(h, A, held, waits, F, NULL),
         NEW g, g = ReleaseData(h, d)
  PROVE  /\ g \in HeapType /\ OpenInv(g, A, held \ {<<t, d>>}, waits, F, NULL)
         /\ SameKernels(h.data, g.data)
<1>0. held \in SUBSET (Tasks \X Datas) /\ waits \in SUBSET held
      /\ held \ {<<t, d>>} \in SUBSET (Tasks \X Datas) /\ waits \in SUBSET (held \ {<<t, d>>})
  BY DEF OpenInv
<1>1. /\ g \in HeapType /\ g = [h EXCEPT !.data = g.data]
      /\ Released(h.data, g.data, d)
      /\ DataCount(g.data, h.kernel, held \ {<<t, d>>}, 0) /\ LastInv(g.data, h.kernel)
  BY ReleaseHeld DEF OpenInv
<1>2. PICK old, new, kernel : old = h.data /\ new = g.data /\ kernel = h.kernel
  OBVIOUS
<1>3. /\ Released(old, new, d) /\ kernel \in KernelTable
      /\ DataCount(new, kernel, held \ {<<t, d>>}, 0)
      /\ KernelCount(kernel, old, A, F, NULL) /\ WaitCount(old, waits, F)
  BY <1>1, <1>2 DEF OpenInv, HeapType
<1>4. OneOfAKernel(old, held \ {<<t, d>>})
  BY <1>2 DEF OpenInv, OneOfAKernel
<1>5. /\ KernelCount(kernel, new, A, F, NULL) /\ WaitCount(new, waits, F)
      /\ OneOfAKernel(new, held \ {<<t, d>>}) /\ SameKernels(old, new)
  BY <1>0, <1>3, <1>4, ReleasedCounts
<1>6. /\ g.program = h.program /\ g.info = h.info /\ g.kernel = h.kernel
      /\ g.programArray = h.programArray /\ g.kernelArray = h.kernelArray
  BY <1>1 DEF HeapType
<1>7. ProgramsListed(g) /\ KernelsListed(g)
  BY <1>6 DEF OpenInv, ProgramsListed, KernelsListed
<1> QED BY <1>0, <1>1, <1>2, <1>5, <1>6, <1>7 DEF OpenInv

\* References that are lost are those of kernels that failed.
LEMMA LostOpen ==
  ASSUME NEW h \in HeapType, NEW A, NEW F, NEW G, F \subseteq G,
         NEW held, NEW waits, NEW fewer \in SUBSET waits,
         OpenInv(h, A, held, waits, F, NULL),
         \A e \in waits : e \in fewer \/ h.data[e[2]].kernel \in G
  PROVE  OpenInv(h, A, held, fewer, G, NULL)
<1>1. held \in SUBSET (Tasks \X Datas) /\ waits \in SUBSET held /\ fewer \in SUBSET held
  BY DEF OpenInv
<1>2. KernelCount(h.kernel, h.data, A, G, NULL)
  BY DEF OpenInv, KernelCount
<1>3. WaitCount(h.data, fewer, G)
  <2> SUFFICES ASSUME NEW d \in Datas, h.data[d].ref > 0
               PROVE  /\ h.data[d].kernelRef >= Cardinality(HoldersOf(fewer, d))
                      /\ h.data[d].kernel \notin G =>
                           h.data[d].kernelRef = Cardinality(HoldersOf(fewer, d))
    BY DEF WaitCount
  <2>1. /\ h.data[d].kernelRef >= Cardinality(HoldersOf(waits, d))
        /\ h.data[d].kernel \notin F => h.data[d].kernelRef = Cardinality(HoldersOf(waits, d))
    BY DEF OpenInv, WaitCount
  <2>2. h.data[d].kernelRef \in Nat
    BY DataFacts DEF HeapType, DataType
  <2>3. Cardinality(HoldersOf(fewer, d)) <= Cardinality(HoldersOf(waits, d))
    <3>1. HoldersOf(fewer, d) \subseteq HoldersOf(waits, d)
      BY DEF HoldersOf
    <3> QED BY <3>1, HoldersFacts, FS_Subset
  <2>4. PICK a \in Nat, b \in Nat : /\ a = Cardinality(HoldersOf(fewer, d))
                                    /\ b = Cardinality(HoldersOf(waits, d))
    BY HoldersFacts
  <2>5. h.data[d].kernel \notin G => HoldersOf(fewer, d) = HoldersOf(waits, d)
    BY DEF HoldersOf
  <2> QED BY <2>1, <2>2, <2>3, <2>4, <2>5
<1> QED BY <1>1, <1>2, <1>3 DEF OpenInv

\* Kernel data that is held all the time is of the same kernel all the time.
HeldKernels(old, new, held) ==
    \A e \in held : new[e[2]].kernel = old[e[2]].kernel

\* Data that stays held keeps its kernel.
LEMMA HeldKernelsFacts ==
  ASSUME NEW h \in HeapType, NEW g \in HeapType, SameKernels(h.data, g.data),
         NEW A, NEW B, NEW F, NEW G, NEW before, NEW after, NEW waits, NEW fewer,
         OpenInv(h, A, before, waits, F, NULL), OpenInv(g, B, after, fewer, G, NULL),
         NEW held, held \subseteq before, held \subseteq after
  PROVE  HeldKernels(h.data, g.data, held)
<1>1. PICK old, new, kernel, kern : /\ old = h.data /\ kernel = h.kernel
                                    /\ new = g.data /\ kern = g.kernel
  OBVIOUS
<1>2. /\ old \in DataTable /\ new \in DataTable /\ SameKernels(old, new)
      /\ DataCount(old, kernel, before, 0) /\ DataCount(new, kern, after, 0)
  BY <1>1 DEF OpenInv, HeapType
<1> SUFFICES ASSUME NEW e \in held
             PROVE  new[e[2]].kernel = old[e[2]].kernel
  BY <1>1 DEF HeldKernels
<1>3. e = <<e[1], e[2]>> /\ e[1] \in Tasks /\ e[2] \in Datas
  BY DEF OpenInv
<1>4. <<e[1], e[2]>> \in before /\ <<e[1], e[2]>> \in after
  BY <1>3
<1>5. old[e[2]].ref > 0 /\ new[e[2]].ref > 0
  BY <1>2, <1>3, <1>4, HeldIsThere
<1> QED BY <1>2, <1>3, <1>5 DEF SameKernels

-----------------------------------------------------------------------------
(***************************************************************************)
(* One kernel data after the other.                                        *)
(***************************************************************************)
Pairs(t, ds) == {t} \X Range(ds)

\* The data of a task: of one kernel, or of two.
LEMMA ListFacts ==
  ASSUME NEW ds \in DataLists
  PROVE  /\ ds[1] \in Datas /\ Range(ds) \subseteq Datas
         /\ Len(ds) = 1 => Range(ds) = {ds[1]}
         /\ Len(ds) # 1 => ds[2] \in Datas /\ ds[1] # ds[2] /\ Range(ds) = {ds[1], ds[2]}
<1>1. ASSUME NEW d \in Datas, ds = <<d>>
      PROVE  Len(ds) = 1 /\ ds[1] = d /\ Range(ds) = {d}
  BY <1>1 DEF Range
<1>2. ASSUME ds \in Datas \X Datas, ds[1] # ds[2]
      PROVE  /\ Len(ds) = 2 /\ ds[1] \in Datas /\ ds[2] \in Datas
             /\ Range(ds) = {ds[1], ds[2]}
  <2>1. PICK d \in Datas, e \in Datas : ds = <<d, e>>
    BY <1>2
  <2>2. Len(ds) = 2 /\ DOMAIN ds = {1, 2} /\ ds[1] = d /\ ds[2] = e
    BY <2>1
  <2> QED BY <2>2 DEF Range
<1> QED BY <1>1, <1>2 DEF DataLists

\* ReleaseKernels gives up what a task acquired.
LEMMA ReleaseKernelsOpen ==
  ASSUME NEW h \in HeapType, NEW A, NEW F, NEW t \in Tasks, NEW ds \in DataLists,
         NEW held, NEW waits,
         Pairs(t, ds) \subseteq waits, OpenInv(h, A, held, waits, F, NULL),
         NEW g, g = ReleaseKernels(h, ds)
  PROVE  /\ g \in HeapType /\ OpenInv(g, A, held, waits \ Pairs(t, ds), F, NULL)
         /\ HeldKernels(h.data, g.data, held)
<1>1. PICK d \in Datas : d = ds[1]
  BY ListFacts
<1>2. PICK w : w = ReleaseKernel(h, d)
  OBVIOUS
<1>3. <<t, d>> \in waits /\ <<t, d>> \in Pairs(t, ds)
  BY <1>1, ListFacts DEF Pairs
<1>4. /\ w \in HeapType /\ OpenInv(w, A, held, waits \ {<<t, d>>}, F, NULL)
      /\ SameKernels(h.data, w.data)
  BY <1>2, <1>3, ReleaseKernelOpen
<1>5. HeldKernels(h.data, w.data, held)
  BY <1>4, HeldKernelsFacts
<1>6. CASE Len(ds) = 1
  <2>1. g = w
    BY <1>1, <1>2, <1>6 DEF ReleaseKernels
  <2>2. waits \ Pairs(t, ds) = waits \ {<<t, d>>}
    BY <1>1, <1>6, ListFacts DEF Pairs
  <2> QED BY <1>4, <1>5, <2>1, <2>2
<1>7. CASE Len(ds) # 1
  <2>1. PICK e \in Datas : e = ds[2] /\ e # d /\ Pairs(t, ds) = {<<t, d>>, <<t, e>>}
    BY <1>1, <1>7, ListFacts DEF Pairs
  <2>2. g = ReleaseKernel(w, e)
    BY <1>1, <1>2, <1>7, <2>1 DEF ReleaseKernels
  <2>3. <<t, e>> \in waits \ {<<t, d>>}
    BY <2>1
  <2>4. /\ g \in HeapType /\ OpenInv(g, A, held, (waits \ {<<t, d>>}) \ {<<t, e>>}, F, NULL)
        /\ SameKernels(w.data, g.data)
    BY <1>4, <2>2, <2>3, ReleaseKernelOpen
  <2>5. HeldKernels(w.data, g.data, held)
    BY <1>4, <2>4, HeldKernelsFacts
  <2>6. HeldKernels(h.data, g.data, held)
    BY <1>5, <2>5 DEF HeldKernels
  <2>7. (waits \ {<<t, d>>}) \ {<<t, e>>} = waits \ Pairs(t, ds)
    BY <2>1
  <2> QED BY <2>4, <2>6, <2>7
<1> QED BY <1>6, <1>7

\* ReleaseAll gives up the data of a task that waits no longer.
LEMMA ReleaseAllOpen ==
  ASSUME NEW h \in HeapType, NEW A, NEW F, NEW t \in Tasks, NEW ds \in DataLists,
         NEW held, NEW waits,
         Pairs(t, ds) \subseteq held \ waits, OpenInv(h, A, held, waits, F, NULL),
         NEW g, g = ReleaseAll(h, ds)
  PROVE  /\ g \in HeapType /\ OpenInv(g, A, held \ Pairs(t, ds), waits, F, NULL)
         /\ HeldKernels(h.data, g.data, held \ Pairs(t, ds))
<1>1. PICK d \in Datas : d = ds[1]
  BY ListFacts
<1>2. PICK w : w = ReleaseData(h, d)
  OBVIOUS
<1>3. <<t, d>> \in held /\ <<t, d>> \notin waits
  BY <1>1, ListFacts DEF Pairs
<1>4. /\ w \in HeapType /\ OpenInv(w, A, held \ {<<t, d>>}, waits, F, NULL)
      /\ SameKernels(h.data, w.data)
  BY <1>2, <1>3, ReleaseHeldOpen
<1>5. HeldKernels(h.data, w.data, held \ {<<t, d>>})
  BY <1>4, HeldKernelsFacts
<1>6. CASE Len(ds) = 1
  <2>1. g = w
    BY <1>1, <1>2, <1>6 DEF ReleaseAll
  <2>2. held \ Pairs(t, ds) = held \ {<<t, d>>}
    BY <1>1, <1>6, ListFacts DEF Pairs
  <2> QED BY <1>4, <1>5, <2>1, <2>2
<1>7. CASE Len(ds) # 1
  <2>1. PICK e \in Datas : e = ds[2] /\ e # d /\ Pairs(t, ds) = {<<t, d>>, <<t, e>>}
    BY <1>1, <1>7, ListFacts DEF Pairs
  <2>2. g = ReleaseData(w, e)
    BY <1>1, <1>2, <1>7, <2>1 DEF ReleaseAll
  <2>3. <<t, e>> \in held \ {<<t, d>>} /\ <<t, e>> \notin waits
    BY <2>1
  <2>4. /\ g \in HeapType /\ OpenInv(g, A, (held \ {<<t, d>>}) \ {<<t, e>>}, waits, F, NULL)
        /\ SameKernels(w.data, g.data)
    BY <1>4, <2>2, <2>3, ReleaseHeldOpen
  <2>5. HeldKernels(w.data, g.data, (held \ {<<t, d>>}) \ {<<t, e>>})
    BY <1>4, <2>4, HeldKernelsFacts
  <2>6. HeldKernels(h.data, g.data, (held \ {<<t, d>>}) \ {<<t, e>>})
    BY <1>5, <2>5 DEF HeldKernels
  <2>7. (held \ {<<t, d>>}) \ {<<t, e>>} = held \ Pairs(t, ds)
    BY <2>1
  <2> QED BY <2>4, <2>6, <2>7
<1> QED BY <1>6, <1>7

\* What CmTaskInternal::Initialize leaves for task t.
SetUp(g, A, F, t, held, waits, ks, ds) ==
    /\ LastDatas(g, ks) = ds /\ g \in HeapType
    /\ OpenInv(g, A, held \cup Pairs(t, ds), waits \cup Pairs(t, ds), F, NULL)
    /\ HeldKernels(heap.data, g.data, held)
    /\ \A d \in Range(ds) : g.data[d].kernel \in Range(ks)

HasNothing(held, t) == \A e \in held : e[1] # t

\* CmTaskInternal::Initialize gets data of each kernel of the task.
LEMMA InitializedOpen ==
  ASSUME heap \in HeapType, NEW A, NEW F, NEW t \in Tasks, NEW held, NEW waits,
         OpenInv(heap, A, held, waits, F, NULL),
         NEW ks \in KernelLists, \A k \in Range(ks) : heap.kernel[k].ref > 0,
         NEW shares \in BOOLEAN \X BOOLEAN, MaySetUp(ks, shares),
         HasNothing(held, t),
         NEW g, g = Initialized(ks, shares)
  PROVE  \E ds \in DataLists : SetUp(g, A, F, t, held, waits, ks, ds)
<1>0. \A e \in held : e[1] # t
  BY DEF HasNothing
<1>1. PICK h : h = heap
  OBVIOUS
<1>2. h \in HeapType /\ OpenInv(h, A, held, waits, F, NULL)
  BY <1>1
<1>3. shares[1] \in BOOLEAN /\ shares[2] \in BOOLEAN
  OBVIOUS
<1>4. ASSUME NEW k \in Kernels, ks = <<k>>
      PROVE  \E ds \in DataLists :
               /\ LastDatas(g, ks) = ds /\ g \in HeapType
               /\ OpenInv(g, A, held \cup Pairs(t, ds), waits \cup Pairs(t, ds), F, NULL)
               /\ HeldKernels(h.data, g.data, held)
               /\ \A d \in Range(ds) : g.data[d].kernel \in Range(ks)
  <2>1. ks[1] = k /\ Len(ks) = 1 /\ DOMAIN ks = {1} /\ Range(ks) = {k}
    BY <1>4 DEF Range
  <2>2. /\ h.kernel[k].ref > 0
        /\ shares[1] => h.kernel[k].last # 0
        /\ g = CreateKernelData(h, k, shares[1])
    BY <1>1, <2>1 DEF MaySetUp, Initialized
  <2>3. \A e \in held : e[1] = t => h.data[e[2]].kernel # k
    BY <1>0
  <2>4. PICK share \in BOOLEAN : share = shares[1]
    BY <1>3
  <2>5. share => h.kernel[k].last # 0
    BY <2>2, <2>4
  <2>6. g = CreateKernelData(h, k, share)
    BY <2>2, <2>4
  <2>7. PICK d \in Datas : /\ g \in HeapType
                           /\ OpenInv(g, A, held \cup {<<t, d>>}, waits \cup {<<t, d>>}, F, NULL)
                           /\ GaveData(h, g, k, d)
    <3>1. MayHave(h, held, t, k, share)
      BY <2>2, <2>3, <2>5 DEF MayHave, NoneOf
    <3>2. \E d \in Datas : Has(h, g, A, F, t, held, waits, k, d)
      BY <1>2, <2>6, <3>1, CreateKernelDataOpen
    <3> QED BY <3>2 DEF Has
  <2>8. LastDatas(g, ks) = <<d>>
    <3>1. g.kernel[ks[1]].last = d
      BY <2>1, <2>7 DEF GaveData
    <3> QED BY <2>1, <3>1 DEF LastDatas
  <2>9. <<d>> \in DataLists /\ Range(<<d>>) = {d} /\ Pairs(t, <<d>>) = {<<t, d>>}
    BY DEF DataLists, Range, Pairs
  <2>10. HeldKernels(h.data, g.data, held)
    <3>1. SameKernels(h.data, g.data)
      BY <2>7 DEF GaveData
    <3> QED BY <1>2, <2>7, <3>1, HeldKernelsFacts
  <2>11. g.data[d].kernel = k
    BY <2>7 DEF GaveData
  <2> QED BY <2>1, <2>7, <2>8, <2>9, <2>10, <2>11
<1>5. ASSUME NEW k \in Kernels, NEW l \in Kernels, ks = <<k, l>>, k # l
      PROVE  \E ds \in DataLists :
               /\ LastDatas(g, ks) = ds /\ g \in HeapType
               /\ OpenInv(g, A, held \cup Pairs(t, ds), waits \cup Pairs(t, ds), F, NULL)
               /\ HeldKernels(h.data, g.data, held)
               /\ \A d \in Range(ds) : g.data[d].kernel \in Range(ks)
  <2>1. ks[1] = k /\ ks[2] = l /\ Len(ks) = 2 /\ DOMAIN ks = {1, 2} /\ Range(ks) = {k, l}
    BY <1>5 DEF Range
  <2>2. PICK w : w = CreateKernelData(h, k, shares[1])
    OBVIOUS
  <2>3. /\ h.kernel[k].ref > 0 /\ h.kernel[l].ref > 0
        /\ shares[1] => h.kernel[k].last # 0
        /\ shares[2] => h.kernel[l].last # 0
        /\ g = CreateKernelData(w, l, shares[2])
    BY <1>1, <2>1, <2>2 DEF MaySetUp, Initialized
  <2>4. PICK one \in BOOLEAN, two \in BOOLEAN : one = shares[1] /\ two = shares[2]
    BY <1>3
  <2>5. h.kernel[k].ref > 0 /\ (one => h.kernel[k].last # 0)
    BY <2>3, <2>4
  <2>51. w = CreateKernelData(h, k, one)
    BY <2>2, <2>4
  <2>6. \A e \in held : e[1] = t => h.data[e[2]].kernel # k
    BY <1>0
  <2>7. PICK d \in Datas : /\ w \in HeapType
                           /\ OpenInv(w, A, held \cup {<<t, d>>}, waits \cup {<<t, d>>}, F, NULL)
                           /\ GaveData(h, w, k, d)
    <3>1. MayHave(h, held, t, k, one)
      BY <2>5, <2>6 DEF MayHave, NoneOf
    <3>2. \E d \in Datas : Has(h, w, A, F, t, held, waits, k, d)
      BY <1>2, <2>51, <3>1, CreateKernelDataOpen
    <3> QED BY <3>2 DEF Has
  <2>8. /\ w.kernel[k].last = d /\ w.data[d].kernel = k /\ w.kernel[l].ref > 0
        /\ two => w.kernel[l].last # 0
    BY <1>5, <2>3, <2>4, <2>7 DEF GaveData
  <2>9. \A e \in held \cup {<<t, d>>} : e[1] = t => w.data[e[2]].kernel # l
    BY <1>0, <1>5, <2>8
  <2>10. g = CreateKernelData(w, l, two)
    BY <2>3, <2>4
  <2>11. PICK both, wait : both = held \cup {<<t, d>>} /\ wait = waits \cup {<<t, d>>}
    OBVIOUS
  <2>12. OpenInv(w, A, both, wait, F, NULL) /\ \A e \in both : e[1] = t => w.data[e[2]].kernel # l
    BY <2>7, <2>9, <2>11
  <2>13. PICK f \in Datas : /\ g \in HeapType
                            /\ OpenInv(g, A, both \cup {<<t, f>>}, wait \cup {<<t, f>>}, F, NULL)
                            /\ GaveData(w, g, l, f)
    <3>1. MayHave(w, both, t, l, two)
      BY <2>8, <2>12 DEF MayHave, NoneOf
    <3>2. \E f \in Datas : Has(w, g, A, F, t, both, wait, l, f)
      BY <2>7, <2>10, <2>12, <3>1, CreateKernelDataOpen
    <3> QED BY <3>2 DEF Has
  <2>14. g.kernel[k].last = d /\ g.kernel[l].last = f /\ g.data[f].kernel = l
         /\ SameKernels(w.data, g.data)
    BY <1>5, <2>8, <2>13 DEF GaveData
  <2>15. HeldKernels(w.data, g.data, both)
    <3>1. SameKernels(w.data, g.data) /\ w \in HeapType /\ g \in HeapType
      BY <2>7, <2>13, <2>14
    <3>2. both \subseteq both \cup {<<t, f>>} /\ both \subseteq both
      OBVIOUS
    <3> QED BY <2>12, <2>13, <3>1, <3>2, HeldKernelsFacts
  <2>16. g.data[d].kernel = k
    <3>1. <<t, d>> \in both
      BY <2>11
    <3> QED BY <2>8, <2>15, <3>1 DEF HeldKernels
  <2>17. PICK ds \in Datas \X Datas : ds = <<d, f>>
    OBVIOUS
  <2>18. /\ ds \in DataLists /\ Range(ds) = {d, f}
         /\ both \cup {<<t, f>>} = held \cup Pairs(t, ds)
         /\ wait \cup {<<t, f>>} = waits \cup Pairs(t, ds)
    <3>1. d # f
      BY <1>5, <2>14, <2>16
    <3>2. ds[1] = d /\ ds[2] = f /\ DOMAIN ds = {1, 2}
      BY <2>17
    <3>3. Range(ds) = {d, f}
      BY <3>2 DEF Range
    <3>4. ds \in DataLists
      BY <3>1, <3>2 DEF DataLists
    <3> QED BY <2>11, <3>3, <3>4 DEF Pairs
  <2>19. LastDatas(g, ks) = ds
    <3>1. g.kernel[ks[1]].last = d /\ g.kernel[ks[2]].last = f
      BY <2>1, <2>14
    <3>2. LastDatas(g, ks) = [i \in {1, 2} |-> g.kernel[ks[i]].last]
      BY <2>1 DEF LastDatas
    <3>3. <<d, f>> = [i \in {1, 2} |-> <<d, f>>[i]]
      OBVIOUS
    <3>4. \A i \in {1, 2} : g.kernel[ks[i]].last = <<d, f>>[i]
      BY <3>1
    <3> QED BY <2>17, <3>2, <3>3, <3>4
  <2>20. HeldKernels(h.data, g.data, held)
    <3>1. SameKernels(h.data, w.data)
      BY <2>7 DEF GaveData
    <3>2. HeldKernels(h.data, w.data, held)
      BY <1>2, <2>7, <3>1, HeldKernelsFacts
    <3> QED BY <2>11, <2>15, <3>2 DEF HeldKernels
  <2> QED BY <2>1, <2>13, <2>14, <2>16, <2>18, <2>19, <2>20
<1>6. (\E k \in Kernels : ks = <<k>>) \/ (\E k \in Kernels, l \in Kernels : ks = <<k, l>> /\ k # l)
  BY DEF KernelLists
<1> QED BY <1>1, <1>4, <1>5, <1>6 DEF SetUp

-----------------------------------------------------------------------------
(***************************************************************************)
(* The tasks.                                                              *)
(***************************************************************************)
\* When r is the new state of task t.
PairsWith(tasks, states, t, r) ==
    {e \in PairsOf(tasks, states) : e[1] # t} \cup {e \in Pairs(t, r.datas) : r.state \in states}

Replaced(tasks, new, t, r) == new[t] = r /\ \A u \in Tasks : u # t => new[u] = tasks[u]

\* Who holds what after one task has changed.
LEMMA PairsFacts ==
  ASSUME NEW tasks, NEW t \in Tasks, NEW r, NEW new, Replaced(tasks, new, t, r)
  PROVE  \A states : (r.state \in states => Range(r.datas) \subseteq Datas) =>
           PairsOf(new, states) = PairsWith(tasks, states, t, r)
<1> TAKE states
<1> HAVE r.state \in states => Range(r.datas) \subseteq Datas
<1>1. new[t] = r /\ \A u \in Tasks : u # t => new[u] = tasks[u]
  BY DEF Replaced
<1>2. ASSUME NEW e \in PairsOf(new, states)
      PROVE  \/ e \in PairsOf(tasks, states) /\ e[1] # t
             \/ e \in Pairs(t, r.datas) /\ r.state \in states
  <2>1. PICK u \in Tasks, d \in Datas : e = <<u, d>> /\ new[u].state \in states
                                        /\ d \in Range(new[u].datas)
    BY DEF PairsOf
  <2>2. CASE u = t
    BY <1>1, <2>1, <2>2 DEF Pairs
  <2>3. CASE u # t
    BY <1>1, <2>1, <2>3 DEF PairsOf
  <2> QED BY <2>2, <2>3
<1>3. ASSUME NEW e \in PairsOf(tasks, states), e[1] # t
      PROVE  e \in PairsOf(new, states)
  BY <1>1, <1>3 DEF PairsOf
<1>4. ASSUME NEW e \in Pairs(t, r.datas), r.state \in states
      PROVE  e \in PairsOf(new, states)
  <2>1. PICK d \in Datas : e = <<t, d>> /\ d \in Range(r.datas)
    BY <1>4 DEF Pairs
  <2> QED BY <1>1, <1>4, <2>1 DEF PairsOf
<1> QED BY <1>2, <1>3, <1>4 DEF PairsWith

\* What a task is in each state.
LEMMA TaskFacts ==
  ASSUME NEW tasks \in [Tasks -> TaskType], NEW t \in Tasks
  PROVE  /\ tasks[t].state \in {"waiting", "flushed", "stuck"} =>
              /\ tasks[t].datas \in DataLists /\ tasks[t].event \in BOOLEAN
              /\ tasks[t] = [state |-> tasks[t].state, event |-> tasks[t].event,
                             datas |-> tasks[t].datas]
         /\ tasks[t].state \in {"new", "gone", "waiting", "flushed", "stuck"}
<1>1. tasks[t] \in TaskType
  OBVIOUS
<1> QED BY <1>1 DEF TaskType

WithEnqueued(tasks, t, event, ds) ==
    [tasks EXCEPT ![t] = [state |-> "waiting", event |-> event, datas |-> ds]]

\* What a task holds, and what it waits with, when it gets to another state.
LEMMA TaskEnqueued ==
  ASSUME NEW tasks \in [Tasks -> TaskType], NEW t \in Tasks, tasks[t].state = "new",
         NEW event \in BOOLEAN, NEW ds \in DataLists,
         NEW new, new = WithEnqueued(tasks, t, event, ds)
  PROVE  /\ new \in [Tasks -> TaskType]
         /\ Held(new) = Held(tasks) \cup Pairs(t, ds)
         /\ Waits(new) = Waits(tasks) \cup Pairs(t, ds)
         /\ PairsOf(new, {"stuck"}) = PairsOf(tasks, {"stuck"})
         /\ \A e \in Held(tasks) : e[1] # t
<1>1. PICK r : r = [state |-> "waiting", event |-> event, datas |-> ds]
  OBVIOUS
<1>2. r \in TaskType /\ r.state = "waiting" /\ r.datas = ds
  BY <1>1 DEF TaskType
<1>3. \A states : "new" \notin states => \A e \in PairsOf(tasks, states) : e[1] # t
  BY DEF PairsOf
<1>4. new = [tasks EXCEPT ![t] = r] /\ DOMAIN tasks = Tasks /\ Range(r.datas) \subseteq Datas
  BY <1>1, <1>2, ListFacts DEF WithEnqueued
<1>50. \A states : PairsOf(new, states) = PairsWith(tasks, states, t, r)
  <2>1. Replaced(tasks, new, t, r)
    BY <1>4 DEF Replaced
  <2> QED BY <1>4, <2>1, PairsFacts
<1>5. \A states : PairsOf(new, states) = {e \in PairsOf(tasks, states) : e[1] # t} \cup
                                         {e \in Pairs(t, r.datas) : r.state \in states}
  BY <1>50 DEF PairsWith
<1>6. new \in [Tasks -> TaskType]
  BY <1>2, <1>4
<1>7. "new" \notin {"waiting", "flushed", "stuck"} /\ "new" \notin {"waiting", "stuck"} /\ "new" \notin {"stuck"}
  OBVIOUS
<1>8. Held(new) = Held(tasks) \cup Pairs(t, ds) /\ \A e \in Held(tasks) : e[1] # t
  <2>1. Held(new) = {e \in Held(tasks) : e[1] # t} \cup
                    {e \in Pairs(t, ds) : r.state \in {"waiting", "flushed", "stuck"}}
    BY <1>2, <1>5 DEF Held
  <2>2. \A e \in Held(tasks) : e[1] # t
    BY <1>3, <1>7 DEF Held
  <2> QED BY <1>2, <2>1, <2>2
<1>9. Waits(new) = Waits(tasks) \cup Pairs(t, ds)
  <2>1. Waits(new) = {e \in Waits(tasks) : e[1] # t} \cup
                     {e \in Pairs(t, ds) : r.state \in {"waiting", "stuck"}}
    BY <1>2, <1>5 DEF Waits
  <2>2. \A e \in Waits(tasks) : e[1] # t
    BY <1>3, <1>7 DEF Waits
  <2> QED BY <1>2, <2>1, <2>2
<1>10. PairsOf(new, {"stuck"}) = PairsOf(tasks, {"stuck"})
  <2>1. PairsOf(new, {"stuck"}) = {e \in PairsOf(tasks, {"stuck"}) : e[1] # t} \cup
                                  {e \in Pairs(t, ds) : r.state \in {"stuck"}}
    BY <1>2, <1>5
  <2>2. \A e \in PairsOf(tasks, {"stuck"}) : e[1] # t
    BY <1>3, <1>7
  <2> QED BY <1>2, <2>1, <2>2
<1> QED BY <1>6, <1>8, <1>9, <1>10

\* A task that is gone holds nothing.
LEMMA TaskGone ==
  ASSUME NEW tasks \in [Tasks -> TaskType], NEW t \in Tasks,
         NEW new, new = [tasks EXCEPT ![t] = [state |-> "gone"]]
  PROVE  /\ new \in [Tasks -> TaskType] /\ PairsOf(new, {"stuck"}) \subseteq PairsOf(tasks, {"stuck"})
         /\ Held(new) = {e \in Held(tasks) : e[1] # t}
         /\ Waits(new) = {e \in Waits(tasks) : e[1] # t}
<1>1. PICK r : r = [state |-> "gone"]
  OBVIOUS
<1>2. r \in TaskType /\ r.state = "gone"
  BY <1>1 DEF TaskType
<1>3. new = [tasks EXCEPT ![t] = r] /\ DOMAIN tasks = Tasks
  BY <1>1
<1>4. \A states : r.state \notin states => PairsOf(new, states) = PairsWith(tasks, states, t, r)
  <2>1. Replaced(tasks, new, t, r)
    BY <1>3 DEF Replaced
  <2> QED BY <2>1, PairsFacts
<1>5. \A states : r.state \notin states => PairsOf(new, states) = {e \in PairsOf(tasks, states) : e[1] # t}
  BY <1>4 DEF PairsWith
<1>6. /\ r.state \notin {"waiting", "flushed", "stuck"} /\ r.state \notin {"waiting", "stuck"}
      /\ r.state \notin {"stuck"}
  BY <1>2
<1>7. new \in [Tasks -> TaskType]
  BY <1>2, <1>3
<1> QED BY <1>5, <1>6, <1>7 DEF Held, Waits

WithState(tasks, t, state) == [tasks EXCEPT ![t].state = state]

\* Task t, which waited with the data ds, is flushed or stuck.
Moved(tasks, new, t, ds, state) ==
    /\ new \in [Tasks -> TaskType] /\ ds \in DataLists
    /\ Pairs(t, ds) \subseteq Waits(tasks)
    /\ Held(new) = Held(tasks)
    /\ state = "flushed" => Waits(new) = Waits(tasks) \ Pairs(t, ds)
    /\ state = "flushed" => PairsOf(new, {"stuck"}) = PairsOf(tasks, {"stuck"})
    /\ state = "stuck" => Waits(new) = Waits(tasks)
    /\ state = "stuck" => PairsOf(new, {"stuck"}) = PairsOf(tasks, {"stuck"}) \cup Pairs(t, ds)

\* A flushed task waits no longer, one that is stuck does.
LEMMA TaskFlushed ==
  ASSUME NEW tasks \in [Tasks -> TaskType], NEW t \in Tasks, tasks[t].state = "waiting",
         NEW state \in {"flushed", "stuck"},
         NEW new, new = WithState(tasks, t, state)
  PROVE  Moved(tasks, new, t, tasks[t].datas, state)
<1>0. new = [tasks EXCEPT ![t].state = state]
  BY DEF WithState
<1>1. PICK ds \in DataLists, event \in BOOLEAN :
        ds = tasks[t].datas /\ tasks[t] = [state |-> "waiting", event |-> event, datas |-> ds]
  BY TaskFacts
<1>2. PICK r : r = [state |-> state, event |-> event, datas |-> ds]
  OBVIOUS
<1>3. r \in TaskType /\ r.state = state /\ r.datas = ds
  BY <1>2 DEF TaskType
<1>4. [tasks[t] EXCEPT !.state = state] = r
  BY <1>1, <1>2
<1>5. new = [tasks EXCEPT ![t] = r] /\ DOMAIN tasks = Tasks /\ Range(r.datas) \subseteq Datas
  BY <1>0, <1>3, <1>4, ListFacts
<1>60. \A states : PairsOf(new, states) = PairsWith(tasks, states, t, r)
  <2>1. Replaced(tasks, new, t, r)
    BY <1>5 DEF Replaced
  <2> QED BY <1>5, <2>1, PairsFacts
<1>6. \A states : PairsOf(new, states) = {e \in PairsOf(tasks, states) : e[1] # t} \cup
                                         {e \in Pairs(t, ds) : state \in states}
  BY <1>3, <1>60 DEF PairsWith
<1>7. \A states : "waiting" \in states => {e \in PairsOf(tasks, states) : e[1] = t} = Pairs(t, ds)
  <2>1. tasks[t].state = "waiting" /\ tasks[t].datas = ds /\ Range(ds) \subseteq Datas
    BY <1>1, <1>3, <1>5
  <2> QED BY <2>1 DEF PairsOf, Pairs
<1>8. \A states : "waiting" \notin states => \A e \in PairsOf(tasks, states) : e[1] # t
  BY DEF PairsOf
<1>9. /\ "waiting" \in {"waiting", "flushed", "stuck"} /\ "waiting" \in {"waiting", "stuck"}
      /\ "waiting" \notin {"stuck"} /\ state \in {"waiting", "flushed", "stuck"}
      /\ state = "flushed" => state \notin {"waiting", "stuck"} /\ state \notin {"stuck"}
      /\ state = "stuck" => state \in {"waiting", "stuck"} /\ state \in {"stuck"}
  OBVIOUS
<1>10. new \in [Tasks -> TaskType]
  BY <1>3, <1>5
<1>11. Pairs(t, ds) \subseteq Waits(tasks) /\ \A e \in Pairs(t, ds) : e[1] = t
  BY <1>7, <1>9 DEF Waits, Pairs
<1>12. Held(new) = Held(tasks)
  <2>1. Held(new) = {e \in Held(tasks) : e[1] # t} \cup Pairs(t, ds)
    BY <1>6, <1>9 DEF Held
  <2>2. {e \in Held(tasks) : e[1] = t} = Pairs(t, ds)
    BY <1>7, <1>9 DEF Held
  <2> QED BY <2>1, <2>2
<1>13. ASSUME state = "flushed"
       PROVE  /\ Waits(new) = Waits(tasks) \ Pairs(t, ds)
              /\ PairsOf(new, {"stuck"}) = PairsOf(tasks, {"stuck"})
  <2>1. Waits(new) = {e \in Waits(tasks) : e[1] # t}
    BY <1>6, <1>9, <1>13 DEF Waits
  <2>2. {e \in Waits(tasks) : e[1] = t} = Pairs(t, ds)
    BY <1>7, <1>9 DEF Waits
  <2>3. PairsOf(new, {"stuck"}) = {e \in PairsOf(tasks, {"stuck"}) : e[1] # t}
    BY <1>6, <1>9, <1>13
  <2> QED BY <1>8, <1>9, <1>11, <2>1, <2>2, <2>3
<1>14. ASSUME state = "stuck"
       PROVE  /\ Waits(new) = Waits(tasks)
              /\ PairsOf(new, {"stuck"}) = PairsOf(tasks, {"stuck"}) \cup Pairs(t, ds)
  <2>1. Waits(new) = {e \in Waits(tasks) : e[1] # t} \cup Pairs(t, ds)
    BY <1>6, <1>9, <1>14 DEF Waits
  <2>2. {e \in Waits(tasks) : e[1] = t} = Pairs(t, ds)
    BY <1>7, <1>9 DEF Waits
  <2>3. PairsOf(new, {"stuck"}) = {e \in PairsOf(tasks, {"stuck"}) : e[1] # t} \cup Pairs(t, ds)
    BY <1>6, <1>9, <1>14
  <2> QED BY <1>8, <1>9, <2>1, <2>2, <2>3
<1> QED BY <1>1, <1>10, <1>11, <1>12, <1>13, <1>14 DEF Moved

\* A task that is popped has nothing acquired.
LEMMA TaskPopped ==
  ASSUME NEW tasks \in [Tasks -> TaskType], NEW t \in Tasks, tasks[t].state = "flushed",
         NEW new, new = [tasks EXCEPT ![t] = [state |-> "gone"]]
  PROVE  /\ tasks[t].datas \in DataLists
         /\ Pairs(t, tasks[t].datas) \subseteq Held(tasks) \ Waits(tasks)
         /\ Held(new) = Held(tasks) \ Pairs(t, tasks[t].datas)
         /\ Waits(new) = Waits(tasks)
<1>1. PICK ds \in DataLists : ds = tasks[t].datas /\ Range(ds) \subseteq Datas
  BY TaskFacts, ListFacts
<1>2. /\ Held(new) = {e \in Held(tasks) : e[1] # t} /\ Waits(new) = {e \in Waits(tasks) : e[1] # t}
  BY TaskGone
<1>3. {e \in Held(tasks) : e[1] = t} = Pairs(t, ds) /\ \A e \in Waits(tasks) : e[1] # t
  BY <1>1 DEF Held, Waits, PairsOf, Pairs
<1>4. \A e \in Pairs(t, ds) : e[1] = t
  BY DEF Pairs
<1> QED BY <1>1, <1>2, <1>3, <1>4

\* Who is stuck waits, and who waits holds.
LEMMA WaitsAreHeld ==
  ASSUME NEW tasks
  PROVE  Waits(tasks) \subseteq Held(tasks) /\ Held(tasks) \subseteq Tasks \X Datas
         /\ PairsOf(tasks, {"stuck"}) \subseteq Waits(tasks)
BY DEF Waits, Held, PairsOf

-----------------------------------------------------------------------------
(***************************************************************************)
(* The application's calls.                                                *)
(***************************************************************************)
LEMMA InfoFacts ==
  ASSUME NEW program \in [Programs -> Nat], NEW kernel \in KernelTable, NEW A,
         ProgramCount(program, kernel, A, NULL), NEW p \in Programs, program[p] = 0
  PROVE  p \notin A /\ \A n \in Names : Namesakes(kernel, <<p, n>>) = {}
<1>1. p \notin A
  <2>1. 0 = One(p \in A) + One(p = NULL) + Cardinality(ProgramTokens(kernel, p))
        /\ IsFiniteSet(ProgramTokens(kernel, p))
    BY DEF ProgramCount
  <2>2. Cardinality(ProgramTokens(kernel, p)) \in Nat
    BY <2>1, FS_CardinalityType
  <2> QED BY <2>1, <2>2 DEF One
<1>2. ASSUME NEW k \in Kernels, kernel[k].ref > 0  PROVE kernel[k].program # p
  BY <1>2, LiveKernel
<1> QED BY <1>1, <1>2 DEF Namesakes

Loaded(h, p) == [h EXCEPT !.program[p] = 1, !.info = LoadedInfo(@, p),
                          !.programArray = PutInFreeSlot(@, p)]

\* LoadProgram makes a program that only the application holds.
LEMMA LoadedOpen ==
  ASSUME NEW h \in HeapType, NEW A, NEW F, NEW held, NEW waits,
         OpenInv(h, A, held, waits, F, NULL), NEW p \in Programs, h.program[p] = 0,
         NEW g, g = Loaded(h, p)
  PROVE  g \in HeapType /\ OpenInv(g, A \cup {p}, held, waits, F, NULL) /\ g.data = h.data
<1>0. /\ h.program \in [Programs -> Nat] /\ h.info \in InfoTable /\ h.kernel \in KernelTable
      /\ h.programArray \in Seq(Programs \cup {NULL}) /\ NULL \notin Programs
  BY CmProgramsAssumption DEF HeapType
<1> DEFINE program == [h.program EXCEPT ![p] = 1]
           info == LoadedInfo(h.info, p)
           array == PutInFreeSlot(h.programArray, p)
<1>1. g = [h EXCEPT !.program = program, !.info = info, !.programArray = array]
  BY DEF HeapType, Loaded
<1>2. program \in [Programs -> Nat] /\ program[p] = 1
      /\ \A q \in Programs : q # p => program[q] = h.program[q]
  BY <1>0
<1>3. /\ info \in InfoTable
      /\ \A x \in Programs \X Names : info[x] = IF x[1] = p THEN [ref |-> 1, parsed |-> FALSE]
                                                 ELSE h.info[x]
  <2>1. DOMAIN h.info = Programs \X Names
        /\ \A x \in Programs \X Names : h.info[x] \in [ref : Nat, parsed : BOOLEAN]
    BY <1>0 DEF InfoTable
  <2> QED BY <2>1 DEF InfoTable, LoadedInfo
<1>4. array \in Seq(Programs \cup {NULL})
      /\ Range(array) \ {NULL} = (Range(h.programArray) \ {NULL}) \cup {p}
  BY <1>0, PutFacts
<1> HIDE DEF program, info, array
<1>5. /\ g \in HeapType /\ g.program = program /\ g.info = info /\ g.programArray = array
      /\ g.kernel = h.kernel /\ g.data = h.data /\ g.kernelArray = h.kernelArray
  BY <1>1, <1>2, <1>3, <1>4 DEF HeapType
<1>6. p \notin A /\ \A n \in Names : Namesakes(h.kernel, <<p, n>>) = {}
  <2>1. PICK prog, kernel : prog = h.program /\ kernel = h.kernel
    OBVIOUS
  <2>2. /\ prog \in [Programs -> Nat] /\ kernel \in KernelTable /\ prog[p] = 0
        /\ ProgramCount(prog, kernel, A, NULL)
    BY <1>0, <2>1 DEF OpenInv
  <2>3. p \notin A /\ \A n \in Names : Namesakes(kernel, <<p, n>>) = {}
    BY <2>2, InfoFacts
  <2> QED BY <2>1, <2>3
<1>7. ProgramCount(program, h.kernel, A \cup {p}, NULL)
  <2> SUFFICES ASSUME NEW q \in Programs
               PROVE  /\ IsFiniteSet(ProgramTokens(h.kernel, q))
                      /\ program[q] = One(q \in A \cup {p}) + One(q = NULL)
                                        + Cardinality(ProgramTokens(h.kernel, q))
    BY DEF ProgramCount
  <2>1. /\ IsFiniteSet(ProgramTokens(h.kernel, q))
        /\ h.program[q] = One(q \in A) + One(q = NULL) + Cardinality(ProgramTokens(h.kernel, q))
    BY DEF OpenInv, ProgramCount
  <2>2. PICK c \in Nat : c = Cardinality(ProgramTokens(h.kernel, q))
    BY <2>1, FS_CardinalityType
  <2> QED BY <1>2, <1>6, <2>1, <2>2 DEF One
<1>8. InfoCount(info, program, h.kernel)
  <2> SUFFICES ASSUME NEW x \in Programs \X Names
               PROVE  /\ info[x].ref = One(program[x[1]] > 0) + Cardinality(Namesakes(h.kernel, x))
                      /\ info[x].parsed = (info[x].ref >= 2)
    BY DEF InfoCount
  <2>1. CASE x[1] = p
    <3>1. x = <<p, x[2]>> /\ x[2] \in Names
      BY <2>1
    <3>2. Cardinality(Namesakes(h.kernel, x)) = 0
      BY <1>6, <3>1, NamesakesFacts
    <3>3. info[x].ref = 1 /\ info[x].parsed = FALSE /\ One(program[x[1]] > 0) = 1
      BY <1>2, <1>3, <2>1 DEF One
    <3>4. ~ (info[x].ref >= 2)
      BY <3>3
    <3>5. info[x].parsed = (info[x].ref >= 2)
      <4>1. info[x].parsed \in BOOLEAN /\ ~ info[x].parsed
        BY <3>3
      <4>2. (info[x].ref >= 2) \in BOOLEAN
        OBVIOUS
      <4> QED BY <3>4, <4>1, <4>2
    <3> QED BY <3>2, <3>3, <3>5
  <2>2. CASE x[1] # p
    BY <1>2, <1>3, <2>2 DEF OpenInv, InfoCount
  <2> QED BY <2>1, <2>2
<1>9. KernelCount(h.kernel, h.data, A \cup {p}, F, NULL)
  <2>1. \A k \in Kernels : k \in A \cup {p} <=> k \in A
    BY CmProgramsAssumption
  <2> QED BY <2>1 DEF OpenInv, KernelCount, One
<1>10. ProgramsListed(g) /\ KernelsListed(g)
  BY <1>2, <1>4, <1>5 DEF OpenInv, ProgramsListed, KernelsListed
<1> QED BY <1>5, <1>7, <1>8, <1>9, <1>10 DEF OpenInv

\* The application gives up what ReleaseProgram releases.
LEMMA DestroyProgramOpen ==
  ASSUME NEW h \in HeapType, NEW A, NEW F, NEW held, NEW waits,
         OpenInv(h, A, held, waits, F, NULL), NEW p \in Programs, p \in A,
         NEW g, g = ReleaseProgram(h, p)
  PROVE  g \in HeapType /\ OpenInv(g, A \ {p}, held, waits, F, NULL) /\ g.data = h.data
<1>1. ProgramCount(h.program, h.kernel, A \ {p}, p)
  <2> SUFFICES ASSUME NEW q \in Programs
               PROVE  One(q \in A) + One(q = NULL) = One(q \in A \ {p}) + One(q = p)
    BY DEF OpenInv, ProgramCount
  <2> QED BY CmProgramsAssumption DEF One
<1>2. /\ OnlyProgram(h, g)
      /\ ProgramCount(g.program, h.kernel, A \ {p}, NULL)
      /\ InfoCount(g.info, g.program, h.kernel)
      /\ ProgramsListed(g)
  BY <1>1, ReleaseProgramIs DEF OpenInv
<1>3. g \in HeapType /\ g.kernel = h.kernel /\ g.data = h.data /\ g.kernelArray = h.kernelArray
  BY <1>2 DEF OnlyProgram
<1>4. KernelCount(h.kernel, h.data, A \ {p}, F, NULL)
  <2>1. \A k \in Kernels : k \in A \ {p} <=> k \in A
    BY CmProgramsAssumption
  <2> QED BY <2>1 DEF OpenInv, KernelCount, One
<1>5. KernelsListed(g)
  BY <1>3 DEF OpenInv, KernelsListed
<1> QED BY <1>2, <1>3, <1>4, <1>5 DEF OpenInv

\* What holds of a kernel that was just made.
IsCreated(h, w, k) ==
    /\ w \in HeapType
    /\ w.data = h.data /\ w.programArray = h.programArray /\ w.kernelArray = h.kernelArray
    /\ w.kernel[k].ref = 1
    /\ \A j \in Kernels : j # k => w.kernel[j] = h.kernel[j]
    /\ \A p \in Programs : w.program[p] > 0 <=> h.program[p] > 0

\* A new kernel has one reference of its program, its own information and no data.
LEMMA CreatedIs ==
  ASSUME NEW h \in HeapType, NEW A, NEW held,
         ProgramCount(h.program, h.kernel, A, NULL), InfoCount(h.info, h.program, h.kernel),
         DataCount(h.data, h.kernel, held, 0), LastInv(h.data, h.kernel),
         NEW k \in Kernels, h.kernel[k].ref = 0,
         NEW p \in Programs, p \in A, NEW n \in Names,
         NEW w, w = Created(h, k, p, n)
  PROVE  /\ IsCreated(h, w, k)
         /\ ProgramCount(w.program, w.kernel, A, NULL) /\ InfoCount(w.info, w.program, w.kernel)
         /\ DataCount(w.data, w.kernel, held, 0) /\ LastInv(w.data, w.kernel)
<1>0. /\ h.program \in [Programs -> Nat] /\ h.info \in InfoTable /\ h.kernel \in KernelTable
      /\ \A j \in Kernels : h.kernel[j].ref \in Nat
  BY KernelFacts DEF HeapType
<1>1. PICK x \in Programs \X Names : x = <<p, n>> /\ x[1] = p
  <2>1. <<p, n>> \in Programs \X Names /\ <<p, n>>[1] = p
    OBVIOUS
  <2> QED BY <2>1
<1>2. PICK r \in Nat, b \in BOOLEAN : r = h.info[x].ref /\ b = h.info[x].parsed
  BY <1>0 DEF InfoTable
<1>3. PICK m \in Nat : m = h.program[p]
  BY <1>0
<1> DEFINE program == [h.program EXCEPT ![p] = m + 1]
           info == [h.info EXCEPT ![x] = [ref |-> r + 1, parsed |-> b \/ r <= 1]]
           kernel == [h.kernel EXCEPT ![k] = [ref |-> 1, program |-> p, name |-> n, last |-> 0]]
<1>4. w = [h EXCEPT !.program[p] = m + 1,
                    !.info[x] = [ref |-> r + 1, parsed |-> b \/ r <= 1],
                    !.kernel[k] = [ref |-> 1, program |-> p, name |-> n, last |-> 0]]
  BY <1>1, <1>2, <1>3 DEF Created, ReadStrings
<1>5. w = [h EXCEPT !.program = program, !.info = info, !.kernel = kernel]
  BY <1>4 DEF HeapType
<1>6. program \in [Programs -> Nat] /\ program[p] = m + 1
      /\ \A q \in Programs : q # p => program[q] = h.program[q]
  BY <1>0
<1>7. /\ kernel \in KernelTable /\ kernel[k].ref = 1 /\ kernel[k].program = p /\ kernel[k].name = n
      /\ kernel[k].last = 0
      /\ \A j \in Kernels : j # k => kernel[j] = h.kernel[j]
  BY <1>0 DEF KernelTable, KernelType
<1>80. PICK f \in BOOLEAN : f = (b \/ r <= 1)
  OBVIOUS
<1>8. PICK c : c = [ref |-> r + 1, parsed |-> b \/ r <= 1]
  OBVIOUS
<1>9. c \in [ref : Nat, parsed : BOOLEAN] /\ c.ref = r + 1 /\ (c.parsed <=> b \/ r <= 1)
      /\ c.parsed \in BOOLEAN
  <2>1. c = [ref |-> r + 1, parsed |-> f]
    BY <1>80, <1>8
  <2>2. c \in [ref : Nat, parsed : BOOLEAN] /\ c.ref = r + 1 /\ c.parsed = f
    BY <2>1
  <2> QED BY <1>80, <2>2
<1>10. /\ info \in InfoTable /\ info[x] = c
       /\ \A y \in Programs \X Names : y # x => info[y] = h.info[y]
  <2>1. info = [h.info EXCEPT ![x] = c]
    BY <1>8
  <2> HIDE DEF info
  <2> QED BY <1>0, <1>9, <2>1 DEF InfoTable
<1> HIDE DEF program, info, kernel
<1>11. /\ w \in HeapType /\ w.program = program /\ w.info = info /\ w.kernel = kernel
       /\ w.programArray = h.programArray /\ w.data = h.data /\ w.kernelArray = h.kernelArray
  BY <1>5, <1>6, <1>7, <1>10 DEF HeapType
<1>12. m > 0
  <2>1. m = One(p \in A) + One(p = NULL) + Cardinality(ProgramTokens(h.kernel, p))
        /\ IsFiniteSet(ProgramTokens(h.kernel, p))
    BY <1>3 DEF ProgramCount
  <2>2. Cardinality(ProgramTokens(h.kernel, p)) \in Nat
    BY <2>1, FS_CardinalityType
  <2>3. PICK a \in Nat : a = Cardinality(ProgramTokens(h.kernel, p))
    BY <2>2
  <2> QED BY <2>1, <2>3 DEF One
<1>13. \A q \in Programs : program[q] > 0 <=> h.program[q] > 0
  BY <1>3, <1>6, <1>12
<1>14. ProgramCount(program, kernel, A, NULL)
  <2>1. PICK old : old = h.kernel
    OBVIOUS
  <2>2. /\ old \in KernelTable /\ old[k].ref = 0 /\ kernel[k].ref = 0 + 1 /\ kernel[k].program = p
        /\ \A j \in Kernels : j # k => /\ kernel[j].ref = old[j].ref
                                       /\ old[j].ref > 0 => kernel[j].program = old[j].program
    BY <1>0, <1>7, <2>1
  <2>3. PICK zero \in Nat : zero = 0
    OBVIOUS
  <2>4. /\ old[k].ref = zero /\ (zero > 0 => old[k].program = p) /\ kernel[k].ref = zero + 1
    BY <2>2, <2>3
  <2>5. \A q : /\ IsFiniteSet(ProgramTokens(old, q)) <=> IsFiniteSet(ProgramTokens(kernel, q))
               /\ IsFiniteSet(ProgramTokens(old, q)) =>
                    /\ Cardinality(ProgramTokens(old, q)) \in Nat
                    /\ Cardinality(ProgramTokens(kernel, q)) =
                         Cardinality(ProgramTokens(old, q)) + One(q = p)
    BY <1>7, <2>2, <2>4, OneProgramToken
  <2> SUFFICES ASSUME NEW q \in Programs
               PROVE  /\ IsFiniteSet(ProgramTokens(kernel, q))
                      /\ program[q] = One(q \in A) + One(q = NULL) + Cardinality(ProgramTokens(kernel, q))
    BY DEF ProgramCount
  <2>6. /\ IsFiniteSet(ProgramTokens(old, q))
        /\ h.program[q] = One(q \in A) + One(q = NULL) + Cardinality(ProgramTokens(old, q))
    BY <2>1 DEF ProgramCount
  <2>7. program[q] = h.program[q] + One(q = p)
    BY <1>0, <1>3, <1>6 DEF One
  <2>8. PICK a \in Nat : a = Cardinality(ProgramTokens(old, q))
    BY <2>5, <2>6
  <2>9. One(q \in A) \in Nat /\ One(q = NULL) \in Nat /\ One(q = p) \in Nat
    BY DEF One
  <2>10. IsFiniteSet(ProgramTokens(kernel, q)) /\ Cardinality(ProgramTokens(kernel, q)) = a + One(q = p)
    BY <2>5, <2>6, <2>8
  <2> QED BY <2>6, <2>7, <2>8, <2>9, <2>10
<1>15. InfoCount(info, program, kernel)
  <2>1. PICK old : old = h.kernel
    OBVIOUS
  <2>2. \A y \in Programs \X Names :
          Cardinality(Namesakes(kernel, y)) = Cardinality(Namesakes(old, y)) + One(y = x)
    <3>1. /\ old \in KernelTable /\ old[k].ref = 0 /\ kernel[k].ref > 0
          /\ \A j \in Kernels : j # k => kernel[j] = old[j]
          /\ x = <<kernel[k].program, kernel[k].name>>
      BY <1>0, <1>1, <1>7, <2>1
    <3>2. \A y \in Programs \X Names :
            Cardinality(Namesakes(kernel, y)) =
              Cardinality(Namesakes(old, y)) + One(y = <<kernel[k].program, kernel[k].name>>)
      BY <1>7, <3>1, OneNamesake
    <3> QED BY <3>1, <3>2
  <2>3. \A y \in Programs \X Names : One(program[y[1]] > 0) = One(h.program[y[1]] > 0)
    BY <1>13 DEF One
  <2> SUFFICES ASSUME NEW y \in Programs \X Names
               PROVE  /\ info[y].ref = One(program[y[1]] > 0) + Cardinality(Namesakes(kernel, y))
                      /\ info[y].parsed = (info[y].ref >= 2)
    BY DEF InfoCount
  <2>4. /\ h.info[y].ref = One(program[y[1]] > 0) + Cardinality(Namesakes(old, y))
        /\ h.info[y].parsed = (h.info[y].ref >= 2)
    BY <2>1, <2>3 DEF InfoCount
  <2>5. PICK a \in Nat : a = Cardinality(Namesakes(old, y))
    BY NamesakesFacts
  <2>6. Cardinality(Namesakes(kernel, y)) = a + One(y = x)
    BY <2>2, <2>5
  <2>7. CASE y = x
    <3>1. One(program[y[1]] > 0) = 1
      BY <1>1, <1>6, <2>7 DEF One
    <3>2. r = 1 + a /\ (b <=> r >= 2)
      BY <1>2, <2>4, <2>5, <2>7, <3>1
    <3>3. info[y].ref = r + 1 /\ r + 1 >= 2 /\ info[y].parsed
      BY <1>9, <1>10, <2>7, <3>2
    <3>4. info[y].parsed \in BOOLEAN
      BY <1>9, <1>10, <2>7
    <3>5. info[y].ref = One(program[y[1]] > 0) + Cardinality(Namesakes(kernel, y))
      BY <2>6, <2>7, <3>1, <3>2, <3>3 DEF One
    <3>6. info[y].ref >= 2
      BY <3>3
    <3> QED BY <3>3, <3>4, <3>5, <3>6
  <2>8. CASE y # x
    <3>1. info[y] = h.info[y]
      BY <1>10, <2>8
    <3>2. Cardinality(Namesakes(kernel, y)) = Cardinality(Namesakes(old, y))
      BY <2>5, <2>6, <2>8 DEF One
    <3> QED BY <2>4, <3>1, <3>2
  <2> QED BY <2>7, <2>8
<1>16. DataCount(h.data, kernel, held, 0) /\ LastInv(h.data, kernel)
  <2>1. \A d \in Datas : IsLast(kernel, d) <=> IsLast(h.kernel, d)
    <3>1. 0 \notin Datas
      BY DatasFacts
    <3> QED BY <1>7, <3>1 DEF IsLast
  <2>2. DataCount(h.data, kernel, held, 0)
    BY <2>1 DEF DataCount, One
  <2>3. LastInv(h.data, kernel)
    BY <1>7 DEF LastInv
  <2> QED BY <2>2, <2>3
<1>17. IsCreated(h, w, k)
  BY <1>7, <1>11, <1>13 DEF IsCreated
<1> QED BY <1>11, <1>14, <1>15, <1>16, <1>17

\* The kernel gets its place in the array.
Listed(h, k) == [h EXCEPT !.kernelArray = PutInFreeSlot(@, k)]

\* CreateKernel makes a kernel that only the application holds.
LEMMA CreateKernelOpen ==
  ASSUME NEW h \in HeapType, NEW A, NEW F, NEW held, NEW waits,
         OpenInv(h, A, held, waits, F, NULL), NEW k \in Kernels, h.kernel[k].ref = 0,
         NEW p \in Programs, p \in A, NEW n \in Names,
         NEW g, g = Listed(Created(h, k, p, n), k)
  PROVE  g \in HeapType /\ OpenInv(g, A \cup {k}, held, waits, F, NULL) /\ g.data = h.data
<1>1. PICK w : w = Created(h, k, p, n)
  OBVIOUS
<1>2. /\ IsCreated(h, w, k)
      /\ ProgramCount(w.program, w.kernel, A, NULL) /\ InfoCount(w.info, w.program, w.kernel)
      /\ DataCount(w.data, w.kernel, held, 0) /\ LastInv(w.data, w.kernel)
  BY <1>1, CreatedIs DEF OpenInv
<1>3. /\ w \in HeapType /\ w.data = h.data /\ w.programArray = h.programArray
      /\ w.kernelArray = h.kernelArray /\ w.kernel[k].ref = 1
      /\ \A j \in Kernels : j # k => w.kernel[j] = h.kernel[j]
      /\ \A q \in Programs : w.program[q] > 0 <=> h.program[q] > 0
  BY <1>2 DEF IsCreated
<1> DEFINE array == PutInFreeSlot(h.kernelArray, k)
<1>4. g = [w EXCEPT !.kernelArray = array]
  BY <1>1, <1>3 DEF Listed
<1>5. /\ array \in Seq(Kernels \cup {NULL})
      /\ Range(array) \ {NULL} = (Range(h.kernelArray) \ {NULL}) \cup {k}
  <2>1. NULL \notin Kernels /\ h.kernelArray \in Seq(Kernels \cup {NULL})
    BY CmProgramsAssumption DEF HeapType
  <2> QED BY <2>1, PutFacts
<1> HIDE DEF array
<1>6. /\ g \in HeapType /\ g.program = w.program /\ g.info = w.info /\ g.kernel = w.kernel
      /\ g.programArray = h.programArray /\ g.data = h.data /\ g.kernelArray = array
  BY <1>3, <1>4, <1>5 DEF HeapType
<1>7. KernelCount(w.kernel, h.data, A \cup {k}, F, NULL)
  <2> SUFFICES ASSUME NEW j \in Kernels
               PROVE  /\ IsFiniteSet(KernelTokens(h.data, j))
                      /\ w.kernel[j].ref + One(j = NULL) >=
                           One(j \in A \cup {k}) + Cardinality(KernelTokens(h.data, j))
                      /\ j \notin F => w.kernel[j].ref + One(j = NULL) =
                                         One(j \in A \cup {k}) + Cardinality(KernelTokens(h.data, j))
    BY DEF KernelCount
  <2>1. /\ IsFiniteSet(KernelTokens(h.data, j))
        /\ h.kernel[j].ref + One(j = NULL) >= One(j \in A) + Cardinality(KernelTokens(h.data, j))
        /\ j \notin F => h.kernel[j].ref + One(j = NULL) =
                           One(j \in A) + Cardinality(KernelTokens(h.data, j))
    BY DEF OpenInv, KernelCount
  <2>2. PICK c \in Nat : c = Cardinality(KernelTokens(h.data, j))
    BY <2>1, FS_CardinalityType
  <2>3. One(j = NULL) = 0
    BY CmProgramsAssumption DEF One
  <2>4. CASE j = k
    <3>1. c = 0 /\ One(j \in A) = 0
      BY <2>1, <2>2, <2>3, <2>4 DEF One
    <3>2. w.kernel[j].ref = 1 /\ One(j \in A \cup {k}) = 1
      BY <1>3, <2>4 DEF One
    <3> QED BY <2>1, <2>2, <2>3, <3>1, <3>2
  <2>5. CASE j # k
    <3>1. One(j \in A \cup {k}) = One(j \in A) /\ w.kernel[j] = h.kernel[j]
      BY <1>3, <2>5 DEF One
    <3> QED BY <2>1, <3>1
  <2> QED BY <2>4, <2>5
<1>8. ProgramCount(w.program, w.kernel, A \cup {k}, NULL)
  <2>1. \A q \in Programs : q \in A \cup {k} <=> q \in A
    BY CmProgramsAssumption
  <2> QED BY <1>2, <2>1 DEF ProgramCount, One
<1>9. ProgramsListed(g) /\ KernelsListed(g)
  <2>1. ProgramsListed(g)
    BY <1>3, <1>6 DEF OpenInv, ProgramsListed
  <2>2. \A j \in Kernels : w.kernel[j].ref > 0 <=> h.kernel[j].ref > 0 \/ j = k
    BY <1>3
  <2>3. Range(array) \ {NULL} = {j \in Kernels : w.kernel[j].ref > 0}
    BY <1>5, <2>2 DEF OpenInv, KernelsListed
  <2> QED BY <1>6, <2>1, <2>3 DEF KernelsListed
<1> QED BY <1>2, <1>3, <1>6, <1>7, <1>8, <1>9 DEF OpenInv

\* Initialize has failed: the kernel is deleted before it is in the array.
LEMMA CreateKernelFailsOpen ==
  ASSUME NEW h \in HeapType, NEW A, NEW F, NEW held, NEW waits,
         OpenInv(h, A, held, waits, F, NULL), NEW k \in Kernels, h.kernel[k].ref = 0,
         NEW p \in Programs, p \in A, NEW n \in Names,
         NEW g, g = DestroyKernelReference(Created(h, k, p, n), k)
  PROVE  /\ g \in HeapType /\ OpenInv(g, A, held, waits, F, NULL) /\ SameKernels(h.data, g.data)
<1>0. held \in SUBSET (Tasks \X Datas) /\ waits \in SUBSET held
  BY DEF OpenInv
<1>1. PICK w : w = Created(h, k, p, n)
  OBVIOUS
<1>2. /\ IsCreated(h, w, k)
      /\ ProgramCount(w.program, w.kernel, A, NULL) /\ InfoCount(w.info, w.program, w.kernel)
      /\ DataCount(w.data, w.kernel, held, 0) /\ LastInv(w.data, w.kernel)
  BY <1>1, CreatedIs DEF OpenInv
<1>3. /\ w \in HeapType /\ w.data = h.data /\ w.programArray = h.programArray
      /\ w.kernelArray = h.kernelArray /\ w.kernel[k].ref = 1
      /\ \A j \in Kernels : j # k => w.kernel[j] = h.kernel[j]
      /\ \A q \in Programs : w.program[q] > 0 <=> h.program[q] > 0
  BY <1>2 DEF IsCreated
<1>4. ProgramsListed(w)
  BY <1>3 DEF OpenInv, ProgramsListed
<1>5. g = DestroyKernelReference(w, k) /\ w.kernel[k].ref > 0
  BY <1>1, <1>3
<1>6. /\ g \in HeapType
      /\ ProgramCount(g.program, g.kernel, A, NULL)
      /\ InfoCount(g.info, g.program, g.kernel)
      /\ DataCount(g.data, g.kernel, held, 0) /\ LastInv(g.data, g.kernel)
      /\ ProgramsListed(g)
      /\ Dropped(w.kernel, g.kernel, k)
      /\ g.kernelArray = IF w.kernel[k].ref = 1 THEN ClearSlot(w.kernelArray, k)
                         ELSE w.kernelArray
      /\ g.data = w.data \/ \E d \in Datas : Released(w.data, g.data, d)
  BY <1>2, <1>3, <1>4, <1>5, DestroyKernelReferenceIs
<1>7. \A j \in Kernels : g.kernel[j].ref = h.kernel[j].ref
  BY <1>3, <1>6 DEF Dropped
<1>8. PICK old, new, kernel : old = h.data /\ new = g.data /\ kernel = g.kernel
  OBVIOUS
<1>9. /\ kernel \in KernelTable /\ DataCount(new, kernel, held, 0)
      /\ old = new \/ \E d \in Datas : Released(old, new, d)
      /\ KernelCount(kernel, old, A, F, NULL) /\ WaitCount(old, waits, F) /\ OneOfAKernel(old, held)
  <2>1. KernelCount(kernel, old, A, F, NULL)
    BY <1>7, <1>8 DEF OpenInv, KernelCount
  <2> QED BY <1>3, <1>6, <1>8, <2>1 DEF OpenInv, HeapType
<1>10. /\ KernelCount(kernel, new, A, F, NULL) /\ WaitCount(new, waits, F)
       /\ OneOfAKernel(new, held) /\ SameKernels(old, new)
  BY <1>0, <1>9, ReleasedCounts
<1>11. KernelsListed(g)
  <2>1. Range(g.kernelArray) \ {NULL} = Range(h.kernelArray) \ {k, NULL}
    <3>1. h.kernelArray \in Seq(Kernels \cup {NULL})
      BY DEF HeapType
    <3>2. g.kernelArray = ClearSlot(h.kernelArray, k)
      BY <1>3, <1>6
    <3> QED BY <3>1, <3>2, ClearFacts
  <2>2. Range(h.kernelArray) \ {NULL} = {j \in Kernels : h.kernel[j].ref > 0}
    BY DEF OpenInv, KernelsListed
  <2>3. Range(h.kernelArray) \ {k, NULL} = {j \in Kernels : h.kernel[j].ref > 0}
    BY <2>2
  <2> QED BY <1>7, <2>1, <2>3 DEF KernelsListed
<1> QED BY <1>0, <1>6, <1>8, <1>10, <1>11 DEF OpenInv

-----------------------------------------------------------------------------
(***************************************************************************)
(* The invariant at the start, and while the device is open.               *)
(***************************************************************************)
LEMMA InitInv == Init => Inv
<1> SUFFICES ASSUME Init PROVE Inv
  OBVIOUS
<1> USE CmProgramsAssumption
<1>0. /\ heap.program = [p \in Programs |-> 0] /\ heap.info = [x \in Programs \X Names |-> NoInfo]
      /\ heap.kernel = [k \in Kernels |-> NoKernel] /\ heap.data = [d \in Datas |-> NoData]
      /\ heap.programArray = <<>> /\ heap.kernelArray = <<>> /\ appHolds = {} /\ failed = {}
      /\ task = [t \in Tasks |-> [state |-> "new"]] /\ enqueued = <<>> /\ flushed = <<>>
      /\ device = "open" /\ loads = 0
  BY DEF Init
<1>1. TypeOK
  <2>1. heap \in HeapType
    <3>1. /\ [p \in Programs |-> 0] \in [Programs -> Nat]
          /\ [k \in Kernels |-> NoKernel] \in KernelTable
          /\ [d \in Datas |-> NoData] \in DataTable
      BY DEF KernelTable, DataTable
    <3>2. [x \in Programs \X Names |-> NoInfo] \in InfoTable
      BY DEF InfoTable, NoInfo
    <3>3. <<>> \in Seq(Programs \cup {NULL}) /\ <<>> \in Seq(Kernels \cup {NULL})
      OBVIOUS
    <3> QED BY <3>1, <3>2, <3>3 DEF Init, HeapType
  <2>2. task \in [Tasks -> TaskType]
    BY <1>0 DEF TaskType
  <2> QED BY <1>0, <2>1, <2>2 DEF TypeOK
<1>2. /\ \A k \in Kernels : heap.kernel[k].ref = 0
      /\ \A d \in Datas : heap.data[d].ref = 0
      /\ \A p \in Programs : heap.program[p] = 0
  BY <1>0 DEF NoKernel, NoData, NoInfo
<1>3. \A states : "new" \notin states => PairsOf(task, states) = {}
  BY <1>0 DEF PairsOf
<1>4. Held(task) = {} /\ Waits(task) = {} /\ PairsOf(task, {"stuck"}) = {}
  BY <1>3 DEF Held, Waits
<1>5. \A p : ProgramTokens(heap.kernel, p) = {}
  BY <1>2 DEF ProgramTokens
<1>6. \A k : KernelTokens(heap.data, k) = {}
  BY <1>2 DEF KernelTokens
<1>7. \A x : Namesakes(heap.kernel, x) = {}
  BY <1>2 DEF Namesakes
<1>8. \A d : HoldersOf({}, d) = {} /\ ~ IsLast(heap.kernel, d)
  BY <1>2 DEF HoldersOf, IsLast
<1>9. IsFiniteSet({}) /\ Cardinality({}) = 0
  BY FS_EmptySet
<1>10. ProgramCount(heap.program, heap.kernel, appHolds, NULL)
  <2>1. \A p \in Programs : One(p \in appHolds) = 0 /\ One(p = NULL) = 0
    BY <1>0 DEF One
  <2>2. \A p \in Programs : /\ IsFiniteSet(ProgramTokens(heap.kernel, p))
                             /\ Cardinality(ProgramTokens(heap.kernel, p)) = 0
    BY <1>5, <1>9
  <2> QED BY <1>2, <2>1, <2>2 DEF ProgramCount
<1>11. InfoCount(heap.info, heap.program, heap.kernel)
  <2> SUFFICES ASSUME NEW x \in Programs \X Names
               PROVE  /\ heap.info[x].ref = One(heap.program[x[1]] > 0)
                                              + Cardinality(Namesakes(heap.kernel, x))
                      /\ heap.info[x].parsed = (heap.info[x].ref >= 2)
    BY DEF InfoCount
  <2>1. heap.program[x[1]] = 0
    BY <1>2
  <2>2. heap.info[x] = NoInfo
    BY <1>0
  <2>3. heap.info[x].ref = 0 /\ heap.info[x].parsed \in BOOLEAN /\ ~ heap.info[x].parsed
    BY <2>2 DEF NoInfo
  <2>4. ~ (heap.info[x].ref >= 2)
    BY <2>3
  <2>5. One(heap.program[x[1]] > 0) = 0 /\ Cardinality(Namesakes(heap.kernel, x)) = 0
    BY <1>7, <1>9, <2>1 DEF One
  <2>6. heap.info[x].ref = One(heap.program[x[1]] > 0) + Cardinality(Namesakes(heap.kernel, x))
    BY <2>3, <2>5
  <2>7. heap.info[x].parsed = (heap.info[x].ref >= 2)
    BY <2>3, <2>4
  <2> QED BY <2>6, <2>7
<1>12. KernelCount(heap.kernel, heap.data, appHolds, failed, NULL)
  <2>1. \A k \in Kernels : One(k \in appHolds) = 0 /\ One(k = NULL) = 0
    BY <1>0 DEF One
  <2>2. \A k \in Kernels : /\ IsFiniteSet(KernelTokens(heap.data, k))
                            /\ Cardinality(KernelTokens(heap.data, k)) = 0
    BY <1>6, <1>9
  <2> QED BY <1>2, <2>1, <2>2 DEF KernelCount
<1>13. DataCount(heap.data, heap.kernel, Held(task), 0)
  <2>1. 0 \notin Datas
    BY DatasFacts
  <2> SUFFICES ASSUME NEW d \in Datas
               PROVE  heap.data[d].ref = One(IsLast(heap.kernel, d)) + One(d = 0)
                                           + Cardinality(HoldersOf(Held(task), d))
    BY DEF DataCount
  <2>2. One(d = 0) = 0
    BY <2>1 DEF One
  <2>3. heap.data[d].ref = 0 /\ One(IsLast(heap.kernel, d)) = 0
    BY <1>2, <1>4, <1>8 DEF One
  <2>4. Cardinality(HoldersOf(Held(task), d)) = 0
    BY <1>4, <1>8, <1>9
  <2> QED BY <2>2, <2>3, <2>4
<1>14. /\ LastInv(heap.data, heap.kernel) /\ WaitCount(heap.data, Waits(task), failed)
       /\ OneOfAKernel(heap.data, Held(task))
  BY <1>2, <1>4 DEF LastInv, WaitCount, OneOfAKernel
<1>15. ProgramsListed(heap) /\ KernelsListed(heap)
  BY <1>0, <1>2 DEF ProgramsListed, KernelsListed, Range
<1>16. QueueInv /\ StuckInv
  BY <1>0, <1>4 DEF QueueInv, StuckInv, Range
<1> QED BY <1>0, <1>1, <1>4, <1>10, <1>11, <1>12, <1>13, <1>14, <1>15, <1>16
      DEF Inv, HeldInv, OpenInv

\* What is to show for a step after which the device is open.
LEMMA OpenNext ==
  ASSUME TypeOK', device' = "open", QueueInv', StuckInv',
         OpenInv(heap', appHolds', Held(task'), Waits(task'), failed', NULL)
  PROVE  Inv'
BY DEF Inv, HeldInv, OpenInv

\* A step that leaves the tasks and the queue alone.
LEMMA HeapStep ==
  ASSUME Inv, device = "open", NEW g \in HeapType, NEW A, A \subseteq Programs \cup Kernels,
         OpenInv(g, A, Held(task), Waits(task), failed, NULL), SameKernels(heap.data, g.data),
         heap' = g, appHolds' = A, loads' \in Nat,
         UNCHANGED <<task, enqueued, flushed, failed, device>>
  PROVE  Inv'
<1>1. TypeOK'
  BY DEF Inv, TypeOK
<1>2. QueueInv'
  BY DEF Inv, QueueInv
<1>3. StuckInv'
  <2>1. HeldKernels(heap.data, g.data, Held(task))
    <3>1. heap \in HeapType /\ OpenInv(heap, appHolds, Held(task), Waits(task), failed, NULL)
      BY DEF Inv, TypeOK
    <3>2. PICK h : h = heap
      OBVIOUS
    <3>3. h \in HeapType /\ OpenInv(h, appHolds, Held(task), Waits(task), failed, NULL)
          /\ SameKernels(h.data, g.data)
      BY <3>1, <3>2
    <3>4. PICK held : held = Held(task)
      OBVIOUS
    <3>5. HeldKernels(h.data, g.data, held)
      BY <3>3, <3>4, HeldKernelsFacts
    <3> QED BY <3>2, <3>4, <3>5
  <2>2. PairsOf(task, {"stuck"}) \subseteq Held(task)
    BY WaitsAreHeld
  <2> QED BY <2>1, <2>2 DEF Inv, StuckInv, HeldKernels
<1>4. OpenInv(heap', appHolds', Held(task'), Waits(task'), failed', NULL)
  OBVIOUS
<1> QED BY <1>1, <1>2, <1>3, <1>4, OpenNext

\* What the invariant says while the device is open.
LEMMA OpenFacts ==
  ASSUME Inv, device = "open"
  PROVE  /\ heap \in HeapType /\ appHolds \subseteq Programs \cup Kernels /\ loads \in Nat
         /\ task \in [Tasks -> TaskType]
         /\ OpenInv(heap, appHolds, Held(task), Waits(task), failed, NULL)
BY DEF Inv, TypeOK

\* LoadProgram keeps the invariant.
LEMMA LoadProgramStep ==
  ASSUME Inv, NEW p \in Programs, LoadProgram(p)
  PROVE  Inv'
<1>1. /\ device = "open" /\ heap.program[p] = 0 /\ loads' = loads + 1
      /\ appHolds' = appHolds \cup {p} /\ UNCHANGED <<task, enqueued, flushed, failed, device>>
  BY DEF LoadProgram, Load
<1>2. PICK h, g : h = heap /\ g = heap' /\ g = Loaded(h, p)
  BY DEF LoadProgram, Loaded
<1>3. h \in HeapType /\ OpenInv(h, appHolds, Held(task), Waits(task), failed, NULL)
      /\ h.program[p] = 0
  BY <1>1, <1>2, OpenFacts
<1>4. /\ g \in HeapType /\ OpenInv(g, appHolds \cup {p}, Held(task), Waits(task), failed, NULL)
      /\ g.data = h.data
  BY <1>2, <1>3, LoadedOpen
<1>5. SameKernels(heap.data, g.data)
  BY <1>2, <1>4 DEF SameKernels
<1>6. appHolds \cup {p} \subseteq Programs \cup Kernels /\ loads' \in Nat
  BY <1>1, OpenFacts
<1> QED BY <1>1, <1>2, <1>4, <1>5, <1>6, HeapStep

\* DestroyProgram keeps the invariant.
LEMMA DestroyProgramStep ==
  ASSUME Inv, NEW p \in Programs, DestroyProgram(p)
  PROVE  Inv'
<1>1. /\ device = "open" /\ p \in appHolds /\ appHolds' = appHolds \ {p}
      /\ UNCHANGED <<task, enqueued, flushed, failed, device, loads>>
  BY DEF DestroyProgram
<1>2. PICK h, g : h = heap /\ g = heap' /\ g = ReleaseProgram(h, p)
  BY DEF DestroyProgram
<1>3. h \in HeapType /\ OpenInv(h, appHolds, Held(task), Waits(task), failed, NULL)
  BY <1>1, <1>2, OpenFacts
<1>4. /\ g \in HeapType /\ OpenInv(g, appHolds \ {p}, Held(task), Waits(task), failed, NULL)
      /\ g.data = h.data
  BY <1>1, <1>2, <1>3, DestroyProgramOpen
<1>5. SameKernels(heap.data, g.data)
  BY <1>2, <1>4 DEF SameKernels
<1> QED BY <1>1, <1>2, <1>4, <1>5, OpenFacts, HeapStep

\* CreateKernel keeps the invariant, whether it works or not.
LEMMA CreateKernelStep ==
  ASSUME Inv, NEW k \in Kernels, NEW p \in Programs, NEW n \in Names, NEW ok \in BOOLEAN,
         CreateKernel(k, p, n, ok)
  PROVE  Inv'
<1>1. /\ device = "open" /\ p \in appHolds /\ ~ Live(heap, k) /\ loads' = loads + 1
      /\ appHolds' = IF ok THEN appHolds \cup {k} ELSE appHolds
      /\ UNCHANGED <<task, enqueued, flushed, failed, device>>
  BY DEF CreateKernel, Load
<1>2. PICK h, g : /\ h = heap /\ g = heap'
                  /\ ok => g = Listed(Created(h, k, p, n), k)
                  /\ ~ ok => g = DestroyKernelReference(Created(h, k, p, n), k)
  BY DEF CreateKernel, Listed
<1>3. h \in HeapType /\ OpenInv(h, appHolds, Held(task), Waits(task), failed, NULL)
  BY <1>1, <1>2, OpenFacts
<1>4. h.kernel[k].ref = 0
  <2>1. h.kernel[k].ref \in Nat
    BY <1>3, KernelFacts DEF HeapType
  <2> QED BY <1>1, <1>2, <2>1 DEF Live
<1>5. CASE ok
  <2>1. g = Listed(Created(h, k, p, n), k)
    BY <1>2, <1>5
  <2>2. /\ g \in HeapType /\ OpenInv(g, appHolds \cup {k}, Held(task), Waits(task), failed, NULL)
        /\ g.data = h.data
    BY <1>1, <1>3, <1>4, <2>1, CreateKernelOpen
  <2>3. SameKernels(heap.data, g.data)
    BY <1>2, <2>2 DEF SameKernels
  <2> QED BY <1>1, <1>2, <1>5, <2>2, <2>3, OpenFacts, HeapStep
<1>6. CASE ~ ok
  <2>1. g = DestroyKernelReference(Created(h, k, p, n), k)
    BY <1>2, <1>6
  <2>2. /\ g \in HeapType /\ OpenInv(g, appHolds, Held(task), Waits(task), failed, NULL)
        /\ SameKernels(h.data, g.data)
    BY <1>1, <1>3, <1>4, <2>1, CreateKernelFailsOpen
  <2> QED BY <1>1, <1>2, <1>6, <2>2, OpenFacts, HeapStep
<1> QED BY <1>5, <1>6

\* DestroyKernel keeps the invariant.
LEMMA DestroyKernelStep ==
  ASSUME Inv, NEW k \in Kernels, DestroyKernel(k)
  PROVE  Inv'
<1>1. /\ device = "open" /\ k \in appHolds /\ appHolds' = appHolds \ {k}
      /\ UNCHANGED <<task, enqueued, flushed, failed, device, loads>>
  BY DEF DestroyKernel
<1>2. PICK h, g : h = heap /\ g = heap' /\ g = DestroyKernelInDevice(h, k)
  BY DEF DestroyKernel
<1>3. h \in HeapType /\ OpenInv(h, appHolds, Held(task), Waits(task), failed, NULL)
  BY <1>1, <1>2, OpenFacts
<1>4. /\ g \in HeapType /\ OpenInv(g, appHolds \ {k}, Held(task), Waits(task), failed, NULL)
      /\ g.data = h.data \/ \E d \in Datas : Released(h.data, g.data, d)
  BY <1>1, <1>2, <1>3, DestroyKernelOpen
<1>5. SameKernels(heap.data, g.data)
  <2>1. CASE g.data = h.data
    BY <1>2, <2>1 DEF SameKernels
  <2>2. ASSUME NEW d \in Datas, Released(h.data, g.data, d)
        PROVE  SameKernels(heap.data, g.data)
    BY <1>2, <2>2 DEF SameKernels, Released
  <2> QED BY <1>4, <2>1, <2>2
<1> QED BY <1>1, <1>2, <1>4, <1>5, OpenFacts, HeapStep

OnceEach(s) == \A i, j \in DOMAIN s : s[i] = s[j] => i = j

\* A list in which each is once, with one more.
LEMMA QueueAppend ==
  ASSUME NEW S, NEW s \in Seq(S), NEW x \in S
  PROVE  /\ Append(s, x) \in Seq(S) /\ Range(Append(s, x)) = Range(s) \cup {x}
         /\ OnceEach(s) /\ x \notin Range(s) => OnceEach(Append(s, x))
<1>1. /\ Append(s, x) \in Seq(S) /\ Len(s) \in Nat /\ DOMAIN s = 1 .. Len(s)
      /\ DOMAIN Append(s, x) = 1 .. (Len(s) + 1)
      /\ Append(s, x)[Len(s) + 1] = x
      /\ \A i \in 1 .. Len(s) : Append(s, x)[i] = s[i]
  OBVIOUS
<1>20. PICK n \in Nat : n = Len(s)
  BY <1>1
<1>2. PICK a : a = Append(s, x) /\ n = Len(s)
  BY <1>20
<1>3. /\ DOMAIN s = 1 .. n /\ DOMAIN a = 1 .. (n + 1) /\ a[n + 1] = x
      /\ \A i \in 1 .. n : a[i] = s[i]
  BY <1>1, <1>2
<1>4. Range(a) = Range(s) \cup {x}
  <2>1. ASSUME NEW i \in 1 .. (n + 1)  PROVE a[i] \in Range(s) \cup {x}
    <3>1. i = n + 1 \/ i \in 1 .. n
      OBVIOUS
    <3> QED BY <1>3, <3>1 DEF Range
  <2>2. ASSUME NEW i \in 1 .. n  PROVE s[i] \in Range(a)
    <3>1. i \in 1 .. (n + 1)
      OBVIOUS
    <3> QED BY <1>3, <3>1 DEF Range
  <2>3. x \in Range(a)
    <3>1. n + 1 \in 1 .. (n + 1)
      OBVIOUS
    <3> QED BY <1>3, <3>1 DEF Range
  <2> QED BY <1>3, <2>1, <2>2, <2>3 DEF Range
<1>5. ASSUME OnceEach(s), x \notin Range(s)  PROVE OnceEach(a)
  <2> SUFFICES ASSUME NEW i \in 1 .. (n + 1), NEW j \in 1 .. (n + 1), a[i] = a[j]
               PROVE  i = j
    BY <1>3 DEF OnceEach
  <2>1. (i = n + 1 \/ i \in 1 .. n) /\ (j = n + 1 \/ j \in 1 .. n)
    OBVIOUS
  <2>2. \A l \in 1 .. n : a[l] # x
    BY <1>3, <1>5 DEF Range
  <2> QED BY <1>3, <1>5, <2>1, <2>2 DEF OnceEach
<1> QED BY <1>1, <1>2, <1>4, <1>5

\* A list in which each is once, without its first.
LEMMA QueueTail ==
  ASSUME NEW S, NEW s \in Seq(S), s # <<>>, OnceEach(s)
  PROVE  /\ Tail(s) \in Seq(S) /\ Head(s) \in S /\ Head(s) \in Range(s)
         /\ Range(Tail(s)) = Range(s) \ {Head(s)} /\ OnceEach(Tail(s))
<1>1. /\ Tail(s) \in Seq(S) /\ Head(s) \in S /\ Head(s) = s[1] /\ Head(s) \in Range(s)
      /\ Range(s) = Range(Tail(s)) \cup {Head(s)}
  BY TailFacts
<1>2. /\ Len(s) \in Nat \ {0} /\ DOMAIN s = 1 .. Len(s)
      /\ DOMAIN Tail(s) = 1 .. (Len(s) - 1)
      /\ \A i \in 1 .. (Len(s) - 1) : Tail(s)[i] = s[i + 1]
  OBVIOUS
<1>30. PICK n \in Nat : n = Len(s) - 1
  <2>1. PICK m \in Nat \ {0} : m = Len(s)
    BY <1>2
  <2>2. m - 1 \in Nat
    OBVIOUS
  <2> QED BY <2>1, <2>2
<1>3. PICK a : a = Tail(s) /\ n = Len(s) - 1
  BY <1>30
<1>4. /\ DOMAIN s = 1 .. (n + 1) /\ DOMAIN a = 1 .. n /\ \A i \in 1 .. n : a[i] = s[i + 1]
  BY <1>2, <1>3
<1>5. Head(s) \notin Range(a)
  <2> SUFFICES ASSUME NEW i \in 1 .. n, a[i] = s[1]  PROVE FALSE
    BY <1>1, <1>4 DEF Range
  <2>1. i + 1 \in 1 .. (n + 1) /\ 1 \in 1 .. (n + 1) /\ i + 1 # 1
    OBVIOUS
  <2> QED BY <1>4, <2>1 DEF OnceEach
<1>6. OnceEach(a)
  <2> SUFFICES ASSUME NEW i \in 1 .. n, NEW j \in 1 .. n, a[i] = a[j]
               PROVE  i = j
    BY <1>4 DEF OnceEach
  <2>1. i + 1 \in 1 .. (n + 1) /\ j + 1 \in 1 .. (n + 1) /\ s[i + 1] = s[j + 1]
    BY <1>4
  <2>2. i + 1 = j + 1
    BY <1>4, <2>1 DEF OnceEach
  <2> QED BY <2>2
<1> QED BY <1>1, <1>3, <1>5, <1>6

\* The queue after a task is put in it, and after the first has left it.
LEMMA QueueGrows ==
  ASSUME Inv, NEW t \in Tasks, task[t].state = "new", NEW event, NEW ds,
         enqueued' = Append(enqueued, t),
         task' = [task EXCEPT ![t] = [state |-> "waiting", event |-> event, datas |-> ds]]
  PROVE  QueueInv' /\ enqueued' \in Seq(Tasks)
<1>1. /\ enqueued \in Seq(Tasks) /\ OnceEach(enqueued) /\ DOMAIN task = Tasks
      /\ \A u \in Tasks : task[u].state = "waiting" <=> u \in Range(enqueued)
  BY DEF Inv, TypeOK, QueueInv, OnceEach
<1>2. t \notin Range(enqueued)
  BY <1>1
<1>3. /\ enqueued' \in Seq(Tasks) /\ Range(enqueued') = Range(enqueued) \cup {t}
      /\ OnceEach(enqueued')
  BY <1>1, <1>2, QueueAppend
<1>4. \A u \in Tasks : task'[u].state = "waiting" <=> task[u].state = "waiting" \/ u = t
  BY <1>1
<1> QED BY <1>1, <1>3, <1>4 DEF QueueInv, OnceEach

\* The enqueued list without its first, which waits no longer.
LEMMA QueueMoves ==
  ASSUME Inv, enqueued # <<>>, NEW t, t = Head(enqueued), NEW state, state # "waiting",
         enqueued' = Tail(enqueued), task' = [task EXCEPT ![t].state = state]
  PROVE  /\ t \in Tasks /\ task[t].state = "waiting"
         /\ QueueInv' /\ enqueued' \in Seq(Tasks)
<1>1. /\ enqueued \in Seq(Tasks) /\ OnceEach(enqueued) /\ DOMAIN task = Tasks
      /\ \A u \in Tasks : task[u].state = "waiting" <=> u \in Range(enqueued)
  BY DEF Inv, TypeOK, QueueInv, OnceEach
<1>2. /\ Tail(enqueued) \in Seq(Tasks) /\ t \in Tasks /\ t \in Range(enqueued)
      /\ Range(Tail(enqueued)) = Range(enqueued) \ {t} /\ OnceEach(Tail(enqueued))
  BY <1>1, QueueTail
<1>3. task[t] \in TaskType
  BY <1>2 DEF Inv, TypeOK
<1>4. task'[t].state = state
  <2>1. task'[t] = [task[t] EXCEPT !.state = state]
    BY <1>1, <1>2
  <2>2. task[t].state = "waiting"
    BY <1>1, <1>2
  <2>3. "state" \in DOMAIN task[t]
    BY <1>3 DEF TaskType
  <2> QED BY <2>1, <2>3
<1>5. \A u \in Tasks : task'[u].state = "waiting" <=> task[u].state = "waiting" /\ u # t
  BY <1>1, <1>4
<1> QED BY <1>1, <1>2, <1>5 DEF QueueInv, OnceEach

\* Who counts on a kernel.
LEMMA KernelUsers ==
  ASSUME NEW kernel \in KernelTable, NEW data, NEW A, NEW F,
         KernelCount(kernel, data, A, F, NULL), NEW k \in Kernels,
         k \in A \/ KernelTokens(data, k) # {}
  PROVE  kernel[k].ref > 0
<1>1. PICK tokens : tokens = KernelTokens(data, k)
  OBVIOUS
<1>2. /\ IsFiniteSet(tokens)
      /\ kernel[k].ref + One(k = NULL) >= One(k \in A) + Cardinality(tokens)
  BY <1>1 DEF KernelCount
<1>3. PICK c \in Nat : c = Cardinality(tokens)
  BY <1>2, FS_CardinalityType
<1>4. tokens # {} => c # 0
  BY <1>2, <1>3, FS_EmptySet
<1>5. /\ kernel[k].ref \in Nat /\ One(k = NULL) = 0
      /\ One(k \in A) \in Nat /\ (k \in A => One(k \in A) = 1)
  BY KernelFacts, CmProgramsAssumption DEF One
<1> QED BY <1>1, <1>2, <1>3, <1>4, <1>5

\* The application holds a reference of each kernel it has created.
LEMMA AppKernelsLive ==
  ASSUME NEW h \in HeapType, NEW A, NEW F, NEW held, NEW waits,
         OpenInv(h, A, held, waits, F, NULL), NEW ks \in KernelLists, Range(ks) \subseteq A
  PROVE  \A k \in Range(ks) : h.kernel[k].ref > 0
<1> SUFFICES ASSUME NEW k \in Range(ks)  PROVE h.kernel[k].ref > 0
  OBVIOUS
<1>1. k \in Kernels /\ k \in A
  BY DEF KernelLists, Range
<1>2. PICK kernel, data : kernel = h.kernel /\ data = h.data
  OBVIOUS
<1>3. kernel \in KernelTable /\ KernelCount(kernel, data, A, F, NULL)
  BY <1>2 DEF OpenInv, HeapType
<1> QED BY <1>1, <1>2, <1>3, KernelUsers

\* Enqueue keeps the invariant.
LEMMA EnqueueStep ==
  ASSUME Inv, NEW t \in Tasks, NEW ks \in KernelLists, NEW shares \in BOOLEAN \X BOOLEAN,
         NEW event \in BOOLEAN, Enqueue(t, ks, shares, event)
  PROVE  Inv'
<1>1. /\ device = "open" /\ task[t].state = "new" /\ Range(ks) \subseteq appHolds
      /\ MaySetUp(ks, shares) /\ enqueued' = Append(enqueued, t)
      /\ UNCHANGED <<appHolds, flushed, failed, device, loads>>
  BY DEF Enqueue
<1>2. PICK g : /\ g = Initialized(ks, shares) /\ heap' = g
               /\ task' = [task EXCEPT ![t] = [state |-> "waiting", event |-> event,
                                               datas |-> LastDatas(g, ks)]]
  BY DEF Enqueue
<1>3. /\ heap \in HeapType /\ task \in [Tasks -> TaskType]
      /\ OpenInv(heap, appHolds, Held(task), Waits(task), failed, NULL)
  BY <1>1, OpenFacts
<1>4. \A k \in Range(ks) : heap.kernel[k].ref > 0
  BY <1>1, <1>3, AppKernelsLive
<1>5. \A e \in Held(task) : e[1] # t
  BY <1>1 DEF Held, PairsOf
<1>6. PICK held, waits : held = Held(task) /\ waits = Waits(task)
  OBVIOUS
<1>7. PICK ds \in DataLists :
        /\ LastDatas(g, ks) = ds /\ g \in HeapType
        /\ OpenInv(g, appHolds, held \cup Pairs(t, ds), waits \cup Pairs(t, ds), failed, NULL)
        /\ HeldKernels(heap.data, g.data, held)
  <2>1. OpenInv(heap, appHolds, held, waits, failed, NULL) /\ HasNothing(held, t)
    BY <1>3, <1>5, <1>6 DEF HasNothing
  <2>2. \E ds \in DataLists : SetUp(g, appHolds, failed, t, held, waits, ks, ds)
    BY <1>1, <1>2, <1>3, <1>4, <2>1, InitializedOpen
  <2> QED BY <2>2 DEF SetUp
<1>8. task' = [task EXCEPT ![t] = [state |-> "waiting", event |-> event, datas |-> ds]]
  BY <1>2, <1>7
<1>9. PICK new : new = task'
  OBVIOUS
<1>10. /\ new \in [Tasks -> TaskType]
       /\ Held(new) = held \cup Pairs(t, ds) /\ Waits(new) = waits \cup Pairs(t, ds)
       /\ PairsOf(new, {"stuck"}) = PairsOf(task, {"stuck"})
  <2>1. new = WithEnqueued(task, t, event, ds)
    BY <1>8, <1>9 DEF WithEnqueued
  <2> QED BY <1>1, <1>3, <1>6, <2>1, TaskEnqueued
<1>11. QueueInv' /\ enqueued' \in Seq(Tasks)
  BY <1>1, <1>8, QueueGrows
<1>12. TypeOK'
  BY <1>1, <1>2, <1>7, <1>9, <1>10, <1>11 DEF Inv, TypeOK
<1>13. StuckInv'
  <2>1. PairsOf(task', {"stuck"}) = PairsOf(task, {"stuck"}) /\ PairsOf(task, {"stuck"}) \subseteq held
    BY <1>6, <1>9, <1>10, WaitsAreHeld
  <2>2. \A e \in PairsOf(task, {"stuck"}) : g.data[e[2]].kernel = heap.data[e[2]].kernel
    BY <1>7, <2>1 DEF HeldKernels
  <2> QED BY <1>1, <1>2, <2>1, <2>2 DEF Inv, StuckInv
<1>14. OpenInv(heap', appHolds', Held(task'), Waits(task'), failed', NULL)
  BY <1>1, <1>2, <1>7, <1>9, <1>10
<1> QED BY <1>1, <1>11, <1>12, <1>13, <1>14, OpenNext

\* An Enqueue that fails keeps the invariant.
LEMMA EnqueueFailsStep ==
  ASSUME Inv, NEW t \in Tasks, NEW ks \in KernelLists, NEW shares \in BOOLEAN \X BOOLEAN,
         EnqueueFails(t, ks, shares)
  PROVE  Inv'
<1>1. /\ device = "open" /\ task[t].state = "new" /\ Range(ks) \subseteq appHolds
      /\ MaySetUp(ks, shares) /\ task' = [task EXCEPT ![t] = [state |-> "gone"]]
      /\ failed' = failed \cup Range(ks)
      /\ UNCHANGED <<appHolds, enqueued, flushed, device, loads>>
  BY DEF EnqueueFails
<1>2. PICK w, g : /\ w = Initialized(ks, shares) /\ g = heap'
                  /\ g = ReleaseAll(w, LastDatas(w, ks))
  BY DEF EnqueueFails
<1>3. /\ heap \in HeapType /\ task \in [Tasks -> TaskType]
      /\ OpenInv(heap, appHolds, Held(task), Waits(task), failed, NULL)
  BY <1>1, OpenFacts
<1>4. \A k \in Range(ks) : heap.kernel[k].ref > 0
  BY <1>1, <1>3, AppKernelsLive
<1>5. (\A e \in Held(task) : e[1] # t) /\ Waits(task) \subseteq Held(task)
  BY <1>1 DEF Held, Waits, PairsOf
<1>6. PICK held, waits, more : /\ held = Held(task) /\ waits = Waits(task)
                               /\ more = failed \cup Range(ks)
  OBVIOUS
<1>7. PICK ds \in DataLists :
        /\ LastDatas(w, ks) = ds /\ w \in HeapType
        /\ OpenInv(w, appHolds, held \cup Pairs(t, ds), waits \cup Pairs(t, ds), failed, NULL)
        /\ HeldKernels(heap.data, w.data, held)
        /\ \A d \in Range(ds) : w.data[d].kernel \in Range(ks)
  <2>1. OpenInv(heap, appHolds, held, waits, failed, NULL) /\ HasNothing(held, t)
    BY <1>3, <1>5, <1>6 DEF HasNothing
  <2>2. \E ds \in DataLists : SetUp(w, appHolds, failed, t, held, waits, ks, ds)
    BY <1>1, <1>2, <1>3, <1>4, <2>1, InitializedOpen
  <2> QED BY <2>2 DEF SetUp
<1>8. OpenInv(w, appHolds, held \cup Pairs(t, ds), waits, more, NULL)
  <2>1. PICK both, wait : both = held \cup Pairs(t, ds) /\ wait = waits \cup Pairs(t, ds)
    OBVIOUS
  <2>2. \A e \in wait : e \in waits \/ w.data[e[2]].kernel \in more
    BY <1>6, <1>7, <2>1 DEF Pairs
  <2>3. waits \in SUBSET wait /\ failed \subseteq more
    BY <1>6, <2>1
  <2>4. OpenInv(w, appHolds, both, wait, failed, NULL)
    BY <1>7, <2>1
  <2>5. OpenInv(w, appHolds, both, waits, more, NULL)
    BY <1>7, <2>2, <2>3, <2>4, LostOpen
  <2> QED BY <2>1, <2>5
<1>9. \A e \in Pairs(t, ds) : e[1] = t /\ e \notin held /\ e \notin waits
  BY <1>5, <1>6 DEF Pairs
<1>10. /\ g \in HeapType /\ OpenInv(g, appHolds, held, waits, more, NULL)
       /\ HeldKernels(w.data, g.data, held)
  <2>1. PICK both : both = held \cup Pairs(t, ds)
    OBVIOUS
  <2>2. Pairs(t, ds) \subseteq both \ waits /\ both \ Pairs(t, ds) = held
    BY <1>9, <2>1
  <2>3. OpenInv(w, appHolds, both, waits, more, NULL) /\ g = ReleaseAll(w, ds)
    BY <1>2, <1>7, <1>8, <2>1
  <2>4. /\ g \in HeapType /\ OpenInv(g, appHolds, both \ Pairs(t, ds), waits, more, NULL)
        /\ HeldKernels(w.data, g.data, both \ Pairs(t, ds))
    BY <1>7, <2>2, <2>3, ReleaseAllOpen
  <2> QED BY <2>2, <2>4
<1>11. HeldKernels(heap.data, g.data, held)
  BY <1>7, <1>10 DEF HeldKernels
<1>12. PICK new : new = task'
  OBVIOUS
<1>13. /\ new \in [Tasks -> TaskType] /\ Held(new) = held /\ Waits(new) = waits
       /\ PairsOf(new, {"stuck"}) \subseteq PairsOf(task, {"stuck"})
  <2>1. new = [task EXCEPT ![t] = [state |-> "gone"]]
    BY <1>1, <1>12
  <2>2. /\ new \in [Tasks -> TaskType] /\ PairsOf(new, {"stuck"}) \subseteq PairsOf(task, {"stuck"})
        /\ Held(new) = {e \in Held(task) : e[1] # t}
        /\ Waits(new) = {e \in Waits(task) : e[1] # t}
    BY <1>3, <2>1, TaskGone
  <2> QED BY <1>5, <1>6, <2>2
<1>14. QueueInv'
  <2>1. DOMAIN task = Tasks
    BY <1>3
  <2>2. \A u \in Tasks : task'[u].state = "waiting" <=> task[u].state = "waiting"
    BY <1>1, <2>1
  <2> QED BY <1>1, <2>2 DEF Inv, QueueInv
<1>15. TypeOK'
  <2>1. more \subseteq Kernels
    <3>1. Range(ks) \subseteq Kernels
      BY DEF KernelLists, Range
    <3> QED BY <1>6, <3>1 DEF Inv, TypeOK
  <2> QED BY <1>1, <1>2, <1>6, <1>10, <1>12, <1>13, <2>1 DEF Inv, TypeOK
<1>16. StuckInv'
  <2>1. PairsOf(task', {"stuck"}) \subseteq PairsOf(task, {"stuck"}) /\ PairsOf(task, {"stuck"}) \subseteq held
    BY <1>6, <1>12, <1>13, WaitsAreHeld
  <2>2. \A e \in PairsOf(task, {"stuck"}) : g.data[e[2]].kernel = heap.data[e[2]].kernel
    BY <1>11, <2>1 DEF HeldKernels
  <2> QED BY <1>1, <1>2, <2>1, <2>2 DEF Inv, StuckInv
<1>17. OpenInv(heap', appHolds', Held(task'), Waits(task'), failed', NULL)
  BY <1>1, <1>2, <1>6, <1>10, <1>12, <1>13
<1> QED BY <1>1, <1>14, <1>15, <1>16, <1>17, OpenNext

\* What a flush does to the first task of the queue, when its kernels are
\* released and when they are not.
Flushes(t, ds) ==
    /\ task' = [task EXCEPT ![t].state = "flushed"] /\ heap' = ReleaseKernels(heap, ds)
    /\ failed' = failed

Sticks(t, ds) ==
    /\ task' = [task EXCEPT ![t].state = "stuck"] /\ heap' = heap
    /\ failed' = failed \cup KernelsOf(ds)

\* The two ways of a flush.
LEMMA FlushIs ==
  ASSUME Inv, Flush
  PROVE  \E t \in Tasks, ds \in DataLists :
           /\ t = Head(enqueued) /\ ds = task[t].datas /\ task[t].state = "waiting"
           /\ flushed' \in Seq(Tasks) /\ enqueued' = Tail(enqueued)
           /\ UNCHANGED <<appHolds, device, loads>>
           /\ enqueued' \in Seq(Tasks) /\ QueueInv'
           /\ Flushes(t, ds) \/ Sticks(t, ds)
<1>1. /\ enqueued # <<>> /\ enqueued' = Tail(enqueued) /\ UNCHANGED <<appHolds, device, loads>>
  BY DEF Flush
<1>2. PICK t, ds : t = Head(enqueued) /\ ds = task[t].datas
  OBVIOUS
<1>3. /\ Flushes(t, ds) \/ Sticks(t, ds)
      /\ flushed' = Append(flushed, t)
  BY <1>2 DEF Flush, Flushes, Sticks
<1>4. PICK state \in {"flushed", "stuck"} : task' = [task EXCEPT ![t].state = state]
  BY <1>3 DEF Flushes, Sticks
<1>5. /\ t \in Tasks /\ task[t].state = "waiting"
      /\ QueueInv' /\ enqueued' \in Seq(Tasks)
  <2>1. state # "waiting"
    BY <1>4
  <2> QED BY <1>1, <1>2, <1>4, <2>1, QueueMoves
<1>6. task \in [Tasks -> TaskType] /\ flushed \in Seq(Tasks)
  BY DEF Inv, TypeOK
<1>7. ds \in DataLists
  BY <1>2, <1>5, <1>6, TaskFacts
<1>8. flushed' \in Seq(Tasks)
  BY <1>3, <1>5, <1>6, QueueAppend
<1> QED BY <1>1, <1>2, <1>3, <1>5, <1>7, <1>8

\* Flush keeps the invariant while the device is open.
LEMMA FlushOpenStep ==
  ASSUME Inv, device = "open", Flush
  PROVE  Inv'
<1>1. PICK t \in Tasks, ds \in DataLists :
        /\ t = Head(enqueued) /\ ds = task[t].datas /\ task[t].state = "waiting"
        /\ flushed' \in Seq(Tasks) /\ enqueued' = Tail(enqueued)
        /\ UNCHANGED <<appHolds, device, loads>>
        /\ enqueued' \in Seq(Tasks) /\ QueueInv'
        /\ Flushes(t, ds) \/ Sticks(t, ds)
  BY FlushIs
<1>2. /\ heap \in HeapType /\ task \in [Tasks -> TaskType]
      /\ OpenInv(heap, appHolds, Held(task), Waits(task), failed, NULL)
  BY OpenFacts
<1>3. PICK held, waits, new, stuck : /\ held = Held(task) /\ waits = Waits(task) /\ new = task'
                                     /\ stuck = PairsOf(task, {"stuck"})
  OBVIOUS
<1>4. stuck \subseteq held /\ stuck \subseteq waits
      /\ \A e \in stuck : heap.data[e[2]].kernel \in failed
  BY <1>3, WaitsAreHeld DEF Inv, StuckInv
<1>5. CASE Flushes(t, ds)
  <2>1. PICK g : g = heap'
    OBVIOUS
  <2>2. g = ReleaseKernels(heap, ds) /\ failed' = failed
        /\ new = [task EXCEPT ![t].state = "flushed"]
    BY <1>3, <1>5, <2>1 DEF Flushes
  <2>3. PICK state \in {"flushed", "stuck"} : state = "flushed"
    OBVIOUS
  <2>4. /\ new \in [Tasks -> TaskType] /\ Pairs(t, ds) \subseteq waits
        /\ Held(new) = held /\ Waits(new) = waits \ Pairs(t, ds)
        /\ PairsOf(new, {"stuck"}) = stuck
    <3>1. new = WithState(task, t, state)
      BY <2>2, <2>3 DEF WithState
    <3>2. Moved(task, new, t, task[t].datas, state)
      BY <1>1, <1>2, <3>1, TaskFlushed
    <3> QED BY <1>1, <1>3, <2>3, <3>2 DEF Moved
  <2>5. /\ g \in HeapType /\ OpenInv(g, appHolds, held, waits \ Pairs(t, ds), failed, NULL)
        /\ HeldKernels(heap.data, g.data, held)
    <3>1. OpenInv(heap, appHolds, held, waits, failed, NULL)
      BY <1>2, <1>3
    <3>2. PICK h : h = heap
      OBVIOUS
    <3>3. h \in HeapType /\ OpenInv(h, appHolds, held, waits, failed, NULL)
          /\ g = ReleaseKernels(h, ds)
      BY <1>2, <2>2, <3>1, <3>2
    <3>4. /\ g \in HeapType /\ OpenInv(g, appHolds, held, waits \ Pairs(t, ds), failed, NULL)
          /\ HeldKernels(h.data, g.data, held)
      BY <2>4, <3>3, ReleaseKernelsOpen
    <3> QED BY <3>2, <3>4
  <2>6. TypeOK'
    BY <1>1, <1>3, <2>1, <2>2, <2>4, <2>5 DEF Inv, TypeOK
  <2>7. StuckInv'
    BY <1>3, <1>4, <2>1, <2>2, <2>4, <2>5 DEF StuckInv, HeldKernels
  <2>8. OpenInv(heap', appHolds', Held(task'), Waits(task'), failed', NULL)
    BY <1>1, <1>3, <2>1, <2>2, <2>4, <2>5
  <2> QED BY <1>1, <2>6, <2>7, <2>8, OpenNext
<1>6. CASE Sticks(t, ds)
  <2>1. PICK more : more = failed \cup KernelsOf(ds)
    OBVIOUS
  <2>2. heap' = heap /\ failed' = more /\ new = [task EXCEPT ![t].state = "stuck"]
    BY <1>3, <1>6, <2>1 DEF Sticks
  <2>3. PICK state \in {"flushed", "stuck"} : state = "stuck"
    OBVIOUS
  <2>4. /\ new \in [Tasks -> TaskType] /\ Pairs(t, ds) \subseteq waits
        /\ Held(new) = held /\ Waits(new) = waits
        /\ PairsOf(new, {"stuck"}) = stuck \cup Pairs(t, ds)
    <3>1. new = WithState(task, t, state)
      BY <2>2, <2>3 DEF WithState
    <3>2. Moved(task, new, t, task[t].datas, state)
      BY <1>1, <1>2, <3>1, TaskFlushed
    <3> QED BY <1>1, <1>3, <2>3, <3>2 DEF Moved
  <2>5. \A e \in Pairs(t, ds) : heap.data[e[2]].kernel \in more
    BY <2>1 DEF Pairs, KernelsOf
  <2>6. OpenInv(heap, appHolds, held, waits, more, NULL)
    <3>1. OpenInv(heap, appHolds, held, waits, failed, NULL) /\ failed \subseteq more
      BY <1>2, <1>3, <2>1
    <3>2. PICK h : h = heap
      OBVIOUS
    <3>3. h \in HeapType /\ OpenInv(h, appHolds, held, waits, failed, NULL)
      BY <1>2, <3>1, <3>2
    <3>4. waits \in SUBSET waits /\ \A e \in waits : e \in waits \/ h.data[e[2]].kernel \in more
      OBVIOUS
    <3>5. OpenInv(h, appHolds, held, waits, more, NULL)
      BY <3>1, <3>3, <3>4, LostOpen
    <3> QED BY <3>2, <3>5
  <2>7. more \subseteq Kernels
    <3>1. \A d \in Range(ds) : heap.data[d].kernel \in Kernels
      <4>1. \A d \in Range(ds) : <<t, d>> \in held /\ d \in Datas
        BY <1>3, <2>4, ListFacts, WaitsAreHeld DEF Pairs
      <4>2. PICK data, kernel : data = heap.data /\ kernel = heap.kernel
        OBVIOUS
      <4>3. data \in DataTable /\ kernel \in KernelTable /\ DataCount(data, kernel, held, 0)
            /\ held \in SUBSET (Tasks \X Datas)
        BY <1>2, <1>3, <4>2 DEF OpenInv, HeapType
      <4>4. \A d \in Range(ds) : data[d].ref > 0
        BY <4>1, <4>3, HeldIsThere
      <4>5. \A d \in Range(ds) : data[d] \in DataType
        BY <4>1, <4>3, <4>4, DataFacts
      <4> QED BY <4>2, <4>5 DEF DataType
    <3> QED BY <2>1, <3>1 DEF Inv, TypeOK, KernelsOf
  <2>8. TypeOK'
    BY <1>1, <1>3, <2>2, <2>4, <2>7 DEF Inv, TypeOK
  <2>9. StuckInv'
    BY <1>3, <1>4, <2>1, <2>2, <2>4, <2>5 DEF StuckInv
  <2>10. OpenInv(heap', appHolds', Held(task'), Waits(task'), failed', NULL)
    BY <1>1, <1>3, <2>2, <2>4, <2>6
  <2> QED BY <1>1, <2>8, <2>9, <2>10, OpenNext
<1> QED BY <1>1, <1>5, <1>6

\* What a pop does: the first flushed task gives up its kernel data.
LEMMA PopTaskIs ==
  ASSUME Inv, PopTask
  PROVE  \E t \in Tasks, ds \in DataLists :
           /\ ds = task[t].datas /\ task[t].state = "flushed"
           /\ task' = [task EXCEPT ![t] = [state |-> "gone"]]
           /\ heap' = ReleaseAll(heap, ds)
           /\ flushed' \in Seq(Tasks) /\ QueueInv'
           /\ UNCHANGED <<appHolds, enqueued, failed, device, loads>>
<1>1. /\ flushed # <<>> /\ flushed' = Tail(flushed)
      /\ UNCHANGED <<appHolds, enqueued, failed, device, loads>>
  BY DEF PopTask
<1>2. PICK t, ds : t = Head(flushed) /\ ds = task[t].datas
  OBVIOUS
<1>3. /\ task[t].state = "flushed" /\ task' = [task EXCEPT ![t] = [state |-> "gone"]]
      /\ heap' = ReleaseAll(heap, ds)
  BY <1>2 DEF PopTask
<1>4. task \in [Tasks -> TaskType] /\ flushed \in Seq(Tasks)
  BY DEF Inv, TypeOK
<1>5. t \in Tasks /\ flushed' \in Seq(Tasks)
  BY <1>1, <1>2, <1>4, TailFacts
<1>6. ds \in DataLists
  BY <1>2, <1>3, <1>4, <1>5, TaskFacts
<1>7. QueueInv'
  <2>1. \A u \in Tasks : task'[u].state = "waiting" <=> task[u].state = "waiting"
    BY <1>3, <1>4
  <2> QED BY <1>1, <2>1 DEF Inv, QueueInv
<1> QED BY <1>1, <1>2, <1>3, <1>5, <1>6, <1>7

\* PopTask keeps the invariant while the device is open.
LEMMA PopTaskOpenStep ==
  ASSUME Inv, device = "open", PopTask
  PROVE  Inv'
<1>1. PICK t \in Tasks, ds \in DataLists :
        /\ ds = task[t].datas /\ task[t].state = "flushed"
        /\ task' = [task EXCEPT ![t] = [state |-> "gone"]]
        /\ heap' = ReleaseAll(heap, ds)
        /\ flushed' \in Seq(Tasks) /\ QueueInv'
        /\ UNCHANGED <<appHolds, enqueued, failed, device, loads>>
  BY PopTaskIs
<1>2. /\ heap \in HeapType /\ task \in [Tasks -> TaskType]
      /\ OpenInv(heap, appHolds, Held(task), Waits(task), failed, NULL)
  BY OpenFacts
<1>3. PICK held, waits, new, stuck : /\ held = Held(task) /\ waits = Waits(task) /\ new = task'
                                     /\ stuck = PairsOf(task, {"stuck"})
  OBVIOUS
<1>4. stuck \subseteq waits /\ \A e \in stuck : heap.data[e[2]].kernel \in failed
  BY <1>3, WaitsAreHeld DEF Inv, StuckInv
<1>5. /\ new \in [Tasks -> TaskType] /\ Pairs(t, ds) \subseteq held \ waits
      /\ Held(new) = held \ Pairs(t, ds) /\ Waits(new) = waits
      /\ PairsOf(new, {"stuck"}) \subseteq stuck
  <2>1. new = [task EXCEPT ![t] = [state |-> "gone"]]
    BY <1>1, <1>3
  <2>2. /\ Pairs(t, ds) \subseteq held \ waits
        /\ Held(new) = held \ Pairs(t, ds) /\ Waits(new) = waits
    BY <1>1, <1>2, <1>3, <2>1, TaskPopped
  <2>3. new \in [Tasks -> TaskType] /\ PairsOf(new, {"stuck"}) \subseteq stuck
    BY <1>2, <1>3, <2>1, TaskGone
  <2> QED BY <2>2, <2>3
<1>6. PICK g : g = heap'
  OBVIOUS
<1>7. /\ g \in HeapType /\ OpenInv(g, appHolds, held \ Pairs(t, ds), waits, failed, NULL)
      /\ HeldKernels(heap.data, g.data, held \ Pairs(t, ds))
  <2>1. PICK h : h = heap
    OBVIOUS
  <2>2. h \in HeapType /\ OpenInv(h, appHolds, held, waits, failed, NULL)
        /\ g = ReleaseAll(h, ds)
    BY <1>1, <1>2, <1>3, <1>6, <2>1
  <2>3. /\ g \in HeapType /\ OpenInv(g, appHolds, held \ Pairs(t, ds), waits, failed, NULL)
        /\ HeldKernels(h.data, g.data, held \ Pairs(t, ds))
    BY <1>5, <2>2, ReleaseAllOpen
  <2> QED BY <2>1, <2>3
<1>8. TypeOK'
  BY <1>1, <1>3, <1>5, <1>6, <1>7 DEF Inv, TypeOK
<1>9. StuckInv'
  <2>1. \A e \in stuck : e \in held \ Pairs(t, ds)
    BY <1>3, <1>4, <1>5, WaitsAreHeld
  <2> QED BY <1>1, <1>3, <1>4, <1>5, <1>6, <1>7, <2>1 DEF StuckInv, HeldKernels
<1>10. OpenInv(heap', appHolds', Held(task'), Waits(task'), failed', NULL)
  BY <1>1, <1>3, <1>5, <1>6, <1>7
<1> QED BY <1>1, <1>8, <1>9, <1>10, OpenNext

-----------------------------------------------------------------------------
(***************************************************************************)
(* While the device is destroyed.                                          *)
(***************************************************************************)
\* Who counts on a program.
LEMMA ProgramUsers ==
  ASSUME NEW program \in [Programs -> Nat], NEW kernel, NEW A,
         ProgramCount(program, kernel, A, NULL), NEW p \in Programs
  PROVE  /\ p \in A => program[p] > 0
         /\ ProgramTokens(kernel, p) # {} => program[p] > 0
         /\ program[p] > 0 => p \in A \/ ProgramTokens(kernel, p) # {}
<1>1. PICK tokens : tokens = ProgramTokens(kernel, p)
  OBVIOUS
<1>2. /\ IsFiniteSet(tokens)
      /\ program[p] = One(p \in A) + One(p = NULL) + Cardinality(tokens)
  BY <1>1 DEF ProgramCount
<1>3. PICK c \in Nat : c = Cardinality(tokens)
  BY <1>2, FS_CardinalityType
<1>4. One(p = NULL) = 0 /\ (p \in A => One(p \in A) = 1) /\ (p \notin A => One(p \in A) = 0)
  BY CmProgramsAssumption DEF One
<1>5. tokens = {} <=> c = 0
  BY <1>2, <1>3, FS_EmptySet
<1> QED BY <1>1, <1>2, <1>3, <1>4, <1>5

\* What the invariant says then.
LEMMA ClosingFacts ==
  ASSUME Inv, device = "closing"
  PROVE  /\ heap \in HeapType /\ appHolds \subseteq Programs \cup Kernels /\ loads \in Nat
         /\ task \in [Tasks -> TaskType] /\ failed \subseteq Kernels
         /\ InfoCount(heap.info, heap.program, heap.kernel)
         /\ DataCount(heap.data, heap.kernel, Held(task), 0)
         /\ LastInv(heap.data, heap.kernel)
         /\ ClosingInv(heap, appHolds, failed)
<1>1. device # "open"
  OBVIOUS
<1> QED BY <1>1 DEF Inv, TypeOK, HeldInv

\* What is to show for a step after which the device is closing.
LEMMA ClosingNext ==
  ASSUME TypeOK', device' = "closing", QueueInv', StuckInv', HeldInv(heap', task'),
         ClosingInv(heap', appHolds', failed')
  PROVE  Inv'
<1>1. device' # "open" /\ device' # "closed"
  OBVIOUS
<1> QED BY <1>1 DEF Inv

\* The kernel of kernel data that a task holds.
LEMMA HeldKernelType ==
  ASSUME NEW data \in DataTable, NEW kernel, NEW held \in SUBSET (Tasks \X Datas),
         DataCount(data, kernel, held, 0), NEW e \in held
  PROVE  data[e[2]].ref > 0 /\ data[e[2]].kernel \in Kernels
<1>1. e = <<e[1], e[2]>> /\ e[1] \in Tasks /\ e[2] \in Datas
  OBVIOUS
<1>2. data[e[2]].ref > 0
  BY <1>1, HeldIsThere
<1>3. data[e[2]] \in DataType
  BY <1>1, <1>2, DataFacts
<1> QED BY <1>2, <1>3 DEF DataType

\* A kernel that no task waits for and no task has failed with is counted on by
\* the application alone.
LEMMA NobodyWaits ==
  ASSUME Inv, device = "open", NEW k \in Kernels, k \notin failed,
         \A e \in PairsOf(task, {"waiting"}) : heap.data[e[2]].kernel # k
  PROVE  heap.kernel[k].ref = One(k \in appHolds)
<1>1. PICK data, kernel, waits, tokens :
        /\ data = heap.data /\ kernel = heap.kernel /\ waits = Waits(task)
        /\ tokens = KernelTokens(data, k)
  OBVIOUS
<1>2. /\ data \in DataTable /\ kernel \in KernelTable
      /\ KernelCount(kernel, data, appHolds, failed, NULL) /\ WaitCount(data, waits, failed)
  BY <1>1, OpenFacts DEF OpenInv, HeapType
<1>3. tokens = {}
  <2> SUFFICES ASSUME NEW e \in tokens  PROVE FALSE
    OBVIOUS
  <2>1. PICK d \in Datas, n \in Nat \ {0} :
          data[d].ref > 0 /\ data[d].kernel = k /\ n <= data[d].kernelRef
    BY <1>1 DEF KernelTokens
  <2>2. data[d].kernelRef = Cardinality(HoldersOf(waits, d))
    BY <1>2, <2>1 DEF WaitCount
  <2>3. HoldersOf(waits, d) # {}
    BY <2>1, <2>2, HoldersFacts
  <2>4. PICK t \in Tasks : <<t, d>> \in waits
    BY <2>3 DEF HoldersOf
  <2>5. PICK u : u = <<t, d>>
    OBVIOUS
  <2>6. u \in PairsOf(task, {"waiting"}) \/ u \in PairsOf(task, {"stuck"})
    BY <1>1, <2>4, <2>5 DEF Waits, PairsOf
  <2>7. u[2] = d
    BY <2>5
  <2> QED BY <1>1, <2>1, <2>6, <2>7 DEF Inv, StuckInv
<1>4. Cardinality(tokens) = 0
  BY <1>3, FS_EmptySet
<1>5. kernel[k].ref + One(k = NULL) = One(k \in appHolds) + Cardinality(tokens)
  BY <1>1, <1>2 DEF KernelCount
<1>6. kernel[k].ref \in Nat /\ One(k = NULL) = 0 /\ One(k \in appHolds) \in Nat
  BY <1>2, KernelFacts, CmProgramsAssumption DEF One
<1> QED BY <1>1, <1>4, <1>5, <1>6

\* DestroyDevice turns what is open into what is closing.
LEMMA DestroyDeviceStep ==
  ASSUME Inv, DestroyDevice
  PROVE  Inv'
<1>1. /\ device = "open" /\ device' = "closing"
      /\ failed' = failed \cup UNION {KernelsOf(task[t].datas) : t \in Range(enqueued)}
      /\ UNCHANGED <<heap, appHolds, task, enqueued, flushed, loads>>
  BY DEF DestroyDevice
<1>2. /\ heap \in HeapType /\ appHolds \subseteq Programs \cup Kernels
      /\ task \in [Tasks -> TaskType] /\ failed \subseteq Kernels
      /\ \A t \in Tasks : task[t].state = "waiting" <=> t \in Range(enqueued)
      /\ OpenInv(heap, appHolds, Held(task), Waits(task), failed, NULL)
  BY <1>1, OpenFacts DEF Inv, TypeOK, QueueInv
<1>3. PICK more : more = failed'
  OBVIOUS
<1>4. failed \subseteq more /\ more \subseteq Kernels
  <2>1. ASSUME NEW t \in Range(enqueued), NEW d \in Range(task[t].datas)
        PROVE  heap.data[d].kernel \in Kernels
    <3>1. t \in Tasks
      <4>1. enqueued \in Seq(Tasks)
        BY DEF Inv, TypeOK
      <4> QED BY <4>1, ElementOfSeq, LenProperties DEF Range
    <3>2. task[t].state = "waiting" /\ task[t].datas \in DataLists
      BY <1>2, <3>1, TaskFacts
    <3>3. <<t, d>> \in Held(task)
      <4>1. d \in Datas
        BY <3>2, ListFacts
      <4> QED BY <3>1, <3>2, <4>1 DEF Held, PairsOf
    <3>4. PICK data, kernel, held : data = heap.data /\ kernel = heap.kernel /\ held = Held(task)
      OBVIOUS
    <3>5. data \in DataTable /\ DataCount(data, kernel, held, 0) /\ held \in SUBSET (Tasks \X Datas)
      BY <1>2, <3>4 DEF OpenInv, HeapType
    <3>6. PICK e \in held : e = <<t, d>>
      BY <3>3, <3>4
    <3>7. data[e[2]].kernel \in Kernels
      BY <3>5, HeldKernelType
    <3> QED BY <3>4, <3>6, <3>7
  <2> QED BY <1>1, <1>2, <1>3, <2>1 DEF KernelsOf
<1>5. ASSUME NEW k \in Kernels, k \notin more
      PROVE  heap.kernel[k].ref = One(k \in appHolds)
  <2>1. ASSUME NEW e \in PairsOf(task, {"waiting"})  PROVE heap.data[e[2]].kernel # k
    <3>1. e[1] \in Range(enqueued) /\ e[2] \in Range(task[e[1]].datas)
      BY <1>2 DEF PairsOf
    <3> QED BY <1>1, <1>3, <1>5, <3>1 DEF KernelsOf
  <2> QED BY <1>1, <1>4, <1>5, <2>1, NobodyWaits
<1>6. ClosingInv(heap', appHolds', failed')
  <2>1. PICK h, A : h = heap /\ A = appHolds
    OBVIOUS
  <2>2. /\ h \in HeapType /\ A \subseteq Programs \cup Kernels
        /\ ProgramCount(h.program, h.kernel, A, NULL) /\ ProgramsListed(h) /\ KernelsListed(h)
        /\ KernelCount(h.kernel, h.data, A, failed, NULL)
    BY <1>2, <2>1 DEF OpenInv
  <2>3. PICK kernel, program, data : kernel = h.kernel /\ program = h.program /\ data = h.data
    OBVIOUS
  <2>4. /\ kernel \in KernelTable /\ program \in [Programs -> Nat]
        /\ ProgramCount(program, kernel, A, NULL) /\ KernelCount(kernel, data, A, failed, NULL)
    BY <2>2, <2>3 DEF HeapType
  <2>5. \A k \in Kernels : k \in Range(h.kernelArray) <=> kernel[k].ref > 0
    BY <2>2, <2>3, CmProgramsAssumption DEF KernelsListed
  <2>6. ASSUME NEW k \in Kernels, k \in A  PROVE kernel[k].ref > 0
    BY <2>4, <2>6, KernelUsers
  <2>7. \A p \in Programs : p \in A => program[p] > 0
    BY <2>4, ProgramUsers
  <2>12. \A p \in Programs : program[p] > 0 => p \in A \/ ProgramTokens(kernel, p) # {}
    BY <2>4, ProgramUsers
  <2>8. \A p \in Programs : p \in Range(h.programArray) <=> program[p] > 0
    BY <2>2, <2>3, CmProgramsAssumption DEF ProgramsListed
  <2>9. A \cap Kernels \subseteq Range(h.kernelArray)
    BY <2>5, <2>6
  <2>10. A \cap Programs \subseteq Range(h.programArray)
    BY <2>7, <2>8
  <2>11. ClosingInv(h, A, more)
    <3>1. \A k \in Kernels \ more : h.kernel[k].ref = One(k \in A)
      BY <1>5, <2>1
    <3>2. \A k \in Kernels : k \in Range(h.kernelArray) => h.kernel[k].ref > 0
      BY <2>3, <2>5
    <3>3. \A p \in Programs : h.program[p] > 0 => p \in A \/ ProgramTokens(h.kernel, p) # {}
      BY <2>3, <2>12
    <3> QED BY <2>2, <2>9, <2>10, <3>1, <3>2, <3>3 DEF ClosingInv
  <2> QED BY <1>1, <1>3, <2>1, <2>11
<1>7. TypeOK'
  BY <1>1, <1>3, <1>4 DEF Inv, TypeOK
<1>8. QueueInv'
  BY <1>1 DEF Inv, QueueInv
<1>9. StuckInv'
  BY <1>1, <1>3, <1>4 DEF Inv, StuckInv
<1>10. HeldInv(heap', task')
  BY <1>1 DEF Inv
<1> QED BY <1>1, <1>6, <1>7, <1>8, <1>9, <1>10, ClosingNext

\* A step of the loops over the kernels and the programs.
LEMMA ClosingHeapStep ==
  ASSUME Inv, device = "closing", NEW g \in HeapType, NEW A, A \subseteq Programs \cup Kernels,
         InfoCount(g.info, g.program, g.kernel),
         DataCount(g.data, g.kernel, Held(task), 0), LastInv(g.data, g.kernel),
         SameKernels(heap.data, g.data), ClosingInv(g, A, failed),
         heap' = g, appHolds' = A,
         UNCHANGED <<task, enqueued, flushed, failed, device, loads>>
  PROVE  Inv'
<1>1. TypeOK'
  BY DEF Inv, TypeOK
<1>2. QueueInv'
  BY DEF Inv, QueueInv
<1>3. StuckInv'
  <2>1. PICK held, old, new : held = Held(task) /\ old = heap.data /\ new = g.data
    OBVIOUS
  <2>2. /\ old \in DataTable /\ new \in DataTable /\ held \in SUBSET (Tasks \X Datas)
        /\ PairsOf(task, {"stuck"}) \subseteq held /\ SameKernels(old, new)
        /\ DataCount(old, heap.kernel, held, 0) /\ DataCount(new, g.kernel, held, 0)
    BY <2>1, ClosingFacts, WaitsAreHeld DEF HeapType
  <2>3. \A e \in held : old[e[2]].ref > 0
    BY <2>2, HeldKernelType
  <2>4. \A e \in held : new[e[2]].ref > 0
    BY <2>2, HeldKernelType
  <2>5. \A e \in held : new[e[2]].kernel = old[e[2]].kernel
    <3>1. \A e \in held : e[2] \in Datas
      BY <2>2
    <3> QED BY <2>2, <2>3, <2>4, <3>1 DEF SameKernels
  <2> QED BY <2>1, <2>2, <2>5 DEF Inv, StuckInv
<1>4. HeldInv(heap', task')
  BY DEF HeldInv
<1>5. ClosingInv(heap', appHolds', failed')
  OBVIOUS
<1> QED BY <1>1, <1>2, <1>3, <1>4, <1>5, ClosingNext

\* The next kernel leaves the array.
LEMMA KernelLeaves ==
  ASSUME NEW w \in HeapType, NEW B, NEW F, w.kernelArray # <<>>,
         ProgramCount(w.program, w.kernel, B, NULL), ProgramsListed(w),
         \A k \in Kernels \ F : w.kernel[k].ref = One(k \in B),
         \A k \in Kernels : k \in Range(w.kernelArray) => w.kernel[k].ref > 0,
         B \cap Kernels \subseteq Range(w.kernelArray) \ {Head(w.kernelArray)},
         NEW g, g = [w EXCEPT !.kernelArray = Tail(@)]
  PROVE  g \in HeapType /\ ClosingInv(g, B, F)
<1>1. PICK array : array = w.kernelArray
  OBVIOUS
<1>2. array \in Seq(Kernels \cup {NULL}) /\ array # <<>>
  BY <1>1 DEF HeapType
<1>3. /\ Tail(array) \in Seq(Kernels \cup {NULL})
      /\ Range(array) = Range(Tail(array)) \cup {Head(array)}
  BY <1>2, TailFacts
<1>4. /\ g \in HeapType /\ g.kernelArray = Tail(array) /\ g.kernel = w.kernel
      /\ g.program = w.program /\ g.programArray = w.programArray
  BY <1>1, <1>3 DEF HeapType
<1>5. \A k \in Kernels : k \in Range(g.kernelArray) => g.kernel[k].ref > 0
  BY <1>1, <1>3, <1>4
<1>6. B \cap Kernels \subseteq Range(g.kernelArray)
  BY <1>1, <1>3, <1>4
<1>7. ProgramsListed(g)
  BY <1>4 DEF ProgramsListed
<1>8. PICK program, kernel : program = w.program /\ kernel = w.kernel
  OBVIOUS
<1>9. program \in [Programs -> Nat] /\ ProgramCount(program, kernel, B, NULL)
  BY <1>8 DEF HeapType
<1>10. \A p \in Programs : p \in B => program[p] > 0
  BY <1>9, ProgramUsers
<1>11. \A p \in Programs : program[p] > 0 => p \in B \/ ProgramTokens(kernel, p) # {}
  BY <1>9, ProgramUsers
<1>12. B \cap Programs \subseteq Range(g.programArray)
  BY <1>4, <1>7, <1>8, <1>10 DEF ProgramsListed
<1>13. ProgramCount(g.program, g.kernel, B, NULL)
  BY <1>4, <1>8, <1>9
<1>14. \A k \in Kernels \ F : g.kernel[k].ref = One(k \in B)
  BY <1>4
<1>15. \A p \in Programs : g.program[p] > 0 => p \in B \/ ProgramTokens(g.kernel, p) # {}
  BY <1>4, <1>8, <1>11
<1> QED BY <1>4, <1>5, <1>6, <1>7, <1>12, <1>13, <1>14, <1>15 DEF ClosingInv

\* The place of what is destroyed comes first in the array.
LEMMA HeadCleared ==
  ASSUME NEW S, NEW array \in Seq(S \cup {NULL}), array # <<>>, NEW x, x = Head(array)
  PROVE  Head(ClearSlot(array, x)) = NULL
<1>1. Len(array) \in Nat \ {0} /\ DOMAIN array = 1 .. Len(array) /\ Head(array) = array[1]
  OBVIOUS
<1>2. 1 \in DOMAIN array
  BY <1>1
<1>3. PICK r : r = ClearSlot(array, x)
  OBVIOUS
<1>4. r \in Seq(S \cup {NULL}) /\ r # <<>>
  BY <1>3, ClearFacts
<1>5. Head(r) = r[1]
  BY <1>4
<1>6. r[1] = NULL
  BY <1>1, <1>2, <1>3 DEF ClearSlot
<1> QED BY <1>3, <1>5, <1>6

\* The loop over the kernels keeps the invariant.
LEMMA DestroyNextKernelStep ==
  ASSUME Inv, DestroyNextKernel
  PROVE  Inv'
<1>1. /\ device = "closing" /\ heap.kernelArray # <<>>
      /\ UNCHANGED <<task, enqueued, flushed, failed, device, loads>>
  BY DEF DestroyNextKernel
<1>2. PICK h, k, A, B, w, g, held :
        /\ h = heap /\ k = Head(h.kernelArray) /\ A = appHolds /\ B = A \ {k} /\ g = heap'
        /\ w = IF k = NULL THEN h ELSE DestroyKernelReference(h, k)
        /\ g = [w EXCEPT !.kernelArray = Tail(@)] /\ appHolds' = B /\ held = Held(task)
  BY DEF DestroyNextKernel
<1>3. /\ h \in HeapType /\ A \subseteq Programs \cup Kernels /\ ClosingInv(h, A, failed)
      /\ InfoCount(h.info, h.program, h.kernel)
      /\ DataCount(h.data, h.kernel, held, 0) /\ LastInv(h.data, h.kernel)
      /\ h.kernelArray # <<>>
  BY <1>1, <1>2, ClosingFacts
<1>4. PICK array : array = h.kernelArray
  OBVIOUS
<1>5. array \in Seq(Kernels \cup {NULL}) /\ array # <<>> /\ k = Head(array)
  BY <1>2, <1>3, <1>4 DEF HeapType
<1>6. k \in Kernels \cup {NULL} /\ k \in Range(array)
  BY <1>5, TailFacts
<1>7. /\ ProgramCount(h.program, h.kernel, A, NULL) /\ ProgramsListed(h)
      /\ \A j \in Kernels \ failed : h.kernel[j].ref = One(j \in A)
      /\ \A j \in Kernels : j \in Range(array) => h.kernel[j].ref > 0
      /\ A \cap Kernels \subseteq Range(array)
  BY <1>3, <1>4 DEF ClosingInv
<1>8. NULL \notin A /\ NULL \notin Kernels /\ Programs \cap Kernels = {}
  BY <1>3, CmProgramsAssumption
<1>9. CASE k = NULL
  <2>1. w = h /\ B = A
    BY <1>2, <1>8, <1>9
  <2>2. B \cap Kernels \subseteq Range(w.kernelArray) \ {Head(w.kernelArray)}
    BY <1>4, <1>5, <1>7, <1>8, <1>9, <2>1
  <2>3. \A j \in Kernels : j \in Range(w.kernelArray) => w.kernel[j].ref > 0
    BY <1>4, <1>7, <2>1
  <2>4. g \in HeapType /\ ClosingInv(g, B, failed)
    BY <1>2, <1>3, <1>7, <2>1, <2>2, <2>3, KernelLeaves
  <2>5. g.info = h.info /\ g.program = h.program /\ g.kernel = h.kernel /\ g.data = h.data
    BY <1>2, <1>3, <2>1 DEF HeapType
  <2>6. SameKernels(heap.data, g.data)
    BY <1>2, <2>5 DEF SameKernels
  <2> QED BY <1>1, <1>2, <1>3, <2>1, <2>4, <2>5, <2>6, ClosingHeapStep
<1>10. CASE k # NULL
  <2>1. k \in Kernels /\ h.kernel[k].ref > 0 /\ w = DestroyKernelReference(h, k)
    BY <1>2, <1>6, <1>7, <1>10
  <2>2. /\ w \in HeapType
        /\ ProgramCount(w.program, w.kernel, A, NULL)
        /\ InfoCount(w.info, w.program, w.kernel)
        /\ DataCount(w.data, w.kernel, held, 0) /\ LastInv(w.data, w.kernel)
        /\ ProgramsListed(w)
        /\ Dropped(h.kernel, w.kernel, k)
        /\ w.kernelArray = IF h.kernel[k].ref = 1 THEN ClearSlot(h.kernelArray, k)
                           ELSE h.kernelArray
        /\ w.data = h.data \/ \E d \in Datas : Released(h.data, w.data, d)
    BY <1>3, <1>7, <2>1, DestroyKernelReferenceIs
  <2>3. PICK old, new, cleared : old = h.kernel /\ new = w.kernel /\ cleared = ClearSlot(array, k)
    OBVIOUS
  <2>4. /\ old \in KernelTable /\ new \in KernelTable /\ new[k].ref = old[k].ref - 1
        /\ \A j \in Kernels : j # k => new[j].ref = old[j].ref
        /\ old[k].ref \in Nat /\ old[k].ref > 0
    BY <1>3, <2>1, <2>2, <2>3, KernelFacts DEF HeapType, Dropped
  <2>5. /\ cleared \in Seq(Kernels \cup {NULL}) /\ cleared # <<>>
        /\ Range(cleared) \ {NULL} = Range(array) \ {k, NULL} /\ Head(cleared) = NULL
    <3>1. Head(ClearSlot(array, k)) = NULL
      BY <1>5, HeadCleared
    <3>2. ClearSlot(array, k) \in Seq(Kernels \cup {NULL})
      BY <1>5, ClearFacts
    <3>3. Range(ClearSlot(array, k)) \ {NULL} = Range(array) \ {k, NULL}
      BY <1>5, ClearFacts
    <3>4. ClearSlot(array, k) # <<>>
      BY <1>5, ClearFacts
    <3> QED BY <1>5, <2>3, <3>1, <3>2, <3>3, <3>4
  <2>6. w.kernelArray = IF old[k].ref = 1 THEN cleared ELSE array
    BY <1>4, <2>2, <2>3
  <2>7. w.kernelArray # <<>>
    BY <1>5, <2>5, <2>6
  <2>8. ProgramCount(w.program, w.kernel, B, NULL)
    <3>1. \A p \in Programs : p \in A <=> p \in B
      BY <1>2, <1>8, <2>1
    <3>2. \A p \in Programs : One(p \in A) = One(p \in B)
      BY <3>1 DEF One
    <3> QED BY <2>2, <3>2 DEF ProgramCount
  <2>9. \A j \in Kernels \ failed : w.kernel[j].ref = One(j \in B)
    <3>1. TAKE j \in Kernels \ failed
    <3>2. old[j].ref = One(j \in A)
      BY <1>7, <2>3
    <3>3. CASE j = k
      <4>1. One(j \in A) \in {0, 1} /\ One(j \in B) = 0
        BY <1>2, <3>3 DEF One
      <4> QED BY <2>3, <2>4, <3>2, <3>3, <4>1
    <3>4. CASE j # k
      <4>1. One(j \in A) = One(j \in B)
        BY <1>2, <3>4 DEF One
      <4> QED BY <2>3, <2>4, <3>2, <3>4, <4>1
    <3> QED BY <3>3, <3>4
  <2>10. \A j \in Kernels : j \in Range(w.kernelArray) => w.kernel[j].ref > 0
    <3>1. \A j \in Kernels : j \in Range(array) => old[j].ref > 0
      BY <1>7, <2>3
    <3>2. CASE old[k].ref = 1
      <4>1. \A j \in Kernels : j \in Range(cleared) => j \in Range(array) /\ j # k
        BY <1>8, <2>5
      <4> QED BY <2>3, <2>4, <2>6, <3>1, <3>2, <4>1
    <3>3. CASE old[k].ref # 1
      <4>1. new[k].ref > 0
        BY <2>4, <3>3
      <4>2. w.kernelArray = array
        BY <2>6, <3>3
      <4> QED BY <2>3, <2>4, <3>1, <4>1, <4>2
    <3> QED BY <3>2, <3>3
  <2>11. B \cap Kernels \subseteq Range(w.kernelArray) \ {Head(w.kernelArray)}
    <3>1. \A j \in B \cap Kernels : j \in Range(array) /\ j # k /\ j # NULL
      BY <1>2, <1>7, <1>8
    <3>2. CASE old[k].ref = 1
      <4>1. \A j \in B \cap Kernels : j \in Range(cleared) /\ j # Head(cleared)
        BY <2>5, <3>1
      <4>2. w.kernelArray = cleared
        BY <2>6, <3>2
      <4> QED BY <4>1, <4>2
    <3>3. CASE old[k].ref # 1
      <4>1. w.kernelArray = array
        BY <2>6, <3>3
      <4> QED BY <1>5, <3>1, <4>1
    <3> QED BY <3>2, <3>3
  <2>12. g \in HeapType /\ ClosingInv(g, B, failed)
    BY <1>2, <2>2, <2>7, <2>8, <2>9, <2>10, <2>11, KernelLeaves
  <2>13. g.info = w.info /\ g.program = w.program /\ g.kernel = w.kernel /\ g.data = w.data
    BY <1>2, <2>2 DEF HeapType
  <2>14. SameKernels(heap.data, g.data)
    <3>1. CASE w.data = h.data
      BY <1>2, <2>13, <3>1 DEF SameKernels
    <3>2. ASSUME NEW d \in Datas, Released(h.data, w.data, d)
          PROVE  SameKernels(heap.data, g.data)
      BY <1>2, <2>13, <3>2 DEF SameKernels, Released
    <3> QED BY <2>2, <3>1, <3>2
  <2>15. B \subseteq Programs \cup Kernels
    BY <1>2, <1>3
  <2>16. /\ InfoCount(g.info, g.program, g.kernel)
         /\ DataCount(g.data, g.kernel, Held(task), 0) /\ LastInv(g.data, g.kernel)
    BY <1>2, <2>2, <2>13
  <2> QED BY <1>1, <1>2, <2>12, <2>14, <2>15, <2>16, ClosingHeapStep
<1> QED BY <1>9, <1>10

\* The next program leaves the array.
LEMMA ProgramLeaves ==
  ASSUME NEW w \in HeapType, NEW B, NEW F, w.programArray # <<>>, w.kernelArray = <<>>,
         ProgramsListed(w), Head(w.programArray) = NULL,
         \A k \in Kernels \ F : w.kernel[k].ref = One(k \in B),
         B \cap Kernels = {}, B \cap Programs \subseteq Range(w.programArray),
         \A p \in Programs : w.program[p] > 0 => p \in B \/ ProgramTokens(w.kernel, p) # {},
         NEW g, g = [w EXCEPT !.programArray = Tail(@)]
  PROVE  g \in HeapType /\ ClosingInv(g, B, F)
<1>1. PICK array : array = w.programArray
  OBVIOUS
<1>2. array \in Seq(Programs \cup {NULL}) /\ array # <<>>
  BY <1>1 DEF HeapType
<1>3. /\ Tail(array) \in Seq(Programs \cup {NULL})
      /\ Range(array) = Range(Tail(array)) \cup {NULL}
  BY <1>1, <1>2, TailFacts
<1>4. /\ g \in HeapType /\ g.programArray = Tail(array) /\ g.kernel = w.kernel
      /\ g.program = w.program /\ g.kernelArray = <<>>
  BY <1>1, <1>3 DEF HeapType
<1>5. ProgramsListed(g)
  BY <1>1, <1>3, <1>4 DEF ProgramsListed
<1>6. B \cap Programs \subseteq Range(g.programArray)
  BY <1>1, <1>3, <1>4, CmProgramsAssumption
<1>7. Range(<<>>) = {}
  BY DEF Range
<1>8. \A p \in Programs : g.program[p] > 0 => p \in B \/ ProgramTokens(g.kernel, p) # {}
  BY <1>4
<1>9. \A k \in Kernels \ F : g.kernel[k].ref = One(k \in B)
  BY <1>4
<1> QED BY <1>4, <1>5, <1>6, <1>7, <1>8, <1>9 DEF ClosingInv

\* The loop over the programs keeps the invariant.
LEMMA DestroyNextProgramStep ==
  ASSUME Inv, DestroyNextProgram
  PROVE  Inv'
<1>1. /\ device = "closing" /\ heap.kernelArray = <<>> /\ heap.programArray # <<>>
      /\ UNCHANGED <<task, enqueued, flushed, failed, device, loads>>
  BY DEF DestroyNextProgram
<1>2. PICK h, p, A, B, w, g, held :
        /\ h = heap /\ p = Head(h.programArray) /\ A = appHolds /\ B = A \ {p} /\ g = heap'
        /\ w = IF p = NULL THEN h ELSE DeleteProgram(h, p)
        /\ g = [w EXCEPT !.programArray = Tail(@)] /\ appHolds' = B /\ held = Held(task)
  BY DEF DestroyNextProgram
<1>3. /\ h \in HeapType /\ A \subseteq Programs \cup Kernels /\ ClosingInv(h, A, failed)
      /\ InfoCount(h.info, h.program, h.kernel)
      /\ DataCount(h.data, h.kernel, held, 0) /\ LastInv(h.data, h.kernel)
      /\ h.kernelArray = <<>> /\ h.programArray # <<>>
  BY <1>1, <1>2, ClosingFacts
<1>4. PICK array : array = h.programArray
  OBVIOUS
<1>5. array \in Seq(Programs \cup {NULL}) /\ array # <<>> /\ p = Head(array)
  BY <1>2, <1>3, <1>4 DEF HeapType
<1>6. p \in Programs \cup {NULL} /\ p \in Range(array)
  BY <1>5, TailFacts
<1>7. Range(<<>>) = {}
  BY DEF Range
<1>8. /\ ProgramsListed(h)
      /\ \A j \in Kernels \ failed : h.kernel[j].ref = One(j \in A)
      /\ A \cap Kernels = {} /\ A \cap Programs \subseteq Range(array)
      /\ \A q \in Programs : h.program[q] > 0 => q \in A \/ ProgramTokens(h.kernel, q) # {}
  BY <1>3, <1>4, <1>7 DEF ClosingInv
<1>9. NULL \notin A /\ NULL \notin Programs /\ Programs \cap Kernels = {}
  BY <1>3, CmProgramsAssumption
<1>10. CASE p = NULL
  <2>1. w = h /\ B = A
    BY <1>2, <1>9, <1>10
  <2>2. g \in HeapType /\ ClosingInv(g, B, failed)
    <3>1. Head(w.programArray) = NULL /\ B \cap Programs \subseteq Range(w.programArray)
      BY <1>4, <1>5, <1>8, <1>10, <2>1
    <3> QED BY <1>2, <1>3, <1>8, <2>1, <3>1, ProgramLeaves
  <2>3. g.info = h.info /\ g.program = h.program /\ g.kernel = h.kernel /\ g.data = h.data
    BY <1>2, <1>3, <2>1 DEF HeapType
  <2>4. SameKernels(heap.data, g.data)
    BY <1>2, <2>3 DEF SameKernels
  <2> QED BY <1>1, <1>2, <1>3, <2>1, <2>2, <2>3, <2>4, ClosingHeapStep
<1>11. CASE p # NULL
  <2>1. p \in Programs /\ h.program[p] > 0 /\ w = DeleteProgram(h, p)
    BY <1>2, <1>4, <1>6, <1>8, <1>11 DEF ProgramsListed
  <2>2. /\ w \in HeapType /\ w.kernel = h.kernel /\ w.data = h.data
        /\ w.kernelArray = h.kernelArray
        /\ w.program = [h.program EXCEPT ![p] = 0]
        /\ InfoCount(w.info, w.program, h.kernel) /\ ProgramsListed(w)
        /\ w.programArray = ClearSlot(h.programArray, p)
    BY <1>3, <1>8, <2>1, DeleteProgramIs DEF OnlyProgram
  <2>3. PICK cleared : cleared = ClearSlot(array, p)
    OBVIOUS
  <2>4. /\ cleared \in Seq(Programs \cup {NULL}) /\ cleared # <<>>
        /\ Range(cleared) \ {NULL} = Range(array) \ {p, NULL} /\ Head(cleared) = NULL
    <3>1. Head(ClearSlot(array, p)) = NULL
      BY <1>5, HeadCleared
    <3>2. ClearSlot(array, p) \in Seq(Programs \cup {NULL})
      BY <1>5, ClearFacts
    <3>3. Range(ClearSlot(array, p)) \ {NULL} = Range(array) \ {p, NULL}
      BY <1>5, ClearFacts
    <3>4. ClearSlot(array, p) # <<>>
      BY <1>5, ClearFacts
    <3> QED BY <1>5, <2>3, <3>1, <3>2, <3>3, <3>4
  <2>5. w.programArray = cleared
    BY <1>4, <2>2, <2>3
  <2>6. \A j \in Kernels \ failed : w.kernel[j].ref = One(j \in B)
    <3>1. \A j \in Kernels : j \in A <=> j \in B
      BY <1>2, <1>9, <2>1
    <3>2. \A j \in Kernels : One(j \in A) = One(j \in B)
      BY <3>1 DEF One
    <3> QED BY <1>8, <2>2, <3>2
  <2>7. B \cap Kernels = {} /\ B \cap Programs \subseteq Range(w.programArray)
    <3>1. \A q \in B \cap Programs : q \in Range(array) /\ q # p /\ q # NULL
      BY <1>2, <1>8, <1>9
    <3>2. \A q \in B \cap Programs : q \in Range(cleared)
      BY <2>4, <3>1
    <3> QED BY <1>2, <1>8, <2>5, <3>2
  <2>8. \A q \in Programs : w.program[q] > 0 => q \in B \/ ProgramTokens(w.kernel, q) # {}
    <3>1. h.program \in [Programs -> Nat]
      BY <1>3 DEF HeapType
    <3>2. \A q \in Programs : w.program[q] > 0 => q # p /\ h.program[q] > 0
      BY <2>1, <2>2, <3>1
    <3> QED BY <1>2, <1>8, <2>2, <3>2
  <2>9. g \in HeapType /\ ClosingInv(g, B, failed)
    <3>1. w.programArray # <<>> /\ w.kernelArray = <<>> /\ Head(w.programArray) = NULL
      BY <1>3, <2>2, <2>4, <2>5
    <3> QED BY <1>2, <2>2, <2>6, <2>7, <2>8, <3>1, ProgramLeaves
  <2>10. g.info = w.info /\ g.program = w.program /\ g.kernel = w.kernel /\ g.data = w.data
    BY <1>2, <2>2 DEF HeapType
  <2>11. SameKernels(heap.data, g.data)
    BY <1>2, <2>2, <2>10 DEF SameKernels
  <2>12. B \subseteq Programs \cup Kernels
    BY <1>2, <1>3
  <2>13. /\ InfoCount(g.info, g.program, g.kernel)
         /\ DataCount(g.data, g.kernel, Held(task), 0) /\ LastInv(g.data, g.kernel)
    BY <1>2, <1>3, <2>2, <2>10
  <2> QED BY <1>1, <1>2, <2>9, <2>11, <2>12, <2>13, ClosingHeapStep
<1> QED BY <1>10, <1>11

\* DestroyQueue keeps the invariant.
LEMMA DestroyQueueStep ==
  ASSUME Inv, DestroyQueue
  PROVE  Inv'
<1>1. /\ device = "closing" /\ device' = "closed" /\ enqueued = <<>>
      /\ heap.kernelArray = <<>> /\ heap.programArray = <<>>
      /\ UNCHANGED <<heap, appHolds, task, enqueued, flushed, failed, loads>>
  BY DEF DestroyQueue, QueueWorks
<1>2. TypeOK' /\ QueueInv' /\ StuckInv' /\ HeldInv(heap', task')
  BY <1>1 DEF Inv, TypeOK, QueueInv, StuckInv
<1>3. ClosingInv(heap', appHolds', failed')
  BY <1>1, ClosingFacts
<1> QED BY <1>1, <1>2, <1>3 DEF Inv

\* A step of the queue that changes kernel data only.
LEMMA ClosingDataStep ==
  ASSUME Inv, device = "closing", NEW g \in HeapType,
         g = [heap EXCEPT !.data = g.data], heap' = g,
         DataCount(g.data, heap.kernel, Held(task'), 0), LastInv(g.data, heap.kernel),
         failed \subseteq failed', failed' \subseteq Kernels,
         task' \in [Tasks -> TaskType], enqueued' \in Seq(Tasks), flushed' \in Seq(Tasks),
         QueueInv', StuckInv', UNCHANGED <<appHolds, device, loads>>
  PROVE  Inv'
<1>1. /\ g.program = heap.program /\ g.info = heap.info /\ g.kernel = heap.kernel
      /\ g.programArray = heap.programArray /\ g.kernelArray = heap.kernelArray
  BY ClosingFacts DEF HeapType
<1>2. TypeOK'
  BY DEF Inv, TypeOK
<1>3. HeldInv(heap', task')
  BY <1>1, ClosingFacts DEF HeldInv
<1>4. ClosingInv(heap', appHolds', failed')
  <2>1. PICK h, A, F, G : h = heap /\ A = appHolds /\ F = failed /\ G = failed'
    OBVIOUS
  <2>2. ClosingInv(h, A, F) /\ F \subseteq G
    BY <2>1, ClosingFacts
  <2>3. ClosingInv(g, A, G)
    <3>1. ProgramsListed(g)
      BY <1>1, <2>1, <2>2 DEF ClosingInv, ProgramsListed
    <3> QED BY <1>1, <2>1, <2>2, <3>1 DEF ClosingInv
  <2> QED BY <2>1, <2>3
<1> QED BY <1>2, <1>3, <1>4, ClosingNext

\* CmKernelData::ReleaseKernel when the device has no kernels any more.
Idle(h, g) ==
    /\ g \in HeapType /\ g = [h EXCEPT !.data = g.data] /\ g.kernelArray = <<>>
    /\ SameHolds(h.data, g.data)

\* Without an array of kernels ReleaseKernel only counts.
LEMMA ReleaseKernelIdle ==
  ASSUME NEW h \in HeapType, NEW d \in Datas, h.data[d].ref > 0, h.kernelArray = <<>>,
         NEW g, g = ReleaseKernel(h, d)
  PROVE  Idle(h, g)
<1>1. PICK data : data = h.data
  OBVIOUS
<1>2. data \in DataTable /\ data[d] \in DataType
  BY <1>1, DataFacts DEF HeapType
<1>3. PICK n \in Nat : n = data[d].kernelRef
  BY <1>2 DEF DataType
<1>4. CASE n = 0
  <2>1. g = h
    BY <1>1, <1>3, <1>4 DEF ReleaseKernel
  <2>2. h = [h EXCEPT !.data = h.data]
    BY DEF HeapType
  <2> QED BY <2>1, <2>2 DEF Idle, SameHolds
<1>5. CASE n # 0
  <2>1. DestroyKernelInDevice(h, h.data[d].kernel) = h
    BY DEF DestroyKernelInDevice, Places
  <2>2. g = [h EXCEPT !.data[d].kernelRef = @ - 1]
    BY <1>1, <1>3, <1>5, <2>1 DEF ReleaseKernel
  <2>3. PICK r : r = [ref |-> data[d].ref, kernelRef |-> n - 1, kernel |-> data[d].kernel]
    OBVIOUS
  <2>4. [data[d] EXCEPT !.kernelRef = @ - 1] = r
    BY <1>2, <1>3, <2>3 DEF DataType
  <2>5. r \in DataType /\ r.ref = data[d].ref /\ r.kernel = data[d].kernel
    BY <1>2, <1>3, <1>5, <2>3 DEF DataType
  <2>6. PICK now : now = [data EXCEPT ![d] = r]
    OBVIOUS
  <2>7. now \in DataTable /\ SameHolds(data, now)
    BY <1>2, <2>5, <2>6 DEF DataTable, SameHolds
  <2>8. g = [h EXCEPT !.data = now]
    BY <1>1, <2>2, <2>4, <2>6 DEF HeapType
  <2> QED BY <1>1, <2>7, <2>8 DEF HeapType, Idle
<1> QED BY <1>4, <1>5

\* Without an array of kernels ReleaseKernels only counts.
LEMMA ReleaseKernelsIdle ==
  ASSUME NEW h \in HeapType, NEW ds \in DataLists, \A d \in Range(ds) : h.data[d].ref > 0,
         h.kernelArray = <<>>,
         NEW g, g = ReleaseKernels(h, ds)
  PROVE  Idle(h, g)
<1>1. PICK d \in Datas : d = ds[1] /\ h.data[d].ref > 0
  BY ListFacts
<1>2. PICK w : w = ReleaseKernel(h, d)
  OBVIOUS
<1>3. Idle(h, w)
  BY <1>1, <1>2, ReleaseKernelIdle
<1>4. CASE Len(ds) = 1
  BY <1>1, <1>2, <1>3, <1>4 DEF ReleaseKernels
<1>5. CASE Len(ds) # 1
  <2>1. PICK e \in Datas : e = ds[2] /\ h.data[e].ref > 0
    BY <1>5, ListFacts
  <2>2. g = ReleaseKernel(w, e)
    BY <1>1, <1>2, <1>5, <2>1 DEF ReleaseKernels
  <2>3. w \in HeapType /\ w.data[e].ref > 0 /\ w.kernelArray = <<>>
    BY <1>3, <2>1 DEF Idle, SameHolds
  <2>4. Idle(w, g)
    BY <2>2, <2>3, ReleaseKernelIdle
  <2>5. g = [h EXCEPT !.data = g.data]
    BY <1>3, <2>4 DEF Idle, HeapType
  <2>6. SameHolds(h.data, g.data)
    BY <1>3, <2>4 DEF Idle, SameHolds
  <2> QED BY <2>4, <2>5, <2>6 DEF Idle
<1> QED BY <1>4, <1>5

\* Counts of kernel data stay right when only the counts of kernels change.
LEMMA IdleCounts ==
  ASSUME NEW old, NEW new, SameHolds(old, new), NEW kernel \in KernelTable, NEW held,
         DataCount(old, kernel, held, 0), LastInv(old, kernel)
  PROVE  DataCount(new, kernel, held, 0) /\ LastInv(new, kernel)
<1>1. DataCount(new, kernel, held, 0)
  BY DEF DataCount, SameHolds
<1>2. LastInv(new, kernel)
  <2> SUFFICES ASSUME NEW k \in Kernels, kernel[k].ref > 0, kernel[k].last # 0
               PROVE  new[kernel[k].last].ref > 0 /\ new[kernel[k].last].kernel = k
    BY DEF LastInv
  <2>1. kernel[k].last \in Datas
    BY KernelFacts DEF KernelType
  <2> QED BY <2>1 DEF LastInv, SameHolds
<1> QED BY <1>1, <1>2

\* Flush keeps the invariant while the device is closing.
LEMMA FlushClosingStep ==
  ASSUME Inv, device = "closing", Flush
  PROVE  Inv'
<1>1. PICK t \in Tasks, ds \in DataLists :
        /\ t = Head(enqueued) /\ ds = task[t].datas /\ task[t].state = "waiting"
        /\ flushed' \in Seq(Tasks) /\ enqueued' = Tail(enqueued)
        /\ UNCHANGED <<appHolds, device, loads>>
        /\ enqueued' \in Seq(Tasks) /\ QueueInv'
        /\ Flushes(t, ds) \/ Sticks(t, ds)
  BY FlushIs
<1>2. /\ heap \in HeapType /\ task \in [Tasks -> TaskType] /\ failed \subseteq Kernels
      /\ DataCount(heap.data, heap.kernel, Held(task), 0) /\ LastInv(heap.data, heap.kernel)
  BY ClosingFacts
<1>3. heap.kernelArray = <<>>
  BY DEF Flush, QueueWorks
<1>4. PICK held, waits, new, stuck : /\ held = Held(task) /\ waits = Waits(task) /\ new = task'
                                     /\ stuck = PairsOf(task, {"stuck"})
  OBVIOUS
<1>5. /\ stuck \subseteq held /\ waits \subseteq held /\ held \in SUBSET (Tasks \X Datas)
      /\ \A e \in stuck : heap.data[e[2]].kernel \in failed
  BY <1>4, WaitsAreHeld DEF Inv, StuckInv
<1>6. PICK data, kernel : data = heap.data /\ kernel = heap.kernel
  OBVIOUS
<1>7. /\ data \in DataTable /\ kernel \in KernelTable
      /\ DataCount(data, kernel, held, 0) /\ LastInv(data, kernel)
  BY <1>2, <1>4, <1>6 DEF HeapType
<1>8. ASSUME Pairs(t, ds) \subseteq waits
      PROVE  \A d \in Range(ds) : data[d].ref > 0 /\ data[d].kernel \in Kernels
  <2>1. TAKE d \in Range(ds)
  <2>2. PICK e \in held : e = <<t, d>>
    BY <1>5, <1>8 DEF Pairs
  <2>3. data[e[2]].ref > 0 /\ data[e[2]].kernel \in Kernels
    BY <1>5, <1>7, HeldKernelType
  <2> QED BY <2>2, <2>3
<1>9. CASE Flushes(t, ds)
  <2>1. PICK g : g = heap'
    OBVIOUS
  <2>2. g = ReleaseKernels(heap, ds) /\ failed' = failed
        /\ new = [task EXCEPT ![t].state = "flushed"]
    BY <1>4, <1>9, <2>1 DEF Flushes
  <2>3. PICK state \in {"flushed", "stuck"} : state = "flushed"
    OBVIOUS
  <2>4. /\ new \in [Tasks -> TaskType] /\ Pairs(t, ds) \subseteq waits
        /\ Held(new) = held /\ PairsOf(new, {"stuck"}) = stuck
    <3>1. new = WithState(task, t, state)
      BY <2>2, <2>3 DEF WithState
    <3>2. Moved(task, new, t, task[t].datas, state)
      BY <1>1, <1>2, <3>1, TaskFlushed
    <3> QED BY <1>1, <1>4, <2>3, <3>2 DEF Moved
  <2>5. Idle(heap, g)
    <3>1. PICK h : h = heap
      OBVIOUS
    <3>2. h \in HeapType /\ h.kernelArray = <<>> /\ g = ReleaseKernels(h, ds)
          /\ \A d \in Range(ds) : h.data[d].ref > 0
      BY <1>2, <1>3, <1>6, <1>8, <2>2, <2>4, <3>1
    <3>3. Idle(h, g)
      BY <3>2, ReleaseKernelsIdle
    <3> QED BY <3>1, <3>3
  <2>6. g \in HeapType /\ g = [heap EXCEPT !.data = g.data] /\ SameHolds(data, g.data)
    BY <1>6, <2>5 DEF Idle
  <2>7. DataCount(g.data, kernel, held, 0) /\ LastInv(g.data, kernel)
    BY <1>7, <2>6, IdleCounts
  <2>8. StuckInv'
    <3>1. \A e \in stuck : g.data[e[2]].kernel = data[e[2]].kernel
      <4>1. \A e \in held : e[2] \in Datas
        BY <1>5
      <4> QED BY <1>5, <2>6, <4>1 DEF SameHolds
    <3> QED BY <1>4, <1>5, <1>6, <2>1, <2>2, <2>4, <3>1 DEF StuckInv
  <2>9. DataCount(g.data, heap.kernel, Held(task'), 0) /\ LastInv(g.data, heap.kernel)
    BY <1>4, <1>6, <2>4, <2>7
  <2> QED BY <1>1, <1>2, <1>4, <2>1, <2>2, <2>4, <2>6, <2>8, <2>9, ClosingDataStep
<1>10. CASE Sticks(t, ds)
  <2>1. PICK more : more = failed \cup KernelsOf(ds)
    OBVIOUS
  <2>2. heap' = heap /\ failed' = more /\ new = [task EXCEPT ![t].state = "stuck"]
    BY <1>4, <1>10, <2>1 DEF Sticks
  <2>3. PICK state \in {"flushed", "stuck"} : state = "stuck"
    OBVIOUS
  <2>4. /\ new \in [Tasks -> TaskType] /\ Pairs(t, ds) \subseteq waits
        /\ Held(new) = held /\ PairsOf(new, {"stuck"}) = stuck \cup Pairs(t, ds)
    <3>1. new = WithState(task, t, state)
      BY <2>2, <2>3 DEF WithState
    <3>2. Moved(task, new, t, task[t].datas, state)
      BY <1>1, <1>2, <3>1, TaskFlushed
    <3> QED BY <1>1, <1>4, <2>3, <3>2 DEF Moved
  <2>5. \A e \in Pairs(t, ds) : heap.data[e[2]].kernel \in more
    BY <2>1 DEF Pairs, KernelsOf
  <2>6. failed \subseteq more /\ more \subseteq Kernels
    BY <1>2, <1>6, <1>8, <2>1, <2>4 DEF KernelsOf
  <2>7. StuckInv'
    BY <1>4, <1>5, <2>1, <2>2, <2>4, <2>5 DEF StuckInv
  <2>8. PICK g : g = heap
    OBVIOUS
  <2>9. g \in HeapType /\ g = [heap EXCEPT !.data = g.data]
    BY <1>2, <2>8 DEF HeapType
  <2>10. DataCount(g.data, heap.kernel, Held(task'), 0) /\ LastInv(g.data, heap.kernel)
    BY <1>2, <1>4, <2>4, <2>8
  <2>11. failed \subseteq failed' /\ failed' \subseteq Kernels /\ heap' = g
         /\ task' \in [Tasks -> TaskType]
    BY <1>4, <2>2, <2>4, <2>6, <2>8
  <2> QED BY <1>1, <2>7, <2>9, <2>10, <2>11, ClosingDataStep
<1> QED BY <1>1, <1>9, <1>10

\* What a task that is popped gives up.
LEMMA ReleaseAllHeld ==
  ASSUME NEW h \in HeapType, NEW t \in Tasks, NEW ds \in DataLists, NEW held,
         Pairs(t, ds) \subseteq held,
         DataCount(h.data, h.kernel, held, 0), LastInv(h.data, h.kernel),
         NEW g, g = ReleaseAll(h, ds)
  PROVE  /\ g \in HeapType /\ g = [h EXCEPT !.data = g.data]
         /\ DataCount(g.data, h.kernel, held \ Pairs(t, ds), 0) /\ LastInv(g.data, h.kernel)
         /\ SameKernels(h.data, g.data)
<1>1. PICK d \in Datas : d = ds[1]
  BY ListFacts
<1>2. PICK w : w = ReleaseData(h, d)
  OBVIOUS
<1>3. <<t, d>> \in held
  BY <1>1, ListFacts DEF Pairs
<1>4. /\ w \in HeapType /\ w = [h EXCEPT !.data = w.data]
      /\ Released(h.data, w.data, d)
      /\ DataCount(w.data, h.kernel, held \ {<<t, d>>}, 0) /\ LastInv(w.data, h.kernel)
  BY <1>2, <1>3, ReleaseHeld
<1>5. SameKernels(h.data, w.data)
  BY <1>4 DEF SameKernels, Released
<1>6. CASE Len(ds) = 1
  <2>1. g = w
    BY <1>1, <1>2, <1>6 DEF ReleaseAll
  <2>2. held \ Pairs(t, ds) = held \ {<<t, d>>}
    BY <1>1, <1>6, ListFacts DEF Pairs
  <2> QED BY <1>4, <1>5, <2>1, <2>2
<1>7. CASE Len(ds) # 1
  <2>1. PICK e \in Datas : e = ds[2] /\ e # d /\ Pairs(t, ds) = {<<t, d>>, <<t, e>>}
    BY <1>1, <1>7, ListFacts DEF Pairs
  <2>2. g = ReleaseData(w, e)
    BY <1>1, <1>2, <1>7, <2>1 DEF ReleaseAll
  <2>3. <<t, e>> \in held \ {<<t, d>>} /\ w.kernel = h.kernel
    BY <1>4, <2>1 DEF HeapType
  <2>4. /\ g \in HeapType /\ g = [w EXCEPT !.data = g.data]
        /\ Released(w.data, g.data, e)
        /\ DataCount(g.data, w.kernel, (held \ {<<t, d>>}) \ {<<t, e>>}, 0)
        /\ LastInv(g.data, w.kernel)
    <3>1. DataCount(w.data, w.kernel, held \ {<<t, d>>}, 0) /\ LastInv(w.data, w.kernel)
      BY <1>4, <2>3
    <3>2. PICK fewer : fewer = held \ {<<t, d>>}
      OBVIOUS
    <3>3. <<t, e>> \in fewer /\ DataCount(w.data, w.kernel, fewer, 0)
      BY <2>3, <3>1, <3>2
    <3> QED BY <1>4, <2>2, <3>1, <3>2, <3>3, ReleaseHeld
  <2>5. (held \ {<<t, d>>}) \ {<<t, e>>} = held \ Pairs(t, ds)
    BY <2>1
  <2>6. SameKernels(h.data, g.data)
    <3>1. PICK a, b, c : a = h.data /\ b = w.data /\ c = g.data
      OBVIOUS
    <3>2. Released(a, b, d) /\ Released(b, c, e) /\ d # e
      BY <1>4, <2>1, <2>4, <3>1
    <3>3. SameKernels(a, c)
      BY <3>2 DEF Released, SameKernels
    <3> QED BY <3>1, <3>3
  <2>7. g = [h EXCEPT !.data = g.data]
    BY <1>4, <2>4 DEF HeapType
  <2> QED BY <2>3, <2>4, <2>5, <2>6, <2>7
<1> QED BY <1>6, <1>7

\* PopTask keeps the invariant while the device is closing.
LEMMA PopTaskClosingStep ==
  ASSUME Inv, device = "closing", PopTask
  PROVE  Inv'
<1>1. PICK t \in Tasks, ds \in DataLists :
        /\ ds = task[t].datas /\ task[t].state = "flushed"
        /\ task' = [task EXCEPT ![t] = [state |-> "gone"]]
        /\ heap' = ReleaseAll(heap, ds)
        /\ flushed' \in Seq(Tasks) /\ QueueInv'
        /\ UNCHANGED <<appHolds, enqueued, failed, device, loads>>
  BY PopTaskIs
<1>2. /\ heap \in HeapType /\ task \in [Tasks -> TaskType] /\ failed \subseteq Kernels
      /\ DataCount(heap.data, heap.kernel, Held(task), 0) /\ LastInv(heap.data, heap.kernel)
  BY ClosingFacts
<1>3. PICK held, waits, new, stuck : /\ held = Held(task) /\ waits = Waits(task) /\ new = task'
                                     /\ stuck = PairsOf(task, {"stuck"})
  OBVIOUS
<1>4. /\ stuck \subseteq waits /\ waits \subseteq held /\ held \in SUBSET (Tasks \X Datas)
      /\ \A e \in stuck : heap.data[e[2]].kernel \in failed
  BY <1>3, WaitsAreHeld DEF Inv, StuckInv
<1>5. /\ new \in [Tasks -> TaskType] /\ Pairs(t, ds) \subseteq held \ waits
      /\ Held(new) = held \ Pairs(t, ds) /\ PairsOf(new, {"stuck"}) \subseteq stuck
  <2>1. new = [task EXCEPT ![t] = [state |-> "gone"]]
    BY <1>1, <1>3
  <2>2. Pairs(t, ds) \subseteq held \ waits /\ Held(new) = held \ Pairs(t, ds)
    BY <1>1, <1>2, <1>3, <2>1, TaskPopped
  <2>3. new \in [Tasks -> TaskType] /\ PairsOf(new, {"stuck"}) \subseteq stuck
    BY <1>2, <1>3, <2>1, TaskGone
  <2> QED BY <2>2, <2>3
<1>6. PICK h, g, fewer : h = heap /\ g = heap' /\ fewer = held \ Pairs(t, ds)
  OBVIOUS
<1>7. /\ g \in HeapType /\ g = [h EXCEPT !.data = g.data]
      /\ DataCount(g.data, h.kernel, fewer, 0) /\ LastInv(g.data, h.kernel)
      /\ SameKernels(h.data, g.data)
  <2>1. /\ h \in HeapType /\ Pairs(t, ds) \subseteq held /\ g = ReleaseAll(h, ds)
        /\ DataCount(h.data, h.kernel, held, 0) /\ LastInv(h.data, h.kernel)
    BY <1>1, <1>2, <1>3, <1>5, <1>6
  <2> QED BY <1>6, <2>1, ReleaseAllHeld
<1>8. StuckInv'
  <2>1. PICK old, now, kernel : old = h.data /\ now = g.data /\ kernel = h.kernel
    OBVIOUS
  <2>2. /\ old \in DataTable /\ now \in DataTable /\ SameKernels(old, now)
        /\ DataCount(old, kernel, held, 0) /\ DataCount(now, kernel, fewer, 0)
        /\ fewer \in SUBSET (Tasks \X Datas)
    BY <1>2, <1>3, <1>4, <1>6, <1>7, <2>1 DEF HeapType
  <2>3. stuck \subseteq fewer /\ fewer \subseteq held
    BY <1>4, <1>5, <1>6
  <2>4. \A e \in held : old[e[2]].ref > 0
    BY <1>4, <2>2, HeldKernelType
  <2>5. \A e \in fewer : now[e[2]].ref > 0
    BY <2>2, HeldKernelType
  <2>6. \A e \in stuck : now[e[2]].kernel = old[e[2]].kernel
    <3>1. \A e \in fewer : e[2] \in Datas
      BY <2>2
    <3> QED BY <2>2, <2>3, <2>4, <2>5, <3>1 DEF SameKernels
  <2> QED BY <1>1, <1>3, <1>4, <1>5, <1>6, <2>1, <2>6 DEF StuckInv
<1>9. /\ g = [heap EXCEPT !.data = g.data] /\ heap' = g
      /\ DataCount(g.data, heap.kernel, Held(task'), 0) /\ LastInv(g.data, heap.kernel)
      /\ task' \in [Tasks -> TaskType]
  BY <1>3, <1>5, <1>6, <1>7
<1>10. enqueued' \in Seq(Tasks) /\ failed \subseteq failed' /\ failed' \subseteq Kernels
  BY <1>1, <1>2 DEF Inv, TypeOK
<1> QED BY <1>1, <1>7, <1>8, <1>9, <1>10, ClosingDataStep

-----------------------------------------------------------------------------
\* Every step keeps the invariant.
LEMMA InvStep ==
  ASSUME Inv, [Next]_vars
  PROVE  Inv'
<1>1. ASSUME NEW p \in Programs, LoadProgram(p) \/ DestroyProgram(p)  PROVE Inv'
  BY <1>1, LoadProgramStep, DestroyProgramStep
<1>2. ASSUME NEW k \in Kernels, NEW p \in Programs, NEW n \in Names, NEW ok \in BOOLEAN,
             CreateKernel(k, p, n, ok)
      PROVE  Inv'
  BY <1>2, CreateKernelStep
<1>3. ASSUME NEW k \in Kernels, DestroyKernel(k)  PROVE Inv'
  BY <1>3, DestroyKernelStep
<1>4. ASSUME NEW t \in Tasks, NEW ks \in KernelLists, NEW shares \in BOOLEAN \X BOOLEAN,
             \/ \E event \in BOOLEAN : Enqueue(t, ks, shares, event)
             \/ EnqueueFails(t, ks, shares)
      PROVE  Inv'
  BY <1>4, EnqueueStep, EnqueueFailsStep
<1>5. CASE Flush
  BY <1>5, FlushOpenStep, FlushClosingStep DEF Flush, QueueWorks
<1>6. CASE PopTask
  BY <1>6, PopTaskOpenStep, PopTaskClosingStep DEF PopTask, QueueWorks
<1>7. CASE DestroyDevice \/ DestroyNextKernel \/ DestroyNextProgram \/ DestroyQueue
  BY <1>7, DestroyDeviceStep, DestroyNextKernelStep, DestroyNextProgramStep, DestroyQueueStep
<1>8. CASE UNCHANGED vars
  <2>1. UNCHANGED <<heap, appHolds, task, enqueued, flushed, failed, device, loads>>
    BY <1>8 DEF vars
  <2>2. TypeOK' /\ QueueInv' /\ StuckInv' /\ HeldInv(heap', task')
    BY <2>1 DEF Inv, TypeOK, QueueInv, StuckInv
  <2> QED BY <2>1, <2>2 DEF Inv
<1> QED BY <1>1, <1>2, <1>3, <1>4, <1>5, <1>6, <1>7, <1>8 DEF Next

\* Every count is the number of those who count on the object, from the first
\* LoadProgram until the queue of a destroyed device is gone, for an application
\* that makes one call at a time: a step acquires or releases all it has to,
\* where the code has no lock that says so for kernel data.
THEOREM ProgramsInvariant == Spec => []Inv
<1>1. Init => Inv
  BY InitInv
<1>2. Inv /\ [Next]_vars => Inv'
  BY InvStep
<1> QED BY <1>1, <1>2, PTL DEF Spec

-----------------------------------------------------------------------------
(***************************************************************************)
(* What the counts are for.                                                *)
(***************************************************************************)
\* A task that waits for kernel data counts on its kernel.
LEMMA WaiterUses ==
  ASSUME NEW data \in DataTable, NEW waits, NEW F, WaitCount(data, waits, F),
         NEW t \in Tasks, NEW d \in Datas, <<t, d>> \in waits, data[d].ref > 0
  PROVE  data[d].kernel \in Kernels /\ KernelTokens(data, data[d].kernel) # {}
<1>1. data[d] \in DataType
  BY DataFacts
<1>2. t \in HoldersOf(waits, d)
  BY DEF HoldersOf
<1>3. Cardinality(HoldersOf(waits, d)) \in Nat \ {0}
  BY <1>2, HoldersFacts
<1>4. data[d].kernelRef >= Cardinality(HoldersOf(waits, d)) /\ data[d].kernelRef \in Nat
  BY <1>1 DEF WaitCount, DataType
<1>5. 1 <= data[d].kernelRef
  BY <1>3, <1>4
<1>6. <<d, 1>> \in KernelTokens(data, data[d].kernel)
  BY <1>5 DEF KernelTokens
<1> QED BY <1>1, <1>6 DEF DataType

\* Parsed strings have a user, and a user finds them.
LEMMA InfoUsers ==
  ASSUME NEW info \in InfoTable, NEW program, NEW kernel, InfoCount(info, program, kernel),
         NEW x \in Programs \X Names
  PROVE  /\ info[x].parsed => Namesakes(kernel, x) # {}
         /\ program[x[1]] > 0 /\ Namesakes(kernel, x) # {} => info[x].parsed
<1>1. PICK sakes : sakes = Namesakes(kernel, x)
  OBVIOUS
<1>2. IsFiniteSet(sakes)
  <2>1. sakes \in SUBSET Kernels
    BY <1>1 DEF Namesakes
  <2> QED BY <2>1, CmProgramsAssumption, FS_Subset
<1>3. PICK c \in Nat : c = Cardinality(sakes)
  BY <1>2, FS_CardinalityType
<1>4. c = 0 <=> sakes = {}
  BY <1>2, <1>3, FS_EmptySet
<1>5. info[x].parsed \in BOOLEAN /\ info[x].ref \in Nat
  BY DEF InfoTable
<1>6. PICK n \in Nat, b \in {0, 1} : n = info[x].ref /\ b = One(program[x[1]] > 0)
  BY <1>5 DEF One
<1>7. n = b + c /\ info[x].parsed = (n >= 2)
  BY <1>1, <1>3, <1>6 DEF InfoCount
<1>8. ASSUME info[x].parsed  PROVE sakes # {}
  <2>1. n >= 2
    BY <1>7, <1>8
  <2>2. c # 0
    BY <1>7, <2>1
  <2> QED BY <1>4, <2>2
<1>9. ASSUME program[x[1]] > 0, sakes # {}  PROVE info[x].parsed
  <2>1. b = 1 /\ c # 0
    BY <1>4, <1>6, <1>9 DEF One
  <2>2. n >= 2
    BY <1>7, <2>1
  <2> QED BY <1>5, <1>7, <2>2
<1> QED BY <1>1, <1>8, <1>9

\* By the counts nothing is deleted that is used.
LEMMA InvAlive ==
  ASSUME Inv
  PROVE  AliveWhileUsed
<1> SUFFICES ASSUME device = "open"
             PROVE  /\ \A p \in appHolds \cap Programs : heap.program[p] > 0
                    /\ \A k \in appHolds \cap Kernels : Live(heap, k)
                    /\ \A d \in DatasOf({"waiting", "flushed", "stuck"}) : heap.data[d].ref > 0
                    /\ \A d \in DatasOf({"waiting", "stuck"}) : Live(heap, heap.data[d].kernel)
                    /\ \A k \in {j \in Kernels : Live(heap, j)} :
                         /\ heap.program[heap.kernel[k].program] > 0
                         /\ heap.info[<<heap.kernel[k].program, heap.kernel[k].name>>].parsed
                         /\ heap.kernel[k].last # 0 => heap.data[heap.kernel[k].last].ref > 0
  BY DEF AliveWhileUsed
<1>1. PICK program, info, kernel, data, held, waits :
        /\ program = heap.program /\ info = heap.info /\ kernel = heap.kernel /\ data = heap.data
        /\ held = Held(task) /\ waits = Waits(task)
  OBVIOUS
<1>2. /\ program \in [Programs -> Nat] /\ info \in InfoTable /\ kernel \in KernelTable
      /\ data \in DataTable /\ held \in SUBSET (Tasks \X Datas) /\ waits \subseteq held
      /\ ProgramCount(program, kernel, appHolds, NULL) /\ InfoCount(info, program, kernel)
      /\ KernelCount(kernel, data, appHolds, failed, NULL)
      /\ DataCount(data, kernel, held, 0) /\ LastInv(data, kernel)
      /\ WaitCount(data, waits, failed) /\ task \in [Tasks -> TaskType]
  BY <1>1, OpenFacts DEF OpenInv, HeapType
<1>3. ASSUME NEW p \in appHolds \cap Programs  PROVE program[p] > 0
  BY <1>2, ProgramUsers
<1>4. ASSUME NEW k \in appHolds \cap Kernels  PROVE kernel[k].ref > 0
  BY <1>2, KernelUsers
<1>5. ASSUME NEW d \in DatasOf({"waiting", "flushed", "stuck"})  PROVE data[d].ref > 0
  <2>1. PICK t \in Tasks : task[t].state \in {"waiting", "flushed", "stuck"} /\ d \in Range(task[t].datas)
    BY DEF DatasOf
  <2>2. d \in Datas
    BY <1>2, <2>1, TaskFacts, ListFacts
  <2>3. <<t, d>> \in held
    BY <1>1, <2>1, <2>2 DEF Held, PairsOf
  <2> QED BY <1>2, <2>2, <2>3, HeldIsThere
<1>6. ASSUME NEW d \in DatasOf({"waiting", "stuck"})  PROVE kernel[data[d].kernel].ref > 0
  <2>1. PICK t \in Tasks : task[t].state \in {"waiting", "stuck"} /\ d \in Range(task[t].datas)
    BY DEF DatasOf
  <2>2. d \in Datas
    BY <1>2, <2>1, TaskFacts, ListFacts
  <2>3. <<t, d>> \in waits
    BY <1>1, <2>1, <2>2 DEF Waits, PairsOf
  <2>4. data[d].ref > 0
    BY <1>2, <2>2, <2>3, HeldIsThere
  <2>5. data[d].kernel \in Kernels /\ KernelTokens(data, data[d].kernel) # {}
    BY <1>2, <2>2, <2>3, <2>4, WaiterUses
  <2> QED BY <1>2, <2>5, KernelUsers
<1>7. ASSUME NEW k \in Kernels, kernel[k].ref > 0
      PROVE  /\ program[kernel[k].program] > 0
             /\ info[<<kernel[k].program, kernel[k].name>>].parsed
             /\ kernel[k].last # 0 => data[kernel[k].last].ref > 0
  <2>1. PICK p \in Programs : p = kernel[k].program
    BY <1>2, <1>7, KernelFacts DEF KernelType
  <2>2. PICK n \in Names : n = kernel[k].name
    BY <1>2, <1>7, KernelFacts DEF KernelType
  <2>3. ProgramTokens(kernel, p) # {}
    <3>1. 1 <= kernel[k].ref
      BY <1>2, <1>7, KernelFacts
    <3>2. <<k, 1>> \in ProgramTokens(kernel, p)
      BY <2>1, <3>1 DEF ProgramTokens
    <3> QED BY <3>2
  <2>4. program[p] > 0
    BY <1>2, <2>3, ProgramUsers
  <2>5. k \in Namesakes(kernel, <<p, n>>)
    BY <1>7, <2>1, <2>2 DEF Namesakes
  <2>6. info[<<p, n>>].parsed
    <3>1. PICK x \in Programs \X Names : x = <<p, n>>
      OBVIOUS
    <3>2. program[x[1]] > 0 /\ Namesakes(kernel, x) # {}
      BY <2>4, <2>5, <3>1
    <3>3. info[x].parsed
      BY <1>2, <3>2, InfoUsers
    <3> QED BY <3>1, <3>3
  <2>7. kernel[k].last # 0 => data[kernel[k].last].ref > 0
    BY <1>2, <1>7 DEF LastInv
  <2> QED BY <2>1, <2>2, <2>4, <2>6, <2>7
<1>8. \A k \in Kernels : Live(heap, k) <=> kernel[k].ref > 0
  BY <1>1 DEF Live
<1>9. \A k \in appHolds \cap Kernels : Live(heap, k)
  BY <1>4, <1>8
<1>10. \A d \in DatasOf({"waiting", "stuck"}) : Live(heap, heap.data[d].kernel)
  BY <1>1, <1>6 DEF Live
<1>11. \A k \in {j \in Kernels : Live(heap, j)} :
         /\ heap.program[heap.kernel[k].program] > 0
         /\ heap.info[<<heap.kernel[k].program, heap.kernel[k].name>>].parsed
         /\ heap.kernel[k].last # 0 => heap.data[heap.kernel[k].last].ref > 0
  BY <1>1, <1>7, <1>8
<1> QED BY <1>1, <1>3, <1>5, <1>9, <1>10, <1>11

\* By the counts nothing is left that is not used.
LEMMA InvDead ==
  ASSUME Inv
  PROVE  DeadWhenUnused
<1>1. PICK program, info, kernel, data, held :
        /\ program = heap.program /\ info = heap.info /\ kernel = heap.kernel /\ data = heap.data
        /\ held = Held(task)
  OBVIOUS
<1>2. /\ program \in [Programs -> Nat] /\ info \in InfoTable /\ kernel \in KernelTable
      /\ data \in DataTable /\ InfoCount(info, program, kernel)
      /\ DataCount(data, kernel, held, 0) /\ device \in {"open", "closing", "closed"}
  BY <1>1 DEF Inv, TypeOK, HeldInv, HeapType
<1>3. device # "open" => ClosingInv(heap, appHolds, failed)
  BY DEF Inv
<1>4. ASSUME NEW k \in Kernels, Live(heap, k)
      PROVE  k \in appHolds \cup failed \cup {heap.data[d].kernel : d \in DatasOf({"waiting"})}
  <2> SUFFICES ASSUME k \notin appHolds, k \notin failed,
                      k \notin {heap.data[d].kernel : d \in DatasOf({"waiting"})}
               PROVE  heap.kernel[k].ref = One(k \in appHolds)
    BY <1>4 DEF Live, One
  <2>1. CASE device = "open"
    <3>1. ASSUME NEW e \in PairsOf(task, {"waiting"})  PROVE heap.data[e[2]].kernel # k
      BY DEF PairsOf, DatasOf
    <3> QED BY <2>1, <3>1, NobodyWaits
  <2>2. CASE device # "open"
    BY <1>3, <2>2 DEF ClosingInv
  <2> QED BY <2>1, <2>2
<1>5. ASSUME NEW p \in Programs, heap.program[p] > 0
      PROVE  \/ p \in appHolds
             \/ device # "closed" /\ \E k \in Kernels : Live(heap, k) /\ heap.kernel[k].program = p
  <2>1. p \in appHolds \/ ProgramTokens(kernel, p) # {}
    <3>1. CASE device = "open"
      BY <1>1, <1>2, <1>5, <3>1, OpenFacts, ProgramUsers DEF OpenInv
    <3>2. CASE device # "open"
      BY <1>1, <1>3, <1>5, <3>2 DEF ClosingInv
    <3> QED BY <3>1, <3>2
  <2>2. ASSUME NEW e \in ProgramTokens(kernel, p)
        PROVE  \E k \in Kernels : Live(heap, k) /\ heap.kernel[k].program = p
    <3>1. PICK k \in Kernels, n \in Nat \ {0} : n <= kernel[k].ref /\ kernel[k].program = p
      BY DEF ProgramTokens
    <3>2. kernel[k].ref > 0
      BY <1>2, <3>1, KernelFacts
    <3> QED BY <1>1, <3>1, <3>2 DEF Live
  <2>3. device # "closed"
    <3> SUFFICES ASSUME device = "closed"  PROVE FALSE
      OBVIOUS
    <3>1. heap.programArray = <<>> /\ ProgramsListed(heap)
      BY <1>3 DEF Inv, ClosingInv
    <3> QED BY <1>5, <3>1 DEF ProgramsListed, Range
  <2> QED BY <2>1, <2>2, <2>3
<1>6. ASSUME NEW d \in Datas, heap.data[d].ref > 0
      PROVE  \/ d \in DatasOf({"waiting", "flushed", "stuck"})
             \/ \E k \in Kernels : Live(heap, k) /\ heap.kernel[k].last = d
  <2>1. data[d].ref = One(IsLast(kernel, d)) + One(d = 0) + Cardinality(HoldersOf(held, d))
    BY <1>2 DEF DataCount
  <2>2. One(d = 0) = 0 /\ (~ IsLast(kernel, d) => One(IsLast(kernel, d)) = 0)
    BY DatasFacts DEF One
  <2>3. IsLast(kernel, d) \/ HoldersOf(held, d) # {}
    BY <1>1, <1>6, <2>1, <2>2, HoldersFacts
  <2>4. CASE IsLast(kernel, d)
    BY <1>1, <2>4 DEF IsLast, Live
  <2>5. CASE HoldersOf(held, d) # {}
    BY <1>1, <2>5 DEF HoldersOf, Held, PairsOf, DatasOf
  <2> QED BY <2>3, <2>4, <2>5
<1>7. ASSUME NEW x \in Programs \X Names, heap.info[x].parsed
      PROVE  \E k \in Kernels : Live(heap, k) /\ heap.kernel[k].program = x[1]
                                              /\ heap.kernel[k].name = x[2]
  <2>1. Namesakes(kernel, x) # {}
    BY <1>1, <1>2, <1>7, InfoUsers
  <2> QED BY <1>1, <2>1 DEF Namesakes, Live
<1> QED BY <1>4, <1>5, <1>6, <1>7 DEF DeadWhenUnused

\* While the device is open, what the application, a task or a kernel uses is
\* there: programs, kernels, kernel data and the strings of a kernel; one call
\* at a time, as above.
THEOREM NothingUsedIsDeleted == Spec => []AliveWhileUsed
<1>1. Inv => AliveWhileUsed
  BY InvAlive
<1> QED BY <1>1, ProgramsInvariant, PTL

\* Nothing outlives its last user, but what a failed task has left behind; one
\* call at a time, as above.
THEOREM NothingUnusedIsLeft == Spec => []DeadWhenUnused
<1>1. Inv => DeadWhenUnused
  BY InvDead
<1> QED BY <1>1, ProgramsInvariant, PTL

=============================================================================
