--------------------------- MODULE WindowsCallsProofs ---------------------------
(***************************************************************************)
(* Theorems about the operations that talk to COM and the Windows Runtime, *)
(* for every set of updates and packages and every limit on enumerations,  *)
(* errors and restore points: what an operation obtained it has given      *)
(* back when it returns, in an order that works; success is reported only  *)
(* for what Windows has done; and automatic restore points are an hour     *)
(* apart.                                                                  *)
(***************************************************************************)
EXTENDS WindowsCalls, SetTheorems, SequenceTheorems

-----------------------------------------------------------------------------
(* The books of an operation: what it holds is what its deferred calls will  *)
(* give back, and what it is just about to give back itself.                 *)

\* How often r is going to be given back by the deferred calls d.
Owed(d, r) == Cardinality({i \in DOMAIN d : d[i] = r})

\* What is held when d is deferred and extra will be given back explicitly.
Balance(o, d, extra) == [r \in Resource(o) |-> Owed(d, r) + (IF r \in extra THEN 1 ELSE 0)]

\* The thread is the first thing to be deferred and the apartment the second, and pointers
\* are deferred above them only.
Shape(o, d) ==
    \A i \in DOMAIN d : /\ d[i] = "thread" => i = 1
                        /\ d[i] = "apartment" => i = 2 /\ d[1] = "thread"
                        /\ d[i] \in Interface[o] => i > 2 /\ d[2] = "apartment"

\* The clean-up of thread and apartment has been deferred.
Entered(d) == Len(d) >= 2 /\ d[1] = "thread" /\ d[2] = "apartment"

\* The books of o balance, with extra to be given back explicitly.
Books(o, extra) ==
    /\ deferred[o] \in Seq(Resource(o) \cup {"call"})
    /\ Shape(o, deferred[o])
    /\ held[o] = Balance(o, deferred[o], extra)

\* There are books for every operation.
Tables == DOMAIN held = Operation /\ DOMAIN deferred = Operation

\* Only the books of o change.
OnlyBooks(o) == \A q \in Operation \ {o} : held'[q] = held[q] /\ deferred'[q] = deferred[q]

\* Thread and apartment are neither memory nor pointers, and "call" is nothing that is held.
LEMMA Kinds ==
  ASSUME NEW o \in Operation
  PROVE  /\ Resource(o) = Plain \cup Memory[o] \cup Interface[o]
         /\ Plain \cap (Memory[o] \cup Interface[o]) = {} /\ Memory[o] \cap Interface[o] = {}
         /\ "call" \notin Resource(o) /\ Plain = {"thread", "apartment"}
<1>1. CASE o = "create"
  BY <1>1 DEF Resource, Plain, Memory, Interface
<1>2. CASE o = "list"
  BY <1>2 DEF Resource, Plain, Memory, Interface
<1>3. CASE o = "update"
  BY <1>3 DEF Resource, Plain, Memory, Interface
<1>4. CASE o = "appx"
  BY <1>4 DEF Resource, Plain, Memory, Interface
<1> QED  BY <1>1, <1>2, <1>3, <1>4 DEF Operation

\* Nothing is owed at first, and each deferred release adds to what it releases.
LEMMA OwedBy ==
  ASSUME NEW S, NEW d \in Seq(S), NEW r
  PROVE  /\ Owed(<<>>, r) = 0 /\ Owed(d, r) \in Nat
         /\ \A a \in S : Owed(Append(d, a), r) = Owed(d, r) + (IF a = r THEN 1 ELSE 0)
         /\ Owed(d, r) > 0 <=> \E i \in DOMAIN d : d[i] = r
<1> DEFINE At(e) == {i \in DOMAIN e : e[i] = r}
<1>1. IsFiniteSet(At(d)) /\ DOMAIN d = 1..Len(d) /\ Len(d) \in Nat
  <2>1. DOMAIN d = 1..Len(d) /\ Len(d) \in Nat
    OBVIOUS
  <2>2. IsFiniteSet(1..Len(d))
    BY <2>1, FS_Interval
  <2>3. At(d) \in SUBSET (1..Len(d))
    BY <2>1
  <2> QED  BY <2>1, <2>2, <2>3, FS_Subset
<1>2. Owed(d, r) \in Nat /\ (Owed(d, r) = 0 <=> At(d) = {})
  BY <1>1, FS_CardinalityType, FS_EmptySet DEF Owed
<1>3. Owed(<<>>, r) = 0
  <2>1. At(<<>>) = {}
    OBVIOUS
  <2> QED  BY <2>1, FS_EmptySet DEF Owed
<1>4. ASSUME NEW a \in S
      PROVE  Owed(Append(d, a), r) = Owed(d, r) + (IF a = r THEN 1 ELSE 0)
  <2>1. PICK n \in Nat : n = Len(d) + 1
    BY <1>1
  <2>2. CASE a = r
    <3>1. At(Append(d, a)) = At(d) \cup {n} /\ n \notin At(d)
      BY <1>1, <2>1, <2>2
    <3>2. Cardinality(At(d) \cup {n}) = Cardinality(At(d)) + 1
      BY <1>1, <3>1, FS_AddElement
    <3> QED  BY <2>2, <3>1, <3>2 DEF Owed
  <2>3. CASE a # r
    <3>1. PICK e : e = Append(d, a)
      OBVIOUS
    <3>2. DOMAIN e = 1..n /\ \A i \in 1..n : e[i] = IF i = n THEN a ELSE d[i]
      BY <1>1, <2>1, <3>1
    <3>3. \A i : i \in DOMAIN e /\ e[i] = r <=> i \in DOMAIN d /\ d[i] = r
      BY <1>1, <2>1, <2>3, <3>2
    <3>4. At(e) = At(d)
      <4>1. \A i : i \in At(e) <=> i \in At(d)
        BY <3>3
      <4> HIDE DEF At
      <4> QED  BY <4>1
    <3>5. Owed(e, r) = Owed(d, r)
      BY <3>4 DEF Owed
    <3> QED  BY <1>2, <2>3, <3>1, <3>5
  <2> QED  BY <2>2, <2>3
<1> QED  BY <1>2, <1>3, <1>4

\* The deferred calls without the last one.
LEMMA WithoutLast ==
  ASSUME NEW S, NEW d \in Seq(S), d # <<>>
  PROVE  /\ Front(d) \in Seq(S) /\ Last(d) \in S /\ Last(d) = d[Len(d)] /\ Len(d) \in Nat \ {0}
         /\ d = Append(Front(d), Last(d))
         /\ Len(Front(d)) = Len(d) - 1 /\ \A i \in 1..(Len(d) - 1) : Front(d)[i] = d[i]
<1>1. Len(d) \in Nat \ {0} /\ Last(d) = d[Len(d)] /\ Front(d) = SubSeq(d, 1, Len(d) - 1)
  BY DEF Last, Front
<1>2. PICK n \in Nat : n = Len(d) - 1
  BY <1>1
<1>3. PICK f : f = SubSeq(d, 1, n)
  OBVIOUS
<1>4. f \in Seq(S) /\ Len(f) = n /\ \A i \in 1..n : f[i] = d[i]
  BY <1>1, <1>2, <1>3
<1>5. d = Append(f, d[Len(d)])
  <2>1. d \in Seq(S) /\ Append(f, d[Len(d)]) \in Seq(S)
    BY <1>1, <1>4
  <2>2. Len(Append(f, d[Len(d)])) = Len(d)
    BY <1>1, <1>2, <1>4
  <2>3. \A i \in 1..Len(d) : Append(f, d[Len(d)])[i] = d[i]
    BY <1>1, <1>2, <1>4
  <2> QED  BY <2>1, <2>2, <2>3
<1> QED  BY <1>1, <1>2, <1>3, <1>4, <1>5

-----------------------------------------------------------------------------
(* What the steps of ComObjects do to the books.                             *)

\* The empty stack has a shape, and a stack keeps it when its last release is run.
LEMMA ShapeOfPrefix ==
  ASSUME NEW o \in Operation, NEW d \in Seq(Resource(o) \cup {"call"})
  PROVE  /\ Shape(o, <<>>)
         /\ Shape(o, d) /\ d # <<>> => Shape(o, Front(d))
<1>1. Shape(o, <<>>)
  BY DEF Shape
<1>2. ASSUME Shape(o, d), d # <<>> PROVE Shape(o, Front(d))
  <2>1. PICK f, n : f = Front(d) /\ n = Len(d)
    OBVIOUS
  <2>2. /\ f \in Seq(Resource(o) \cup {"call"}) /\ n \in Nat \ {0} /\ Len(f) = n - 1
        /\ \A i \in 1..(n - 1) : f[i] = d[i]
    BY <1>2, <2>1, WithoutLast
  <2>3. DOMAIN f = 1..(n - 1) /\ DOMAIN d = 1..n
    BY <2>1, <2>2
  <2>4. ASSUME NEW i \in DOMAIN f
        PROVE  /\ f[i] = "thread" => i = 1
               /\ f[i] = "apartment" => i = 2 /\ f[1] = "thread"
               /\ f[i] \in Interface[o] => i > 2 /\ f[2] = "apartment"
    <3>1. i \in DOMAIN d /\ f[i] = d[i]
      BY <2>2, <2>3
    <3>2. i >= 2 => f[1] = d[1]
      BY <2>2, <2>3
    <3>3. i > 2 => f[2] = d[2]
      BY <2>2, <2>3
    <3> QED  BY <1>2, <2>3, <3>1, <3>2, <3>3 DEF Shape
  <2> QED  BY <2>1, <2>4 DEF Shape
<1> QED  BY <1>1, <1>2

\* A release is deferred: memory and the mark of a call anywhere, a pointer in an apartment.
LEMMA ShapeOfMore ==
  ASSUME NEW o \in Operation, NEW d \in Seq(Resource(o) \cup {"call"}), Shape(o, d),
         NEW a \in Memory[o] \cup Interface[o] \cup {"call"}, a \in Interface[o] => Entered(d)
  PROVE  /\ Append(d, a) \in Seq(Resource(o) \cup {"call"}) /\ Shape(o, Append(d, a))
         /\ Entered(d) => Entered(Append(d, a))
<1>1. PICK e, n : e = Append(d, a) /\ n = Len(d) + 1
  OBVIOUS
<1>2. a \in Resource(o) \cup {"call"} /\ a \notin {"thread", "apartment"}
  BY Kinds
<1>3. /\ e \in Seq(Resource(o) \cup {"call"}) /\ Len(e) = n /\ n \in Nat /\ DOMAIN e = 1..n
      /\ \A i \in 1..n : e[i] = IF i = n THEN a ELSE d[i]
      /\ DOMAIN d = 1..(n - 1) /\ Len(d) = n - 1 /\ n >= 1
  BY <1>1, <1>2
<1>4. ASSUME NEW i \in DOMAIN e
      PROVE  /\ e[i] = "thread" => i = 1
             /\ e[i] = "apartment" => i = 2 /\ e[1] = "thread"
             /\ e[i] \in Interface[o] => i > 2 /\ e[2] = "apartment"
  <2>1. CASE i = n
    BY <1>2, <1>3, <2>1 DEF Entered
  <2>2. CASE i # n
    <3>1. i \in DOMAIN d /\ e[i] = d[i]
      BY <1>3, <2>2
    <3>2. (i >= 2 => e[1] = d[1]) /\ (i > 2 => e[2] = d[2])
      BY <1>3, <2>2
    <3> QED  BY <1>3, <3>1, <3>2 DEF Shape
  <2> QED  BY <2>1, <2>2
<1>5. Entered(d) => Entered(e)
  BY <1>3 DEF Entered
<1> QED  BY <1>1, <1>3, <1>4, <1>5 DEF Shape

\* Books that balance hold something of a resource exactly if it is deferred or extra.
LEMMA Entry ==
  ASSUME NEW o \in Operation, NEW extra, Books(o, extra), NEW r \in Resource(o)
  PROVE  /\ DOMAIN held[o] = Resource(o) /\ held[o][r] \in Nat
         /\ held[o][r] = Owed(deferred[o], r) + (IF r \in extra THEN 1 ELSE 0)
         /\ Owed(deferred[o], r) \in Nat
         /\ held[o][r] > 0 <=> r \in extra \/ \E i \in DOMAIN deferred[o] : deferred[o][i] = r
<1>1. PICK d : d = deferred[o]
  OBVIOUS
<1>2. d \in Seq(Resource(o) \cup {"call"})
  BY <1>1 DEF Books
<1>3. Owed(d, r) \in Nat /\ (Owed(d, r) > 0 <=> \E i \in DOMAIN d : d[i] = r)
  BY <1>2, OwedBy
<1>4. DOMAIN held[o] = Resource(o) /\ held[o][r] = Owed(d, r) + (IF r \in extra THEN 1 ELSE 0)
  BY <1>1 DEF Books, Balance
<1> QED  BY <1>1, <1>3, <1>4

\* The books after a step, when what is held and what is deferred is known.
LEMMA NewBooks ==
  ASSUME Tables, NEW o \in Operation, NEW extra, NEW d \in Seq(Resource(o) \cup {"call"}),
         DOMAIN held' = DOMAIN held, DOMAIN deferred' = DOMAIN deferred, OnlyBooks(o),
         held'[o] = Balance(o, d, extra), deferred'[o] = d, Shape(o, d)
  PROVE  Tables' /\ Books(o, extra)'
BY DEF Tables, Books

\* What is deferred gets one more entry, and what is held gets what that entry releases.
LEMMA BalanceOfMore ==
  ASSUME NEW o \in Operation, NEW extra, NEW d \in Seq(Resource(o) \cup {"call"}),
         NEW a \in Resource(o) \cup {"call"}
  PROVE  /\ a \in Resource(o) =>
              Balance(o, Append(d, a), extra)
                = [Balance(o, d, extra) EXCEPT ![a] = @ + 1]
         /\ a \notin Resource(o) => Balance(o, Append(d, a), extra) = Balance(o, d, extra)
<1>1. \A r \in Resource(o) : /\ Owed(d, r) \in Nat
                             /\ Owed(Append(d, a), r) = Owed(d, r) + (IF a = r THEN 1 ELSE 0)
  <2>1. PICK S : S = Resource(o) \cup {"call"}
    OBVIOUS
  <2>2. d \in Seq(S) /\ a \in S
    BY <2>1
  <2> QED  BY <2>2, OwedBy
<1>2. PICK b : b = Balance(o, d, extra)
  OBVIOUS
<1>3. /\ DOMAIN b = Resource(o)
      /\ \A r \in Resource(o) : b[r] = Owed(d, r) + (IF r \in extra THEN 1 ELSE 0)
  BY <1>2 DEF Balance
<1>4. PICK c : c = Balance(o, Append(d, a), extra)
  OBVIOUS
<1>5. c = [r \in Resource(o) |-> Owed(Append(d, a), r) + (IF r \in extra THEN 1 ELSE 0)]
  BY <1>4 DEF Balance
<1>6. a \in Resource(o) => c = [b EXCEPT ![a] = @ + 1]
  <2>1. b = [r \in Resource(o) |-> b[r]]
    BY <1>2 DEF Balance
  <2> QED  BY <1>1, <1>3, <1>5, <2>1
<1>7. a \notin Resource(o) => c = b
  <2>1. b = [r \in Resource(o) |-> b[r]]
    BY <1>2 DEF Balance
  <2> QED  BY <1>1, <1>3, <1>5, <2>1
<1> QED  BY <1>2, <1>4, <1>6, <1>7

\* How often something of o is owed is a number.
LEMMA OwedNat ==
  ASSUME NEW o \in Operation, NEW d \in Seq(Resource(o) \cup {"call"}), NEW r
  PROVE  Owed(d, r) \in Nat
<1>1. PICK S : S = Resource(o) \cup {"call"}
  OBVIOUS
<1> QED  BY <1>1, OwedBy

\* defer
LEMMA ObtainBooks ==
  ASSUME Tables, NEW o \in Operation, NEW extra, Books(o, extra),
         NEW r \in Memory[o] \cup Interface[o], r \in Interface[o] => Entered(deferred[o]),
         Obtain(o, r)
  PROVE  /\ Tables' /\ Books(o, extra)' /\ OnlyBooks(o)
         /\ deferred'[o] = Append(deferred[o], r)
         /\ Entered(deferred[o]) => Entered(deferred'[o])
<1>1. PICK d, e : d = deferred[o] /\ e = Append(d, r)
  OBVIOUS
<1>2. d \in Seq(Resource(o) \cup {"call"}) /\ Shape(o, d) /\ r \in Resource(o)
  BY <1>1, Kinds DEF Books
<1>3. e \in Seq(Resource(o) \cup {"call"}) /\ Shape(o, e) /\ (Entered(d) => Entered(e))
  BY <1>1, <1>2, ShapeOfMore
<1>4. PICK h : h = Balance(o, e, extra)
  OBVIOUS
<1>5. h = [held[o] EXCEPT ![r] = @ + 1]
  BY <1>1, <1>2, <1>4, BalanceOfMore DEF Books
<1>6. /\ DOMAIN held' = DOMAIN held /\ DOMAIN deferred' = DOMAIN deferred /\ OnlyBooks(o)
      /\ held'[o] = h /\ deferred'[o] = e
  BY <1>1, <1>5 DEF Obtain, Tables, OnlyBooks
<1> QED  BY <1>1, <1>3, <1>4, <1>6, NewBooks

\* A function with deferred calls of its own is called.
LEMMA CallBooks ==
  ASSUME Tables, NEW o \in Operation, NEW extra, Books(o, extra), Call(o)
  PROVE  /\ Tables' /\ Books(o, extra)' /\ OnlyBooks(o)
         /\ deferred'[o] = Append(deferred[o], "call")
         /\ Entered(deferred[o]) => Entered(deferred'[o])
<1>1. PICK d, e : d = deferred[o] /\ e = Append(d, "call")
  OBVIOUS
<1>2. d \in Seq(Resource(o) \cup {"call"}) /\ Shape(o, d) /\ "call" \notin Resource(o)
      /\ "call" \notin Interface[o]
  BY <1>1, Kinds DEF Books
<1>3. e \in Seq(Resource(o) \cup {"call"}) /\ Shape(o, e) /\ (Entered(d) => Entered(e))
  BY <1>1, <1>2, ShapeOfMore
<1>4. held[o] = Balance(o, e, extra)
  BY <1>1, <1>2, BalanceOfMore DEF Books
<1>5. /\ DOMAIN held' = DOMAIN held /\ DOMAIN deferred' = DOMAIN deferred /\ OnlyBooks(o)
      /\ held'[o] = held[o] /\ deferred'[o] = e
  BY <1>1 DEF Call, Tables, OnlyBooks
<1> QED  BY <1>1, <1>3, <1>4, <1>5, NewBooks

\* Something is obtained that will be given back explicitly.
LEMMA TakeBooks ==
  ASSUME Tables, NEW o \in Operation, NEW extra, Books(o, extra),
         NEW r \in Resource(o), r \notin extra, Take(o, r)
  PROVE  Tables' /\ Books(o, extra \cup {r})' /\ OnlyBooks(o) /\ deferred'[o] = deferred[o]
<1>1. PICK d, h : d = deferred[o] /\ h = Balance(o, d, extra \cup {r})
  OBVIOUS
<1>2. d \in Seq(Resource(o) \cup {"call"}) /\ Shape(o, d)
  BY <1>1 DEF Books
<1>3. h = [held[o] EXCEPT ![r] = @ + 1]
  <2>1. PICK b : b = held[o]
    OBVIOUS
  <2>2. b = [q \in Resource(o) |-> Owed(d, q) + (IF q \in extra THEN 1 ELSE 0)]
    BY <1>1, <2>1 DEF Books, Balance
  <2>3. h = [q \in Resource(o) |-> Owed(d, q) + (IF q \in extra \cup {r} THEN 1 ELSE 0)]
    BY <1>1 DEF Balance
  <2>4. Owed(d, r) \in Nat
    BY <1>2, OwedNat
  <2> QED  BY <2>1, <2>2, <2>3, <2>4
<1>4. /\ DOMAIN held' = DOMAIN held /\ DOMAIN deferred' = DOMAIN deferred /\ OnlyBooks(o)
      /\ held'[o] = h /\ deferred'[o] = d
  BY <1>1, <1>3 DEF Take, Tables, OnlyBooks
<1>5. PICK more : more = extra \cup {r}
  OBVIOUS
<1> QED  BY <1>1, <1>2, <1>4, <1>5, NewBooks

\* It is given back.
LEMMA GiveBooks ==
  ASSUME Tables, NEW o \in Operation, NEW extra, NEW r \in Resource(o), r \notin extra,
         Books(o, extra \cup {r}), Give(o, r)
  PROVE  Tables' /\ Books(o, extra)' /\ OnlyBooks(o) /\ deferred'[o] = deferred[o]
<1>1. PICK d, h : d = deferred[o] /\ h = Balance(o, d, extra)
  OBVIOUS
<1>2. d \in Seq(Resource(o) \cup {"call"}) /\ Shape(o, d)
  BY <1>1 DEF Books
<1>3. h = [held[o] EXCEPT ![r] = @ - 1]
  <2>1. PICK b : b = held[o]
    OBVIOUS
  <2>2. b = [q \in Resource(o) |-> Owed(d, q) + (IF q \in extra \cup {r} THEN 1 ELSE 0)]
    BY <1>1, <2>1 DEF Books, Balance
  <2>3. h = [q \in Resource(o) |-> Owed(d, q) + (IF q \in extra THEN 1 ELSE 0)]
    BY <1>1 DEF Balance
  <2>4. Owed(d, r) \in Nat
    BY <1>2, OwedNat
  <2> QED  BY <2>1, <2>2, <2>3, <2>4
<1>4. /\ DOMAIN held' = DOMAIN held /\ DOMAIN deferred' = DOMAIN deferred /\ OnlyBooks(o)
      /\ held'[o] = h /\ deferred'[o] = d
  BY <1>1, <1>3 DEF Give, Tables, OnlyBooks
<1> QED  BY <1>1, <1>2, <1>4, NewBooks

\* The last deferred call runs; the clean-up of the apartment stays while something lies above it.
LEMMA RunBooks ==
  ASSUME Tables, NEW o \in Operation, NEW extra, Books(o, extra), RunDeferred(o)
  PROVE  /\ Tables' /\ Books(o, extra)' /\ OnlyBooks(o)
         /\ deferred[o] # <<>> /\ Last(deferred[o]) # "call"
         /\ deferred'[o] = Front(deferred[o])
<1>1. PICK d, e, a, b : /\ d = deferred[o] /\ e = Front(d) /\ a = Last(d)
                        /\ b = Balance(o, e, extra)
  OBVIOUS
<1>2. d # <<>> /\ a # "call" /\ d \in Seq(Resource(o) \cup {"call"}) /\ Shape(o, d)
  BY <1>1 DEF Books, RunDeferred, Unwinding
<1>3. e \in Seq(Resource(o) \cup {"call"}) /\ d = Append(e, a) /\ a \in Resource(o) /\ Shape(o, e)
  <2>1. PICK S : S = Resource(o) \cup {"call"}
    OBVIOUS
  <2>2. e \in Seq(S) /\ d = Append(e, a) /\ a \in S
    BY <1>1, <1>2, <2>1, WithoutLast
  <2> QED  BY <1>1, <1>2, <2>1, <2>2, ShapeOfPrefix
<1>4. held[o] = [b EXCEPT ![a] = @ + 1]
  BY <1>1, <1>3, BalanceOfMore DEF Books
<1>5. b = [r \in Resource(o) |-> b[r]] /\ b[a] \in Nat
  <2>1. PICK S : S = Resource(o) \cup {"call"}
    OBVIOUS
  <2>2. Owed(e, a) \in Nat
    BY <1>3, <2>1, OwedBy
  <2> QED  BY <1>1, <1>3, <2>2 DEF Balance
<1>6. [held[o] EXCEPT ![a] = @ - 1] = b
  BY <1>3, <1>4, <1>5
<1>7. /\ DOMAIN held' = DOMAIN held /\ DOMAIN deferred' = DOMAIN deferred /\ OnlyBooks(o)
      /\ held'[o] = b /\ deferred'[o] = e
  BY <1>1, <1>6 DEF RunDeferred, Tables, OnlyBooks
<1> QED  BY <1>1, <1>2, <1>3, <1>7, NewBooks

\* A function has returned: the mark of its call is the last that is left, or there is nothing.
LEMMA ReturnBooks ==
  ASSUME Tables, NEW o \in Operation, NEW extra, Books(o, extra), Returned(o)
  PROVE  /\ Tables' /\ Books(o, extra)' /\ OnlyBooks(o)
         /\ \/ deferred[o] = <<>> /\ deferred'[o] = <<>>
            \/ /\ deferred[o] # <<>> /\ Last(deferred[o]) = "call"
               /\ deferred'[o] = Front(deferred[o])
<1>1. PICK d : d = deferred[o]
  OBVIOUS
<1>2. d \in Seq(Resource(o) \cup {"call"}) /\ Shape(o, d) /\ (d # <<>> => Last(d) = "call")
  BY <1>1 DEF Books, Returned, Unwinding
<1>3. CASE d = <<>>
  <2>1. /\ DOMAIN held' = DOMAIN held /\ DOMAIN deferred' = DOMAIN deferred /\ OnlyBooks(o)
        /\ held'[o] = held[o] /\ deferred'[o] = d
    BY <1>1, <1>3 DEF Returned, Tables, OnlyBooks
  <2>2. held[o] = Balance(o, d, extra)
    BY <1>1 DEF Books
  <2> QED  BY <1>1, <1>2, <1>3, <2>1, <2>2, NewBooks
<1>4. CASE d # <<>>
  <2>1. PICK e : e = Front(d)
    OBVIOUS
  <2>2. e \in Seq(Resource(o) \cup {"call"}) /\ d = Append(e, "call") /\ Shape(o, e)
    <3>1. PICK S : S = Resource(o) \cup {"call"}
      OBVIOUS
    <3>2. e \in Seq(S) /\ d = Append(e, Last(d))
      BY <1>2, <1>4, <2>1, <3>1, WithoutLast
    <3> QED  BY <1>2, <1>4, <2>1, <3>1, <3>2, ShapeOfPrefix
  <2>3. held[o] = Balance(o, e, extra)
    BY <1>1, <2>2, BalanceOfMore, Kinds DEF Books
  <2>4. /\ DOMAIN held' = DOMAIN held /\ DOMAIN deferred' = DOMAIN deferred /\ OnlyBooks(o)
        /\ held'[o] = held[o] /\ deferred'[o] = e
    BY <1>1, <1>4, <2>1 DEF Returned, Tables, OnlyBooks
  <2> QED  BY <1>1, <1>2, <1>4, <2>1, <2>2, <2>3, <2>4, NewBooks
<1> QED  BY <1>3, <1>4

\* Two more entries of a stack, one by one.
LEMMA TwoMore ==
  ASSUME NEW S, NEW d \in Seq(S), NEW a, NEW b
  PROVE  d \o <<a, b>> = Append(Append(d, a), b)
<1>1. PICK T : T = S \cup {a, b}
  OBVIOUS
<1>2. d \in Seq(T) /\ a \in T /\ b \in T
  BY <1>1
<1>3. PICK e, f, n : e = d \o <<a, b>> /\ f = Append(Append(d, a), b) /\ n = Len(d)
  OBVIOUS
<1>4. e \in Seq(T) /\ Len(e) = n + 2 /\ n \in Nat
      /\ \A i \in 1..(n + 2) : e[i] = IF i <= n THEN d[i] ELSE IF i = n + 1 THEN a ELSE b
  BY <1>2, <1>3
<1>5. f \in Seq(T) /\ Len(f) = n + 2
      /\ \A i \in 1..(n + 2) : f[i] = IF i <= n THEN d[i] ELSE IF i = n + 1 THEN a ELSE b
  <2>1. PICK g : g = Append(d, a)
    OBVIOUS
  <2>2. g \in Seq(T) /\ Len(g) = n + 1 /\ f = Append(g, b)
        /\ \A i \in 1..(n + 1) : g[i] = IF i <= n THEN d[i] ELSE a
    BY <1>2, <1>3, <1>4, <2>1
  <2> QED  BY <1>2, <1>4, <2>2
<1>6. e = f
  BY <1>4, <1>5
<1> QED  BY <1>3, <1>6

\* One more deferred release.
LEMMA OwedMore ==
  ASSUME NEW S, NEW d \in Seq(S), NEW a \in S, NEW r
  PROVE  Owed(Append(d, a), r) = Owed(d, r) + (IF a = r THEN 1 ELSE 0)
BY OwedBy

\* Thread and apartment alone: nobody has deferred their clean-up yet, or somebody has.
LEMMA BalanceOfPlain ==
  ASSUME NEW o \in Operation
  PROVE  LET b == Balance(o, <<>>, {})
             c == Balance(o, <<>>, Plain)
             e == <<"thread", "apartment">>
         IN  /\ c = [b EXCEPT !["thread"] = @ + 1, !["apartment"] = @ + 1]
             /\ b = [c EXCEPT !["thread"] = @ - 1, !["apartment"] = @ - 1]
             /\ e \in Seq(Resource(o) \cup {"call"}) /\ Shape(o, e) /\ Entered(e)
             /\ Balance(o, e, {}) = c
<1> DEFINE e == <<"thread", "apartment">>
           S == Resource(o) \cup {"call"}
<1>1. /\ "thread" \in Resource(o) /\ "apartment" \in Resource(o) /\ Plain = {"thread", "apartment"}
      /\ Interface[o] \cap Plain = {}
  BY Kinds
<1>2. PICK f : f = Append(<<>>, "thread")
  OBVIOUS
<1>3. <<>> \in Seq(S) /\ f \in Seq(S) /\ "thread" \in S /\ "apartment" \in S
  BY <1>1, <1>2
<1>4. e = Append(f, "apartment")
  BY <1>2
<1>5. e \in Seq(S) /\ Len(e) = 2 /\ DOMAIN e = 1..2 /\ e[1] = "thread" /\ e[2] = "apartment"
  BY <1>3
<1>6. \A r \in Resource(o) : Owed(e, r) = (IF r \in Plain THEN 1 ELSE 0) /\ Owed(<<>>, r) = 0
  <2> SUFFICES ASSUME NEW r \in Resource(o)
               PROVE  Owed(e, r) = (IF r \in Plain THEN 1 ELSE 0) /\ Owed(<<>>, r) = 0
    OBVIOUS
  <2>1. PICK z, t, a : z = <<>> /\ t = "thread" /\ a = "apartment"
    OBVIOUS
  <2>2. PICK T : z \in Seq(T) /\ f \in Seq(T) /\ t \in T /\ a \in T
    BY <1>3, <2>1
  <2>3. Owed(z, r) = 0
    BY <2>1, <2>2, OwedBy
  <2>4. Owed(Append(z, t), r) = Owed(z, r) + (IF t = r THEN 1 ELSE 0)
    BY <2>2, OwedMore
  <2>5. Owed(Append(f, a), r) = Owed(f, r) + (IF a = r THEN 1 ELSE 0)
    BY <2>2, OwedMore
  <2>6. Append(z, t) = f /\ Append(f, a) = e
    BY <1>2, <1>4, <2>1
  <2>7. Owed(e, r) = (IF t = r THEN 1 ELSE 0) + (IF a = r THEN 1 ELSE 0)
    <3>1. PICK x, y : x = Owed(f, r) /\ y = Owed(e, r)
      OBVIOUS
    <3>2. x = 0 + (IF t = r THEN 1 ELSE 0)
      BY <2>3, <2>4, <2>6, <3>1
    <3>3. y = x + (IF a = r THEN 1 ELSE 0)
      BY <2>5, <2>6, <3>1
    <3> QED  BY <3>1, <3>2, <3>3
  <2>8. Owed(<<>>, r) = 0
    BY <2>1, <2>3
  <2> HIDE DEF e
  <2> QED  BY <1>1, <2>1, <2>7, <2>8
<1>7. PICK b, c : b = Balance(o, <<>>, {}) /\ c = Balance(o, <<>>, Plain)
  OBVIOUS
<1>8. b = [r \in Resource(o) |-> 0]
  BY <1>6, <1>7 DEF Balance
<1>9. c = [r \in Resource(o) |-> IF r \in Plain THEN 1 ELSE 0]
  BY <1>6, <1>7 DEF Balance
<1>10. Balance(o, e, {}) = c
  BY <1>6, <1>9 DEF Balance
<1>11. c = [b EXCEPT !["thread"] = @ + 1, !["apartment"] = @ + 1]
  BY <1>1, <1>8, <1>9
<1>12. b = [c EXCEPT !["thread"] = @ - 1, !["apartment"] = @ - 1]
  BY <1>1, <1>8, <1>9
<1>13. Shape(o, e) /\ Entered(e)
  BY <1>1, <1>5 DEF Shape, Entered
<1> QED  BY <1>5, <1>7, <1>10, <1>11, <1>12, <1>13

\* The thread is pinned and enters the apartment.
LEMMA TakeApartmentBooks ==
  ASSUME Tables, NEW o \in Operation, Books(o, {}), deferred[o] = <<>>, TakeApartment(o)
  PROVE  Tables' /\ Books(o, Plain)' /\ OnlyBooks(o) /\ deferred'[o] = <<>>
<1>1. PICK h : h = Balance(o, <<>>, Plain)
  OBVIOUS
<1>2. held[o] = Balance(o, <<>>, {})
  BY DEF Books
<1>3. h = [held[o] EXCEPT !["thread"] = @ + 1, !["apartment"] = @ + 1]
  BY <1>1, <1>2, BalanceOfPlain
<1>4. /\ DOMAIN held' = DOMAIN held /\ DOMAIN deferred' = DOMAIN deferred /\ OnlyBooks(o)
      /\ held'[o] = [held[o] EXCEPT !["thread"] = @ + 1, !["apartment"] = @ + 1]
      /\ deferred'[o] = <<>>
  BY DEF TakeApartment, Tables, OnlyBooks
<1>5. Shape(o, <<>>) /\ <<>> \in Seq(Resource(o) \cup {"call"})
  BY DEF Shape
<1> QED  BY <1>1, <1>3, <1>4, <1>5, NewBooks

\* It leaves the apartment at once.
LEMMA GiveApartmentBooks ==
  ASSUME Tables, NEW o \in Operation, Books(o, Plain), deferred[o] = <<>>, GiveApartment(o)
  PROVE  Tables' /\ Books(o, {})' /\ OnlyBooks(o) /\ deferred'[o] = <<>>
<1>1. PICK h : h = Balance(o, <<>>, {})
  OBVIOUS
<1>2. held[o] = Balance(o, <<>>, Plain)
  BY DEF Books
<1>3. h = [held[o] EXCEPT !["thread"] = @ - 1, !["apartment"] = @ - 1]
  BY <1>1, <1>2, BalanceOfPlain
<1>4. /\ DOMAIN held' = DOMAIN held /\ DOMAIN deferred' = DOMAIN deferred /\ OnlyBooks(o)
      /\ held'[o] = [held[o] EXCEPT !["thread"] = @ - 1, !["apartment"] = @ - 1]
      /\ deferred'[o] = <<>>
  BY DEF GiveApartment, Tables, OnlyBooks
<1>5. Shape(o, <<>>) /\ <<>> \in Seq(Resource(o) \cup {"call"})
  BY DEF Shape
<1> QED  BY <1>1, <1>3, <1>4, <1>5, NewBooks

\* Its clean-up is deferred.
LEMMA DeferApartmentBooks ==
  ASSUME Tables, NEW o \in Operation, Books(o, Plain), deferred[o] = <<>>, DeferApartment(o)
  PROVE  /\ Tables' /\ Books(o, {})' /\ OnlyBooks(o)
         /\ deferred'[o] = <<"thread", "apartment">> /\ Entered(deferred'[o])
<1>1. PICK e : e = <<"thread", "apartment">>
  OBVIOUS
<1>2. held[o] = Balance(o, <<>>, Plain)
  BY DEF Books
<1>3. /\ e \in Seq(Resource(o) \cup {"call"}) /\ Shape(o, e) /\ Entered(e)
      /\ Balance(o, e, {}) = Balance(o, <<>>, Plain)
  BY <1>1, BalanceOfPlain
<1>4. <<>> \o e = e
  BY <1>1
<1>5. /\ DOMAIN held' = DOMAIN held /\ DOMAIN deferred' = DOMAIN deferred /\ OnlyBooks(o)
      /\ held'[o] = held[o] /\ deferred'[o] = e
  BY <1>1, <1>4 DEF DeferApartment, Tables, OnlyBooks
<1>6. held'[o] = Balance(o, e, {})
  BY <1>2, <1>3, <1>5
<1> QED  BY <1>1, <1>3, <1>5, <1>6, NewBooks

\* connect defers the clean-up of the apartment together with the release of the session.
LEMMA ConnectBooks ==
  ASSUME Tables, Books("update", Plain), deferred["update"] = <<>>,
         held' = [held EXCEPT !["update"]["session"] = @ + 1],
         deferred' = [deferred EXCEPT !["update"] = @ \o <<"thread", "apartment", "session">>]
  PROVE  Tables' /\ Books("update", {})' /\ OnlyBooks("update") /\ Entered(deferred'["update"])
<1>1. PICK o, s, e, f : /\ o = "update" /\ s = "session" /\ e = <<"thread", "apartment">>
                        /\ f = Append(e, s)
  OBVIOUS
<1>2. o \in Operation /\ s \in Interface[o]
  BY <1>1 DEF Operation, Interface
<1>3. s \in Resource(o) /\ s \in Memory[o] \cup Interface[o] \cup {"call"}
  BY <1>2, Kinds
<1>4. /\ e \in Seq(Resource(o) \cup {"call"}) /\ Shape(o, e) /\ Entered(e)
      /\ Balance(o, e, {}) = Balance(o, <<>>, Plain)
  BY <1>1, <1>2, BalanceOfPlain
<1>5. f \in Seq(Resource(o) \cup {"call"}) /\ Shape(o, f) /\ Entered(f)
  BY <1>1, <1>2, <1>3, <1>4, ShapeOfMore
<1>6. Balance(o, f, {}) = [Balance(o, e, {}) EXCEPT ![s] = @ + 1]
  <2>1. f = Append(e, s) /\ e \in Seq(Resource(o) \cup {"call"}) /\ s \in Resource(o)
    BY <1>1, <1>3, <1>4
  <2>2. PICK none : none = {}
    OBVIOUS
  <2>3. Balance(o, f, none) = [Balance(o, e, none) EXCEPT ![s] = @ + 1]
    BY <1>2, <2>1, BalanceOfMore
  <2> QED  BY <2>2, <2>3
<1>7. held[o] = Balance(o, e, {})
  BY <1>1, <1>4 DEF Books
<1>8. <<>> \o <<"thread", "apartment", "session">> = f
  BY <1>1
<1>9. /\ DOMAIN held' = DOMAIN held /\ DOMAIN deferred' = DOMAIN deferred /\ OnlyBooks(o)
      /\ held'[o] = [held[o] EXCEPT ![s] = @ + 1] /\ deferred'[o] = f
  BY <1>1, <1>2, <1>8 DEF Tables, OnlyBooks
<1>10. held'[o] = Balance(o, f, {})
  BY <1>6, <1>7, <1>9
<1>11. Tables' /\ Books(o, {})'
  BY <1>2, <1>5, <1>9, <1>10, NewBooks
<1> QED  BY <1>1, <1>5, <1>9, <1>11

\* The runtime is entered and the clean-up deferred in one.
LEMMA EnterRuntimeBooks ==
  ASSUME Tables, Books("appx", {}), deferred["appx"] = <<>>,
         held' = [held EXCEPT !["appx"]["thread"] = @ + 1, !["appx"]["apartment"] = @ + 1],
         deferred' = [deferred EXCEPT !["appx"] = @ \o <<"thread", "apartment">>]
  PROVE  /\ Tables' /\ Books("appx", {})' /\ OnlyBooks("appx")
         /\ deferred'["appx"] = <<"thread", "apartment">> /\ Entered(deferred'["appx"])
<1>1. PICK o, e : o = "appx" /\ e = <<"thread", "apartment">>
  OBVIOUS
<1>2. o \in Operation
  BY <1>1 DEF Operation
<1>3. /\ e \in Seq(Resource(o) \cup {"call"}) /\ Shape(o, e) /\ Entered(e)
      /\ Balance(o, e, {}) = [Balance(o, <<>>, {}) EXCEPT !["thread"] = @ + 1,
                                                          !["apartment"] = @ + 1]
  BY <1>1, <1>2, BalanceOfPlain
<1>4. held[o] = Balance(o, <<>>, {})
  BY <1>1 DEF Books
<1>5. <<>> \o e = e
  BY <1>1
<1>6. /\ DOMAIN held' = DOMAIN held /\ DOMAIN deferred' = DOMAIN deferred /\ OnlyBooks(o)
      /\ held'[o] = [held[o] EXCEPT !["thread"] = @ + 1, !["apartment"] = @ + 1]
      /\ deferred'[o] = e
  BY <1>1, <1>2, <1>5 DEF Tables, OnlyBooks
<1>7. held'[o] = Balance(o, e, {})
  BY <1>3, <1>4, <1>6
<1>8. Tables' /\ Books(o, {})'
  BY <1>2, <1>3, <1>6, <1>7, NewBooks
<1> QED  BY <1>1, <1>3, <1>6, <1>8

\* A function is called that begins with a string of its own.
LEMMA CallWithBooks ==
  ASSUME Tables, NEW o \in Operation, NEW extra, Books(o, extra), Entered(deferred[o]), NEW s \in Memory[o],
         held' = [held EXCEPT ![o][s] = @ + 1],
         deferred' = [deferred EXCEPT ![o] = @ \o <<"call", s>>]
  PROVE  /\ Tables' /\ Books(o, extra)' /\ OnlyBooks(o) /\ Entered(deferred'[o])
         /\ deferred'[o] = Append(Append(deferred[o], "call"), s)
<1>1. PICK d, e, f : d = deferred[o] /\ e = Append(d, "call") /\ f = Append(e, s)
  OBVIOUS
<1>2. d \in Seq(Resource(o) \cup {"call"}) /\ Shape(o, d) /\ Entered(d)
  BY <1>1 DEF Books
<1>3. /\ s \in Resource(o) /\ s \notin Interface[o] /\ "call" \notin Resource(o)
      /\ "call" \notin Interface[o]
  BY Kinds
<1>4. e \in Seq(Resource(o) \cup {"call"}) /\ Shape(o, e) /\ Entered(e)
  BY <1>1, <1>2, <1>3, ShapeOfMore
<1>5. f \in Seq(Resource(o) \cup {"call"}) /\ Shape(o, f) /\ Entered(f)
  BY <1>1, <1>3, <1>4, ShapeOfMore
<1>6. Balance(o, e, extra) = Balance(o, d, extra)
  <2>1. PICK c : c = "call"
    OBVIOUS
  <2>2. /\ e = Append(d, c) /\ d \in Seq(Resource(o) \cup {"call"})
        /\ c \in Resource(o) \cup {"call"} /\ c \notin Resource(o)
    BY <1>1, <1>2, <1>3, <2>1
  <2> QED  BY <2>2, BalanceOfMore
<1>7. Balance(o, f, extra) = [Balance(o, e, extra) EXCEPT ![s] = @ + 1]
  <2>1. f = Append(e, s) /\ e \in Seq(Resource(o) \cup {"call"}) /\ s \in Resource(o)
    BY <1>1, <1>3, <1>4
  <2> QED  BY <2>1, BalanceOfMore
<1>8. d \o <<"call", s>> = f
  BY <1>1, <1>2, TwoMore
<1>9. /\ DOMAIN held' = DOMAIN held /\ DOMAIN deferred' = DOMAIN deferred /\ OnlyBooks(o)
      /\ held'[o] = [held[o] EXCEPT ![s] = @ + 1] /\ deferred'[o] = f
  BY <1>1, <1>8 DEF Tables, OnlyBooks
<1>10. held'[o] = Balance(o, f, extra)
  BY <1>1, <1>6, <1>7, <1>9 DEF Books
<1>11. Tables' /\ Books(o, extra)'
  BY <1>5, <1>9, <1>10, NewBooks
<1> QED  BY <1>1, <1>5, <1>9, <1>11

\* An identity has been read: it and its package are given back.
LEMMA GiveIdentityBooks ==
  ASSUME Tables, Books("appx", {"pkg", "id"}), UNCHANGED deferred,
         held' = [held EXCEPT !["appx"]["id"] = @ - 1, !["appx"]["pkg"] = @ - 1]
  PROVE  /\ Tables' /\ Books("appx", {})' /\ OnlyBooks("appx")
         /\ deferred'["appx"] = deferred["appx"]
<1>1. PICK o, d, h : o = "appx" /\ d = deferred[o] /\ h = Balance(o, d, {})
  OBVIOUS
<1>2. o \in Operation /\ {"id", "pkg"} \subseteq Interface[o]
  BY <1>1 DEF Operation, Interface
<1>3. /\ d \in Seq(Resource(o) \cup {"call"}) /\ Shape(o, d)
      /\ "id" \in Resource(o) /\ "pkg" \in Resource(o)
  BY <1>1, <1>2, Kinds DEF Books
<1>4. h = [held[o] EXCEPT !["id"] = @ - 1, !["pkg"] = @ - 1]
  <2>1. PICK b : b = held[o]
    OBVIOUS
  <2>2. b = [q \in Resource(o) |-> Owed(d, q) + (IF q \in {"pkg", "id"} THEN 1 ELSE 0)]
    BY <1>1, <2>1 DEF Books, Balance
  <2>3. h = [q \in Resource(o) |-> Owed(d, q) + 0]
    BY <1>1 DEF Balance
  <2>4. Owed(d, "id") \in Nat /\ Owed(d, "pkg") \in Nat
    BY <1>2, <1>3, OwedNat
  <2> QED  BY <1>3, <2>1, <2>2, <2>3, <2>4
<1>5. /\ DOMAIN held' = DOMAIN held /\ DOMAIN deferred' = DOMAIN deferred /\ OnlyBooks(o)
      /\ held'[o] = h /\ deferred'[o] = d
  BY <1>1, <1>2, <1>4 DEF Tables, OnlyBooks
<1>6. Tables' /\ Books(o, {})'
  BY <1>1, <1>2, <1>3, <1>5, NewBooks
<1> QED  BY <1>1, <1>5, <1>6

\* Nothing happens to the books.
LEMMA SameBooks ==
  ASSUME NEW o, NEW extra, UNCHANGED comVars
  PROVE  /\ Tables' <=> Tables
         /\ Books(o, extra)' <=> Books(o, extra)
         /\ OnlyBooks(o) /\ deferred'[o] = deferred[o]
BY DEF comVars, Tables, Books, OnlyBooks

\* Books of other operations stay as they are.
LEMMA OtherBooks ==
  ASSUME NEW o, OnlyBooks(o), NEW q \in Operation \ {o}, NEW extra
  PROVE  (Books(q, extra)' <=> Books(q, extra)) /\ deferred'[q] = deferred[q]
BY DEF OnlyBooks, Books

-----------------------------------------------------------------------------
(* The invariants: what an operation is about to give back explicitly at     *)
(* each place, what it has deferred there, and what it knows.                *)

NoCallIn(d) == \A i \in DOMAIN d : d[i] # "call"

\* Create and list: the apartment while security is configured, the row that is read.
RpExtra(o) == IF rp[o].at \in {"security", "sids", "configure", "configured"} THEN Plain
              ELSE IF rp[o].at = "row" /\ o = "list" THEN {"obj"} ELSE {}

\* The function inside the once has freed its buffers when it returns, and only then are
\* thread and apartment deferred.
RpStack(o) ==
    LET d == deferred[o]
        at == rp[o].at
    IN  /\ at \in {"idle", "enter", "security"} => d = <<>>
        /\ at \in {"sids", "configure", "configured"} =>
              /\ d # <<>> /\ d[1] = "call"
              /\ \A i \in DOMAIN d : i > 1 => d[i] \in Memory[o]
        /\ at \in {"begin", "end", "acquire", "rows", "row"} => Entered(d)
        /\ at \notin {"sids", "configure", "configured"} => NoCallIn(d)

RpDesk(o) == Books(o, RpExtra(o)) /\ RpStack(o)
RpBooks == \A o \in RpOp : RpDesk(o)

\* A call of the update client.
UcExtra == IF client.at = "connect" THEN Plain
           ELSE IF client.at = "item" THEN {"upd"}
           ELSE IF client.at = "result" THEN {"updateResult"} ELSE {}

UcStack == /\ client.at \in {"idle", "enter", "connect"} => deferred[Me] = <<>>
           /\ client.at \notin {"idle", "enter", "connect", "leave"} => Entered(deferred[Me])
           /\ NoCallIn(deferred[Me])

UcBooks == Books(Me, UcExtra) /\ UcStack

\* A removal of packages.
ArExtra == IF removal.at = "id" THEN {"pkg"}
           ELSE IF removal.at = "read" THEN {"pkg", "id"}
           ELSE IF removal.at = "read result" THEN {"deployment"} ELSE {}

\* A function that was called is on the stack, above the apartment.
Inside(d) == \E i \in DOMAIN d : i > 2 /\ d[i] = "call"

InCall ==
    \/ removal.at = "enumerate" /\ removal.n > 0
    \/ removal.at \in {"has", "id", "read", "found", "operation", "info", "poll", "result",
                       "read result", "end"}

\* An operation is to be closed.
NotRunning(d) == \A i \in DOMAIN d : d[i] # "running"
RunningLast(d) == \A i \in DOMAIN d : d[i] = "running" => \A j \in DOMAIN d : j > i => d[j] # "call"

ArStack ==
    LET d == deferred[Self]
        at == removal.at
    IN  /\ at \in {"idle", "enter"} => d = <<>>
        /\ at \notin {"idle", "enter", "leave"} => Entered(d)
        /\ InCall => Inside(d)
        /\ \/ NotRunning(d)
           \/ at \in {"result", "read result", "end"} /\ async.status \in Ended
        /\ RunningLast(d)

ArBooks == Books(Self, ArExtra) /\ ArStack

\* The books of all operations.
AllBooks == Tables /\ RpBooks /\ UcBooks /\ ArBooks

-----------------------------------------------------------------------------

RpRecord == [at : {"idle", "enter", "security", "sids", "configure", "configured",
                   "begin", "end", "acquire", "rows", "row", "leave"},
             sids : 0..SidTypes, outcome : {"unset", "ok", "failed"}, number : 0..MaxPoints,
             err : BOOLEAN, n : 0..(MaxRestorePoints + 6), feed : SUBSET Point,
             runaway : BOOLEAN, row : 0..MaxPoints, rows : Seq(Point), bad : SUBSET Point,
             errs : 0..MaxRowErrors, dropped : BOOLEAN, snapshot : SUBSET Point]

RpTypes ==
    /\ points \in Seq(BOOLEAN) /\ Len(points) <= MaxPoints
    /\ policy \in BOOLEAN /\ security \in {"unset", "ok", "failed"} /\ once \subseteq RpOp
    /\ rp \in [RpOp -> RpRecord]
    /\ created \in [at : {"none", "returned"}, err : BOOLEAN, number : 0..MaxPoints]
    /\ listed \in [at : {"none", "returned"}, err : BOOLEAN, rows : Seq(Point),
                   bad : SUBSET Point, snapshot : SUBSET Point]

\* The policy has been set where it is said to be, by one operation.
Secured ==
    /\ security = "ok" => policy
    /\ \E o \in RpOp : once \subseteq {o}
    /\ \A o \in RpOp : rp[o].at \in {"begin", "end", "acquire", "rows", "row"}
                       \/ rp[o].outcome = "ok" => policy

\* A creation in progress: the point it has begun is not ended, and when it leaves it has
\* told the truth.
Creation ==
    LET op == rp["create"]
    IN  /\ op.at # "idle" => created = NotCreated
        /\ op.at \in {"enter", "security", "sids", "configure", "configured", "begin"} =>
              Len(points) < MaxPoints
        /\ op.at \notin {"end", "leave"} => op.number = 0
        /\ op.at # "leave" => ~op.err
        /\ op.at = "end" => op.number \in DOMAIN points /\ ~points[op.number]
        /\ op.at = "leave" => IF op.number = 0 THEN op.err
                              ELSE op.number \in DOMAIN points /\ (points[op.number] <=> ~op.err)

\* The rows of a listing are in one of four places.
RowsMatch(op) ==
    LET read == Range(op.rows)
        row == IF op.at = "row" THEN {op.row} ELSE {}
    IN  /\ op.snapshot = op.feed \cup read \cup op.bad \cup row
        /\ op.feed \cap (read \cup op.bad \cup row) = {}
        /\ read \cap (op.bad \cup row) = {} /\ op.bad \cap row = {}
        /\ IsInjective(op.rows)

\* What a listing is going to return.
ListedWell(op) ==
    /\ \A i, j \in DOMAIN op.rows : i < j => op.rows[i] > op.rows[j]
    /\ op.rows # <<>> => Range(op.rows) = op.snapshot \ op.bad
    /\ ~op.err => Range(op.rows) = op.snapshot

Listing ==
    LET op == rp["list"]
    IN  /\ op.at \in {"idle", "enter", "security", "sids", "configure", "configured", "acquire"} =>
              op.rows = <<>> /\ op.bad = {} /\ op.errs = 0 /\ ~op.dropped
        /\ op.at \notin {"acquire", "rows", "row", "leave"} => op.n = 0
        /\ op.at = "acquire" => op.n <= 5
        /\ op.at = "rows" => op.n <= MaxRestorePoints
        /\ op.at = "row" => op.n < MaxRestorePoints /\ op.row \in Point
        /\ op.at \in {"rows", "row"} =>
              /\ op.bad # {} => op.errs > 0 \/ op.dropped
              /\ ~op.runaway => RowsMatch(op)
        /\ op.at = "leave" => ListedWell(op)

RpInv == RpTypes /\ Secured /\ Creation /\ Listing /\ CreatedTruthful /\ ListedTruthful

\* A creation on behalf of somebody: it is the only one, its reply is still to come, and what
\* has succeeded lies before it.
ThrottleInv ==
    /\ ThrottleTypeOK
    /\ asker.at = "creating" =>
          /\ reply = NoReply /\ asker.since <= now
          /\ rp["create"].at = "idle" => created.at = "returned"
          /\ \A s \in successes : s.end <= asker.since
    /\ session = "throttle" /\ rp["create"].at # "idle" => asker.at = "creating"
    /\ session # "throttle" => asker = Nobody /\ reply = NoReply
    /\ \A s \in successes : s.since <= s.end /\ s.end <= now
    /\ successes # {} => last # {}
    /\ \A t \in last : /\ \A s \in successes : s.since <= t
                       /\ \E s \in successes : t <= s.end
    /\ Throttled

-----------------------------------------------------------------------------

UcRecord ==
    [at : {"idle", "enter", "connect", "obtain", "items", "item", "downloader", "download",
           "results", "result", "install", "leave"},
     kind : Kind, n : 0..5, found : SUBSET Update, code : {"succeeded", "other"},
     todo : SUBSET Update, now : SUBSET Update, phase : {"download", "install"},
     list : SUBSET Update, errs : 0..MaxResultErrors, truncated : BOOLEAN, err : BOOLEAN]

UcTypes ==
    /\ updates \in [Update -> {"missing", "downloaded", "installed"}]
    /\ client \in UcRecord
    /\ answer \in [kind : Kind \cup {"none"}, err : BOOLEAN, asked : SUBSET Update,
                   list : SUBSET Update]

\* The search of a call has been made.
Searched == client.n >= (IF client.kind = "install" THEN 4 ELSE 3)

\* The updates whose results a collection has looked at.
Looked == client.found \ (client.todo \cup client.now)

Search ==
    /\ client.at \in {"enter", "connect"} => client.n = 0 /\ client.list = {}
    /\ client.at = "obtain" => client.n <= Len(Obtains(client.kind)) /\ client.list = {}
    /\ client.at \in {"enter", "connect", "obtain"} => client.now = {}
    /\ client.at \in {"items", "item"} =>
          /\ client.kind # "install"
          /\ client.found = client.list \cup client.todo \cup client.now
    /\ client.at = "items" => client.now = {}
    /\ (client.at = "obtain" /\ Searched) \/ client.at \in {"items", "item", "downloader"} =>
          client.found = Matching(client.kind)
    /\ client.at = "leave" /\ ~client.err /\ client.kind # "install" =>
          client.list = Matching(client.kind)

Installation ==
    /\ client.at \in {"downloader", "download", "results", "result", "install"} =>
          client.kind = "install" /\ Missing \subseteq client.found
    /\ client.at \in {"downloader", "download", "install", "results"} => client.now = {}
    /\ client.at = "install" => \A u \in client.found : updates[u] # "missing"
    /\ client.at \in {"results", "result"} /\ client.errs = 0 /\ ~client.truncated =>
          \A u \in Looked : Reached(u)
    /\ client.at = "leave" /\ ~client.err /\ client.kind = "install" => Missing = {}

UcInv == /\ UcTypes /\ Search /\ Installation
         /\ client.at # "idle" => answer = NoAnswer
         /\ UpdatesTruthful

-----------------------------------------------------------------------------

ArRecord ==
    [at : {"idle", "enter", "obtain", "enumerate", "has", "id", "read", "found", "names",
           "operation", "info", "poll", "result", "read result", "end", "leave"},
     n : 0..(MaxPackages + 2), feed : SUBSET AppxPackage, snapshot : SUBSET AppxPackage,
     pkg : SUBSET AppxPackage, names : Seq(Wanted),
     time : {"waiting", "late", "canceling", "overdue"}, err : BOOLEAN]

AsyncRecord == [status : Ended \cup {"none", "started"}, missing : BOOLEAN, gone : BOOLEAN,
                canceling : BOOLEAN, closed : BOOLEAN]

ArTypes ==
    /\ installed \subseteq AppxPackage /\ again \subseteq AppxPackage
    /\ async \in AsyncRecord /\ removal \in ArRecord
    /\ removal.feed \subseteq removal.snapshot
    /\ removed \in [at : {"none", "returned"}, err : BOOLEAN, asked : SUBSET AppxPackage]

\* Not there any more, or put there by somebody else.
Dealt(p) == p \in again \/ p \notin installed

Removing == removal.at \in {"operation", "info", "poll", "result", "read result", "end"}

\* Every matching package is still to be looked at, on the list, or has been dealt with.
Covered(op) == \A p \in op.snapshot \cap Wanted :
                  p \in op.feed \cup op.pkg \cup Range(op.names) \/ Dealt(p)

RemovalInv ==
    /\ ~removal.err => Covered(removal)
    /\ removal.at = "enter" => removal.n = 0
    /\ removal.at \notin {"id", "read", "leave"} => removal.pkg = {}
    /\ removal.at = "obtain" => removal.n <= 2
    /\ removal.at = "enumerate" => removal.n <= 2
    /\ removal.at \in {"id", "read"} => \E p \in AppxPackage : removal.pkg = {p}
    /\ removal.at \in {"found", "names"} \/ Removing => removal.feed = {}
    /\ Removing => removal.names # <<>>
    /\ removal.at = "leave" /\ ~removal.err =>
          removal.feed = {} /\ removal.pkg = {} /\ removal.names = <<>>
    /\ removal.at = "end" /\ ~removal.err => Dealt(Head(removal.names))

\* What the status of an operation means.
AsyncInv ==
    /\ removal.at \notin {"info", "poll", "result", "read result", "end"} => async = NoAsync
    /\ async.status \in {"none", "started"} => ~async.missing /\ ~async.gone
    /\ async.missing \/ async.gone => Dealt(Head(removal.names))
    /\ async.closed => async.status \in Ended

ArInv == /\ ArTypes /\ RemovalInv /\ AsyncInv
         /\ removal.at # "idle" => removed = NotRemoved
         /\ AppxTruthful

-----------------------------------------------------------------------------

\* What every step preserves.
CallsInv == session \in Session /\ AllBooks /\ RpInv /\ ThrottleInv /\ UcInv /\ ArInv

-----------------------------------------------------------------------------
(* What balanced books say.                                                  *)

\* Nothing is given back twice, and what is held can still be given back.
LEMMA BooksOrderly ==
  ASSUME NEW o \in Operation, NEW extra, Books(o, extra),
         extra \cap Interface[o] # {} => Entered(deferred[o]),
         "apartment" \in extra => "thread" \in extra
  PROVE  /\ \A r \in Resource(o) : held[o][r] \in Nat
         /\ held[o]["thread"] >= held[o]["apartment"]
         /\ (\E r \in Interface[o] : Holds(o, r)) => Holds(o, "apartment")
         /\ Entered(deferred[o]) => Holds(o, "apartment")
         /\ deferred[o] = <<>> /\ extra = {} => NothingHeld(o)
<1>1. PICK d : d = deferred[o]
  OBVIOUS
<1>2. d \in Seq(Resource(o) \cup {"call"}) /\ Shape(o, d) /\ DOMAIN d = 1..Len(d) /\ Len(d) \in Nat
  BY <1>1 DEF Books
<1>3. {"thread", "apartment"} \subseteq Resource(o) /\ Interface[o] \subseteq Resource(o)
  BY Kinds
<1>4. \A r \in Resource(o) : held[o][r] \in Nat
  BY Entry
<1>5. PICK t, a, x, y : /\ t = Owed(d, "thread") /\ a = Owed(d, "apartment")
                        /\ x = (IF "thread" \in extra THEN 1 ELSE 0)
                        /\ y = (IF "apartment" \in extra THEN 1 ELSE 0)
  OBVIOUS
<1>6. held[o]["thread"] = t + x /\ held[o]["apartment"] = a + y /\ t \in Nat /\ a \in Nat
  BY <1>1, <1>3, <1>5, Entry
<1>7. a <= t
  <2>1. CASE \E i \in DOMAIN d : d[i] = "apartment"
    <3>1. 2 \in DOMAIN d /\ d[1] = "thread" /\ \A i \in DOMAIN d : d[i] = "apartment" => i = 2
      BY <1>2, <2>1 DEF Shape
    <3>2. {i \in DOMAIN d : d[i] = "apartment"} = {2}
      BY <2>1, <3>1
    <3>3. a = 1
      BY <1>5, <3>2, FS_Singleton DEF Owed
    <3>4. 1 \in DOMAIN d
      BY <1>2, <3>1
    <3>5. PICK S : d \in Seq(S)
      BY <1>2
    <3>6. t > 0
      BY <1>5, <3>1, <3>4, <3>5, OwedBy
    <3> QED  BY <1>6, <3>3, <3>6
  <2>2. CASE ~(\E i \in DOMAIN d : d[i] = "apartment")
    <3>1. PICK S : d \in Seq(S)
      BY <1>2
    <3>2. ~(a > 0)
      BY <1>5, <2>2, <3>1, OwedBy
    <3> QED  BY <1>6, <3>2
  <2> QED  BY <2>1, <2>2
<1>8. y <= x /\ x \in Nat /\ y \in Nat
  BY <1>5
<1>9. \A r \in Resource(o) :
        held[o][r] > 0 <=> r \in extra \/ \E i \in DOMAIN deferred[o] : deferred[o][i] = r
  BY Entry
<1>10. Entered(d) => Holds(o, "apartment")
  <2> SUFFICES ASSUME Entered(d) PROVE Holds(o, "apartment")
    OBVIOUS
  <2>1. 2 \in DOMAIN d /\ d[2] = "apartment"
    BY <1>2 DEF Entered
  <2> QED  BY <1>1, <1>3, <1>9, <2>1 DEF Holds
<1>11. ASSUME NEW r \in Interface[o], Holds(o, r) PROVE Holds(o, "apartment")
  <2>1. CASE r \in extra
    BY <1>1, <1>10, <2>1
  <2>2. CASE r \notin extra
    <3>1. PICK i \in DOMAIN d : d[i] = r
      BY <1>1, <1>3, <1>9, <1>11, <2>2 DEF Holds
    <3>2. i > 2 /\ d[2] = "apartment"
      BY <1>2, <3>1 DEF Shape
    <3>3. 2 \in DOMAIN d
      BY <1>2, <3>1, <3>2
    <3> QED  BY <1>1, <1>3, <1>9, <3>2, <3>3 DEF Holds
  <2> QED  BY <2>1, <2>2
<1>12. ASSUME deferred[o] = <<>>, extra = {} PROVE NothingHeld(o)
  <2>1. \A r \in Resource(o) : ~(held[o][r] > 0)
    BY <1>9, <1>12
  <2> QED  BY <1>4, <2>1 DEF NothingHeld
<1> QED  BY <1>1, <1>4, <1>6, <1>7, <1>8, <1>10, <1>11, <1>12

\* The books are as the place of the operation demands.
LEMMA ExtraIs ==
  ASSUME NEW o, NEW extra, Books(o, extra)'
  PROVE  /\ RpExtra(o)' = extra => Books(o, RpExtra(o))'
         /\ o = Me /\ UcExtra' = extra => Books(Me, UcExtra)'
         /\ o = Self /\ ArExtra' = extra => Books(Self, ArExtra)'
BY DEF Books

LEMMA ExtraWas ==
  ASSUME NEW o, NEW extra
  PROVE  /\ RpExtra(o) = extra /\ Books(o, RpExtra(o)) => Books(o, extra)
         /\ o = Me /\ UcExtra = extra /\ Books(Me, UcExtra) => Books(o, extra)
         /\ o = Self /\ ArExtra = extra /\ Books(Self, ArExtra) => Books(o, extra)
BY DEF Books

-----------------------------------------------------------------------------
(* The books of restore points, action by action.                            *)

\* Creating and listing are operations with these strings and pointers.
LEMMA RpKinds ==
  /\ RpOp \subseteq Operation /\ "call" \notin {"sid", "acl", "obj"}
  /\ \A o \in RpOp : /\ {"sid", "acl"} \subseteq Memory[o] /\ Interface[o] \cap Plain = {}
                     /\ "call" \notin Memory[o] \cup Interface[o] \cup Plain
  /\ "obj" \in Interface["list"] /\ "list" \in RpOp /\ "create" \in RpOp
BY DEF RpOp, Operation, Memory, Interface, Plain

\* The place of o changes and its books do not.
LEMMA RpStay ==
  ASSUME Tables, NEW o \in RpOp, RpDesk(o), UNCHANGED comVars,
         RpExtra(o)' = RpExtra(o),
         rp'[o].at \in {"idle", "enter", "security"} => deferred[o] = <<>>,
         rp'[o].at \in {"sids", "configure", "configured"} =>
            rp[o].at \in {"sids", "configure", "configured"},
         rp'[o].at \in {"begin", "end", "acquire", "rows", "row"} => Entered(deferred[o]),
         rp'[o].at \notin {"sids", "configure", "configured"} => NoCallIn(deferred[o])
  PROVE  Tables' /\ RpDesk(o)' /\ OnlyBooks(o)
<1>1. Tables' /\ OnlyBooks(o) /\ deferred'[o] = deferred[o]
  BY SameBooks
<1>2. PICK extra : extra = RpExtra(o)
  OBVIOUS
<1>3. Books(o, extra)'
  BY <1>2, SameBooks, ExtraWas DEF RpDesk
<1>4. Books(o, RpExtra(o))'
  BY <1>2, <1>3, ExtraIs
<1>5. RpStack(o)'
  BY <1>1 DEF RpDesk, RpStack, NoCallIn, Entered
<1> QED  BY <1>1, <1>4, <1>5 DEF RpDesk

\* A place is taken.
LEMMA GotoAt ==
  ASSUME RpTypes, NEW o \in RpOp, NEW place, Goto(o, place)
  PROVE  /\ rp'[o] = [rp[o] EXCEPT !.at = place] /\ rp'[o].at = place
         /\ \A q \in RpOp \ {o} : rp'[q] = rp[q]
BY DEF Goto, RpTypes, RpRecord

LEMMA AbortAt ==
  ASSUME RpTypes, NEW o \in RpOp, Abort(o)
  PROVE  /\ rp'[o] = [rp[o] EXCEPT !.at = "leave", !.err = TRUE, !.rows = <<>>]
         /\ rp'[o].at = "leave"
         /\ \A q \in RpOp \ {o} : rp'[q] = rp[q]
BY DEF Abort, RpTypes, RpRecord

LEMMA OutcomeAt ==
  ASSUME RpTypes, NEW o \in RpOp, NEW outcome, Outcome(o, outcome)
  PROVE  /\ rp'[o] = [rp[o] EXCEPT !.at = "configured", !.outcome = outcome]
         /\ rp'[o].at = "configured"
         /\ \A q \in RpOp \ {o} : rp'[q] = rp[q]
BY DEF Outcome, RpTypes, RpRecord

\* What an operation of restore points does to the books: they stay in order, and only its own
\* are touched.
RpKept(o) == Tables' /\ RpDesk(o)' /\ OnlyBooks(o)

LEMMA EnterComBooks ==
  ASSUME Tables, RpTypes, NEW o \in RpOp, RpDesk(o), EnterCom(o)
  PROVE  RpKept(o)
<1>1. rp[o].at = "enter" /\ RpExtra(o) = {} /\ deferred[o] = <<>> /\ o \in Operation
  BY RpKinds DEF EnterCom, RpExtra, RpDesk, RpStack
<1>2. Books(o, {})
  BY <1>1, ExtraWas DEF RpDesk
<1>3. CASE TakeApartment(o) /\ Goto(o, "security")
  <2>1. Tables' /\ Books(o, Plain)' /\ OnlyBooks(o) /\ deferred'[o] = <<>>
    BY <1>1, <1>2, <1>3, TakeApartmentBooks
  <2>2. rp'[o].at = "security"
    BY <1>3, GotoAt
  <2>3. RpExtra(o)' = Plain
    BY <2>2 DEF RpExtra
  <2>4. Books(o, RpExtra(o))'
    BY <2>1, <2>3, ExtraIs
  <2>5. RpStack(o)'
    BY <2>1, <2>2 DEF RpStack, NoCallIn
  <2> QED  BY <2>1, <2>4, <2>5 DEF RpKept, RpDesk
<1>4. CASE Abort(o) /\ UNCHANGED comVars
  <2>1. rp'[o].at = "leave"
    BY <1>4, AbortAt
  <2>2. RpExtra(o)' = RpExtra(o)
    BY <1>1, <2>1 DEF RpExtra
  <2>3. NoCallIn(deferred[o])
    BY <1>1 DEF NoCallIn
  <2> QED  BY <1>4, <2>1, <2>2, <2>3, RpStay DEF RpKept
<1> QED  BY <1>3, <1>4 DEF EnterCom

LEMMA BeginOnceBooks ==
  ASSUME Tables, RpTypes, NEW o \in RpOp, RpDesk(o), BeginOnce(o)
  PROVE  RpKept(o)
<1>1. rp[o].at = "security" /\ RpExtra(o) = Plain /\ deferred[o] = <<>> /\ o \in Operation
      /\ Call(o) /\ Goto(o, "sids")
  BY RpKinds DEF BeginOnce, RpExtra, RpDesk, RpStack
<1>2. Books(o, Plain)
  BY <1>1, ExtraWas DEF RpDesk
<1>3. Tables' /\ Books(o, Plain)' /\ OnlyBooks(o) /\ deferred'[o] = Append(deferred[o], "call")
  BY <1>1, <1>2, CallBooks
<1>4. rp'[o].at = "sids"
  BY <1>1, GotoAt
<1>5. RpExtra(o)' = Plain
  BY <1>4 DEF RpExtra
<1>6. Books(o, RpExtra(o))'
  BY <1>3, <1>5, ExtraIs
<1>7. deferred'[o] = <<"call">>
  BY <1>1, <1>3
<1>8. RpStack(o)'
  BY <1>4, <1>7 DEF RpStack
<1> QED  BY <1>3, <1>6, <1>8 DEF RpKept, RpDesk

\* A buffer is obtained inside the once.
LEMMA BufferBooks ==
  ASSUME Tables, RpTypes, NEW o \in RpOp, RpDesk(o), NEW r \in {"sid", "acl"}, Obtain(o, r),
         rp[o].at \in {"sids", "configure", "configured"},
         rp'[o].at \in {"sids", "configure", "configured"}
  PROVE  RpKept(o)
<1>1. RpExtra(o) = Plain /\ RpExtra(o)' = Plain /\ o \in Operation /\ r \in Memory[o]
      /\ r \notin Interface[o]
  BY RpKinds, Kinds DEF RpExtra
<1>2. Books(o, Plain)
  BY <1>1, ExtraWas DEF RpDesk
<1>3. Tables' /\ Books(o, Plain)' /\ OnlyBooks(o) /\ deferred'[o] = Append(deferred[o], r)
  BY <1>1, <1>2, ObtainBooks
<1>4. Books(o, RpExtra(o))'
  BY <1>1, <1>3, ExtraIs
<1>5. PICK d, e, n : d = deferred[o] /\ e = Append(d, r) /\ n = Len(d)
  OBVIOUS
<1>6. d \in Seq(Resource(o) \cup {"call"})
  BY <1>2, <1>5 DEF Books
<1>7. /\ d # <<>> /\ d[1] = "call" /\ \A i \in DOMAIN d : i > 1 => d[i] \in Memory[o]
  BY <1>5 DEF RpDesk, RpStack
<1>8. /\ DOMAIN e = 1..(n + 1) /\ DOMAIN d = 1..n /\ n \in Nat /\ n >= 1 /\ e # <<>>
      /\ \A i \in 1..(n + 1) : e[i] = IF i <= n THEN d[i] ELSE r
  BY <1>5, <1>6, <1>7, <1>1, Kinds
<1>9. e # <<>> /\ e[1] = "call" /\ \A i \in DOMAIN e : i > 1 => e[i] \in Memory[o]
  BY <1>1, <1>7, <1>8
<1>10. RpStack(o)'
  BY <1>3, <1>5, <1>9 DEF RpStack
<1> QED  BY <1>3, <1>4, <1>10 DEF RpKept, RpDesk

LEMMA MakeSidBooks ==
  ASSUME Tables, RpTypes, NEW o \in RpOp, RpDesk(o), MakeSid(o)
  PROVE  RpKept(o)
<1>1. rp[o].at = "sids"
  BY DEF MakeSid
<1>2. CASE Obtain(o, "sid") /\ rp' = [rp EXCEPT ![o].sids = @ + 1]
  <2>1. rp'[o].at = "sids"
    BY <1>1, <1>2 DEF RpTypes, RpRecord
  <2> QED  BY <1>1, <1>2, <2>1, BufferBooks
<1>3. CASE Obtain(o, "sid") /\ Outcome(o, "failed")
  <2>1. rp'[o].at = "configured"
    BY <1>3, OutcomeAt
  <2> QED  BY <1>1, <1>3, <2>1, BufferBooks
<1>4. CASE UNCHANGED comVars /\ Outcome(o, "failed")
  <2>1. rp'[o].at = "configured"
    BY <1>4, OutcomeAt
  <2>2. RpExtra(o)' = RpExtra(o)
    BY <1>1, <2>1 DEF RpExtra
  <2> QED  BY <1>1, <1>4, <2>1, <2>2, RpStay DEF RpKept
<1> QED  BY <1>2, <1>3, <1>4 DEF MakeSid

LEMMA MakeAclBooks ==
  ASSUME Tables, RpTypes, NEW o \in RpOp, RpDesk(o), MakeAcl(o)
  PROVE  RpKept(o)
<1>1. rp[o].at = "sids"
  BY DEF MakeAcl
<1>2. CASE Obtain(o, "acl") /\ Goto(o, "configure")
  <2>1. rp'[o].at = "configure"
    BY <1>2, GotoAt
  <2> QED  BY <1>1, <1>2, <2>1, BufferBooks
<1>3. CASE UNCHANGED comVars /\ Outcome(o, "failed")
  <2>1. rp'[o].at = "configured"
    BY <1>3, OutcomeAt
  <2>2. RpExtra(o)' = RpExtra(o)
    BY <1>1, <2>1 DEF RpExtra
  <2> QED  BY <1>1, <1>3, <2>1, <2>2, RpStay DEF RpKept
<1> QED  BY <1>2, <1>3 DEF MakeAcl

LEMMA ConfigureBooks ==
  ASSUME Tables, RpTypes, NEW o \in RpOp, RpDesk(o), Configure(o)
  PROVE  RpKept(o)
<1>1. rp[o].at = "configure" /\ UNCHANGED comVars /\ rp'[o].at = "configured"
  BY OutcomeAt DEF Configure
<1>2. RpExtra(o)' = RpExtra(o)
  BY <1>1 DEF RpExtra
<1> QED  BY <1>1, <1>2, RpStay DEF RpKept

\* Only the mark of the call is left when the once is over.
LEMMA EndOnceBooks ==
  ASSUME Tables, RpTypes, NEW o \in RpOp, RpDesk(o), EndOnce(o)
  PROVE  RpKept(o)
<1>1. rp[o].at = "configured" /\ RpExtra(o) = Plain /\ o \in Operation /\ Returned(o)
      /\ Goto(o, "security")
  BY RpKinds DEF EndOnce, RpExtra
<1>2. Books(o, Plain)
  BY <1>1, ExtraWas DEF RpDesk
<1>3. PICK d : d = deferred[o]
  OBVIOUS
<1>4. d # <<>> /\ d[1] = "call" /\ \A i \in DOMAIN d : i > 1 => d[i] \in Memory[o]
  BY <1>1, <1>3 DEF RpDesk, RpStack
<1>5. /\ Tables' /\ Books(o, Plain)' /\ OnlyBooks(o)
      /\ Last(d) = "call" /\ deferred'[o] = Front(d)
  BY <1>1, <1>2, <1>3, <1>4, ReturnBooks
<1>6. d \in Seq(Resource(o) \cup {"call"})
  BY <1>2, <1>3 DEF Books
<1>7. /\ Last(d) = d[Len(d)] /\ Len(d) \in Nat \ {0} /\ Front(d) \in Seq(Resource(o) \cup {"call"})
      /\ Len(Front(d)) = Len(d) - 1
  BY <1>4, <1>6, WithoutLast
<1>8. Len(d) = 1
  <2>1. Len(d) \in DOMAIN d /\ "call" \notin Memory[o]
    BY <1>6, <1>7, RpKinds
  <2> QED  BY <1>4, <1>5, <1>7, <2>1
<1>9. deferred'[o] = <<>>
  BY <1>5, <1>7, <1>8
<1>10. rp'[o].at = "security"
  BY <1>1, GotoAt
<1>11. RpExtra(o)' = Plain
  BY <1>10 DEF RpExtra
<1>12. Books(o, RpExtra(o))'
  BY <1>5, <1>11, ExtraIs
<1>13. RpStack(o)'
  BY <1>9, <1>10 DEF RpStack, NoCallIn
<1> QED  BY <1>5, <1>12, <1>13 DEF RpKept, RpDesk

LEMMA AfterSecurityBooks ==
  ASSUME Tables, RpTypes, NEW o \in RpOp, RpDesk(o), AfterSecurity(o)
  PROVE  RpKept(o)
<1>1. rp[o].at = "security" /\ RpExtra(o) = Plain /\ deferred[o] = <<>> /\ o \in Operation
  BY RpKinds DEF AfterSecurity, RpExtra, RpDesk, RpStack
<1>2. Books(o, Plain)
  BY <1>1, ExtraWas DEF RpDesk
<1>3. CASE DeferApartment(o) /\ Goto(o, IF o = "create" THEN "begin" ELSE "acquire")
  <2>1. /\ Tables' /\ Books(o, {})' /\ OnlyBooks(o)
        /\ deferred'[o] = <<"thread", "apartment">> /\ Entered(deferred'[o])
    BY <1>1, <1>2, <1>3, DeferApartmentBooks
  <2>2. rp'[o].at \in {"begin", "acquire"}
    BY <1>3, GotoAt
  <2>3. RpExtra(o)' = {}
    BY <2>2 DEF RpExtra
  <2>4. Books(o, RpExtra(o))'
    BY <2>1, <2>3, ExtraIs
  <2>6. \A i \in DOMAIN deferred'[o] : deferred'[o][i] # "call"
    BY <2>1
  <2>7. RpStack(o)'
    BY <2>1, <2>2, <2>6 DEF RpStack, NoCallIn, Entered
  <2> QED  BY <2>1, <2>4, <2>7 DEF RpKept, RpDesk
<1>4. CASE GiveApartment(o) /\ Abort(o)
  <2>1. Tables' /\ Books(o, {})' /\ OnlyBooks(o) /\ deferred'[o] = <<>>
    BY <1>1, <1>2, <1>4, GiveApartmentBooks
  <2>2. rp'[o].at = "leave"
    BY <1>4, AbortAt
  <2>3. RpExtra(o)' = {}
    BY <2>2 DEF RpExtra
  <2>4. Books(o, RpExtra(o))'
    BY <2>1, <2>3, ExtraIs
  <2>5. RpStack(o)'
    BY <2>1, <2>2 DEF RpStack, NoCallIn
  <2> QED  BY <2>1, <2>4, <2>5 DEF RpKept, RpDesk
<1> QED  BY <1>3, <1>4 DEF AfterSecurity

\* create and the calls that only move it on.
LEMMA CreateBooks ==
  ASSUME Tables, RpTypes, RpDesk("create"), BeginCreate \/ BeginChange \/ EndChange
  PROVE  RpKept("create")
<1> DEFINE o == "create"
<1>1. o \in RpOp
  BY RpKinds
<1>2. CASE BeginCreate
  <2>1. rp[o].at = "idle" /\ UNCHANGED comVars /\ rp'[o].at \in {"idle", "enter"}
    BY <1>1, <1>2 DEF BeginCreate, RpTypes, RpRecord, NoOp
  <2>2. RpExtra(o)' = RpExtra(o)
    BY <2>1 DEF RpExtra
  <2>3. deferred[o] = <<>>
    BY <2>1 DEF RpDesk, RpStack
  <2>4. NoCallIn(deferred[o])
    BY <2>3 DEF NoCallIn
  <2> HIDE DEF o
  <2> QED  BY <1>1, <2>1, <2>2, <2>3, <2>4, RpStay DEF RpKept, o
<1>3. CASE BeginChange \/ EndChange
  <2>1. rp[o].at \in {"begin", "end"} /\ UNCHANGED comVars /\ rp'[o].at \in {"end", "leave"}
    <3>1. CASE BeginChange /\ ~Abort("create")
      <4>1. PICK m : rp' = [rp EXCEPT !["create"].at = "end", !["create"].number = m]
        BY <3>1 DEF BeginChange
      <4>2. rp'[o].at = "end"
        BY <1>1, <4>1 DEF RpTypes, RpRecord
      <4> QED  BY <3>1, <4>2 DEF BeginChange
    <3>2. CASE BeginChange /\ Abort("create")
      <4>1. rp'[o].at = "leave"
        BY <1>1, <3>2, AbortAt
      <4> QED  BY <3>2, <4>1 DEF BeginChange
    <3>3. CASE EndChange /\ ~Abort("create")
      <4>1. rp'[o].at = "leave"
        BY <1>1, <3>3, GotoAt DEF EndChange
      <4> QED  BY <3>3, <4>1 DEF EndChange
    <3>4. CASE EndChange /\ Abort("create")
      <4>1. rp'[o].at = "leave"
        BY <1>1, <3>4, AbortAt
      <4> QED  BY <3>4, <4>1 DEF EndChange
    <3> QED  BY <1>3, <3>1, <3>2, <3>3, <3>4
  <2>2. RpExtra(o)' = RpExtra(o)
    BY <2>1 DEF RpExtra
  <2>3. Entered(deferred[o]) /\ NoCallIn(deferred[o])
    BY <2>1 DEF RpDesk, RpStack
  <2> HIDE DEF o
  <2> QED  BY <1>1, <2>1, <2>2, <2>3, RpStay DEF RpKept, o
<1> QED  BY <1>2, <1>3

\* list is called.
LEMMA BeginListBooks ==
  ASSUME Tables, RpTypes, RpDesk("list"), BeginList
  PROVE  RpKept("list")
<1> DEFINE o == "list"
<1>1. o \in RpOp
  BY RpKinds
<1>2. rp[o].at = "idle" /\ UNCHANGED comVars /\ rp'[o].at = "enter"
  BY <1>1 DEF BeginList, RpTypes, RpRecord, NoOp
<1>3. RpExtra(o)' = RpExtra(o)
  BY <1>2 DEF RpExtra
<1>4. deferred[o] = <<>>
  BY <1>2 DEF RpDesk, RpStack
<1>5. NoCallIn(deferred[o])
  BY <1>4 DEF NoCallIn
<1> HIDE DEF o
<1> QED  BY <1>1, <1>2, <1>3, <1>4, <1>5, RpStay DEF RpKept, o

\* Something is obtained in the apartment, outside of a call.
LEMMA PointerBooks ==
  ASSUME Tables, NEW o \in Operation, NEW extra, Books(o, extra),
         NEW r \in Memory[o] \cup Interface[o], Obtain(o, r), Entered(deferred[o])
  PROVE  /\ Tables' /\ Books(o, extra)' /\ OnlyBooks(o) /\ Entered(deferred'[o])
         /\ NoCallIn(deferred[o]) => NoCallIn(deferred'[o])
         /\ Inside(deferred[o]) => Inside(deferred'[o])
<1>1. /\ Tables' /\ Books(o, extra)' /\ OnlyBooks(o) /\ Entered(deferred'[o])
      /\ deferred'[o] = Append(deferred[o], r)
  BY ObtainBooks
<1>2. PICK d, e, n, S : /\ d = deferred[o] /\ e = Append(d, r) /\ n = Len(d)
                        /\ S = Resource(o) \cup {"call"}
  OBVIOUS
<1>3. d \in Seq(S) /\ r \in S /\ r # "call"
  BY <1>2, Kinds DEF Books
<1>4. /\ DOMAIN e = 1..(n + 1) /\ DOMAIN d = 1..n /\ n \in Nat
      /\ \A i \in 1..(n + 1) : e[i] = IF i <= n THEN d[i] ELSE r
  BY <1>2, <1>3
<1>5. NoCallIn(d) => NoCallIn(e)
  BY <1>3, <1>4 DEF NoCallIn
<1>6. Inside(d) => Inside(e)
  BY <1>4 DEF Inside
<1> QED  BY <1>1, <1>2, <1>5, <1>6

LEMMA ObtainNextBooks ==
  ASSUME Tables, RpTypes, RpDesk("list"), rp["list"].n <= 5, ObtainNext
  PROVE  RpKept("list")
<1> DEFINE o == "list"
<1>1. o \in RpOp /\ o \in Operation
  BY RpKinds
<1>2. PICK r : r = ListObtains[rp[o].n + 1]
  OBVIOUS
<1>3. rp[o].at = "acquire" /\ RpExtra(o) = {} /\ Entered(deferred[o]) /\ NoCallIn(deferred[o])
  BY DEF ObtainNext, RpExtra, RpDesk, RpStack
<1>4. r \in Memory[o] \cup Interface[o]
  <2>1. rp[o].n \in 0..5
    BY <1>1 DEF RpTypes, RpRecord
  <2>2. rp[o].n + 1 \in 1..6
    BY <2>1
  <2>3. r \in {"locator", "netRes", "services", "lang", "query", "enum"}
    BY <1>2, <2>2 DEF ListObtains
  <2> QED  BY <2>3 DEF Memory, Interface
<1>5. Books(o, {})
  BY <1>3, ExtraWas DEF RpDesk
<1>6. rp'[o].at \in {"acquire", "rows", "leave"} /\ (UNCHANGED comVars \/ Obtain(o, r))
  <2>1. CASE UNCHANGED comVars /\ Abort("list")
    <3>1. rp'[o].at = "leave"
      BY <1>1, <2>1, AbortAt
    <3> QED  BY <2>1, <3>1
  <2>2. CASE Obtain("list", r) /\ Abort("list")
    <3>1. rp'[o].at = "leave"
      BY <1>1, <2>2, AbortAt
    <3> QED  BY <2>2, <3>1
  <2>3. CASE Obtain("list", r) /\ rp' = [rp EXCEPT !["list"].n = @ + 1]
    <3>1. rp'[o].at = "acquire"
      BY <1>1, <1>3, <2>3 DEF RpTypes, RpRecord
    <3> QED  BY <2>3, <3>1
  <2>4. CASE /\ Obtain("list", r)
             /\ \E runaway \in BOOLEAN :
                  rp' = [rp EXCEPT !["list"].at = "rows", !["list"].n = 0,
                                   !["list"].feed = DOMAIN points,
                                   !["list"].snapshot = DOMAIN points,
                                   !["list"].runaway = runaway]
    <3>1. PICK runaway \in BOOLEAN :
            rp' = [rp EXCEPT !["list"].at = "rows", !["list"].n = 0,
                             !["list"].feed = DOMAIN points,
                             !["list"].snapshot = DOMAIN points,
                             !["list"].runaway = runaway]
      BY <2>4
    <3>2. rp'[o].at = "rows"
      BY <1>1, <3>1 DEF RpTypes, RpRecord
    <3> QED  BY <2>4, <3>2
  <2> QED  BY <1>2, <2>1, <2>2, <2>3, <2>4 DEF ObtainNext
<1>7. RpExtra(o)' = {}
  BY <1>6 DEF RpExtra
<1>8. CASE UNCHANGED comVars
  <2> HIDE DEF o
  <2> QED  BY <1>1, <1>3, <1>6, <1>7, <1>8, RpStay DEF RpKept, o
<1>9. CASE Obtain(o, r)
  <2>1. Tables' /\ Books(o, {})' /\ OnlyBooks(o) /\ Entered(deferred'[o]) /\ NoCallIn(deferred'[o])
    <3> HIDE DEF o
    <3> QED  BY <1>1, <1>3, <1>4, <1>5, <1>9, PointerBooks
  <2>2. Books(o, RpExtra(o))'
    BY <1>7, <2>1, ExtraIs
  <2>3. RpStack(o)'
    BY <1>6, <2>1 DEF RpStack, NoCallIn, Entered
  <2> QED  BY <2>1, <2>2, <2>3 DEF RpKept, RpDesk
<1> QED  BY <1>6, <1>8, <1>9

\* A row is obtained.
LEMMA NextRowBooks ==
  ASSUME Tables, RpTypes, RpDesk("list"), NextRow
  PROVE  RpKept("list")
<1> DEFINE o == "list"
           r == "obj"
<1>1. o \in RpOp /\ o \in Operation /\ r \in Resource(o)
  BY RpKinds, Kinds
<1>2. rp[o].at = "rows" /\ RpExtra(o) = {} /\ Entered(deferred[o]) /\ NoCallIn(deferred[o])
  BY DEF NextRow, RpExtra, RpDesk, RpStack
<1>3. CASE UNCHANGED comVars /\ Abort("list")
  <2>1. rp'[o].at = "leave"
    BY <1>1, <1>3, AbortAt
  <2>2. RpExtra(o)' = RpExtra(o)
    BY <1>2, <2>1 DEF RpExtra
  <2> HIDE DEF o
  <2> QED  BY <1>1, <1>2, <1>3, <2>1, <2>2, RpStay DEF RpKept, o
<1>4. CASE \E row \in IF rp["list"].runaway THEN rp["list"].snapshot ELSE rp["list"].feed :
             /\ Take("list", "obj")
             /\ rp' = [rp EXCEPT !["list"].at = "row", !["list"].row = row,
                                 !["list"].feed = @ \ {row}]
  <2>1. PICK row : /\ Take("list", "obj")
                   /\ rp' = [rp EXCEPT !["list"].at = "row", !["list"].row = row,
                                       !["list"].feed = @ \ {row}]
    BY <1>4
  <2>2. rp'[o].at = "row"
    BY <1>1, <2>1 DEF RpTypes, RpRecord
  <2>3. RpExtra(o)' = {"obj"}
    BY <2>2 DEF RpExtra
  <2>4. Books(o, {})
    BY <1>2, ExtraWas DEF RpDesk
  <2>5. Tables' /\ Books(o, {} \cup {r})' /\ OnlyBooks(o) /\ deferred'[o] = deferred[o]
    <3>1. PICK none, x : none = {} /\ x = r
      OBVIOUS
    <3>2. Books(o, none) /\ x \in Resource(o) /\ x \notin none /\ Take(o, x)
      BY <1>1, <2>1, <2>4, <3>1
    <3>3. Tables' /\ Books(o, none \cup {x})' /\ OnlyBooks(o) /\ deferred'[o] = deferred[o]
      <4> HIDE DEF o
      <4> QED  BY <1>1, <3>2, TakeBooks
    <3> QED  BY <3>1, <3>3 DEF Books
  <2>6. Books(o, {r})'
    BY <2>5 DEF Books
  <2>7. Books(o, RpExtra(o))'
    BY <2>3, <2>6, ExtraIs
  <2>8. RpStack(o)'
    BY <1>2, <2>2, <2>5 DEF RpStack, NoCallIn, Entered
  <2> QED  BY <2>5, <2>7, <2>8 DEF RpKept, RpDesk
<1> QED  BY <1>3, <1>4 DEF NextRow

\* The row has been read and is given back.
LEMMA ReadRowBooks ==
  ASSUME Tables, RpTypes, RpDesk("list"), ReadRow
  PROVE  RpKept("list")
<1> DEFINE o == "list"
           r == "obj"
<1>1. o \in RpOp /\ o \in Operation /\ r \in Resource(o)
  BY RpKinds, Kinds
<1>2. /\ rp[o].at = "row" /\ RpExtra(o) = {"obj"} /\ Entered(deferred[o]) /\ NoCallIn(deferred[o])
      /\ Give("list", "obj")
  BY DEF ReadRow, RpExtra, RpDesk, RpStack
<1>3. rp'[o].at \in {"rows", "leave"}
  <2>1. CASE rp' = [rp EXCEPT !["list"] = Malformed(@)]
    BY <1>1, <2>1 DEF Malformed, RpTypes, RpRecord
  <2>2. CASE rp' = [rp EXCEPT !["list"].at = "rows", !["list"].n = @ + 1,
                              !["list"].rows = Append(@, rp["list"].row)]
    BY <1>1, <2>2 DEF RpTypes, RpRecord
  <2>3. CASE Abort("list")
    BY <1>1, <2>3, AbortAt
  <2> QED  BY <2>1, <2>2, <2>3 DEF ReadRow
<1>4. RpExtra(o)' = {}
  BY <1>3 DEF RpExtra
<1>5. Books(o, {r})
  BY <1>2, ExtraWas DEF RpDesk
<1>6. Tables' /\ Books(o, {})' /\ OnlyBooks(o) /\ deferred'[o] = deferred[o]
  <2>1. PICK none, x : none = {} /\ x = r
    OBVIOUS
  <2>2. Books(o, none \cup {x}) /\ x \in Resource(o) /\ x \notin none /\ Give(o, x)
    BY <1>1, <1>2, <1>5, <2>1
  <2>3. Tables' /\ Books(o, none)' /\ OnlyBooks(o) /\ deferred'[o] = deferred[o]
    <3> HIDE DEF o
    <3> QED  BY <1>1, <2>2, GiveBooks
  <2> QED  BY <2>1, <2>3 DEF Books
<1>7. Books(o, RpExtra(o))'
  BY <1>4, <1>6, ExtraIs
<1>8. RpStack(o)'
  BY <1>2, <1>3, <1>6 DEF RpStack, NoCallIn, Entered
<1> QED  BY <1>6, <1>7, <1>8 DEF RpKept, RpDesk

LEMMA EndRowsBooks ==
  ASSUME Tables, RpTypes, RpDesk("list"), EndRows
  PROVE  RpKept("list")
<1> DEFINE o == "list"
<1>1. o \in RpOp
  BY RpKinds
<1>2. rp[o].at = "rows" /\ UNCHANGED comVars
  BY DEF EndRows
<1>3. rp'[o].at = "leave"
  <2>1. PICK rows, e : rp' = [rp EXCEPT !["list"].at = "leave", !["list"].rows = rows,
                                        !["list"].err = e]
    BY DEF EndRows
  <2> QED  BY <1>1, <2>1 DEF RpTypes, RpRecord
<1>4. RpExtra(o)' = RpExtra(o) /\ NoCallIn(deferred[o])
  BY <1>2, <1>3 DEF RpExtra, RpDesk, RpStack
<1> HIDE DEF o
<1> QED  BY <1>1, <1>2, <1>3, <1>4, RpStay DEF RpKept, o

\* A deferred call runs when the operation, or the function inside the once, is over.
LEMMA RpUnwindBooks ==
  ASSUME Tables, RpTypes, NEW o \in RpOp, RpDesk(o), RpUnwind(o)
  PROVE  RpKept(o)
<1>1. /\ rp[o].at \in {"configured", "leave"} /\ RunDeferred(o) /\ rp' = rp
      /\ o \in Operation
  BY RpKinds DEF RpUnwind
<1>2. PICK extra : extra = RpExtra(o)
  OBVIOUS
<1>3. RpExtra(o)' = extra
  BY <1>1, <1>2 DEF RpExtra
<1>4. PICK d : d = deferred[o]
  OBVIOUS
<1>5. Books(o, extra) /\ d \in Seq(Resource(o) \cup {"call"})
  BY <1>2, <1>4 DEF RpDesk, Books
<1>6. /\ Tables' /\ Books(o, extra)' /\ OnlyBooks(o)
      /\ d # <<>> /\ Last(d) # "call" /\ deferred'[o] = Front(d)
  BY <1>1, <1>4, <1>5, RunBooks
<1>7. PICK f, n : f = Front(d) /\ n = Len(d)
  OBVIOUS
<1>8. /\ Last(d) = d[n] /\ n \in Nat \ {0} /\ DOMAIN f = 1..(n - 1) /\ DOMAIN d = 1..n
      /\ \A i \in 1..(n - 1) : f[i] = d[i]
  <2>1. f \in Seq(Resource(o) \cup {"call"}) /\ Len(f) = n - 1
    BY <1>5, <1>6, <1>7, WithoutLast
  <2> QED  BY <1>5, <1>6, <1>7, <2>1, WithoutLast
<1>9. RpStack(o)'
  <2>1. CASE rp[o].at = "leave"
    <3>1. NoCallIn(d)
      BY <1>4, <2>1 DEF RpDesk, RpStack
    <3>2. NoCallIn(f)
      BY <1>8, <3>1 DEF NoCallIn
    <3> QED  BY <1>1, <1>6, <1>7, <2>1, <3>2 DEF RpStack
  <2>2. CASE rp[o].at = "configured"
    <3>1. d[1] = "call" /\ \A i \in DOMAIN d : i > 1 => d[i] \in Memory[o]
      BY <1>4, <2>2 DEF RpDesk, RpStack
    <3>2. n > 1
      BY <1>6, <1>8, <3>1
    <3>3. f # <<>> /\ f[1] = "call" /\ \A i \in DOMAIN f : i > 1 => f[i] \in Memory[o]
      <4>1. 1 \in DOMAIN f
        BY <1>8, <3>2
      <4> QED  BY <1>8, <3>1, <4>1
    <3> QED  BY <1>1, <1>6, <1>7, <2>2, <3>3 DEF RpStack
  <2> QED  BY <1>1, <2>1, <2>2
<1>10. Books(o, RpExtra(o))'
  BY <1>3, <1>6, ExtraIs
<1> QED  BY <1>6, <1>9, <1>10 DEF RpKept, RpDesk

\* All of them have run.
LEMMA RpReturnBooks ==
  ASSUME Tables, RpTypes, NEW o \in RpOp, RpDesk(o), RpReturn(o)
  PROVE  RpKept(o)
<1>1. /\ rp[o].at = "leave" /\ Returned(o) /\ RpExtra(o) = {} /\ NoCallIn(deferred[o])
      /\ o \in Operation
  BY RpKinds DEF RpReturn, RpExtra, RpDesk, RpStack
<1>2. PICK d, none : d = deferred[o] /\ none = {}
  OBVIOUS
<1>3. Books(o, none)
  BY <1>1, <1>2, ExtraWas DEF RpDesk
<1>4. /\ Tables' /\ Books(o, none)' /\ OnlyBooks(o)
      /\ \/ d = <<>> /\ deferred'[o] = <<>>
         \/ d # <<>> /\ Last(d) = "call"
  BY <1>1, <1>2, <1>3, ReturnBooks
<1>5. deferred'[o] = <<>>
  <2>1. CASE d # <<>> /\ Last(d) = "call"
    <3>1. d \in Seq(Resource(o) \cup {"call"})
      BY <1>2, <1>3 DEF Books
    <3>2. Last(d) = d[Len(d)] /\ Len(d) \in Nat \ {0}
      BY <2>1, <3>1, WithoutLast
    <3>3. Len(d) \in DOMAIN d
      BY <3>1, <3>2
    <3> QED  BY <1>1, <1>2, <2>1, <3>2, <3>3 DEF NoCallIn
  <2> QED  BY <1>4, <2>1
<1>6. rp'[o].at = "idle"
  <2>1. rp' = [rp EXCEPT ![o] = NoOp]
    BY DEF RpReturn
  <2> QED  BY <2>1 DEF RpTypes, NoOp
<1>7. RpExtra(o)' = {}
  BY <1>6 DEF RpExtra
<1>8. Books(o, RpExtra(o))'
  BY <1>2, <1>4, <1>7, ExtraIs
<1>9. RpStack(o)'
  BY <1>5, <1>6 DEF RpStack, NoCallIn
<1> QED  BY <1>4, <1>8, <1>9 DEF RpKept, RpDesk

\* An operation of restore points leaves the records of the other as they are.
LEMMA OtherRecord ==
  ASSUME RpTypes, NEW o \in RpOp,
         RpStep(o) \/ (o = "create" /\ BeginCreate) \/ (o = "list" /\ BeginList)
  PROVE  \A q \in RpOp \ {o} : rp'[q] = rp[q]
<1>1. CASE RpStep(o)
  <2>1. CASE EnterCom(o) \/ BeginOnce(o) \/ MakeSid(o) \/ MakeAcl(o) \/ Configure(o) \/ EndOnce(o)
             \/ AfterSecurity(o)
    BY <2>1 DEF EnterCom, BeginOnce, MakeSid, MakeAcl, Configure, EndOnce, AfterSecurity, Goto,
                Abort, Outcome, RpTypes
  <2>2. CASE RpUnwind(o) \/ RpReturn(o)
    BY <2>2 DEF RpUnwind, RpReturn, RpTypes
  <2>3. CASE o = "create" /\ (BeginChange \/ EndChange)
    BY <2>3 DEF BeginChange, EndChange, Goto, Abort, RpTypes
  <2>4. CASE o = "list" /\ (ObtainNext \/ NextRow)
    BY <2>4 DEF ObtainNext, NextRow, Abort, RpTypes
  <2>5. CASE o = "list" /\ (ReadRow \/ EndRows)
    BY <2>5 DEF ReadRow, EndRows, Abort, RpTypes
  <2> QED  BY <1>1, <2>1, <2>2, <2>3, <2>4, <2>5 DEF RpStep
<1>2. CASE (o = "create" /\ BeginCreate) \/ (o = "list" /\ BeginList)
  BY <1>2 DEF BeginCreate, BeginList, RpTypes
<1> QED  BY <1>1, <1>2

\* Each step of creating or listing keeps the books of its own operation.
LEMMA RpStepBooks ==
  ASSUME Tables, RpTypes, Listing, NEW o \in RpOp, RpDesk(o),
         RpStep(o) \/ (o = "create" /\ BeginCreate) \/ (o = "list" /\ BeginList)
  PROVE  RpKept(o)
<1>1. ASSUME o = "list", ObtainNext PROVE rp["list"].n <= 5
  BY <1>1 DEF Listing, ObtainNext
<1> QED  BY <1>1, EnterComBooks, BeginOnceBooks, MakeSidBooks, MakeAclBooks, ConfigureBooks,
            EndOnceBooks, AfterSecurityBooks, CreateBooks, BeginListBooks, ObtainNextBooks,
            NextRowBooks, ReadRowBooks, EndRowsBooks, RpUnwindBooks, RpReturnBooks DEF RpStep

\* And those of all others.
LEMMA RpStepAllBooks ==
  ASSUME AllBooks, RpTypes, Listing, NEW o \in RpOp, UNCHANGED <<client, removal, async>>,
         RpStep(o) \/ (o = "create" /\ BeginCreate) \/ (o = "list" /\ BeginList)
  PROVE  AllBooks'
<1>1. RpKept(o)
  BY RpStepBooks DEF AllBooks, RpBooks
<1>2. ASSUME NEW q \in RpOp \ {o} PROVE RpDesk(q)'
  <2>1. rp'[q] = rp[q] /\ q \in Operation \ {o} /\ RpDesk(q)
    BY OtherRecord, RpKinds DEF AllBooks, RpBooks
  <2>2. PICK extra : extra = RpExtra(q)
    OBVIOUS
  <2>3. Books(q, extra)' /\ deferred'[q] = deferred[q]
    BY <1>1, <2>1, <2>2, OtherBooks, ExtraWas DEF RpKept, RpDesk
  <2>4. RpExtra(q)' = extra
    BY <2>1, <2>2 DEF RpExtra
  <2>5. RpStack(q)'
    BY <2>1, <2>3 DEF RpDesk, RpStack, NoCallIn, Entered
  <2> QED  BY <2>3, <2>4, <2>5, ExtraIs DEF RpDesk
<1>3. Me \in Operation \ {o} /\ Self \in Operation \ {o}
  BY DEF Me, Self, Operation, RpOp
<1>4. UcBooks'
  <2>1. PICK extra : extra = UcExtra
    OBVIOUS
  <2>2. Books(Me, extra)' /\ deferred'[Me] = deferred[Me]
    BY <1>1, <1>3, <2>1, OtherBooks, ExtraWas DEF RpKept, AllBooks, UcBooks
  <2>3. UcExtra' = extra
    BY <2>1 DEF UcExtra
  <2>4. UcStack'
    BY <2>2 DEF AllBooks, UcBooks, UcStack, NoCallIn, Entered
  <2> QED  BY <2>2, <2>3, <2>4, ExtraIs DEF UcBooks
<1>5. ArBooks'
  <2>1. PICK extra : extra = ArExtra
    OBVIOUS
  <2>2. Books(Self, extra)' /\ deferred'[Self] = deferred[Self]
    BY <1>1, <1>3, <2>1, OtherBooks, ExtraWas DEF RpKept, AllBooks, ArBooks
  <2>3. ArExtra' = extra
    BY <2>1 DEF ArExtra
  <2>4. ArStack'
    BY <2>2 DEF AllBooks, ArBooks, ArStack, NoCallIn, Entered, Inside, InCall, NotRunning, RunningLast
  <2> QED  BY <2>2, <2>3, <2>4, ExtraIs DEF ArBooks
<1> QED  BY <1>1, <1>2, <1>4, <1>5 DEF AllBooks, RpBooks, RpKept

-----------------------------------------------------------------------------
(* What creating and listing know, action by action.                         *)

\* Only the entry of one operation changes: what the invariants say of the other stays.
LEMMA OneRecord ==
  ASSUME RpTypes, NEW o \in RpOp, NEW s \in RpRecord, rp' = [rp EXCEPT ![o] = s]
  PROVE  /\ rp' \in [RpOp -> RpRecord] /\ rp'[o] = s
         /\ o = "list" => rp'["create"] = rp["create"]
         /\ o = "create" => rp'["list"] = rp["list"]
         /\ \A q \in RpOp : rp'[q] = IF q = o THEN s ELSE rp[q]
BY DEF RpTypes, RpOp

\* Up to the point where the apartment is entered and secured nothing is begun or read.
LEMMA EntryKeeps ==
  ASSUME RpInv, NEW o \in RpOp, NEW s \in RpRecord, rp' = [rp EXCEPT ![o] = s],
         UNCHANGED <<points, created, listed>>, policy' \in BOOLEAN, policy => policy',
         security' \in {"unset", "ok", "failed"}, security' = "ok" => policy',
         once' \subseteq RpOp, \E q \in RpOp : once' \subseteq {q},
         s.at \in {"begin", "acquire"} \/ s.outcome = "ok" => policy',
         rp[o].at \in {"enter", "security", "sids", "configure", "configured"},
         s.number = rp[o].number, s.n = rp[o].n, s.bad = rp[o].bad, s.errs = rp[o].errs,
         s.dropped = rp[o].dropped,
         \/ /\ s.at \in {"security", "sids", "configure", "configured",
                         IF o = "create" THEN "begin" ELSE "acquire"}
            /\ s.err = rp[o].err /\ s.rows = rp[o].rows
         \/ s.at = "leave" /\ s.err /\ s.rows = <<>>
  PROVE  RpInv'
<1>1. RpTypes'
  BY OneRecord DEF RpInv, RpTypes
<1>2. Secured'
  BY OneRecord DEF RpInv, Secured
<1>3. Creation'
  <2>1. CASE o = "list"
    BY <2>1, OneRecord DEF RpInv, Creation
  <2>2. CASE o = "create"
    BY <2>2, OneRecord DEF RpInv, Creation
  <2> QED  BY <2>1, <2>2 DEF RpOp
<1>4. Listing'
  <2>1. CASE o = "create"
    <3>1. rp'["list"] = rp["list"]
      BY <2>1, OneRecord
    <3> QED  BY <3>1 DEF RpInv, Listing, ListedWell, RowsMatch
  <2>2. CASE o = "list"
    <3>0. rp'[o] = s
      BY OneRecord DEF RpInv
    <3>1. rp'["list"] = s
      BY <2>2, <3>0
    <3>2. s.at = "leave" => ListedWell(s)
      BY DEF ListedWell
    <3>3. s.at \notin {"rows", "row"}
      BY <2>2
    <3> QED  BY <2>2, <3>1, <3>2, <3>3 DEF RpInv, Listing
  <2> QED  BY <2>1, <2>2 DEF RpOp
<1>5. CreatedTruthful' /\ ListedTruthful'
  BY DEF RpInv, CreatedTruthful, ListedTruthful
<1> QED  BY <1>1, <1>2, <1>3, <1>4, <1>5 DEF RpInv

\* The place, and what comes with it, of an operation that has changed.
LEMMA RecordsTyped ==
  ASSUME RpTypes, NEW o \in RpOp,
         NEW place \in {"idle", "enter", "security", "sids", "configure", "configured",
                        "begin", "end", "acquire", "rows", "row", "leave"}
  PROVE  /\ rp[o] \in RpRecord
         /\ [rp[o] EXCEPT !.at = place] \in RpRecord
         /\ [rp[o] EXCEPT !.at = "leave", !.err = TRUE, !.rows = <<>>] \in RpRecord
         /\ \A outcome \in {"ok", "failed"} :
              [rp[o] EXCEPT !.at = "configured", !.outcome = outcome] \in RpRecord
         /\ rp[o].sids < SidTypes => [rp[o] EXCEPT !.sids = @ + 1] \in RpRecord
<1>1. PICK r : r = rp[o]
  OBVIOUS
<1>2. r \in RpRecord
  BY <1>1 DEF RpTypes
<1>3. [r EXCEPT !.at = place] \in RpRecord
  BY <1>2 DEF RpRecord
<1>4. [r EXCEPT !.at = "leave", !.err = TRUE, !.rows = <<>>] \in RpRecord
  <2>0. <<>> \in Seq(Point)
    OBVIOUS
  <2>1. PICK none \in Seq(Point) : none = <<>>
    BY <2>0
  <2>2. [r EXCEPT !.at = "leave", !.err = TRUE, !.rows = none] \in RpRecord
    BY <1>2, <2>1, ZenonT(40) DEF RpRecord
  <2> QED  BY <2>1, <2>2
<1>5. ASSUME NEW outcome \in {"ok", "failed"}
      PROVE  [r EXCEPT !.at = "configured", !.outcome = outcome] \in RpRecord
  BY <1>2 DEF RpRecord
<1>6. r.sids < SidTypes => [r EXCEPT !.sids = @ + 1] \in RpRecord
  <2>1. r.sids < SidTypes => r.sids + 1 \in 0..SidTypes
    BY <1>2, RestoreAssumption DEF RpRecord
  <2> QED  BY <1>2, <2>1 DEF RpRecord
<1> QED  BY <1>1, <1>2, <1>3, <1>4, <1>5, <1>6

LEMMA EntryInv ==
  ASSUME RpInv, NEW o \in RpOp,
         \/ EnterCom(o) \/ BeginOnce(o) \/ MakeSid(o) \/ MakeAcl(o) \/ Configure(o)
         \/ EndOnce(o) \/ AfterSecurity(o)
  PROVE  RpInv'
<1> USE DEF RpInv
<1>0. PICK r : r = rp[o]
  OBVIOUS
<1>1. /\ policy \in BOOLEAN /\ security \in {"unset", "ok", "failed"} /\ once \subseteq RpOp
      /\ (security = "ok" => policy) /\ (\E q \in RpOp : once \subseteq {q})
      /\ (r.outcome = "ok" => policy) /\ r \in RpRecord
  BY <1>0 DEF RpTypes, Secured
<1> DEFINE Moves(s) == /\ s.number = r.number /\ s.n = r.n /\ s.bad = r.bad
                       /\ s.errs = r.errs /\ s.dropped = r.dropped
<1>2. ASSUME NEW place \in {"idle", "enter", "security", "sids", "configure", "configured",
                            "begin", "end", "acquire", "rows", "row", "leave"}, Goto(o, place)
      PROVE  \E s \in RpRecord : /\ rp' = [rp EXCEPT ![o] = s] /\ s.at = place /\ Moves(s)
                                 /\ s.outcome = r.outcome /\ s.err = r.err /\ s.rows = r.rows
  <2>1. PICK s : s = [r EXCEPT !.at = place]
    OBVIOUS
  <2>2. s \in RpRecord
    BY <1>0, <2>1, RecordsTyped
  <2>3. rp' = [rp EXCEPT ![o] = s]
    BY <1>0, <1>2, <2>1 DEF Goto
  <2>4. /\ s.at = place /\ Moves(s)
        /\ s.outcome = r.outcome /\ s.err = r.err /\ s.rows = r.rows
    BY <1>1, <2>1 DEF RpRecord
  <2> QED  BY <2>2, <2>3, <2>4
<1>3. ASSUME Abort(o)
      PROVE  \E s \in RpRecord : /\ rp' = [rp EXCEPT ![o] = s] /\ s.at = "leave" /\ Moves(s)
                                 /\ s.outcome = r.outcome /\ s.err /\ s.rows = <<>>
  <2>1. PICK s : s = [r EXCEPT !.at = "leave", !.err = TRUE, !.rows = <<>>]
    OBVIOUS
  <2>2. s \in RpRecord
    BY <1>0, <2>1, RecordsTyped
  <2>3. rp' = [rp EXCEPT ![o] = s]
    BY <1>0, <1>3, <2>1 DEF Abort
  <2>4. s.at = "leave" /\ Moves(s) /\ s.outcome = r.outcome /\ s.err /\ s.rows = <<>>
    BY <1>1, <2>1 DEF RpRecord
  <2> QED  BY <2>2, <2>3, <2>4
<1>4. ASSUME NEW outcome \in {"ok", "failed"}, Outcome(o, outcome)
      PROVE  \E s \in RpRecord : /\ rp' = [rp EXCEPT ![o] = s] /\ s.at = "configured" /\ Moves(s)
                                 /\ s.outcome = outcome /\ s.err = r.err /\ s.rows = r.rows
  <2>1. PICK s : s = [r EXCEPT !.at = "configured", !.outcome = outcome]
    OBVIOUS
  <2>2. s \in RpRecord
    BY <1>0, <2>1, RecordsTyped
  <2>3. rp' = [rp EXCEPT ![o] = s]
    BY <1>0, <1>4, <2>1 DEF Outcome
  <2>4. /\ s.at = "configured" /\ Moves(s)
        /\ s.outcome = outcome /\ s.err = r.err /\ s.rows = r.rows
    BY <1>1, <2>1 DEF RpRecord
  <2> QED  BY <2>2, <2>3, <2>4
<1>5. CASE EnterCom(o)
  <2>1. UNCHANGED <<points, policy, security, once, created, listed>> /\ r.at = "enter"
    BY <1>0, <1>5 DEF EnterCom
  <2>2. PICK s \in RpRecord : /\ rp' = [rp EXCEPT ![o] = s] /\ Moves(s) /\ s.outcome = r.outcome
                              /\ \/ s.at = "security" /\ s.err = r.err /\ s.rows = r.rows
                                 \/ s.at = "leave" /\ s.err /\ s.rows = <<>>
    <3>1. CASE Goto(o, "security")
      BY <1>2, <3>1
    <3>2. CASE Abort(o)
      BY <1>3, <3>2
    <3> QED  BY <1>5, <3>1, <3>2 DEF EnterCom
  <2> QED  BY <1>0, <1>1, <2>1, <2>2, EntryKeeps
<1>6. CASE BeginOnce(o)
  <2>1. /\ UNCHANGED <<points, policy, security, created, listed>> /\ r.at = "security"
        /\ once' = {o}
    BY <1>0, <1>6 DEF BeginOnce
  <2>2. PICK s \in RpRecord : /\ rp' = [rp EXCEPT ![o] = s] /\ Moves(s) /\ s.outcome = r.outcome
                              /\ s.at = "sids" /\ s.err = r.err /\ s.rows = r.rows
    BY <1>2, <1>6 DEF BeginOnce
  <2> QED  BY <1>0, <1>1, <2>1, <2>2, EntryKeeps
<1>7. CASE MakeSid(o)
  <2>1. UNCHANGED <<points, policy, security, once, created, listed>> /\ r.at = "sids"
        /\ r.sids < SidTypes
    BY <1>0, <1>7 DEF MakeSid
  <2>2. PICK s \in RpRecord : /\ rp' = [rp EXCEPT ![o] = s] /\ Moves(s)
                              /\ s.outcome \in {r.outcome, "failed"}
                              /\ s.at \in {"sids", "configured"} /\ s.err = r.err /\ s.rows = r.rows
    <3>1. CASE rp' = [rp EXCEPT ![o].sids = @ + 1]
      <4>1. PICK s : s = [r EXCEPT !.sids = @ + 1]
        OBVIOUS
      <4>2. s \in RpRecord
        BY <1>0, <2>1, <4>1, RecordsTyped
      <4>3. rp' = [rp EXCEPT ![o] = s]
        BY <1>0, <3>1, <4>1
      <4>4. /\ s.at = "sids" /\ Moves(s) /\ s.outcome = r.outcome /\ s.err = r.err
            /\ s.rows = r.rows
        BY <1>1, <2>1, <4>1 DEF RpRecord
      <4> QED  BY <4>2, <4>3, <4>4
    <3>2. CASE Outcome(o, "failed")
      BY <1>4, <3>2
    <3> QED  BY <1>7, <3>1, <3>2 DEF MakeSid
  <2> QED  BY <1>0, <1>1, <2>1, <2>2, EntryKeeps
<1>8. CASE MakeAcl(o)
  <2>1. UNCHANGED <<points, policy, security, once, created, listed>> /\ r.at = "sids"
    BY <1>0, <1>8 DEF MakeAcl
  <2>2. PICK s \in RpRecord : /\ rp' = [rp EXCEPT ![o] = s] /\ Moves(s)
                              /\ s.outcome \in {r.outcome, "failed"}
                              /\ s.at \in {"configure", "configured"} /\ s.err = r.err
                              /\ s.rows = r.rows
    <3>1. CASE Goto(o, "configure")
      BY <1>2, <3>1
    <3>2. CASE Outcome(o, "failed")
      BY <1>4, <3>2
    <3> QED  BY <1>8, <3>1, <3>2 DEF MakeAcl
  <2> QED  BY <1>0, <1>1, <2>1, <2>2, EntryKeeps
<1>9. CASE Configure(o)
  <2>1. UNCHANGED <<points, security, once, created, listed>> /\ r.at = "configure"
    BY <1>0, <1>9 DEF Configure
  <2>2. PICK s \in RpRecord : /\ rp' = [rp EXCEPT ![o] = s] /\ Moves(s)
                              /\ s.at = "configured" /\ s.err = r.err /\ s.rows = r.rows
                              /\ \/ s.outcome = "ok" /\ policy'
                                 \/ s.outcome = "failed" /\ policy' = policy
    <3>1. CASE Outcome(o, "ok") /\ policy' = TRUE
      BY <1>4, <3>1
    <3>2. CASE Outcome(o, "failed") /\ UNCHANGED policy
      BY <1>4, <3>2
    <3> QED  BY <1>9, <3>1, <3>2 DEF Configure
  <2>3. policy' \in BOOLEAN
    BY <1>1, <1>9 DEF Configure
  <2> QED  BY <1>0, <1>1, <2>1, <2>2, <2>3, EntryKeeps
<1>10. CASE EndOnce(o)
  <2>1. /\ UNCHANGED <<points, policy, created, listed>> /\ r.at = "configured"
        /\ once' = once \ {o} /\ security' = r.outcome
    BY <1>0, <1>10 DEF EndOnce
  <2>2. PICK s \in RpRecord : /\ rp' = [rp EXCEPT ![o] = s] /\ Moves(s) /\ s.outcome = r.outcome
                              /\ s.at = "security" /\ s.err = r.err /\ s.rows = r.rows
    BY <1>2, <1>10 DEF EndOnce
  <2>3. security' \in {"unset", "ok", "failed"}
    BY <1>1, <2>1 DEF RpRecord
  <2> QED  BY <1>0, <1>1, <2>1, <2>2, <2>3, EntryKeeps
<1>11. CASE AfterSecurity(o)
  <2>1. UNCHANGED <<points, policy, security, once, created, listed>> /\ r.at = "security"
    BY <1>0, <1>11 DEF AfterSecurity
  <2>2. PICK place : place = IF o = "create" THEN "begin" ELSE "acquire"
    OBVIOUS
  <2>3. PICK s \in RpRecord : /\ rp' = [rp EXCEPT ![o] = s] /\ Moves(s) /\ s.outcome = r.outcome
                              /\ \/ s.at = place /\ s.err = r.err /\ s.rows = r.rows /\ security = "ok"
                                 \/ s.at = "leave" /\ s.err /\ s.rows = <<>>
    <3>1. CASE security = "ok" /\ Goto(o, place)
      <4>1. place \in {"begin", "acquire"}
        BY <2>2
      <4> QED  BY <1>2, <3>1, <4>1
    <3>2. CASE Abort(o)
      BY <1>3, <3>2
    <3> QED  BY <1>11, <2>2, <3>1, <3>2 DEF AfterSecurity
  <2> QED  BY <1>0, <1>1, <2>1, <2>2, <2>3, EntryKeeps
<1> QED  BY <1>5, <1>6, <1>7, <1>8, <1>9, <1>10, <1>11

\* A step of create.
LEMMA CreateKeeps ==
  ASSUME RpInv, NEW s \in RpRecord, rp' = [rp EXCEPT !["create"] = s],
         UNCHANGED <<policy, security, once, listed>>,
         points' \in Seq(BOOLEAN), Len(points') <= MaxPoints,
         created' \in [at : {"none", "returned"}, err : BOOLEAN, number : 0..MaxPoints],
         s.at \in {"begin", "end", "acquire", "rows", "row"} \/ s.outcome = "ok" => policy,
         Creation', CreatedTruthful'
  PROVE  RpInv'
<1>0. "create" \in RpOp
  BY DEF RpOp
<1>1. rp' \in [RpOp -> RpRecord] /\ rp'["list"] = rp["list"] /\ rp'["create"] = s
  BY <1>0, OneRecord DEF RpInv
<1>2. RpTypes'
  BY <1>1 DEF RpInv, RpTypes
<1>3. Secured'
  BY <1>1 DEF RpInv, Secured, RpOp
<1>4. Listing'
  BY <1>1 DEF RpInv, Listing, ListedWell, RowsMatch
<1>5. ListedTruthful'
  BY DEF RpInv, ListedTruthful
<1> QED  BY <1>2, <1>3, <1>4, <1>5 DEF RpInv

\* A step of list.
LEMMA ListKeeps ==
  ASSUME RpInv, NEW s \in RpRecord, rp' = [rp EXCEPT !["list"] = s],
         UNCHANGED <<points, policy, security, once, created>>,
         listed' \in [at : {"none", "returned"}, err : BOOLEAN, rows : Seq(Point),
                      bad : SUBSET Point, snapshot : SUBSET Point],
         s.at \in {"begin", "end", "acquire", "rows", "row"} \/ s.outcome = "ok" => policy,
         Listing', ListedTruthful'
  PROVE  RpInv'
<1>0. "list" \in RpOp
  BY DEF RpOp
<1>1. rp' \in [RpOp -> RpRecord] /\ rp'["create"] = rp["create"] /\ rp'["list"] = s
  BY <1>0, OneRecord DEF RpInv
<1>2. RpTypes'
  BY <1>1 DEF RpInv, RpTypes
<1>3. Secured'
  BY <1>1 DEF RpInv, Secured, RpOp
<1>4. Creation'
  BY <1>1 DEF RpInv, Creation
<1>5. CreatedTruthful'
  BY DEF RpInv, CreatedTruthful
<1> QED  BY <1>2, <1>3, <1>4, <1>5 DEF RpInv

\* The record of an operation that has not begun.
LEMMA FreshRecord ==
  /\ NoOp \in RpRecord
  /\ \A place \in {"idle", "enter"} : [NoOp EXCEPT !.at = place] \in RpRecord
  /\ NotCreated \in [at : {"none", "returned"}, err : BOOLEAN, number : 0..MaxPoints]
  /\ NotListed \in [at : {"none", "returned"}, err : BOOLEAN, rows : Seq(Point),
                    bad : SUBSET Point, snapshot : SUBSET Point]
<1>1. /\ 0 \in 0..SidTypes /\ 0 \in 0..MaxPoints /\ 0 \in 0..(MaxRestorePoints + 6)
      /\ 0 \in 0..MaxRowErrors
  BY RestoreAssumption
<1>2. <<>> \in Seq(Point) /\ {} \in SUBSET Point
  OBVIOUS
<1>3. NoOp \in RpRecord
  BY <1>1, <1>2 DEF NoOp, RpRecord
<1>4. ASSUME NEW place \in {"idle", "enter"} PROVE [NoOp EXCEPT !.at = place] \in RpRecord
  BY <1>3, ZenonT(40) DEF RpRecord
<1>5. NotCreated \in [at : {"none", "returned"}, err : BOOLEAN, number : 0..MaxPoints]
  BY <1>1 DEF NotCreated
<1>6. NotListed \in [at : {"none", "returned"}, err : BOOLEAN, rows : Seq(Point),
                     bad : SUBSET Point, snapshot : SUBSET Point]
  BY <1>2 DEF NotListed
<1> QED  BY <1>3, <1>4, <1>5, <1>6

LEMMA BeginCreateInv ==
  ASSUME RpInv, BeginCreate
  PROVE  RpInv'
<1>1. rp["create"].at = "idle" /\ UNCHANGED <<points, policy, security, once, listed>>
  BY DEF BeginCreate
<1>2. points \in Seq(BOOLEAN) /\ Len(points) <= MaxPoints /\ rp \in [RpOp -> RpRecord]
      /\ "create" \in RpOp
  BY DEF RpInv, RpTypes, RpOp
<1>3. CASE /\ Len(points) < MaxPoints
           /\ rp' = [rp EXCEPT !["create"] = [NoOp EXCEPT !.at = "enter"]]
           /\ created' = NotCreated
  <2>1. PICK s : s = [NoOp EXCEPT !.at = "enter"]
    OBVIOUS
  <2>2. s \in RpRecord /\ s.at = "enter" /\ s.outcome = "unset" /\ s.number = 0 /\ ~s.err
    BY <2>1, FreshRecord DEF NoOp
  <2>3. rp'["create"] = s
    BY <1>2, <1>3, <2>1
  <2>4. Creation'
    BY <1>1, <1>3, <2>2, <2>3 DEF Creation
  <2>5. CreatedTruthful'
    BY <1>3 DEF CreatedTruthful, NotCreated
  <2> QED  BY <1>1, <1>2, <1>3, <2>1, <2>2, <2>4, <2>5, FreshRecord, CreateKeeps
<1>4. CASE UNCHANGED rp /\ created' = [NotCreated EXCEPT !.at = "returned", !.err = TRUE]
  <2>1. PICK s : s = rp["create"]
    OBVIOUS
  <2>2. s \in RpRecord /\ rp' = [rp EXCEPT !["create"] = s] /\ (s.outcome = "ok" => policy)
    BY <1>2, <1>4, <2>1 DEF RpInv, Secured
  <2>3. created'.at = "returned" /\ created'.err = TRUE /\ created'.number = 0
        /\ created' \in [at : {"none", "returned"}, err : BOOLEAN, number : 0..MaxPoints]
    <3>1. created' = [at |-> "returned", err |-> TRUE, number |-> 0]
      BY <1>4 DEF NotCreated
    <3>2. 0 \in 0..MaxPoints
      BY RestoreAssumption
    <3>3. PICK none \in 0..MaxPoints : none = 0
      BY <3>2
    <3>4. created' = [at |-> "returned", err |-> TRUE, number |-> none]
      BY <3>1, <3>3
    <3> QED  BY <3>3, <3>4
  <2>4. Creation'
    BY <1>1, <1>4 DEF RpInv, Creation
  <2>5. CreatedTruthful'
    BY <2>3 DEF CreatedTruthful
  <2> QED  BY <1>1, <1>2, <2>1, <2>2, <2>3, <2>4, <2>5, CreateKeeps
<1> QED  BY <1>3, <1>4 DEF BeginCreate

\* The error of one of the two calls.
LEMMA AbortCreateInv ==
  ASSUME RpInv, Abort("create"), rp["create"].at \in {"begin", "end"},
         UNCHANGED <<points, policy, security, once, created, listed>>
  PROVE  RpInv'
<1>1. PICK r : r = rp["create"]
  OBVIOUS
<1>2. PICK s : s = [r EXCEPT !.at = "leave", !.err = TRUE, !.rows = <<>>]
  OBVIOUS
<1>3. "create" \in RpOp /\ r \in RpRecord
  BY <1>1 DEF RpInv, RpTypes, RpOp
<1>4. s \in RpRecord
  BY <1>1, <1>2, <1>3, RecordsTyped DEF RpInv
<1>5. s.at = "leave" /\ s.err = TRUE /\ s.number = r.number /\ s.outcome = r.outcome
  BY <1>2, <1>3 DEF RpRecord
<1>6. rp' = [rp EXCEPT !["create"] = s]
  BY <1>1, <1>2 DEF Abort
<1>7. rp'["create"] = s
  BY <1>3, <1>6 DEF RpInv, RpTypes
<1>8. Creation'
  BY <1>1, <1>5, <1>7 DEF RpInv, Creation
<1>9. CreatedTruthful' /\ (s.outcome = "ok" => policy)
  BY <1>1, <1>3, <1>5 DEF RpInv, CreatedTruthful, Secured
<1>10. /\ points' \in Seq(BOOLEAN) /\ Len(points') <= MaxPoints
       /\ created' \in [at : {"none", "returned"}, err : BOOLEAN, number : 0..MaxPoints]
  BY DEF RpInv, RpTypes
<1> QED  BY <1>4, <1>5, <1>6, <1>8, <1>9, <1>10, CreateKeeps

LEMMA ChangeInv ==
  ASSUME RpInv, BeginChange \/ EndChange
  PROVE  RpInv'
<1> DEFINE o == "create"
<1>1. PICK r : r = rp[o]
  OBVIOUS
<1>2. /\ o \in RpOp /\ r \in RpRecord /\ points \in Seq(BOOLEAN) /\ Len(points) <= MaxPoints
      /\ created' = created
      /\ created \in [at : {"none", "returned"}, err : BOOLEAN, number : 0..MaxPoints]
      /\ UNCHANGED <<policy, security, once, listed>>
  BY <1>1 DEF RpInv, RpTypes, RpOp, BeginChange, EndChange
<1>3. r.at \in {"begin", "end"} /\ created = NotCreated /\ policy /\ ~r.err
  BY <1>1, <1>2 DEF RpInv, Creation, Secured, BeginChange, EndChange
<1>4. CreatedTruthful'
  BY <1>2, <1>3 DEF CreatedTruthful, NotCreated
<1>5. CASE BeginChange /\ ~(Abort("create") /\ UNCHANGED points)
  <2>1. PICK n : n = Len(points) + 1
    OBVIOUS
  <2>2. /\ points' = Append(points, FALSE)
        /\ rp' = [rp EXCEPT !["create"].at = "end", !["create"].number = n]
    BY <1>5, <2>1 DEF BeginChange
  <2>3. PICK s : s = [r EXCEPT !.at = "end", !.number = n]
    OBVIOUS
  <2>4. rp' = [rp EXCEPT !["create"] = s]
    BY <1>1, <1>2, <2>2, <2>3 DEF RpInv, RpTypes
  <2>5. r.at = "begin" /\ Len(points) < MaxPoints
    BY <1>1, <1>5 DEF BeginChange, RpInv, Creation
  <2>6. n \in 1..MaxPoints /\ n \in 0..MaxPoints
    BY <1>2, <2>1, <2>5, RestoreAssumption
  <2>7. s \in RpRecord /\ s.at = "end" /\ s.number = n /\ s.err = r.err
    BY <1>2, <2>3, <2>6 DEF RpRecord
  <2>8. points' \in Seq(BOOLEAN) /\ Len(points') <= MaxPoints /\ n \in DOMAIN points'
        /\ ~points'[n]
    BY <1>2, <2>1, <2>2, <2>5, <2>6
  <2>9. rp'["create"] = s
    BY <1>2, <2>4 DEF RpInv, RpTypes
  <2>10. Creation'
    BY <1>2, <1>3, <2>6, <2>7, <2>8, <2>9 DEF Creation
  <2> QED  BY <1>2, <1>3, <1>4, <2>4, <2>7, <2>8, <2>10, CreateKeeps
<1>6. CASE EndChange /\ ~(Abort("create") /\ UNCHANGED points)
  <2>1. /\ points' = [points EXCEPT ![r.number] = TRUE] /\ r.at = "end"
        /\ rp' = [rp EXCEPT !["create"].at = "leave"]
    BY <1>1, <1>6 DEF EndChange, Goto
  <2>2. PICK s : s = [r EXCEPT !.at = "leave"]
    OBVIOUS
  <2>3. rp' = [rp EXCEPT !["create"] = s]
    BY <1>1, <2>1, <2>2
  <2>4. s \in RpRecord /\ s.at = "leave" /\ s.number = r.number /\ s.err = r.err
        /\ s.outcome = r.outcome
    BY <1>2, <2>2 DEF RpRecord
  <2>5. r.number \in DOMAIN points
    BY <1>1, <2>1 DEF RpInv, Creation
  <2>6. points' \in Seq(BOOLEAN) /\ Len(points') <= MaxPoints /\ DOMAIN points' = DOMAIN points
        /\ points'[r.number]
    BY <1>2, <2>1, <2>5
  <2>7. rp'["create"] = s
    BY <1>2, <2>3 DEF RpInv, RpTypes
  <2>8. r.number # 0
    BY <1>2, <2>5
  <2>9. Creation'
    BY <1>2, <1>3, <2>4, <2>5, <2>6, <2>7, <2>8 DEF Creation
  <2> QED  BY <1>2, <1>3, <1>4, <2>3, <2>4, <2>6, <2>9, CreateKeeps
<1>7. CASE Abort("create") /\ UNCHANGED points
  BY <1>1, <1>2, <1>3, <1>7, AbortCreateInv
<1> QED  BY <1>5, <1>6, <1>7

-----------------------------------------------------------------------------
(* Sorting the rows of a listing.                                            *)

\* The positions D of rows have an order in which the points fall.
Falling(rows, D) ==
    \E m \in Nat : \E p \in [1..m -> D] :
       /\ \A d \in D : \E i \in 1..m : p[i] = d
       /\ \A i, j \in 1..m : i < j => rows[p[i]] > rows[p[j]]

\* An injective sequence of points can be sorted: so can any of its positions with points up
\* to k.
LEMMA Sortable ==
  ASSUME NEW rows \in Seq(Point), IsInjective(rows), NEW k \in Nat, NEW D \in SUBSET DOMAIN rows,
         \A d \in D : rows[d] <= k
  PROVE  Falling(rows, D)
<1> DEFINE Upto(n) == {C \in SUBSET DOMAIN rows : \A d \in C : rows[d] <= n}
           Sorts(m, p, C) == /\ \A d \in C : \E i \in 1..m : p[i] = d
                             /\ \A i, j \in 1..m : i < j => rows[p[i]] > rows[p[j]]
           Good == {n \in Nat : \A C \in Upto(n) : \E m \in Nat : \E p \in [1..m -> C] : Sorts(m, p, C)}
<1>1. \A d \in DOMAIN rows : rows[d] \in 1..MaxPoints
  <2>1. \A d \in DOMAIN rows : rows[d] \in Point
    OBVIOUS
  <2> QED  BY <2>1 DEF Point
<1>2. 0 \in Good
  <2> SUFFICES ASSUME NEW C \in Upto(0) PROVE \E m \in Nat : \E p \in [1..m -> C] : Sorts(m, p, C)
    OBVIOUS
  <2>1. C = {}
    BY <1>1, RestoreAssumption
  <2>2. PICK p : p = [i \in 1..0 |-> 0]
    OBVIOUS
  <2>3. p \in [1..0 -> C]
    BY <2>2
  <2>4. Sorts(0, p, C)
    BY <2>1
  <2> QED  BY <2>3, <2>4
<1>3. ASSUME NEW n \in Good PROVE n + 1 \in Good
  <2>0. n \in Nat /\ \A C \in Upto(n) : \E m \in Nat : \E p \in [1..m -> C] : Sorts(m, p, C)
    OBVIOUS
  <2> SUFFICES ASSUME NEW C \in Upto(n + 1)
               PROVE \E m \in Nat : \E p \in [1..m -> C] : Sorts(m, p, C)
    <3> HIDE DEF Upto, Sorts
    <3> QED  BY <2>0
  <2>1. CASE \A d \in C : rows[d] <= n
    <3>1. C \in Upto(n)
      BY <2>1
    <3> QED  BY <2>0, <3>1
  <2>2. CASE \E d \in C : ~(rows[d] <= n)
    <3>1. PICK d \in C : ~(rows[d] <= n)
      BY <2>2
    <3>2. \A e \in C : rows[e] \in Int /\ rows[e] <= n + 1
      BY <1>1, RestoreAssumption
    <3>3. rows[d] = n + 1
      BY <3>1, <3>2
    <3>4. PICK B : B = C \ {d}
      OBVIOUS
    <3>5. \A e \in B : rows[e] # rows[d]
      BY <3>4 DEF IsInjective
    <3>6. B \in Upto(n)
      BY <3>2, <3>3, <3>4, <3>5
    <3>7a. PICK m \in Nat : \E p \in [1..m -> B] : Sorts(m, p, B)
      BY <2>0, <3>6
    <3>7. PICK p \in [1..m -> B] : Sorts(m, p, B)
      BY <3>7a
    <3>8. PICK q : q = [i \in 1..(m + 1) |-> IF i = 1 THEN d ELSE p[i - 1]]
      OBVIOUS
    <3>9. \A i \in 1..(m + 1) : i # 1 => i - 1 \in 1..m /\ q[i] = p[i - 1] /\ q[i] \in B
      BY <3>8
    <3>10. 1 \in 1..(m + 1) /\ q[1] = d
      BY <3>8
    <3>11. q \in [1..(m + 1) -> C]
      BY <3>4, <3>8, <3>9
    <3>12. ASSUME NEW e \in C PROVE \E i \in 1..(m + 1) : q[i] = e
      <4>1. CASE e = d
        BY <3>10, <4>1
      <4>2. CASE e # d
        <5>1. PICK i \in 1..m : p[i] = e
          BY <3>4, <3>7, <4>2
        <5>2. i + 1 \in 1..(m + 1) /\ i + 1 # 1 /\ (i + 1) - 1 = i
          OBVIOUS
        <5>3. q[i + 1] = e
          BY <3>9, <5>1, <5>2
        <5> QED  BY <5>2, <5>3
      <4> QED  BY <4>1, <4>2
    <3>13. ASSUME NEW i \in 1..(m + 1), NEW j \in 1..(m + 1), i < j
           PROVE  rows[q[i]] > rows[q[j]]
      <4>1. j # 1 /\ q[j] \in B /\ q[j] = p[j - 1] /\ j - 1 \in 1..m
        BY <3>9, <3>13
      <4>2. CASE i = 1
        <5>1. rows[q[j]] <= n /\ rows[q[j]] \in Int
          BY <3>2, <3>4, <3>6, <4>1
        <5> QED  BY <3>3, <3>10, <4>2, <5>1
      <4>3. CASE i # 1
        <5>1. i - 1 \in 1..m /\ q[i] = p[i - 1] /\ i - 1 < j - 1
          BY <3>9, <3>13, <4>3
        <5>2. rows[p[i - 1]] > rows[p[j - 1]]
          BY <3>7, <4>1, <5>1
        <5> QED  BY <4>1, <5>1, <5>2
      <4> QED  BY <4>2, <4>3
    <3>14. Sorts(m + 1, q, C)
      BY <3>12, <3>13
    <3>15. m + 1 \in Nat
      OBVIOUS
    <3> HIDE DEF Sorts
    <3> QED  BY <3>11, <3>14, <3>15
  <2> QED  BY <2>1, <2>2
<1>4. Nat \subseteq Good
  <2> HIDE DEF Good
  <2>1. Good \in SUBSET Nat
    BY DEF Good
  <2> QED  BY <1>2, <1>3, <2>1, NumberInduction
<1>5. D \in Upto(k)
  OBVIOUS
<1>6. \E m \in Nat : \E p \in [1..m -> D] : Sorts(m, p, D)
  <2> HIDE DEF Upto, Sorts
  <2> QED  BY <1>4, <1>5
<1> QED  BY <1>6 DEF Falling

\* list returns the points it has read, the newest first.
LEMMA Sorted ==
  ASSUME NEW rows \in Seq(Point), IsInjective(rows)
  PROVE  /\ NewestFirst(rows) \in Seq(Point)
         /\ Range(NewestFirst(rows)) = Range(rows)
         /\ \A i, j \in DOMAIN NewestFirst(rows) :
              i < j => NewestFirst(rows)[i] > NewestFirst(rows)[j]
<1>1. PICK n \in Nat : DOMAIN rows = 1..n /\ n = Len(rows)
  OBVIOUS
<1>2. \A i \in 1..n : rows[i] \in Nat /\ rows[i] <= MaxPoints /\ rows[i] \in Point
  BY <1>1, RestoreAssumption DEF Point
<1> DEFINE Falls(p) == \A i, j \in DOMAIN rows : i < j => rows[p[i]] >= rows[p[j]]
           order == CHOOSE p \in Bijection(DOMAIN rows, DOMAIN rows) : Falls(p)
<1>3. \E p \in Bijection(DOMAIN rows, DOMAIN rows) : Falls(p)
  <2>0. PICK m \in Nat : \E p \in [1..m -> 1..n] :
             /\ \A d \in 1..n : \E i \in 1..m : p[i] = d
             /\ \A i, j \in 1..m : i < j => rows[p[i]] > rows[p[j]]
    <3>1. PICK D : D = DOMAIN rows
      OBVIOUS
    <3>2. D \in SUBSET DOMAIN rows /\ \A d \in D : rows[d] <= MaxPoints
      BY <1>1, <1>2, <3>1
    <3>3. PICK k \in Nat : k = MaxPoints
      BY RestoreAssumption
    <3>6. \A d \in D : rows[d] <= k
      BY <3>2, <3>3
    <3>4. Falling(rows, D)
      BY <3>2, <3>6, Sortable
    <3>5. D = 1..n
      BY <1>1, <3>1
    <3> QED  BY <3>4, <3>5 DEF Falling
  <2>1. PICK p \in [1..m -> 1..n] :
             /\ \A d \in 1..n : \E i \in 1..m : p[i] = d
             /\ \A i, j \in 1..m : i < j => rows[p[i]] > rows[p[j]]
    BY <2>0
  <2>2. ASSUME NEW i \in 1..m, NEW j \in 1..m, p[i] = p[j] PROVE i = j
    <3>0. rows[p[i]] \in Nat
      BY <1>2, <2>1
    <3>1. ~(i < j) /\ ~(j < i)
      BY <2>1, <2>2, <3>0
    <3> QED  BY <3>1
  <2>3. p \in Bijection(1..m, 1..n)
    BY <2>1, <2>2 DEF Bijection, Injection, Surjection, IsInjective
  <2>4. m = n
    <3>1. IsFiniteSet(1..m) /\ Cardinality(1..m) = m /\ Cardinality(1..n) = n
      BY FS_Interval
    <3> QED  BY <2>3, <3>1, FS_Bijection DEF ExistsBijection
  <2>5. Falls(p)
    <3>1. \A i \in 1..n : rows[p[i]] \in Nat
      BY <1>2, <2>1, <2>4
    <3>2. \A i, j \in 1..n : i < j => rows[p[i]] > rows[p[j]]
      BY <2>1, <2>4
    <3>3. \A i, j \in 1..n : i < j => rows[p[i]] >= rows[p[j]]
      BY <3>1, <3>2
    <3> QED  BY <1>1, <3>3, Zenon
  <2> QED  BY <1>1, <2>3, <2>4, <2>5
<1>4. PICK q : q = order
  OBVIOUS
<1>5. q \in Bijection(1..n, 1..n) /\ Falls(q)
  <2> HIDE DEF Falls
  <2> QED  BY <1>1, <1>3, <1>4
<1>6. /\ q \in [1..n -> 1..n] /\ \A i, j \in 1..n : q[i] = q[j] => i = j
      /\ \A d \in 1..n : \E i \in 1..n : q[i] = d
  BY <1>5 DEF Bijection, Injection, Surjection, IsInjective
<1>7. PICK s : s = NewestFirst(rows)
  OBVIOUS
<1>8. s = [i \in 1..n |-> rows[q[i]]]
  <2>1. NewestFirst(rows) = [i \in DOMAIN rows |-> rows[order[i]]]
    BY DEF NewestFirst
  <2>2. s = [i \in DOMAIN rows |-> rows[q[i]]]
    <3> HIDE DEF order
    <3> QED  BY <1>4, <1>7, <2>1
  <2> QED  BY <1>1, <2>2
<1>9. s \in Seq(Point) /\ DOMAIN s = 1..n
  BY <1>2, <1>6, <1>8
<1>10. Range(s) = Range(rows)
  <2>1. ASSUME NEW x \in Range(s) PROVE x \in Range(rows)
    <3>1. PICK i \in 1..n : x = s[i]
      BY <1>9 DEF Range
    <3>2. x = rows[q[i]] /\ q[i] \in DOMAIN rows
      BY <1>1, <1>6, <1>8, <3>1
    <3> QED  BY <3>2 DEF Range
  <2>2. ASSUME NEW x \in Range(rows) PROVE x \in Range(s)
    <3>1. PICK d \in 1..n : x = rows[d]
      BY <1>1 DEF Range
    <3>2. PICK i \in 1..n : q[i] = d
      BY <1>6
    <3>3. s[i] = x /\ i \in DOMAIN s
      BY <1>8, <1>9, <3>1, <3>2
    <3> QED  BY <3>3 DEF Range
  <2> QED  BY <2>1, <2>2
<1>11. ASSUME NEW i \in 1..n, NEW j \in 1..n, i < j PROVE s[i] > s[j]
  <2>1. q[i] \in 1..n /\ q[j] \in 1..n /\ q[i] # q[j]
    BY <1>6, <1>11
  <2>2. rows[q[i]] # rows[q[j]]
    BY <1>1, <2>1 DEF IsInjective
  <2>3. rows[q[i]] >= rows[q[j]]
    BY <1>1, <1>5, <1>11
  <2> QED  BY <1>2, <1>8, <2>1, <2>2, <2>3
<1> QED  BY <1>7, <1>9, <1>10, <1>11

-----------------------------------------------------------------------------
(* What listing knows, action by action.                                     *)

\* A listing in progress: its record, and what stays.
LEMMA ListRecord ==
  ASSUME RpInv, NEW r, r = rp["list"]
  PROVE  /\ "list" \in RpOp /\ r \in RpRecord /\ rp \in [RpOp -> RpRecord]
         /\ points \in Seq(BOOLEAN) /\ DOMAIN points \subseteq Point
         /\ listed \in [at : {"none", "returned"}, err : BOOLEAN, rows : Seq(Point),
                        bad : SUBSET Point, snapshot : SUBSET Point]
         /\ r.at \in {"begin", "end", "acquire", "rows", "row"} \/ r.outcome = "ok" => policy
         /\ r.rows \in Seq(Point) /\ r.feed \subseteq Point /\ r.bad \subseteq Point
         /\ r.snapshot \subseteq Point /\ r.n \in 0..(MaxRestorePoints + 6)
         /\ r.errs \in 0..MaxRowErrors
<1>1. "list" \in RpOp /\ r \in RpRecord /\ rp \in [RpOp -> RpRecord]
      /\ points \in Seq(BOOLEAN) /\ Len(points) <= MaxPoints
  BY DEF RpInv, RpTypes, RpOp
<1>2. DOMAIN points \subseteq Point
  BY <1>1, RestoreAssumption DEF Point
<1>3. listed \in [at : {"none", "returned"}, err : BOOLEAN, rows : Seq(Point),
                  bad : SUBSET Point, snapshot : SUBSET Point]
  BY DEF RpInv, RpTypes
<1>4. r.at \in {"begin", "end", "acquire", "rows", "row"} \/ r.outcome = "ok" => policy
  BY <1>1 DEF RpInv, Secured
<1>5. /\ r.rows \in Seq(Point) /\ r.feed \subseteq Point /\ r.bad \subseteq Point
      /\ r.snapshot \subseteq Point /\ r.n \in 0..(MaxRestorePoints + 6)
      /\ r.errs \in 0..MaxRowErrors
  BY <1>1 DEF RpRecord
<1> QED  BY <1>1, <1>2, <1>3, <1>4, <1>5

LEMMA BeginListInv ==
  ASSUME RpInv, BeginList
  PROVE  RpInv'
<1>1. /\ rp' = [rp EXCEPT !["list"] = [NoOp EXCEPT !.at = "enter"]] /\ listed' = NotListed
      /\ UNCHANGED <<points, policy, security, once, created>>
  BY DEF BeginList
<1>2. PICK s : s = [NoOp EXCEPT !.at = "enter"]
  OBVIOUS
<1>3. /\ s \in RpRecord /\ s.at = "enter" /\ s.outcome = "unset" /\ s.rows = <<>> /\ s.bad = {}
      /\ s.errs = 0 /\ s.dropped = FALSE /\ s.n = 0
  BY <1>2, FreshRecord DEF NoOp
<1>4. rp'["list"] = s
  BY <1>1, <1>2, ListRecord
<1>5. Listing'
  BY <1>3, <1>4 DEF Listing
<1>6. ListedTruthful'
  BY <1>1 DEF ListedTruthful, NotListed
<1> QED  BY <1>1, <1>2, <1>3, <1>5, <1>6, FreshRecord, ListKeeps

\* A listing that goes on: what it returns is still the old answer.
LEMMA ListMoves ==
  ASSUME RpInv, NEW s \in RpRecord, rp' = [rp EXCEPT !["list"] = s],
         UNCHANGED <<points, policy, security, once, created, listed>>,
         s.at \in {"acquire", "rows", "row", "leave"}, s.outcome = rp["list"].outcome,
         rp["list"].at \in {"acquire", "rows", "row"},
         s.at = "acquire" => s.rows = <<>> /\ s.bad = {} /\ s.errs = 0 /\ ~s.dropped /\ s.n <= 5,
         s.at = "rows" => s.n <= MaxRestorePoints,
         s.at = "row" => s.n < MaxRestorePoints /\ s.row \in Point,
         s.at \in {"rows", "row"} => /\ s.bad # {} => s.errs > 0 \/ s.dropped
                                     /\ ~s.runaway => RowsMatch(s),
         s.at = "leave" => ListedWell(s)
  PROVE  RpInv'
<1>1. rp'["list"] = s
  BY ListRecord
<1>2. Listing'
  BY <1>1 DEF Listing, RowsMatch, ListedWell
<1>3. ListedTruthful'
  BY DEF RpInv, ListedTruthful
<1>4. policy
  BY ListRecord
<1> QED  BY <1>2, <1>3, <1>4, ListRecord, ListKeeps

LEMMA AbortListInv ==
  ASSUME RpInv, Abort("list"), rp["list"].at \in {"acquire", "rows", "row"},
         UNCHANGED <<points, policy, security, once, created, listed>>
  PROVE  RpInv'
<1>1. PICK r : r = rp["list"]
  OBVIOUS
<1>2. PICK s : s = [r EXCEPT !.at = "leave", !.err = TRUE, !.rows = <<>>]
  OBVIOUS
<1>3. "list" \in RpOp /\ r \in RpRecord /\ RpTypes
  BY <1>1, ListRecord DEF RpInv
<1>4. s \in RpRecord
  BY <1>1, <1>2, <1>3, RecordsTyped
<1>5. s.at = "leave" /\ s.err = TRUE /\ s.rows = <<>> /\ s.outcome = r.outcome
  BY <1>2, <1>3 DEF RpRecord
<1>6. rp' = [rp EXCEPT !["list"] = s]
  BY <1>1, <1>2 DEF Abort
<1>7. ListedWell(s)
  BY <1>5 DEF ListedWell
<1> QED  BY <1>1, <1>4, <1>5, <1>6, <1>7, ListMoves

LEMMA ObtainNextInv ==
  ASSUME RpInv, ObtainNext
  PROVE  RpInv'
<1>1. PICK r : r = rp["list"]
  OBVIOUS
<1>2. /\ r.at = "acquire" /\ r.rows = <<>> /\ r.bad = {} /\ r.errs = 0 /\ ~r.dropped /\ r.n <= 5
      /\ UNCHANGED <<points, policy, security, once, created, listed>>
  BY <1>1 DEF ObtainNext, RpInv, Listing
<1>3. r \in RpRecord /\ r.n \in Nat /\ DOMAIN points \subseteq Point
  BY <1>1, ListRecord
<1>4. CASE Abort("list")
  BY <1>1, <1>2, <1>4, AbortListInv
<1>5. CASE ListObtains[r.n + 1] # "enum" /\ rp' = [rp EXCEPT !["list"].n = @ + 1]
  <2>1. r.n + 1 <= 5
    BY <1>2, <1>3, <1>5 DEF ListObtains
  <2>2. PICK m : m = r.n + 1
    OBVIOUS
  <2>3. m \in 0..(MaxRestorePoints + 6) /\ m <= 5
    BY <1>3, <2>1, <2>2, RestoreAssumption
  <2>4. PICK s : s = [r EXCEPT !.n = m]
    OBVIOUS
  <2>5. rp' = [rp EXCEPT !["list"] = s]
    BY <1>1, <1>5, <2>2, <2>4
  <2>6. /\ s \in RpRecord /\ s.at = "acquire" /\ s.outcome = r.outcome /\ s.rows = <<>>
        /\ s.bad = {} /\ s.errs = 0 /\ ~s.dropped /\ s.n = m
    BY <1>2, <1>3, <2>3, <2>4 DEF RpRecord
  <2> QED  BY <1>1, <1>2, <2>3, <2>5, <2>6, ListMoves
<1>6. CASE \E runaway \in BOOLEAN :
             rp' = [rp EXCEPT !["list"].at = "rows", !["list"].n = 0,
                              !["list"].feed = DOMAIN points,
                              !["list"].snapshot = DOMAIN points,
                              !["list"].runaway = runaway]
  <2>1. PICK runaway \in BOOLEAN :
             rp' = [rp EXCEPT !["list"].at = "rows", !["list"].n = 0,
                              !["list"].feed = DOMAIN points,
                              !["list"].snapshot = DOMAIN points,
                              !["list"].runaway = runaway]
    BY <1>6
  <2>2. PICK D : D = DOMAIN points
    OBVIOUS
  <2>3. PICK s : s = [r EXCEPT !.at = "rows", !.n = 0, !.feed = D, !.snapshot = D,
                               !.runaway = runaway]
    OBVIOUS
  <2>4. rp' = [rp EXCEPT !["list"] = s]
    BY <1>1, <2>1, <2>2, <2>3, ListRecord
  <2>5. D \in SUBSET Point /\ 0 \in 0..(MaxRestorePoints + 6) /\ 0 <= MaxRestorePoints
    BY <1>3, <2>2, RestoreAssumption
  <2>6. s \in RpRecord
    <3>1. PICK none \in 0..(MaxRestorePoints + 6) : none = 0
      BY <2>5
    <3>2. s = [r EXCEPT !.at = "rows", !.n = none, !.feed = D, !.snapshot = D,
                        !.runaway = runaway]
      BY <2>3, <3>1
    <3> QED  BY <1>3, <2>1, <2>5, <3>2 DEF RpRecord
  <2>7. /\ s.at = "rows" /\ s.outcome = r.outcome /\ s.rows = <<>> /\ s.bad = {} /\ s.n = 0
        /\ s.feed = D /\ s.snapshot = D
    BY <1>2, <1>3, <2>3 DEF RpRecord
  <2>8. RowsMatch(s)
    <3>1. Range(s.rows) = {} /\ IsInjective(s.rows)
      BY <2>7 DEF Range, IsInjective
    <3> QED  BY <2>7, <3>1 DEF RowsMatch
  <2> QED  BY <1>1, <1>2, <2>4, <2>5, <2>6, <2>7, <2>8, ListMoves
<1> QED  BY <1>1, <1>4, <1>5, <1>6 DEF ObtainNext

LEMMA NextRowInv ==
  ASSUME RpInv, NextRow
  PROVE  RpInv'
<1>1. PICK r : r = rp["list"]
  OBVIOUS
<1>2. /\ r.at = "rows" /\ (r.bad # {} => r.errs > 0 \/ r.dropped) /\ (~r.runaway => RowsMatch(r))
      /\ UNCHANGED <<points, policy, security, once, created, listed>>
  BY <1>1 DEF NextRow, RpInv, Listing
<1>3. r \in RpRecord /\ r.feed \subseteq Point /\ r.snapshot \subseteq Point
  BY <1>1, ListRecord
<1>4. CASE Abort("list")
  BY <1>1, <1>2, <1>4, AbortListInv
<1>5. CASE /\ r.n < MaxRestorePoints
           /\ \E row \in IF r.runaway THEN r.snapshot ELSE r.feed :
                rp' = [rp EXCEPT !["list"].at = "row", !["list"].row = row,
                                 !["list"].feed = @ \ {row}]
  <2>1. PICK row \in IF r.runaway THEN r.snapshot ELSE r.feed :
                rp' = [rp EXCEPT !["list"].at = "row", !["list"].row = row,
                                 !["list"].feed = @ \ {row}]
    BY <1>5
  <2>2. PICK F : F = r.feed \ {row}
    OBVIOUS
  <2>3. PICK s : s = [r EXCEPT !.at = "row", !.row = row, !.feed = F]
    OBVIOUS
  <2>4. rp' = [rp EXCEPT !["list"] = s]
    BY <1>1, <2>1, <2>2, <2>3, ListRecord
  <2>5. row \in Point /\ row \in 0..MaxPoints /\ F \in SUBSET Point
    BY <1>3, <2>1, <2>2, RestoreAssumption DEF Point
  <2>6. /\ s \in RpRecord /\ s.at = "row" /\ s.row = row /\ s.outcome = r.outcome /\ s.n = r.n
        /\ s.bad = r.bad /\ s.errs = r.errs /\ s.dropped = r.dropped /\ s.runaway = r.runaway
        /\ s.rows = r.rows /\ s.snapshot = r.snapshot /\ s.feed = F
    BY <1>3, <2>3, <2>5 DEF RpRecord
  <2>7. ~s.runaway => RowsMatch(s)
    BY <1>2, <2>1, <2>2, <2>6 DEF RowsMatch
  <2> QED  BY <1>1, <1>2, <1>5, <2>4, <2>5, <2>6, <2>7, ListMoves
<1> QED  BY <1>1, <1>4, <1>5 DEF NextRow

\* A row is given back: it was malformed ...
LEMMA MalformedInv ==
  ASSUME RpInv, rp["list"].at = "row", rp' = [rp EXCEPT !["list"] = Malformed(@)],
         UNCHANGED <<points, policy, security, once, created, listed>>
  PROVE  RpInv'
<1>1. PICK r : r = rp["list"]
  OBVIOUS
<1>2. /\ r.at = "row" /\ (~r.runaway => RowsMatch(r)) /\ r.n < MaxRestorePoints /\ r.row \in Point
  BY <1>1 DEF RpInv, Listing
<1>3. /\ r \in RpRecord /\ r.bad \subseteq Point /\ r.n \in Nat /\ r.errs \in 0..MaxRowErrors
      /\ r.dropped \in BOOLEAN
  BY <1>1, ListRecord DEF RpRecord
<1>4. PICK n, B, e, d : /\ n = r.n + 1 /\ B = r.bad \cup {r.row}
                        /\ e = (IF r.errs < MaxRowErrors THEN r.errs + 1 ELSE r.errs)
                        /\ d = (r.dropped \/ r.errs = MaxRowErrors)
  OBVIOUS
<1>5. PICK s : s = [r EXCEPT !.at = "rows", !.n = n, !.bad = B, !.errs = e, !.dropped = d]
  OBVIOUS
<1>6. rp' = [rp EXCEPT !["list"] = s]
  <2>1. Malformed(r) = s
    BY <1>4, <1>5 DEF Malformed
  <2> QED  BY <1>1, <2>1, ListRecord
<1>7. /\ n \in 0..(MaxRestorePoints + 6) /\ n <= MaxRestorePoints /\ B \in SUBSET Point
      /\ e \in 0..MaxRowErrors /\ d \in BOOLEAN /\ (e > 0 \/ d)
  <2>1. n \in 0..(MaxRestorePoints + 6) /\ n <= MaxRestorePoints /\ B \in SUBSET Point
    BY <1>2, <1>3, <1>4, RestoreAssumption
  <2>2. e \in 0..MaxRowErrors /\ (e > 0 \/ r.errs = MaxRowErrors)
    BY <1>3, <1>4, RestoreAssumption
  <2>3. d \in BOOLEAN /\ (r.errs = MaxRowErrors => d)
    BY <1>4
  <2> QED  BY <2>1, <2>2, <2>3
<1>8. /\ s \in RpRecord /\ s.at = "rows" /\ s.n = n /\ s.outcome = r.outcome /\ s.bad = B
      /\ s.errs = e /\ s.dropped = d /\ s.rows = r.rows /\ s.feed = r.feed
      /\ s.snapshot = r.snapshot /\ s.runaway = r.runaway
  BY <1>3, <1>5, <1>7 DEF RpRecord
<1>9. ~s.runaway => RowsMatch(s)
  BY <1>2, <1>4, <1>8 DEF RowsMatch
<1> QED  BY <1>1, <1>2, <1>6, <1>7, <1>8, <1>9, ListMoves

\* ... or it is appended to the others.
LEMMA GoodRowInv ==
  ASSUME RpInv, rp["list"].at = "row",
         rp' = [rp EXCEPT !["list"].at = "rows", !["list"].n = @ + 1,
                          !["list"].rows = Append(@, rp["list"].row)],
         UNCHANGED <<points, policy, security, once, created, listed>>
  PROVE  RpInv'
<1>1. PICK r : r = rp["list"]
  OBVIOUS
<1>2. /\ r.at = "row" /\ (~r.runaway => RowsMatch(r)) /\ r.n < MaxRestorePoints /\ r.row \in Point
      /\ (r.bad # {} => r.errs > 0 \/ r.dropped)
  BY <1>1 DEF RpInv, Listing
<1>3. r \in RpRecord /\ r.n \in Nat /\ r.rows \in Seq(Point)
  BY <1>1, ListRecord
<1>4. PICK n, w : n = r.n + 1 /\ w = Append(r.rows, r.row)
  OBVIOUS
<1>5. PICK s : s = [r EXCEPT !.at = "rows", !.n = n, !.rows = w]
  OBVIOUS
<1>6. rp' = [rp EXCEPT !["list"] = s]
  BY <1>1, <1>4, <1>5, ListRecord
<1>7. n \in 0..(MaxRestorePoints + 6) /\ n <= MaxRestorePoints /\ w \in Seq(Point)
  BY <1>2, <1>3, <1>4, RestoreAssumption
<1>8. /\ s \in RpRecord /\ s.at = "rows" /\ s.n = n /\ s.outcome = r.outcome /\ s.bad = r.bad
      /\ s.errs = r.errs /\ s.dropped = r.dropped /\ s.rows = w /\ s.feed = r.feed
      /\ s.snapshot = r.snapshot /\ s.runaway = r.runaway
  BY <1>3, <1>5, <1>7 DEF RpRecord
<1>9. ASSUME ~s.runaway PROVE RowsMatch(s)
  <2>1. RowsMatch(r)
    BY <1>2, <1>8, <1>9
  <2>2. PICK k \in Nat : k = Len(r.rows)
    BY <1>3
  <2>3. /\ DOMAIN w = 1..(k + 1) /\ DOMAIN r.rows = 1..k
        /\ \A i \in 1..(k + 1) : w[i] = IF i = k + 1 THEN r.row ELSE r.rows[i]
    BY <1>2, <1>3, <1>4, <2>2
  <2>4. Range(w) = Range(r.rows) \cup {r.row}
    <3>1. ASSUME NEW x \in Range(w) PROVE x \in Range(r.rows) \cup {r.row}
      <4>1. PICK i \in DOMAIN w : x = w[i]
        BY DEF Range
      <4>2. CASE i = k + 1
        BY <2>3, <4>1, <4>2
      <4>3. CASE i # k + 1
        <5>1. i \in DOMAIN r.rows /\ x = r.rows[i]
          BY <2>3, <4>1, <4>3
        <5> QED  BY <5>1 DEF Range
      <4> QED  BY <4>2, <4>3
    <3>2. ASSUME NEW x \in Range(r.rows) \cup {r.row} PROVE x \in Range(w)
      <4>1. CASE x = r.row
        <5>1. k + 1 \in DOMAIN w /\ w[k + 1] = x
          BY <2>3, <4>1
        <5> QED  BY <5>1 DEF Range
      <4>2. CASE x \in Range(r.rows)
        <5>1. PICK i \in DOMAIN r.rows : x = r.rows[i]
          BY <4>2 DEF Range
        <5>2. i \in DOMAIN w /\ w[i] = x
          BY <2>3, <5>1
        <5> QED  BY <5>2 DEF Range
      <4> QED  BY <3>2, <4>1, <4>2
    <3> QED  BY <3>1, <3>2
  <2>5. r.row \notin Range(r.rows)
    BY <1>2, <2>1 DEF RowsMatch
  <2>6. IsInjective(w)
    <3>1. \A i \in DOMAIN r.rows : r.rows[i] # r.row
      BY <2>5 DEF Range
    <3>2. \A i, j \in 1..k : r.rows[i] = r.rows[j] => i = j
      BY <2>1, <2>3 DEF RowsMatch, IsInjective
    <3> QED  BY <2>3, <3>1, <3>2 DEF IsInjective
  <2> QED  BY <1>2, <1>8, <2>1, <2>4, <2>6 DEF RowsMatch
<1> QED  BY <1>1, <1>2, <1>6, <1>7, <1>8, <1>9, ListMoves

LEMMA ReadRowInv ==
  ASSUME RpInv, ReadRow
  PROVE  RpInv'
<1>1. rp["list"].at = "row" /\ UNCHANGED <<points, policy, security, once, created, listed>>
  BY DEF ReadRow
<1>2. \/ rp' = [rp EXCEPT !["list"] = Malformed(@)]
      \/ rp' = [rp EXCEPT !["list"].at = "rows", !["list"].n = @ + 1,
                          !["list"].rows = Append(@, rp["list"].row)]
      \/ Abort("list")
  BY DEF ReadRow
<1> QED  BY <1>1, <1>2, MalformedInv, GoodRowInv, AbortListInv

\* The last row has been read: the rows are sorted.
LEMMA EndRowsInv ==
  ASSUME RpInv, EndRows
  PROVE  RpInv'
<1>1. PICK r : r = rp["list"]
  OBVIOUS
<1>2. /\ r.at = "rows" /\ RowsMatch(r) /\ r.feed = {} /\ (r.bad # {} => r.errs > 0 \/ r.dropped)
      /\ UNCHANGED <<points, policy, security, once, created, listed>>
  BY <1>1 DEF EndRows, RpInv, Listing
<1>3. r \in RpRecord /\ r.rows \in Seq(Point)
  BY <1>1, ListRecord
<1>4. PICK w, e : w = NewestFirst(r.rows) /\ e = (r.errs > 0 \/ r.dropped)
  OBVIOUS
<1>5. PICK s : s = [r EXCEPT !.at = "leave", !.rows = w, !.err = e]
  OBVIOUS
<1>6. rp' = [rp EXCEPT !["list"] = s]
  <2>1. rp' = [rp EXCEPT !["list"].at = "leave", !["list"].rows = NewestFirst(@),
                         !["list"].err = rp["list"].errs > 0 \/ rp["list"].dropped]
    BY DEF EndRows
  <2> QED  BY <1>1, <1>4, <1>5, <2>1, ListRecord
<1>7. /\ w \in Seq(Point) /\ Range(w) = Range(r.rows)
      /\ \A i, j \in DOMAIN w : i < j => w[i] > w[j]
  BY <1>2, <1>3, <1>4, Sorted DEF RowsMatch
<1>8. /\ s \in RpRecord /\ s.at = "leave" /\ s.outcome = r.outcome /\ s.rows = w /\ s.err = e
      /\ s.bad = r.bad /\ s.snapshot = r.snapshot
  <2>1. e \in BOOLEAN
    BY <1>4
  <2> QED  BY <1>3, <1>5, <1>7, <2>1 DEF RpRecord
<1>9. ListedWell(s)
  <2>1. r.snapshot = Range(w) \cup r.bad /\ Range(w) \cap r.bad = {}
    BY <1>2, <1>7 DEF RowsMatch
  <2>2. ~e => r.bad = {}
    BY <1>2, <1>4
  <2> QED  BY <1>7, <1>8, <2>1, <2>2 DEF ListedWell
<1> QED  BY <1>1, <1>2, <1>6, <1>8, <1>9, ListMoves

\* The operation returns what it knows.
LEMMA RpReturnInv ==
  ASSUME RpInv, NEW o \in RpOp, RpReturn(o)
  PROVE  RpInv'
<1>1. PICK r : r = rp[o]
  OBVIOUS
<1>2. /\ r.at = "leave" /\ rp' = [rp EXCEPT ![o] = NoOp] /\ r \in RpRecord
      /\ UNCHANGED <<points, policy, security, once>>
  BY <1>1 DEF RpReturn, RpInv, RpTypes
<1>3. PICK s : s = NoOp
  OBVIOUS
<1>4. /\ s \in RpRecord /\ s.at = "idle" /\ s.outcome = "unset" /\ s.number = 0 /\ ~s.err
      /\ s.rows = <<>> /\ s.bad = {} /\ s.errs = 0 /\ ~s.dropped /\ s.n = 0
  BY <1>3, FreshRecord DEF NoOp
<1>5. rp' = [rp EXCEPT ![o] = s] /\ rp'[o] = s
  BY <1>2, <1>3, <1>4, OneRecord DEF RpInv
<1>6. CASE o = "create"
  <2>1. UNCHANGED listed /\ created' = [at |-> "returned", err |-> r.err, number |-> r.number]
    BY <1>1, <1>6 DEF RpReturn
  <2>2. r.err \in BOOLEAN /\ r.number \in 0..MaxPoints
    BY <1>2 DEF RpRecord
  <2>3. created' \in [at : {"none", "returned"}, err : BOOLEAN, number : 0..MaxPoints]
    BY <2>1, <2>2
  <2>4. Creation'
    BY <1>4, <1>5, <1>6, <1>2 DEF RpInv, Creation, RpTypes
  <2>5. CreatedTruthful'
    BY <1>1, <1>2, <1>6, <2>1 DEF RpInv, Creation, CreatedTruthful
  <2>6. points \in Seq(BOOLEAN) /\ Len(points) <= MaxPoints
    BY DEF RpInv, RpTypes
  <2> QED  BY <1>2, <1>4, <1>5, <1>6, <2>1, <2>3, <2>4, <2>5, <2>6, CreateKeeps
<1>7. CASE o = "list"
  <2>1. /\ UNCHANGED created
        /\ listed' = [at |-> "returned", err |-> r.err, rows |-> r.rows,
                      bad |-> r.bad, snapshot |-> r.snapshot]
    BY <1>1, <1>7 DEF RpReturn
  <2>2. /\ r.err \in BOOLEAN /\ r.rows \in Seq(Point) /\ r.bad \in SUBSET Point
        /\ r.snapshot \in SUBSET Point
    BY <1>2 DEF RpRecord
  <2>3. listed' \in [at : {"none", "returned"}, err : BOOLEAN, rows : Seq(Point),
                     bad : SUBSET Point, snapshot : SUBSET Point]
    BY <2>1, <2>2
  <2>4. Listing'
    BY <1>4, <1>5, <1>7 DEF Listing
  <2>5. ListedTruthful'
    <3>1. ListedWell(r)
      BY <1>1, <1>2, <1>7 DEF RpInv, Listing
    <3> QED  BY <2>1, <3>1 DEF ListedWell, ListedTruthful
  <2> QED  BY <1>2, <1>4, <1>5, <1>7, <2>1, <2>3, <2>4, <2>5, ListKeeps
<1> QED  BY <1>6, <1>7 DEF RpOp

\* What is not touched stays true.
LEMMA RpSame ==
  ASSUME RpInv, UNCHANGED <<points, policy, security, once, rp, created, listed>>
  PROVE  RpInv'
BY DEF RpInv, RpTypes, Secured, Creation, Listing, RowsMatch, ListedWell, CreatedTruthful,
       ListedTruthful

LEMMA RpStepInv ==
  ASSUME RpInv, NEW o \in RpOp, RpStep(o) \/ BeginCreate \/ BeginList
  PROVE  RpInv'
<1>1. ASSUME RpUnwind(o) PROVE RpInv'
  BY <1>1, RpSame DEF RpUnwind
<1> QED  BY <1>1, EntryInv, ChangeInv, BeginCreateInv, BeginListInv, ObtainNextInv, NextRowInv,
            ReadRowInv, EndRowsInv, RpReturnInv DEF RpStep

-----------------------------------------------------------------------------
(* The throttle.                                                             *)

\* A step of create is a step of a creation in progress, which is over only with an answer.
LEMMA CreateStepEnds ==
  ASSUME RpTypes, RpStep("create")
  PROVE  /\ rp["create"].at # "idle"
         /\ rp'["create"].at = "idle" => created'.at = "returned"
<1> DEFINE o == "create"
<1>1. rp \in [RpOp -> RpRecord] /\ o \in RpOp
  BY DEF RpTypes, RpOp
<1>2. CASE EnterCom(o) \/ AfterSecurity(o)
  <2>1. \/ Goto(o, "security") \/ Goto(o, "begin") \/ Abort(o)
    BY <1>2 DEF EnterCom, AfterSecurity
  <2>2. rp'[o].at \in {"security", "begin", "leave"}
    BY <1>1, <2>1, GotoAt, AbortAt
  <2> QED  BY <1>2, <2>2 DEF EnterCom, AfterSecurity
<1>3. CASE BeginOnce(o) \/ EndOnce(o)
  <2>1. rp'[o].at \in {"sids", "security"}
    BY <1>1, <1>3, GotoAt DEF BeginOnce, EndOnce
  <2> QED  BY <1>3, <2>1 DEF BeginOnce, EndOnce
<1>4. CASE MakeSid(o) \/ MakeAcl(o) \/ Configure(o)
  <2>1. rp[o].at \in {"sids", "configure"}
    BY <1>4 DEF MakeSid, MakeAcl, Configure
  <2>2. \/ rp' = [rp EXCEPT ![o].sids = @ + 1] \/ Goto(o, "configure") \/ Outcome(o, "ok")
        \/ Outcome(o, "failed")
    BY <1>4 DEF MakeSid, MakeAcl, Configure
  <2>3. CASE rp' = [rp EXCEPT ![o].sids = @ + 1]
    <3>1. rp'[o].at = rp[o].at
      BY <1>1, <2>3 DEF RpRecord
    <3> QED  BY <2>1, <3>1
  <2>4. CASE Goto(o, "configure") \/ Outcome(o, "ok") \/ Outcome(o, "failed")
    <3>1. rp'[o].at \in {"configure", "configured"}
      BY <1>1, <2>4, GotoAt, OutcomeAt
    <3> QED  BY <2>1, <3>1
  <2> QED  BY <2>2, <2>3, <2>4
<1>5. CASE RpUnwind(o)
  BY <1>5 DEF RpUnwind
<1>6. CASE RpReturn(o)
  <2>1. created'.at = "returned"
    <3>1. PICK e, n : created' = [at |-> "returned", err |-> e, number |-> n]
      BY <1>6 DEF RpReturn
    <3> QED  BY <3>1
  <2> QED  BY <1>6, <2>1 DEF RpReturn
<1>7. CASE BeginChange \/ EndChange
  <2>1. rp[o].at \in {"begin", "end"}
    BY <1>7 DEF BeginChange, EndChange
  <2>2. \/ \E n : rp' = [rp EXCEPT !["create"].at = "end", !["create"].number = n]
        \/ Goto("create", "leave") \/ Abort("create")
    BY <1>7 DEF BeginChange, EndChange
  <2>3. rp'[o].at \in {"end", "leave"}
    <3>1. CASE \E n : rp' = [rp EXCEPT !["create"].at = "end", !["create"].number = n]
      <4>1. PICK n : rp' = [rp EXCEPT !["create"].at = "end", !["create"].number = n]
        BY <3>1
      <4> QED  BY <1>1, <4>1 DEF RpRecord
    <3>2. CASE Goto("create", "leave") \/ Abort("create")
      BY <1>1, <3>2, GotoAt, AbortAt
    <3> QED  BY <2>2, <3>1, <3>2
  <2> QED  BY <2>1, <2>3
<1> QED  BY <1>2, <1>3, <1>4, <1>5, <1>6, <1>7 DEF RpStep

\* How a creation begins.
LEMMA BeginCreateAt ==
  ASSUME RpTypes, BeginCreate
  PROVE  /\ UNCHANGED points
         /\ rp'["create"].at = "idle" => created'.at = "returned"
<1>1. rp \in [RpOp -> RpRecord] /\ "create" \in RpOp
  BY DEF RpTypes, RpOp
<1>2. CASE rp' = [rp EXCEPT !["create"] = [NoOp EXCEPT !.at = "enter"]]
  <2>1. rp'["create"].at = "enter"
    BY <1>1, <1>2 DEF NoOp
  <2> QED  BY <2>1 DEF BeginCreate
<1>3. CASE created' = [NotCreated EXCEPT !.at = "returned", !.err = TRUE]
  <2>1. created'.at = "returned"
    BY <1>3 DEF NotCreated
  <2> QED  BY <2>1 DEF BeginCreate
<1> QED  BY <1>2, <1>3 DEF BeginCreate

\* Numbers of the clock.
LEMMA Clock ==
  ASSUME ThrottleTypeOK
  PROVE  /\ now \in Nat /\ Hour \in Nat /\ asker.since \in Nat /\ last \subseteq Nat
         /\ \A s \in successes : s.since \in Nat /\ s.end \in Nat
         /\ MaxTime \in Nat /\ reply.since \in Nat
BY ThrottleAssumption DEF ThrottleTypeOK

\* Restore points outside the throttle.
LEMMA UnthrottledInv ==
  ASSUME ThrottleInv, session # "throttle", UNCHANGED <<session, OnlyThrottle>>
  PROVE  ThrottleInv'
<1>1. asker = Nobody /\ reply = NoReply /\ asker.at = "idle" /\ reply.how = "none"
  BY DEF ThrottleInv, Nobody, NoReply
<1>2. UNCHANGED <<session, now, logger, last, asker, reply, successes>>
  BY DEF OnlyThrottle
<1>3. ThrottleTypeOK'
  BY <1>2 DEF ThrottleInv, ThrottleTypeOK
<1>4. Throttled'
  BY <1>1, <1>2 DEF Throttled
<1> QED  BY <1>1, <1>2, <1>3, <1>4 DEF ThrottleInv

LEMMA TimePassesInv ==
  ASSUME ThrottleInv, UNCHANGED session, TimePasses
  PROVE  ThrottleInv'
<1>1. UNCHANGED <<session, points, rp, created, logger, last, asker, reply, successes>> /\ now' = now + 1
      /\ now < MaxTime
  BY DEF TimePasses, rpVars
<1>2. /\ now \in Nat /\ Hour \in Nat /\ asker.since \in Nat
      /\ \A s \in successes : s.since \in Nat /\ s.end \in Nat
      /\ MaxTime \in Nat
  BY Clock DEF ThrottleInv
<1>3. ThrottleTypeOK'
  <2>1. now' \in 0..MaxTime
    BY <1>1, <1>2
  <2> QED  BY <1>1, <2>1 DEF ThrottleInv, ThrottleTypeOK
<1>4. /\ asker.at = "creating" => asker.since <= now'
      /\ \A s \in successes : s.end <= now'
  BY <1>1, <1>2 DEF ThrottleInv
<1>5. Throttled'
  BY <1>1 DEF ThrottleInv, Throttled
<1> QED  BY <1>1, <1>3, <1>4, <1>5 DEF ThrottleInv

LEMMA SkipInv ==
  ASSUME ThrottleInv, session = "throttle", UNCHANGED session, Skip
  PROVE  ThrottleInv'
<1>1. /\ UNCHANGED <<session, points, rp, created, now, logger, last, asker, successes>>
      /\ reply' = [NoReply EXCEPT !.how = "skipped", !.since = now]
      /\ asker.at = "idle" /\ Recent
  BY DEF Skip, rpVars
<1>2. /\ now \in Nat /\ Hour \in Nat /\ last \subseteq Nat
      /\ \A s \in successes : s.since \in Nat /\ s.end \in Nat
  BY Clock DEF ThrottleInv
<1>3. /\ reply'.how = "skipped" /\ reply'.since = now
      /\ reply' = [how |-> "skipped", err |-> FALSE, recorded |-> FALSE, since |-> now]
  BY <1>1 DEF NoReply
<1>4. ThrottleTypeOK'
  <2>1. now \in 0..MaxTime
    BY DEF ThrottleInv, ThrottleTypeOK
  <2>2. reply' \in [how : {"none", "off", "skipped", "auto", "manual"}, err : BOOLEAN,
                    recorded : BOOLEAN, since : 0..MaxTime]
    BY <1>3, <2>1
  <2> QED  BY <1>1, <2>2 DEF ThrottleInv, ThrottleTypeOK
<1>5. \E s \in successes : now - s.end < Hour
  <2>1. PICK t \in last : now - t < Hour
    BY <1>1 DEF Recent
  <2>2. PICK s \in successes : t <= s.end
    BY DEF ThrottleInv
  <2>3. now - s.end < Hour
    BY <1>2, <2>1, <2>2
  <2> QED  BY <2>3
<1>6. Throttled'
  BY <1>1, <1>3, <1>5 DEF Throttled
<1> QED  BY <1>1, <1>4, <1>6 DEF ThrottleInv

\* A mutation that wants no restore point changes what was told last, and nothing else.
LEMMA OffInv ==
  ASSUME ThrottleInv, session = "throttle", UNCHANGED session, Off
  PROVE  ThrottleInv'
<1>1. /\ UNCHANGED <<session, points, rp, created, now, logger, last, asker, successes>>
      /\ reply' = [how |-> "off", err |-> FALSE, recorded |-> FALSE, since |-> now]
      /\ asker.at = "idle"
  BY DEF Off, rpVars, NoReply
<1>2. ThrottleTypeOK'
  <2>1. now \in 0..MaxTime
    BY DEF ThrottleInv, ThrottleTypeOK
  <2>2. reply' \in [how : {"none", "off", "skipped", "auto", "manual"}, err : BOOLEAN,
                    recorded : BOOLEAN, since : 0..MaxTime]
    BY <1>1, <2>1
  <2> QED  BY <1>1, <2>2 DEF ThrottleInv, ThrottleTypeOK
<1>3. Throttled'
  BY <1>1 DEF Throttled
<1> QED  BY <1>1, <1>2, <1>3 DEF ThrottleInv

\* A creation begins, on behalf of a mutation or of the user.
LEMMA AskInv ==
  ASSUME RpInv, ThrottleInv, session = "throttle", UNCHANGED session, NEW how \in {"auto", "manual"},
         asker.at = "idle", BeginCreate, how = "auto" => ~Recent,
         asker' = [at |-> "creating", how |-> how, since |-> now], reply' = NoReply,
         UNCHANGED <<now, logger, last, successes>>
  PROVE  ThrottleInv'
<1>1. /\ now \in Nat /\ Hour \in Nat /\ last \subseteq Nat /\ now \in 0..MaxTime
      /\ \A s \in successes : s.since \in Nat /\ s.end \in Nat
  BY Clock DEF ThrottleInv, ThrottleTypeOK
<1>2. ThrottleTypeOK'
  <2>1. 0 \in 0..MaxTime
    BY ThrottleAssumption
  <2>2. PICK zero \in 0..MaxTime : zero = 0
    BY <2>1
  <2>3. reply' = [how |-> "none", err |-> FALSE, recorded |-> FALSE, since |-> zero]
    BY <2>2 DEF NoReply
  <2> QED  BY <1>1, <2>3 DEF ThrottleInv, ThrottleTypeOK
<1>3. rp'["create"].at = "idle" => created'.at = "returned"
  BY BeginCreateAt DEF RpInv
<1>4. asker'.at = "creating" /\ asker'.since = now /\ asker'.how = how
  OBVIOUS
<1>5. \A s \in successes : s.end <= now
  BY DEF ThrottleInv
<1>6. how = "auto" => \A s \in successes : now - s.since >= Hour
  <2> SUFFICES ASSUME how = "auto", NEW s \in successes PROVE now - s.since >= Hour
    OBVIOUS
  <2>1. PICK t \in last : s.since <= t
    BY DEF ThrottleInv
  <2>2. ~(now - t < Hour)
    BY DEF Recent
  <2> QED  BY <1>1, <2>1, <2>2
<1>7. reply'.how = "none"
  BY DEF NoReply
<1>8. Throttled'
  BY <1>4, <1>6, <1>7 DEF Throttled
<1>9. /\ \A s \in successes : s.since <= s.end /\ s.end <= now
      /\ successes # {} => last # {}
      /\ \A t \in last : /\ \A s \in successes : s.since <= t
                         /\ \E s \in successes : t <= s.end
  BY DEF ThrottleInv
<1> QED  BY <1>1, <1>2, <1>3, <1>4, <1>5, <1>8, <1>9 DEF ThrottleInv

\* Only a creation in progress changes points and what was created.
LEMMA CreateStepInv ==
  ASSUME RpInv, ThrottleInv, session = "throttle", UNCHANGED session, CreateStep
  PROVE  ThrottleInv'
<1>1. RpStep("create") /\ UNCHANGED <<session, now, logger, last, asker, reply, successes>>
  BY DEF CreateStep
<1>2. asker.at = "creating" /\ (rp'["create"].at = "idle" => created'.at = "returned")
  BY <1>1, CreateStepEnds DEF RpInv, ThrottleInv
<1>3. reply = NoReply /\ reply.how = "none"
  BY <1>2 DEF ThrottleInv, NoReply
<1>4. ThrottleTypeOK'
  BY <1>1 DEF ThrottleInv, ThrottleTypeOK
<1>5. Throttled'
  BY <1>1, <1>3 DEF ThrottleInv, Throttled
<1> QED  BY <1>1, <1>2, <1>3, <1>4, <1>5 DEF ThrottleInv

LEMMA EndCreateInv ==
  ASSUME RpInv, ThrottleInv, session = "throttle", UNCHANGED session, EndCreate
  PROVE  ThrottleInv'
<1>1. /\ asker.at = "creating" /\ rp["create"].at = "idle" /\ asker' = Nobody
      /\ UNCHANGED <<session, points, rp, created, now, logger>> /\ Succeeded
      /\ last' = IF created.err THEN last
                 ELSE {IF asker.how = "auto" THEN asker.since ELSE now}
  BY DEF EndCreate, Creating, rpVars
<1>2. PICK recorded \in BOOLEAN :
         reply' = [how |-> asker.how, err |-> created.err \/ (logger /\ ~recorded),
                   recorded |-> recorded, since |-> asker.since]
  <2>1. (IF logger THEN BOOLEAN ELSE {FALSE}) \subseteq BOOLEAN /\ reply' \in Answers
    BY DEF EndCreate
  <2> QED  BY <2>1 DEF Answers
<1>3. /\ now \in Nat /\ Hour \in Nat /\ last \subseteq Nat /\ now \in 0..MaxTime
      /\ \A s \in successes : s.since \in Nat /\ s.end \in Nat
      /\ asker.since \in Nat /\ asker.since \in 0..MaxTime /\ asker.how \in {"auto", "manual"}
      /\ logger \in BOOLEAN
  BY Clock DEF ThrottleInv, ThrottleTypeOK
<1>4. asker'.at = "idle" /\ asker' \in [at : {"idle", "creating"}, how : {"auto", "manual"}, since : 0..MaxTime]
  <2>1. 0 \in 0..MaxTime
    BY ThrottleAssumption
  <2>2. PICK zero \in 0..MaxTime : zero = 0
    BY <2>1
  <2>3. asker' = [at |-> "idle", how |-> "auto", since |-> zero]
    BY <1>1, <2>2 DEF Nobody
  <2> QED  BY <2>3
<1>5. /\ created.at = "returned" /\ asker.since <= now
      /\ \A s \in successes : s.since <= s.end /\ s.end <= now /\ s.end <= asker.since
  BY <1>1 DEF ThrottleInv
<1>6. reply'.how = asker.how /\ reply'.recorded = recorded /\ reply'.since = asker.since
      /\ reply'.err = (created.err \/ (logger /\ ~recorded))
      /\ reply' \in [how : {"none", "off", "skipped", "auto", "manual"}, err : BOOLEAN,
                     recorded : BOOLEAN, since : 0..MaxTime]
  <2>1. PICK e \in BOOLEAN : e = (created.err \/ (logger /\ ~recorded))
    <3>1. (created.err \/ (logger /\ ~recorded)) \in BOOLEAN
      OBVIOUS
    <3> QED  BY Zenon, <3>1
  <2>2. reply' = [how |-> asker.how, err |-> e, recorded |-> recorded, since |-> asker.since]
    BY <1>2, <2>1
  <2> QED  BY <1>3, <2>1, <2>2
<1>7. Throttled'
  <2>1. reply'.how \notin {"skipped"} /\ asker'.at # "creating"
    BY <1>3, <1>4, <1>6
  <2>2. ASSUME ~reply'.err
        PROVE  (logger => recorded) /\ created.number # 0 /\ points[created.number]
    <3>1. (logger => recorded) /\ ~created.err
      BY <1>6, <2>2
    <3> QED  BY <1>5, <3>1 DEF RpInv, CreatedTruthful
  <2> QED  BY <1>1, <1>6, <2>1, <2>2 DEF Throttled
<1>8. CASE created.err
  <2>1. last' = last /\ successes' = successes
    BY <1>1, <1>8 DEF Succeeded
  <2>2. ThrottleTypeOK'
    BY <1>1, <1>4, <1>6, <2>1 DEF ThrottleInv, ThrottleTypeOK
  <2> QED  BY <1>1, <1>4, <1>7, <2>1, <2>2 DEF ThrottleInv
<1>9. CASE ~created.err
  <2>1. PICK t, new : /\ t = (IF asker.how = "auto" THEN asker.since ELSE now)
                      /\ new = [since |-> asker.since, end |-> now]
    OBVIOUS
  <2>2. last' = {t} /\ successes' = successes \cup {new}
    BY <1>1, <1>9, <2>1 DEF Succeeded
  <2>3. /\ new \in [since : 0..MaxTime, end : 0..MaxTime] /\ new.since = asker.since
        /\ new.end = now /\ t \in 0..MaxTime /\ t \in Nat /\ asker.since <= t /\ t <= now
    BY <1>3, <1>5, <2>1
  <2>4. ThrottleTypeOK'
    <3>1. Cardinality({t}) <= 1
      <4>1. Cardinality({t}) = 1
        BY FS_Singleton
      <4> QED  BY <4>1
    <3>2. last' \subseteq 0..MaxTime /\ Cardinality(last') <= 1
      BY <2>2, <2>3, <3>1
    <3>3. successes' \subseteq [since : 0..MaxTime, end : 0..MaxTime]
      BY <2>2, <2>3 DEF ThrottleInv, ThrottleTypeOK
    <3> QED  BY <1>1, <1>3, <1>4, <1>6, <3>2, <3>3 DEF ThrottleTypeOK
  <2>5. \A s \in successes' : s.since <= s.end /\ s.end <= now /\ s.since <= t
    BY <1>3, <1>5, <2>2, <2>3
  <2>6. \E s \in successes' : t <= s.end
    BY <2>2, <2>3
  <2> QED  BY <1>1, <1>4, <1>7, <2>2, <2>4, <2>5, <2>6 DEF ThrottleInv
<1> QED  BY <1>8, <1>9

LEMMA ThrottleStepInv ==
  ASSUME RpInv, ThrottleInv, session = "throttle", UNCHANGED session, ThrottleNext
  PROVE  ThrottleInv'
<1>1. ASSUME Ensure PROVE ThrottleInv'
  <2>1. PICK how \in {"auto", "manual"} : how = "auto"
    OBVIOUS
  <2>2. asker' = [at |-> "creating", how |-> how, since |-> now]
    BY <1>1, <2>1 DEF Ensure
  <2> QED  BY <1>1, <2>2, AskInv DEF Ensure
<1>2. ASSUME CreateRestorePoint PROVE ThrottleInv'
  <2>1. PICK how \in {"auto", "manual"} : how = "manual"
    OBVIOUS
  <2>2. asker' = [at |-> "creating", how |-> how, since |-> now]
    BY <1>2, <2>1 DEF CreateRestorePoint
  <2> QED  BY <1>2, <2>1, <2>2, AskInv DEF CreateRestorePoint
<1> QED  BY <1>1, <1>2, TimePassesInv, OffInv, SkipInv, CreateStepInv, EndCreateInv DEF ThrottleNext

-----------------------------------------------------------------------------
(* The books of the update client, action by action.                         *)

LEMMA MeIs == Me \in Operation /\ Me = "update" /\ Me # "call"
BY DEF Me, Operation

\* What a step of the client does to the books.
UcKept == Tables' /\ UcBooks' /\ OnlyBooks(Me)

\* Its apartment is entered and nothing is held that it has not deferred.
UcInside == client.at \notin {"idle", "enter", "connect", "leave"}

LEMMA GoAt ==
  ASSUME UcTypes, NEW place, Go(place)
  PROVE  client'.at = place
BY DEF Go, UcTypes, UcRecord

LEMMA QuitAt ==
  ASSUME UcTypes, Quit
  PROVE  client'.at = "leave"
<1>1. PICK none : none = {}
  OBVIOUS
<1>2. client' = [client EXCEPT !.at = "leave", !.err = TRUE, !.list = none]
  BY <1>1 DEF Quit
<1> QED  BY <1>2 DEF UcTypes, UcRecord

\* The place of the client changes and its books do not.
LEMMA UcStay ==
  ASSUME Tables, UcBooks, UNCHANGED comVars, UcExtra' = UcExtra,
         client'.at \in {"idle", "enter", "connect"} => deferred[Me] = <<>>,
         client'.at \notin {"idle", "enter", "connect", "leave"} => Entered(deferred[Me])
  PROVE  UcKept
<1>1. Tables' /\ OnlyBooks(Me) /\ deferred'[Me] = deferred[Me]
  BY SameBooks
<1>2. PICK extra : extra = UcExtra
  OBVIOUS
<1>3. Books(Me, extra)'
  BY <1>2, SameBooks, ExtraWas DEF UcBooks
<1>4. Books(Me, UcExtra)'
  BY <1>2, <1>3, ExtraIs
<1>5. UcStack'
  BY <1>1 DEF UcBooks, UcStack, NoCallIn, Entered
<1> QED  BY <1>1, <1>4, <1>5 DEF UcKept, UcBooks

\* The client obtains something, takes something, or gives it back.
LEMMA UcObtain ==
  ASSUME Tables, UcBooks, UcInside, UcExtra = {}, UcExtra' = {},
         client'.at \notin {"idle", "enter", "connect"},
         NEW r \in Memory[Me] \cup Interface[Me], Obtain(Me, r)
  PROVE  UcKept
<1>1. PICK none : none = {}
  OBVIOUS
<1>2. Books(Me, none) /\ Entered(deferred[Me]) /\ NoCallIn(deferred[Me])
  BY <1>1, ExtraWas, MeIs DEF UcBooks, UcStack, UcInside
<1>3. /\ Tables' /\ Books(Me, none)' /\ OnlyBooks(Me) /\ Entered(deferred'[Me])
      /\ NoCallIn(deferred'[Me])
  BY <1>2, MeIs, PointerBooks
<1>4. Books(Me, UcExtra)'
  BY <1>1, <1>3, ExtraIs
<1>5. UcStack'
  BY <1>3 DEF UcStack, NoCallIn, Entered
<1> QED  BY <1>3, <1>4, <1>5 DEF UcKept, UcBooks

LEMMA UcTake ==
  ASSUME Tables, UcBooks, UcInside, NEW r \in Resource(Me), Take(Me, r),
         UcExtra = {}, UcExtra' = {r}, client'.at \notin {"idle", "enter", "connect"}
  PROVE  UcKept
<1>1. PICK none, one : none = {} /\ one = none \cup {r}
  OBVIOUS
<1>2. /\ Books(Me, none) /\ Entered(deferred[Me]) /\ NoCallIn(deferred[Me]) /\ r \notin none
      /\ one = {r}
  BY <1>1, ExtraWas, MeIs DEF UcBooks, UcStack, UcInside
<1>3. Tables' /\ Books(Me, none \cup {r})' /\ OnlyBooks(Me) /\ deferred'[Me] = deferred[Me]
  BY <1>2, MeIs, TakeBooks
<1>4. Books(Me, UcExtra)'
  <2>1. UcExtra' = none \cup {r}
    BY <1>1
  <2> QED  BY <1>3, <2>1 DEF Books
<1>5. UcStack'
  BY <1>2, <1>3 DEF UcStack, NoCallIn, Entered
<1> QED  BY <1>3, <1>4, <1>5 DEF UcKept, UcBooks

LEMMA UcGive ==
  ASSUME Tables, UcBooks, UcInside, NEW r \in Resource(Me), Give(Me, r),
         UcExtra = {r}, UcExtra' = {}, client'.at \notin {"idle", "enter", "connect"}
  PROVE  UcKept
<1>1. PICK none, one : none = {} /\ one = none \cup {r}
  OBVIOUS
<1>2. Books(Me, one) /\ Entered(deferred[Me]) /\ NoCallIn(deferred[Me]) /\ r \notin none
  <2>1. one = UcExtra
    BY <1>1
  <2>2. Books(Me, one)
    BY <2>1, ExtraWas, MeIs DEF UcBooks
  <2> QED  BY <1>1, <2>2 DEF UcBooks, UcStack, UcInside
<1>3. Tables' /\ Books(Me, none)' /\ OnlyBooks(Me) /\ deferred'[Me] = deferred[Me]
  <2>1. Books(Me, none \cup {r})
    BY <1>1, <1>2
  <2> QED  BY <1>2, <2>1, MeIs, GiveBooks
<1>4. Books(Me, UcExtra)'
  BY <1>1, <1>3, ExtraIs
<1>5. UcStack'
  BY <1>2, <1>3 DEF UcStack, NoCallIn, Entered
<1> QED  BY <1>3, <1>4, <1>5 DEF UcKept, UcBooks

\* The client gives up, holding nothing in particular.
LEMMA UcQuitBooks ==
  ASSUME Tables, UcTypes, UcBooks, Quit, UNCHANGED comVars, UcExtra = {}
  PROVE  UcKept
<1>1. client'.at = "leave"
  BY QuitAt
<1>2. UcExtra' = UcExtra
  BY <1>1 DEF UcExtra
<1> QED  BY <1>1, <1>2, UcStay

LEMMA BeginCallBooks ==
  ASSUME Tables, UcTypes, UcBooks, NEW kind, BeginCall(kind)
  PROVE  UcKept
<1>1. client.at = "idle" /\ UNCHANGED comVars
      /\ client' = [NoCall EXCEPT !.at = "enter", !.kind = kind]
  BY DEF BeginCall
<1>2. client'.at = "enter"
  BY <1>1 DEF NoCall
<1>3. UcExtra' = UcExtra /\ deferred[Me] = <<>>
  BY <1>1, <1>2 DEF UcExtra, UcBooks, UcStack
<1> QED  BY <1>1, <1>2, <1>3, UcStay

LEMMA EnterThreadBooks ==
  ASSUME Tables, UcTypes, UcBooks, EnterThread
  PROVE  UcKept
<1>1. client.at = "enter" /\ UcExtra = {} /\ deferred[Me] = <<>>
  BY DEF EnterThread, UcExtra, UcBooks, UcStack
<1>2. CASE TakeApartment(Me) /\ Go("connect")
  <2>1. Books(Me, {})
    BY <1>1, ExtraWas, MeIs DEF UcBooks
  <2>2. Tables' /\ Books(Me, Plain)' /\ OnlyBooks(Me) /\ deferred'[Me] = <<>>
    BY <1>1, <1>2, <2>1, MeIs, TakeApartmentBooks
  <2>3. client'.at = "connect"
    BY <1>2, GoAt
  <2>4. UcExtra' = Plain
    BY <2>3 DEF UcExtra
  <2>5. Books(Me, UcExtra)'
    BY <2>2, <2>4, ExtraIs
  <2>6. UcStack'
    BY <2>2, <2>3 DEF UcStack, NoCallIn
  <2> QED  BY <2>2, <2>5, <2>6 DEF UcKept, UcBooks
<1>3. CASE Quit /\ UNCHANGED comVars
  BY <1>1, <1>3, UcQuitBooks
<1> QED  BY <1>2, <1>3 DEF EnterThread

LEMMA ConnectStepBooks ==
  ASSUME Tables, UcTypes, UcBooks, Connect
  PROVE  UcKept
<1>1. client.at = "connect" /\ UcExtra = Plain /\ deferred[Me] = <<>>
  BY DEF Connect, UcExtra, UcBooks, UcStack
<1>2. Books(Me, Plain)
  BY <1>1, ExtraWas, MeIs DEF UcBooks
<1>3. CASE /\ held' = [held EXCEPT ![Me]["session"] = @ + 1]
           /\ deferred' = [deferred EXCEPT ![Me] = @ \o <<"thread", "apartment", "session">>]
           /\ Go("obtain")
  <2>1. Tables' /\ Books(Me, {})' /\ OnlyBooks(Me) /\ Entered(deferred'[Me])
    BY <1>1, <1>2, <1>3, ConnectBooks DEF Me
  <2>2. deferred'[Me] = <<"thread", "apartment", "session">>
    BY <1>1, <1>3, MeIs DEF Tables
  <2>3. client'.at = "obtain"
    BY <1>3, GoAt
  <2>4. UcExtra' = {}
    BY <2>3 DEF UcExtra
  <2>5. Books(Me, UcExtra)'
    BY <2>1, <2>4, ExtraIs
  <2>6. NoCallIn(deferred'[Me])
    BY <2>2 DEF NoCallIn
  <2>7. UcStack'
    BY <2>1, <2>3, <2>6 DEF UcStack, NoCallIn, Entered
  <2> QED  BY <2>1, <2>5, <2>7 DEF UcKept, UcBooks
<1>4. CASE GiveApartment(Me) /\ Quit
  <2>1. Tables' /\ Books(Me, {})' /\ OnlyBooks(Me) /\ deferred'[Me] = <<>>
    BY <1>1, <1>2, <1>4, MeIs, GiveApartmentBooks
  <2>2. client'.at = "leave"
    BY <1>4, QuitAt
  <2>3. UcExtra' = {}
    BY <2>2 DEF UcExtra
  <2>4. Books(Me, UcExtra)'
    BY <2>1, <2>3, ExtraIs
  <2>5. UcStack'
    BY <2>1, <2>2 DEF UcStack, NoCallIn
  <2> QED  BY <2>1, <2>4, <2>5 DEF UcKept, UcBooks
<1> QED  BY <1>3, <1>4 DEF Connect

\* What the client is to obtain; the result of the search is the fourth of it or the third.
LEMMA ObtainsAre ==
  ASSUME NEW kind \in Kind
  PROVE  /\ Len(Obtains(kind)) = IF kind = "install" THEN 5 ELSE 4
         /\ \A i \in 1..Len(Obtains(kind)) :
              /\ Obtains(kind)[i] \in Memory[Me] \cup Interface[Me]
              /\ Obtains(kind)[i] = "result" <=> i = IF kind = "install" THEN 4 ELSE 3
<1>1. PICK s, e : s = <<"searcher", "criteria", "result", "collection">> /\ e = <<"installer">>
  OBVIOUS
<1>2. {"installer", "searcher", "criteria", "result", "collection"} \subseteq Memory[Me] \cup Interface[Me]
  BY DEF Memory, Interface, Me
<1>3. CASE kind = "install"
  <2>1. PICK S : S = {"installer", "searcher", "criteria", "result", "collection"}
    OBVIOUS
  <2>2. s \in Seq(S) /\ e \in Seq(S) /\ Len(s) = 4 /\ Len(e) = 1
    BY <1>1, <2>1
  <2>3. PICK w : w = e \o s
    OBVIOUS
  <2>4. /\ w \in Seq(S) /\ Len(w) = 5
        /\ \A i \in 1..5 : w[i] = IF i <= 1 THEN e[i] ELSE s[i - 1]
    <3>1. w \in Seq(S) /\ Len(w) = Len(e) + Len(s)
      BY <2>2, <2>3, ConcatProperties
    <3>2. \A i \in 1..(Len(e) + Len(s)) : w[i] = IF i <= Len(e) THEN e[i] ELSE s[i - Len(e)]
      BY <2>2, <2>3, ConcatProperties
    <3> QED  BY <2>2, <3>1, <3>2
  <2>5. Obtains(kind) = w
    BY <1>1, <1>3, <2>3 DEF Obtains
  <2>6. /\ w[1] = "installer" /\ w[2] = "searcher" /\ w[3] = "criteria" /\ w[4] = "result"
        /\ w[5] = "collection"
    BY <1>1, <2>4
  <2>7. \A i \in 1..5 : i = 1 \/ i = 2 \/ i = 3 \/ i = 4 \/ i = 5
    OBVIOUS
  <2> QED  BY <1>2, <1>3, <2>4, <2>5, <2>6, <2>7
<1>4. CASE kind # "install"
  <2>1. Obtains(kind) = <<"searcher", "criteria", "result", "collection">>
    BY <1>4 DEF Obtains
  <2> QED  BY <1>2, <1>4, <2>1
<1> QED  BY <1>3, <1>4

LEMMA AcquireBooks ==
  ASSUME Tables, UcTypes, UcBooks, Acquire
  PROVE  UcKept
<1>1. client.at = "obtain" /\ UcExtra = {} /\ UcInside /\ client.n < Len(Obtains(client.kind))
  BY DEF Acquire, UcExtra, UcInside
<1>2. client \in UcRecord /\ client.kind \in Kind /\ client.n \in 0..5
  BY DEF UcTypes, UcRecord
<1>3. PICK i : i = client.n + 1
  OBVIOUS
<1>4. i \in 1..Len(Obtains(client.kind))
  BY <1>1, <1>2, <1>3, ObtainsAre
<1>5. PICK r : r = Obtains(client.kind)[i]
  OBVIOUS
<1>6. r \in Memory[Me] \cup Interface[Me]
  BY <1>2, <1>4, <1>5, ObtainsAre
<1>7. CASE Quit /\ UNCHANGED comVars
  BY <1>1, <1>7, UcQuitBooks
<1>8. CASE Obtain(Me, r) /\ client' = [client EXCEPT !.n = @ + 1]
  <2>1. client'.at = "obtain"
    BY <1>1, <1>2, <1>8 DEF UcRecord
  <2>2. UcExtra' = {}
    BY <2>1 DEF UcExtra
  <2> QED  BY <1>1, <1>6, <1>8, <2>1, <2>2, UcObtain
<1>9. CASE /\ Obtain(Me, r)
           /\ \E found \in SUBSET Matching(client.kind), code \in {"succeeded", "other"} :
                client' = [client EXCEPT
                   !.n = @ + 1, !.found = found, !.code = code, !.err = code = "other",
                   !.at = IF code = "other" THEN "leave" ELSE "obtain"]
  <2>0. PICK found \in SUBSET Matching(client.kind), code \in {"succeeded", "other"} :
             client' = [client EXCEPT
                !.n = @ + 1, !.found = found, !.code = code, !.err = code = "other",
                !.at = IF code = "other" THEN "leave" ELSE "obtain"]
    BY <1>9
  <2>1. PICK e, place :
           /\ e = (code = "other") /\ place = IF code = "other" THEN "leave" ELSE "obtain"
           /\ client' = [client EXCEPT !.n = @ + 1, !.found = found, !.code = code,
                                       !.err = e, !.at = place]
    BY <2>0
  <2>2. client'.at \in {"leave", "obtain"}
    BY <1>2, <2>1 DEF UcRecord
  <2>3. UcExtra' = {}
    BY <2>2 DEF UcExtra
  <2> QED  BY <1>1, <1>6, <1>9, <2>2, <2>3, UcObtain
<1> QED  BY <1>3, <1>5, <1>7, <1>8, <1>9 DEF Acquire

\* Steps that hold on to what they have.
LEMMA UcMoveBooks ==
  ASSUME Tables, UcTypes, UcBooks, Count \/ EndItems \/ EndResults
  PROVE  UcKept
<1>1. client.at \in {"obtain", "items", "results"} /\ UcExtra = {} /\ UNCHANGED comVars /\ UcInside
  BY DEF Count, EndItems, EndResults, UcExtra, UcInside
<1>2. client \in UcRecord
  BY DEF UcTypes
<1>3. client'.at \in {"items", "downloader", "install", "leave"}
  <2>1. CASE Count
    <3>1. \/ Quit
          \/ \E place \in {"items", "leave", "downloader"} :
               client' = [client EXCEPT !.todo = client.found, !.at = place]
      BY <2>1 DEF Count
    <3>2. ASSUME NEW place \in {"items", "leave", "downloader"},
                 client' = [client EXCEPT !.todo = client.found, !.at = place]
          PROVE  client'.at = place
      BY <1>2, <3>2 DEF UcRecord
    <3> QED  BY <3>1, <3>2, QuitAt
  <2>2. CASE EndItems
    BY <2>2, GoAt DEF EndItems
  <2>3. CASE EndResults
    <3>1. \/ client' = [client EXCEPT !.at = "leave", !.err = Failed] \/ Quit \/ Go("install")
      BY <2>3 DEF EndResults
    <3>2. ASSUME client' = [client EXCEPT !.at = "leave", !.err = Failed]
          PROVE  client'.at = "leave"
      <4>1. PICK e : e = Failed
        OBVIOUS
      <4>2. client' = [client EXCEPT !.at = "leave", !.err = e]
        BY <3>2, <4>1
      <4> QED  BY <1>2, <4>2 DEF UcRecord
    <3> QED  BY <3>1, <3>2, GoAt, QuitAt
  <2> QED  BY <2>1, <2>2, <2>3
<1>4. UcExtra' = UcExtra /\ Entered(deferred[Me])
  BY <1>1, <1>3 DEF UcExtra, UcBooks, UcStack
<1> QED  BY <1>1, <1>3, <1>4, UcStay

\* An update, or the result of one, is looked at.
LEMMA UcItemBooks ==
  ASSUME Tables, UcTypes, UcBooks, NEW u, GetItem(u) \/ GetUpdateResult(u)
  PROVE  UcKept
<1>1. client.at \in {"items", "results"} /\ UcExtra = {} /\ UcInside
  BY DEF GetItem, GetUpdateResult, UcExtra, UcInside
<1>2. client \in UcRecord /\ {"upd", "updateResult"} \subseteq Resource(Me)
  BY MeIs, Kinds DEF UcTypes, Interface
<1>3. CASE /\ Take(Me, "upd")
           /\ client' = [client EXCEPT !.at = "item", !.todo = @ \ {u}, !.now = {u}]
  <2>1. PICK one : one = {u}
    OBVIOUS
  <2>2. client' = [client EXCEPT !.at = "item", !.todo = @ \ one, !.now = one]
    BY <1>3, <2>1
  <2>3. client'.at = "item"
    BY <1>2, <2>2 DEF UcRecord
  <2>4. PICK r : r = "upd"
    OBVIOUS
  <2>5. UcExtra' = {r}
    BY <2>3, <2>4 DEF UcExtra
  <2>6. Take(Me, r) /\ r \in Resource(Me)
    BY <1>2, <1>3, <2>4
  <2> QED  BY <1>1, <2>3, <2>5, <2>6, UcTake
<1>4. CASE /\ Take(Me, "updateResult")
           /\ client' = [[client EXCEPT !.todo = @ \ {u}] EXCEPT !.at = "result", !.now = {u}]
  <2>1. PICK one : one = {u}
    OBVIOUS
  <2>2. client' = [client EXCEPT !.todo = @ \ one, !.at = "result", !.now = one]
    BY <1>4, <2>1
  <2>3. client'.at = "result"
    BY <1>2, <2>2 DEF UcRecord
  <2>4. PICK r : r = "updateResult"
    OBVIOUS
  <2>5. UcExtra' = {r}
    BY <2>3, <2>4 DEF UcExtra
  <2>6. Take(Me, r) /\ r \in Resource(Me)
    BY <1>2, <1>4, <2>4
  <2> QED  BY <1>1, <2>3, <2>5, <2>6, UcTake
<1>5. CASE Quit /\ UNCHANGED comVars
  BY <1>1, <1>5, UcQuitBooks
<1>6. CASE Noted([client EXCEPT !.todo = @ \ {u}]) /\ UNCHANGED comVars
  <2>1. PICK T : T = client.todo \ {u}
    OBVIOUS
  <2>2. \/ client' = [[client EXCEPT !.todo = T] EXCEPT !.truncated = TRUE]
        \/ client' = [[client EXCEPT !.todo = T] EXCEPT !.errs = @ + 1]
    BY <1>6, <2>1 DEF Noted
  <2>3. client'.at = client.at
    BY <1>2, <2>2 DEF UcRecord
  <2>4. UcExtra' = UcExtra /\ Entered(deferred[Me])
    BY <1>1, <2>3 DEF UcExtra, UcBooks, UcStack
  <2> QED  BY <1>1, <1>6, <2>3, <2>4, UcStay
<1> QED  BY <1>3, <1>4, <1>5, <1>6 DEF GetItem, GetUpdateResult

LEMMA UcReadBooks ==
  ASSUME Tables, UcTypes, UcBooks, ReadItem \/ ReadUpdateResult
  PROVE  UcKept
<1>1. client \in UcRecord /\ UcInside /\ {"upd", "updateResult"} \subseteq Resource(Me)
  BY MeIs, Kinds DEF UcTypes, Interface, ReadItem, ReadUpdateResult, UcInside
<1>2. client'.at \in {"items", "results", "leave"}
  <2>1. CASE ReadItem
    <3>1. PICK L, none : L = client.list \cup client.now /\ none = {}
      OBVIOUS
    <3>2. client' = [client EXCEPT !.at = "items", !.list = L, !.now = none] \/ Quit
      BY <1>1, <2>1, <3>1 DEF ReadItem
    <3>3. ASSUME client' = [client EXCEPT !.at = "items", !.list = L, !.now = none]
          PROVE  client'.at = "items"
      BY <1>1, <3>3 DEF UcRecord
    <3> QED  BY <3>2, <3>3, QuitAt
  <2>2. CASE ReadUpdateResult
    <3>1. PICK read, none : none = {} /\ read = [client EXCEPT !.at = "results", !.now = none]
      OBVIOUS
    <3>2. Noted(read) \/ client' = read
      BY <2>2, <3>1 DEF ReadUpdateResult
    <3>3. \/ client' = [read EXCEPT !.truncated = TRUE]
          \/ client' = [read EXCEPT !.errs = @ + 1]
          \/ client' = read
      BY <3>2 DEF Noted
    <3>4. client'.at = "results"
      BY <1>1, <3>1, <3>3 DEF UcRecord
    <3> QED  BY <3>4
  <2> QED  BY <2>1, <2>2
<1>3. UcExtra' = {}
  BY <1>2 DEF UcExtra
<1>4. CASE ReadItem
  <2>1. PICK r : r = "upd"
    OBVIOUS
  <2>2. r \in Resource(Me) /\ Give(Me, r) /\ UcExtra = {r}
    BY <1>1, <1>4, <2>1 DEF ReadItem, UcExtra
  <2> QED  BY <1>1, <1>2, <1>3, <2>2, UcGive
<1>5. CASE ReadUpdateResult
  <2>1. PICK r : r = "updateResult"
    OBVIOUS
  <2>2. r \in Resource(Me) /\ Give(Me, r) /\ UcExtra = {r}
    BY <1>1, <1>5, <2>1 DEF ReadUpdateResult, UcExtra
  <2> QED  BY <1>1, <1>2, <1>3, <2>2, UcGive
<1> QED  BY <1>4, <1>5

\* The objects of an installation are obtained one after the other.
LEMMA UcObjectBooks ==
  ASSUME Tables, UcTypes, UcBooks, ObtainDownloader \/ Download \/ Install
  PROVE  UcKept
<1>1. client.at \in {"downloader", "download", "install"} /\ UcExtra = {} /\ UcInside
      /\ client \in UcRecord
  BY DEF ObtainDownloader, Download, Install, Operate, UcExtra, UcInside, UcTypes
<1>2. \/ Quit /\ UNCHANGED comVars
      \/ \E r \in {"downloader", "downloadResult", "installResult"} :
           /\ Obtain(Me, r)
           /\ \/ Go("download") \/ Quit
              \/ \E phase, code : client' = [client EXCEPT !.at = "results", !.phase = phase,
                        !.code = code, !.todo = client.found, !.errs = 0, !.truncated = FALSE]
  <2>1. CASE ObtainDownloader
    BY <2>1 DEF ObtainDownloader
  <2>2. CASE Download
    BY <2>2 DEF Download, Operate
  <2>3. CASE Install
    BY <2>3 DEF Install, Operate
  <2> QED  BY <2>1, <2>2, <2>3
<1>3. CASE Quit /\ UNCHANGED comVars
  BY <1>1, <1>3, UcQuitBooks
<1>4. ASSUME NEW r \in {"downloader", "downloadResult", "installResult"}, Obtain(Me, r),
             \/ Go("download") \/ Quit
             \/ \E phase, code : client' = [client EXCEPT !.at = "results", !.phase = phase,
                        !.code = code, !.todo = client.found, !.errs = 0, !.truncated = FALSE]
      PROVE  UcKept
  <2>1. client'.at \in {"download", "results", "leave"}
    <3>1. CASE Go("download") \/ Quit
      BY <3>1, GoAt, QuitAt
    <3>2. CASE \E phase, code : client' = [client EXCEPT !.at = "results", !.phase = phase,
                        !.code = code, !.todo = client.found, !.errs = 0, !.truncated = FALSE]
      <4>1. PICK phase, code : client' = [client EXCEPT !.at = "results", !.phase = phase,
                        !.code = code, !.todo = client.found, !.errs = 0, !.truncated = FALSE]
        BY <3>2
      <4> QED  BY <1>1, <4>1 DEF UcRecord
    <3> QED  BY <1>4, <3>1, <3>2
  <2>2. UcExtra' = {}
    BY <2>1 DEF UcExtra
  <2>3. r \in Memory[Me] \cup Interface[Me]
    BY MeIs DEF Interface
  <2> QED  BY <1>1, <1>4, <2>1, <2>2, <2>3, UcObtain
<1> QED  BY <1>2, <1>3, <1>4

LEMMA UcUnwindBooks ==
  ASSUME Tables, UcTypes, UcBooks, UcUnwind
  PROVE  UcKept
<1>1. client.at = "leave" /\ RunDeferred(Me) /\ UNCHANGED client
  BY DEF UcUnwind
<1>2. PICK extra, d : extra = UcExtra /\ d = deferred[Me]
  OBVIOUS
<1>3. UcExtra' = extra /\ NoCallIn(d)
  BY <1>1, <1>2 DEF UcExtra, UcBooks, UcStack
<1>4. Books(Me, extra) /\ d \in Seq(Resource(Me) \cup {"call"})
  BY <1>2 DEF UcBooks, Books
<1>5. /\ Tables' /\ Books(Me, extra)' /\ OnlyBooks(Me)
      /\ d # <<>> /\ deferred'[Me] = Front(d)
  BY <1>1, <1>2, <1>4, MeIs, RunBooks
<1>6. PICK f, n : f = Front(d) /\ n = Len(d)
  OBVIOUS
<1>7. /\ n \in Nat \ {0} /\ DOMAIN f = 1..(n - 1) /\ DOMAIN d = 1..n
      /\ \A i \in 1..(n - 1) : f[i] = d[i]
  <2>1. f \in Seq(Resource(Me) \cup {"call"}) /\ Len(f) = n - 1
    BY <1>4, <1>5, <1>6, WithoutLast
  <2> QED  BY <1>4, <1>5, <1>6, <2>1, WithoutLast
<1>8. NoCallIn(f)
  BY <1>3, <1>7 DEF NoCallIn
<1>9. UcStack'
  BY <1>1, <1>5, <1>6, <1>8 DEF UcStack
<1>10. Books(Me, UcExtra)'
  BY <1>3, <1>5, ExtraIs
<1> QED  BY <1>5, <1>9, <1>10 DEF UcKept, UcBooks

LEMMA UcReturnBooks ==
  ASSUME Tables, UcTypes, UcBooks, UcReturn
  PROVE  UcKept
<1>1. client.at = "leave" /\ Returned(Me) /\ client' = NoCall /\ UcExtra = {} /\ NoCallIn(deferred[Me])
  BY DEF UcReturn, UcExtra, UcBooks, UcStack
<1>2. PICK d, none : d = deferred[Me] /\ none = {}
  OBVIOUS
<1>3. Books(Me, none)
  BY <1>1, <1>2, ExtraWas, MeIs DEF UcBooks
<1>4. /\ Tables' /\ Books(Me, none)' /\ OnlyBooks(Me)
      /\ \/ d = <<>> /\ deferred'[Me] = <<>>
         \/ d # <<>> /\ Last(d) = "call"
  BY <1>1, <1>2, <1>3, MeIs, ReturnBooks
<1>5. deferred'[Me] = <<>>
  <2>1. CASE d # <<>> /\ Last(d) = "call"
    <3>1. d \in Seq(Resource(Me) \cup {"call"})
      BY <1>2, <1>3 DEF Books
    <3>2. Last(d) = d[Len(d)] /\ Len(d) \in Nat \ {0}
      BY <2>1, <3>1, WithoutLast
    <3>3. Len(d) \in DOMAIN d
      BY <3>1, <3>2
    <3> QED  BY <1>1, <1>2, <2>1, <3>2, <3>3 DEF NoCallIn
  <2> QED  BY <1>4, <2>1
<1>6. client'.at = "idle"
  BY <1>1 DEF NoCall
<1>7. UcExtra' = none
  BY <1>2, <1>6 DEF UcExtra
<1>8. Books(Me, UcExtra)'
  BY <1>4, <1>7, ExtraIs
<1>9. UcStack'
  BY <1>5, <1>6 DEF UcStack, NoCallIn
<1> QED  BY <1>4, <1>8, <1>9 DEF UcKept, UcBooks

\* A step of the update client keeps the books of all operations.
LEMMA UcAllBooks ==
  ASSUME AllBooks, UcTypes, UcNext, UNCHANGED <<rp, removal, async>>
  PROVE  AllBooks'
<1>1. UcKept
  <2>1. Tables /\ UcBooks
    BY DEF AllBooks
  <2>2. CASE \E u \in Update : GetItem(u) \/ GetUpdateResult(u)
    BY <2>1, <2>2, UcItemBooks
  <2>3. CASE \E kind \in Kind : BeginCall(kind)
    BY <2>1, <2>3, BeginCallBooks
  <2>4. CASE EnterThread \/ Connect \/ Acquire \/ Count \/ ReadItem \/ EndItems
             \/ ObtainDownloader \/ Download \/ Install \/ ReadUpdateResult \/ EndResults
             \/ UcUnwind \/ UcReturn
    BY <2>1, <2>4, EnterThreadBooks, ConnectStepBooks, AcquireBooks, UcMoveBooks, UcReadBooks,
       UcObjectBooks, UcUnwindBooks, UcReturnBooks
  <2> QED  BY <2>2, <2>3, <2>4 DEF UcNext, UcStep
<1>2. ASSUME NEW q \in RpOp PROVE RpDesk(q)'
  <2>1. q \in Operation \ {Me} /\ RpDesk(q)
    BY DEF AllBooks, RpBooks, Me, RpOp, Operation
  <2>2. PICK extra : extra = RpExtra(q)
    OBVIOUS
  <2>3. Books(q, extra)' /\ deferred'[q] = deferred[q]
    BY <1>1, <2>1, <2>2, OtherBooks, ExtraWas DEF UcKept, RpDesk
  <2>4. RpExtra(q)' = extra
    BY <2>2 DEF RpExtra
  <2>5. RpStack(q)'
    BY <2>1, <2>3 DEF RpDesk, RpStack, NoCallIn, Entered
  <2> QED  BY <2>3, <2>4, <2>5, ExtraIs DEF RpDesk
<1>3. ArBooks'
  <2>0. Self \in Operation \ {Me}
    BY DEF Me, Self, Operation
  <2>1. PICK extra : extra = ArExtra
    OBVIOUS
  <2>2. Books(Self, extra)' /\ deferred'[Self] = deferred[Self]
    BY <1>1, <2>0, <2>1, OtherBooks, ExtraWas DEF UcKept, AllBooks, ArBooks
  <2>3. ArExtra' = extra
    BY <2>1 DEF ArExtra
  <2>4. ArStack'
    BY <2>2 DEF AllBooks, ArBooks, ArStack, NoCallIn, Entered, Inside, InCall, NotRunning, RunningLast
  <2> QED  BY <2>2, <2>3, <2>4, ExtraIs DEF ArBooks
<1> QED  BY <1>1, <1>2, <1>3 DEF AllBooks, RpBooks, UcKept

-----------------------------------------------------------------------------
(* What the update client knows, action by action.                           *)

\* A call in progress moves on.
LEMMA UcMoves ==
  ASSUME UcInv, NEW s \in UcRecord, client' = s, answer' = NoAnswer,
         updates' \in [Update -> {"missing", "downloaded", "installed"}],
         Search', Installation'
  PROVE  UcInv'
<1>1. NoAnswer.kind = "none" /\ NoAnswer \in [kind : Kind \cup {"none"}, err : BOOLEAN,
                                              asked : SUBSET Update, list : SUBSET Update]
  BY DEF NoAnswer
<1>2. UcTypes'
  BY <1>1 DEF UcTypes
<1>3. UpdatesTruthful'
  BY <1>1 DEF UpdatesTruthful, Installation
<1> QED  BY <1>2, <1>3 DEF UcInv

\* The call in progress, and what there is.
LEMMA UcNow ==
  ASSUME UcInv, NEW c, c = client
  PROVE  /\ c \in UcRecord /\ updates \in [Update -> {"missing", "downloaded", "installed"}]
         /\ c.kind \in Kind /\ c.n \in 0..5 /\ c.found \subseteq Update /\ c.todo \subseteq Update
         /\ c.now \subseteq Update /\ c.list \subseteq Update /\ c.errs \in 0..MaxResultErrors
         /\ c.at # "idle" => answer = NoAnswer
         /\ Search /\ Installation
BY DEF UcInv, UcTypes, UcRecord

LEMMA QuitInv ==
  ASSUME UcInv, Quit, client.at # "idle", UNCHANGED answer,
         updates' \in [Update -> {"missing", "downloaded", "installed"}]
  PROVE  UcInv'
<1>1. PICK c : c = client
  OBVIOUS
<1>2. PICK none : none = {}
  OBVIOUS
<1>3. PICK s : s = [c EXCEPT !.at = "leave", !.err = TRUE, !.list = none]
  OBVIOUS
<1>4. c \in UcRecord /\ none \in SUBSET Update
  BY <1>1, <1>2, UcNow
<1>5. s \in UcRecord /\ s.at = "leave" /\ s.err = TRUE
  BY <1>3, <1>4 DEF UcRecord
<1>6. client' = s /\ answer' = NoAnswer
  BY <1>1, <1>2, <1>3, UcNow DEF Quit
<1>7. Search'
  BY <1>5, <1>6 DEF Search
<1>8. Installation'
  BY <1>5, <1>6 DEF Installation
<1> QED  BY <1>5, <1>6, <1>7, <1>8, UcMoves

\* The record of a call that has not begun.
LEMMA NoCallIs ==
  /\ NoCall \in UcRecord /\ NoCall.at = "idle" /\ NoCall.n = 0 /\ NoCall.list = {}
  /\ NoCall.now = {}
  /\ \A kind \in Kind, place \in {"enter"} : [NoCall EXCEPT !.at = place, !.kind = kind] \in UcRecord
<1>1. 0 \in 0..5 /\ 0 \in 0..MaxResultErrors /\ {} \in SUBSET Update /\ "search" \in Kind
  BY UpdateAssumption DEF Kind
<1>2. NoCall \in UcRecord
  BY <1>1 DEF NoCall, UcRecord
<1>3. NoCall.at = "idle" /\ NoCall.n = 0 /\ NoCall.list = {} /\ NoCall.now = {}
  BY DEF NoCall
<1>4. ASSUME NEW kind \in Kind, NEW place \in {"enter"}
      PROVE  [NoCall EXCEPT !.at = place, !.kind = kind] \in UcRecord
  BY <1>2 DEF UcRecord
<1> QED  BY <1>2, <1>3, <1>4

LEMMA BeginCallInv ==
  ASSUME UcInv, NEW kind \in Kind, BeginCall(kind)
  PROVE  UcInv'
<1>1. PICK place \in {"enter"} : place = "enter"
  OBVIOUS
<1>2. PICK s : s = [NoCall EXCEPT !.at = place, !.kind = kind]
  OBVIOUS
<1>3. client' = s /\ answer' = NoAnswer /\ updates' = updates
  BY <1>1, <1>2 DEF BeginCall
<1>4. s \in UcRecord
  BY <1>2, NoCallIs
<1>5. s.at = "enter" /\ s.n = 0 /\ s.list = {} /\ s.now = {}
  BY <1>1, <1>2 DEF NoCall
<1>6. Search' /\ Installation'
  BY <1>3, <1>5 DEF Search, Installation
<1>7. updates' \in [Update -> {"missing", "downloaded", "installed"}]
  BY <1>3, UcNow
<1> QED  BY <1>3, <1>4, <1>6, <1>7, UcMoves

\* Places that nothing but the way leads to.
LEMMA GoInv ==
  ASSUME UcInv, NEW place \in {"connect", "obtain", "download"}, Go(place), UNCHANGED <<updates, answer>>,
         \/ client.at = "enter" /\ place = "connect"
         \/ client.at = "connect" /\ place = "obtain"
         \/ client.at = "downloader" /\ place = "download"
  PROVE  UcInv'
<1>1. PICK c : c = client
  OBVIOUS
<1>2. PICK s : s = [c EXCEPT !.at = place]
  OBVIOUS
<1>3. c \in UcRecord /\ updates' \in [Update -> {"missing", "downloaded", "installed"}]
  BY <1>1, UcNow
<1>4. /\ s \in UcRecord /\ s.at = place /\ s.kind = c.kind /\ s.n = c.n /\ s.found = c.found
      /\ s.todo = c.todo /\ s.now = c.now /\ s.list = c.list /\ s.err = c.err
  BY <1>2, <1>3 DEF UcRecord
<1>5. client' = s /\ answer' = NoAnswer
  BY <1>1, <1>2, UcNow DEF Go
<1>6. /\ c.at \in {"enter", "connect"} => c.n = 0 /\ c.list = {} /\ c.now = {}
      /\ c.at = "downloader" => c.kind = "install" /\ Missing \subseteq c.found /\ c.now = {}
  BY <1>1, UcNow DEF Search, Installation
<1>7. c.kind \in Kind
  BY <1>1, UcNow
<1>8. Len(Obtains(c.kind)) >= 0 /\ ~(0 >= (IF c.kind = "install" THEN 4 ELSE 3))
  BY <1>7, ObtainsAre
<1>9. Search'
  BY <1>1, <1>4, <1>5, <1>6, <1>8 DEF Search, Searched
<1>10. Missing' = Missing
  BY DEF Missing
<1>11. Installation'
  BY <1>1, <1>4, <1>5, <1>6, <1>10 DEF Installation
<1> QED  BY <1>3, <1>4, <1>5, <1>9, <1>11, UcMoves

LEMMA AcquireInv ==
  ASSUME UcInv, Acquire
  PROVE  UcInv'
<1>1. PICK c : c = client
  OBVIOUS
<1>2. /\ c \in UcRecord /\ updates' \in [Update -> {"missing", "downloaded", "installed"}]
      /\ c.kind \in Kind /\ c.n \in 0..5 /\ UNCHANGED <<updates, answer>> /\ c.at = "obtain"
      /\ c.n < Len(Obtains(c.kind)) /\ answer = NoAnswer
  BY <1>1, UcNow DEF Acquire
<1>3. c.list = {} /\ c.now = {} /\ (Searched => c.found = Matching(c.kind))
  BY <1>1, <1>2, UcNow DEF Search
<1>4. PICK n, k : n = c.n + 1 /\ k = IF c.kind = "install" THEN 4 ELSE 3
  OBVIOUS
<1>5. /\ n \in 0..5 /\ n <= Len(Obtains(c.kind)) /\ (Obtains(c.kind)[n] = "result" <=> n = k)
  BY <1>2, <1>4, ObtainsAre
<1>6. Matching(c.kind)' = Matching(c.kind) /\ Matching(c.kind) \subseteq Update
  BY <1>2 DEF Matching, Missing
<1>7. CASE Quit
  BY <1>1, <1>2, <1>7, QuitInv
<1>8. CASE n # k /\ client' = [client EXCEPT !.n = @ + 1]
  <2>1. PICK s : s = [c EXCEPT !.n = n]
    OBVIOUS
  <2>2. client' = s
    BY <1>1, <1>4, <1>8, <2>1
  <2>3. /\ s \in UcRecord /\ s.at = "obtain" /\ s.kind = c.kind /\ s.n = n /\ s.found = c.found
        /\ s.now = {} /\ s.list = {}
    BY <1>2, <1>3, <1>5, <2>1 DEF UcRecord
  <2>4. n >= k => c.n >= k
    BY <1>2, <1>4, <1>8
  <2>5. Search'
    BY <1>1, <1>3, <1>4, <1>5, <1>6, <2>2, <2>3, <2>4 DEF Search, Searched
  <2>6. Installation'
    BY <2>2, <2>3 DEF Installation
  <2> QED  BY <1>2, <2>2, <2>3, <2>5, <2>6, UcMoves
<1>9. CASE \E found \in SUBSET Matching(client.kind), code \in {"succeeded", "other"} :
                   /\ code = "succeeded" => found = Matching(client.kind)
                   /\ client' = [client EXCEPT
                        !.n = @ + 1, !.found = found, !.code = code, !.err = code = "other",
                        !.at = IF code = "other" THEN "leave" ELSE "obtain"]
  <2>1. PICK found \in SUBSET Matching(client.kind), code \in {"succeeded", "other"} :
                   /\ code = "succeeded" => found = Matching(client.kind)
                   /\ client' = [client EXCEPT
                        !.n = @ + 1, !.found = found, !.code = code, !.err = code = "other",
                        !.at = IF code = "other" THEN "leave" ELSE "obtain"]
    BY <1>9
  <2>2. PICK e, place : e = (code = "other") /\ place = IF code = "other" THEN "leave" ELSE "obtain"
    OBVIOUS
  <2>3. PICK s : s = [c EXCEPT !.n = n, !.found = found, !.code = code, !.err = e, !.at = place]
    OBVIOUS
  <2>4. client' = s
    BY <1>1, <1>4, <2>1, <2>2, <2>3
  <2>5. e \in BOOLEAN /\ found \in SUBSET Update /\ place \in {"leave", "obtain"}
        /\ (place = "leave" => e) /\ (place = "obtain" => found = Matching(c.kind))
    BY <1>1, <1>6, <2>1, <2>2
  <2>6. /\ s \in UcRecord /\ s.at = place /\ s.kind = c.kind /\ s.n = n /\ s.found = found
        /\ s.now = {} /\ s.list = {} /\ s.err = e
    BY <1>2, <1>3, <1>5, <2>1, <2>3, <2>5 DEF UcRecord
  <2>7. Search'
    BY <1>5, <1>6, <2>4, <2>5, <2>6 DEF Search
  <2>8. Installation'
    BY <2>4, <2>5, <2>6 DEF Installation
  <2> QED  BY <1>2, <2>4, <2>6, <2>7, <2>8, UcMoves
<1>10. PICK r : r = Obtains(client.kind)[client.n + 1]
  OBVIOUS
<1>11. \/ Quit
       \/ r # "result" /\ client' = [client EXCEPT !.n = @ + 1]
       \/ /\ r = "result"
          /\ \E found \in SUBSET Matching(client.kind), code \in {"succeeded", "other"} :
                   /\ code = "succeeded" => found = Matching(client.kind)
                   /\ client' = [client EXCEPT
                        !.n = @ + 1, !.found = found, !.code = code, !.err = code = "other",
                        !.at = IF code = "other" THEN "leave" ELSE "obtain"]
  BY <1>10, Zenon DEF Acquire
<1>12. r = "result" <=> n = k
  BY <1>1, <1>4, <1>5, <1>10
<1>13. CASE r # "result" /\ client' = [client EXCEPT !.n = @ + 1]
  BY <1>8, <1>12, <1>13
<1> QED  BY <1>7, <1>9, <1>11, <1>13

LEMMA CountInv ==
  ASSUME UcInv, Count
  PROVE  UcInv'
<1>1. PICK c : c = client
  OBVIOUS
<1>2. /\ c \in UcRecord /\ updates' \in [Update -> {"missing", "downloaded", "installed"}]
      /\ c.kind \in Kind /\ UNCHANGED <<updates, answer>> /\ c.at = "obtain" /\ answer = NoAnswer
      /\ c.n = Len(Obtains(c.kind)) /\ c.found \subseteq Update
  BY <1>1, UcNow DEF Count
<1>3. /\ c.list = {} /\ c.now = {} /\ c.found = Matching(c.kind)
  <2>1. Len(Obtains(c.kind)) = IF c.kind = "install" THEN 5 ELSE 4
    BY <1>2, ObtainsAre
  <2>2. Searched
    BY <1>1, <1>2, <2>1 DEF Searched
  <2> QED  BY <1>1, <1>2, <2>2, UcNow DEF Search
<1>4. Matching(c.kind)' = Matching(c.kind) /\ Missing' = Missing
      /\ (c.kind = "install" => Matching(c.kind) = Missing)
  BY <1>2 DEF Matching, Missing
<1>5. CASE Quit
  BY <1>1, <1>2, <1>5, QuitInv
<1>6. CASE ~Quit
  <2>1. PICK place : place = IF c.kind # "install" THEN "items"
                             ELSE IF c.found = {} THEN "leave" ELSE "downloader"
    OBVIOUS
  <2>2. PICK s : s = [c EXCEPT !.todo = c.found, !.at = place]
    OBVIOUS
  <2>3. client' = s
    BY <1>1, <1>6, <2>1, <2>2 DEF Count
  <2>4. place \in {"items", "leave", "downloader"}
    BY <2>1
  <2>5. /\ s \in UcRecord /\ s.at = place /\ s.kind = c.kind /\ s.n = c.n /\ s.found = c.found
        /\ s.todo = c.found /\ s.now = {} /\ s.list = {}
    BY <1>2, <1>3, <2>2, <2>4 DEF UcRecord
  <2>6. Search'
    BY <1>3, <1>4, <2>1, <2>3, <2>5 DEF Search
  <2>7. Installation'
    BY <1>3, <1>4, <2>1, <2>3, <2>5 DEF Installation
  <2> QED  BY <1>2, <2>3, <2>5, <2>6, <2>7, UcMoves
<1> QED  BY <1>5, <1>6

\* A search goes through the updates it has found.
LEMMA ItemsInv ==
  ASSUME UcInv, (\E u \in Update : GetItem(u)) \/ ReadItem \/ EndItems
  PROVE  UcInv'
<1>1. PICK c : c = client
  OBVIOUS
<1>2. /\ c \in UcRecord /\ updates' \in [Update -> {"missing", "downloaded", "installed"}]
      /\ UNCHANGED <<updates, answer>> /\ c.at \in {"items", "item"} /\ answer = NoAnswer
      /\ c.found \subseteq Update /\ c.now \subseteq Update /\ c.list \subseteq Update
      /\ c.todo \subseteq Update
  BY <1>1, UcNow DEF GetItem, ReadItem, EndItems
<1>3. /\ c.kind # "install" /\ c.found = c.list \cup c.todo \cup c.now
      /\ (c.at = "items" => c.now = {}) /\ c.found = Matching(c.kind)
  BY <1>1, <1>2, UcNow DEF Search
<1>4. Matching(c.kind)' = Matching(c.kind)
  BY <1>2 DEF Matching, Missing
<1>5. CASE Quit
  BY <1>1, <1>2, <1>5, QuitInv
<1>6. ASSUME NEW s \in UcRecord, client' = s, s.kind = c.kind, s.found = c.found,
             s.at \in {"items", "item"}, s.found = s.list \cup s.todo \cup s.now,
             s.at = "items" => s.now = {}
      PROVE  UcInv'
  <2>1. Search'
    BY <1>3, <1>4, <1>6 DEF Search
  <2>2. Installation'
    BY <1>6 DEF Installation
  <2> QED  BY <1>2, <1>6, <2>1, <2>2, UcMoves
<1>7. ASSUME NEW u \in Update, GetItem(u), ~Quit PROVE UcInv'
  <2>1. PICK one, T : one = {u} /\ T = c.todo \ {u}
    OBVIOUS
  <2>2. PICK s : s = [c EXCEPT !.at = "item", !.todo = T, !.now = one]
    OBVIOUS
  <2>3. client' = s /\ u \in c.todo /\ c.at = "items"
    BY <1>1, <1>7, <2>1, <2>2 DEF GetItem
  <2>4. one \in SUBSET Update /\ T \in SUBSET Update /\ T \cup one = c.todo
    BY <1>2, <2>1, <2>3
  <2>5. /\ s \in UcRecord /\ s.kind = c.kind /\ s.found = c.found /\ s.at = "item"
        /\ s.todo = T /\ s.now = one /\ s.list = c.list
    BY <1>2, <2>2, <2>4 DEF UcRecord
  <2>6. s.found = s.list \cup s.todo \cup s.now
    BY <1>3, <2>3, <2>4, <2>5
  <2> QED  BY <1>6, <2>3, <2>5, <2>6
<1>8. ASSUME ReadItem, ~Quit PROVE UcInv'
  <2>1. PICK L, none : L = c.list \cup c.now /\ none = {}
    OBVIOUS
  <2>2. PICK s : s = [c EXCEPT !.at = "items", !.list = L, !.now = none]
    OBVIOUS
  <2>3. client' = s
    BY <1>1, <1>8, <2>1, <2>2 DEF ReadItem
  <2>4. L \in SUBSET Update /\ none \in SUBSET Update
    BY <1>2, <2>1
  <2>5. /\ s \in UcRecord /\ s.kind = c.kind /\ s.found = c.found /\ s.at = "items"
        /\ s.todo = c.todo /\ s.now = none /\ s.list = L
    BY <1>2, <2>2, <2>4 DEF UcRecord
  <2>6. s.found = s.list \cup s.todo \cup s.now /\ s.now = {}
    BY <1>3, <2>1, <2>5
  <2> QED  BY <1>6, <2>3, <2>5, <2>6
<1>9. ASSUME EndItems PROVE UcInv'
  <2>1. PICK s : s = [c EXCEPT !.at = "leave"]
    OBVIOUS
  <2>2. client' = s /\ c.todo = {} /\ c.at = "items"
    BY <1>1, <1>9, <2>1 DEF EndItems, Go
  <2>3. /\ s \in UcRecord /\ s.kind = c.kind /\ s.found = c.found /\ s.at = "leave"
        /\ s.list = c.list
    BY <1>2, <2>1 DEF UcRecord
  <2>4. s.list = Matching(c.kind)
    BY <1>3, <2>2, <2>3
  <2>5. Search'
    BY <1>4, <2>2, <2>3, <2>4 DEF Search
  <2>6. Installation'
    BY <1>3, <2>2, <2>3 DEF Installation
  <2> QED  BY <1>2, <2>2, <2>3, <2>5, <2>6, UcMoves
<1> QED  BY <1>5, <1>7, <1>8, <1>9

\* What the agent does never makes an update missing.
LEMMA WorkDone ==
  ASSUME updates \in [Update -> {"missing", "downloaded", "installed"}], Download \/ Install
  PROVE  /\ updates' \in [Update -> {"missing", "downloaded", "installed"}]
         /\ Missing' \subseteq Missing
<1>1. CASE Download
  <2>1. PICK done \in SUBSET {u \in client.found : updates[u] = "missing"} :
          updates' = [u \in Update |-> IF u \in done THEN "downloaded" ELSE updates[u]]
    BY <1>1 DEF Download, Operate, Work
  <2>2. \A u \in done : updates[u] = "missing"
    OBVIOUS
  <2>3. \A u \in Update : updates'[u] = IF u \in done THEN "downloaded" ELSE updates[u]
    BY <2>1
  <2>4. Missing' \subseteq Missing
    BY <2>2, <2>3 DEF Missing
  <2>5. updates' \in [Update -> {"missing", "downloaded", "installed"}]
    BY <2>1
  <2> QED  BY <2>4, <2>5
<1>2. CASE Install
  <2>1. PICK done \in SUBSET {u \in client.found : updates[u] = "downloaded"} :
          updates' = [u \in Update |-> IF u \in done THEN "installed" ELSE updates[u]]
    BY <1>2 DEF Install, Operate, Work
  <2>2. \A u \in done : updates[u] = "downloaded"
    OBVIOUS
  <2>3. \A u \in Update : updates'[u] = IF u \in done THEN "installed" ELSE updates[u]
    BY <2>1
  <2>4. Missing' \subseteq Missing
    BY <2>2, <2>3 DEF Missing
  <2>5. updates' \in [Update -> {"missing", "downloaded", "installed"}]
    BY <2>1
  <2> QED  BY <2>4, <2>5
<1> QED  BY <1>1, <1>2

LEMMA OperateInv ==
  ASSUME UcInv, Download \/ Install
  PROVE  UcInv'
<1>1. PICK c : c = client
  OBVIOUS
<1>2. /\ UNCHANGED answer /\ client.at \in {"download", "install"}
      /\ \/ Quit
         \/ \E phase \in {"download", "install"}, code \in {"succeeded", "other"} :
             client' = [client EXCEPT !.at = "results", !.phase = phase, !.code = code,
                                      !.todo = client.found, !.errs = 0, !.truncated = FALSE]
  <2>1. CASE Download
    BY <2>1 DEF Download, Operate
  <2>2. CASE Install
    BY <2>2 DEF Install, Operate
  <2> QED  BY <2>1, <2>2
<1>3. /\ c \in UcRecord /\ UNCHANGED answer /\ c.at \in {"download", "install"} /\ answer = NoAnswer
      /\ updates' \in [Update -> {"missing", "downloaded", "installed"}]
      /\ Missing' \subseteq Missing /\ c.found \subseteq Update
  BY <1>1, <1>2, UcNow, WorkDone
<1>4. c.kind = "install" /\ Missing \subseteq c.found /\ c.now = {}
  BY <1>1, <1>2, <1>3, UcNow DEF Installation
<1>5. CASE Quit
  BY <1>1, <1>2, <1>3, <1>5, QuitInv
<1>6. CASE \E phase \in {"download", "install"}, code \in {"succeeded", "other"} :
             client' = [client EXCEPT !.at = "results", !.phase = phase, !.code = code,
                                      !.todo = client.found, !.errs = 0, !.truncated = FALSE]
  <2>1. PICK phase \in {"download", "install"}, code \in {"succeeded", "other"} :
             client' = [client EXCEPT !.at = "results", !.phase = phase, !.code = code,
                                      !.todo = client.found, !.errs = 0, !.truncated = FALSE]
    BY <1>6
  <2>2. PICK zero \in 0..MaxResultErrors : zero = 0
    BY UpdateAssumption
  <2>3. PICK s : s = [c EXCEPT !.at = "results", !.phase = phase, !.code = code,
                               !.todo = c.found, !.errs = zero, !.truncated = FALSE]
    OBVIOUS
  <2>4. client' = s
    BY <1>1, <2>1, <2>2, <2>3
  <2>5. /\ s \in UcRecord /\ s.at = "results" /\ s.kind = c.kind /\ s.found = c.found
        /\ s.todo = c.found /\ s.now = {}
    BY <1>2, <1>3, <1>4, <2>1, <2>3 DEF UcRecord
  <2>6. Search'
    BY <2>4, <2>5 DEF Search
  <2>7. Looked' = {}
    BY <2>4, <2>5 DEF Looked
  <2>8. Installation'
    BY <1>3, <1>4, <2>4, <2>5, <2>7 DEF Installation
  <2> QED  BY <1>3, <2>4, <2>5, <2>6, <2>8, UcMoves
<1> QED  BY <1>2, <1>5, <1>6

\* The results of an operation, update by update.  An error is noted one way or the other.
LEMMA NotedInv ==
  ASSUME UcInv, client.at \in {"results", "result"}, UNCHANGED <<updates, answer>>,
         NEW T \in SUBSET client.todo,
         Noted([client EXCEPT !.todo = T, !.at = "results", !.now = {}])
  PROVE  UcInv'
<1>1. PICK c : c = client
  OBVIOUS
<1>2. /\ c \in UcRecord /\ updates' \in [Update -> {"missing", "downloaded", "installed"}]
      /\ answer = NoAnswer /\ c.errs \in 0..MaxResultErrors /\ T \in SUBSET Update
  BY <1>1, UcNow
<1>3. c.kind = "install" /\ Missing \subseteq c.found
  BY <1>1, UcNow DEF Installation
<1>4. Missing' = Missing
  BY DEF Missing
<1>5. PICK none, place : none = {} /\ place = "results"
  OBVIOUS
<1>6. PICK b : b = [c EXCEPT !.todo = T, !.at = place, !.now = none]
  OBVIOUS
<1>7. none \in SUBSET Update
  BY <1>5
<1>8. /\ b \in UcRecord /\ b.at = "results" /\ b.kind = c.kind /\ b.found = c.found
      /\ b.now = {} /\ b.todo = T /\ b.errs = c.errs
  BY <1>2, <1>5, <1>6, <1>7 DEF UcRecord
<1>9. Noted(b)
  BY <1>1, <1>5, <1>6
<1>10. ASSUME NEW s \in UcRecord, client' = s, s.at = "results", s.kind = c.kind,
              s.found = c.found, s.now = {}, s.errs # 0 \/ s.truncated
       PROVE  UcInv'
  <2>1. Search'
    BY <1>10 DEF Search
  <2>2. Installation'
    BY <1>3, <1>4, <1>10 DEF Installation
  <2> QED  BY <1>2, <1>10, <2>1, <2>2, UcMoves
<1>11. CASE client' = [b EXCEPT !.truncated = TRUE]
  <2>1. PICK s : s = [b EXCEPT !.truncated = TRUE]
    OBVIOUS
  <2>2. /\ s \in UcRecord /\ s.at = "results" /\ s.kind = c.kind /\ s.found = c.found
        /\ s.now = {} /\ s.truncated = TRUE
    BY <1>8, <2>1 DEF UcRecord
  <2> QED  BY <1>10, <1>11, <2>1, <2>2
<1>12. CASE b.errs < MaxResultErrors /\ client' = [b EXCEPT !.errs = @ + 1]
  <2>1. PICK n : n = b.errs + 1
    OBVIOUS
  <2>2. n \in 0..MaxResultErrors /\ n # 0
    BY <1>2, <1>8, <1>12, <2>1, UpdateAssumption
  <2>3. PICK s : s = [b EXCEPT !.errs = n]
    OBVIOUS
  <2>4. /\ s \in UcRecord /\ s.at = "results" /\ s.kind = c.kind /\ s.found = c.found
        /\ s.now = {} /\ s.errs = n
    BY <1>8, <2>2, <2>3 DEF UcRecord
  <2>5. client' = s
    BY <1>12, <2>1, <2>3
  <2> QED  BY <1>10, <2>2, <2>4, <2>5
<1> QED  BY <1>9, <1>11, <1>12 DEF Noted

LEMMA GetUpdateResultInv ==
  ASSUME UcInv, NEW u \in Update, GetUpdateResult(u)
  PROVE  UcInv'
<1>1. PICK c : c = client
  OBVIOUS
<1>2. /\ c \in UcRecord /\ updates' \in [Update -> {"missing", "downloaded", "installed"}]
      /\ UNCHANGED <<updates, answer>> /\ c.at = "results" /\ u \in c.todo /\ answer = NoAnswer
      /\ c.todo \subseteq Update /\ c.found \subseteq Update
  BY <1>1, UcNow DEF GetUpdateResult
<1>3. /\ c.kind = "install" /\ Missing \subseteq c.found /\ c.now = {}
      /\ c.errs = 0 /\ ~c.truncated => \A v \in Looked : Reached(v)
  BY <1>1, <1>2, UcNow DEF Installation
<1>4. Missing' = Missing
  BY <1>2 DEF Missing
<1>5. PICK one, T : one = {u} /\ T = c.todo \ {u}
  OBVIOUS
<1>6. one \in SUBSET Update /\ T \in SUBSET c.todo /\ T \in SUBSET Update /\ T \cup one = c.todo
  BY <1>2, <1>5
<1>7. CASE client' = [[client EXCEPT !.todo = @ \ {u}] EXCEPT !.at = "result", !.now = {u}]
  <2>1. PICK s : s = [[c EXCEPT !.todo = T] EXCEPT !.at = "result", !.now = one]
    OBVIOUS
  <2>2. client' = s
    BY <1>1, <1>5, <1>7, <2>1
  <2>3. /\ s \in UcRecord /\ s.at = "result" /\ s.kind = c.kind /\ s.found = c.found
        /\ s.todo = T /\ s.now = one /\ s.errs = c.errs /\ s.truncated = c.truncated
        /\ s.phase = c.phase
    BY <1>2, <1>6, <2>1 DEF UcRecord
  <2>4. Search'
    BY <2>2, <2>3 DEF Search
  <2>5. Looked' = Looked
    BY <1>1, <1>3, <1>6, <2>2, <2>3 DEF Looked
  <2>6. \A v \in Update : Reached(v)' <=> Reached(v)
    BY <1>1, <1>2, <2>2, <2>3 DEF Reached
  <2>7. Looked \subseteq Update
    BY <1>1, <1>2 DEF Looked
  <2>8. s.errs = 0 /\ ~s.truncated => \A v \in Looked' : Reached(v)'
    BY <1>3, <2>3, <2>5, <2>6, <2>7
  <2>9. Installation'
    BY <1>3, <1>4, <2>2, <2>3, <2>8 DEF Installation
  <2> QED  BY <1>2, <2>2, <2>3, <2>4, <2>9, UcMoves
<1>8. CASE Noted([client EXCEPT !.todo = @ \ {u}])
  <2>1. [client EXCEPT !.todo = @ \ {u}] = [client EXCEPT !.todo = T, !.at = "results", !.now = {}]
    BY <1>1, <1>2, <1>3, <1>5 DEF UcRecord
  <2> QED  BY <1>1, <1>2, <1>6, <1>8, <2>1, NotedInv
<1> QED  BY <1>7, <1>8 DEF GetUpdateResult

LEMMA ReadUpdateResultInv ==
  ASSUME UcInv, ReadUpdateResult
  PROVE  UcInv'
<1>1. PICK c : c = client
  OBVIOUS
<1>2. /\ c \in UcRecord /\ updates' \in [Update -> {"missing", "downloaded", "installed"}]
      /\ UNCHANGED <<updates, answer>> /\ c.at = "result" /\ answer = NoAnswer
      /\ c.todo \subseteq Update /\ c.found \subseteq Update
  BY <1>1, UcNow DEF ReadUpdateResult
<1>3. /\ c.kind = "install" /\ Missing \subseteq c.found
      /\ c.errs = 0 /\ ~c.truncated => \A v \in Looked : Reached(v)
  BY <1>1, <1>2, UcNow DEF Installation
<1>4. Missing' = Missing
  BY <1>2 DEF Missing
<1>5. CASE Noted([client EXCEPT !.at = "results", !.now = {}])
  <2>1. PICK T \in SUBSET client.todo : T = client.todo
    OBVIOUS
  <2>2. [client EXCEPT !.at = "results", !.now = {}]
          = [client EXCEPT !.todo = T, !.at = "results", !.now = {}]
    BY <1>1, <1>2, <2>1 DEF UcRecord
  <2> QED  BY <1>1, <1>2, <1>5, <2>2, NotedInv
<1>6. CASE /\ \A u \in client.now : Reached(u)
           /\ client' = [client EXCEPT !.at = "results", !.now = {}]
  <2>1. PICK none : none = {}
    OBVIOUS
  <2>2. PICK s : s = [c EXCEPT !.at = "results", !.now = none]
    OBVIOUS
  <2>3. client' = s /\ none \in SUBSET Update
    BY <1>1, <1>6, <2>1, <2>2
  <2>4. /\ s \in UcRecord /\ s.at = "results" /\ s.kind = c.kind /\ s.found = c.found
        /\ s.todo = c.todo /\ s.now = {} /\ s.errs = c.errs /\ s.truncated = c.truncated
        /\ s.phase = c.phase
    BY <1>2, <2>1, <2>2, <2>3 DEF UcRecord
  <2>5. Search'
    BY <2>3, <2>4 DEF Search
  <2>6. \A v \in Looked' : v \in Looked \/ v \in c.now
    BY <1>1, <2>3, <2>4 DEF Looked
  <2>7. \A v : Reached(v)' <=> Reached(v)
    BY <1>1, <1>2, <2>3, <2>4 DEF Reached
  <2>8. s.errs = 0 /\ ~s.truncated => \A v \in Looked' : Reached(v)'
    BY <1>1, <1>3, <1>6, <2>4, <2>6, <2>7
  <2>9. Installation'
    BY <1>3, <1>4, <2>3, <2>4, <2>8 DEF Installation
  <2> QED  BY <1>2, <2>3, <2>4, <2>5, <2>9, UcMoves
<1> QED  BY <1>5, <1>6 DEF ReadUpdateResult

\* When all results have been looked at and none was bad, every update has been reached.
LEMMA EndResultsInv ==
  ASSUME UcInv, EndResults
  PROVE  UcInv'
<1>1. PICK c : c = client
  OBVIOUS
<1>2. /\ c \in UcRecord /\ updates \in [Update -> {"missing", "downloaded", "installed"}]
      /\ updates' \in [Update -> {"missing", "downloaded", "installed"}]
      /\ UNCHANGED <<updates, answer>> /\ c.at = "results" /\ answer = NoAnswer
      /\ c.todo = {} /\ c.found \subseteq Update /\ c.errs \in 0..MaxResultErrors
      /\ c.phase \in {"download", "install"} /\ c.truncated \in BOOLEAN
  BY <1>1, UcNow DEF EndResults, UcRecord
<1>3. /\ c.kind = "install" /\ Missing \subseteq c.found /\ c.now = {}
      /\ c.errs = 0 /\ ~c.truncated => \A v \in Looked : Reached(v)
  BY <1>1, <1>2, UcNow DEF Installation
<1>4. Missing' = Missing
  BY <1>2 DEF Missing
<1>5. Looked = c.found
  BY <1>1, <1>2, <1>3 DEF Looked
<1>6. ~Failed => c.errs = 0 /\ ~c.truncated
  BY <1>1, <1>2 DEF Failed
<1>7. ~Failed => \A v \in c.found : Reached(v)
  BY <1>3, <1>5, <1>6
<1>8. CASE Quit
  BY <1>1, <1>2, <1>8, QuitInv
<1>9. CASE c.phase = "install" /\ client' = [client EXCEPT !.at = "leave", !.err = Failed]
  <2>1. PICK e : e = Failed
    OBVIOUS
  <2>2. e \in BOOLEAN
    BY <2>1 DEF Failed
  <2>3. PICK s : s = [c EXCEPT !.at = "leave", !.err = e]
    OBVIOUS
  <2>4. client' = s
    BY <1>1, <1>9, <2>1, <2>3
  <2>5. s \in UcRecord /\ s.at = "leave" /\ s.kind = "install" /\ s.err = e
    BY <1>2, <1>3, <2>2, <2>3 DEF UcRecord
  <2>6. ~e => Missing = {}
    BY <1>1, <1>3, <1>7, <1>9, <2>1 DEF Reached, Missing
  <2>7. Search'
    BY <2>4, <2>5 DEF Search
  <2>8. Installation'
    BY <1>4, <2>4, <2>5, <2>6 DEF Installation
  <2> QED  BY <1>2, <2>4, <2>5, <2>7, <2>8, UcMoves
<1>10. CASE ~Failed /\ client' = [client EXCEPT !.at = "install"]
  <2>1. PICK s : s = [c EXCEPT !.at = "install"]
    OBVIOUS
  <2>2. client' = s
    BY <1>1, <1>10, <2>1
  <2>3. s \in UcRecord /\ s.at = "install" /\ s.kind = c.kind /\ s.found = c.found /\ s.now = {}
    BY <1>2, <1>3, <2>1 DEF UcRecord
  <2>4. \A u \in c.found : updates[u] # "missing"
    BY <1>7, <1>10 DEF Reached
  <2>5. Search'
    BY <2>2, <2>3 DEF Search
  <2>6. Installation'
    BY <1>2, <1>3, <1>4, <2>2, <2>3, <2>4 DEF Installation
  <2> QED  BY <1>2, <2>2, <2>3, <2>5, <2>6, UcMoves
<1> QED  BY <1>1, <1>8, <1>9, <1>10 DEF EndResults, Go

\* The answer says what has been found out.
LEMMA UcReturnInv ==
  ASSUME UcInv, UcReturn
  PROVE  UcInv'
<1>1. PICK c : c = client
  OBVIOUS
<1>2. /\ c \in UcRecord /\ updates \in [Update -> {"missing", "downloaded", "installed"}]
      /\ UNCHANGED updates /\ c.at = "leave" /\ client' = NoCall
  BY <1>1, UcNow DEF UcReturn
<1>3. /\ ~c.err /\ c.kind # "install" => c.list = Matching(c.kind)
      /\ ~c.err /\ c.kind = "install" => Missing = {}
  BY <1>1, <1>2, UcNow DEF Search, Installation
<1>4. PICK a : a = [kind |-> c.kind, err |-> c.err, asked |-> c.found, list |-> c.list]
  OBVIOUS
<1>5. answer' = a
  BY <1>1, <1>4 DEF UcReturn
<1>6. /\ a.kind = c.kind /\ a.err = c.err /\ a.list = c.list
      /\ a \in [kind : Kind \cup {"none"}, err : BOOLEAN, asked : SUBSET Update,
                list : SUBSET Update]
  BY <1>2, <1>4 DEF UcRecord
<1>7. UcTypes'
  BY <1>2, <1>5, <1>6, NoCallIs DEF UcTypes
<1>8. client'.at = "idle"
  BY <1>2, NoCallIs
<1>9. Search' /\ Installation'
  BY <1>8 DEF Search, Installation
<1>10. UpdatesTruthful'
  <2>1. a.kind = "install" /\ ~a.err => \A u \in Update : updates[u] = "installed"
    BY <1>2, <1>3, <1>6 DEF Missing
  <2>2. /\ a.kind = "search" /\ ~a.err => a.list = Missing
        /\ a.kind = "installed" /\ ~a.err => a.list = Update \ Missing
    BY <1>3, <1>6 DEF Matching
  <2>3. Missing' = Missing
    BY <1>2 DEF Missing
  <2> QED  BY <1>2, <1>5, <1>8, <2>1, <2>2, <2>3 DEF UpdatesTruthful
<1> QED  BY <1>7, <1>8, <1>9, <1>10 DEF UcInv

\* A step that leaves the update client alone leaves what it knows.
LEMMA UcSame ==
  ASSUME UcInv, UNCHANGED <<updates, client, answer>>
  PROVE  UcInv'
BY DEF UcInv, UcTypes, Search, Searched, Looked, Matching, Missing, Reached, Installation,
       UpdatesTruthful

LEMMA UcStepInv ==
  ASSUME UcInv, UcNext
  PROVE  UcInv'
<1>1. ASSUME NEW kind \in Kind, BeginCall(kind) PROVE UcInv'
  BY <1>1, BeginCallInv
<1>2. ASSUME NEW u \in Update, GetItem(u) \/ GetUpdateResult(u) PROVE UcInv'
  BY <1>2, ItemsInv, GetUpdateResultInv
<1>3. CASE EnterThread \/ Connect \/ ObtainDownloader
  <2>1. UNCHANGED <<updates, answer>> /\ client.at \in {"enter", "connect", "downloader"}
    BY <1>3 DEF EnterThread, Connect, ObtainDownloader
  <2>2. CASE Quit
    <3>1. updates' \in [Update -> {"missing", "downloaded", "installed"}]
      BY <2>1, UcNow
    <3> QED  BY <2>1, <2>2, <3>1, QuitInv
  <2>3. CASE ~Quit
    <3>1. PICK place \in {"connect", "obtain", "download"} :
            /\ Go(place)
            /\ \/ client.at = "enter" /\ place = "connect"
               \/ client.at = "connect" /\ place = "obtain"
               \/ client.at = "downloader" /\ place = "download"
      BY <1>3, <2>3 DEF EnterThread, Connect, ObtainDownloader
    <3> QED  BY <2>1, <3>1, GoInv
  <2> QED  BY <2>2, <2>3
<1>4. CASE UcUnwind
  BY <1>4, UcSame DEF UcUnwind
<1> QED
  BY <1>1, <1>2, <1>3, <1>4, AcquireInv, CountInv, ItemsInv, OperateInv, ReadUpdateResultInv,
     EndResultsInv, UcReturnInv DEF UcNext, UcStep

-----------------------------------------------------------------------------
(* The books of a removal of packages, action by action.                     *)

LEMMA SelfIs == Self \in Operation /\ Self = "appx" /\ Self # "call"
BY DEF Self, Operation

\* What a step of the removal does to the books.
ArKept == Tables' /\ ArBooks' /\ OnlyBooks(Self)

\* The place that a removal goes to.
LEMMA ArGoes ==
  ASSUME ArTypes, NEW place, GoTo(place)
  PROVE  removal'.at = place /\ removal'.n = removal.n
BY DEF GoTo, ArTypes, ArRecord

LEMMA ArGivesUp ==
  ASSUME ArTypes, GiveUp
  PROVE  removal'.at = "leave"
BY DEF GiveUp, ArTypes, ArRecord

LEMMA ArEnds ==
  ASSUME ArTypes, NEW err, Ends(err)
  PROVE  removal'.at = "end"
<1>1. PICK e : e = (removal.err \/ err)
  OBVIOUS
<1>2. removal' = [removal EXCEPT !.at = "end", !.err = e]
  BY <1>1 DEF Ends
<1> QED  BY <1>2 DEF ArTypes, ArRecord

\* Nothing is to be closed before an operation has been seen to end.
LEMMA NoneRunning ==
  ASSUME ArBooks,
         removal.at \notin {"result", "read result", "end"} \/ async.status \notin Ended
  PROVE  NotRunning(deferred[Self])
BY DEF ArBooks, ArStack

\* One more release is deferred.
LEMMA NotRunningMore ==
  ASSUME NEW S, NEW d \in Seq(S), NEW a
  PROVE  /\ NotRunning(d) /\ a # "running" => NotRunning(Append(d, a))
         /\ NotRunning(d) /\ a # "call" => RunningLast(Append(d, a))
<1>1. PICK e, n, T : e = Append(d, a) /\ n = Len(d) /\ T = S \cup {a}
  OBVIOUS
<1>2. d \in Seq(T) /\ a \in T
  BY <1>1
<1>3. /\ DOMAIN e = 1..(n + 1) /\ DOMAIN d = 1..n /\ n \in Nat
      /\ \A i \in 1..(n + 1) : e[i] = IF i <= n THEN d[i] ELSE a
  BY <1>1, <1>2
<1>4. NotRunning(d) /\ a # "running" => NotRunning(e)
  BY <1>3 DEF NotRunning
<1>5. NotRunning(d) /\ a # "call" => RunningLast(e)
  BY <1>3 DEF NotRunning, RunningLast
<1> QED  BY <1>1, <1>4, <1>5

\* The books are right after a step, with the stack that it leaves.
LEMMA ArDone ==
  ASSUME Tables', OnlyBooks(Self), NEW extra, Books(Self, extra)', ArExtra' = extra,
         NEW d, d = deferred'[Self],
         removal'.at \in {"idle", "enter"} => d = <<>>,
         removal'.at \notin {"idle", "enter", "leave"} => Entered(d),
         InCall' => Inside(d),
         NotRunning(d)
  PROVE  ArKept
<1>1. RunningLast(d)
  BY DEF NotRunning, RunningLast
<1>2. ArStack'
  BY <1>1 DEF ArStack, NotRunning, RunningLast, Entered, Inside
<1>3. Books(Self, ArExtra)'
  BY SelfIs, ExtraIs
<1> QED  BY <1>2, <1>3 DEF ArKept, ArBooks

\* The place changes and the books do not.
LEMMA ArStay ==
  ASSUME Tables, ArBooks, UNCHANGED comVars, ArExtra' = ArExtra, NotRunning(deferred[Self]),
         removal'.at \in {"idle", "enter"} => deferred[Self] = <<>>,
         removal'.at \notin {"idle", "enter", "leave"} => Entered(deferred[Self]),
         InCall' => Inside(deferred[Self])
  PROVE  ArKept
<1>1. Tables' /\ OnlyBooks(Self) /\ deferred'[Self] = deferred[Self]
  BY SameBooks
<1>2. PICK extra, d : extra = ArExtra /\ d = deferred[Self]
  OBVIOUS
<1>3. Books(Self, extra)'
  BY <1>2, SelfIs, SameBooks, ExtraWas DEF ArBooks
<1> QED  BY <1>1, <1>2, <1>3, ArDone

\* Something is obtained.
LEMMA ArObtain ==
  ASSUME Tables, ArBooks, ArExtra = {}, ArExtra' = {}, NotRunning(deferred[Self]),
         NEW r \in Memory[Self] \cup Interface[Self], Obtain(Self, r), r # "running",
         Entered(deferred[Self]), removal'.at \notin {"idle", "enter"},
         InCall' => Inside(deferred[Self])
  PROVE  ArKept
<1>1. PICK none : none = {}
  OBVIOUS
<1>2. Books(Self, none)
  BY <1>1, ExtraWas, SelfIs DEF ArBooks
<1>3. /\ Tables' /\ Books(Self, none)' /\ OnlyBooks(Self) /\ Entered(deferred'[Self])
      /\ Inside(deferred[Self]) => Inside(deferred'[Self])
  BY <1>2, SelfIs, PointerBooks
<1>4. PICK d, e : d = deferred[Self] /\ e = Append(d, r)
  OBVIOUS
<1>5. deferred'[Self] = e
  BY <1>2, <1>4, SelfIs, ObtainBooks
<1>6. PICK S : d \in Seq(S)
  BY <1>2, <1>4 DEF Books
<1>7. NotRunning(e)
  BY <1>4, <1>6, NotRunningMore
<1> QED  BY <1>1, <1>3, <1>4, <1>5, <1>7, ArDone

\* The removal gives up, or the removal of one package ends, with nothing to give back.
LEMMA ArQuitBooks ==
  ASSUME Tables, ArTypes, ArBooks, GiveUp, UNCHANGED comVars, ArExtra = {},
         removal.at \notin {"result", "read result", "end"}
  PROVE  ArKept
<1>1. removal'.at = "leave"
  BY ArGivesUp
<1>2. ArExtra' = ArExtra /\ ~InCall'
  BY <1>1 DEF ArExtra, InCall
<1> QED  BY <1>1, <1>2, NoneRunning, ArStay

LEMMA ArEndBooks ==
  ASSUME Tables, ArTypes, ArBooks, NEW err, Ends(err), UNCHANGED comVars,
         removal.at \in {"operation", "info", "poll"}
  PROVE  ArKept
<1>1. removal'.at = "end"
  BY ArEnds
<1>2. ArExtra' = ArExtra
  BY <1>1 DEF ArExtra
<1>3. Entered(deferred[Self]) /\ Inside(deferred[Self])
  BY DEF ArBooks, ArStack, InCall
<1> QED  BY <1>1, <1>2, <1>3, NoneRunning, ArStay

LEMMA BeginRemovalBooks ==
  ASSUME Tables, ArTypes, ArBooks, BeginRemoval
  PROVE  ArKept
<1>1. removal.at = "idle" /\ UNCHANGED comVars /\ removal' = [NoRemoval EXCEPT !.at = "enter"]
  BY DEF BeginRemoval
<1>2. removal'.at = "enter"
  BY <1>1 DEF NoRemoval
<1>3. ArExtra' = ArExtra /\ ~InCall' /\ deferred[Self] = <<>>
  BY <1>1, <1>2 DEF ArExtra, InCall, ArBooks, ArStack
<1> QED  BY <1>1, <1>2, <1>3, NoneRunning, ArStay

LEMMA EnterRuntimeStepBooks ==
  ASSUME Tables, ArTypes, ArBooks, EnterRuntime
  PROVE  ArKept
<1>1. removal.at = "enter" /\ ArExtra = {} /\ deferred[Self] = <<>>
  BY DEF EnterRuntime, ArExtra, ArBooks, ArStack
<1>2. CASE GiveUp /\ UNCHANGED comVars
  BY <1>1, <1>2, ArQuitBooks
<1>3. CASE /\ held' = [held EXCEPT ![Self]["thread"] = @ + 1, ![Self]["apartment"] = @ + 1]
           /\ deferred' = [deferred EXCEPT ![Self] = @ \o <<"thread", "apartment">>]
           /\ GoTo("obtain")
  <2>1. Books(Self, {})
    BY <1>1, ExtraWas, SelfIs DEF ArBooks
  <2>2. /\ Tables' /\ Books(Self, {})' /\ OnlyBooks(Self)
        /\ deferred'[Self] = <<"thread", "apartment">> /\ Entered(deferred'[Self])
    BY <1>1, <1>3, <2>1, EnterRuntimeBooks DEF Self
  <2>3. PICK none, d : none = {} /\ d = deferred'[Self]
    OBVIOUS
  <2>4. removal'.at = "obtain"
    BY <1>3, ArGoes
  <2>5. ArExtra' = none /\ ~InCall'
    BY <2>3, <2>4 DEF ArExtra, InCall
  <2>6. NotRunning(d)
    BY <2>2, <2>3 DEF NotRunning
  <2> QED  BY <2>2, <2>3, <2>4, <2>5, <2>6, ArDone
<1> QED  BY <1>2, <1>3 DEF EnterRuntime

\* No function has been called yet.
LEMMA OutOfCall ==
  ASSUME removal'.at = "obtain" \/ (removal'.at = "enumerate" /\ removal'.n = 0)
  PROVE  ~InCall'
<1>1. CASE removal'.at = "obtain"
  BY <1>1 DEF InCall
<1>2. CASE removal'.at = "enumerate" /\ removal'.n = 0
  BY <1>2 DEF InCall
<1> QED  BY <1>1, <1>2

\* The objects of the manager, and those of the enumeration.
LEMMA ObtainManagerBooks ==
  ASSUME Tables, ArTypes, ArBooks, removal.n <= 2, ObtainManager
  PROVE  ArKept
<1>1. removal.at = "obtain" /\ ArExtra = {} /\ Entered(deferred[Self])
  BY DEF ObtainManager, ArExtra, ArBooks, ArStack
<1>2. CASE GiveUp /\ UNCHANGED comVars
  BY <1>1, <1>2, ArQuitBooks
<1>3. CASE /\ Obtain(Self, ManagerObjects[removal.n + 1])
           /\ removal' = IF removal.n = 2 THEN [removal EXCEPT !.at = "enumerate", !.n = 0]
                         ELSE [removal EXCEPT !.n = @ + 1]
  <2>1. removal \in ArRecord /\ removal.n \in 0..2
    <3>1. removal \in ArRecord
      BY DEF ArTypes
    <3>2. PICK n, m : n = removal.n /\ m = MaxPackages + 2
      OBVIOUS
    <3>3. n \in 0..m
      BY <3>1, <3>2 DEF ArRecord
    <3>5. m \in Nat
      BY <3>2, AppxAssumption
    <3>6. n <= 2
      BY <3>2
    <3>4. n \in 0..2
      BY <3>3, <3>5, <3>6
    <3> QED  BY <3>1, <3>2, <3>4
  <2>2. PICK r : r = ManagerObjects[removal.n + 1]
    OBVIOUS
  <2>3. r \in {"classID", "inspectable", "pm"}
    <3>1. removal.n + 1 \in 1..3
      BY <2>1
    <3> QED  BY <2>2, <3>1 DEF ManagerObjects
  <2>4. r \in Memory[Self] \cup Interface[Self] /\ r # "running"
    BY <2>3, SelfIs DEF Memory, Interface
  <2>5. removal'.at = "obtain" \/ (removal'.at = "enumerate" /\ removal'.n = 0)
    BY <1>1, <1>3, <2>1 DEF ArRecord
  <2>6. ArExtra' = {} /\ ~InCall'
    <3>1. ArExtra' = {}
      BY <2>5 DEF ArExtra
    <3>2. ~InCall'
      BY <2>5, OutOfCall
    <3> QED  BY <3>1, <3>2
  <2> QED  BY <1>1, <1>3, <2>2, <2>4, <2>5, <2>6, NoneRunning, ArObtain
<1> QED  BY <1>2, <1>3 DEF ObtainManager

LEMMA EnumerateBooks ==
  ASSUME Tables, ArTypes, ArBooks, Enumerate
  PROVE  ArKept
<1>1. /\ removal.at = "enumerate" /\ ArExtra = {} /\ Entered(deferred[Self])
      /\ Inside(deferred[Self])
  BY DEF Enumerate, ArExtra, ArBooks, ArStack, InCall
<1>2. CASE GiveUp /\ UNCHANGED comVars
  BY <1>1, <1>2, ArQuitBooks
<1>3. ASSUME NEW r \in {"iterable", "iterator"}, Obtain(Self, r),
             removal'.at \in {"enumerate", "has"}
      PROVE  ArKept
  <2>1. r \in Memory[Self] \cup Interface[Self] /\ r # "running"
    BY <1>3, SelfIs DEF Memory, Interface
  <2>2. ArExtra' = {}
    BY <1>3 DEF ArExtra
  <2> QED  BY <1>1, <1>3, <2>1, <2>2, NoneRunning, ArObtain
<1>4. CASE /\ Obtain(Self, "iterable")
           /\ removal' = [removal EXCEPT !.n = 2, !.feed = installed, !.snapshot = installed]
  <2>1. removal'.at = "enumerate"
    BY <1>1, <1>4 DEF ArTypes, ArRecord
  <2> QED  BY <1>3, <1>4, <2>1
<1>5. CASE /\ Obtain(Self, "iterator") /\ removal' = [removal EXCEPT !.at = "has", !.n = 0]
  <2>1. removal'.at = "has"
    BY <1>1, <1>5 DEF ArTypes, ArRecord
  <2> QED  BY <1>3, <1>5, <2>1
<1> QED  BY <1>2, <1>4, <1>5 DEF Enumerate

\* A function of its own is called, and has something to give back.
LEMMA BeginFindBooks ==
  ASSUME Tables, ArTypes, ArBooks, BeginFind \/ NextName
  PROVE  ArKept
<1>1. /\ removal.at \in {"enumerate", "names"} /\ ArExtra = {} /\ Entered(deferred[Self])
      /\ removal \in ArRecord
  BY DEF BeginFind, NextName, ArExtra, ArBooks, ArStack, ArTypes
<1>2. CASE GiveUp /\ UNCHANGED comVars
  BY <1>1, <1>2, ArQuitBooks
<1>3. CASE UNCHANGED comVars /\ removal.at = "names" /\ removal'.at \in {"leave", "names"}
  <2>1. ArExtra' = ArExtra /\ ~InCall'
    BY <1>1, <1>3 DEF ArExtra, InCall
  <2> QED  BY <1>1, <1>3, <2>1, NoneRunning, ArStay
<1>4. ASSUME NEW s \in {"currentUser", "pkgName"},
             held' = [held EXCEPT ![Self][s] = @ + 1],
             deferred' = [deferred EXCEPT ![Self] = @ \o <<"call", s>>],
             removal'.at \in {"enumerate", "operation"}
      PROVE  ArKept
  <2>1. PICK none, d, e, f : /\ none = {} /\ d = deferred[Self]
                             /\ e = Append(d, "call") /\ f = Append(e, s)
    OBVIOUS
  <2>2. s \in Memory[Self] /\ s # "running"
    BY SelfIs DEF Memory
  <2>3. Books(Self, none)
    BY <1>1, <2>1, ExtraWas, SelfIs DEF ArBooks
  <2>4. Tables' /\ Books(Self, none)' /\ OnlyBooks(Self) /\ Entered(deferred'[Self]) /\ deferred'[Self] = f
    BY <1>1, <1>4, <2>1, <2>2, <2>3, SelfIs, CallWithBooks
  <2>5. ArExtra' = none
    BY <1>4, <2>1 DEF ArExtra
  <2>6. PICK S : S = Resource(Self) \cup {"call", s}
    OBVIOUS
  <2>7. d \in Seq(S) /\ e \in Seq(S) /\ "call" \in S /\ s \in S
    BY <2>1, <2>3, <2>6 DEF Books
  <2>8. NotRunning(f)
    <3>1. NotRunning(d)
      BY <1>1, <2>1, NoneRunning
    <3>2. NotRunning(e)
      <4>1. PICK call : call = "call"
        OBVIOUS
      <4> QED  BY <2>1, <2>7, <3>1, <4>1, NotRunningMore
    <3> QED  BY <2>1, <2>2, <2>7, <3>2, NotRunningMore
  <2>9. Inside(f)
    <3>1. PICK n \in Nat : n = Len(d)
      BY <2>7
    <3>2. n >= 2
      BY <1>1, <2>1, <3>1 DEF Entered
    <3>3. e \in Seq(S) /\ Len(e) = n + 1 /\ e[n + 1] = "call"
      BY <2>1, <2>7, <3>1
    <3>4. DOMAIN f = 1..(n + 2) /\ f[n + 1] = "call"
      BY <2>1, <2>7, <3>1, <3>3
    <3> QED  BY <3>1, <3>2, <3>4 DEF Inside
  <2> QED  BY <1>4, <2>1, <2>4, <2>5, <2>8, <2>9, ArDone
<1>5. ASSUME BeginFind, ~GiveUp \/ ~UNCHANGED comVars PROVE ArKept
  <2>1. /\ held' = [held EXCEPT ![Self]["currentUser"] = @ + 1]
        /\ deferred' = [deferred EXCEPT ![Self] = @ \o <<"call", "currentUser">>]
        /\ removal' = [removal EXCEPT !.n = 1] /\ removal.at = "enumerate"
    BY <1>5 DEF BeginFind
  <2>2. removal'.at = "enumerate"
    BY <1>1, <2>1 DEF ArRecord
  <2> QED  BY <1>4, <2>1, <2>2
<1>6. ASSUME NextName PROVE ArKept
  <2>1. CASE GoTo("leave") /\ UNCHANGED comVars
    BY <1>3, <1>6, <2>1, ArGoes DEF NextName
  <2>2. CASE UNCHANGED comVars /\ removal' = [removal EXCEPT !.names = Tail(@), !.err = TRUE]
    <3>1. PICK names : names = Tail(removal.names)
      OBVIOUS
    <3>2. removal'.at = "names"
      BY <1>1, <1>6, <2>2, <3>1 DEF NextName, ArRecord
    <3> QED  BY <1>3, <1>6, <2>2, <3>2 DEF NextName
  <2>3. CASE /\ held' = [held EXCEPT ![Self]["pkgName"] = @ + 1]
             /\ deferred' = [deferred EXCEPT ![Self] = @ \o <<"call", "pkgName">>]
             /\ removal' = [removal EXCEPT !.at = "operation", !.time = "waiting"]
    <3>1. removal'.at = "operation"
      BY <1>1, <2>3 DEF ArRecord
    <3> QED  BY <1>4, <2>3, <3>1
  <2> QED  BY <1>6, <2>1, <2>2, <2>3 DEF NextName
<1> QED  BY <1>2, <1>5, <1>6

\* A package is looked at.
LEMMA HasCurrentBooks ==
  ASSUME Tables, ArTypes, ArBooks, HasCurrent
  PROVE  ArKept
<1>1. /\ removal.at = "has" /\ ArExtra = {} /\ Entered(deferred[Self])
      /\ Inside(deferred[Self]) /\ removal \in ArRecord /\ NotRunning(deferred[Self])
  BY NoneRunning DEF HasCurrent, ArExtra, ArBooks, ArStack, InCall, ArTypes
<1>2. CASE GiveUp /\ UNCHANGED comVars
  BY <1>1, <1>2, ArQuitBooks
<1>3. CASE GoTo("found") /\ UNCHANGED comVars
  <2>1. removal'.at = "found"
    BY <1>3, ArGoes
  <2>2. ArExtra' = ArExtra
    BY <1>1, <2>1 DEF ArExtra
  <2> QED  BY <1>1, <1>3, <2>1, <2>2, ArStay
<1>4. CASE /\ Take(Self, "pkg")
           /\ \E p \in removal.snapshot :
               removal' = [removal EXCEPT !.at = "id", !.n = @ + 1, !.pkg = {p},
                                          !.feed = @ \ {p}]
  <2>1. PICK p \in removal.snapshot :
          removal' = [removal EXCEPT !.at = "id", !.n = @ + 1, !.pkg = {p}, !.feed = @ \ {p}]
    BY <1>4
  <2>2. PICK one, n : one = {p} /\ n = removal.n + 1
    OBVIOUS
  <2>3. removal' = [removal EXCEPT !.at = "id", !.n = n, !.pkg = one, !.feed = @ \ one]
    BY <2>1, <2>2
  <2>4. removal'.at = "id"
    BY <1>1, <2>3 DEF ArRecord
  <2>5. PICK r, none : r = "pkg" /\ none = {}
    OBVIOUS
  <2>6. r \in Resource(Self) /\ Take(Self, r) /\ r \notin none /\ Books(Self, none)
    BY <1>1, <1>4, <2>5, SelfIs, Kinds, ExtraWas DEF Interface, ArBooks
  <2>7. Tables' /\ Books(Self, none \cup {r})' /\ OnlyBooks(Self) /\ deferred'[Self] = deferred[Self]
    BY <2>6, SelfIs, TakeBooks
  <2>8. PICK extra, d : extra = none \cup {r} /\ d = deferred[Self]
    OBVIOUS
  <2>9. Books(Self, extra)'
    BY <2>7, <2>8 DEF Books
  <2>10. ArExtra' = extra
    BY <2>4, <2>5, <2>8 DEF ArExtra
  <2> QED  BY <1>1, <2>4, <2>7, <2>8, <2>9, <2>10, ArDone
<1> QED  BY <1>2, <1>3, <1>4 DEF HasCurrent

LEMMA GetIdBooks ==
  ASSUME Tables, ArTypes, ArBooks, GetId
  PROVE  ArKept
<1>1. /\ removal.at = "id" /\ ArExtra = {"pkg"} /\ Entered(deferred[Self])
      /\ Inside(deferred[Self]) /\ NotRunning(deferred[Self])
  BY NoneRunning DEF GetId, ArExtra, ArBooks, ArStack, InCall
<1>2. PICK d, r, s, none : d = deferred[Self] /\ r = "pkg" /\ s = "id" /\ none = {}
  OBVIOUS
<1>3. PICK one, both : one = none \cup {r} /\ both = one \cup {s}
  OBVIOUS
<1>4. /\ Books(Self, one) /\ r \in Resource(Self) /\ s \in Resource(Self) /\ s \notin one
      /\ r \notin none
  <2>1. ArExtra = one
    BY <1>1, <1>2, <1>3
  <2>2. Books(Self, one)
    BY <2>1, SelfIs, ExtraWas DEF ArBooks
  <2>3. r \in Resource(Self) /\ s \in Resource(Self)
    BY <1>2, SelfIs, Kinds DEF Interface
  <2> QED  BY <1>2, <1>3, <2>2, <2>3
<1>5. CASE Take(Self, "id") /\ GoTo("read")
  <2>1. removal'.at = "read"
    BY <1>5, ArGoes
  <2>2. Take(Self, s)
    BY <1>2, <1>5
  <2>3. Tables' /\ Books(Self, one \cup {s})' /\ OnlyBooks(Self) /\ deferred'[Self] = deferred[Self]
    BY <1>4, <2>2, SelfIs, TakeBooks
  <2>4. Books(Self, both)'
    BY <1>3, <2>3 DEF Books
  <2>5. ArExtra' = both
    BY <1>2, <1>3, <2>1 DEF ArExtra
  <2> QED  BY <1>1, <1>2, <2>1, <2>3, <2>4, <2>5, ArDone
<1>6. CASE Give(Self, "pkg") /\ GiveUp
  <2>1. removal'.at = "leave"
    BY <1>6, ArGivesUp
  <2>2. Give(Self, r) /\ Books(Self, none \cup {r})
    BY <1>2, <1>3, <1>4, <1>6
  <2>3. Tables' /\ Books(Self, none)' /\ OnlyBooks(Self) /\ deferred'[Self] = deferred[Self]
    BY <1>4, <2>2, SelfIs, GiveBooks
  <2>4. ArExtra' = none /\ ~InCall'
    BY <1>2, <2>1 DEF ArExtra, InCall
  <2> QED  BY <1>1, <1>2, <2>1, <2>3, <2>4, ArDone
<1> QED  BY <1>5, <1>6 DEF GetId

LEMMA ReadIdentityBooks ==
  ASSUME Tables, ArTypes, ArBooks, ReadIdentity
  PROVE  ArKept
<1>1. /\ removal.at = "read" /\ ArExtra = {"pkg", "id"} /\ Entered(deferred[Self])
      /\ Inside(deferred[Self]) /\ NotRunning(deferred[Self]) /\ removal \in ArRecord
  BY NoneRunning DEF ReadIdentity, ArExtra, ArBooks, ArStack, InCall, ArTypes
<1>2. /\ UNCHANGED deferred
      /\ held' = [held EXCEPT ![Self]["id"] = @ - 1, ![Self]["pkg"] = @ - 1]
  BY DEF ReadIdentity
<1>3. Tables' /\ Books(Self, {})' /\ OnlyBooks(Self) /\ deferred'[Self] = deferred[Self]
  <2>1. Books(Self, {"pkg", "id"})
    BY <1>1, ExtraWas, SelfIs DEF ArBooks
  <2> QED  BY <1>2, <2>1, GiveIdentityBooks DEF Self
<1>4. removal'.at \in {"leave", "has"}
  <2>1. CASE GiveUp
    BY <2>1, ArGivesUp
  <2>2. CASE \E p \in removal.pkg :
            /\ Len(Matched(removal.names, p)) <= MaxMatched
            /\ removal' = [removal EXCEPT !.at = "has", !.pkg = {}, !.names = Matched(@, p)]
    <3>1. PICK p \in removal.pkg :
            removal' = [removal EXCEPT !.at = "has", !.pkg = {}, !.names = Matched(@, p)]
      BY <2>2
    <3>2. PICK none, names : none = {} /\ names = Matched(removal.names, p)
      OBVIOUS
    <3>3. removal' = [removal EXCEPT !.at = "has", !.pkg = none, !.names = names]
      BY <3>1, <3>2
    <3> QED  BY <1>1, <3>3 DEF ArRecord
  <2> QED  BY <2>1, <2>2 DEF ReadIdentity
<1>5. PICK none, d : none = {} /\ d = deferred[Self]
  OBVIOUS
<1>6. ArExtra' = none /\ Books(Self, none)'
  BY <1>3, <1>4, <1>5 DEF ArExtra
<1>7. InCall' => Inside(d)
  BY <1>1, <1>5
<1> QED  BY <1>1, <1>3, <1>4, <1>5, <1>6, <1>7, ArDone

\* An operation is started, looked at and waited for.
LEMMA OperationBooks ==
  ASSUME Tables, ArTypes, ArBooks, StartAsync \/ GetInfo
  PROVE  ArKept
<1>1. /\ removal.at \in {"operation", "info"} /\ ArExtra = {} /\ Entered(deferred[Self])
      /\ Inside(deferred[Self]) /\ NotRunning(deferred[Self])
  BY NoneRunning DEF StartAsync, GetInfo, ArExtra, ArBooks, ArStack, InCall
<1>2. ASSUME NEW r \in {"op", "info"}, Obtain(Self, r), removal'.at \in {"info", "poll"}
      PROVE  ArKept
  <2>1. r \in Memory[Self] \cup Interface[Self] /\ r # "running"
    BY <1>2, SelfIs DEF Interface
  <2>2. ArExtra' = {}
    BY <1>2 DEF ArExtra
  <2> QED  BY <1>1, <1>2, <2>1, <2>2, ArObtain
<1>3. CASE StartAsync
  BY <1>1, <1>2, <1>3, ArGoes, ArEndBooks DEF StartAsync
<1>4. CASE GetInfo
  BY <1>1, <1>2, <1>4, ArGoes, ArEndBooks DEF GetInfo
<1> QED  BY <1>3, <1>4

LEMMA PollBooks ==
  ASSUME Tables, ArTypes, ArBooks, PollFails \/ PollTimesOut
  PROVE  ArKept
<1>1. /\ removal.at = "poll" /\ Entered(deferred[Self]) /\ Inside(deferred[Self])
      /\ NotRunning(deferred[Self]) /\ UNCHANGED comVars
  BY NoneRunning DEF PollFails, PollTimesOut, ArBooks, ArStack, InCall
<1>2. Ends(TRUE) \/ removal' = [removal EXCEPT !.time = "canceling"]
  BY DEF PollFails, PollTimesOut
<1>3. CASE Ends(TRUE)
  BY <1>1, <1>3, ArEndBooks
<1>4. CASE removal' = [removal EXCEPT !.time = "canceling"]
  <2>1. removal'.at = "poll"
    BY <1>1, <1>4 DEF ArTypes, ArRecord
  <2>2. ArExtra' = ArExtra
    BY <1>1, <2>1 DEF ArExtra
  <2> QED  BY <1>1, <2>1, <2>2, ArStay
<1> QED  BY <1>2, <1>3, <1>4

\* An operation that has ended is to be closed.
LEMMA PollEndedBooks ==
  ASSUME Tables, ArTypes, ArBooks, PollEnded
  PROVE  ArKept
<1>1. /\ removal.at = "poll" /\ ArExtra = {} /\ Entered(deferred[Self])
      /\ Inside(deferred[Self]) /\ NotRunning(deferred[Self])
      /\ async.status \in Ended /\ UNCHANGED async
  BY NoneRunning DEF PollEnded, ArExtra, ArBooks, ArStack, InCall
<1>2. PICK none, r, d, e : none = {} /\ r = "running" /\ d = deferred[Self] /\ e = Append(d, r)
  OBVIOUS
<1>3. Books(Self, none) /\ r \in Memory[Self] \cup Interface[Self] /\ Obtain(Self, r) /\ r # "call"
  BY <1>1, <1>2, ExtraWas, SelfIs DEF ArBooks, PollEnded, Interface
<1>4. /\ Tables' /\ Books(Self, none)' /\ OnlyBooks(Self) /\ Entered(deferred'[Self])
      /\ Inside(deferred'[Self])
  BY <1>1, <1>3, SelfIs, PointerBooks
<1>5. deferred'[Self] = e
  BY <1>1, <1>2, <1>3, SelfIs, ObtainBooks
<1>6. PICK S : d \in Seq(S)
  BY <1>2, <1>3 DEF Books
<1>7. RunningLast(e)
  BY <1>1, <1>2, <1>3, <1>6, NotRunningMore
<1>8. removal'.at \in {"result", "end"}
  <2>1. PICK err : GoTo("result") \/ Ends(err)
    BY DEF PollEnded
  <2> QED  BY <2>1, ArGoes, ArEnds
<1>9. ArExtra' = none
  BY <1>2, <1>8 DEF ArExtra
<1>10. ArStack'
  <2>1. /\ removal'.at \notin {"idle", "enter"} /\ async'.status \in Ended
        /\ removal'.at \in {"result", "read result", "end"}
    BY <1>1, <1>8
  <2>2. RunningLast(deferred[Self])'
    BY <1>5, <1>7 DEF RunningLast
  <2>3. Entered(deferred[Self])' /\ Inside(deferred[Self])'
    BY <1>4 DEF Entered, Inside
  <2> QED  BY <2>1, <2>2, <2>3 DEF ArStack
<1> QED  BY <1>4, <1>9, <1>10, SelfIs, ExtraIs DEF ArKept, ArBooks

\* The result of an operation is read.
LEMMA ResultBooks ==
  ASSUME Tables, ArTypes, ArBooks, GetResults \/ ReadResult
  PROVE  ArKept
<1>1. /\ removal.at \in {"result", "read result"} /\ Entered(deferred[Self])
      /\ Inside(deferred[Self]) /\ RunningLast(deferred[Self]) /\ UNCHANGED async
      /\ NotRunning(deferred[Self]) \/ async.status \in Ended
  BY DEF GetResults, ReadResult, ArBooks, ArStack, InCall
<1>2. removal'.at \in {"read result", "end"}
  <2>1. \E err : GoTo("read result") \/ Ends(err)
    BY DEF GetResults, ReadResult
  <2> QED  BY <2>1, ArGoes, ArEnds
<1>3. ASSUME deferred'[Self] = deferred[Self] PROVE ArStack'
  <2>1. RunningLast(deferred[Self])' /\ (NotRunning(deferred[Self])' <=> NotRunning(deferred[Self]))
    BY <1>1, <1>3 DEF RunningLast, NotRunning
  <2>2. Entered(deferred[Self])' /\ Inside(deferred[Self])'
    BY <1>1, <1>3 DEF Entered, Inside
  <2> QED  BY <1>1, <1>2, <2>1, <2>2 DEF ArStack
<1>4. PICK none, r, one : none = {} /\ r = "deployment" /\ one = none \cup {r}
  OBVIOUS
<1>5. r \in Resource(Self) /\ r \notin none
  BY <1>4, SelfIs, Kinds DEF Interface
<1>6. CASE GetResults /\ Take(Self, "deployment") /\ GoTo("read result")
  <2>1. ArExtra = none /\ removal'.at = "read result"
    BY <1>4, <1>6, ArGoes DEF GetResults, ArExtra
  <2>2. Books(Self, none) /\ Take(Self, r)
    BY <1>4, <1>6, <2>1, ExtraWas, SelfIs DEF ArBooks
  <2>3. Tables' /\ Books(Self, none \cup {r})' /\ OnlyBooks(Self) /\ deferred'[Self] = deferred[Self]
    BY <1>5, <2>2, SelfIs, TakeBooks
  <2>4. ArExtra' = one /\ Books(Self, one)'
    BY <1>4, <2>1, <2>3 DEF ArExtra, Books
  <2> QED  BY <1>3, <2>3, <2>4, SelfIs, ExtraIs DEF ArKept, ArBooks
<1>7. CASE GetResults /\ UNCHANGED comVars /\ removal'.at = "end"
  <2>1. PICK extra : extra = ArExtra
    OBVIOUS
  <2>2. ArExtra' = extra
    BY <1>7, <2>1 DEF GetResults, ArExtra
  <2>3. /\ Tables' /\ Books(Self, extra)' /\ OnlyBooks(Self)
        /\ deferred'[Self] = deferred[Self]
    BY <1>7, <2>1, SelfIs, SameBooks, ExtraWas DEF ArBooks
  <2> QED  BY <1>3, <2>2, <2>3, SelfIs, ExtraIs DEF ArKept, ArBooks
<1>8. CASE ReadResult
  <2>1. ArExtra = one /\ removal'.at = "end"
    <3>1. removal.at = "read result" /\ \E err : Ends(err)
      BY <1>8 DEF ReadResult
    <3>2. removal'.at = "end"
      BY <3>1, ArEnds
    <3> QED  BY <1>4, <3>1, <3>2 DEF ArExtra
  <2>2. Books(Self, none \cup {r}) /\ Give(Self, r)
    <3>1. Books(Self, one)
      BY <2>1, ExtraWas, SelfIs DEF ArBooks
    <3> QED  BY <1>4, <1>8, <3>1 DEF ReadResult
  <2>3. Tables' /\ Books(Self, none)' /\ OnlyBooks(Self) /\ deferred'[Self] = deferred[Self]
    BY <1>5, <2>2, SelfIs, GiveBooks
  <2>4. ArExtra' = none
    BY <1>4, <2>1 DEF ArExtra
  <2> QED  BY <1>3, <2>3, <2>4, SelfIs, ExtraIs DEF ArKept, ArBooks
<1>9. ASSUME GetResults
      PROVE  \/ Take(Self, "deployment") /\ GoTo("read result")
             \/ UNCHANGED comVars /\ removal'.at = "end"
  <2>1. \/ Take(Self, "deployment") /\ GoTo("read result")
        \/ UNCHANGED comVars /\ \E err : Ends(err)
    BY <1>9 DEF GetResults
  <2> QED  BY <2>1, ArEnds
<1> QED  BY <1>6, <1>7, <1>8, <1>9

\* A deferred call of a function is run, and the function returns when none is left.
LEMMA FrontFacts ==
  ASSUME NEW S, NEW d \in Seq(S), d # <<>>
  PROVE  /\ NotRunning(d) => NotRunning(Front(d))
         /\ RunningLast(d) => RunningLast(Front(d))
         /\ RunningLast(d) /\ Last(d) = "call" => NotRunning(Front(d))
         /\ Inside(d) => Entered(Front(d)) \/ ~Entered(d)
         /\ Inside(d) /\ Last(d) # "call" => Inside(Front(d))
<1>1. PICK f, n : f = Front(d) /\ n = Len(d)
  OBVIOUS
<1>2. /\ n \in Nat \ {0} /\ Last(d) = d[n] /\ f \in Seq(S) /\ Len(f) = n - 1
      /\ \A i \in 1..(n - 1) : f[i] = d[i]
  BY <1>1, WithoutLast
<1>3. DOMAIN d = 1..n /\ DOMAIN f = 1..(n - 1) /\ 1..(n - 1) \subseteq 1..n
  BY <1>1, <1>2
<1>4. NotRunning(d) => NotRunning(f)
  BY <1>2, <1>3 DEF NotRunning
<1>5. RunningLast(d) => RunningLast(f)
  BY <1>2, <1>3 DEF RunningLast
<1>6. RunningLast(d) /\ Last(d) = "call" => NotRunning(f)
  <2>1. SUFFICES ASSUME RunningLast(d), Last(d) = "call", NEW i \in 1..(n - 1)
                 PROVE  d[i] # "running"
    BY <1>2, <1>3 DEF NotRunning
  <2>2. n \in 1..n /\ i \in 1..n /\ n > i
    BY <1>2
  <2> QED  BY <1>2, <1>3, <2>1, <2>2 DEF RunningLast
<1>7. ASSUME Inside(d) PROVE Entered(f) \/ ~Entered(d)
  <2>1. n > 2
    BY <1>2, <1>3, <1>7 DEF Inside
  <2> QED  BY <1>1, <1>2, <2>1 DEF Entered
<1>8. ASSUME Inside(d), Last(d) # "call" PROVE Inside(f)
  <2>1. PICK i \in 1..n : i > 2 /\ d[i] = "call"
    BY <1>3, <1>8 DEF Inside
  <2>2. i # n
    BY <1>2, <1>8, <2>1
  <2>3. i \in 1..(n - 1)
    BY <1>2, <2>1, <2>2
  <2> QED  BY <1>2, <1>3, <2>1, <2>3 DEF Inside
<1> QED  BY <1>1, <1>4, <1>5, <1>6, <1>7, <1>8

LEMMA ArUnwindBooks ==
  ASSUME Tables, ArTypes, ArBooks, ArUnwind
  PROVE  ArKept
<1>1. /\ removal.at \in {"found", "end", "leave"} /\ RunDeferred(Self) /\ ArExtra = {}
      /\ removal \in ArRecord /\ async \in AsyncRecord
  BY DEF ArUnwind, ArExtra, ArTypes
<1>2. PICK none, d : none = {} /\ d = deferred[Self]
  OBVIOUS
<1>3. Books(Self, none) /\ d \in Seq(Resource(Self) \cup {"call"})
  BY <1>1, <1>2, ExtraWas, SelfIs DEF ArBooks, Books
<1>4. /\ Tables' /\ Books(Self, none)' /\ OnlyBooks(Self)
      /\ d # <<>> /\ Last(d) # "call" /\ deferred'[Self] = Front(d)
  BY <1>1, <1>2, <1>3, SelfIs, RunBooks
<1>5. PICK f, S : f = Front(d) /\ S = Resource(Self) \cup {"call"}
  OBVIOUS
<1>6. /\ RunningLast(d)
      /\ removal.at # "leave" => Entered(d) /\ Inside(d)
      /\ NotRunning(d) \/ (removal.at = "end" /\ async.status \in Ended)
  BY <1>1, <1>2 DEF ArBooks, ArStack, InCall
<1>7. /\ RunningLast(f) /\ (NotRunning(d) => NotRunning(f))
      /\ removal.at # "leave" => Entered(f) /\ Inside(f)
  BY <1>3, <1>4, <1>5, <1>6, FrontFacts
<1>8. removal'.at = removal.at /\ async'.status = async.status
  <2>1. CASE UNCHANGED <<async, removal>>
    BY <2>1
  <2>2. CASE /\ async' = [async EXCEPT !.closed = TRUE]
             /\ \E failed \in BOOLEAN : removal' = [removal EXCEPT !.err = @ \/ failed]
    <3>1. PICK failed \in BOOLEAN : removal' = [removal EXCEPT !.err = @ \/ failed]
      BY <2>2
    <3>2. PICK e : e = (removal.err \/ failed)
      OBVIOUS
    <3>3. removal' = [removal EXCEPT !.err = e]
      BY <3>1, <3>2
    <3>4. removal'.at = removal.at
      BY <1>1, <3>3 DEF ArRecord
    <3>5. async'.status = async.status
      BY <1>1, <2>2 DEF AsyncRecord
    <3> QED  BY <3>4, <3>5
  <2> QED  BY <2>1, <2>2 DEF ArUnwind
<1>9. ArExtra' = none
  BY <1>1, <1>2, <1>8 DEF ArExtra
<1>10. ArStack'
  <2>1. RunningLast(deferred[Self])' /\ (NotRunning(deferred[Self])' <=> NotRunning(f))
    BY <1>4, <1>5, <1>7 DEF RunningLast, NotRunning
  <2>2. removal.at # "leave" => Entered(deferred[Self])' /\ Inside(deferred[Self])'
    BY <1>4, <1>5, <1>7 DEF Entered, Inside
  <2>3. removal'.at = "leave" => ~InCall'
    BY DEF InCall
  <2>4. NotRunning(f) \/ (removal'.at = "end" /\ async'.status \in Ended)
    BY <1>6, <1>7, <1>8
  <2> QED  BY <1>1, <1>8, <2>1, <2>2, <2>3, <2>4 DEF ArStack
<1> QED  BY <1>4, <1>9, <1>10, SelfIs, ExtraIs DEF ArKept, ArBooks

LEMMA EndFunctionBooks ==
  ASSUME Tables, ArTypes, ArBooks, EndFind \/ EndName
  PROVE  ArKept
<1>1. /\ removal.at \in {"found", "end"} /\ Returned(Self) /\ ArExtra = {} /\ removal \in ArRecord
      /\ Entered(deferred[Self]) /\ Inside(deferred[Self]) /\ RunningLast(deferred[Self])
  BY DEF EndFind, EndName, ArExtra, ArTypes, ArBooks, ArStack, InCall
<1>2. PICK none, d : none = {} /\ d = deferred[Self]
  OBVIOUS
<1>3. Books(Self, none) /\ d \in Seq(Resource(Self) \cup {"call"})
  BY <1>1, <1>2, ExtraWas, SelfIs DEF ArBooks, Books
<1>4. d # <<>>
  BY <1>1, <1>2 DEF Inside
<1>5. /\ Tables' /\ Books(Self, none)' /\ OnlyBooks(Self)
      /\ Last(d) = "call" /\ deferred'[Self] = Front(d)
  BY <1>1, <1>2, <1>3, <1>4, SelfIs, ReturnBooks
<1>6. PICK f, S : f = Front(d) /\ S = Resource(Self) \cup {"call"}
  OBVIOUS
<1>7. NotRunning(f) /\ Entered(f)
  BY <1>1, <1>2, <1>3, <1>4, <1>5, <1>6, FrontFacts
<1>8. removal'.at = "names"
  <2>1. CASE EndFind
    BY <2>1, ArGoes DEF EndFind
  <2>2. CASE EndName
    <3>1. PICK names : names = Tail(removal.names)
      OBVIOUS
    <3>2. removal' = [removal EXCEPT !.at = "names", !.names = names]
      BY <2>2, <3>1 DEF EndName
    <3> QED  BY <1>1, <3>2 DEF ArRecord
  <2> QED  BY <2>1, <2>2
<1>9. ArExtra' = none /\ ~InCall'
  BY <1>2, <1>8 DEF ArExtra, InCall
<1> QED  BY <1>5, <1>6, <1>7, <1>8, <1>9, ArDone

LEMMA LeaveBooks ==
  ASSUME Tables, ArTypes, ArBooks, FailFind \/ ArReturn
  PROVE  ArKept
<1>1. removal.at = "leave" /\ NotRunning(deferred[Self]) /\ ArExtra = {}
  BY NoneRunning DEF FailFind, ArReturn, ArExtra
<1>2. PICK none, d : none = {} /\ d = deferred[Self]
  OBVIOUS
<1>3. Books(Self, none) /\ d \in Seq(Resource(Self) \cup {"call"})
  BY <1>1, <1>2, ExtraWas, SelfIs DEF ArBooks, Books
<1>4. CASE FailFind
  <2>1. d # <<>> /\ Returned(Self) /\ removal' = removal
    BY <1>2, <1>4 DEF FailFind
  <2>2. Tables' /\ Books(Self, none)' /\ OnlyBooks(Self) /\ deferred'[Self] = Front(d)
    BY <1>2, <1>3, <2>1, SelfIs, ReturnBooks
  <2>3. PICK f, S : f = Front(d) /\ S = Resource(Self) \cup {"call"}
    OBVIOUS
  <2>4. NotRunning(f)
    BY <1>1, <1>2, <1>3, <2>1, <2>3, FrontFacts
  <2>5. ArExtra' = none /\ ~InCall'
    BY <1>1, <1>2, <2>1 DEF ArExtra, InCall
  <2> QED  BY <1>1, <2>1, <2>2, <2>3, <2>4, <2>5, ArDone
<1>5. CASE ArReturn
  <2>1. d = <<>> /\ removal' = NoRemoval /\ UNCHANGED comVars
    BY <1>2, <1>5 DEF ArReturn, comVars
  <2>2. removal'.at = "idle"
    BY <2>1 DEF NoRemoval
  <2>3. ArExtra' = ArExtra /\ ~InCall'
    BY <1>1, <2>2 DEF ArExtra, InCall
  <2> QED  BY <1>1, <1>2, <2>1, <2>2, <2>3, ArStay
<1> QED  BY <1>4, <1>5

\* What others do, and what Windows does with the operation, leaves the books alone.
LEMMA WindowsBooks ==
  ASSUME Tables, ArTypes, ArBooks,
         AsyncEnds \/ TimePassesAppx \/ \E p \in Wanted : Reinstall(p) \/ Uninstall(p)
  PROVE  ArKept
<1>1. UNCHANGED comVars /\ removal'.at = removal.at /\ removal'.n = removal.n
  <2>1. CASE UNCHANGED <<removal, comVars>>
    BY <2>1
  <2>2. CASE TimePassesAppx
    <3>1. PICK time : removal' = [removal EXCEPT !.time = time]
      BY <2>2 DEF TimePassesAppx
    <3> QED  BY <2>2, <3>1 DEF TimePassesAppx, ArTypes, ArRecord
  <2> QED  BY <2>1, <2>2 DEF AsyncEnds, Reinstall, Uninstall
<1>2. ArExtra' = ArExtra /\ (InCall' <=> InCall)
  BY <1>1 DEF ArExtra, InCall
<1>3. CASE UNCHANGED async
  <2>1. PICK extra : extra = ArExtra
    OBVIOUS
  <2>2. Tables' /\ Books(Self, extra)' /\ OnlyBooks(Self) /\ deferred'[Self] = deferred[Self]
    BY <1>1, <2>1, SelfIs, SameBooks, ExtraWas DEF ArBooks
  <2>3. ArStack'
    BY <1>1, <1>2, <1>3, <2>2 DEF ArBooks, ArStack, NotRunning, RunningLast, Entered, Inside
  <2> QED  BY <1>2, <2>1, <2>2, <2>3, SelfIs, ExtraIs DEF ArKept, ArBooks
<1>4. CASE AsyncEnds
  <2>1. async.status = "started"
    BY <1>4 DEF AsyncEnds
  <2>2. NotRunning(deferred[Self])
    BY <2>1, NoneRunning DEF Ended
  <2> QED  BY <1>1, <1>2, <2>2, ArStay DEF ArBooks, ArStack
<1> QED  BY <1>3, <1>4 DEF TimePassesAppx, Reinstall, Uninstall

\* A step of a removal keeps the books of all operations.
LEMMA ArAllBooks ==
  ASSUME AllBooks, ArTypes, removal.at = "obtain" => removal.n <= 2, ArNext,
         UNCHANGED <<rp, client>>
  PROVE  AllBooks'
<1>1. ArKept
  <2>1. Tables /\ ArBooks
    BY DEF AllBooks
  <2>2. CASE AsyncEnds \/ TimePassesAppx \/ \E p \in Wanted : Reinstall(p) \/ Uninstall(p)
    BY <2>1, <2>2, WindowsBooks
  <2>3. CASE ObtainManager
    BY <2>1, <2>3, ObtainManagerBooks DEF ObtainManager
  <2>4. CASE BeginRemoval \/ EnterRuntime \/ BeginFind \/ Enumerate \/ HasCurrent \/ GetId
             \/ ReadIdentity \/ EndFind \/ NextName
    BY <2>1, <2>4, BeginRemovalBooks, EnterRuntimeStepBooks, BeginFindBooks, EnumerateBooks,
       HasCurrentBooks, GetIdBooks, ReadIdentityBooks, EndFunctionBooks
  <2>5. CASE StartAsync \/ GetInfo \/ PollEnded \/ PollFails \/ PollTimesOut \/ GetResults
             \/ ReadResult \/ ArUnwind \/ EndName \/ FailFind \/ ArReturn
    BY <2>1, <2>5, OperationBooks, PollBooks, PollEndedBooks, ResultBooks, ArUnwindBooks,
       EndFunctionBooks, LeaveBooks
  <2> QED  BY <2>2, <2>3, <2>4, <2>5 DEF ArNext, ArStep
<1>2. ASSUME NEW q \in RpOp PROVE RpDesk(q)'
  <2>1. q \in Operation \ {Self} /\ RpDesk(q)
    BY DEF AllBooks, RpBooks, Self, RpOp, Operation
  <2>2. PICK extra : extra = RpExtra(q)
    OBVIOUS
  <2>3. Books(q, extra)' /\ deferred'[q] = deferred[q]
    BY <1>1, <2>1, <2>2, OtherBooks, ExtraWas DEF ArKept, RpDesk
  <2>4. RpExtra(q)' = extra
    BY <2>2 DEF RpExtra
  <2>5. RpStack(q)'
    BY <2>1, <2>3 DEF RpDesk, RpStack, NoCallIn, Entered
  <2> QED  BY <2>3, <2>4, <2>5, ExtraIs DEF RpDesk
<1>3. UcBooks'
  <2>1. Me \in Operation \ {Self}
    BY DEF Me, Self, Operation
  <2>2. PICK extra : extra = UcExtra
    OBVIOUS
  <2>3. Books(Me, extra)' /\ deferred'[Me] = deferred[Me]
    BY <1>1, <2>1, <2>2, OtherBooks, ExtraWas DEF ArKept, AllBooks, UcBooks
  <2>4. UcExtra' = extra
    BY <2>2 DEF UcExtra
  <2>5. UcStack'
    BY <2>3 DEF AllBooks, UcBooks, UcStack, NoCallIn, Entered
  <2> QED  BY <2>3, <2>4, <2>5, ExtraIs DEF UcBooks
<1> QED  BY <1>1, <1>2, <1>3 DEF AllBooks, RpBooks, ArKept

-----------------------------------------------------------------------------
(* What a removal of packages knows, action by action.                       *)

\* The removal in progress, and what there is.
LEMMA ArNow ==
  ASSUME ArInv, NEW r, r = removal
  PROVE  /\ r \in ArRecord /\ async \in AsyncRecord /\ r.feed \subseteq r.snapshot
         /\ installed \subseteq AppxPackage /\ again \subseteq AppxPackage
         /\ r.snapshot \subseteq AppxPackage /\ r.pkg \subseteq AppxPackage
         /\ r.names \in Seq(Wanted) /\ r.err \in BOOLEAN
         /\ r.at # "idle" => removed = NotRemoved
         /\ RemovalInv /\ AsyncInv
BY DEF ArInv, ArTypes, ArRecord

\* What has been dealt with stays so, unless somebody installs it again.
LEMMA DealtStays ==
  ASSUME again \subseteq again', installed' \subseteq installed \cup again'
  PROVE  \A p : Dealt(p) => Dealt(p)'
BY DEF Dealt

\* A removal in progress moves on.
LEMMA ArMoves ==
  ASSUME ArInv, NEW s \in ArRecord, removal' = s, s.feed \subseteq s.snapshot,
         removed' = NotRemoved, installed' \subseteq AppxPackage, again' \subseteq AppxPackage,
         async' \in AsyncRecord, RemovalInv', AsyncInv'
  PROVE  ArInv'
<1>1. /\ removed' \in [at : {"none", "returned"}, err : BOOLEAN, asked : SUBSET AppxPackage]
      /\ removed'.at = "none"
  BY DEF NotRemoved
<1>2. ArTypes'
  BY <1>1 DEF ArTypes
<1>3. AppxTruthful'
  BY <1>1 DEF AppxTruthful, AsyncInv
<1> QED  BY <1>2, <1>3 DEF ArInv

\* The same with nothing else changing.
LEMMA ArMovesOn ==
  ASSUME ArInv, removal.at # "idle", UNCHANGED <<installed, async, again, removed>>,
         NEW s \in ArRecord, removal' = s, s.feed \subseteq s.snapshot, RemovalInv',
         s.at \notin {"info", "poll", "result", "read result", "end"} => async = NoAsync,
         s.names = removal.names \/ async = NoAsync
  PROVE  ArInv'
<1>1. /\ async' \in AsyncRecord /\ installed' \subseteq AppxPackage /\ again' \subseteq AppxPackage
      /\ removed' = NotRemoved
  BY ArNow
<1>2. \A p : Dealt(p) => Dealt(p)'
  BY DealtStays
<1>3. AsyncInv'
  <2>1. CASE async = NoAsync
    BY <2>1 DEF AsyncInv, NoAsync
  <2>2. CASE s.names = removal.names /\ async # NoAsync
    <3>1. AsyncInv
      BY ArNow
    <3> QED  BY <1>2, <2>2, <3>1 DEF AsyncInv
  <2> QED  BY <2>1, <2>2
<1> QED  BY <1>1, <1>3, ArMoves

LEMMA ArGiveUpInv ==
  ASSUME ArInv, GiveUp, UNCHANGED <<installed, async, again, removed>>,
         removal.at \in {"enter", "obtain", "enumerate", "has", "id", "read"}
  PROVE  ArInv'
<1>1. PICK r : r = removal
  OBVIOUS
<1>2. PICK s : s = [r EXCEPT !.at = "leave", !.err = TRUE]
  OBVIOUS
<1>3. r \in ArRecord /\ async = NoAsync /\ r.feed \subseteq r.snapshot
  BY <1>1, ArNow DEF AsyncInv
<1>4. /\ s \in ArRecord /\ s.at = "leave" /\ s.err = TRUE /\ s.feed = r.feed
      /\ s.snapshot = r.snapshot
  BY <1>2, <1>3 DEF ArRecord
<1>5. removal' = s
  BY <1>1, <1>2 DEF GiveUp
<1>6. RemovalInv'
  BY <1>4, <1>5 DEF RemovalInv, Removing
<1> QED  BY <1>3, <1>4, <1>5, <1>6, ArMovesOn

\* The removal of one package ends.
LEMMA EndsInv ==
  ASSUME ArInv, NEW err \in BOOLEAN, Ends(err),
         removal.at \in {"operation", "info", "poll", "result", "read result"},
         UNCHANGED <<installed, async, again, removed>>,
         ~err => Dealt(Head(removal.names))
  PROVE  ArInv'
<1>1. PICK r : r = removal
  OBVIOUS
<1>2. PICK e \in BOOLEAN : e = (r.err \/ err)
  BY <1>1, ArNow
<1>3. PICK s : s = [r EXCEPT !.at = "end", !.err = e]
  OBVIOUS
<1>4. /\ r \in ArRecord /\ r.feed = {} /\ r.pkg = {} /\ r.names # <<>> /\ (~r.err => Covered(r))
      /\ r.feed \subseteq r.snapshot
  <2>1. r.at \in {"operation", "info", "poll", "result", "read result"} /\ RemovalInv
        /\ r \in ArRecord /\ r.feed \subseteq r.snapshot
    BY <1>1, ArNow
  <2>2. Removing
    BY <1>1, <2>1 DEF Removing
  <2> QED  BY <1>1, <2>1, <2>2 DEF RemovalInv
<1>5. /\ s \in ArRecord /\ s.at = "end" /\ s.err = e /\ s.feed = {} /\ s.snapshot = r.snapshot
      /\ s.pkg = {} /\ s.names = r.names
  BY <1>3, <1>4 DEF ArRecord
<1>6. removal' = s
  BY <1>1, <1>2, <1>3 DEF Ends
<1>7. \A p : Dealt(p) => Dealt(p)'
  BY DealtStays
<1>8. ~s.err => Dealt(Head(s.names))'
  BY <1>1, <1>2, <1>5, <1>6, <1>7
<1>9. ~s.err => Covered(s)'
  BY <1>2, <1>4, <1>5, <1>6, <1>7 DEF Covered
<1>10. RemovalInv'
  BY <1>4, <1>5, <1>6, <1>8, <1>9 DEF RemovalInv, Removing, Covered
<1> QED  BY <1>1, <1>4, <1>5, <1>6, <1>10, ArMovesOn

\* The record of a removal that has not begun.
LEMMA NoRemovalIs ==
  /\ NoRemoval \in ArRecord /\ NoRemoval.at = "idle" /\ NoRemoval.n = 0
  /\ NoRemoval.feed = {} /\ NoRemoval.snapshot = {} /\ NoRemoval.pkg = {}
<1>1. 0 \in 0..(MaxPackages + 2) /\ {} \in SUBSET AppxPackage /\ <<>> \in Seq(Wanted)
  BY AppxAssumption
<1>2. NoRemoval \in ArRecord
  BY <1>1 DEF NoRemoval, ArRecord
<1>3. /\ NoRemoval.at = "idle" /\ NoRemoval.n = 0
      /\ NoRemoval.feed = {} /\ NoRemoval.snapshot = {} /\ NoRemoval.pkg = {}
  BY DEF NoRemoval
<1> QED  BY <1>2, <1>3

LEMMA BeginRemovalInv ==
  ASSUME ArInv, BeginRemoval
  PROVE  ArInv'
<1>1. PICK r : r = NoRemoval
  OBVIOUS
<1>2. PICK s : s = [r EXCEPT !.at = "enter"]
  OBVIOUS
<1>3. removal' = s
  BY <1>1, <1>2 DEF BeginRemoval
<1>4. r \in ArRecord /\ r.n = 0 /\ r.feed = {} /\ r.snapshot = {} /\ r.pkg = {}
  BY <1>1, NoRemovalIs
<1>5. /\ s \in ArRecord /\ s.at = "enter" /\ s.n = r.n /\ s.feed = r.feed
      /\ s.snapshot = r.snapshot /\ s.pkg = r.pkg
  BY <1>2, <1>4 DEF ArRecord
<1>6. /\ async' = NoAsync /\ NoAsync \in AsyncRecord /\ installed' \subseteq AppxPackage
      /\ again' \subseteq AppxPackage /\ removed' = NotRemoved
  BY ArNow DEF BeginRemoval, NoAsync, AsyncRecord
<1>7. RemovalInv'
  BY <1>3, <1>4, <1>5 DEF RemovalInv, Removing, Covered
<1>8. AsyncInv'
  BY <1>6 DEF AsyncInv, NoAsync
<1> QED  BY <1>3, <1>4, <1>5, <1>6, <1>7, <1>8, ArMoves

\* A step on the way to the packages: nothing is on the list yet.
LEMMA OnTheWayInv ==
  ASSUME ArInv, UNCHANGED <<installed, async, again, removed>>,
         NEW s \in ArRecord, removal' = s,
         \/ removal.at = "enter" /\ s.at = "obtain"
         \/ removal.at = "obtain" /\ s.at \in {"obtain", "enumerate"}
         \/ removal.at = "enumerate" /\ s.at \in {"enumerate", "has"},
         s.at \in {"obtain", "enumerate"} => s.n <= 2,
         s.err = removal.err, s.pkg = removal.pkg, s.names = removal.names,
         \/ s.feed = removal.feed /\ s.snapshot = removal.snapshot
         \/ s.feed = s.snapshot
  PROVE  ArInv'
<1>1. PICK r : r = removal
  OBVIOUS
<1>2. /\ r \in ArRecord /\ async = NoAsync /\ s.feed \subseteq s.snapshot
      /\ r.pkg = {} /\ (~r.err => Covered(r))
  BY <1>1, ArNow DEF AsyncInv, RemovalInv
<1>3. ~s.err => Covered(s)'
  <2>1. \A p : Dealt(p) => Dealt(p)'
    BY DealtStays
  <2> QED  BY <1>1, <1>2, <2>1 DEF Covered
<1>4. RemovalInv'
  BY <1>1, <1>2, <1>3 DEF RemovalInv, Removing, Covered
<1> QED  BY <1>1, <1>2, <1>4, ArMovesOn

LEMMA ToPackagesInv ==
  ASSUME ArInv, EnterRuntime \/ ObtainManager \/ BeginFind \/ Enumerate
  PROVE  ArInv'
<1>1. PICK r : r = removal
  OBVIOUS
<1>2. /\ r \in ArRecord /\ UNCHANGED <<installed, async, again, removed>>
      /\ r.at \in {"enter", "obtain", "enumerate"} /\ RemovalInv /\ installed \subseteq AppxPackage
  BY <1>1, ArNow DEF EnterRuntime, ObtainManager, BeginFind, Enumerate
<1>3. CASE GiveUp
  BY <1>1, <1>2, <1>3, ArGiveUpInv
<1>4. CASE r.at = "enter" /\ GoTo("obtain")
  <2>1. PICK s : s = [r EXCEPT !.at = "obtain"]
    OBVIOUS
  <2>2. removal' = s /\ r.n = 0
    BY <1>1, <1>2, <1>4, <2>1 DEF GoTo, RemovalInv
  <2>3. /\ s \in ArRecord /\ s.at = "obtain" /\ s.n = r.n /\ s.err = r.err /\ s.pkg = r.pkg
        /\ s.names = r.names /\ s.feed = r.feed /\ s.snapshot = r.snapshot
    BY <1>2, <2>1 DEF ArRecord
  <2>4. s.n <= 2
    BY <2>2, <2>3
  <2> QED  BY <1>1, <1>2, <1>4, <2>2, <2>3, <2>4, OnTheWayInv
<1>5. ASSUME NEW place \in {"obtain", "enumerate", "has"}, NEW n \in 0..2,
             removal' = [r EXCEPT !.at = place, !.n = n],
             r.at = "obtain" => place # "has", r.at = "enumerate" => place # "obtain",
             r.at # "enter"
      PROVE  ArInv'
  <2>1. PICK s : s = [r EXCEPT !.at = place, !.n = n]
    OBVIOUS
  <2>2. n \in 0..(MaxPackages + 2) /\ n <= 2
    BY AppxAssumption
  <2>3. /\ s \in ArRecord /\ s.at = place /\ s.n = n /\ s.err = r.err /\ s.pkg = r.pkg
        /\ s.names = r.names /\ s.feed = r.feed /\ s.snapshot = r.snapshot
    BY <1>2, <2>1, <2>2 DEF ArRecord
  <2>4. removal' = s
    BY <1>5, <2>1
  <2> QED  BY <1>1, <1>2, <1>5, <2>2, <2>3, <2>4, OnTheWayInv
<1>6. CASE /\ r.at = "obtain"
           /\ removal' = IF removal.n = 2 THEN [removal EXCEPT !.at = "enumerate", !.n = 0]
                         ELSE [removal EXCEPT !.n = @ + 1]
  <2>1. r.n <= 2
    BY <1>1, <1>2, <1>6 DEF RemovalInv
  <2>2. PICK n : n = r.n
    OBVIOUS
  <2>3. n \in 0..2
    <3>1. PICK m : m = MaxPackages + 2
      OBVIOUS
    <3>2. n \in 0..m
      BY <1>2, <2>2, <3>1 DEF ArRecord
    <3>3. m \in Nat
      BY <3>1, AppxAssumption
    <3>4. n <= 2
      BY <2>1, <2>2
    <3> QED  BY <3>2, <3>3, <3>4
  <2>4. CASE n = 2
    <3>1. PICK zero \in 0..2 : zero = 0
      OBVIOUS
    <3>2. removal' = [r EXCEPT !.at = "enumerate", !.n = zero]
      BY <1>1, <1>6, <2>2, <2>4, <3>1
    <3> QED  BY <1>5, <1>6, <3>2
  <2>5. CASE n # 2
    <3>1. PICK m \in 0..2 : m = n + 1
      BY <2>3, <2>5
    <3>2. removal' = [r EXCEPT !.n = m]
      BY <1>1, <1>6, <2>2, <2>5, <3>1
    <3>3. removal' = [r EXCEPT !.at = "obtain", !.n = m]
      BY <1>2, <1>6, <3>2 DEF ArRecord
    <3> QED  BY <1>5, <1>6, <3>3
  <2> QED  BY <2>4, <2>5
<1>7. CASE r.at = "enumerate" /\ removal' = [removal EXCEPT !.n = 1]
  <2>1. PICK one \in 0..2 : one = 1
    OBVIOUS
  <2>2. removal' = [r EXCEPT !.at = "enumerate", !.n = one]
    BY <1>1, <1>2, <1>7, <2>1 DEF ArRecord
  <2> QED  BY <1>5, <1>7, <2>2
<1>8. CASE r.at = "enumerate" /\ removal' = [removal EXCEPT !.at = "has", !.n = 0]
  <2>1. PICK zero \in 0..2 : zero = 0
    OBVIOUS
  <2>2. removal' = [r EXCEPT !.at = "has", !.n = zero]
    BY <1>1, <1>8, <2>1
  <2> QED  BY <1>5, <1>8, <2>2
<1>9. CASE /\ r.at = "enumerate"
           /\ removal' = [removal EXCEPT !.n = 2, !.feed = installed, !.snapshot = installed]
  <2>1. PICK two \in 0..2 : two = 2
    OBVIOUS
  <2>2. two \in 0..(MaxPackages + 2) /\ two <= 2
    BY <2>1, AppxAssumption
  <2>3. PICK s : s = [r EXCEPT !.n = two, !.feed = installed, !.snapshot = installed]
    OBVIOUS
  <2>4. removal' = s
    BY <1>1, <1>9, <2>1, <2>3
  <2>5. /\ s \in ArRecord /\ s.at = "enumerate" /\ s.n = two /\ s.err = r.err /\ s.pkg = r.pkg
        /\ s.names = r.names /\ s.feed = s.snapshot
    BY <1>2, <1>9, <2>2, <2>3 DEF ArRecord
  <2> QED  BY <1>1, <1>2, <1>9, <2>2, <2>4, <2>5, OnTheWayInv
<1>10. CASE EnterRuntime
  BY <1>1, <1>3, <1>4, <1>10 DEF EnterRuntime
<1>11. CASE ObtainManager
  BY <1>1, <1>3, <1>6, <1>11 DEF ObtainManager
<1>12. CASE BeginFind
  BY <1>1, <1>3, <1>7, <1>12 DEF BeginFind
<1>13. CASE Enumerate
  BY <1>1, <1>3, <1>8, <1>9, <1>13 DEF Enumerate
<1> QED  BY <1>10, <1>11, <1>12, <1>13

\* A package is taken up, and its identity is read.
LEMMA HasCurrentInv ==
  ASSUME ArInv, HasCurrent \/ GetId
  PROVE  ArInv'
<1>1. PICK r : r = removal
  OBVIOUS
<1>2. /\ r \in ArRecord /\ UNCHANGED <<installed, async, again, removed>> /\ async = NoAsync
      /\ r.at \in {"has", "id"} /\ r.feed \subseteq r.snapshot /\ r.snapshot \subseteq AppxPackage
      /\ RemovalInv
  BY <1>1, ArNow DEF HasCurrent, GetId, AsyncInv
<1>3. /\ ~r.err => Covered(r)
      /\ r.at = "has" => r.pkg = {}
      /\ r.at = "id" => \E p \in AppxPackage : r.pkg = {p}
  BY <1>1, <1>2 DEF RemovalInv
<1>4. \A p : Dealt(p) => Dealt(p)'
  BY <1>2, DealtStays
<1>5. CASE GiveUp
  BY <1>1, <1>2, <1>5, ArGiveUpInv
<1>6. CASE \/ HasCurrent /\ r.feed = {} /\ GoTo("found")
           \/ GetId /\ GoTo("read")
  <2>1. PICK place \in {"found", "read"} :
          /\ GoTo(place)
          /\ \/ r.at = "has" /\ r.feed = {} /\ place = "found"
             \/ r.at = "id" /\ place = "read"
    BY <1>1, <1>6 DEF HasCurrent, GetId
  <2>2. PICK s : s = [r EXCEPT !.at = place]
    OBVIOUS
  <2>3. removal' = s
    BY <1>1, <2>1, <2>2 DEF GoTo
  <2>4. /\ s \in ArRecord /\ s.at = place /\ s.err = r.err /\ s.pkg = r.pkg
        /\ s.names = r.names /\ s.feed = r.feed /\ s.snapshot = r.snapshot
    BY <1>2, <2>2 DEF ArRecord
  <2>5. ~s.err => Covered(s)'
    BY <1>3, <1>4, <2>4 DEF Covered
  <2>6. RemovalInv'
    BY <1>3, <2>1, <2>3, <2>4, <2>5 DEF RemovalInv, Removing, Covered
  <2> QED  BY <1>1, <1>2, <2>3, <2>4, <2>6, ArMovesOn
<1>7. CASE /\ HasCurrent
           /\ \E p \in removal.snapshot :
               removal' = [removal EXCEPT !.at = "id", !.n = @ + 1, !.pkg = {p},
                                          !.feed = @ \ {p}]
           /\ removal.n < MaxPackages
  <2>1. PICK p \in removal.snapshot :
          removal' = [removal EXCEPT !.at = "id", !.n = @ + 1, !.pkg = {p}, !.feed = @ \ {p}]
    BY <1>7
  <2>2. PICK one, feed, n : one = {p} /\ feed = r.feed \ one /\ n = r.n + 1
    OBVIOUS
  <2>3. n \in 0..(MaxPackages + 2)
    <3>1. PICK m, k : m = MaxPackages + 2 /\ k = r.n
      OBVIOUS
    <3>2. k \in 0..m
      BY <1>2, <3>1 DEF ArRecord
    <3>3. k < MaxPackages
      BY <1>1, <1>7, <3>1
    <3>4. k + 1 \in 0..m
      BY <3>1, <3>2, <3>3, AppxAssumption
    <3> QED  BY <2>2, <3>1, <3>4
  <2>4. PICK s : s = [r EXCEPT !.at = "id", !.n = n, !.pkg = one, !.feed = feed]
    OBVIOUS
  <2>5. removal' = s
    BY <1>1, <2>1, <2>2, <2>4
  <2>6. one \in SUBSET AppxPackage /\ feed \in SUBSET AppxPackage /\ p \in AppxPackage
    BY <1>1, <1>2, <2>1, <2>2
  <2>7. /\ s \in ArRecord /\ s.at = "id" /\ s.err = r.err /\ s.pkg = one
        /\ s.names = r.names /\ s.feed = feed /\ s.snapshot = r.snapshot
    BY <1>2, <2>3, <2>4, <2>6 DEF ArRecord
  <2>8. s.feed \subseteq s.snapshot
    BY <1>2, <2>2, <2>7
  <2>9. ~s.err => Covered(s)'
    BY <1>1, <1>3, <1>4, <1>7, <2>2, <2>7 DEF Covered, HasCurrent
  <2>10. RemovalInv'
    BY <2>2, <2>5, <2>6, <2>7, <2>9 DEF RemovalInv, Removing, Covered
  <2> QED  BY <1>1, <1>2, <2>5, <2>7, <2>8, <2>10, ArMovesOn
<1> QED  BY <1>1, <1>5, <1>6, <1>7 DEF HasCurrent, GetId

\* A package that matches gets on the list, and nothing on it is lost.
LEMMA MatchedFacts ==
  ASSUME NEW names \in Seq(Wanted), NEW p
  PROVE  /\ Matched(names, p) \in Seq(Wanted) /\ Range(names) \subseteq Range(Matched(names, p))
         /\ p \in Wanted => p \in Range(Matched(names, p))
<1>1. CASE p \notin Wanted \/ p \in Range(names)
  BY <1>1 DEF Matched
<1>2. CASE p \in Wanted /\ p \notin Range(names) /\ p \in Main
  <2>1. PICK one : one = <<p>>
    OBVIOUS
  <2>2. one \in Seq(Wanted) /\ Len(one) = 1 /\ one[1] = p
    BY <1>2, <2>1
  <2>3. PICK w : w = one \o names
    OBVIOUS
  <2>4. w \in Seq(Wanted) /\ Range(w) = Range(one) \cup Range(names)
    BY <2>2, <2>3, ConcatProperties, RangeConcatenation
  <2>5. p \in Range(one)
    BY <2>2 DEF Range
  <2>6. Matched(names, p) = w
    BY <1>2, <2>1, <2>3 DEF Matched
  <2> QED  BY <2>4, <2>5, <2>6
<1>3. CASE p \in Wanted /\ p \notin Range(names) /\ p \notin Main
  <2>1. PICK w, n : w = Append(names, p) /\ n = Len(names)
    OBVIOUS
  <2>2. /\ w \in Seq(Wanted) /\ n \in Nat /\ DOMAIN w = 1..(n + 1) /\ DOMAIN names = 1..n
        /\ \A i \in 1..(n + 1) : w[i] = IF i <= n THEN names[i] ELSE p
    BY <1>3, <2>1
  <2>3. ASSUME NEW x \in Range(names) PROVE x \in Range(w)
    <3>1. PICK i \in 1..n : names[i] = x
      BY <2>2 DEF Range
    <3>2. i \in 1..(n + 1) /\ w[i] = x
      BY <2>2, <3>1
    <3> QED  BY <2>2, <3>2 DEF Range
  <2>4. p \in Range(w)
    <3>1. n + 1 \in 1..(n + 1) /\ w[n + 1] = p
      BY <2>2
    <3> QED  BY <2>2, <3>1 DEF Range
  <2>5. Matched(names, p) = w
    BY <1>3, <2>1 DEF Matched
  <2> QED  BY <2>2, <2>3, <2>4, <2>5
<1> QED  BY <1>1, <1>2, <1>3

\* The list without its first name.
LEMMA RestOfNames ==
  ASSUME NEW names \in Seq(Wanted), names # <<>>
  PROVE  /\ Tail(names) \in Seq(Wanted) /\ Head(names) \in Wanted
         /\ \A x \in Range(names) : x = Head(names) \/ x \in Range(Tail(names))
<1>1. PICK t, n : t = Tail(names) /\ n = Len(names)
  OBVIOUS
<1>2. /\ t \in Seq(Wanted) /\ n \in Nat \ {0} /\ DOMAIN names = 1..n /\ DOMAIN t = 1..(n - 1)
      /\ Head(names) = names[1] /\ Head(names) \in Wanted
      /\ \A i \in 1..(n - 1) : t[i] = names[i + 1]
  <2>1. Len(t) = n - 1 /\ n \in Nat \ {0}
    BY <1>1
  <2> QED  BY <1>1, <2>1
<1>3. ASSUME NEW x \in Range(names), x # Head(names) PROVE x \in Range(t)
  <2>1. PICK i \in 1..n : names[i] = x
    BY <1>2, <1>3 DEF Range
  <2>2. PICK k : k = i - 1
    OBVIOUS
  <2>3. k \in 1..(n - 1) /\ t[k] = x
    BY <1>2, <1>3, <2>1, <2>2
  <2> QED  BY <1>2, <2>3 DEF Range
<1> QED  BY <1>1, <1>2, <1>3

LEMMA ReadIdentityInv ==
  ASSUME ArInv, ReadIdentity
  PROVE  ArInv'
<1>1. PICK r : r = removal
  OBVIOUS
<1>2. /\ r \in ArRecord /\ UNCHANGED <<installed, async, again, removed>> /\ async = NoAsync
      /\ r.at = "read" /\ r.feed \subseteq r.snapshot /\ r.names \in Seq(Wanted) /\ RemovalInv
  BY <1>1, ArNow DEF ReadIdentity, AsyncInv
<1>3. /\ ~r.err => Covered(r)
      /\ \E p \in AppxPackage : r.pkg = {p}
  BY <1>1, <1>2 DEF RemovalInv
<1>4. \A p : Dealt(p) => Dealt(p)'
  BY <1>2, DealtStays
<1>5. CASE GiveUp
  BY <1>1, <1>2, <1>5, ArGiveUpInv
<1>6. CASE \E p \in removal.pkg :
            /\ Len(Matched(removal.names, p)) <= MaxMatched
            /\ removal' = [removal EXCEPT !.at = "has", !.pkg = {}, !.names = Matched(@, p)]
  <2>1. PICK p \in removal.pkg :
            removal' = [removal EXCEPT !.at = "has", !.pkg = {}, !.names = Matched(@, p)]
    BY <1>6
  <2>2. PICK none, names : none = {} /\ names = Matched(r.names, p)
    OBVIOUS
  <2>3. PICK s : s = [r EXCEPT !.at = "has", !.pkg = none, !.names = names]
    OBVIOUS
  <2>4. removal' = s /\ r.pkg = {p}
    BY <1>1, <1>3, <2>1, <2>2, <2>3
  <2>5. /\ names \in Seq(Wanted) /\ Range(r.names) \subseteq Range(names)
        /\ p \in Wanted => p \in Range(names)
    BY <1>2, <2>2, MatchedFacts
  <2>6. none \in SUBSET AppxPackage
    BY <2>2
  <2>7. /\ s \in ArRecord /\ s.at = "has" /\ s.err = r.err /\ s.pkg = none
        /\ s.names = names /\ s.feed = r.feed /\ s.snapshot = r.snapshot
    BY <1>2, <2>3, <2>5, <2>6 DEF ArRecord
  <2>8. ~s.err => Covered(s)'
    BY <1>3, <1>4, <2>4, <2>5, <2>7 DEF Covered
  <2>9. RemovalInv'
    BY <2>2, <2>4, <2>7, <2>8 DEF RemovalInv, Removing, Covered
  <2> QED  BY <1>1, <1>2, <2>4, <2>7, <2>9, ArMovesOn
<1> QED  BY <1>5, <1>6 DEF ReadIdentity

\* The list is complete.
LEMMA EndFindInv ==
  ASSUME ArInv, EndFind
  PROVE  ArInv'
<1>1. PICK r : r = removal
  OBVIOUS
<1>2. /\ r \in ArRecord /\ UNCHANGED <<installed, async, again, removed>> /\ async = NoAsync
      /\ r.at = "found" /\ r.feed \subseteq r.snapshot /\ RemovalInv /\ GoTo("names")
  BY <1>1, ArNow DEF EndFind, AsyncInv
<1>3. (~r.err => Covered(r)) /\ r.feed = {} /\ r.pkg = {}
  BY <1>1, <1>2 DEF RemovalInv
<1>4. PICK s : s = [r EXCEPT !.at = "names"]
  OBVIOUS
<1>5. /\ s \in ArRecord /\ s.at = "names" /\ s.err = r.err /\ s.pkg = r.pkg
      /\ s.names = r.names /\ s.feed = r.feed /\ s.snapshot = r.snapshot
  BY <1>2, <1>4 DEF ArRecord
<1>6. removal' = s
  BY <1>1, <1>2, <1>4 DEF GoTo
<1>7. ~s.err => Covered(s)'
  BY <1>2, <1>3, <1>5, DealtStays DEF Covered
<1>8. RemovalInv'
  BY <1>3, <1>5, <1>6, <1>7 DEF RemovalInv, Removing, Covered
<1> QED  BY <1>1, <1>2, <1>5, <1>6, <1>8, ArMovesOn

\* The next package of the list, and the end of one.
LEMMA NextNameInv ==
  ASSUME ArInv, NextName \/ EndName
  PROVE  ArInv'
<1>1. PICK r : r = removal
  OBVIOUS
<1>2. /\ r \in ArRecord /\ UNCHANGED <<installed, again, removed>> /\ async' = NoAsync
      /\ r.at \in {"names", "end"} /\ r.feed \subseteq r.snapshot /\ RemovalInv
      /\ r.names \in Seq(Wanted) /\ removed = NotRemoved
      /\ installed \subseteq AppxPackage /\ again \subseteq AppxPackage
  BY <1>1, ArNow DEF NextName, EndName
<1>3. /\ ~r.err => Covered(r)
      /\ r.feed = {} /\ r.pkg = {}
      /\ r.at = "end" => r.names # <<>> /\ (~r.err => Dealt(Head(r.names)))
  BY <1>1, <1>2 DEF RemovalInv, Removing
<1>4. \A p : Dealt(p) => Dealt(p)'
  BY <1>2, DealtStays
<1>5. NoAsync \in AsyncRecord /\ AsyncInv'
  BY <1>2 DEF AsyncInv, NoAsync, AsyncRecord
<1>6. ASSUME NEW s \in ArRecord, removal' = s, RemovalInv', s.feed = {} PROVE ArInv'
  BY <1>2, <1>5, <1>6, ArMoves
<1>7. CASE GoTo("leave") /\ r.names = <<>>
  <2>1. PICK s : s = [r EXCEPT !.at = "leave"]
    OBVIOUS
  <2>2. /\ s \in ArRecord /\ s.at = "leave" /\ s.err = r.err /\ s.pkg = r.pkg
        /\ s.names = r.names /\ s.feed = r.feed /\ s.snapshot = r.snapshot
    BY <1>2, <2>1 DEF ArRecord
  <2>3. removal' = s
    BY <1>1, <1>7, <2>1 DEF GoTo
  <2>4. ~s.err => Covered(s)'
    BY <1>3, <1>4, <2>2 DEF Covered
  <2>5. RemovalInv'
    BY <1>3, <1>7, <2>2, <2>3, <2>4 DEF RemovalInv, Removing, Covered
  <2> QED  BY <1>3, <1>6, <2>2, <2>3, <2>5
<1>8. CASE r.names # <<>> /\ removal' = [removal EXCEPT !.at = "operation", !.time = "waiting"]
  <2>1. PICK s : s = [r EXCEPT !.at = "operation", !.time = "waiting"]
    OBVIOUS
  <2>2. /\ s \in ArRecord /\ s.at = "operation" /\ s.err = r.err /\ s.pkg = r.pkg
        /\ s.names = r.names /\ s.feed = r.feed /\ s.snapshot = r.snapshot
    BY <1>2, <2>1 DEF ArRecord
  <2>3. removal' = s
    BY <1>1, <1>8, <2>1
  <2>4. ~s.err => Covered(s)'
    BY <1>3, <1>4, <2>2 DEF Covered
  <2>5. RemovalInv'
    BY <1>3, <1>8, <2>2, <2>3, <2>4 DEF RemovalInv, Removing, Covered
  <2> QED  BY <1>3, <1>6, <2>2, <2>3, <2>5
<1>9. CASE /\ r.at = "names" /\ r.names # <<>>
           /\ removal' = [removal EXCEPT !.names = Tail(@), !.err = TRUE]
  <2>1. PICK names : names = Tail(r.names)
    OBVIOUS
  <2>2. PICK s : s = [r EXCEPT !.names = names, !.err = TRUE]
    OBVIOUS
  <2>3. removal' = s /\ names \in Seq(Wanted)
    BY <1>1, <1>2, <1>9, <2>1, <2>2, RestOfNames
  <2>4. /\ s \in ArRecord /\ s.at = r.at /\ s.err = TRUE /\ s.pkg = r.pkg
        /\ s.names = names /\ s.feed = r.feed /\ s.snapshot = r.snapshot
    BY <1>2, <2>2, <2>3 DEF ArRecord
  <2>5. RemovalInv'
    BY <1>3, <1>9, <2>3, <2>4 DEF RemovalInv, Removing, Covered
  <2> QED  BY <1>3, <1>6, <2>3, <2>4, <2>5
<1>10. CASE r.at = "end" /\ removal' = [removal EXCEPT !.at = "names", !.names = Tail(@)]
  <2>1. PICK names : names = Tail(r.names)
    OBVIOUS
  <2>2. PICK s : s = [r EXCEPT !.at = "names", !.names = names]
    OBVIOUS
  <2>3. /\ removal' = s /\ names \in Seq(Wanted)
        /\ \A x \in Range(r.names) : x = Head(r.names) \/ x \in Range(names)
    BY <1>1, <1>2, <1>3, <1>10, <2>1, <2>2, RestOfNames
  <2>4. /\ s \in ArRecord /\ s.at = "names" /\ s.err = r.err /\ s.pkg = r.pkg
        /\ s.names = names /\ s.feed = r.feed /\ s.snapshot = r.snapshot
    BY <1>2, <2>2, <2>3 DEF ArRecord
  <2>5. ~s.err => Covered(s)'
    BY <1>3, <1>4, <1>10, <2>3, <2>4 DEF Covered
  <2>6. RemovalInv'
    BY <1>3, <2>3, <2>4, <2>5 DEF RemovalInv, Removing, Covered
  <2> QED  BY <1>3, <1>6, <2>3, <2>4, <2>6
<1> QED  BY <1>1, <1>7, <1>8, <1>9, <1>10 DEF NextName, EndName

\* An operation is started, and waited for.
LEMMA WaitInv ==
  ASSUME ArInv, Removing, removal.at \in {"operation", "info", "poll", "result"},
         NEW s \in ArRecord, removal' = s, s.at \in {"info", "poll", "result", "read result"},
         s.err = removal.err, s.names = removal.names, s.feed = removal.feed,
         s.pkg = removal.pkg, s.snapshot = removal.snapshot,
         UNCHANGED <<installed, again, removed>>, async' \in AsyncRecord, AsyncInv'
  PROVE  ArInv'
<1>1. PICK r : r = removal
  OBVIOUS
<1>2. /\ r.feed \subseteq r.snapshot /\ RemovalInv /\ removed = NotRemoved
      /\ installed \subseteq AppxPackage /\ again \subseteq AppxPackage
  BY <1>1, ArNow
<1>3. (~r.err => Covered(r)) /\ r.feed = {} /\ r.pkg = {} /\ r.names # <<>>
  BY <1>1, <1>2 DEF RemovalInv, Removing
<1>4. ~s.err => Covered(s)'
  BY <1>1, <1>3, DealtStays DEF Covered
<1>5. RemovalInv'
  BY <1>1, <1>3, <1>4 DEF RemovalInv, Removing, Covered
<1> QED  BY <1>1, <1>2, <1>3, <1>5, ArMoves

LEMMA GoOnInv ==
  ASSUME ArInv, NEW place \in {"info", "poll", "result", "read result"}, GoTo(place),
         removal.at \in {"operation", "info", "poll", "result"},
         UNCHANGED <<installed, again, removed>>, async' \in AsyncRecord, AsyncInv'
  PROVE  ArInv'
<1>1. PICK r : r = removal
  OBVIOUS
<1>2. PICK s : s = [r EXCEPT !.at = place]
  OBVIOUS
<1>3. r \in ArRecord /\ removal' = s /\ Removing
  BY <1>1, <1>2, ArNow DEF GoTo, Removing
<1>4. /\ s \in ArRecord /\ s.at = place /\ s.err = r.err /\ s.pkg = r.pkg
      /\ s.names = r.names /\ s.feed = r.feed /\ s.snapshot = r.snapshot
  BY <1>2, <1>3 DEF ArRecord
<1> QED  BY <1>1, <1>3, <1>4, WaitInv

LEMMA StartAsyncInv ==
  ASSUME ArInv, StartAsync
  PROVE  ArInv'
<1>1. /\ removal.at = "operation" /\ UNCHANGED <<installed, again, removed>> /\ async = NoAsync
  BY ArNow DEF StartAsync, AsyncInv
<1>2. CASE Head(removal.names) \notin installed /\ Ends(FALSE) /\ UNCHANGED async
  <2>1. Dealt(Head(removal.names))
    BY <1>2 DEF Dealt
  <2> QED  BY <1>1, <1>2, <2>1, EndsInv
<1>3. CASE Ends(TRUE) /\ UNCHANGED async
  BY <1>1, <1>3, EndsInv
<1>4. CASE GoTo("info") /\ async' = [NoAsync EXCEPT !.status = "started"]
  <2>1. PICK a : a = [NoAsync EXCEPT !.status = "started"]
    OBVIOUS
  <2>2. a \in AsyncRecord /\ a.status = "started" /\ ~a.missing /\ ~a.gone /\ ~a.closed
    BY <2>1 DEF NoAsync, AsyncRecord
  <2>3. removal'.at = "info"
    <3>1. ArTypes
      BY DEF ArInv
    <3> QED  BY <1>4, <3>1, ArGoes
  <2>4. AsyncInv'
    BY <1>4, <2>1, <2>2, <2>3 DEF AsyncInv
  <2> QED  BY <1>1, <1>4, <2>1, <2>2, <2>4, GoOnInv
<1> QED  BY <1>2, <1>3, <1>4 DEF StartAsync

LEMMA ResultsInv ==
  ASSUME ArInv, GetInfo \/ PollFails \/ PollEnded \/ GetResults \/ ReadResult
  PROVE  ArInv'
<1>1. /\ removal.at \in {"info", "poll", "result", "read result"} /\ AsyncInv
      /\ UNCHANGED <<installed, async, again, removed>> /\ async \in AsyncRecord
  BY ArNow DEF GetInfo, PollFails, PollEnded, GetResults, ReadResult
<1>2. ASSUME NEW place \in {"poll", "result", "read result"}, GoTo(place),
             removal.at \in {"info", "poll", "result"}
      PROVE  ArInv'
  <2>1. removal'.at = place /\ removal'.names = removal.names
    <3>1. removal \in ArRecord
      BY DEF ArInv, ArTypes
    <3> QED  BY <1>2, <3>1 DEF GoTo, ArRecord
  <2>2. AsyncInv'
    <3>1. \A p : Dealt(p) => Dealt(p)'
      BY <1>1, DealtStays
    <3> QED  BY <1>1, <1>2, <2>1, <3>1 DEF AsyncInv
  <2> QED  BY <1>1, <1>2, <2>2, GoOnInv
<1>3. CASE Ends(TRUE)
  BY <1>1, <1>3, EndsInv
<1>4. ASSUME NEW err \in BOOLEAN, Ends(err), ~err => Dealt(Head(removal.names))
      PROVE  ArInv'
  BY <1>1, <1>4, EndsInv
<1>5. CASE GetInfo
  BY <1>2, <1>3, <1>5 DEF GetInfo
<1>6. CASE PollFails
  BY <1>3, <1>6 DEF PollFails
<1>7. CASE PollEnded
  <2>1. CASE GoTo("result")
    BY <1>2, <1>7, <2>1 DEF PollEnded
  <2>2. CASE Ends(TimedOut \/ ~async.missing)
    <3>1. PICK err \in BOOLEAN : err = (TimedOut \/ ~async.missing)
      OBVIOUS
    <3>2. Ends(err)
      BY <2>2, <3>1 DEF Ends
    <3>3. ~err => async.missing
      BY <3>1
    <3>4. ~err => Dealt(Head(removal.names))
      BY <1>1, <3>3 DEF AsyncInv
    <3> QED  BY <1>4, <3>2, <3>4
  <2> QED  BY <1>7, <2>1, <2>2 DEF PollEnded
<1>8. CASE GetResults
  <2>1. CASE GoTo("read result")
    BY <1>2, <1>8, <2>1 DEF GetResults
  <2>2. CASE Ends(Head(removal.names) \in installed)
    <3>0. PICK err : err = (Head(removal.names) \in installed)
      OBVIOUS
    <3>1. err \in BOOLEAN /\ err = (Head(removal.names) \in installed)
      BY <3>0
    <3>2. Ends(err)
      BY <2>2, <3>1 DEF Ends
    <3>3. ~err => Dealt(Head(removal.names))
      BY <3>1 DEF Dealt
    <3> QED  BY <1>4, <3>1, <3>2, <3>3
  <2> QED  BY <1>3, <1>8, <2>1, <2>2 DEF GetResults
<1>9. CASE ReadResult
  <2>1. CASE Ends(~async.gone /\ Head(removal.names) \in installed)
    <3>1. PICK err \in BOOLEAN : err = (~async.gone /\ Head(removal.names) \in installed)
      OBVIOUS
    <3>2. Ends(err)
      BY <2>1, <3>1 DEF Ends
    <3>3. ~err => async.gone \/ Head(removal.names) \notin installed
      BY <3>1
    <3>4. ~err => Dealt(Head(removal.names))
      BY <1>1, <3>3 DEF AsyncInv, Dealt
    <3> QED  BY <1>4, <3>2, <3>4
  <2> QED  BY <1>3, <1>9, <2>1 DEF ReadResult
<1> QED  BY <1>5, <1>6, <1>7, <1>8, <1>9

\* Time passes, and the operation is asked to cancel.
LEMMA TimeInv ==
  ASSUME ArInv, PollTimesOut \/ TimePassesAppx
  PROVE  ArInv'
<1>1. PICK r, a : r = removal /\ a = async
  OBVIOUS
<1>2. /\ r.at = "poll" /\ UNCHANGED <<installed, again, removed>> /\ AsyncInv /\ r \in ArRecord
      /\ a \in AsyncRecord /\ Removing
  BY <1>1, ArNow DEF PollTimesOut, TimePassesAppx, Removing
<1>3. CASE Ends(TRUE) /\ UNCHANGED async
  BY <1>1, <1>2, <1>3, EndsInv
<1>4. ASSUME NEW time \in {"late", "canceling", "overdue"}, removal' = [removal EXCEPT !.time = time],
             async' = async \/ async' = [async EXCEPT !.canceling = TRUE]
      PROVE  ArInv'
  <2>1. PICK s, b : s = [r EXCEPT !.time = time] /\ b = async'
    OBVIOUS
  <2>2. /\ s \in ArRecord /\ s.at = r.at /\ s.err = r.err /\ s.pkg = r.pkg
        /\ s.names = r.names /\ s.feed = r.feed /\ s.snapshot = r.snapshot
    BY <1>2, <1>4, <2>1 DEF ArRecord
  <2>3. /\ b \in AsyncRecord /\ b.status = a.status /\ b.missing = a.missing /\ b.gone = a.gone
        /\ b.closed = a.closed
    BY <1>1, <1>2, <1>4, <2>1 DEF AsyncRecord
  <2>4. removal' = s
    BY <1>1, <1>4, <2>1
  <2>5. \A p : Dealt(p) => Dealt(p)'
    BY <1>2, DealtStays
  <2>6. AsyncInv'
    BY <1>1, <1>2, <2>1, <2>2, <2>3, <2>4, <2>5 DEF AsyncInv
  <2> QED  BY <1>1, <1>2, <2>1, <2>2, <2>3, <2>4, <2>6, WaitInv
<1>5. CASE PollTimesOut
  BY <1>3, <1>4, <1>5 DEF PollTimesOut
<1>6. CASE TimePassesAppx
  BY <1>4, <1>6 DEF TimePassesAppx
<1> QED  BY <1>5, <1>6

\* The operation ends: the package is gone, or it is not.
LEMMA AsyncEndsInv ==
  ASSUME ArInv, AsyncEnds
  PROVE  ArInv'
<1>1. PICK a, p : a = async /\ p = Head(removal.names)
  OBVIOUS
<1>2. /\ a \in AsyncRecord /\ a.status = "started" /\ UNCHANGED <<removal, again, removed>>
      /\ AsyncInv /\ RemovalInv /\ installed \subseteq AppxPackage
  BY <1>1, ArNow DEF AsyncEnds
<1>3. /\ ~a.missing /\ ~a.gone /\ ~a.closed
      /\ removal.at \in {"info", "poll", "result", "read result", "end"}
  <2>1. async # NoAsync
    BY <1>1, <1>2 DEF NoAsync
  <2>2. removal.at \in {"info", "poll", "result", "read result", "end"}
    BY <1>2, <2>1 DEF AsyncInv
  <2>3. ~a.missing /\ ~a.gone
    BY <1>1, <1>2 DEF AsyncInv
  <2>4. "started" \notin Ended
    BY DEF Ended
  <2> QED  BY <1>1, <1>2, <2>2, <2>3, <2>4 DEF AsyncInv
<1>4. p \in Wanted
  <2>1. removal.names \in Seq(Wanted) /\ removal.names # <<>>
    BY <1>2, <1>3, ArNow DEF RemovalInv, Removing
  <2> QED  BY <1>1, <2>1
<1>5. ASSUME NEW b \in AsyncRecord, async' = b, installed' \subseteq installed,
             b.status \in Ended, b.missing \/ b.gone => Dealt(p)', b.closed = a.closed
      PROVE  ArInv'
  <2>1. \A q : Dealt(q) => Dealt(q)'
    BY <1>2, <1>5, DealtStays
  <2>2. AsyncInv'
    BY <1>1, <1>2, <1>3, <1>5 DEF AsyncInv, Ended
  <2>3. RemovalInv'
    BY <1>2, <2>1 DEF RemovalInv, Removing, Covered
  <2>4. ArTypes'
    BY <1>2, <1>5 DEF ArInv, ArTypes
  <2>5. AppxTruthful'
    BY <1>2, <1>3, <1>5 DEF ArInv, AppxTruthful
  <2> QED  BY <1>2, <2>2, <2>3, <2>4, <2>5 DEF ArInv
<1>6. ASSUME NEW status \in Ended, NEW missing \in BOOLEAN, NEW gone \in BOOLEAN,
             async' = [a EXCEPT !.status = status, !.missing = missing, !.gone = gone],
             installed' \subseteq installed, missing \/ gone => Dealt(p)'
      PROVE  ArInv'
  <2>1. PICK b : b = [a EXCEPT !.status = status, !.missing = missing, !.gone = gone]
    OBVIOUS
  <2>2. /\ b \in AsyncRecord /\ b.status = status /\ b.missing = missing /\ b.gone = gone
        /\ b.closed = a.closed
    BY <1>2, <1>6, <2>1 DEF AsyncRecord
  <2> QED  BY <1>5, <1>6, <2>1, <2>2
<1>7. {"completed", "canceled", "error"} \subseteq Ended
  BY DEF Ended
<1>8. CASE /\ async' = [async EXCEPT !.status = "completed", !.gone = TRUE]
           /\ installed' = Without(p)
  <2>1. installed' \subseteq installed /\ p \notin installed'
    BY <1>4, <1>8 DEF Without
  <2>2. async' = [a EXCEPT !.status = "completed", !.missing = FALSE, !.gone = TRUE]
    BY <1>1, <1>2, <1>3, <1>8 DEF AsyncRecord
  <2>3. Dealt(p)'
    BY <2>1 DEF Dealt
  <2> QED  BY <1>6, <1>7, <2>1, <2>2, <2>3
<1>9. ASSUME NEW status \in {"completed", "canceled"}, async' = [async EXCEPT !.status = status],
             UNCHANGED installed
      PROVE  ArInv'
  <2>1. async' = [a EXCEPT !.status = status, !.missing = FALSE, !.gone = FALSE]
    BY <1>1, <1>2, <1>3, <1>9 DEF AsyncRecord
  <2> QED  BY <1>6, <1>7, <1>9, <2>1
<1>10. CASE /\ \E missing \in {p \notin installed, FALSE} :
                   async' = [async EXCEPT !.status = "error", !.missing = missing]
            /\ UNCHANGED installed
  <2>1. PICK missing \in {p \notin installed, FALSE} :
          async' = [async EXCEPT !.status = "error", !.missing = missing]
    BY <1>10
  <2>2. missing \in BOOLEAN
    BY <2>1
  <2>3. missing => p \notin installed
    BY <2>1
  <2>4. async' = [a EXCEPT !.status = "error", !.missing = missing, !.gone = FALSE]
    BY <1>1, <1>2, <1>3, <2>1 DEF AsyncRecord
  <2>5. missing => Dealt(p)'
    BY <1>10, <2>3 DEF Dealt
  <2> QED  BY <1>6, <1>7, <1>10, <2>2, <2>4, <2>5
<1> QED  BY <1>1, <1>8, <1>9, <1>10 DEF AsyncEnds

\* Other programs install and remove packages.
LEMMA OthersInv ==
  ASSUME ArInv, NEW p \in Wanted, Reinstall(p) \/ Uninstall(p)
  PROVE  ArInv'
<1>1. /\ UNCHANGED <<async, removal, removed>> /\ again \subseteq again'
      /\ installed' \subseteq installed \cup again'
      /\ installed' \subseteq installed \cup {p} /\ again' \subseteq again \cup {p}
  BY DEF Reinstall, Uninstall
<1>2. \A q : Dealt(q) => Dealt(q)'
  BY <1>1, DealtStays
<1>3. p \in AppxPackage
  BY AppxAssumption
<1>4. ArTypes'
  BY <1>1, <1>3 DEF ArInv, ArTypes
<1>5. RemovalInv'
  BY <1>1, <1>2 DEF ArInv, RemovalInv, Removing, Covered
<1>6. AsyncInv'
  BY <1>1, <1>2 DEF ArInv, AsyncInv
<1>7. AppxTruthful'
  BY <1>1 DEF ArInv, AppxTruthful
<1> QED  BY <1>1, <1>4, <1>5, <1>6, <1>7 DEF ArInv

\* Deferred calls: an operation that is closed has ended, which the books know.
LEMMA ArUnwindInv ==
  ASSUME ArInv, ArBooks, ArUnwind
  PROVE  ArInv'
<1>1. PICK r, a : r = removal /\ a = async
  OBVIOUS
<1>2. /\ r \in ArRecord /\ a \in AsyncRecord /\ UNCHANGED <<installed, again, removed>>
      /\ r.at \in {"found", "end", "leave"} /\ RunDeferred(Self) /\ RemovalInv /\ AsyncInv
      /\ removed = NotRemoved /\ r.feed \subseteq r.snapshot
      /\ installed \subseteq AppxPackage /\ again \subseteq AppxPackage
  BY <1>1, ArNow DEF ArUnwind
<1>3. \A p : Dealt(p) => Dealt(p)'
  BY <1>2, DealtStays
<1>4. CASE UNCHANGED <<async, removal>>
  <2>1. RemovalInv'
    BY <1>2, <1>3, <1>4 DEF RemovalInv, Removing, Covered
  <2>2. AsyncInv'
    BY <1>2, <1>3, <1>4 DEF AsyncInv
  <2> QED  BY <1>1, <1>2, <1>4, <2>1, <2>2, ArMoves
<1>5. CASE /\ Last(deferred[Self]) = "running"
           /\ async' = [async EXCEPT !.closed = TRUE]
           /\ \E failed \in BOOLEAN : removal' = [removal EXCEPT !.err = @ \/ failed]
  <2>1. r.at = "end" /\ a.status \in Ended
    <3>1. PICK d, S : d = deferred[Self] /\ d \in Seq(S)
      BY DEF ArBooks, Books
    <3>2. d # <<>>
      BY <1>2, <3>1 DEF RunDeferred, Unwinding
    <3>3. Last(d) = d[Len(d)] /\ Len(d) \in Nat \ {0}
      BY <3>1, <3>2, WithoutLast
    <3>4. Len(d) \in DOMAIN d
      BY <3>1, <3>3
    <3>5. ~NotRunning(d)
      BY <1>5, <3>1, <3>3, <3>4 DEF NotRunning
    <3> QED  BY <1>1, <1>2, <3>1, <3>5 DEF ArBooks, ArStack
  <2>2. PICK failed \in BOOLEAN : removal' = [removal EXCEPT !.err = @ \/ failed]
    BY <1>5
  <2>3. PICK e : e = (r.err \/ failed)
    OBVIOUS
  <2>4. e \in BOOLEAN /\ (~e => ~r.err)
    BY <2>3
  <2>5. PICK s, b : s = [r EXCEPT !.err = e] /\ b = [a EXCEPT !.closed = TRUE]
    OBVIOUS
  <2>6. removal' = s /\ async' = b
    BY <1>1, <1>5, <2>2, <2>3, <2>5
  <2>7. /\ s \in ArRecord /\ s.at = "end" /\ s.err = e /\ s.pkg = r.pkg
        /\ s.names = r.names /\ s.feed = r.feed /\ s.snapshot = r.snapshot
    BY <1>2, <2>1, <2>4, <2>5 DEF ArRecord
  <2>8. /\ b \in AsyncRecord /\ b.status = a.status /\ b.missing = a.missing /\ b.gone = a.gone
    BY <1>2, <2>5 DEF AsyncRecord
  <2>9. /\ ~r.err => Covered(r) /\ Dealt(Head(r.names))
        /\ r.feed = {} /\ r.pkg = {} /\ r.names # <<>>
    BY <1>1, <1>2, <2>1 DEF RemovalInv, Removing
  <2>10. ~s.err => Covered(s)'
    BY <1>3, <2>4, <2>7, <2>9 DEF Covered
  <2>11. RemovalInv'
    BY <1>3, <2>4, <2>6, <2>7, <2>9, <2>10 DEF RemovalInv, Removing, Covered
  <2>12. AsyncInv'
    BY <1>1, <1>2, <1>3, <2>1, <2>6, <2>7, <2>8 DEF AsyncInv
  <2> QED  BY <1>2, <2>6, <2>7, <2>8, <2>9, <2>11, <2>12, ArMoves
<1> QED  BY <1>4, <1>5 DEF ArUnwind

\* The answer says what has been found out.
LEMMA ArReturnInv ==
  ASSUME ArInv, ArReturn
  PROVE  ArInv'
<1>1. PICK r : r = removal
  OBVIOUS
<1>2. /\ r \in ArRecord /\ r.at = "leave" /\ UNCHANGED <<installed, async, again>>
      /\ removal' = NoRemoval /\ async = NoAsync /\ RemovalInv
  BY <1>1, ArNow DEF ArReturn, AsyncInv
<1>3. ~r.err => Covered(r) /\ r.feed = {} /\ r.pkg = {} /\ r.names = <<>>
  BY <1>1, <1>2 DEF RemovalInv
<1>4. PICK m : m = [at |-> "returned", err |-> r.err, asked |-> r.snapshot \cap Wanted]
  OBVIOUS
<1>5. removed' = m
  BY <1>1, <1>4 DEF ArReturn
<1>6. /\ m.at = "returned" /\ m.err = r.err /\ m.asked = r.snapshot \cap Wanted
      /\ m \in [at : {"none", "returned"}, err : BOOLEAN, asked : SUBSET AppxPackage]
  BY <1>2, <1>4 DEF ArRecord
<1>7. PICK s : s = NoRemoval
  OBVIOUS
<1>8. s \in ArRecord /\ s.at = "idle" /\ s.feed = {} /\ s.snapshot = {} /\ s.pkg = {}
  BY <1>7, NoRemovalIs
<1>9. removal' = s
  BY <1>2, <1>7
<1>10. ArTypes'
  BY <1>2, <1>5, <1>6, <1>8, <1>9 DEF ArInv, ArTypes
<1>11. RemovalInv'
  BY <1>8, <1>9 DEF RemovalInv, Removing, Covered
<1>12. AsyncInv'
  BY <1>2 DEF AsyncInv, NoAsync
<1>13. AppxTruthful'
  <2>1. ~r.err => \A p \in m.asked : Dealt(p)
    <3>1. Range(<<>>) = {}
      BY DEF Range
    <3> QED  BY <1>3, <1>6, <3>1 DEF Covered
  <2>2. AsyncInv'
    BY <1>12
  <2> QED  BY <1>2, <1>5, <1>6, <2>1, <2>2 DEF AppxTruthful, Dealt, AsyncInv
<1> QED  BY <1>8, <1>9, <1>10, <1>11, <1>12, <1>13 DEF ArInv

\* A step that leaves the packages and the removal alone leaves what is known of them.
LEMMA ArSame ==
  ASSUME ArInv, UNCHANGED OnlyAppx
  PROVE  ArInv'
<1>1. UNCHANGED <<installed, async, removal, again, removed>>
  BY DEF OnlyAppx
<1>2. \A p : Dealt(p) => Dealt(p)'
  BY <1>1, DealtStays
<1>3. ArTypes'
  BY <1>1 DEF ArInv, ArTypes
<1>4. RemovalInv'
  BY <1>1, <1>2 DEF ArInv, RemovalInv, Removing, Covered
<1>5. AsyncInv'
  BY <1>1, <1>2 DEF ArInv, AsyncInv
<1>6. AppxTruthful'
  BY <1>1 DEF ArInv, AppxTruthful
<1> QED  BY <1>1, <1>3, <1>4, <1>5, <1>6 DEF ArInv

LEMMA ArStepInv ==
  ASSUME ArInv, ArBooks, ArNext
  PROVE  ArInv'
<1>1. CASE FailFind
  BY <1>1, ArSame DEF FailFind, OnlyAppx
<1>2. CASE \E p \in Wanted : Reinstall(p) \/ Uninstall(p)
  BY <1>2, OthersInv
<1> QED
  BY <1>1, <1>2, BeginRemovalInv, ToPackagesInv, HasCurrentInv, ReadIdentityInv, EndFindInv,
     NextNameInv, StartAsyncInv, ResultsInv, TimeInv, AsyncEndsInv, ArUnwindInv, ArReturnInv
     DEF ArNext, ArStep

-----------------------------------------------------------------------------
(* The invariant.                                                            *)

LEMMA NoBooks ==
  ASSUME ComInit, NEW o \in Operation
  PROVE  Tables /\ Books(o, {}) /\ deferred[o] = <<>> /\ NoCallIn(deferred[o])
<1>1. PICK none : none = {}
  OBVIOUS
<1>2. PICK d : d = <<>>
  OBVIOUS
<1>3. /\ Tables /\ deferred[o] = d /\ held[o] = [r \in Resource(o) |-> 0]
      /\ d \in Seq(Resource(o) \cup {"call"}) /\ DOMAIN d = {}
  BY <1>2 DEF ComInit, Tables
<1>4. \A r \in Resource(o) : Owed(d, r) = 0
  <2>1. {i \in DOMAIN d : TRUE} = {}
    BY <1>3
  <2> QED  BY <1>3, <2>1, FS_EmptySet DEF Owed
<1>5. held[o] = Balance(o, d, none)
  BY <1>1, <1>3, <1>4 DEF Balance
<1>6. Shape(o, d) /\ NoCallIn(d)
  BY <1>3 DEF Shape, NoCallIn
<1> QED  BY <1>1, <1>2, <1>3, <1>5, <1>6 DEF Books

LEMMA InitBooks ==
  ASSUME Init
  PROVE  AllBooks
<1>1. ComInit /\ rp = [o \in RpOp |-> NoOp] /\ client = NoCall /\ removal = NoRemoval /\ async = NoAsync
  BY DEF Init, ThrottleInit, RpInit, UcInit, ArInit
<1>2. client.at = "idle" /\ removal.at = "idle" /\ \A o \in RpOp : rp[o].at = "idle"
  BY <1>1 DEF NoOp, NoCall, NoRemoval
<1>3. RpOp \subseteq Operation /\ Me \in Operation /\ Self \in Operation
  BY DEF RpOp, Operation, Me, Self
<1>4. UcExtra = {} /\ ArExtra = {} /\ \A o \in RpOp : RpExtra(o) = {}
  BY <1>2 DEF UcExtra, ArExtra, RpExtra
<1>5. Tables
  BY <1>1, <1>3, NoBooks
<1>6. ASSUME NEW o \in RpOp PROVE RpDesk(o)
  BY <1>1, <1>2, <1>3, <1>4, NoBooks DEF RpDesk, RpStack
<1>7. UcBooks
  BY <1>1, <1>2, <1>3, <1>4, NoBooks DEF UcBooks, UcStack
<1>8. ArBooks
  <2>1. NotRunning(deferred[Self]) /\ RunningLast(deferred[Self]) /\ ~InCall
    <3>1. DOMAIN deferred[Self] = {}
      BY <1>1, <1>3, NoBooks
    <3> QED  BY <1>2, <3>1 DEF NotRunning, RunningLast, InCall
  <2> QED  BY <1>1, <1>2, <1>3, <1>4, <2>1, NoBooks DEF ArBooks, ArStack
<1> QED  BY <1>5, <1>6, <1>7, <1>8 DEF AllBooks, RpBooks

LEMMA InitRp ==
  ASSUME Init
  PROVE  RpInv
<1>1. /\ points = <<>> /\ policy = FALSE /\ security = "unset" /\ once = {}
      /\ rp = [o \in RpOp |-> NoOp] /\ created = NotCreated /\ listed = NotListed
  BY DEF Init, ThrottleInit, RpInit
<1>2. PICK op : op = NoOp
  OBVIOUS
<1>3. /\ op \in RpRecord /\ op.at = "idle" /\ op.outcome = "unset" /\ op.number = 0 /\ ~op.err
      /\ op.n = 0 /\ op.rows = <<>> /\ op.bad = {} /\ op.errs = 0 /\ ~op.dropped
  BY <1>2, RestoreAssumption DEF NoOp, RpRecord
<1>4. \A o \in RpOp : rp[o] = op
  BY <1>1, <1>2
<1>5. points \in Seq(BOOLEAN) /\ Len(points) <= MaxPoints
  BY <1>1, RestoreAssumption
<1>6. /\ created \in [at : {"none", "returned"}, err : BOOLEAN, number : 0..MaxPoints]
      /\ created.at = "none"
  BY <1>1, RestoreAssumption DEF NotCreated
<1>7. /\ listed \in [at : {"none", "returned"}, err : BOOLEAN, rows : Seq(Point),
                     bad : SUBSET Point, snapshot : SUBSET Point]
      /\ listed.at = "none" /\ listed.rows = <<>>
  BY <1>1 DEF NotListed
<1>8. RpTypes
  <2>1. rp \in [RpOp -> RpRecord]
    BY <1>1, <1>2, <1>3
  <2>2. policy \in BOOLEAN /\ security \in {"unset", "ok", "failed"} /\ once \subseteq RpOp
    BY <1>1
  <2> QED  BY <1>5, <1>6, <1>7, <2>1, <2>2 DEF RpTypes
<1>9. Secured
  <2>1. "create" \in RpOp
    BY DEF RpOp
  <2> QED  BY <1>1, <1>3, <1>4, <2>1 DEF Secured
<1>10. rp["create"] = op /\ rp["list"] = op
  BY <1>4 DEF RpOp
<1>11. Creation
  BY <1>1, <1>3, <1>10 DEF Creation
<1>12. Listing
  BY <1>3, <1>10 DEF Listing
<1>13. CreatedTruthful
  BY <1>6 DEF CreatedTruthful
<1>14. ListedTruthful
  <2>1. DOMAIN listed.rows = {}
    BY <1>7
  <2> QED  BY <1>7, <2>1 DEF ListedTruthful
<1> QED  BY <1>8, <1>9, <1>11, <1>12, <1>13, <1>14 DEF RpInv

LEMMA InitThrottle ==
  ASSUME Init
  PROVE  ThrottleInv
<1>1. /\ now = 0 /\ logger \in BOOLEAN /\ last = {} /\ asker = Nobody /\ reply = NoReply /\ successes = {}
      /\ rp = [o \in RpOp |-> NoOp]
  BY DEF Init, ThrottleInit, RpInit
<1>2. rp["create"].at = "idle"
  BY <1>1 DEF NoOp, RpOp
<1>3. /\ asker \in [at : {"idle", "creating"}, how : {"auto", "manual"}, since : 0..MaxTime]
      /\ asker.at = "idle"
  BY <1>1, ThrottleAssumption DEF Nobody
<1>4. /\ reply \in [how : {"none", "off", "skipped", "auto", "manual"}, err : BOOLEAN,
                    recorded : BOOLEAN, since : 0..MaxTime]
      /\ reply.how = "none"
  BY <1>1, ThrottleAssumption DEF NoReply
<1>5. now \in 0..MaxTime /\ Cardinality(last) <= 1
  <2>1. Cardinality({}) = 0
    BY FS_EmptySet
  <2> QED  BY <1>1, <2>1, ThrottleAssumption
<1>6. ThrottleTypeOK
  BY <1>1, <1>3, <1>4, <1>5 DEF ThrottleTypeOK
<1>7. Throttled
  BY <1>3, <1>4 DEF Throttled
<1> QED  BY <1>1, <1>2, <1>3, <1>6, <1>7 DEF ThrottleInv

LEMMA InitUc ==
  ASSUME Init
  PROVE  UcInv
<1>1. updates \in [Update -> {"missing", "installed"}] /\ client = NoCall /\ answer = NoAnswer
  BY DEF Init, UcInit
<1>2. PICK c : c = NoCall
  OBVIOUS
<1>3. c \in UcRecord /\ c.at = "idle"
  BY <1>2, UpdateAssumption DEF NoCall, UcRecord, Kind
<1>4. client = c /\ answer.kind = "none"
  BY <1>1, <1>2 DEF NoAnswer
<1>5. UcTypes
  <2>1. updates \in [Update -> {"missing", "downloaded", "installed"}]
    BY <1>1
  <2>2. answer \in [kind : Kind \cup {"none"}, err : BOOLEAN, asked : SUBSET Update,
                    list : SUBSET Update]
    BY <1>1 DEF NoAnswer
  <2> QED  BY <1>3, <1>4, <2>1, <2>2 DEF UcTypes
<1>6. Search /\ Installation
  BY <1>3, <1>4 DEF Search, Installation
<1>7. UpdatesTruthful
  BY <1>3, <1>4 DEF UpdatesTruthful
<1> QED  BY <1>3, <1>4, <1>5, <1>6, <1>7 DEF UcInv

LEMMA InitAr ==
  ASSUME Init
  PROVE  ArInv
<1>1. /\ installed = AppxPackage /\ again = {} /\ async = NoAsync /\ removal = NoRemoval
      /\ removed = NotRemoved
  BY DEF Init, ArInit
<1>2. PICK r, a : r = NoRemoval /\ a = NoAsync
  OBVIOUS
<1>3. r \in ArRecord /\ r.at = "idle" /\ r.feed = {} /\ r.snapshot = {} /\ r.pkg = {}
  BY <1>2, NoRemovalIs
<1>4. a \in AsyncRecord /\ a.status = "none" /\ ~a.missing /\ ~a.gone /\ ~a.closed
  BY <1>2 DEF NoAsync, AsyncRecord
<1>5. removal = r /\ async = a
  BY <1>1, <1>2
<1>6. /\ removed \in [at : {"none", "returned"}, err : BOOLEAN, asked : SUBSET AppxPackage]
      /\ removed.at = "none"
  BY <1>1 DEF NotRemoved
<1>7. ArTypes
  BY <1>1, <1>3, <1>4, <1>5, <1>6 DEF ArTypes
<1>8. RemovalInv
  BY <1>3, <1>5 DEF RemovalInv, Removing, Covered
<1>9. AsyncInv
  BY <1>1, <1>4, <1>5 DEF AsyncInv
<1>10. AppxTruthful
  BY <1>4, <1>5, <1>6 DEF AppxTruthful
<1> QED  BY <1>3, <1>5, <1>7, <1>8, <1>9, <1>10 DEF ArInv

\* A step that touches nobody's books and no operation leaves all of them as they are.
LEMMA AllBooksSame ==
  ASSUME AllBooks, UNCHANGED <<comVars, rp, client, removal, async>>
  PROVE  AllBooks'
<1>1. UNCHANGED <<held, deferred>>
  BY DEF comVars
<1>2. Tables'
  BY <1>1 DEF AllBooks, Tables
<1>3. ASSUME NEW o \in RpOp PROVE RpDesk(o)'
  BY <1>1 DEF AllBooks, RpBooks, RpDesk, RpStack, RpExtra, Books, NoCallIn, Entered
<1>4. UcBooks'
  BY <1>1 DEF AllBooks, UcBooks, UcStack, UcExtra, Books, NoCallIn, Entered
<1>5. ArBooks'
  BY <1>1 DEF AllBooks, ArBooks, ArStack, ArExtra, Books, NoCallIn, Entered, Inside, InCall,
              NotRunning, RunningLast
<1> QED  BY <1>2, <1>3, <1>4, <1>5 DEF AllBooks, RpBooks

\* Sessions.
LEMMA RestoreInv ==
  ASSUME CallsInv, RestoreSession
  PROVE  CallsInv'
<1>1. /\ session = "restore" /\ UNCHANGED session /\ RpInv /\ AllBooks /\ RpTypes /\ Listing
      /\ UNCHANGED <<client, removal, async>> /\ UNCHANGED OnlyAppx
      /\ UNCHANGED <<updates, client, answer>>
  BY DEF RestoreSession, CallsInv, RpInv, OnlyUpdates, OnlyAppx
<1>2. AllBooks' /\ RpInv'
  <2>1. PICK c \in RpOp, l \in RpOp : c = "create" /\ l = "list"
    BY DEF RpOp
  <2>2. CASE BeginCreate
    BY <1>1, <2>1, <2>2, RpStepAllBooks, RpStepInv
  <2>3. CASE BeginList
    BY <1>1, <2>1, <2>3, RpStepAllBooks, RpStepInv
  <2>4. ASSUME NEW o \in RpOp, RpStep(o) PROVE AllBooks' /\ RpInv'
    BY <1>1, <2>4, RpStepAllBooks, RpStepInv
  <2> QED  BY <2>2, <2>3, <2>4 DEF RestoreSession, RpNext
<1>3. ThrottleInv'
  BY <1>1, UnthrottledInv DEF RestoreSession, CallsInv
<1>4. UcInv' /\ ArInv'
  BY <1>1, UcSame, ArSame DEF CallsInv
<1> QED  BY <1>1, <1>2, <1>3, <1>4 DEF CallsInv

LEMMA ThrottledInv ==
  ASSUME CallsInv, ThrottleSession
  PROVE  CallsInv'
<1>1. /\ session = "throttle" /\ UNCHANGED session /\ RpInv /\ AllBooks /\ RpTypes /\ Listing
      /\ UNCHANGED <<client, removal, async>> /\ UNCHANGED OnlyAppx
      /\ UNCHANGED <<updates, client, answer>> /\ ThrottleNext
  BY DEF ThrottleSession, CallsInv, RpInv, OnlyUpdates, OnlyAppx
<1>2. AllBooks' /\ RpInv'
  <2>1. PICK o \in RpOp : o = "create"
    BY DEF RpOp
  <2>2. CASE Ensure \/ CreateRestorePoint
    BY <1>1, <2>1, <2>2, RpStepAllBooks, RpStepInv DEF Ensure, CreateRestorePoint
  <2>3. CASE CreateStep
    <3>1. RpStep(o)
      BY <2>1, <2>3 DEF CreateStep
    <3> QED  BY <1>1, <3>1, RpStepAllBooks, RpStepInv
  <2>4. CASE TimePasses \/ Off \/ Skip \/ EndCreate
    <3>1. UNCHANGED rpVars
      BY <2>4 DEF TimePasses, Off, Skip, EndCreate
    <3>2. UNCHANGED <<points, policy, security, once, rp, created, listed, comVars>>
      BY <3>1 DEF rpVars
    <3> QED  BY <1>1, <3>2, AllBooksSame, RpSame
  <2> QED  BY <1>1, <2>2, <2>3, <2>4 DEF ThrottleNext
<1>3. ThrottleInv'
  BY <1>1, ThrottleStepInv DEF CallsInv
<1>4. UcInv' /\ ArInv'
  BY <1>1, UcSame, ArSame DEF CallsInv
<1> QED  BY <1>1, <1>2, <1>3, <1>4 DEF CallsInv

LEMMA UpdateSessionInv ==
  ASSUME CallsInv, UpdateSession
  PROVE  CallsInv'
<1>1. /\ session = "updates" /\ UNCHANGED session /\ AllBooks /\ UcInv /\ UcTypes /\ UcNext
      /\ UNCHANGED <<points, policy, security, once, rp, created, listed>>
      /\ UNCHANGED <<rp, removal, async>> /\ UNCHANGED OnlyAppx /\ UNCHANGED OnlyThrottle
  BY DEF UpdateSession, CallsInv, UcInv, OnlyRestore, OnlyAppx
<1>2. AllBooks' /\ UcInv'
  BY <1>1, UcAllBooks, UcStepInv
<1>3. ThrottleInv'
  BY <1>1, UnthrottledInv DEF CallsInv
<1>4. RpInv' /\ ArInv'
  BY <1>1, RpSame, ArSame DEF CallsInv
<1> QED  BY <1>1, <1>2, <1>3, <1>4 DEF CallsInv

LEMMA AppxSessionInv ==
  ASSUME CallsInv, AppxSession
  PROVE  CallsInv'
<1>1. /\ session = "appx" /\ UNCHANGED session /\ AllBooks /\ ArInv /\ ArNext
      /\ UNCHANGED <<points, policy, security, once, rp, created, listed>>
      /\ UNCHANGED <<rp, client>> /\ UNCHANGED <<updates, client, answer>>
      /\ UNCHANGED OnlyThrottle
  BY DEF AppxSession, CallsInv, OnlyRestore, OnlyUpdates
<1>2. ArTypes /\ RemovalInv /\ ArBooks
  BY <1>1 DEF ArInv, AllBooks
<1>3. removal.at = "obtain" => removal.n <= 2
  BY <1>2 DEF RemovalInv
<1>4. AllBooks' /\ ArInv'
  BY <1>1, <1>2, <1>3, ArAllBooks, ArStepInv
<1>5. ThrottleInv'
  BY <1>1, UnthrottledInv DEF CallsInv
<1>6. RpInv' /\ UcInv'
  BY <1>1, RpSame, UcSame DEF CallsInv
<1> QED  BY <1>1, <1>4, <1>5, <1>6 DEF CallsInv

LEMMA StutterInv ==
  ASSUME CallsInv, UNCHANGED vars
  PROVE  CallsInv'
<1>1. /\ UNCHANGED <<points, policy, security, once, rp, created, listed>> /\ UNCHANGED comVars
      /\ UNCHANGED <<now, logger, last, asker, reply, successes>> /\ UNCHANGED session
      /\ UNCHANGED <<updates, client, answer>> /\ UNCHANGED <<installed, async, removal, again, removed>>
  BY DEF vars, throttleVars, rpVars, ucVars, arVars
<1>2. AllBooks' /\ RpInv' /\ UcInv' /\ ArInv'
  BY <1>1, AllBooksSame, RpSame, UcSame, ArSame DEF CallsInv, OnlyAppx
<1>3. ThrottleInv'
  BY <1>1 DEF CallsInv, ThrottleInv, ThrottleTypeOK, Throttled
<1> QED  BY <1>1, <1>2, <1>3 DEF CallsInv

LEMMA InvariantOfCalls == Spec => []CallsInv
<1>1. Init => CallsInv
  BY InitBooks, InitRp, InitThrottle, InitUc, InitAr DEF Init, CallsInv
<1>2. CallsInv /\ [Next]_vars => CallsInv'
  BY RestoreInv, ThrottledInv, UpdateSessionInv, AppxSessionInv, StutterInv DEF Next
<1> QED  BY <1>1, <1>2, PTL DEF Spec

-----------------------------------------------------------------------------
(* The theorems.                                                             *)

\* Every operation's books say that what it holds it can and will give back.
LEMMA OperationOrderly ==
  ASSUME CallsInv, NEW o \in Operation
  PROVE  /\ deferred[o] \in Seq(Resource(o) \cup {"call"}) /\ DOMAIN held[o] = Resource(o)
         /\ \A r \in Resource(o) : held[o][r] \in Nat
         /\ held[o]["thread"] >= held[o]["apartment"]
         /\ (\E r \in Interface[o] : Holds(o, r)) => Holds(o, "apartment")
         /\ Entered(deferred[o]) => Holds(o, "apartment")
         /\ Idle(o) => NothingHeld(o)
<1>1. ASSUME NEW extra, Books(o, extra), extra = Plain \/ "apartment" \notin extra,
             extra \cap Interface[o] # {} => Entered(deferred[o]),
             Idle(o) => deferred[o] = <<>> /\ extra = {}
      PROVE  /\ deferred[o] \in Seq(Resource(o) \cup {"call"}) /\ DOMAIN held[o] = Resource(o)
             /\ \A r \in Resource(o) : held[o][r] \in Nat
             /\ held[o]["thread"] >= held[o]["apartment"]
             /\ (\E r \in Interface[o] : Holds(o, r)) => Holds(o, "apartment")
             /\ Entered(deferred[o]) => Holds(o, "apartment")
             /\ Idle(o) => NothingHeld(o)
  <2>1. "apartment" \in extra => "thread" \in extra
    BY <1>1 DEF Plain
  <2>2. deferred[o] \in Seq(Resource(o) \cup {"call"}) /\ DOMAIN held[o] = Resource(o)
    BY <1>1 DEF Books, Balance
  <2> QED  BY <1>1, <2>1, <2>2, BooksOrderly
<1>2. Plain \cap Interface[o] = {}
  BY Kinds
<1>3. CASE o \in RpOp
  <2>1. PICK extra : extra = RpExtra(o)
    OBVIOUS
  <2>2. Books(o, extra) /\ RpStack(o)
    BY <1>3, <2>1, ExtraWas DEF CallsInv, AllBooks, RpBooks, RpDesk
  <2>3. extra = Plain \/ "apartment" \notin extra
    BY <2>1 DEF RpExtra
  <2>4. extra \cap Interface[o] # {} => Entered(deferred[o])
    BY <1>2, <2>1, <2>2 DEF RpExtra, RpStack
  <2>5. Idle(o) => deferred[o] = <<>> /\ extra = {}
    <3>1. Idle(o) => rp[o].at = "idle"
      BY <1>3 DEF Idle, RpOp
    <3> QED  BY <2>1, <2>2, <3>1 DEF RpExtra, RpStack
  <2> QED  BY <1>1, <2>2, <2>3, <2>4, <2>5
<1>4. CASE o = Me
  <2>1. PICK extra : extra = UcExtra
    OBVIOUS
  <2>2. Books(o, extra) /\ UcStack
    BY <1>4, <2>1, ExtraWas DEF CallsInv, AllBooks, UcBooks
  <2>3. extra = Plain \/ "apartment" \notin extra
    BY <2>1 DEF UcExtra
  <2>4. extra \cap Interface[o] # {} => Entered(deferred[o])
    BY <1>2, <1>4, <2>1, <2>2 DEF UcExtra, UcStack
  <2>5. Idle(o) => deferred[o] = <<>> /\ extra = {}
    <3>1. Idle(o) => client.at = "idle"
      BY <1>4 DEF Idle, Me
    <3> QED  BY <1>4, <2>1, <2>2, <3>1 DEF UcExtra, UcStack
  <2> QED  BY <1>1, <2>2, <2>3, <2>4, <2>5
<1>5. CASE o = Self
  <2>1. PICK extra : extra = ArExtra
    OBVIOUS
  <2>2. Books(o, extra) /\ ArStack
    BY <1>5, <2>1, ExtraWas DEF CallsInv, AllBooks, ArBooks
  <2>3. extra = Plain \/ "apartment" \notin extra
    BY <2>1 DEF ArExtra
  <2>4. extra \cap Interface[o] # {} => Entered(deferred[o])
    BY <1>2, <1>5, <2>1, <2>2 DEF ArExtra, ArStack
  <2>5. Idle(o) => deferred[o] = <<>> /\ extra = {}
    <3>1. Idle(o) => removal.at = "idle"
      BY <1>5 DEF Idle, Self
    <3> QED  BY <1>5, <2>1, <2>2, <3>1 DEF ArExtra, ArStack
  <2> QED  BY <1>1, <2>2, <2>3, <2>4, <2>5
<1> QED  BY <1>3, <1>4, <1>5 DEF Operation, RpOp, Me, Self

LEMMA TypesOfCalls ==
  ASSUME CallsInv
  PROVE  TypeOK
<1>1. ComTypeOK
  <2>1. ASSUME NEW o \in Operation
        PROVE  held[o] \in [Resource(o) -> Int] /\ deferred[o] \in Seq(Resource(o) \cup {"call"})
    <3>1. PICK h, R : h = held[o] /\ R = Resource(o)
      OBVIOUS
    <3>2. DOMAIN h = R /\ \A r \in R : h[r] \in Nat
      BY <3>1, OperationOrderly
    <3>3. h = [r \in R |-> h[r]]
      <4>1. PICK extra : Books(o, extra)
        BY DEF CallsInv, AllBooks, RpBooks, RpDesk, UcBooks, ArBooks, Operation, RpOp, Me, Self
      <4> QED  BY <3>1, <4>1 DEF Books, Balance
    <3>4. h \in [R -> Int]
      BY <3>2, <3>3
    <3> QED  BY <3>1, <3>4, OperationOrderly
  <2> QED  BY <2>1 DEF ComTypeOK
<1>2. RpTypeOK
  <2>1. RpTypes
    BY DEF CallsInv, RpInv
  <2>2. ASSUME NEW o \in RpOp
        PROVE  /\ rp[o].at \in {"idle", "enter", "security", "sids", "configure", "configured",
                                "begin", "end", "acquire", "rows", "row", "leave"}
               /\ rp[o].sids \in 0..SidTypes /\ rp[o].number \in 0..MaxPoints
               /\ rp[o].outcome \in {"unset", "ok", "failed"} /\ rp[o].err \in BOOLEAN
               /\ rp[o].n \in 0..(MaxRestorePoints + 6) /\ rp[o].rows \in Seq(Point)
               /\ rp[o].feed \cup rp[o].bad \cup rp[o].snapshot \subseteq Point
               /\ rp[o].errs \in 0..MaxRowErrors /\ rp[o].dropped \in BOOLEAN
    <3>1. PICK op \in RpRecord : op = rp[o]
      BY <2>1 DEF RpTypes
    <3> QED  BY <3>1 DEF RpRecord
  <2>3. created.at \in {"none", "returned"} /\ listed.at \in {"none", "returned"}
    BY <2>1 DEF RpTypes
  <2> QED  BY <1>1, <2>1, <2>2, <2>3 DEF RpTypes, RpTypeOK
<1>3. ThrottleTypeOK
  BY DEF CallsInv, ThrottleInv
<1>4. UcTypeOK
  BY <1>1 DEF CallsInv, UcInv, UcTypes, UcRecord, UcTypeOK
<1>5. ArTypeOK
  <2>1. ArTypes
    BY DEF CallsInv, ArInv
  <2>2. PICK r \in ArRecord : r = removal
    BY <2>1 DEF ArTypes
  <2>3. /\ removed.at \in {"none", "returned"} /\ removed.err \in BOOLEAN
        /\ async \in [status : Ended \cup {"none", "started"}, missing : BOOLEAN,
                      gone : BOOLEAN, canceling : BOOLEAN, closed : BOOLEAN]
    BY <2>1 DEF ArTypes, AsyncRecord
  <2>4. /\ r.at \in {"idle", "enter", "obtain", "enumerate", "has", "id", "read", "found",
                     "names", "operation", "info", "poll", "result", "read result", "end",
                     "leave"}
        /\ r.n \in 0..(MaxPackages + 2) /\ r.names \in Seq(Wanted)
        /\ r.snapshot \subseteq AppxPackage /\ r.pkg \subseteq AppxPackage
        /\ r.time \in {"waiting", "late", "canceling", "overdue"} /\ r.err \in BOOLEAN
    BY <2>2 DEF ArRecord
  <2> QED  BY <1>1, <2>1, <2>2, <2>3, <2>4 DEF ArTypes, ArTypeOK
<1> QED  BY <1>2, <1>3, <1>4, <1>5 DEF CallsInv, TypeOK

LEMMA ReleasedByCalls ==
  ASSUME CallsInv
  PROVE  ComReleased
<1>1. ASSUME NEW o \in Operation, NEW r \in Resource(o) PROVE held[o][r] >= 0
  <2>1. held[o][r] \in Nat
    BY OperationOrderly
  <2> QED  BY <2>1
<1> QED  BY <1>1, OperationOrderly DEF ComReleased, OrderlyRelease

\* No restore point is begun and none listed without a policy and an apartment.
LEMMA SecuredByCalls ==
  ASSUME CallsInv
  PROVE  SecuredBeforeUse
<1>1. Secured
  BY DEF CallsInv, RpInv
<1>2. Cardinality(once) <= 1
  <2>1. PICK q \in RpOp : once \subseteq {q}
    BY <1>1 DEF Secured
  <2>2. CASE once = {}
    <3>1. Cardinality({}) = 0
      BY FS_EmptySet
    <3> QED  BY <2>2, <3>1
  <2>3. CASE once = {q}
    <3>1. Cardinality({q}) = 1
      BY FS_Singleton
    <3> QED  BY <2>3, <3>1
  <2> QED  BY <2>1, <2>2, <2>3
<1>3. ASSUME NEW o \in RpOp, rp[o].at \in {"begin", "end", "acquire", "rows", "row"}
      PROVE  policy /\ Holds(o, "apartment")
  <2>1. policy
    BY <1>1, <1>3 DEF Secured
  <2>2. Entered(deferred[o])
    BY <1>3 DEF CallsInv, AllBooks, RpBooks, RpDesk, RpStack
  <2>3. o \in Operation
    BY DEF RpOp, Operation
  <2> QED  BY <2>1, <2>2, <2>3, OperationOrderly
<1> QED  BY <1>2, <1>3 DEF SecuredBeforeUse

\* The variables stay within the types of their components.
THEOREM CallsTyped == Spec => []TypeOK
BY InvariantOfCalls, TypesOfCalls, PTL

\* Whichever call of an operation fails, every reference, string, buffer, apartment and thread
\* is given back exactly once, interface pointers inside the apartment and the apartment
\* on its thread, and nothing is left when the operation has returned.
THEOREM EverythingReleased == Spec => []ComReleased
BY InvariantOfCalls, ReleasedByCalls, PTL

\* Restore points are created and listed, updates found and installed, and packages removed
\* when it is said that they are; and no operation uses COM before the process's security is
\* configured, which one operation at a time does.
THEOREM SuccessIsTrue == Spec => []CallsTruthful
<1>1. CallsInv => CallsTruthful
  BY SecuredByCalls DEF CallsInv, RpInv, UcInv, ArInv, CallsTruthful, RestorePointsTruthful
<1> QED  BY <1>1, InvariantOfCalls, PTL

\* Automatic restore points are an hour apart, however many mutations and users ask for them.  The
\* throttle passes a mutation by only within an hour of a success; a mutation whose attempt failed
\* or that wants none goes on without.  Success is told of a complete point only, and of a recorded
\* one in a process that has a logger (app.go:291-361).
THEOREM AtMostHourly == Spec => []Throttled
<1>1. CallsInv => Throttled
  BY DEF CallsInv, ThrottleInv
<1> QED  BY <1>1, InvariantOfCalls, PTL

=============================================================================
