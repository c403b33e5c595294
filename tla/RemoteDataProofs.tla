-------------------------- MODULE RemoteDataProofs --------------------------
(***************************************************************************)
(* For every number of clients and layers and every size of the caches:    *)
(* every element and every batch is in one place, the elements of a client *)
(* stay within their bound, no batch is lost or used twice, and layers see *)
(* batches in their order.                                                 *)
(***************************************************************************)
EXTENDS RemoteData, TLAPS

Elems(q) == {q[i] : i \in DOMAIN q}
Rising(q) == \A i, j \in DOMAIN q : i < j => q[i] < q[j]
Distinct(q) == \A i, j \in DOMAIN q : q[i] = q[j] => i = j

\* The batches in the elements of queue q, in which order they are.
Contents(d, q) == {d[e] : e \in Elems(q)}
RisingBy(d, q) == \A i, j \in DOMAIN q : i < j => d[q[i]] < d[q[j]]

InHand == {"cached", "free", "waiting", "create", "pop", "fill", "copy"}
Step == InHand \cup {"start", "poll", "publish", "finished"}

TypeOK ==
  /\ config \in Configs
  /\ served \in Nat /\ requests \in [Client -> Nat]
  /\ replies \in [Client -> Seq(Nat)]
  /\ thread \in [Client -> [at : Step, sum : Nat, msg : Nat, elem : Nat]]
  /\ data \in [Client -> Seq(Nat)]
  /\ cached \in [Client -> Seq(Nat)]
  /\ waiting \in [Client -> Seq(Nat)]
  /\ free \in [Client -> Seq(Nat)]
  /\ slots \in [Client -> Seq(Nat)]
  /\ read_all \in [Client -> BOOLEAN]
  /\ layer \in [Layer -> [at : {"idle", "hand", "get", "copy"}, elem : Nat]]
  /\ got \in [Layer -> Seq(Nat)]

\* The two kinds of cache, and when the reader thread has a message in hand.
Kinds(c) ==
  /\ thread[c].msg # 0 <=> thread[c].at \in InHand
  /\ thread[c].at \in {"cached", "free", "waiting", "create", "pop", "fill"} => Pull(c)
  /\ thread[c].at \in {"copy", "publish", "finished"} => ~Pull(c)
  /\ \A l \in Layers(c) : ~Pull(c) => layer[l].at = "idle" /\ 0 \notin Elems(got[l])
  /\ ~Unshared(c) => waiting[c] = <<>>
  /\ \A l \in Layers(c) : layer[l].at = "hand" => Unshared(c)
  /\ read_all[c] => thread[c].at = "finished" /\ Len(slots[c]) = config[c].cache_size

------------------------------------------------------------------------------
(* Elements                                                                *)

\* Each of 1..n is in the content f[x] of one place x.
EachIn(f, n) ==
  /\ \A x \in DOMAIN f : f[x] \subseteq 1..n
  /\ \A b \in 1..n : \E x \in DOMAIN f : \A y \in DOMAIN f : b \in f[y] <=> y = x

\* Content f becomes g when b moves from place x to place y.
Moved(f, g, x, y, b) ==
  /\ DOMAIN g = DOMAIN f
  /\ x \in DOMAIN f /\ y \in DOMAIN f /\ x # y /\ b \in f[x]
  /\ g[x] = f[x] \ {b}
  /\ g[y] = f[y] \cup {b}
  /\ \A z \in DOMAIN f \ {x, y} : g[z] = f[z]

Holding(l) == layer[l].at \in {"hand", "copy"}

\* Where an element of client c can be.
ElemPlace(c) == ({"cached", "waiting", "free", "thread"} \X {c}) \cup ({"layer"} \X Layers(c))

ElementsAt(x) ==
  CASE x[1] = "cached"  -> Elems(cached[x[2]])
    [] x[1] = "waiting" -> Elems(waiting[x[2]])
    [] x[1] = "free"    -> Elems(free[x[2]])
    [] x[1] = "thread"  -> IF thread[x[2]].at = "fill" THEN {thread[x[2]].elem} ELSE {}
    [] x[1] = "layer"   -> IF Holding(x[2]) THEN {layer[x[2]].elem} ELSE {}

Elements(c) == [x \in ElemPlace(c) |-> ElementsAt(x)]

\* Every element is in one place, once.
ElementsKept(c) ==
  /\ Distinct(cached[c]) /\ Distinct(waiting[c]) /\ Distinct(free[c])
  /\ EachIn(Elements(c), Len(data[c]))

------------------------------------------------------------------------------
(* Batches                                                                 *)

Place == ({"reply", "thread", "cached", "slot"} \X Client) \cup ({"held", "used"} \X Layer)

OwnerOf(l) == {c \in Client : l \in Layers(c)}

Held(l) == {data[c][layer[l].elem] : c \in {d \in OwnerOf(l) : layer[l].at = "copy"}}

BatchesAt(x) ==
  CASE x[1] = "reply"  -> Elems(replies[x[2]])
    [] x[1] = "thread" -> {thread[x[2]].msg} \ {0}
    [] x[1] = "cached" -> Contents(data[x[2]], cached[x[2]])
    [] x[1] = "slot"   -> Elems(slots[x[2]])
    [] x[1] = "held"   -> Held(x[2])
    [] x[1] = "used"   -> IF \E c \in OwnerOf(x[2]) : Pull(c) THEN Elems(got[x[2]]) ELSE {}

Content == [x \in Place |-> BatchesAt(x)]

\* Place x comes after place y on the way of the batches through a client.
After(x, y) ==
  \/ /\ x[2] = y[2]
     /\ \/ x[1] = "used" /\ y[1] = "held"
        \/ x[1] = "cached" /\ y[1] = "thread"
        \/ x[1] = "cached" /\ y[1] = "reply"
        \/ x[1] = "thread" /\ y[1] = "reply"
        \/ x[1] = "slot" /\ y[1] = "thread"
        \/ x[1] = "slot" /\ y[1] = "reply"
  \/ /\ x[1] \in {"used", "held"} /\ y[1] \in {"cached", "thread", "reply"}
     /\ y[2] \in OwnerOf(x[2])

Less(A, B) == \A a \in A : \A b \in B : a < b

InLine == \A x, y \in Place : After(x, y) => Less(Content[x], Content[y])

\* Within a place they are in their order, too.
Sorted(c) ==
  /\ Rising(replies[c]) /\ Rising(slots[c]) /\ RisingBy(data[c], cached[c])
  /\ \A l \in Layers(c) : Pull(c) => Rising(got[l])

------------------------------------------------------------------------------
IInv ==
  /\ TypeOK
  /\ \A c \in Client : Kinds(c)
  /\ \A c \in Client : ElementsKept(c)
  /\ \A c \in Client : Sorted(c)
  /\ EachIn(Content, served)
  /\ InLine

------------------------------------------------------------------------------
(* Sequences and places                                                    *)

\* What a sequence of numbers, such as a queue of elements or batches, is.
LEMMA SeqFacts ==
  ASSUME NEW q \in Seq(Nat)
  PROVE  /\ Len(q) \in Nat /\ DOMAIN q = 1..Len(q)
         /\ \A i \in DOMAIN q : q[i] \in Nat /\ q[i] \in Elems(q)
         /\ Elems(q) \subseteq Nat
         /\ q # <<>> <=> Len(q) > 0
BY DEF Elems

\* Writing into an element.
LEMMA PutFacts ==
  ASSUME NEW q \in Seq(Nat), NEW e \in 1..Len(q), NEW m \in Nat, NEW r, r = [q EXCEPT ![e] = m]
  PROVE  r \in Seq(Nat) /\ Len(r) = Len(q)
<1>1. PICK n \in Nat : n = Len(q) /\ q \in [1..n -> Nat]
  OBVIOUS
<1>2. r \in [1..n -> Nat]
  BY Zenon, <1>1
<1> QED
  BY <1>1, <1>2

\* What push does to a queue.
LEMMA AppendFacts ==
  ASSUME NEW q \in Seq(Nat), NEW b \in Nat
  PROVE  /\ Append(q, b) \in Seq(Nat) /\ Len(Append(q, b)) = Len(q) + 1
         /\ Elems(Append(q, b)) = Elems(q) \cup {b}
         /\ Distinct(q) /\ b \notin Elems(q) => Distinct(Append(q, b))
         /\ Rising(q) /\ (\A e \in Elems(q) : e < b) => Rising(Append(q, b))
<1>1. /\ Append(q, b) \in Seq(Nat) /\ Len(Append(q, b)) = Len(q) + 1
      /\ \A i \in 1..Len(q) : Append(q, b)[i] = q[i]
      /\ Append(q, b)[Len(q) + 1] = b
  OBVIOUS
<1>2. PICK n \in Nat : n = Len(q) /\ DOMAIN q = 1..n
  BY Zenon, SeqFacts
<1>3. PICK r \in Seq(Nat) : r = Append(q, b)
  BY Zenon, <1>1
<1>4. DOMAIN r = 1..(n + 1)
  BY Zenon, <1>1, <1>2, <1>3, SeqFacts
<1>5. \A i \in 1..n : r[i] = q[i]
  BY Zenon, <1>1, <1>2, <1>3
<1>6. r[n + 1] = b
  BY Zenon, <1>1, <1>2, <1>3
<1>7. Elems(r) = Elems(q) \cup {b}
  <2>1. \A x \in Elems(r) : x \in Elems(q) \cup {b}
    BY <1>2, <1>4, <1>5, <1>6 DEF Elems
  <2>2. \A x \in Elems(q) : x \in Elems(r)
    BY <1>2, <1>4, <1>5 DEF Elems
  <2>3. b \in Elems(r)
    BY <1>4, <1>6 DEF Elems
  <2> QED
    BY Zenon, <2>1, <2>2, <2>3
<1>8. \A i \in 1..n : q[i] \in Elems(q) /\ q[i] \in Nat
  BY Zenon, <1>2, SeqFacts
<1>9. Distinct(q) /\ b \notin Elems(q) => Distinct(r)
  <2> SUFFICES ASSUME Distinct(q), b \notin Elems(q),
                      NEW i \in 1..(n + 1), NEW j \in 1..(n + 1), r[i] = r[j]
               PROVE  i = j
    BY Zenon, <1>4 DEF Distinct
  <2>1. i = n + 1 \/ i \in 1..n
    OBVIOUS
  <2>2. j = n + 1 \/ j \in 1..n
    OBVIOUS
  <2> QED
    BY Zenon, <2>1, <2>2, <1>2, <1>5, <1>6, <1>8 DEF Distinct
<1>10. Rising(q) /\ (\A e \in Elems(q) : e < b) => Rising(r)
  <2> SUFFICES ASSUME Rising(q), \A e \in Elems(q) : e < b,
                      NEW i \in 1..(n + 1), NEW j \in 1..(n + 1), i < j
               PROVE  r[i] < r[j]
    BY Zenon, <1>4 DEF Rising
  <2>1. i \in 1..n
    OBVIOUS
  <2>2. j = n + 1 \/ j \in 1..n
    OBVIOUS
  <2> QED
    BY Zenon, <2>1, <2>2, <1>2, <1>5, <1>6, <1>8 DEF Rising
<1> QED
  BY Zenon, <1>1, <1>3, <1>7, <1>9, <1>10

\* What pop does to a queue.
LEMMA TailFacts ==
  ASSUME NEW q \in Seq(Nat), q # <<>>
  PROVE  /\ Tail(q) \in Seq(Nat) /\ Len(Tail(q)) = Len(q) - 1
         /\ Head(q) \in Nat /\ Head(q) \in Elems(q)
         /\ Elems(Tail(q)) \cup {Head(q)} = Elems(q)
         /\ Distinct(q) => Distinct(Tail(q)) /\ Elems(Tail(q)) = Elems(q) \ {Head(q)}
         /\ Rising(q) => Rising(Tail(q)) /\ \A e \in Elems(Tail(q)) : Head(q) < e
<1>1. /\ Tail(q) \in Seq(Nat) /\ Len(Tail(q)) = Len(q) - 1 /\ Head(q) \in Nat
      /\ \A i \in 1..Len(Tail(q)) : Tail(q)[i] = q[i + 1]
      /\ Head(q) = q[1]
  OBVIOUS
<1>2. PICK n \in Nat : n + 1 = Len(q) /\ DOMAIN q = 1..(n + 1)
  BY SeqFacts
<1>3. PICK r \in Seq(Nat) : r = Tail(q)
  BY Zenon, <1>1
<1>4. DOMAIN r = 1..n /\ Len(r) = n
  <2>1. Len(r) = (n + 1) - 1
    BY Zenon, <1>1, <1>2, <1>3
  <2>2. Len(r) = n
    BY <2>1
  <2> QED
    BY Zenon, <2>2, SeqFacts
<1>5. \A i \in 1..n : r[i] = q[i + 1] /\ i + 1 \in 1..(n + 1)
  <2>1. \A i \in 1..Len(r) : r[i] = q[i + 1]
    BY Zenon, <1>1, <1>3
  <2> QED
    BY <2>1, <1>4
<1>6. Elems(r) \cup {q[1]} = Elems(q)
  <2>1. \A x \in Elems(r) : x \in Elems(q)
    BY Zenon, <1>2, <1>4, <1>5 DEF Elems
  <2>2. q[1] \in Elems(q)
    BY <1>2 DEF Elems
  <2>3. ASSUME NEW x \in Elems(q) PROVE x \in Elems(r) \/ x = q[1]
    <3>1. PICK i \in 1..(n + 1) : x = q[i]
      BY Zenon, <1>2 DEF Elems
    <3>2. CASE i = 1
      BY Zenon, <3>1, <3>2
    <3>3. CASE i # 1
      <4>1. i - 1 \in 1..n /\ (i - 1) + 1 = i
        BY <3>3
      <4>2. r[i - 1] = q[i]
        BY Zenon, <4>1, <1>5
      <4> QED
        BY Zenon, <3>1, <4>1, <4>2, <1>4 DEF Elems
    <3> QED
      BY Zenon, <3>2, <3>3
  <2> QED
    BY Zenon, <2>1, <2>2, <2>3
<1>7. ASSUME Distinct(q) PROVE Distinct(r) /\ Elems(r) = Elems(q) \ {q[1]}
  <2>1. Distinct(r)
    <3> SUFFICES ASSUME NEW i \in 1..n, NEW j \in 1..n, r[i] = r[j] PROVE i = j
      BY Zenon, <1>4 DEF Distinct
    <3>1. i + 1 = j + 1
      BY Zenon, <1>2, <1>5, <1>7 DEF Distinct
    <3> QED
      BY <3>1
  <2>2. q[1] \notin Elems(r)
    <3> SUFFICES ASSUME NEW i \in 1..n, r[i] = q[1] PROVE FALSE
      BY Zenon, <1>4 DEF Elems
    <3>1. 1 \in DOMAIN q /\ i + 1 \in DOMAIN q /\ q[1] = q[i + 1]
      BY <1>2, <1>5
    <3>2. 1 = i + 1
      BY Zenon, <3>1, <1>7 DEF Distinct
    <3> QED
      BY <3>2
  <2> QED
    BY Zenon, <2>1, <2>2, <1>6
<1>8. ASSUME Rising(q) PROVE Rising(r) /\ \A e \in Elems(r) : q[1] < e
  <2>1. \A i, j \in 1..(n + 1) : i < j => q[i] < q[j]
    BY Zenon, <1>2, <1>8 DEF Rising
  <2>2. ASSUME NEW i \in 1..n, NEW j \in 1..n, i < j PROVE r[i] < r[j]
    <3>1. i + 1 \in 1..(n + 1) /\ j + 1 \in 1..(n + 1) /\ i + 1 < j + 1
      BY <2>2
    <3> QED
      BY Zenon, <3>1, <2>1, <1>5
  <2>3. ASSUME NEW i \in 1..n PROVE q[1] < r[i]
    <3>1. 1 \in 1..(n + 1) /\ i + 1 \in 1..(n + 1) /\ 1 < i + 1
      OBVIOUS
    <3> QED
      BY Zenon, <3>1, <2>1, <1>5
  <2> QED
    BY Zenon, <2>2, <2>3, <1>4 DEF Elems, Rising
<1>9. Head(q) \in Elems(q)
  BY Zenon, <1>1, <1>6
<1> QED
  BY Zenon, <1>1, <1>3, <1>6, <1>7, <1>8, <1>9

\* Numbers that rise are distinct.
LEMMA RisingDistinct ==
  ASSUME NEW q \in Seq(Nat), Rising(q)
  PROVE  Distinct(q)
<1>1. DOMAIN q = 1..Len(q) /\ Len(q) \in Nat /\ \A i \in DOMAIN q : q[i] \in Nat
  BY Zenon, SeqFacts
<1> SUFFICES ASSUME NEW i \in DOMAIN q, NEW j \in DOMAIN q, q[i] = q[j] PROVE i = j
  BY Zenon DEF Distinct
<1> QED
  BY <1>1 DEF Rising

\* Batch b, younger than the batches in queue q, is written into an element e that is not
\* there, and e pushed.
Filled(d, q, e, b, f, r) ==
  /\ d \in Seq(Nat) /\ q \in Seq(Nat) /\ b \in Nat
  /\ Elems(q) \subseteq 1..Len(d) /\ e \in 1..Len(d) /\ e \notin Elems(q)
  /\ RisingBy(d, q) /\ \A a \in Contents(d, q) : a < b
  /\ f = [d EXCEPT ![e] = b] /\ r = Append(q, e)

\* The queue then holds this batch more, behind the others.
LEMMA FillFacts ==
  ASSUME NEW d, NEW q, NEW e, NEW b, NEW f, NEW r, Filled(d, q, e, b, f, r)
  PROVE  RisingBy(f, r) /\ Contents(f, r) = Contents(d, q) \cup {b}
<1>1. /\ d \in Seq(Nat) /\ q \in Seq(Nat) /\ b \in Nat
      /\ Elems(q) \subseteq 1..Len(d) /\ e \in 1..Len(d) /\ e \notin Elems(q)
      /\ RisingBy(d, q) /\ \A a \in Contents(d, q) : a < b
      /\ f = [d EXCEPT ![e] = b] /\ r = Append(q, e)
  BY Zenon DEF Filled
<1>2. /\ \A i \in 1..Len(q) : Append(q, e)[i] = q[i]
      /\ Append(q, e)[Len(q) + 1] = e
      /\ Append(q, e) \in Seq(Nat) /\ Len(Append(q, e)) = Len(q) + 1
  BY <1>1
<1>3. PICK n \in Nat : n = Len(q) /\ DOMAIN q = 1..n
  BY Zenon, <1>1, SeqFacts
<1>4. r \in Seq(Nat)
  BY Zenon, <1>1, <1>2
<1>5. DOMAIN r = 1..(n + 1)
  BY Zenon, <1>1, <1>2, <1>3, <1>4, SeqFacts
<1>6. \A x \in Elems(q) : f[x] = d[x]
  BY <1>1
<1>7. f[e] = b
  BY <1>1
<1>8. \A i \in 1..n : r[i] = q[i] /\ q[i] \in Elems(q) /\ f[r[i]] = d[q[i]]
  BY Zenon, <1>1, <1>2, <1>3, <1>4, <1>6, SeqFacts
<1>9. r[n + 1] = e /\ f[r[n + 1]] = b
  BY Zenon, <1>1, <1>2, <1>3, <1>4, <1>7
<1>10. RisingBy(f, r)
  <2> SUFFICES ASSUME NEW i \in 1..(n + 1), NEW j \in 1..(n + 1), i < j
               PROVE  f[r[i]] < f[r[j]]
    BY Zenon, <1>1, <1>5 DEF RisingBy
  <2>1. i \in 1..n /\ (j = n + 1 \/ j \in 1..n)
    OBVIOUS
  <2>2. d[q[i]] < b
    BY Zenon, <1>1, <2>1, <1>8 DEF Contents
  <2> QED
    BY Zenon, <1>1, <2>1, <2>2, <1>3, <1>8, <1>9 DEF RisingBy
<1>11. Elems(r) = Elems(q) \cup {e}
  BY <1>1, <1>4, AppendFacts
<1>12. Contents(f, r) = Contents(d, q) \cup {b}
  BY <1>1, <1>6, <1>7, <1>11 DEF Contents
<1> QED
  BY Zenon, <1>1, <1>10, <1>12

\* get pops the element with the oldest batch.
LEMMA PopFacts ==
  ASSUME NEW d \in Seq(Nat), NEW q \in Seq(Nat), Elems(q) \subseteq 1..Len(d), q # <<>>,
         RisingBy(d, q), Distinct(q)
  PROVE  /\ RisingBy(d, Tail(q))
         /\ Contents(d, Tail(q)) = Contents(d, q) \ {d[Head(q)]}
         /\ d[Head(q)] \in Contents(d, q)
         /\ \A a \in Contents(d, Tail(q)) : d[Head(q)] < a
<1>1. /\ Tail(q) \in Seq(Nat) /\ Len(Tail(q)) = Len(q) - 1
      /\ \A i \in 1..Len(Tail(q)) : Tail(q)[i] = q[i + 1]
      /\ Head(q) = q[1]
  OBVIOUS
<1>2. PICK n \in Nat : n + 1 = Len(q) /\ DOMAIN q = 1..(n + 1)
  <2>1. Len(q) \in Nat /\ Len(q) > 0 /\ DOMAIN q = 1..Len(q)
    BY Zenon, SeqFacts
  <2>2. Len(q) - 1 \in Nat /\ (Len(q) - 1) + 1 = Len(q)
    BY <2>1
  <2> QED
    BY Zenon, <2>1, <2>2
<1>3. PICK r \in Seq(Nat) : r = Tail(q)
  BY Zenon, <1>1
<1>4. Len(r) = n /\ DOMAIN r = 1..n
  <2>1. Len(r) = (n + 1) - 1
    BY Zenon, <1>1, <1>2, <1>3
  <2>2. Len(r) = n
    BY <2>1
  <2> QED
    BY Zenon, <2>2, SeqFacts
<1>5. \A i \in 1..n : r[i] = q[i + 1] /\ i + 1 \in 1..(n + 1)
  <2>1. \A i \in 1..Len(r) : r[i] = q[i + 1]
    BY Zenon, <1>1, <1>3
  <2> QED
    BY <2>1, <1>4
<1>6. \A i, j \in 1..(n + 1) : i < j => d[q[i]] < d[q[j]]
  BY Zenon, <1>2 DEF RisingBy
<1>7. \A i, j \in 1..n : i < j => d[r[i]] < d[r[j]]
  <2> SUFFICES ASSUME NEW i \in 1..n, NEW j \in 1..n, i < j PROVE d[r[i]] < d[r[j]]
    BY Zenon
  <2>1. i + 1 \in 1..(n + 1) /\ j + 1 \in 1..(n + 1) /\ i + 1 < j + 1
    OBVIOUS
  <2> QED
    BY Zenon, <2>1, <1>5, <1>6
<1>8. \A i \in 1..n : d[q[1]] < d[r[i]]
  <2> SUFFICES ASSUME NEW i \in 1..n PROVE d[q[1]] < d[r[i]]
    BY Zenon
  <2>1. 1 \in 1..(n + 1) /\ i + 1 \in 1..(n + 1) /\ 1 < i + 1
    OBVIOUS
  <2> QED
    BY Zenon, <2>1, <1>5, <1>6
<1>9. \A a \in Contents(d, r) : d[q[1]] < a
  BY Zenon, <1>4, <1>8 DEF Contents, Elems
<1>10. q[1] \in Elems(q) /\ d[q[1]] \in Nat
  <2>1. q[1] \in Elems(q)
    BY <1>2 DEF Elems
  <2>2. q[1] \in DOMAIN d
    BY Zenon, <2>1, SeqFacts
  <2> QED
    BY Zenon, <2>1, <2>2, SeqFacts
<1>11. d[q[1]] \notin Contents(d, r)
  BY <1>9, <1>10
<1>12. Elems(r) \cup {q[1]} = Elems(q)
  BY Zenon, <1>1, <1>3, TailFacts
<1>13. Contents(d, q) = Contents(d, r) \cup {d[q[1]]}
  BY Zenon, <1>12 DEF Contents
<1> QED
  BY Zenon, <1>1, <1>3, <1>4, <1>7, <1>9, <1>11, <1>13 DEF RisingBy

\* What moves from one place to another is still in one place.
LEMMA MovedOnce ==
  ASSUME NEW f, NEW g, NEW n \in Nat, NEW x, NEW y, NEW b,
         EachIn(f, n), Moved(f, g, x, y, b)
  PROVE  EachIn(g, n)
<1>1. b \in 1..n
  BY Zenon DEF EachIn, Moved
<1>2. \A z \in DOMAIN g : g[z] \subseteq 1..n
  BY Zenon, <1>1 DEF EachIn, Moved
<1>3. \A z \in DOMAIN f : b \in f[z] => z = x
  BY <1>1 DEF EachIn, Moved
<1>4. \A z \in DOMAIN g : b \in g[z] <=> z = y
  BY Zenon, <1>3 DEF Moved
<1>5. ASSUME NEW a \in 1..n, a # b
      PROVE  \E z \in DOMAIN g : \A u \in DOMAIN g : a \in g[u] <=> u = z
  <2>1. PICK z \in DOMAIN f : \A u \in DOMAIN f : a \in f[u] <=> u = z
    BY Zenon DEF EachIn
  <2>2. \A u \in DOMAIN f : a \in g[u] <=> a \in f[u]
    BY Zenon, <1>5 DEF Moved
  <2> QED
    BY <2>1, <2>2 DEF Moved
<1>6. y \in DOMAIN g
  BY Zenon DEF Moved
<1> QED
  BY Zenon, <1>2, <1>4, <1>5, <1>6 DEF EachIn

------------------------------------------------------------------------------
(* The way of a batch                                                      *)

\* A place y right after place x on the way: what is after x is y or after y, and what y
\* is after, x or before it.
NextPlace(x, y) ==
  /\ After(y, x)
  /\ \A z \in Place : After(y, z) => z = x \/ After(x, z)
  /\ \A z \in Place : After(z, y) => After(z, x)

\* A layer has one client at most.
LEMMA OneOwner ==
  ASSUME TypeOK, NEW c \in Client, NEW d \in Client, NEW l \in Layers(c), l \in Layers(d)
  PROVE  c = d
BY Zenon, RemoteAssumption DEF TypeOK, Layers

\* Layers of a client are layers.
LEMMA LayersAre ==
  ASSUME TypeOK, NEW c \in Client
  PROVE  /\ Layers(c) \subseteq Layer
         /\ config[c].cache_size \in Nat /\ (~Pull(c) => ~Unshared(c))
<1>1. config[c] \in [policy : {"PULL_CONTINOUSLY", "USE_CACHE_WHEN_FULL"},
                     cache_size : Nat, shape : BOOLEAN, layers : SUBSET Layer]
  BY RemoteAssumption DEF TypeOK
<1>2. config[c].policy = "USE_CACHE_WHEN_FULL" => config[c].cache_size > 0
  BY Zenon, RemoteAssumption DEF TypeOK
<1>3. config[c].layers \subseteq Layer
  BY Zenon, <1>1
<1> QED
  BY <1>1, <1>2, <1>3 DEF Layers, Pull, Unshared

\* The steps of the way: from the channel to the reader thread, from there to a cached
\* element or to a slot, from an element to a layer that copies it, and to its batches.
LEMMA NextPlaces ==
  ASSUME TypeOK, NEW c \in Client
  PROVE  /\ NextPlace(<<"reply", c>>, <<"thread", c>>)
         /\ NextPlace(<<"thread", c>>, <<"cached", c>>)
         /\ NextPlace(<<"thread", c>>, <<"slot", c>>)
         /\ \A l \in Layers(c) : NextPlace(<<"cached", c>>, <<"held", l>>)
         /\ \A l \in Layers(c) : NextPlace(<<"held", l>>, <<"used", l>>)
<1>1. ASSUME NEW z \in Place
      PROVE  \/ \E d \in Client : z = <<"reply", d>> \/ z = <<"thread", d>> \/ z = <<"cached", d>>
                                  \/ z = <<"slot", d>>
             \/ \E k \in Layer : z = <<"held", k>> \/ z = <<"used", k>>
  BY DEF Place
<1>2. NextPlace(<<"reply", c>>, <<"thread", c>>)
  BY <1>1 DEF NextPlace, After
<1>3. NextPlace(<<"thread", c>>, <<"cached", c>>)
  BY <1>1 DEF NextPlace, After
<1>4. NextPlace(<<"thread", c>>, <<"slot", c>>)
  BY <1>1 DEF NextPlace, After
<1>5. ASSUME NEW l \in Layers(c) PROVE NextPlace(<<"cached", c>>, <<"held", l>>)
  <2>1. OwnerOf(l) = {c}
    BY Zenon, OneOwner DEF OwnerOf
  <2> QED
    BY <2>1, <1>1 DEF NextPlace, After
<1>6. ASSUME NEW l \in Layers(c) PROVE NextPlace(<<"held", l>>, <<"used", l>>)
  <2>1. OwnerOf(l) = {c}
    BY Zenon, OneOwner DEF OwnerOf
  <2> QED
    BY <2>1, <1>1 DEF NextPlace, After
<1> QED
  BY Zenon, <1>2, <1>3, <1>4, <1>5, <1>6

\* The oldest batch of a place moves to the next place.
Advance(x, y, b) ==
  /\ Moved(Content, Content', x, y, b)
  /\ \A a \in Content[x] : a # b => b < a

\* A step that takes the oldest batch of a place to the next one keeps every batch in one
\* place, and the batches in line.
LEMMA AdvanceKept ==
  ASSUME TypeOK, EachIn(Content, served), InLine, NEW x, NEW y, NEW b,
         NextPlace(x, y), Advance(x, y, b), config' = config, served' = served
  PROVE  EachIn(Content, served)' /\ InLine'
<1>1. EachIn(Content, served)'
  <2>1. Moved(Content, Content', x, y, b) /\ served \in Nat
    BY Zenon DEF Advance, TypeOK
  <2>2. PICK f, g : f = Content /\ g = Content'
    BY Zenon
  <2>3. EachIn(f, served) /\ Moved(f, g, x, y, b)
    BY Zenon, <2>1, <2>2
  <2>4. EachIn(g, served)
    BY Zenon, <2>1, <2>3, MovedOnce
  <2>5. EachIn(Content, served)' = EachIn(Content', served')
    BY Zenon DEF EachIn
  <2> QED
    BY Zenon, <2>2, <2>4, <2>5
<1>2. InLine'
  <2>1. DOMAIN Content = Place /\ DOMAIN Content' = Place
    BY Zenon DEF Content, Place
  <2>2. PICK f, g : f = Content /\ g = Content'
    BY Zenon
  <2>3. Moved(f, g, x, y, b) /\ DOMAIN f = Place /\ \A a \in f[x] : a # b => b < a
    BY Zenon, <2>1, <2>2 DEF Advance
  <2>4. \A u, v \in Place : After(u, v) => Less(f[u], f[v])
    BY Zenon, <2>2 DEF InLine
  <2>5. ASSUME NEW u \in Place, NEW v \in Place, After(u, v), NEW p \in g[u], NEW r \in g[v]
        PROVE  p < r
    <3>1. x \in Place /\ y \in Place /\ b \in f[x] /\ x # y
      BY Zenon, <2>3 DEF Moved
    <3>2. (p = b /\ u = y) \/ (p \in f[u] /\ (u = x => p # b))
      BY Zenon, <2>3, <2>5 DEF Moved
    <3>3. (r = b /\ v = y) \/ (r \in f[v] /\ (v = x => r # b))
      BY Zenon, <2>3, <2>5 DEF Moved
    <3>4. CASE p = b /\ u = y
      <4>1. v = x \/ After(x, v)
        BY Zenon, <3>4, <2>5 DEF NextPlace
      <4>2. v # y
        <5>1. v = y => y = x \/ After(x, y)
          BY Zenon, <4>1
        <5>2. ASSUME After(x, y) PROVE FALSE
          <6>1. After(y, x)
            BY Zenon DEF NextPlace
          <6> QED
            BY Zenon, <6>1, <5>2 DEF After
        <5> QED
          BY Zenon, <5>1, <5>2, <3>1
      <4>3. r \in f[v] /\ (v = x => r # b)
        BY Zenon, <3>3, <4>2
      <4> QED
        BY Zenon, <4>1, <4>3, <3>1, <3>4, <2>3, <2>4 DEF Less
    <3>5. CASE p \in f[u] /\ (u = x => p # b) /\ r = b /\ v = y
      <4>1. After(u, x)
        BY Zenon, <3>5, <2>5 DEF NextPlace
      <4> QED
        BY Zenon, <4>1, <3>1, <3>5, <2>4 DEF Less
    <3>6. CASE p \in f[u] /\ r \in f[v]
      BY Zenon, <3>6, <2>4, <2>5 DEF Less
    <3> QED
      BY Zenon, <3>2, <3>3, <3>4, <3>5, <3>6
  <2>6. \A u, v : After(u, v)' <=> After(u, v)
    BY Zenon DEF After, OwnerOf, Layers
  <2>7. InLine' = \A u, v \in Place : After(u, v)' => Less(Content'[u], Content'[v])
    BY Zenon DEF InLine, Less, Place
  <2> QED
    BY Zenon, <2>2, <2>5, <2>6, <2>7 DEF Less
<1> QED
  BY Zenon, <1>1, <1>2

\* A step that moves no batch keeps both, too.
LEMMA StayKept ==
  ASSUME EachIn(Content, served), InLine, Content' = Content,
         config' = config, served' = served
  PROVE  EachIn(Content, served)' /\ InLine'
<1>1. \A u, v : After(u, v)' <=> After(u, v)
  BY Zenon DEF After, OwnerOf, Layers
<1>2. InLine' = \A u, v \in Place : After(u, v)' => Less(Content'[u], Content'[v])
  BY Zenon DEF InLine, Less, Place
<1> QED
  BY Zenon, <1>1, <1>2 DEF InLine, EachIn

------------------------------------------------------------------------------
(* The steps that move a batch, and those that do not                      *)

Used(l) == IF \E c \in OwnerOf(l) : Pull(c) THEN Elems(got[l]) ELSE {}

\* The contents of the places of a client, before and after a step.
LEMMA ClientContent ==
  ASSUME NEW c \in Client
  PROVE  /\ <<"reply", c>> \in Place /\ Content[<<"reply", c>>] = Elems(replies[c])
         /\ <<"thread", c>> \in Place /\ Content[<<"thread", c>>] = {thread[c].msg} \ {0}
         /\ <<"cached", c>> \in Place /\ Content[<<"cached", c>>] = Contents(data[c], cached[c])
         /\ <<"slot", c>> \in Place /\ Content[<<"slot", c>>] = Elems(slots[c])
         /\ Content'[<<"reply", c>>] = Elems(replies'[c])
         /\ Content'[<<"thread", c>>] = {thread'[c].msg} \ {0}
         /\ Content'[<<"cached", c>>] = Contents(data'[c], cached'[c])
         /\ Content'[<<"slot", c>>] = Elems(slots'[c])
         /\ DOMAIN Content = Place /\ DOMAIN Content' = Place
BY ZenonT(60) DEF Content, Place, BatchesAt, Elems, Contents

\* The contents of the places of a layer.
LEMMA LayerContent ==
  ASSUME NEW l \in Layer
  PROVE  /\ <<"held", l>> \in Place /\ Content[<<"held", l>>] = Held(l)
         /\ <<"used", l>> \in Place /\ Content[<<"used", l>>] = Used(l)
         /\ Content'[<<"held", l>>] = Held(l)'
         /\ Content'[<<"used", l>>] = Used(l)'
         /\ DOMAIN Content = Place /\ DOMAIN Content' = Place
BY Zenon DEF Content, Place, BatchesAt, Used

\* Every place is one of a client or one of a layer.
LEMMA PlaceCases ==
  ASSUME NEW z \in Place
  PROVE  \/ \E d \in Client : z = <<"reply", d>> \/ z = <<"thread", d>> \/ z = <<"cached", d>>
                              \/ z = <<"slot", d>>
         \/ \E k \in Layer : z = <<"held", k>> \/ z = <<"used", k>>
BY DEF Place

\* A step that changes none of them moves no batch.
LEMMA StayBy ==
  ASSUME \A c \in Client : /\ Elems(replies'[c]) = Elems(replies[c])
                           /\ thread'[c].msg = thread[c].msg
                           /\ Contents(data'[c], cached'[c]) = Contents(data[c], cached[c])
                           /\ Elems(slots'[c]) = Elems(slots[c]),
         \A l \in Layer : Held(l)' = Held(l) /\ Used(l)' = Used(l)
  PROVE  Content' = Content
<1>1. ASSUME NEW z \in Place PROVE Content'[z] = Content[z]
  <2>1. ASSUME NEW c \in Client
        PROVE  /\ Content'[<<"reply", c>>] = Content[<<"reply", c>>]
               /\ Content'[<<"thread", c>>] = Content[<<"thread", c>>]
               /\ Content'[<<"cached", c>>] = Content[<<"cached", c>>]
               /\ Content'[<<"slot", c>>] = Content[<<"slot", c>>]
    BY Zenon, ClientContent
  <2>2. ASSUME NEW l \in Layer
        PROVE  /\ Content'[<<"held", l>>] = Content[<<"held", l>>]
               /\ Content'[<<"used", l>>] = Content[<<"used", l>>]
    BY Zenon, LayerContent
  <2> QED
    BY Zenon, <2>1, <2>2, PlaceCases
<1> QED
  BY Zenon, <1>1 DEF Content

\* What a layer with an owner holds and has used.
LEMMA OwnedBy ==
  ASSUME TypeOK, NEW c \in Client, NEW l \in Layers(c)
  PROVE  /\ OwnerOf(l) = {c}
         /\ Held(l) = IF layer[l].at = "copy" THEN {data[c][layer[l].elem]} ELSE {}
         /\ Used(l) = IF Pull(c) THEN Elems(got[l]) ELSE {}
<1>1. OwnerOf(l) = {c}
  BY Zenon, OneOwner DEF OwnerOf
<1> QED
  BY Zenon, <1>1 DEF Held, Used

\* Elements that hold batches are elements there are.
LEMMA ElementsThere ==
  ASSUME NEW c \in Client, ElementsKept(c)
  PROVE  /\ Elems(cached[c]) \subseteq 1..Len(data[c])
         /\ Elems(waiting[c]) \subseteq 1..Len(data[c])
         /\ Elems(free[c]) \subseteq 1..Len(data[c])
         /\ thread[c].at = "fill" => thread[c].elem \in 1..Len(data[c])
         /\ \A l \in Layers(c) : Holding(l) => layer[l].elem \in 1..Len(data[c])
<1>1. \A x \in ElemPlace(c) : ElementsAt(x) \subseteq 1..Len(data[c])
  BY Zenon DEF ElementsKept, EachIn, Elements
<1>2. /\ <<"cached", c>> \in ElemPlace(c) /\ ElementsAt(<<"cached", c>>) = Elems(cached[c])
      /\ <<"waiting", c>> \in ElemPlace(c) /\ ElementsAt(<<"waiting", c>>) = Elems(waiting[c])
      /\ <<"free", c>> \in ElemPlace(c) /\ ElementsAt(<<"free", c>>) = Elems(free[c])
      /\ <<"thread", c>> \in ElemPlace(c)
      /\ thread[c].at = "fill" => ElementsAt(<<"thread", c>>) = {thread[c].elem}
  BY Zenon DEF ElemPlace, ElementsAt
<1>3. \A l \in Layers(c) : /\ <<"layer", l>> \in ElemPlace(c)
                           /\ Holding(l) => ElementsAt(<<"layer", l>>) = {layer[l].elem}
  BY Zenon DEF ElemPlace, ElementsAt
<1> QED
  BY Zenon, <1>1, <1>2, <1>3

\* The element the reader thread fills is in no other place.
LEMMA FilledApart ==
  ASSUME NEW c \in Client, ElementsKept(c), thread[c].at = "fill"
  PROVE  /\ thread[c].elem \notin Elems(cached[c])
         /\ \A l \in Layers(c) : Holding(l) => layer[l].elem # thread[c].elem
<1>1. /\ <<"cached", c>> \in ElemPlace(c) /\ ElementsAt(<<"cached", c>>) = Elems(cached[c])
      /\ <<"thread", c>> \in ElemPlace(c) /\ ElementsAt(<<"thread", c>>) = {thread[c].elem}
  BY Zenon DEF ElemPlace, ElementsAt
<1>2. \A l \in Layers(c) : /\ <<"layer", l>> \in ElemPlace(c)
                           /\ Holding(l) => ElementsAt(<<"layer", l>>) = {layer[l].elem}
  BY Zenon DEF ElemPlace, ElementsAt
<1>3. \A e \in 1..Len(data[c]) : \E x \in ElemPlace(c) : \A y \in ElemPlace(c) :
        e \in ElementsAt(y) <=> y = x
  BY Zenon DEF ElementsKept, EachIn, Elements
<1>4. thread[c].elem \in 1..Len(data[c])
  BY Zenon, ElementsThere
<1>5. PICK x \in ElemPlace(c) : \A y \in ElemPlace(c) : thread[c].elem \in ElementsAt(y) <=> y = x
  BY Zenon, <1>3, <1>4
<1>6. x = <<"thread", c>>
  BY Zenon, <1>1, <1>5
<1>7. <<"cached", c>> # x /\ \A l : <<"layer", l>> # x
  BY Zenon, <1>6
<1> QED
  BY Zenon, <1>1, <1>2, <1>5, <1>7

\* What the batch lemmas use of the invariant.
BatchInv ==
  /\ TypeOK
  /\ \A c \in Client : Kinds(c) /\ ElementsKept(c) /\ Sorted(c)
  /\ EachIn(Content, served) /\ InLine

BatchInvNext == EachIn(Content, served)' /\ InLine'

\* A request is answered with a new batch, the youngest.
LEMMA ServeBatch ==
  ASSUME BatchInv, NEW c \in Client, Serve(c)
  PROVE  BatchInvNext
<1> DEFINE x == <<"reply", c>>
<1>1. TypeOK /\ EachIn(Content, served) /\ InLine
  BY Zenon DEF BatchInv
<1>2. PICK n \in Nat : n = served /\ served' = n + 1
  BY Zenon, <1>1 DEF TypeOK, Serve
<1>3. Elems(replies'[c]) = Elems(replies[c]) \cup {n + 1}
  BY <1>1, <1>2, AppendFacts DEF TypeOK, Serve
<1>4. \A d \in Client \ {c} : replies'[d] = replies[d]
  BY Zenon, <1>1 DEF TypeOK, Serve
<1>5. PICK f, g : f = Content /\ g = Content'
  BY Zenon
<1>6. DOMAIN f = Place /\ DOMAIN g = Place /\ x \in Place
  BY Zenon, <1>5, ClientContent
<1>7. g[x] = f[x] \cup {n + 1}
  BY Zenon, <1>3, <1>5, ClientContent
<1>8. ASSUME NEW z \in Place, z # x PROVE g[z] = f[z]
  <2>1. ASSUME NEW d \in Client
        PROVE  /\ Content'[<<"thread", d>>] = Content[<<"thread", d>>]
               /\ Content'[<<"cached", d>>] = Content[<<"cached", d>>]
               /\ Content'[<<"slot", d>>] = Content[<<"slot", d>>]
    BY Zenon, ClientContent DEF Serve, queues
  <2>2. ASSUME NEW l \in Layer
        PROVE  /\ Content'[<<"held", l>>] = Content[<<"held", l>>]
               /\ Content'[<<"used", l>>] = Content[<<"used", l>>]
    <3>1. Held(l)' = Held(l) /\ Used(l)' = Used(l)
      BY Zenon DEF Serve, Held, Used, OwnerOf, Layers, Pull
    <3> QED
      BY Zenon, <3>1, LayerContent
  <2>3. ASSUME NEW d \in Client, d # c PROVE Content'[<<"reply", d>>] = Content[<<"reply", d>>]
    BY Zenon, <2>3, <1>4, ClientContent
  <2> QED
    BY Zenon, <2>1, <2>2, <2>3, <1>5, <1>8, PlaceCases
<1> HIDE DEF x
<1>9. EachIn(f, n)
  BY Zenon, <1>1, <1>2, <1>5
<1>10. EachIn(g, n + 1)
  <2>1. \A z \in Place : g[z] \subseteq 1..(n + 1)
    BY <1>6, <1>7, <1>8, <1>9 DEF EachIn
  <2>2. \A z \in Place : n + 1 \in g[z] <=> z = x
    <3>1. \A z \in Place : n + 1 \notin f[z]
      BY <1>6, <1>9 DEF EachIn
    <3> QED
      BY Zenon, <3>1, <1>6, <1>7, <1>8
  <2>3. ASSUME NEW b \in 1..n
        PROVE  \E z \in Place : \A u \in Place : b \in g[u] <=> u = z
    <3>1. PICK z \in Place : \A u \in Place : b \in f[u] <=> u = z
      BY <1>6, <1>9 DEF EachIn
    <3>2. \A u \in Place : b \in g[u] <=> b \in f[u]
      BY <1>7, <1>8
    <3> QED
      BY Zenon, <3>1, <3>2
  <2>4. \A b \in 1..(n + 1) : b \in 1..n \/ b = n + 1
    OBVIOUS
  <2> QED
    BY Zenon, <2>1, <2>2, <2>3, <2>4, <1>6 DEF EachIn
<1>11. EachIn(Content, served)' = EachIn(Content', served')
  BY Zenon DEF EachIn
<1>12. InLine'
  <2>1. ASSUME NEW u \in Place, NEW v \in Place, After(u, v), NEW p \in g[u], NEW r \in g[v]
        PROVE  p < r
    <3>1. u # x
      BY <2>1 DEF After, x
    <3>2. p \in f[u] /\ p \in 1..n
      BY Zenon, <3>1, <1>6, <1>8, <1>9 DEF EachIn
    <3>3. r \in f[v] \/ r = n + 1
      BY Zenon, <1>7, <1>8
    <3>4. r \in f[v] => p < r
      BY Zenon, <2>1, <3>2, <1>1, <1>5 DEF InLine, Less
    <3> QED
      BY <3>2, <3>3, <3>4
  <2>2. \A u, v : After(u, v)' <=> After(u, v)
    BY Zenon DEF After, OwnerOf, Layers, Serve
  <2>3. InLine' = \A u, v \in Place : After(u, v)' => Less(Content'[u], Content'[v])
    BY Zenon DEF InLine, Less, Place
  <2> QED
    BY Zenon, <2>1, <2>2, <2>3, <1>5 DEF Less
<1> QED
  BY Zenon, <1>2, <1>5, <1>10, <1>11, <1>12 DEF BatchInvNext

\* The reader thread takes the oldest reply.
LEMMA ReceivedBatch ==
  ASSUME BatchInv, NEW c \in Client, received(c)
  PROVE  BatchInvNext
<1>1. TypeOK /\ EachIn(Content, served) /\ InLine /\ Kinds(c) /\ Sorted(c)
  BY Zenon DEF BatchInv
<1>2. PICK q \in Seq(Nat) : q = replies[c] /\ q # <<>> /\ Rising(q)
  BY Zenon, <1>1 DEF TypeOK, received, Sorted
<1>3. PICK b : b = Head(q)
  BY Zenon
<1>4. /\ b \in Elems(q) /\ Elems(Tail(q)) = Elems(q) \ {b}
      /\ \A a \in Elems(q) : a # b => b < a
  BY Zenon, <1>2, <1>3, TailFacts, RisingDistinct
<1>5. b \in 1..served /\ b # 0
  <2>1. <<"reply", c>> \in DOMAIN Content /\ b \in Content[<<"reply", c>>]
    BY Zenon, <1>2, <1>4, ClientContent
  <2>2. b \in 1..served
    BY Zenon, <2>1, <1>1 DEF EachIn
  <2> QED
    BY <2>2
<1>6. /\ replies'[c] = Tail(q) /\ \A d \in Client \ {c} : replies'[d] = replies[d]
      /\ thread'[c].msg = b /\ \A d \in Client \ {c} : thread'[d] = thread[d]
  BY Zenon, <1>1, <1>2, <1>3 DEF TypeOK, received
<1>7. thread[c].msg = 0
  BY Zenon, <1>1 DEF Kinds, InHand, received
<1>8. \A l \in Layer : Held(l)' = Held(l) /\ Used(l)' = Used(l)
  BY Zenon DEF received, Held, Used, OwnerOf, Layers, Pull
<1>9. Advance(<<"reply", c>>, <<"thread", c>>, b)
  <2>1. Content[<<"reply", c>>] = Elems(q) /\ Content'[<<"reply", c>>] = Elems(q) \ {b}
    BY Zenon, <1>2, <1>4, <1>6, ClientContent
  <2>2. Content[<<"thread", c>>] = {} /\ Content'[<<"thread", c>>] = {b}
    <3>1. Content[<<"thread", c>>] = {0} \ {0} /\ Content'[<<"thread", c>>] = {b} \ {0}
      BY Zenon, <1>6, <1>7, ClientContent
    <3> QED
      BY Zenon, <3>1, <1>5
  <2>3. ASSUME NEW z \in Place, z # <<"reply", c>>, z # <<"thread", c>>
        PROVE  Content'[z] = Content[z]
    <3>1. ASSUME NEW d \in Client
          PROVE  /\ Content'[<<"cached", d>>] = Content[<<"cached", d>>]
                 /\ Content'[<<"slot", d>>] = Content[<<"slot", d>>]
      BY Zenon, ClientContent DEF received, queues
    <3>2. ASSUME NEW d \in Client, d # c
          PROVE  /\ Content'[<<"reply", d>>] = Content[<<"reply", d>>]
                 /\ Content'[<<"thread", d>>] = Content[<<"thread", d>>]
      <4>1. replies'[d] = replies[d] /\ thread'[d] = thread[d]
        BY Zenon, <3>2, <1>6
      <4> QED
        BY ZenonT(60), <4>1, ClientContent
    <3>3. ASSUME NEW l \in Layer
          PROVE  /\ Content'[<<"held", l>>] = Content[<<"held", l>>]
                 /\ Content'[<<"used", l>>] = Content[<<"used", l>>]
      BY Zenon, <1>8, LayerContent
    <3> QED
      BY Zenon, <2>3, <3>1, <3>2, <3>3, PlaceCases
  <2>4. DOMAIN Content = Place /\ DOMAIN Content' = Place
        /\ <<"reply", c>> \in Place /\ <<"thread", c>> \in Place
    BY Zenon, ClientContent
  <2> QED
    BY Zenon, <2>1, <2>2, <2>3, <2>4, <1>4 DEF Advance, Moved
<1>10. config' = config /\ served' = served
  BY Zenon DEF received
<1> QED
  BY Zenon, <1>1, <1>9, <1>10, NextPlaces, AdvanceKept DEF BatchInvNext

\* add_data publishes the message in an element, behind the batches cached before.
LEMMA FillBatch ==
  ASSUME BatchInv, NEW c \in Client, Fill(c)
  PROVE  BatchInvNext
<1>1. TypeOK /\ EachIn(Content, served) /\ InLine /\ Kinds(c) /\ Sorted(c) /\ ElementsKept(c)
  BY Zenon DEF BatchInv
<1>2. PICK b \in Nat : b = thread[c].msg /\ b # 0
  BY Zenon, <1>1 DEF TypeOK, Fill, Kinds, InHand
<1>3. PICK e : e = thread[c].elem
  BY Zenon
<1>4. PICK d \in Seq(Nat), q \in Seq(Nat) : d = data[c] /\ q = cached[c]
  BY Zenon, <1>1 DEF TypeOK
<1>5. /\ e \in 1..Len(d) /\ Elems(q) \subseteq 1..Len(d) /\ e \notin Elems(q)
      /\ RisingBy(d, q) /\ thread[c].at = "fill"
  BY Zenon, <1>1, <1>3, <1>4, ElementsThere, FilledApart DEF Fill, Sorted
<1>6. Content[<<"thread", c>>] = {b} /\ Content[<<"cached", c>>] = Contents(d, q)
  <2>1. Content[<<"thread", c>>] = {b} \ {0} /\ Content[<<"cached", c>>] = Contents(d, q)
    BY Zenon, <1>2, <1>4, ClientContent
  <2> QED
    BY Zenon, <2>1, <1>2
<1>7. \A a \in Contents(d, q) : a < b
  <2>1. After(<<"cached", c>>, <<"thread", c>>)
    BY Zenon DEF After
  <2>2. Less(Content[<<"cached", c>>], Content[<<"thread", c>>])
    BY Zenon, <2>1, <1>1, ClientContent DEF InLine
  <2> QED
    BY Zenon, <2>2, <1>6 DEF Less
<1>8. /\ data'[c] = [d EXCEPT ![e] = b] /\ cached'[c] = Append(q, e)
      /\ \A k \in Client : k # c => data'[k] = data[k] /\ cached'[k] = cached[k]
      /\ thread'[c].msg = 0
      /\ \A k \in Client : k # c => thread'[k] = thread[k]
  BY Zenon, <1>1, <1>2, <1>3, <1>4 DEF TypeOK, Fill
<1>9. Contents(data'[c], cached'[c]) = Contents(d, q) \cup {b}
  <2>1. Filled(d, q, e, b, data'[c], cached'[c])
    BY Zenon, <1>5, <1>7, <1>8 DEF Filled
  <2> QED
    BY <2>1, FillFacts
<1>10. ASSUME NEW l \in Layer PROVE Held(l)' = Held(l) /\ Used(l)' = Used(l)
  <2>1. Used(l)' = Used(l)
    BY Zenon DEF Fill, Used, OwnerOf, Layers, Pull
  <2>2. OwnerOf(l)' = OwnerOf(l) /\ layer'[l] = layer[l]
    BY Zenon DEF Fill, OwnerOf, Layers
  <2>3. ASSUME NEW k \in OwnerOf(l), layer[l].at = "copy"
        PROVE  data'[k][layer[l].elem] = data[k][layer[l].elem]
    <3>1. CASE k = c
      <4>1. layer[l].elem # e
        BY Zenon, <2>3, <3>1, <1>1, <1>3, <1>5, FilledApart DEF Holding, OwnerOf
      <4> QED
        BY <3>1, <4>1, <1>4, <1>8
    <3>2. CASE k # c
      BY Zenon, <3>2, <1>8 DEF OwnerOf
    <3> QED
      BY Zenon, <3>1, <3>2
  <2>4. Held(l)' = Held(l)
    BY <2>2, <2>3 DEF Held
  <2> QED
    BY Zenon, <2>1, <2>4
<1>11. Advance(<<"thread", c>>, <<"cached", c>>, b)
  <2>1. Content'[<<"thread", c>>] = {}
    BY Zenon, <1>8, ClientContent
  <2>2. Content'[<<"cached", c>>] = Contents(d, q) \cup {b}
    BY Zenon, <1>9, ClientContent
  <2>3. ASSUME NEW z \in Place, z # <<"thread", c>>, z # <<"cached", c>>
        PROVE  Content'[z] = Content[z]
    <3>1. ASSUME NEW k \in Client
          PROVE  /\ Content'[<<"reply", k>>] = Content[<<"reply", k>>]
                 /\ Content'[<<"slot", k>>] = Content[<<"slot", k>>]
      BY Zenon, ClientContent DEF Fill
    <3>2. ASSUME NEW k \in Client, k # c
          PROVE  /\ Content'[<<"thread", k>>] = Content[<<"thread", k>>]
                 /\ Content'[<<"cached", k>>] = Content[<<"cached", k>>]
      <4>1. thread'[k] = thread[k] /\ data'[k] = data[k] /\ cached'[k] = cached[k]
        BY Zenon, <3>2, <1>8
      <4> QED
        BY ZenonT(60), <4>1, ClientContent
    <3>3. ASSUME NEW l \in Layer
          PROVE  /\ Content'[<<"held", l>>] = Content[<<"held", l>>]
                 /\ Content'[<<"used", l>>] = Content[<<"used", l>>]
      BY Zenon, <1>10, LayerContent
    <3> QED
      BY Zenon, <2>3, <3>1, <3>2, <3>3, PlaceCases
  <2>4. DOMAIN Content = Place /\ DOMAIN Content' = Place
        /\ <<"thread", c>> \in Place /\ <<"cached", c>> \in Place
    BY Zenon, ClientContent
  <2> QED
    BY Zenon, <2>1, <2>2, <2>3, <2>4, <1>6 DEF Advance, Moved
<1>12. config' = config /\ served' = served
  BY Zenon DEF Fill
<1> QED
  BY Zenon, <1>1, <1>11, <1>12, NextPlaces, AdvanceKept DEF BatchInvNext

\* The reusing cache keeps the message in its next slot.
LEMMA CopyItemsBatch ==
  ASSUME BatchInv, NEW c \in Client, CopyItems(c)
  PROVE  BatchInvNext
<1>1. TypeOK /\ EachIn(Content, served) /\ InLine /\ Kinds(c)
  BY Zenon DEF BatchInv
<1>2. PICK b \in Nat : b = thread[c].msg /\ b # 0
  BY Zenon, <1>1 DEF TypeOK, CopyItems, Kinds, InHand
<1>3. /\ slots'[c] = Append(slots[c], b)
      /\ \A k \in Client : k # c => slots'[k] = slots[k]
      /\ thread'[c].msg = 0
      /\ \A k \in Client : k # c => thread'[k] = thread[k]
  BY Zenon, <1>1, <1>2 DEF TypeOK, CopyItems
<1>4. Elems(slots'[c]) = Elems(slots[c]) \cup {b}
  BY Zenon, <1>1, <1>3, AppendFacts DEF TypeOK
<1>5. \A l \in Layer : Held(l)' = Held(l) /\ Used(l)' = Used(l)
  BY Zenon DEF CopyItems, Held, Used, OwnerOf, Layers, Pull
<1>6. Content[<<"thread", c>>] = {b}
  <2>1. Content[<<"thread", c>>] = {b} \ {0}
    BY Zenon, <1>2, ClientContent
  <2> QED
    BY Zenon, <2>1, <1>2
<1>7. Advance(<<"thread", c>>, <<"slot", c>>, b)
  <2>1. Content'[<<"thread", c>>] = {}
    BY Zenon, <1>3, ClientContent
  <2>2. Content'[<<"slot", c>>] = Content[<<"slot", c>>] \cup {b}
    BY Zenon, <1>4, ClientContent
  <2>3. ASSUME NEW z \in Place, z # <<"thread", c>>, z # <<"slot", c>>
        PROVE  Content'[z] = Content[z]
    <3>1. ASSUME NEW k \in Client
          PROVE  /\ Content'[<<"reply", k>>] = Content[<<"reply", k>>]
                 /\ Content'[<<"cached", k>>] = Content[<<"cached", k>>]
      BY Zenon, ClientContent DEF CopyItems, net, queues
    <3>2. ASSUME NEW k \in Client, k # c
          PROVE  /\ Content'[<<"thread", k>>] = Content[<<"thread", k>>]
                 /\ Content'[<<"slot", k>>] = Content[<<"slot", k>>]
      <4>1. thread'[k] = thread[k] /\ slots'[k] = slots[k]
        BY Zenon, <3>2, <1>3
      <4> QED
        BY ZenonT(60), <4>1, ClientContent
    <3>3. ASSUME NEW l \in Layer
          PROVE  /\ Content'[<<"held", l>>] = Content[<<"held", l>>]
                 /\ Content'[<<"used", l>>] = Content[<<"used", l>>]
      BY Zenon, <1>5, LayerContent
    <3> QED
      BY Zenon, <2>3, <3>1, <3>2, <3>3, PlaceCases
  <2>4. DOMAIN Content = Place /\ DOMAIN Content' = Place
        /\ <<"thread", c>> \in Place /\ <<"slot", c>> \in Place
    BY Zenon, ClientContent
  <2> QED
    BY Zenon, <2>1, <2>2, <2>3, <2>4, <1>6 DEF Advance, Moved
<1>8. config' = config /\ served' = served
  BY Zenon DEF CopyItems, net
<1> QED
  BY Zenon, <1>1, <1>7, <1>8, NextPlaces, AdvanceKept DEF BatchInvNext

\* get takes the element with the oldest cached batch.
LEMMA PopCachedBatch ==
  ASSUME BatchInv, NEW c \in Client, NEW l \in Layers(c), PopCached(l, c)
  PROVE  BatchInvNext
<1>1. TypeOK /\ EachIn(Content, served) /\ InLine /\ Sorted(c) /\ ElementsKept(c) /\ l \in Layer
  BY Zenon, LayersAre DEF BatchInv
<1>2. PICK d \in Seq(Nat), q \in Seq(Nat) : d = data[c] /\ q = cached[c]
  BY Zenon, <1>1 DEF TypeOK
<1>3. PICK b : b = d[Head(q)]
  BY Zenon
<1>4. /\ q # <<>> /\ Elems(q) \subseteq 1..Len(d) /\ RisingBy(d, q) /\ Distinct(q)
      /\ layer[l].at = "get"
  BY Zenon, <1>1, <1>2, ElementsThere DEF PopCached, Sorted, ElementsKept
<1>5. /\ Contents(d, Tail(q)) = Contents(d, q) \ {b} /\ b \in Contents(d, q)
      /\ \A a \in Contents(d, Tail(q)) : b < a
  BY Zenon, <1>3, <1>4, PopFacts
<1>6. /\ cached'[c] = Tail(q) /\ data' = data
      /\ \A k \in Client : k # c => cached'[k] = cached[k]
      /\ layer'[l] = [at |-> "copy", elem |-> Head(q)]
      /\ \A k \in Layer : k # l => layer'[k] = layer[k]
  BY Zenon, <1>1, <1>2 DEF TypeOK, PopCached
<1>7. \A k \in Layer : Used(k)' = Used(k)
  BY Zenon DEF PopCached, Used, OwnerOf, Layers, Pull
<1>8. ASSUME NEW k \in Layer, k # l PROVE Held(k)' = Held(k)
  <2>1. layer'[k] = layer[k] /\ OwnerOf(k)' = OwnerOf(k)
    BY Zenon, <1>6, <1>8 DEF PopCached, OwnerOf, Layers
  <2> QED
    BY <2>1, <1>6 DEF Held
<1>9. OwnerOf(l) = {c} /\ OwnerOf(l)' = {c}
  BY Zenon, <1>1, OneOwner DEF OwnerOf, Layers, PopCached
<1>10. Held(l) = {} /\ Held(l)' = {b}
  <2>1. Held(l) = {}
    BY Zenon, <1>4 DEF Held
  <2>2. layer'[l].at = "copy" /\ layer'[l].elem = Head(q) /\ data'[c] = d
    BY <1>2, <1>6
  <2> QED
    BY Zenon, <2>1, <2>2, <1>3, <1>9 DEF Held
<1>11. Advance(<<"cached", c>>, <<"held", l>>, b)
  <2>1. /\ Content[<<"cached", c>>] = Contents(d, q)
        /\ Content'[<<"cached", c>>] = Contents(d, q) \ {b}
    BY Zenon, <1>2, <1>5, <1>6, ClientContent
  <2>2. Content[<<"held", l>>] = {} /\ Content'[<<"held", l>>] = {b}
    BY Zenon, <1>1, <1>10, LayerContent
  <2>3. ASSUME NEW z \in Place, z # <<"cached", c>>, z # <<"held", l>>
        PROVE  Content'[z] = Content[z]
    <3>1. ASSUME NEW k \in Client
          PROVE  /\ Content'[<<"reply", k>>] = Content[<<"reply", k>>]
                 /\ Content'[<<"thread", k>>] = Content[<<"thread", k>>]
                 /\ Content'[<<"slot", k>>] = Content[<<"slot", k>>]
      BY Zenon, ClientContent DEF PopCached, net
    <3>2. ASSUME NEW k \in Client, k # c
          PROVE  Content'[<<"cached", k>>] = Content[<<"cached", k>>]
      <4>1. data'[k] = data[k] /\ cached'[k] = cached[k]
        BY Zenon, <3>2, <1>6
      <4> QED
        BY Zenon, <4>1, ClientContent
    <3>3. ASSUME NEW k \in Layer
          PROVE  Content'[<<"used", k>>] = Content[<<"used", k>>]
      BY Zenon, <1>7, LayerContent
    <3>4. ASSUME NEW k \in Layer, k # l
          PROVE  Content'[<<"held", k>>] = Content[<<"held", k>>]
      BY Zenon, <3>4, <1>8, LayerContent
    <3> QED
      BY ZenonT(60), <2>3, <3>1, <3>2, <3>3, <3>4, PlaceCases
  <2>4. DOMAIN Content = Place /\ DOMAIN Content' = Place
        /\ <<"cached", c>> \in Place /\ <<"held", l>> \in Place
    BY Zenon, <1>1, ClientContent, LayerContent
  <2>5. \A a \in Contents(d, q) : a # b => b < a
    BY Zenon, <1>5
  <2>6. <<"cached", c>> # <<"held", l>>
    BY Zenon
  <2> QED
    BY Zenon, <2>1, <2>2, <2>3, <2>4, <2>5, <2>6, <1>5 DEF Advance, Moved
<1>12. config' = config /\ served' = served
  BY Zenon DEF PopCached, net
<1> QED
  BY Zenon, <1>1, <1>11, <1>12, NextPlaces, AdvanceKept DEF BatchInvNext

\* get copies the batch it holds.
LEMMA CopyOutBatch ==
  ASSUME BatchInv, NEW c \in Client, NEW l \in Layers(c), CopyOut(l, c)
  PROVE  BatchInvNext
<1>1. TypeOK /\ EachIn(Content, served) /\ InLine /\ ElementsKept(c) /\ Kinds(c) /\ l \in Layer
  BY Zenon, LayersAre DEF BatchInv
<1>2. PICK b : b = data[c][layer[l].elem]
  BY Zenon
<1>3. layer[l].at = "copy" /\ Pull(c) /\ b \in Nat
  <2>1. layer[l].at = "copy" /\ Pull(c)
    BY Zenon, <1>1 DEF CopyOut, Kinds
  <2>2. layer[l].elem \in 1..Len(data[c]) /\ data[c] \in Seq(Nat)
    BY Zenon, <2>1, <1>1, ElementsThere DEF Holding, TypeOK
  <2> QED
    BY <2>1, <2>2, <1>2
<1>4. /\ got'[l] = Append(got[l], b) /\ data' = data /\ got[l] \in Seq(Nat)
      /\ \A k \in Layer : k # l => got'[k] = got[k]
      /\ layer'[l].at = "idle"
      /\ \A k \in Layer : k # l => layer'[k] = layer[k]
  BY <1>1, <1>2 DEF TypeOK, CopyOut
<1>5. OwnerOf(l) = {c} /\ OwnerOf(l)' = {c} /\ \A k \in Layer : OwnerOf(k)' = OwnerOf(k)
  BY Zenon, <1>1, OneOwner DEF OwnerOf, Layers, CopyOut
<1>6. \A k \in Client : Pull(k)' = Pull(k)
  BY Zenon DEF Pull, CopyOut
<1>7. Held(l) = {b} /\ Held(l)' = {}
  <2>1. Held(l) = {b}
    BY Zenon, <1>2, <1>3, <1>5 DEF Held
  <2>2. Held(l)' = {}
    BY Zenon, <1>4 DEF Held
  <2> QED
    BY Zenon, <2>1, <2>2
<1>8. Used(l)' = Used(l) \cup {b}
  <2>1. Elems(got'[l]) = Elems(got[l]) \cup {b}
    BY Zenon, <1>3, <1>4, AppendFacts
  <2> QED
    BY Zenon, <2>1, <1>3, <1>5, <1>6 DEF Used
<1>9. ASSUME NEW k \in Layer, k # l PROVE Held(k)' = Held(k) /\ Used(k)' = Used(k)
  <2>1. layer'[k] = layer[k] /\ OwnerOf(k)' = OwnerOf(k) /\ got'[k] = got[k]
    BY Zenon, <1>4, <1>5, <1>9
  <2>2. Held(k)' = Held(k)
    BY <2>1, <1>4 DEF Held
  <2>3. Used(k)' = Used(k)
    BY Zenon, <2>1, <1>6 DEF Used, OwnerOf
  <2> QED
    BY Zenon, <2>2, <2>3
<1>10. Advance(<<"held", l>>, <<"used", l>>, b)
  <2>1. Content[<<"held", l>>] = {b} /\ Content'[<<"held", l>>] = {}
    BY Zenon, <1>1, <1>7, LayerContent
  <2>2. Content'[<<"used", l>>] = Content[<<"used", l>>] \cup {b}
    BY Zenon, <1>1, <1>8, LayerContent
  <2>3. ASSUME NEW z \in Place, z # <<"held", l>>, z # <<"used", l>>
        PROVE  Content'[z] = Content[z]
    <3>1. ASSUME NEW k \in Client
          PROVE  /\ Content'[<<"reply", k>>] = Content[<<"reply", k>>]
                 /\ Content'[<<"thread", k>>] = Content[<<"thread", k>>]
                 /\ Content'[<<"cached", k>>] = Content[<<"cached", k>>]
                 /\ Content'[<<"slot", k>>] = Content[<<"slot", k>>]
      BY Zenon, ClientContent DEF CopyOut, net
    <3>2. ASSUME NEW k \in Layer, k # l
          PROVE  /\ Content'[<<"held", k>>] = Content[<<"held", k>>]
                 /\ Content'[<<"used", k>>] = Content[<<"used", k>>]
      BY Zenon, <3>2, <1>9, LayerContent
    <3> QED
      BY Zenon, <2>3, <3>1, <3>2, PlaceCases
  <2>4. DOMAIN Content = Place /\ DOMAIN Content' = Place
        /\ <<"held", l>> \in Place /\ <<"used", l>> \in Place
    BY Zenon, <1>1, LayerContent
  <2> QED
    BY Zenon, <2>1, <2>2, <2>3, <2>4 DEF Advance, Moved
<1>11. config' = config /\ served' = served
  BY Zenon DEF CopyOut, net
<1> QED
  BY Zenon, <1>1, <1>10, <1>11, NextPlaces, AdvanceKept DEF BatchInvNext

\* create_cache makes elements behind those there are.
LEMMA CreateFacts ==
  ASSUME TypeOK, NEW c \in Client, create_cache(c)
  PROVE  /\ Len(NewIds(c)) \in Nat /\ NewIds(c) \in Seq(Nat)
         /\ DOMAIN NewIds(c) = 1..Len(NewIds(c))
         /\ \A i \in DOMAIN NewIds(c) : NewIds(c)[i] = Len(data[c]) + i
         /\ data'[c] \in Seq(Nat) /\ Len(data'[c]) = Len(data[c]) + Len(NewIds(c))
         /\ \A e \in 1..Len(data[c]) : data'[c][e] = data[c][e]
         /\ \A d \in Client : d # c => data'[d] = data[d]
<1>1. PICK m \in Nat : m = IF Unshared(c) THEN 1 ELSE config[c].cache_size
  BY Zenon, LayersAre
<1>2. PICK n \in Nat, d \in Seq(Nat) : d = data[c] /\ n = Len(d)
  BY Zenon, SeqFacts DEF TypeOK
<1>3. NewIds(c) = [i \in 1..m |-> n + i]
  BY Zenon, <1>1, <1>2 DEF NewIds
<1>4. [i \in 1..m |-> n + i] \in Seq(Nat) /\ Len([i \in 1..m |-> n + i]) = m
  OBVIOUS
<1>5. DOMAIN NewIds(c) = 1..m
  BY Zenon, <1>3
<1>6. [i \in 1..m |-> 0] \in Seq(Nat) /\ Len([i \in 1..m |-> 0]) = m
  OBVIOUS
<1>7. data'[c] = d \o [i \in 1..m |-> 0] /\ \A k \in Client : k # c => data'[k] = data[k]
  BY Zenon, <1>2, <1>5 DEF create_cache, TypeOK
<1>8. PICK z \in Seq(Nat) : z = [i \in 1..m |-> 0] /\ Len(z) = m
  BY Zenon, <1>6
<1>9. d \o z \in Seq(Nat) /\ Len(d \o z) = n + m /\ \A e \in 1..n : (d \o z)[e] = d[e]
  BY <1>2, <1>8
<1> QED
  BY Zenon, <1>2, <1>3, <1>4, <1>5, <1>7, <1>8, <1>9

\* A step that leaves the messages, the batches in elements and slots, and the batches of
\* the layers as they are.
LEMMA StayBatch ==
  ASSUME BatchInv, Content' = Content, config' = config, served' = served
  PROVE  BatchInvNext
BY Zenon, StayKept DEF BatchInv, BatchInvNext

\* The other steps of the reader thread move no batch.
LEMMA ReaderBatch ==
  ASSUME BatchInv, NEW c \in Client,
         Start(c) \/ Sizes(c) \/ CreateIfNone(c) \/ PopFree(c) \/ Publish(c)
  PROVE  BatchInvNext
<1>1. TypeOK /\ \A d \in Client : ElementsKept(d)
  BY Zenon DEF BatchInv
<1>2. /\ config' = config /\ served' = served /\ replies' = replies /\ cached' = cached
      /\ slots' = slots /\ layer' = layer /\ got' = got
  BY Zenon DEF Start, Sizes, Size, CreateIfNone, PopFree, Publish, net, queues
<1>3. ASSUME NEW d \in Client PROVE thread'[d].msg = thread[d].msg
  <2>1. thread \in [Client -> [at : Step, sum : Nat, msg : Nat, elem : Nat]]
    BY Zenon, <1>1 DEF TypeOK
  <2>2. CASE Start(c)
    BY Zenon, <2>1, <2>2 DEF Start
  <2>3. CASE Sizes(c)
    BY <2>1, <2>3 DEF Sizes, Size
  <2>4. CASE CreateIfNone(c)
    BY Zenon, <2>1, <2>4 DEF CreateIfNone
  <2>5. CASE PopFree(c)
    BY Zenon, <2>1, <2>5 DEF PopFree
  <2>6. CASE Publish(c)
    BY <2>1, <2>6 DEF Publish
  <2> QED
    BY Zenon, <2>2, <2>3, <2>4, <2>5, <2>6
<1>4. ASSUME NEW d \in Client, NEW e \in 1..Len(data[d]) PROVE data'[d][e] = data[d][e]
  <2>1. CASE CreateIfNone(c) /\ thread[c].sum = 0
    BY Zenon, <2>1, <1>1, CreateFacts DEF CreateIfNone
  <2>2. CASE ~(CreateIfNone(c) /\ thread[c].sum = 0)
    BY Zenon, <2>2 DEF Start, Sizes, Size, CreateIfNone, PopFree, Publish, net, queues
  <2> QED
    BY Zenon, <2>1, <2>2
<1>5. ASSUME NEW d \in Client PROVE Contents(data'[d], cached'[d]) = Contents(data[d], cached[d])
  BY <1>1, <1>2, <1>4, ElementsThere DEF Contents
<1>6. ASSUME NEW l \in Layer PROVE Held(l)' = Held(l) /\ Used(l)' = Used(l)
  <2>1. \A d \in OwnerOf(l) : layer[l].at = "copy" =>
          data'[d][layer[l].elem] = data[d][layer[l].elem]
    BY Zenon, <1>1, <1>4, ElementsThere DEF OwnerOf, Holding
  <2>2. OwnerOf(l)' = OwnerOf(l) /\ \A d : Pull(d)' = Pull(d)
    BY Zenon, <1>2 DEF OwnerOf, Layers, Pull
  <2>3. Held(l)' = Held(l)
    BY Zenon, <2>1, <2>2, <1>2 DEF Held
  <2> QED
    BY Zenon, <2>2, <2>3, <1>2 DEF Used
<1>7. Content' = Content
  BY Zenon, <1>2, <1>3, <1>5, <1>6, StayBy
<1> QED
  BY Zenon, <1>2, <1>7, StayBatch

\* Nor do the other steps of a layer.
LEMMA LayerBatch ==
  ASSUME BatchInv, NEW c \in Client, NEW l \in Layers(c), Begin(l, c) \/ HandOver(l, c) \/ Draw(l, c)
  PROVE  BatchInvNext
<1>1. TypeOK /\ Kinds(c) /\ l \in Layer
  BY Zenon, LayersAre DEF BatchInv
<1>2. /\ config' = config /\ served' = served /\ replies' = replies /\ cached' = cached
      /\ slots' = slots /\ thread' = thread /\ data' = data
  BY Zenon DEF Begin, HandOver, Draw, net, queues
<1>3. \A k \in Layer : k # l => layer'[k] = layer[k] /\ got'[k] = got[k]
  BY Zenon, <1>1 DEF TypeOK, Begin, HandOver, Draw
<1>4. layer[l].at # "copy" /\ layer'[l].at # "copy"
  BY SMTT(30), <1>1 DEF TypeOK, Begin, HandOver, Draw, Kinds
<1>5. Pull(c) => got' = got
  BY Zenon DEF Begin, HandOver, Draw
<1>6. OwnerOf(l) = {c} /\ \A k \in Layer : OwnerOf(k)' = OwnerOf(k)
  BY Zenon, <1>1, <1>2, OneOwner DEF OwnerOf, Layers
<1>7. \A d : Pull(d)' = Pull(d)
  BY Zenon, <1>2 DEF Pull
<1>8. ASSUME NEW k \in Layer PROVE Held(k)' = Held(k)
  <2>1. OwnerOf(k)' = OwnerOf(k)
    BY Zenon, <1>6
  <2>2. CASE k = l
    BY Zenon, <2>2, <1>4 DEF Held
  <2>3. CASE k # l
    BY <2>1, <2>3, <1>2, <1>3 DEF Held
  <2> QED
    BY Zenon, <2>2, <2>3
<1>9. ASSUME NEW k \in Layer PROVE Used(k)' = Used(k)
  <2>1. OwnerOf(k)' = OwnerOf(k)
    BY Zenon, <1>6
  <2>2. CASE k = l
    BY Zenon, <2>1, <2>2, <1>5, <1>6, <1>7 DEF Used
  <2>3. CASE k # l
    BY Zenon, <2>1, <2>3, <1>3, <1>7 DEF Used
  <2> QED
    BY Zenon, <2>2, <2>3
<1>10. Content' = Content
  BY Zenon, <1>2, <1>8, <1>9, StayBy
<1> QED
  BY Zenon, <1>2, <1>10, StayBatch

\* Every step keeps each batch in one place and the batches in line.
LEMMA BatchStep ==
  ASSUME BatchInv, [Next]_vars
  PROVE  BatchInvNext
<1>1. CASE UNCHANGED vars
  <2>1. Content' = Content
    BY <1>1 DEF vars, net, queues, Content, Place, BatchesAt, Held, OwnerOf, Layers, Pull
  <2> QED
    BY Zenon, <2>1, <1>1, StayBatch DEF vars, net
<1>2. ASSUME NEW c \in Client, Serve(c) \/ Reader(c) PROVE BatchInvNext
  BY Zenon, <1>2, ServeBatch, ReceivedBatch, FillBatch, CopyItemsBatch, ReaderBatch DEF Reader
<1>3. ASSUME NEW c \in Client, NEW l \in Layers(c), Get(l, c) PROVE BatchInvNext
  BY Zenon, <1>3, PopCachedBatch, CopyOutBatch, LayerBatch DEF Get
<1> QED
  BY Zenon, <1>1, <1>2, <1>3 DEF Next

------------------------------------------------------------------------------
(* The steps that move an element                                          *)

\* The elements in the places of a client, before and after a step.
LEMMA ElemContent ==
  ASSUME NEW c \in Client, config' = config
  PROVE  /\ DOMAIN Elements(c) = ElemPlace(c) /\ DOMAIN Elements(c)' = ElemPlace(c)
         /\ <<"cached", c>> \in ElemPlace(c) /\ <<"waiting", c>> \in ElemPlace(c)
         /\ <<"free", c>> \in ElemPlace(c) /\ <<"thread", c>> \in ElemPlace(c)
         /\ Elements(c)[<<"cached", c>>] = Elems(cached[c])
         /\ Elements(c)[<<"waiting", c>>] = Elems(waiting[c])
         /\ Elements(c)[<<"free", c>>] = Elems(free[c])
         /\ Elements(c)[<<"thread", c>>] =
              IF thread[c].at = "fill" THEN {thread[c].elem} ELSE {}
         /\ Elements(c)'[<<"cached", c>>] = Elems(cached'[c])
         /\ Elements(c)'[<<"waiting", c>>] = Elems(waiting'[c])
         /\ Elements(c)'[<<"free", c>>] = Elems(free'[c])
         /\ Elements(c)'[<<"thread", c>>] =
              IF thread'[c].at = "fill" THEN {thread'[c].elem} ELSE {}
<1>1. ElemPlace(c)' = ElemPlace(c)
  BY Zenon DEF ElemPlace, Layers
<1>2. /\ <<"cached", c>> \in ElemPlace(c) /\ <<"waiting", c>> \in ElemPlace(c)
      /\ <<"free", c>> \in ElemPlace(c) /\ <<"thread", c>> \in ElemPlace(c)
  BY Zenon DEF ElemPlace
<1>3. Elements(c) = [x \in ElemPlace(c) |-> ElementsAt(x)]
      /\ Elements(c)' = [x \in ElemPlace(c) |-> ElementsAt(x)']
  BY Zenon, <1>1 DEF Elements
<1>4. /\ ElementsAt(<<"cached", c>>) = Elems(cached[c])
      /\ ElementsAt(<<"waiting", c>>) = Elems(waiting[c])
      /\ ElementsAt(<<"free", c>>) = Elems(free[c])
      /\ ElementsAt(<<"thread", c>>) = IF thread[c].at = "fill" THEN {thread[c].elem} ELSE {}
  BY Zenon DEF ElementsAt
<1>5. /\ ElementsAt(<<"cached", c>>)' = Elems(cached'[c])
      /\ ElementsAt(<<"waiting", c>>)' = Elems(waiting'[c])
      /\ ElementsAt(<<"free", c>>)' = Elems(free'[c])
      /\ ElementsAt(<<"thread", c>>)' = IF thread'[c].at = "fill" THEN {thread'[c].elem} ELSE {}
  BY Zenon DEF ElementsAt, Elems
<1> QED
  BY Zenon, <1>2, <1>3, <1>4, <1>5

\* The element in the hands of a layer, before and after a step.
LEMMA LayerElem ==
  ASSUME NEW c \in Client, config' = config, NEW l \in Layers(c)
  PROVE  /\ <<"layer", l>> \in ElemPlace(c)
         /\ Elements(c)[<<"layer", l>>] = IF Holding(l) THEN {layer[l].elem} ELSE {}
         /\ Elements(c)'[<<"layer", l>>] = IF Holding(l)' THEN {layer'[l].elem} ELSE {}
<1>1. ElemPlace(c)' = ElemPlace(c)
  BY Zenon DEF ElemPlace, Layers
<1>2. <<"layer", l>> \in ElemPlace(c)
  BY Zenon DEF ElemPlace
<1>3. Elements(c) = [x \in ElemPlace(c) |-> ElementsAt(x)]
      /\ Elements(c)' = [x \in ElemPlace(c) |-> ElementsAt(x)']
  BY Zenon, <1>1 DEF Elements
<1>4. ElementsAt(<<"layer", l>>) = IF Holding(l) THEN {layer[l].elem} ELSE {}
  BY Zenon DEF ElementsAt
<1>5. ElementsAt(<<"layer", l>>)' = IF Holding(l)' THEN {layer'[l].elem} ELSE {}
  BY Zenon DEF ElementsAt
<1> QED
  BY Zenon, <1>2, <1>3, <1>4, <1>5

\* Every place of an element is a queue of the client, its reader thread or a layer of it.
LEMMA ElemPlaceCases ==
  ASSUME NEW c \in Client, NEW z \in ElemPlace(c)
  PROVE  \/ z = <<"cached", c>> \/ z = <<"waiting", c>> \/ z = <<"free", c>> \/ z = <<"thread", c>>
         \/ \E l \in Layers(c) : z = <<"layer", l>>
BY DEF ElemPlace

\* A step that changes nothing of client c.
SameFor(c) ==
  /\ config' = config
  /\ replies'[c] = replies[c] /\ thread'[c] = thread[c] /\ data'[c] = data[c]
  /\ cached'[c] = cached[c] /\ waiting'[c] = waiting[c] /\ free'[c] = free[c]
  /\ slots'[c] = slots[c] /\ read_all'[c] = read_all[c]
  /\ \A l \in Layers(c) : layer'[l] = layer[l] /\ got'[l] = got[l]

\* A step that leaves the elements of client c where they are.
LEMMA ElementsStay ==
  ASSUME NEW c \in Client, ElementsKept(c), config' = config,
         cached'[c] = cached[c], waiting'[c] = waiting[c], free'[c] = free[c],
         Len(data'[c]) = Len(data[c]), \A l \in Layers(c) : layer'[l] = layer[l],
         thread'[c].at = "fill" <=> thread[c].at = "fill",
         thread[c].at = "fill" => thread'[c].elem = thread[c].elem
  PROVE  ElementsKept(c)'
<1>1. ASSUME NEW z \in ElemPlace(c) PROVE Elements(c)'[z] = Elements(c)[z]
  <2>1. /\ Elements(c)'[<<"cached", c>>] = Elements(c)[<<"cached", c>>]
        /\ Elements(c)'[<<"waiting", c>>] = Elements(c)[<<"waiting", c>>]
        /\ Elements(c)'[<<"free", c>>] = Elements(c)[<<"free", c>>]
        /\ Elements(c)'[<<"thread", c>>] = Elements(c)[<<"thread", c>>]
    BY Zenon, ElemContent
  <2>2. ASSUME NEW l \in Layers(c) PROVE Elements(c)'[<<"layer", l>>] = Elements(c)[<<"layer", l>>]
    <3>1. layer'[l] = layer[l] /\ (Holding(l)' <=> Holding(l))
      BY Zenon DEF Holding
    <3> QED
      BY Zenon, <3>1, LayerElem
  <2> QED
    BY Zenon, <2>1, <2>2, ElemPlaceCases
<1>2. DOMAIN Elements(c) = ElemPlace(c) /\ DOMAIN Elements(c)' = ElemPlace(c)
  BY Zenon, ElemContent
<1>3. EachIn(Elements(c), Len(data[c]))'
  <2>1. PICK f, g, n : f = Elements(c) /\ g = Elements(c)' /\ n = Len(data[c])
    BY Zenon
  <2>2. EachIn(f, n) /\ DOMAIN g = DOMAIN f /\ \A z \in DOMAIN f : g[z] = f[z]
    BY Zenon, <2>1, <1>1, <1>2 DEF ElementsKept
  <2>3. EachIn(g, n)
    BY <2>2 DEF EachIn
  <2>4. EachIn(Elements(c), Len(data[c]))' = EachIn(Elements(c)', Len(data'[c]))
    BY Zenon DEF EachIn
  <2> QED
    BY Zenon, <2>1, <2>3, <2>4
<1> QED
  BY Zenon, <1>3 DEF ElementsKept

\* A step that moves one of them.
LEMMA ElementMoved ==
  ASSUME NEW c \in Client, ElementsKept(c), data[c] \in Seq(Nat), NEW x, NEW y, NEW e,
         Moved(Elements(c), Elements(c)', x, y, e), Len(data'[c]) = Len(data[c])
  PROVE  EachIn(Elements(c), Len(data[c]))'
<1>1. PICK f, g, n : f = Elements(c) /\ g = Elements(c)' /\ n = Len(data[c])
  BY Zenon
<1>2. EachIn(f, n) /\ Moved(f, g, x, y, e) /\ n \in Nat
  BY Zenon, <1>1, SeqFacts DEF ElementsKept
<1>3. EachIn(g, n)
  BY Zenon, <1>2, MovedOnce
<1>4. EachIn(Elements(c), Len(data[c]))' = EachIn(Elements(c)', Len(data'[c]))
  BY Zenon DEF EachIn
<1> QED
  BY Zenon, <1>1, <1>3, <1>4

\* An element is not in two places.
LEMMA Apart ==
  ASSUME NEW f, NEW n, EachIn(f, n), NEW x \in DOMAIN f, NEW y \in DOMAIN f, x # y, NEW e \in f[x]
  PROVE  e \notin f[y] /\ e \in 1..n
BY Zenon DEF EachIn

\* The step changes the element places x and y of client c only.
OnlyAt(c, x, y) ==
  /\ x # <<"cached", c>> /\ y # <<"cached", c>> => cached'[c] = cached[c]
  /\ x # <<"waiting", c>> /\ y # <<"waiting", c>> => waiting'[c] = waiting[c]
  /\ x # <<"free", c>> /\ y # <<"free", c>> => free'[c] = free[c]
  /\ x # <<"thread", c>> /\ y # <<"thread", c>> =>
       thread'[c].at = thread[c].at /\ thread'[c].elem = thread[c].elem
  /\ \A l \in Layers(c) : x # <<"layer", l>> /\ y # <<"layer", l>> => layer'[l] = layer[l]

\* An element that moves from one place to another leaves the other places as they are.
LEMMA OnlyMoved ==
  ASSUME NEW c \in Client, config' = config, NEW x, NEW y, OnlyAt(c, x, y),
         NEW z \in ElemPlace(c), z # x, z # y
  PROVE  Elements(c)'[z] = Elements(c)[z]
<1>1. CASE z = <<"cached", c>>
  <2>1. cached'[c] = cached[c]
    BY Zenon, <1>1 DEF OnlyAt
  <2> QED
    BY Zenon, <1>1, <2>1, ElemContent
<1>2. CASE z = <<"waiting", c>>
  <2>1. waiting'[c] = waiting[c]
    BY Zenon, <1>2 DEF OnlyAt
  <2> QED
    BY Zenon, <1>2, <2>1, ElemContent
<1>3. CASE z = <<"free", c>>
  <2>1. free'[c] = free[c]
    BY Zenon, <1>3 DEF OnlyAt
  <2> QED
    BY Zenon, <1>3, <2>1, ElemContent
<1>4. CASE z = <<"thread", c>>
  <2>1. thread'[c].at = thread[c].at /\ thread'[c].elem = thread[c].elem
    BY Zenon, <1>4 DEF OnlyAt
  <2> QED
    BY Zenon, <1>4, <2>1, ElemContent
<1>5. ASSUME NEW l \in Layers(c), z = <<"layer", l>> PROVE Elements(c)'[z] = Elements(c)[z]
  <2>1. layer'[l] = layer[l] /\ (Holding(l)' <=> Holding(l))
    BY Zenon, <1>5 DEF OnlyAt, Holding
  <2> QED
    BY Zenon, <1>5, <2>1, LayerElem
<1> QED
  BY Zenon, <1>1, <1>2, <1>3, <1>4, <1>5, ElemPlaceCases

\* What the element lemmas use of the invariant.
ElemInv(c) == TypeOK /\ Kinds(c) /\ ElementsKept(c)

\* add_data takes a free element.
LEMMA PopFreeElem ==
  ASSUME NEW c \in Client, ElemInv(c), PopFree(c)
  PROVE  ElementsKept(c)'
<1>1. TypeOK /\ ElementsKept(c) /\ config' = config
  BY Zenon DEF ElemInv, PopFree
<1>2. PICK q \in Seq(Nat), e \in {Head(free[c])} : q = free[c] /\ q # <<>> /\ e = Head(q) /\ Distinct(q)
  BY Zenon, <1>1 DEF TypeOK, ElementsKept, PopFree
<1>3. /\ e \in Elems(q) /\ Elems(Tail(q)) = Elems(q) \ {e} /\ Distinct(Tail(q))
  BY Zenon, <1>2, TailFacts
<1>4. /\ free'[c] = Tail(q) /\ thread[c].at = "pop" /\ thread'[c].at = "fill" /\ thread'[c].elem = e
      /\ data' = data /\ cached' = cached /\ waiting' = waiting /\ layer' = layer
  BY Zenon, <1>1, <1>2 DEF TypeOK, PopFree
<1>5. OnlyAt(c, <<"free", c>>, <<"thread", c>>)
  BY Zenon, <1>4 DEF OnlyAt
<1>6. /\ Elements(c)[<<"free", c>>] = Elems(q) /\ Elements(c)'[<<"free", c>>] = Elems(q) \ {e}
      /\ Elements(c)[<<"thread", c>>] = {} /\ Elements(c)'[<<"thread", c>>] = {e}
      /\ <<"free", c>> \in ElemPlace(c) /\ <<"thread", c>> \in ElemPlace(c)
      /\ DOMAIN Elements(c) = ElemPlace(c) /\ DOMAIN Elements(c)' = ElemPlace(c)
  BY Zenon, <1>1, <1>2, <1>3, <1>4, ElemContent
<1>7. \A z \in ElemPlace(c) \ {<<"free", c>>, <<"thread", c>>} : Elements(c)'[z] = Elements(c)[z]
  BY Zenon, <1>1, <1>5, OnlyMoved
<1>8. Moved(Elements(c), Elements(c)', <<"free", c>>, <<"thread", c>>, e)
  BY Zenon, <1>3, <1>6, <1>7 DEF Moved
<1>9. EachIn(Elements(c), Len(data[c]))'
  BY Zenon, <1>1, <1>4, <1>8, ElementMoved DEF TypeOK
<1> QED
  BY Zenon, <1>1, <1>3, <1>4, <1>9 DEF ElementsKept

\* It pushes it on the cached queue.
LEMMA FillElem ==
  ASSUME NEW c \in Client, ElemInv(c), Fill(c)
  PROVE  ElementsKept(c)'
<1>1. TypeOK /\ ElementsKept(c) /\ config' = config
  BY Zenon DEF ElemInv, Fill
<1>2. PICK q \in Seq(Nat), e \in Nat : q = cached[c] /\ e = thread[c].elem
  BY Zenon, <1>1 DEF TypeOK
<1>3. /\ cached'[c] = Append(q, e) /\ thread[c].at = "fill" /\ thread'[c].at = "poll"
      /\ waiting' = waiting /\ free' = free /\ layer' = layer
  BY Zenon, <1>1, <1>2 DEF TypeOK, Fill
<1>4. e \notin Elems(q) /\ Distinct(q)
  BY Zenon, <1>1, <1>2, <1>3, FilledApart DEF ElementsKept
<1>5. Elems(Append(q, e)) = Elems(q) \cup {e} /\ Distinct(Append(q, e))
  BY Zenon, <1>4, AppendFacts
<1>6. OnlyAt(c, <<"thread", c>>, <<"cached", c>>)
  BY Zenon, <1>3 DEF OnlyAt
<1>7. /\ Elements(c)[<<"thread", c>>] = {e} /\ Elements(c)'[<<"thread", c>>] = {}
      /\ Elements(c)[<<"cached", c>>] = Elems(q) /\ Elements(c)'[<<"cached", c>>] = Elems(q) \cup {e}
      /\ <<"thread", c>> \in ElemPlace(c) /\ <<"cached", c>> \in ElemPlace(c)
      /\ DOMAIN Elements(c) = ElemPlace(c) /\ DOMAIN Elements(c)' = ElemPlace(c)
  BY Zenon, <1>1, <1>2, <1>3, <1>5, ElemContent
<1>8. \A z \in ElemPlace(c) \ {<<"thread", c>>, <<"cached", c>>} : Elements(c)'[z] = Elements(c)[z]
  BY Zenon, <1>1, <1>6, OnlyMoved
<1>9. Moved(Elements(c), Elements(c)', <<"thread", c>>, <<"cached", c>>, e)
  BY Zenon, <1>7, <1>8 DEF Moved
<1>10. Len(data'[c]) = Len(data[c]) /\ data[c] \in Seq(Nat)
  <2>1. data'[c] = [data[c] EXCEPT ![e] = thread[c].msg] /\ e \in 1..Len(data[c])
        /\ data[c] \in Seq(Nat) /\ thread[c].msg \in Nat
    BY Zenon, <1>1, <1>2, <1>3, ElementsThere DEF TypeOK, Fill
  <2> QED
    BY <2>1
<1>11. EachIn(Elements(c), Len(data[c]))'
  BY Zenon, <1>1, <1>9, <1>10, ElementMoved
<1> QED
  BY Zenon, <1>1, <1>3, <1>5, <1>11 DEF ElementsKept

\* get of an unshared cache takes a waiting element.
LEMMA BeginElem ==
  ASSUME NEW c \in Client, NEW l \in Layers(c), ElemInv(c), Begin(l, c), Unshared(c)
  PROVE  ElementsKept(c)'
<1>1. TypeOK /\ ElementsKept(c) /\ config' = config /\ l \in Layer
  BY Zenon, LayersAre DEF ElemInv, Begin
<1>2. PICK q \in Seq(Nat), e \in {Head(waiting[c])} : q = waiting[c] /\ q # <<>> /\ e = Head(q) /\ Distinct(q)
  BY Zenon, <1>1 DEF TypeOK, ElementsKept, Begin
<1>3. /\ e \in Elems(q) /\ Elems(Tail(q)) = Elems(q) \ {e} /\ Distinct(Tail(q))
  BY Zenon, <1>2, TailFacts
<1>4. /\ waiting'[c] = Tail(q) /\ layer[l].at = "idle"
      /\ layer'[l] = [at |-> "hand", elem |-> e]
      /\ \A k \in Layers(c) : k # l => layer'[k] = layer[k]
      /\ data' = data /\ cached' = cached /\ free' = free /\ thread' = thread
  BY Zenon, <1>1, <1>2, LayersAre DEF TypeOK, Begin
<1>5. ~Holding(l) /\ Holding(l)' /\ layer'[l].elem = e
  BY <1>4 DEF Holding
<1>6. OnlyAt(c, <<"waiting", c>>, <<"layer", l>>)
  BY Zenon, <1>4 DEF OnlyAt
<1>7. /\ Elements(c)[<<"waiting", c>>] = Elems(q) /\ Elements(c)'[<<"waiting", c>>] = Elems(q) \ {e}
      /\ <<"waiting", c>> \in ElemPlace(c)
      /\ DOMAIN Elements(c) = ElemPlace(c) /\ DOMAIN Elements(c)' = ElemPlace(c)
  BY Zenon, <1>1, <1>2, <1>3, <1>4, ElemContent
<1>8. /\ Elements(c)[<<"layer", l>>] = {} /\ Elements(c)'[<<"layer", l>>] = {e}
      /\ <<"layer", l>> \in ElemPlace(c) /\ <<"waiting", c>> # <<"layer", l>>
  BY Zenon, <1>1, <1>5, LayerElem
<1>9. \A z \in ElemPlace(c) \ {<<"waiting", c>>, <<"layer", l>>} : Elements(c)'[z] = Elements(c)[z]
  BY Zenon, <1>1, <1>6, OnlyMoved
<1>10. Moved(Elements(c), Elements(c)', <<"waiting", c>>, <<"layer", l>>, e)
  BY Zenon, <1>3, <1>7, <1>8, <1>9 DEF Moved
<1>11. EachIn(Elements(c), Len(data[c]))'
  BY Zenon, <1>1, <1>4, <1>10, ElementMoved DEF TypeOK
<1> QED
  BY Zenon, <1>1, <1>3, <1>4, <1>11 DEF ElementsKept

\* get takes a cached element.
LEMMA PopCachedElem ==
  ASSUME NEW c \in Client, NEW l \in Layers(c), ElemInv(c), PopCached(l, c)
  PROVE  ElementsKept(c)'
<1>1. TypeOK /\ ElementsKept(c) /\ config' = config /\ l \in Layer
  BY Zenon, LayersAre DEF ElemInv, PopCached
<1>2. PICK q \in Seq(Nat), e \in {Head(cached[c])} : q = cached[c] /\ q # <<>> /\ e = Head(q) /\ Distinct(q)
  BY Zenon, <1>1 DEF TypeOK, ElementsKept, PopCached
<1>3. /\ e \in Elems(q) /\ Elems(Tail(q)) = Elems(q) \ {e} /\ Distinct(Tail(q))
  BY Zenon, <1>2, TailFacts
<1>4. /\ cached'[c] = Tail(q) /\ layer[l].at = "get"
      /\ layer'[l] = [at |-> "copy", elem |-> e]
      /\ \A k \in Layers(c) : k # l => layer'[k] = layer[k]
      /\ data' = data /\ waiting' = waiting /\ free' = free /\ thread' = thread
  BY Zenon, <1>1, <1>2, LayersAre DEF TypeOK, PopCached
<1>5. ~Holding(l) /\ Holding(l)' /\ layer'[l].elem = e
  BY <1>4 DEF Holding
<1>6. OnlyAt(c, <<"cached", c>>, <<"layer", l>>)
  BY Zenon, <1>4 DEF OnlyAt
<1>7. /\ Elements(c)[<<"cached", c>>] = Elems(q) /\ Elements(c)'[<<"cached", c>>] = Elems(q) \ {e}
      /\ <<"cached", c>> \in ElemPlace(c)
      /\ DOMAIN Elements(c) = ElemPlace(c) /\ DOMAIN Elements(c)' = ElemPlace(c)
  BY Zenon, <1>1, <1>2, <1>3, <1>4, ElemContent
<1>8. /\ Elements(c)[<<"layer", l>>] = {} /\ Elements(c)'[<<"layer", l>>] = {e}
      /\ <<"layer", l>> \in ElemPlace(c) /\ <<"cached", c>> # <<"layer", l>>
  BY Zenon, <1>1, <1>5, LayerElem
<1>9. \A z \in ElemPlace(c) \ {<<"cached", c>>, <<"layer", l>>} : Elements(c)'[z] = Elements(c)[z]
  BY Zenon, <1>1, <1>6, OnlyMoved
<1>10. Moved(Elements(c), Elements(c)', <<"cached", c>>, <<"layer", l>>, e)
  BY Zenon, <1>3, <1>7, <1>8, <1>9 DEF Moved
<1>11. EachIn(Elements(c), Len(data[c]))'
  BY Zenon, <1>1, <1>4, <1>10, ElementMoved DEF TypeOK
<1> QED
  BY Zenon, <1>1, <1>3, <1>4, <1>11 DEF ElementsKept

\* A layer that holds an element pushes it on the queue of free elements or on the queue of
\* waiting ones.
GivesBack(c, l, x) ==
  /\ Holding(l) /\ ~Holding(l)' /\ \A k \in Layers(c) : k # l => layer'[k] = layer[k]
  /\ \/ /\ x = <<"free", c>> /\ free'[c] = Append(free[c], layer[l].elem)
        /\ waiting'[c] = waiting[c]
     \/ /\ x = <<"waiting", c>> /\ waiting'[c] = Append(waiting[c], layer[l].elem)
        /\ free'[c] = free[c]
  /\ config' = config /\ data'[c] = data[c] /\ cached'[c] = cached[c] /\ thread'[c] = thread[c]

\* A layer that gives its element back puts it at the end of a queue (add_data_to_free,
\* add_data_to_waiting_for_layer).
LEMMA GiveBackElem ==
  ASSUME NEW c \in Client, NEW l \in Layers(c), ElemInv(c), NEW x, GivesBack(c, l, x)
  PROVE  ElementsKept(c)'
<1>1. TypeOK /\ ElementsKept(c) /\ config' = config /\ l \in Layer
  BY Zenon, LayersAre DEF ElemInv, GivesBack
<1>2. PICK e \in Nat : e = layer[l].elem
  BY Zenon, <1>1 DEF TypeOK
<1>3. /\ Elements(c)[<<"layer", l>>] = {e} /\ Elements(c)'[<<"layer", l>>] = {}
      /\ <<"layer", l>> \in ElemPlace(c)
  BY Zenon, <1>1, <1>2, LayerElem DEF GivesBack
<1>4. /\ <<"free", c>> \in ElemPlace(c) /\ <<"waiting", c>> \in ElemPlace(c)
      /\ DOMAIN Elements(c) = ElemPlace(c) /\ DOMAIN Elements(c)' = ElemPlace(c)
      /\ Elements(c)[<<"free", c>>] = Elems(free[c])
      /\ Elements(c)[<<"waiting", c>>] = Elems(waiting[c])
      /\ Elements(c)'[<<"free", c>>] = Elems(free'[c])
      /\ Elements(c)'[<<"waiting", c>>] = Elems(waiting'[c])
  BY Zenon, <1>1, ElemContent
<1>5. EachIn(Elements(c), Len(data[c]))
  BY Zenon, <1>1 DEF ElementsKept
<1>6. e \notin Elems(free[c]) /\ e \notin Elems(waiting[c])
  <2>1. <<"layer", l>> # <<"free", c>> /\ <<"layer", l>> # <<"waiting", c>>
    BY Zenon
  <2>2. PICK f, n : f = Elements(c) /\ n = Len(data[c])
    BY Zenon
  <2>3. /\ EachIn(f, n) /\ <<"layer", l>> \in DOMAIN f /\ <<"free", c>> \in DOMAIN f
        /\ <<"waiting", c>> \in DOMAIN f /\ e \in f[<<"layer", l>>]
    BY Zenon, <2>2, <1>3, <1>4, <1>5
  <2>4. e \notin f[<<"free", c>>] /\ e \notin f[<<"waiting", c>>]
    BY Zenon, <2>1, <2>3, Apart
  <2> QED
    BY Zenon, <2>2, <2>4, <1>4
<1>7. free[c] \in Seq(Nat) /\ waiting[c] \in Seq(Nat) /\ data[c] \in Seq(Nat)
  BY Zenon, <1>1 DEF TypeOK
<1>8. x \in {<<"free", c>>, <<"waiting", c>>} /\ x # <<"layer", l>>
  BY DEF GivesBack
<1>9. OnlyAt(c, <<"layer", l>>, x)
  BY Zenon DEF OnlyAt, GivesBack
<1>10. \A z \in ElemPlace(c) \ {<<"layer", l>>, x} : Elements(c)'[z] = Elements(c)[z]
  BY Zenon, <1>1, <1>9, OnlyMoved
<1>11. Elements(c)'[x] = Elements(c)[x] \cup {e}
  BY ZenonT(60), <1>2, <1>4, <1>7, AppendFacts DEF GivesBack
<1>12. Moved(Elements(c), Elements(c)', <<"layer", l>>, x, e)
  BY Zenon, <1>3, <1>4, <1>8, <1>10, <1>11 DEF Moved
<1>13. EachIn(Elements(c), Len(data[c]))'
  BY Zenon, <1>1, <1>7, <1>12, ElementMoved DEF GivesBack
<1>14. Distinct(cached'[c]) /\ Distinct(free'[c]) /\ Distinct(waiting'[c])
  BY Zenon, <1>1, <1>2, <1>6, <1>7, AppendFacts DEF ElementsKept, GivesBack
<1> QED
  BY Zenon, <1>13, <1>14 DEF ElementsKept

\* Whenever a layer gives an element back, it is one of these.
LEMMA GivesBackWhen ==
  ASSUME NEW c \in Client, NEW l \in Layers(c), TypeOK, HandOver(l, c) \/ CopyOut(l, c)
  PROVE  \E x : GivesBack(c, l, x)
<1>1. l \in Layer /\ Layers(c) \subseteq Layer
  BY Zenon, LayersAre
<1>2. CASE HandOver(l, c)
  <2>1. GivesBack(c, l, <<"free", c>>)
    BY Zenon, <1>1, <1>2 DEF HandOver, GivesBack, Holding, TypeOK
  <2> QED
    BY Zenon, <2>1
<1>3. CASE CopyOut(l, c)
  <2>1. CASE Unshared(c)
    <3>1. GivesBack(c, l, <<"waiting", c>>)
      BY <1>1, <1>3, <2>1 DEF CopyOut, GivesBack, Holding, TypeOK
    <3> QED
      BY Zenon, <3>1
  <2>2. CASE ~Unshared(c)
    <3>1. GivesBack(c, l, <<"free", c>>)
      BY <1>1, <1>3, <2>2 DEF CopyOut, GivesBack, Holding, TypeOK
    <3> QED
      BY Zenon, <3>1
  <2> QED
    BY Zenon, <2>1, <2>2
<1> QED
  BY Zenon, <1>2, <1>3

\* New elements are put into one place.
LEMMA AddedOnce ==
  ASSUME NEW f, NEW g, NEW n \in Nat, NEW m \in Nat, NEW x \in DOMAIN f, EachIn(f, n),
         DOMAIN g = DOMAIN f, g[x] = f[x] \cup ((n + 1)..(n + m)),
         \A z \in DOMAIN f : z # x => g[z] = f[z]
  PROVE  EachIn(g, n + m)
<1>1. \A z \in DOMAIN f : f[z] \subseteq 1..n
  BY Zenon DEF EachIn
<1>2. \A b \in 1..n : b \in 1..(n + m) /\ b \notin (n + 1)..(n + m)
  OBVIOUS
<1>3. \A b \in (n + 1)..(n + m) : b \in 1..(n + m) /\ b \notin 1..n
  OBVIOUS
<1>4. \A b \in 1..(n + m) : b \in 1..n \/ b \in (n + 1)..(n + m)
  OBVIOUS
<1>5. \A z \in DOMAIN g : g[z] \subseteq 1..(n + m)
  BY Zenon, <1>1, <1>2, <1>3
<1>6. ASSUME NEW b \in 1..n PROVE \E z \in DOMAIN g : \A u \in DOMAIN g : b \in g[u] <=> u = z
  <2>1. PICK z \in DOMAIN f : \A u \in DOMAIN f : b \in f[u] <=> u = z
    BY Zenon DEF EachIn
  <2>2. \A u \in DOMAIN f : b \in g[u] <=> b \in f[u]
    BY Zenon, <1>2
  <2> QED
    BY <2>1, <2>2
<1>7. ASSUME NEW b \in (n + 1)..(n + m)
      PROVE  \E z \in DOMAIN g : \A u \in DOMAIN g : b \in g[u] <=> u = z
  <2>1. \A u \in DOMAIN g : b \in g[u] <=> u = x
    BY Zenon, <1>1, <1>3
  <2> QED
    BY <2>1
<1> QED
  BY Zenon, <1>4, <1>5, <1>6, <1>7 DEF EachIn

\* A queue to which new elements are added.
LEMMA ConcatNew ==
  ASSUME NEW q \in Seq(Nat), NEW s \in Seq(Nat), NEW n \in Nat, Elems(q) \subseteq 1..n,
         \A i \in DOMAIN s : s[i] = n + i
  PROVE  /\ q \o s \in Seq(Nat) /\ Len(q \o s) = Len(q) + Len(s)
         /\ Elems(q \o s) = Elems(q) \cup ((n + 1)..(n + Len(s)))
         /\ Distinct(q) => Distinct(q \o s)
<1>1. PICK k \in Nat, m \in Nat : k = Len(q) /\ DOMAIN q = 1..k /\ m = Len(s) /\ DOMAIN s = 1..m
  BY Zenon, SeqFacts
<1>2. PICK r \in Seq(Nat) : r = q \o s
  <2>1. q \o s \in Seq(Nat)
    OBVIOUS
  <2> QED
    BY Zenon, <2>1
<1>3. Len(r) = k + m /\ \A i \in 1..(k + m) : r[i] = IF i <= k THEN q[i] ELSE s[i - k]
  BY <1>1, <1>2
<1>4. DOMAIN r = 1..(k + m)
  BY Zenon, <1>3, SeqFacts
<1>5. \A i \in 1..k : i \in 1..(k + m) /\ r[i] = q[i] /\ q[i] \in Elems(q) /\ q[i] \in 1..n
  BY <1>1, <1>3, SeqFacts
<1>6. ASSUME NEW i \in (k + 1)..(k + m) PROVE r[i] = n + (i - k) /\ i - k \in 1..m
  <2>1. i - k \in 1..m /\ ~(i <= k) /\ i \in 1..(k + m)
    OBVIOUS
  <2> QED
    BY Zenon, <2>1, <1>1, <1>3
<1>7. \A i \in 1..(k + m) : i \in 1..k \/ i \in (k + 1)..(k + m)
  OBVIOUS
<1>8. Elems(r) = Elems(q) \cup ((n + 1)..(n + m))
  <2>1. ASSUME NEW i \in 1..(k + m) PROVE r[i] \in Elems(q) \cup ((n + 1)..(n + m))
    <3>1. CASE i \in 1..k
      BY Zenon, <3>1, <1>5
    <3>2. CASE i \in (k + 1)..(k + m)
      BY <3>2, <1>6
    <3> QED
      BY Zenon, <3>1, <3>2, <1>7
  <2>2. ASSUME NEW i \in 1..k PROVE q[i] \in Elems(r)
    <3>1. i \in DOMAIN r /\ r[i] = q[i]
      BY Zenon, <1>4, <1>5
    <3> QED
      BY Zenon, <3>1 DEF Elems
  <2>3. ASSUME NEW e \in (n + 1)..(n + m) PROVE e \in Elems(r)
    <3>1. k + (e - n) \in (k + 1)..(k + m) /\ n + ((k + (e - n)) - k) = e
      OBVIOUS
    <3>2. k + (e - n) \in DOMAIN r /\ r[k + (e - n)] = e
      BY <3>1, <1>4, <1>6
    <3> QED
      BY Zenon, <3>2 DEF Elems
  <2>4. \A e \in Elems(r) : e \in Elems(q) \cup ((n + 1)..(n + m))
    BY Zenon, <2>1, <1>4 DEF Elems
  <2>5. \A e \in Elems(q) : e \in Elems(r)
    BY Zenon, <2>2, <1>1 DEF Elems
  <2> QED
    BY Zenon, <2>3, <2>4, <2>5
<1>9. ASSUME Distinct(q) PROVE Distinct(r)
  <2> SUFFICES ASSUME NEW i \in 1..(k + m), NEW j \in 1..(k + m), r[i] = r[j] PROVE i = j
    BY Zenon, <1>4 DEF Distinct
  <2>1. CASE i \in 1..k /\ j \in 1..k
    BY Zenon, <2>1, <1>1, <1>5, <1>9 DEF Distinct
  <2>2. CASE i \in 1..k /\ j \in (k + 1)..(k + m)
    BY <2>2, <1>5, <1>6
  <2>3. CASE i \in (k + 1)..(k + m) /\ j \in 1..k
    <3>1. r[i] = n + (i - k) /\ i - k \in 1..m /\ r[j] \in 1..n
      BY Zenon, <2>3, <1>5, <1>6
    <3> QED
      BY <3>1
  <2>4. CASE i \in (k + 1)..(k + m) /\ j \in (k + 1)..(k + m)
    BY <2>4, <1>6
  <2> QED
    BY Zenon, <2>1, <2>2, <2>3, <2>4, <1>7
<1> QED
  BY Zenon, <1>1, <1>2, <1>3, <1>8, <1>9

\* create_cache puts new elements into one of the queues.
LEMMA CreateElem ==
  ASSUME NEW c \in Client, ElemInv(c), CreateIfNone(c), thread[c].sum = 0
  PROVE  ElementsKept(c)'
<1>1. TypeOK /\ ElementsKept(c) /\ config' = config /\ create_cache(c)
  BY Zenon DEF ElemInv, CreateIfNone
<1>2. PICK s \in Seq(Nat), m \in Nat : s = NewIds(c) /\ m = Len(s) /\ DOMAIN s = 1..m
  BY Zenon, <1>1, CreateFacts
<1>3. PICK n \in Nat : n = Len(data[c])
  BY Zenon, <1>1, SeqFacts DEF TypeOK
<1>4. (\A i \in DOMAIN s : s[i] = n + i) /\ Len(data'[c]) = n + m
  BY Zenon, <1>1, <1>2, <1>3, CreateFacts
<1>5. /\ thread[c].at = "create" /\ thread'[c].at = "pop" /\ cached' = cached /\ layer' = layer
  BY Zenon, <1>1 DEF TypeOK, CreateIfNone
<1>6. /\ waiting[c] \in Seq(Nat) /\ free[c] \in Seq(Nat)
      /\ Elems(waiting[c]) \subseteq 1..n /\ Elems(free[c]) \subseteq 1..n
      /\ Distinct(waiting[c]) /\ Distinct(free[c]) /\ Distinct(cached[c])
  BY Zenon, <1>1, <1>3, ElementsThere DEF TypeOK, ElementsKept
<1>7. /\ waiting'[c] = IF Unshared(c) THEN waiting[c] \o s ELSE waiting[c]
      /\ free'[c] = IF Unshared(c) THEN free[c] ELSE free[c] \o s
  BY Zenon, <1>1, <1>2 DEF create_cache, TypeOK
<1>8. /\ Elems(waiting'[c]) = IF Unshared(c) THEN Elems(waiting[c]) \cup ((n + 1)..(n + m))
                                             ELSE Elems(waiting[c])
      /\ Elems(free'[c]) = IF Unshared(c) THEN Elems(free[c])
                                          ELSE Elems(free[c]) \cup ((n + 1)..(n + m))
      /\ Distinct(waiting'[c]) /\ Distinct(free'[c])
  <2>1. CASE Unshared(c)
    <3>1. waiting'[c] = waiting[c] \o s /\ free'[c] = free[c]
      BY Zenon, <2>1, <1>7
    <3>2. PICK q \in Seq(Nat) : q = waiting[c] /\ Elems(q) \subseteq 1..n /\ Distinct(q)
      BY Zenon, <1>6
    <3>3. Elems(q \o s) = Elems(q) \cup ((n + 1)..(n + Len(s))) /\ Distinct(q \o s)
      BY Zenon, <3>2, <1>4, ConcatNew
    <3> QED
      BY Zenon, <2>1, <3>1, <3>2, <3>3, <1>2, <1>6
  <2>2. CASE ~Unshared(c)
    <3>1. free'[c] = free[c] \o s /\ waiting'[c] = waiting[c]
      BY Zenon, <2>2, <1>7
    <3>2. PICK q \in Seq(Nat) : q = free[c] /\ Elems(q) \subseteq 1..n /\ Distinct(q)
      BY Zenon, <1>6
    <3>3. Elems(q \o s) = Elems(q) \cup ((n + 1)..(n + Len(s))) /\ Distinct(q \o s)
      BY Zenon, <3>2, <1>4, ConcatNew
    <3> QED
      BY Zenon, <2>2, <3>1, <3>2, <3>3, <1>2, <1>6
  <2> QED
    BY Zenon, <2>1, <2>2
<1>9. PICK x : x = IF Unshared(c) THEN <<"waiting", c>> ELSE <<"free", c>>
  BY Zenon
<1>10. PICK f, g : f = Elements(c) /\ g = Elements(c)'
  BY Zenon
<1>11. /\ x \in DOMAIN f /\ DOMAIN g = DOMAIN f /\ DOMAIN f = ElemPlace(c) /\ EachIn(f, n)
       /\ g[x] = f[x] \cup ((n + 1)..(n + m))
  BY Zenon, <1>1, <1>3, <1>8, <1>9, <1>10, ElemContent DEF ElementsKept
<1>12. ASSUME NEW z \in DOMAIN f, z # x PROVE g[z] = f[z]
  <2>1. z = <<"thread", c>> => g[z] = f[z]
    BY Zenon, <1>1, <1>5, <1>10, ElemContent
  <2>2. OnlyAt(c, x, <<"thread", c>>)
    BY Zenon, <1>5, <1>7, <1>9 DEF OnlyAt
  <2> QED
    BY Zenon, <2>1, <2>2, <1>1, <1>10, <1>11, <1>12, OnlyMoved
<1>13. EachIn(g, n + m)
  BY Zenon, <1>11, <1>12, AddedOnce
<1>14. EachIn(Elements(c), Len(data[c]))' = EachIn(Elements(c)', Len(data'[c]))
  BY Zenon DEF EachIn
<1> QED
  BY Zenon, <1>4, <1>5, <1>6, <1>8, <1>10, <1>13, <1>14 DEF ElementsKept

------------------------------------------------------------------------------
(* What a step leaves alone                                                *)

\* A step of client c, of its reader thread or of one of its layers, and the server's
\* answer to it, change nothing of the other clients.
LEMMA OthersSame ==
  ASSUME TypeOK, NEW c \in Client, NEW d \in Client, d # c,
         Serve(c) \/ Reader(c) \/ \E l \in Layers(c) : Get(l, c)
  PROVE  SameFor(d)
<1>1. config' = config
  BY Zenon DEF Serve, Reader, Start, received, Sizes, Size, CreateIfNone, PopFree, Fill, CopyItems,
         Publish, Get, Begin, HandOver, PopCached, CopyOut, Draw
<1>2. replies'[d] = replies[d]
  BY Zenon DEF TypeOK, Serve, Reader, Start, received, Sizes, Size, CreateIfNone, PopFree, Fill, CopyItems,
         Publish, Get, Begin, HandOver, PopCached, CopyOut, Draw, net
<1>3. thread'[d] = thread[d]
  BY Zenon DEF TypeOK, Serve, Reader, Start, received, Sizes, Size, CreateIfNone, PopFree, Fill, CopyItems,
         Publish, Get, Begin, HandOver, PopCached, CopyOut, Draw, net
<1>4. data'[d] = data[d] /\ cached'[d] = cached[d]
  BY Zenon DEF TypeOK, Serve, Reader, Start, received, Sizes, Size, CreateIfNone, create_cache, PopFree,
         Fill, CopyItems, Publish, Get, Begin, HandOver, PopCached, CopyOut, Draw, net, queues
<1>5. waiting'[d] = waiting[d] /\ free'[d] = free[d]
  BY Zenon DEF TypeOK, Serve, Reader, Start, received, Sizes, Size, CreateIfNone, create_cache, PopFree,
         Fill, CopyItems, Publish, Get, Begin, HandOver, PopCached, CopyOut, Draw, net, queues
<1>6. slots'[d] = slots[d] /\ read_all'[d] = read_all[d]
  BY Zenon DEF TypeOK, Serve, Reader, Start, received, Sizes, Size, CreateIfNone, PopFree, Fill, CopyItems,
         Publish, Get, Begin, HandOver, PopCached, CopyOut, Draw, net, queues
<1>7. ASSUME NEW k \in Layers(d) PROVE layer'[k] = layer[k] /\ got'[k] = got[k]
  <2>1. k \in Layer
    BY Zenon, LayersAre
  <2>2. CASE \E l \in Layers(c) : Get(l, c)
    <3>1. PICK l \in Layers(c) : Get(l, c)
      BY Zenon, <2>2
    <3>2. l # k /\ l \in Layer
      BY Zenon, OneOwner, LayersAre
    <3>3. layer \in [Layer -> [at : {"idle", "hand", "get", "copy"}, elem : Nat]]
          /\ got \in [Layer -> Seq(Nat)]
      BY Zenon DEF TypeOK
    <3> QED
      BY Zenon, <3>1, <3>2, <3>3, <2>1 DEF Get, Begin, HandOver, PopCached, CopyOut, Draw
  <2>3. CASE Serve(c) \/ Reader(c)
    BY Zenon, <2>3 DEF Serve, Reader, Start, received, Sizes, Size, CreateIfNone, PopFree, Fill, CopyItems,
                Publish
  <2> QED
    BY Zenon, <2>2, <2>3
<1> QED
  BY Zenon, <1>1, <1>2, <1>3, <1>4, <1>5, <1>6, <1>7 DEF SameFor

\* The steps that leave the elements of their client where they are.
LEMMA QuietElem ==
  ASSUME NEW c \in Client, ElemInv(c),
         \/ Serve(c) \/ Start(c) \/ received(c) \/ Sizes(c) \/ CopyItems(c) \/ Publish(c)
         \/ CreateIfNone(c) /\ thread[c].sum # 0
         \/ \E l \in Layers(c) : Draw(l, c)
  PROVE  ElementsKept(c)'
<1>1. TypeOK /\ ElementsKept(c)
  BY Zenon DEF ElemInv
<1>2. /\ config' = config /\ cached' = cached /\ waiting' = waiting /\ free' = free
      /\ data' = data /\ layer' = layer
  BY Zenon DEF Serve, Start, received, Sizes, Size, CopyItems, Publish, CreateIfNone, Draw, net, queues
<1>3. thread \in [Client -> [at : Step, sum : Nat, msg : Nat, elem : Nat]]
  BY Zenon, <1>1 DEF TypeOK
<1>4. (thread'[c].at = "fill" <=> thread[c].at = "fill")
      /\ (thread[c].at = "fill" => thread'[c].elem = thread[c].elem)
  <2>1. CASE Serve(c) \/ \E l \in Layers(c) : Draw(l, c)
    BY Zenon, <2>1 DEF Serve, Draw
  <2>2. CASE Start(c) \/ CopyItems(c) \/ Publish(c) \/ CreateIfNone(c)
    BY Zenon, <2>2, <1>3 DEF Start, CopyItems, Publish, CreateIfNone
  <2>3. CASE received(c) \/ Sizes(c)
    BY ZenonT(60), <2>3, <1>3 DEF received, Sizes, Size
  <2> QED
    BY Zenon, <2>1, <2>2, <2>3
<1> QED
  BY Zenon, <1>1, <1>2, <1>4, ElementsStay

\* Begin of a shared cache takes no element yet.
LEMMA BeginShared ==
  ASSUME NEW c \in Client, NEW l \in Layers(c), ElemInv(c), Begin(l, c), ~Unshared(c)
  PROVE  ElementsKept(c)'
<1>1. TypeOK /\ ElementsKept(c) /\ config' = config /\ l \in Layer /\ Layers(c) \subseteq Layer
  BY Zenon, LayersAre DEF ElemInv, Begin
<1>2. /\ layer[l].at = "idle" /\ layer'[l].at = "get"
      /\ \A k \in Layers(c) : k # l => layer'[k] = layer[k]
      /\ data' = data /\ cached' = cached /\ waiting' = waiting /\ free' = free /\ thread' = thread
  BY Zenon, <1>1 DEF TypeOK, Begin
<1>3. ~Holding(l) /\ ~Holding(l)'
  BY Zenon, <1>2 DEF Holding
<1>4. OnlyAt(c, <<"layer", l>>, <<"layer", l>>)
  BY Zenon, <1>2 DEF OnlyAt
<1>5. \A z \in ElemPlace(c) : Elements(c)'[z] = Elements(c)[z]
  <2>1. Elements(c)'[<<"layer", l>>] = {} /\ Elements(c)[<<"layer", l>>] = {}
    BY Zenon, <1>1, <1>3, LayerElem
  <2>2. \A z \in ElemPlace(c) : z # <<"layer", l>> => Elements(c)'[z] = Elements(c)[z]
    BY <1>1, <1>4, OnlyMoved
  <2> QED
    BY Zenon, <2>1, <2>2
<1>6. DOMAIN Elements(c) = ElemPlace(c) /\ DOMAIN Elements(c)' = ElemPlace(c)
  BY Zenon, <1>1, ElemContent
<1>7. EachIn(Elements(c), Len(data[c]))'
  <2>1. PICK f, g, n : f = Elements(c) /\ g = Elements(c)' /\ n = Len(data[c])
    BY Zenon
  <2>2. EachIn(f, n) /\ DOMAIN g = DOMAIN f /\ \A z \in DOMAIN f : g[z] = f[z]
    BY Zenon, <2>1, <1>1, <1>5, <1>6 DEF ElementsKept
  <2>3. EachIn(g, n)
    BY <2>2 DEF EachIn
  <2>4. EachIn(Elements(c), Len(data[c]))' = EachIn(Elements(c)', Len(data'[c]))
    BY Zenon DEF EachIn
  <2> QED
    BY Zenon, <2>1, <2>3, <2>4, <1>2
<1> QED
  BY Zenon, <1>1, <1>2, <1>7 DEF ElementsKept

\* Every step keeps each element of each client in one place.
LEMMA ElementsStep ==
  ASSUME TypeOK, \A c \in Client : Kinds(c) /\ ElementsKept(c), [Next]_vars
  PROVE  \A c \in Client : ElementsKept(c)'
<1>1. CASE UNCHANGED vars
  BY Zenon, <1>1, ElementsStay DEF vars, queues
<1>2. ASSUME NEW c \in Client, Serve(c) \/ Reader(c) \/ \E l \in Layers(c) : Get(l, c),
             NEW d \in Client
      PROVE  ElementsKept(d)'
  <2>1. CASE d # c
    <3>1. SameFor(d)
      BY Zenon, <1>2, <2>1, OthersSame
    <3> QED
      BY Zenon, <3>1, ElementsStay DEF SameFor
  <2>2. ElemInv(c)
    BY Zenon DEF ElemInv
  <2>3. CASE Serve(c) \/ Reader(c)
    BY Zenon, <2>1, <2>2, <2>3, QuietElem, CreateElem, PopFreeElem, FillElem DEF Reader
  <2>4. ASSUME NEW l \in Layers(c), Get(l, c) PROVE ElementsKept(c)'
    BY Zenon, <2>2, <2>4, BeginElem, BeginShared, PopCachedElem, GivesBackWhen, GiveBackElem, QuietElem
       DEF Get
  <2> QED
    BY Zenon, <1>2, <2>1, <2>3, <2>4
<1> QED
  BY Zenon, <1>1, <1>2 DEF Next

------------------------------------------------------------------------------
(* Types and kinds of cache                                                *)

ThreadType == [at : Step, sum : Nat, msg : Nat, elem : Nat]
LayerType == [at : {"idle", "hand", "get", "copy"}, elem : Nat]

\* The steps of the reader thread keep the types.
LEMMA ReaderType ==
  ASSUME TypeOK, NEW c \in Client, ElementsKept(c), Serve(c) \/ Reader(c)
  PROVE  TypeOK'
<1>1. /\ thread \in [Client -> ThreadType] /\ requests \in [Client -> Nat]
      /\ replies[c] \in Seq(Nat) /\ free[c] \in Seq(Nat) /\ cached[c] \in Seq(Nat)
      /\ waiting[c] \in Seq(Nat) /\ slots[c] \in Seq(Nat) /\ data[c] \in Seq(Nat)
      /\ served \in Nat /\ thread[c] \in ThreadType
  BY Zenon DEF TypeOK, ThreadType
<1>. send_req(c) => requests' \in [Client -> Nat]
  BY <1>1 DEF send_req
<1>2. CASE Serve(c)
  <2>1. Append(replies[c], served + 1) \in Seq(Nat) /\ served + 1 \in Nat /\ requests[c] - 1 \in Nat
    BY <1>1, <1>2 DEF Serve
  <2> QED
    BY Zenon, <2>1, <1>2 DEF TypeOK, Serve, queues
<1>3. CASE Start(c)
  <2>1. thread' \in [Client -> ThreadType] /\ requests' \in [Client -> Nat]
    BY Zenon, <1>1, <1>3 DEF Start, ThreadType, Step
  <2> QED
    BY Zenon, <2>1, <1>3 DEF TypeOK, Start, queues, ThreadType
<1>4. CASE received(c)
  <2>1. Head(replies[c]) \in Nat /\ Tail(replies[c]) \in Seq(Nat)
    BY Zenon, <1>1, <1>4, TailFacts DEF received
  <2>2. thread' \in [Client -> ThreadType]
    BY Zenon, <2>1, <1>1, <1>4 DEF received, ThreadType, Step, InHand
  <2> QED
    BY Zenon, <2>1, <2>2, <1>4 DEF TypeOK, received, queues, ThreadType
<1>5. CASE Sizes(c)
  <2>1. PICK n \in Nat, at \in {"free", "waiting", "create"} :
          thread' = [thread EXCEPT ![c].sum = n, ![c].at = at]
    <3>1. Len(cached[c]) \in Nat /\ Len(free[c]) \in Nat /\ Len(waiting[c]) \in Nat
      BY Zenon, <1>1, SeqFacts
    <3>2. thread[c].sum \in Nat
      BY Zenon, <1>1 DEF ThreadType
    <3>3. CASE Size(c, "cached", cached, "free")
      <4>1. thread' = [thread EXCEPT ![c].sum = thread[c].sum + Len(cached[c]), ![c].at = "free"]
        BY Zenon, <3>3, <1>1 DEF Size
      <4>2. thread[c].sum + Len(cached[c]) \in Nat
        BY <3>1, <3>2
      <4> QED
        BY Zenon, <4>1, <4>2
    <3>4. CASE Size(c, "free", free, "waiting")
      <4>1. thread' = [thread EXCEPT ![c].sum = thread[c].sum + Len(free[c]), ![c].at = "waiting"]
        BY Zenon, <3>4, <1>1 DEF Size
      <4>2. thread[c].sum + Len(free[c]) \in Nat
        BY <3>1, <3>2
      <4> QED
        BY Zenon, <4>1, <4>2
    <3>5. CASE Size(c, "waiting", waiting, "create")
      <4>1. thread' = [thread EXCEPT ![c].sum = thread[c].sum + Len(waiting[c]), ![c].at = "create"]
        BY Zenon, <3>5, <1>1 DEF Size
      <4>2. thread[c].sum + Len(waiting[c]) \in Nat
        BY <3>1, <3>2
      <4> QED
        BY Zenon, <4>1, <4>2
    <3> QED
      BY Zenon, <3>3, <3>4, <3>5, <1>5 DEF Sizes
  <2>2. thread' \in [Client -> ThreadType]
    BY Zenon, <2>1, <1>1 DEF ThreadType, Step, InHand
  <2> QED
    BY Zenon, <2>2, <1>5 DEF TypeOK, Sizes, Size, net, queues, ThreadType
<1>6. CASE CreateIfNone(c)
  <2>1. thread' \in [Client -> ThreadType]
    BY Zenon, <1>1, <1>6 DEF CreateIfNone, ThreadType, Step, InHand
  <2>2. CASE thread[c].sum = 0
    <3>1. create_cache(c)
      BY Zenon, <1>6, <2>2 DEF CreateIfNone
    <3>2. PICK s \in Seq(Nat) : s = NewIds(c)
      BY Zenon, <3>1, CreateFacts
    <3>3. waiting[c] \o s \in Seq(Nat) /\ free[c] \o s \in Seq(Nat)
      BY <1>1
    <3>4. waiting' \in [Client -> Seq(Nat)] /\ free' \in [Client -> Seq(Nat)]
      BY Zenon, <3>1, <3>2, <3>3 DEF create_cache, TypeOK
    <3>5. data' \in [Client -> Seq(Nat)]
      <4>1. data'[c] \in Seq(Nat) /\ \A d \in Client : d # c => data'[d] = data[d]
        BY Zenon, <3>1, CreateFacts
      <4>2. data' = [data EXCEPT ![c] = data'[c]]
        BY Zenon, <3>1 DEF create_cache, TypeOK
      <4> QED
        BY Zenon, <4>1, <4>2 DEF TypeOK
    <3> QED
      BY Zenon, <2>1, <3>4, <3>5, <1>6 DEF TypeOK, CreateIfNone, net, ThreadType
  <2>3. CASE thread[c].sum # 0
    BY Zenon, <2>1, <2>3, <1>6 DEF TypeOK, CreateIfNone, net, ThreadType
  <2> QED
    BY Zenon, <2>2, <2>3
<1>7. CASE PopFree(c)
  <2>1. Head(free[c]) \in Nat /\ Tail(free[c]) \in Seq(Nat)
    BY Zenon, <1>1, <1>7, TailFacts DEF PopFree
  <2>2. thread' \in [Client -> ThreadType]
    BY Zenon, <2>1, <1>1, <1>7 DEF PopFree, ThreadType, Step, InHand
  <2> QED
    BY Zenon, <2>1, <2>2, <1>7 DEF TypeOK, PopFree, net, ThreadType
<1>8. CASE Fill(c)
  <2>1. thread[c].elem \in 1..Len(data[c]) /\ thread[c].msg \in Nat /\ thread[c].elem \in Nat
    BY Zenon, <1>1, <1>8, ElementsThere DEF Fill, ThreadType
  <2>2. [data[c] EXCEPT ![thread[c].elem] = thread[c].msg] \in Seq(Nat)
    BY <2>1, <1>1
  <2>3. Append(cached[c], thread[c].elem) \in Seq(Nat)
    BY <2>1, <1>1
  <2>4. thread' \in [Client -> ThreadType] /\ requests' \in [Client -> Nat]
    BY Zenon, <1>1, <1>8 DEF Fill, ThreadType, Step
  <2> QED
    BY Zenon, <2>2, <2>3, <2>4, <1>8 DEF TypeOK, Fill, ThreadType
<1>9. CASE CopyItems(c)
  <2>1. Append(slots[c], thread[c].msg) \in Seq(Nat)
    BY <1>1 DEF ThreadType
  <2>2. thread' \in [Client -> ThreadType]
    BY Zenon, <1>1, <1>9 DEF CopyItems, ThreadType, Step
  <2> QED
    BY Zenon, <2>1, <2>2, <1>9 DEF TypeOK, CopyItems, net, queues, ThreadType
<1>10. CASE Publish(c)
  <2>1. thread' \in [Client -> ThreadType]
    <3>1. PICK at \in {"finished", "poll"} : thread' = [thread EXCEPT ![c].at = at]
      BY Zenon, <1>10 DEF Publish
    <3> QED
      BY Zenon, <3>1, <1>1 DEF ThreadType, Step
  <2>2. requests' \in [Client -> Nat]
    BY Zenon, <1>1, <1>10 DEF Publish
  <2>3. read_all' \in [Client -> BOOLEAN]
    BY Zenon, <1>10 DEF Publish, TypeOK, CacheFull
  <2> QED
    BY Zenon, <2>1, <2>3, <2>2, <1>10 DEF TypeOK, Publish, queues, ThreadType
<1> QED
  BY Zenon, <1>2, <1>3, <1>4, <1>5, <1>6, <1>7, <1>8, <1>9, <1>10 DEF Reader

\* So do those of a layer.
LEMMA GetType ==
  ASSUME TypeOK, NEW c \in Client, ElementsKept(c), NEW l \in Layers(c), Get(l, c)
  PROVE  TypeOK'
<1>1. /\ layer \in [Layer -> LayerType] /\ l \in Layer /\ layer[l] \in LayerType
      /\ free[c] \in Seq(Nat) /\ cached[c] \in Seq(Nat) /\ waiting[c] \in Seq(Nat)
      /\ data[c] \in Seq(Nat) /\ got[l] \in Seq(Nat) /\ slots[c] \in Seq(Nat)
  BY Zenon, LayersAre DEF TypeOK, LayerType
<1>2. CASE Begin(l, c)
  <2>1. CASE Unshared(c)
    <3>1. Head(waiting[c]) \in Nat /\ Tail(waiting[c]) \in Seq(Nat)
      BY Zenon, <1>1, <1>2, <2>1, TailFacts DEF Begin
    <3>2. PICK e \in Nat : layer' = [layer EXCEPT ![l] = [at |-> "hand", elem |-> e]]
      BY Zenon, <3>1, <1>2, <2>1 DEF Begin
    <3>3. [at |-> "hand", elem |-> e] \in LayerType
      BY Zenon DEF LayerType
    <3>4. layer' \in [Layer -> LayerType]
      BY Zenon, <3>2, <3>3, <1>1
    <3>5. waiting' = [waiting EXCEPT ![c] = Tail(@)]
      BY Zenon, <1>2, <2>1 DEF Begin
    <3>6. waiting' \in [Client -> Seq(Nat)]
      BY Zenon, <3>1, <3>5 DEF TypeOK
    <3> QED
      BY Zenon, <3>4, <3>6, <1>2 DEF TypeOK, Begin, net, LayerType
  <2>2. CASE ~Unshared(c)
    <3>1. layer' \in [Layer -> LayerType]
      BY ZenonT(60), <1>1, <1>2, <2>2 DEF Begin, LayerType
    <3> QED
      BY Zenon, <3>1, <1>2, <2>2 DEF TypeOK, Begin, net, LayerType
  <2> QED
    BY Zenon, <2>1, <2>2
<1>3. CASE HandOver(l, c)
  <2>1. Append(free[c], layer[l].elem) \in Seq(Nat)
    BY <1>1 DEF LayerType
  <2>2. layer' \in [Layer -> LayerType]
    BY Zenon, <1>1, <1>3 DEF HandOver, LayerType
  <2> QED
    BY Zenon, <2>1, <2>2, <1>3 DEF TypeOK, HandOver, net, LayerType
<1>4. CASE PopCached(l, c)
  <2>1. Head(cached[c]) \in Nat /\ Tail(cached[c]) \in Seq(Nat)
    BY Zenon, <1>1, <1>4, TailFacts DEF PopCached
  <2>2. layer' \in [Layer -> LayerType]
    BY Zenon, <2>1, <1>1, <1>4 DEF PopCached, LayerType
  <2> QED
    BY Zenon, <2>1, <2>2, <1>4 DEF TypeOK, PopCached, net, LayerType
<1>5. CASE CopyOut(l, c)
  <2>1. /\ Append(free[c], layer[l].elem) \in Seq(Nat)
        /\ Append(waiting[c], layer[l].elem) \in Seq(Nat)
    BY <1>1 DEF LayerType
  <2>2. layer[l].elem \in 1..Len(data[c])
    BY Zenon, <1>5, ElementsThere DEF CopyOut, Holding
  <2>3. data[c][layer[l].elem] \in Nat
    BY <2>2, <1>1
  <2>4. Append(got[l], data[c][layer[l].elem]) \in Seq(Nat)
    BY <2>3, <1>1
  <2>5. layer' \in [Layer -> LayerType]
    BY Zenon, <1>1, <1>5 DEF CopyOut, LayerType
  <2>6. got' \in [Layer -> Seq(Nat)]
    BY Zenon, <2>4, <1>5 DEF CopyOut, TypeOK
  <2>7. free' \in [Client -> Seq(Nat)] /\ waiting' \in [Client -> Seq(Nat)]
    BY Zenon, <2>1, <1>5 DEF CopyOut, TypeOK
  <2> QED
    BY Zenon, <2>5, <2>6, <2>7, <1>5 DEF TypeOK, CopyOut, net, LayerType
<1>6. CASE Draw(l, c)
  <2>1. PICK i \in 1..config[c].cache_size : got' = [got EXCEPT ![l] = Append(@, Drawn(c, i))]
    BY Zenon, <1>6 DEF Draw
  <2>2. Drawn(c, i) \in Nat
    BY Zenon, <1>1, SeqFacts DEF Drawn
  <2>3. Append(got[l], Drawn(c, i)) \in Seq(Nat)
    BY <2>2, <1>1
  <2>4. got' \in [Layer -> Seq(Nat)]
    BY Zenon, <2>1, <2>3 DEF TypeOK
  <2> QED
    BY Zenon, <2>4, <1>6 DEF TypeOK, Draw, net, queues
<1> QED
  BY Zenon, <1>2, <1>3, <1>4, <1>5, <1>6 DEF Get

\* What a client does not see changed stays as it is.
LEMMA KindsSame ==
  ASSUME NEW c \in Client, SameFor(c), Kinds(c)
  PROVE  Kinds(c)'
BY DEF SameFor, Kinds, Pull, Unshared, Layers, Elems, InHand

\* The reader thread keeps to the steps of its kind of cache.
LEMMA ReaderKinds ==
  ASSUME TypeOK, NEW c \in Client, Kinds(c), EachIn(Content, served), Serve(c) \/ Reader(c)
  PROVE  Kinds(c)'
<1>1. thread[c] \in ThreadType /\ thread \in [Client -> ThreadType]
  BY Zenon DEF TypeOK, ThreadType
<1>2. config' = config /\ layer' = layer /\ got' = got
  BY Zenon DEF Serve, Reader, Start, received, Sizes, Size, CreateIfNone, PopFree, Fill, CopyItems, Publish
<1>3. Pull(c)' = Pull(c) /\ Unshared(c)' = Unshared(c) /\ Layers(c)' = Layers(c)
  BY Zenon, <1>2 DEF Pull, Unshared, Layers
<1>4. /\ \A l \in Layers(c) : ~Pull(c) => layer'[l].at = "idle" /\ 0 \notin Elems(got'[l])
      /\ \A l \in Layers(c) : layer'[l].at = "hand" => Unshared(c)
  BY Zenon, <1>2 DEF Kinds
<1>5. ~Unshared(c) => waiting'[c] = <<>>
  BY Zenon DEF Kinds, TypeOK, Serve, Reader, Start, received, Sizes, Size, CreateIfNone, create_cache,
         PopFree, Fill, CopyItems, Publish, queues
<1>6. /\ thread'[c].msg # 0 <=> thread'[c].at \in InHand
      /\ thread'[c].at \in {"cached", "free", "waiting", "create", "pop", "fill"} => Pull(c)
      /\ thread'[c].at \in {"copy", "publish", "finished"} => ~Pull(c)
  <2>1. CASE Serve(c)
    BY Zenon, <2>1 DEF Kinds, Serve
  <2>2. CASE Start(c)
    BY <2>2, <1>1 DEF Kinds, Start, InHand
  <2>3. CASE received(c)
    <3>1. Head(replies[c]) # 0
      <4>1. Head(replies[c]) \in Elems(replies[c])
        BY Zenon, <2>3, TailFacts DEF received, TypeOK
      <4>2. <<"reply", c>> \in DOMAIN Content /\ Content[<<"reply", c>>] = Elems(replies[c])
        BY Zenon, ClientContent
      <4> QED
        BY <4>1, <4>2 DEF EachIn
    <3>2. thread'[c].msg = Head(replies[c]) /\ thread'[c].at = IF Pull(c) THEN "cached" ELSE "copy"
      BY <2>3, <1>1 DEF received
    <3> QED
      BY Zenon, <3>1, <3>2 DEF InHand
  <2>4. CASE Sizes(c)
    <3>1. PICK at \in {"free", "waiting", "create"} :
            thread'[c].at = at /\ thread'[c].msg = thread[c].msg
      <4>1. CASE Size(c, "cached", cached, "free")
        BY <4>1, <1>1 DEF Size
      <4>2. CASE Size(c, "free", free, "waiting")
        BY <4>2, <1>1 DEF Size
      <4>3. CASE Size(c, "waiting", waiting, "create")
        BY <4>3, <1>1 DEF Size
      <4> QED
        BY Zenon, <4>1, <4>2, <4>3, <2>4 DEF Sizes
    <3>2. thread[c].at \in {"cached", "free", "waiting"}
      BY Zenon, <2>4 DEF Sizes, Size
    <3> QED
      BY Zenon, <3>1, <3>2 DEF Kinds, InHand
  <2>5. CASE CreateIfNone(c)
    BY <2>5, <1>1 DEF Kinds, CreateIfNone, InHand
  <2>6. CASE PopFree(c)
    BY <2>6, <1>1 DEF Kinds, PopFree, InHand
  <2>7. CASE Fill(c)
    BY <2>7, <1>1 DEF Kinds, Fill, InHand
  <2>8. CASE CopyItems(c)
    BY <2>8, <1>1 DEF Kinds, CopyItems, InHand
  <2>9. CASE Publish(c)
    <3>1. PICK at \in {"finished", "poll"} : thread' = [thread EXCEPT ![c].at = at]
      BY Zenon, <2>9 DEF Publish
    <3> QED
      BY <3>1, <2>9, <1>1 DEF Kinds, Publish, InHand
  <2> QED
    BY Zenon, <2>1, <2>2, <2>3, <2>4, <2>5, <2>6, <2>7, <2>8, <2>9 DEF Reader
<1>7. read_all'[c] => thread'[c].at = "finished" /\ Len(slots'[c]) = config[c].cache_size
  <2>1. CASE Publish(c)
    <3>1. read_all'[c] = CacheFull(c) /\ slots' = slots
      BY Zenon, <2>1 DEF Publish, TypeOK
    <3>2. CacheFull(c) => thread'[c].at = "finished"
      <4>1. CacheFull(c) => thread' = [thread EXCEPT ![c].at = "finished"]
        BY Zenon, <2>1 DEF Publish
      <4> QED
        BY Zenon, <4>1, <1>1 DEF ThreadType
    <3> QED
      BY Zenon, <3>1, <3>2 DEF CacheFull
  <2>2. CASE Serve(c)
    BY Zenon, <2>2 DEF Serve, Kinds
  <2>3. CASE Reader(c) /\ ~Publish(c)
    <3>1. read_all'[c] = read_all[c] /\ thread[c].at # "finished"
      BY Zenon, <2>3 DEF Reader, Start, received, Sizes, Size, CreateIfNone, PopFree, Fill, CopyItems
    <3> QED
      BY Zenon, <3>1 DEF Kinds
  <2> QED
    BY Zenon, <2>1, <2>2, <2>3
<1> QED
  BY Zenon, <1>2, <1>3, <1>4, <1>5, <1>6, <1>7 DEF Kinds

\* So do the layers.
LEMMA GetKinds ==
  ASSUME TypeOK, NEW c \in Client, Kinds(c), EachIn(Content, served), NEW l \in Layers(c), Get(l, c)
  PROVE  Kinds(c)'
<1>1. layer \in [Layer -> LayerType] /\ l \in Layer /\ Layers(c) \subseteq Layer
      /\ got[l] \in Seq(Nat) /\ got \in [Layer -> Seq(Nat)]
  BY Zenon, LayersAre DEF TypeOK, LayerType
<1>2. config' = config /\ thread' = thread /\ read_all' = read_all /\ slots' = slots
  BY Zenon DEF Get, Begin, HandOver, PopCached, CopyOut, Draw
<1>3. Pull(c)' = Pull(c) /\ Unshared(c)' = Unshared(c) /\ Layers(c)' = Layers(c)
  BY Zenon, <1>2 DEF Pull, Unshared, Layers
<1>4. ~Unshared(c) => waiting'[c] = <<>>
  BY Zenon DEF Get, Begin, HandOver, PopCached, CopyOut, Draw, Kinds, queues
<1>5. ASSUME NEW k \in Layers(c), layer'[k].at = "hand" PROVE Unshared(c)
  <2>1. layer[k].at = "hand" => Unshared(c)
    BY Zenon DEF Kinds
  <2>2. CASE Begin(l, c)
    <3>1. ~Unshared(c) => layer' = [layer EXCEPT ![l].at = "get"]
      BY Zenon, <2>2 DEF Begin
    <3>2. ~Unshared(c) => layer'[k].at = "get" \/ layer'[k] = layer[k]
      BY Zenon, <3>1, <1>1 DEF LayerType
    <3> QED
      BY Zenon, <2>1, <3>2, <1>5
  <2>3. CASE HandOver(l, c)
    BY Zenon, <2>1, <2>3, <1>1, <1>5 DEF HandOver
  <2>4. CASE PopCached(l, c)
    BY Zenon, <2>1, <2>4, <1>1, <1>5 DEF PopCached
  <2>5. CASE CopyOut(l, c)
    BY <2>1, <2>5, <1>1, <1>5 DEF CopyOut
  <2>6. CASE Draw(l, c)
    BY Zenon, <2>1, <2>6, <1>5 DEF Draw
  <2> QED
    BY Zenon, <2>2, <2>3, <2>4, <2>5, <2>6 DEF Get
<1>6. ASSUME ~Pull(c), NEW k \in Layers(c)
      PROVE  layer'[k].at = "idle" /\ 0 \notin Elems(got'[k])
  <2>1. Draw(l, c)
    BY Zenon, <1>6 DEF Get, Begin, HandOver, PopCached, CopyOut, Kinds
  <2>2. PICK i \in 1..config[c].cache_size : got' = [got EXCEPT ![l] = Append(@, Drawn(c, i))]
    BY Zenon, <2>1 DEF Draw
  <2>3. slots[c] \in Seq(Nat) /\ Len(slots[c]) = config[c].cache_size
    BY Zenon, <2>1 DEF Draw, Kinds, TypeOK
  <2>4. i \in DOMAIN slots[c]
    BY Zenon, <2>3, SeqFacts
  <2>5. Drawn(c, i) = slots[c][i] /\ slots[c][i] \in Elems(slots[c])
    BY Zenon, <2>4 DEF Drawn, Elems
  <2>6. Drawn(c, i) \in 1..served
    <3>1. <<"slot", c>> \in DOMAIN Content /\ Content[<<"slot", c>>] = Elems(slots[c])
      BY Zenon, ClientContent
    <3> QED
      BY Zenon, <2>5, <3>1 DEF EachIn
  <2>7. Drawn(c, i) \in Nat /\ Drawn(c, i) # 0
    BY <2>6
  <2>8. Elems(Append(got[l], Drawn(c, i))) = Elems(got[l]) \cup {Drawn(c, i)}
    BY Zenon, <2>7, <1>1, AppendFacts
  <2>9. layer' = layer /\ layer[k].at = "idle" /\ 0 \notin Elems(got[k])
    BY Zenon, <2>1, <1>6 DEF Draw, Kinds
  <2>10. CASE k = l
    BY Zenon, <2>2, <2>7, <2>8, <2>9, <2>10, <1>1
  <2>11. CASE k # l
    BY Zenon, <2>2, <2>9, <2>11, <1>1
  <2> QED
    BY Zenon, <2>10, <2>11
<1> QED
  BY Zenon, <1>2, <1>3, <1>4, <1>5, <1>6 DEF Kinds

------------------------------------------------------------------------------
(* Order within a place                                                    *)

\* A step of another client leaves the order of this one's batches.
LEMMA SortedSame ==
  ASSUME NEW c \in Client, SameFor(c), Sorted(c)
  PROVE  Sorted(c)'
BY Zenon DEF SameFor, Sorted, Pull, Layers, Rising, RisingBy

\* What each step adds to a sequence of batches is younger than what is there.
LEMMA ReaderSorted ==
  ASSUME BatchInv, NEW c \in Client, Serve(c) \/ Reader(c)
  PROVE  Sorted(c)'
<1>1. /\ TypeOK /\ Kinds(c) /\ ElementsKept(c) /\ Sorted(c) /\ EachIn(Content, served) /\ InLine
      /\ replies[c] \in Seq(Nat) /\ cached[c] \in Seq(Nat) /\ slots[c] \in Seq(Nat)
      /\ data[c] \in Seq(Nat) /\ thread[c] \in ThreadType
  BY Zenon DEF BatchInv, TypeOK, ThreadType
<1>2. /\ config' = config /\ got' = got /\ (Pull(c)' <=> Pull(c)) /\ Layers(c)' = Layers(c)
  BY Zenon DEF Serve, Reader, Start, received, Sizes, Size, CreateIfNone, PopFree, Fill, CopyItems, Publish,
         Pull, Layers
<1>3. \A l \in Layers(c) : Pull(c) => Rising(got'[l])
  BY Zenon, <1>1, <1>2 DEF Sorted
<1>4. Rising(replies'[c])
  <2>1. CASE Serve(c)
    <3>1. replies'[c] = Append(replies[c], served + 1) /\ served \in Nat
      BY Zenon, <2>1, <1>1 DEF Serve, TypeOK
    <3>2. Elems(replies[c]) \subseteq 1..served
      <4>1. <<"reply", c>> \in DOMAIN Content /\ Content[<<"reply", c>>] = Elems(replies[c])
        BY Zenon, ClientContent
      <4> QED
        BY Zenon, <4>1, <1>1 DEF EachIn
    <3>3. \A e \in Elems(replies[c]) : e < served + 1
      BY <3>1, <3>2
    <3>4. served + 1 \in Nat /\ Rising(replies[c])
      BY <3>1, <1>1 DEF Sorted
    <3> QED
      BY Zenon, <3>1, <3>3, <3>4, <1>1, AppendFacts
  <2>2. CASE received(c)
    <3>1. replies'[c] = Tail(replies[c]) /\ replies[c] # <<>>
      BY Zenon, <2>2, <1>1 DEF received, TypeOK
    <3> QED
      BY <3>1, <1>1, TailFacts DEF Sorted
  <2>3. CASE ~Serve(c) /\ ~received(c)
    <3>1. replies' = replies
      BY Zenon, <2>3 DEF Reader, Start, Sizes, Size, CreateIfNone, PopFree, Fill, CopyItems, Publish, net
    <3> QED
      BY Zenon, <3>1, <1>1 DEF Sorted
  <2> QED
    BY Zenon, <2>1, <2>2, <2>3
<1>5. Rising(slots'[c])
  <2>1. CASE CopyItems(c)
    <3>1. slots'[c] = Append(slots[c], thread[c].msg) /\ thread[c].msg \in Nat /\ thread[c].msg # 0
      BY Zenon, <2>1, <1>1 DEF CopyItems, TypeOK, ThreadType, Kinds, InHand
    <3>2. Less(Elems(slots[c]), {thread[c].msg})
      <4>1. After(<<"slot", c>>, <<"thread", c>>)
        BY Zenon DEF After
      <4>2. Less(Content[<<"slot", c>>], Content[<<"thread", c>>])
        BY Zenon, <4>1, <1>1, ClientContent DEF InLine
      <4>3. {thread[c].msg} \ {0} = {thread[c].msg}
        BY Zenon, <3>1
      <4> QED
        BY Zenon, <4>2, <4>3, ClientContent
    <3> QED
      BY Zenon, <3>1, <3>2, <1>1, AppendFacts DEF Less, Sorted
  <2>2. CASE ~CopyItems(c)
    <3>1. slots' = slots
      BY Zenon, <2>2 DEF Serve, Reader, Start, received, Sizes, Size, CreateIfNone, PopFree, Fill, Publish
    <3> QED
      BY Zenon, <3>1, <1>1 DEF Sorted
  <2> QED
    BY Zenon, <2>1, <2>2
<1>6. RisingBy(data'[c], cached'[c])
  <2>1. Elems(cached[c]) \subseteq 1..Len(data[c]) /\ RisingBy(data[c], cached[c])
    BY Zenon, <1>1, ElementsThere DEF Sorted
  <2>2. CASE Fill(c)
    <3>1. /\ thread[c].elem \in 1..Len(data[c]) /\ thread[c].elem \notin Elems(cached[c])
          /\ thread[c].msg \in Nat /\ thread[c].msg # 0
      BY Zenon, <2>2, <1>1, ElementsThere, FilledApart DEF Fill, Kinds, InHand, ThreadType
    <3>2. Less(Contents(data[c], cached[c]), {thread[c].msg})
      <4>1. After(<<"cached", c>>, <<"thread", c>>)
        BY Zenon DEF After
      <4>2. Less(Content[<<"cached", c>>], Content[<<"thread", c>>])
        BY Zenon, <4>1, <1>1, ClientContent DEF InLine
      <4>3. {thread[c].msg} \ {0} = {thread[c].msg}
        BY Zenon, <3>1
      <4> QED
        BY Zenon, <4>2, <4>3, ClientContent
    <3>3. /\ data'[c] = [data[c] EXCEPT ![thread[c].elem] = thread[c].msg]
          /\ cached'[c] = Append(cached[c], thread[c].elem)
      BY Zenon, <2>2, <1>1 DEF Fill, TypeOK
    <3>4. Filled(data[c], cached[c], thread[c].elem, thread[c].msg, data'[c], cached'[c])
      BY Zenon, <2>1, <3>1, <3>2, <3>3, <1>1 DEF Filled, Less
    <3> QED
      BY Zenon, <3>4, FillFacts
  <2>3. CASE CreateIfNone(c) /\ thread[c].sum = 0
    <3>1. cached' = cached /\ \A e \in 1..Len(data[c]) : data'[c][e] = data[c][e]
      BY Zenon, <2>3, <1>1, CreateFacts DEF CreateIfNone
    <3>2. \A i \in DOMAIN cached[c] : cached[c][i] \in Elems(cached[c])
      BY Zenon DEF Elems
    <3> QED
      BY Zenon, <2>1, <3>1, <3>2 DEF RisingBy
  <2>4. CASE ~Fill(c) /\ ~(CreateIfNone(c) /\ thread[c].sum = 0)
    <3>1. data' = data /\ cached' = cached
      BY Zenon, <2>4 DEF Serve, Reader, Start, received, Sizes, Size, CreateIfNone, PopFree, CopyItems,
                  Publish, queues
    <3> QED
      BY Zenon, <2>1, <3>1
  <2> QED
    BY Zenon, <2>2, <2>3, <2>4
<1> QED
  BY Zenon, <1>2, <1>3, <1>4, <1>5, <1>6 DEF Sorted

\* The batches a layer takes are younger than those it has taken.
LEMMA GetSorted ==
  ASSUME BatchInv, NEW c \in Client, NEW l \in Layers(c), Get(l, c)
  PROVE  Sorted(c)'
<1>1. /\ TypeOK /\ Kinds(c) /\ ElementsKept(c) /\ Sorted(c) /\ InLine
      /\ cached[c] \in Seq(Nat) /\ data[c] \in Seq(Nat) /\ l \in Layer
      /\ got \in [Layer -> Seq(Nat)] /\ got[l] \in Seq(Nat) /\ Layers(c) \subseteq Layer
  BY Zenon, LayersAre DEF BatchInv, TypeOK
<1>2. /\ config' = config /\ replies' = replies /\ slots' = slots /\ data' = data
      /\ (Pull(c)' <=> Pull(c)) /\ Layers(c)' = Layers(c)
  BY Zenon DEF Get, Begin, HandOver, PopCached, CopyOut, Draw, Pull, Layers, net
<1>3. Rising(replies'[c]) /\ Rising(slots'[c])
  BY Zenon, <1>1, <1>2 DEF Sorted
<1>4. RisingBy(data'[c], cached'[c])
  <2>1. CASE PopCached(l, c)
    <3>1. cached'[c] = Tail(cached[c]) /\ cached[c] # <<>>
      BY Zenon, <2>1, <1>1 DEF PopCached, TypeOK
    <3>2. PICK d \in Seq(Nat), q \in Seq(Nat) : d = data[c] /\ q = cached[c]
      BY Zenon, <1>1
    <3>3. Elems(q) \subseteq 1..Len(d) /\ q # <<>> /\ RisingBy(d, q) /\ Distinct(q)
      BY Zenon, <3>1, <3>2, <1>1, ElementsThere DEF Sorted, ElementsKept
    <3>4. RisingBy(d, Tail(q))
      BY Zenon, <3>3, PopFacts
    <3> QED
      BY Zenon, <3>1, <3>2, <3>4, <1>2
  <2>2. CASE ~PopCached(l, c)
    <3>1. cached' = cached
      BY Zenon, <2>2 DEF Get, Begin, HandOver, CopyOut, Draw, queues
    <3> QED
      BY Zenon, <3>1, <1>1, <1>2 DEF Sorted
  <2> QED
    BY Zenon, <2>1, <2>2
<1>5. ASSUME NEW k \in Layers(c), Pull(c) PROVE Rising(got'[k])
  <2>1. CASE CopyOut(l, c) /\ k = l
    <3>1. PICK b : b = data[c][layer[l].elem]
      BY Zenon
    <3>2. layer[l].at = "copy" /\ layer[l].elem \in 1..Len(data[c])
      BY Zenon, <2>1, <1>1, ElementsThere DEF CopyOut, Holding
    <3>3. b \in Nat
      BY SMTT(30), <3>1, <3>2, <1>1
    <3>4. Held(l) = {b} /\ Used(l) = Elems(got[l])
      BY Zenon, <3>1, <3>2, <1>1, <1>5, OwnedBy
    <3>5. Less(Elems(got[l]), {b})
      <4>1. After(<<"used", l>>, <<"held", l>>)
        BY Zenon DEF After
      <4>2. Less(Content[<<"used", l>>], Content[<<"held", l>>])
        BY Zenon, <4>1, <1>1, LayerContent DEF InLine
      <4> QED
        BY Zenon, <4>2, <3>4, <1>1, LayerContent
    <3>6. got'[l] = Append(got[l], b)
      BY Zenon, <2>1, <3>1, <1>1 DEF CopyOut
    <3> QED
      BY Zenon, <2>1, <3>3, <3>5, <3>6, <1>1, <1>5, AppendFacts DEF Less, Sorted
  <2>2. CASE ~(CopyOut(l, c) /\ k = l)
    <3>1. got'[k] = got[k]
      BY Zenon, <2>2, <1>1, <1>5 DEF Get, Begin, HandOver, PopCached, CopyOut, Draw
    <3> QED
      BY Zenon, <3>1, <1>1, <1>5 DEF Sorted
  <2> QED
    BY Zenon, <2>1, <2>2
<1> QED
  BY Zenon, <1>2, <1>3, <1>4, <1>5 DEF Sorted


------------------------------------------------------------------------------
(* The invariant                                                           *)

\* The numbers from 1 to m, as the elements of a new cache.
LEMMA FirstIds ==
  ASSUME NEW m \in Nat, NEW q, q = [i \in 1..m |-> i]
  PROVE  q \in Seq(Nat) /\ Len(q) = m /\ Elems(q) = 1..m /\ Distinct(q)
<1>1. q \in Seq(Nat) /\ Len(q) = m
  OBVIOUS
<1>2. DOMAIN q = 1..m /\ \A i \in 1..m : q[i] = i
  BY Zenon
<1> QED
  BY Zenon, <1>1, <1>2 DEF Elems, Distinct

\* The empty queue.
LEMMA EmptyQueue ==
  ASSUME NEW q, q = <<>>
  PROVE  /\ q \in Seq(Nat) /\ Len(q) = 0 /\ Elems(q) = {} /\ Distinct(q) /\ Rising(q)
         /\ \A d : RisingBy(d, q) /\ Contents(d, q) = {}
BY DEF Elems, Distinct, Rising, RisingBy, Contents

\* How many elements create_cache makes depends on the parameters only.
NewCount(c) == IF Unshared(c) THEN 1 ELSE config[c].cache_size

\* The constructors make their elements waiting or free.
LEMMA InitElements ==
  ASSUME Init, NEW c \in Client
  PROVE  /\ \E m \in Nat : /\ Len(data[c]) = m /\ data[c] \in Seq(Nat) /\ m <= NewCount(c)
                           /\ Unshared(c) => waiting[c] = [i \in 1..m |-> i] /\ free[c] = <<>>
                           /\ ~Unshared(c) => waiting[c] = <<>> /\ free[c] = [i \in 1..m |-> i]
         /\ NewCount(c) \in Nat /\ Layers(c) \subseteq Layer
<1>1. config[c] \in [policy : {"PULL_CONTINOUSLY", "USE_CACHE_WHEN_FULL"},
                     cache_size : Nat, shape : BOOLEAN, layers : SUBSET Layer]
  BY Zenon, RemoteAssumption DEF Init
<1>2. PICK m \in Nat : m = Made(config, c)
  BY Zenon, <1>1 DEF Made
<1>3. NewCount(c) \in Nat /\ m <= NewCount(c)
  BY <1>1, <1>2 DEF NewCount, Made, Unshared
<1>4. [i \in 1..m |-> 0] \in Seq(Nat) /\ Len([i \in 1..m |-> 0]) = m
  OBVIOUS
<1>5. data[c] = [i \in 1..m |-> 0]
  BY Zenon, <1>2 DEF Init
<1>6. /\ Unshared(c) => waiting[c] = [i \in 1..m |-> i] /\ free[c] = <<>>
      /\ ~Unshared(c) => waiting[c] = <<>> /\ free[c] = [i \in 1..m |-> i]
  BY Zenon, <1>2 DEF Init
<1> QED
  BY Zenon, <1>1, <1>3, <1>4, <1>5, <1>6 DEF Layers

\* Every element the constructors make is in the one queue or the other.
LEMMA InitQueues ==
  ASSUME Init, NEW c \in Client
  PROVE  /\ waiting[c] \in Seq(Nat) /\ free[c] \in Seq(Nat) /\ data[c] \in Seq(Nat)
         /\ Distinct(waiting[c]) /\ Distinct(free[c])
         /\ Elems(waiting[c]) = IF Unshared(c) THEN 1..Len(data[c]) ELSE {}
         /\ Elems(free[c]) = IF Unshared(c) THEN {} ELSE 1..Len(data[c])
         /\ Len(data[c]) = Len(waiting[c]) + Len(free[c])
         /\ Len(data[c]) \in Nat
         /\ ~Unshared(c) => waiting[c] = <<>>
<1>1. PICK m \in Nat : /\ Len(data[c]) = m /\ data[c] \in Seq(Nat)
                       /\ Unshared(c) => waiting[c] = [i \in 1..m |-> i] /\ free[c] = <<>>
                       /\ ~Unshared(c) => waiting[c] = <<>> /\ free[c] = [i \in 1..m |-> i]
  BY Zenon, InitElements
<1>2. CASE Unshared(c)
  <2>1. /\ waiting[c] \in Seq(Nat) /\ Len(waiting[c]) = m /\ Elems(waiting[c]) = 1..m
        /\ Distinct(waiting[c])
    BY Zenon, <1>1, <1>2, FirstIds
  <2>2. free[c] \in Seq(Nat) /\ Len(free[c]) = 0 /\ Elems(free[c]) = {} /\ Distinct(free[c])
    BY Zenon, <1>1, <1>2, EmptyQueue
  <2> QED
    BY <1>1, <1>2, <2>1, <2>2
<1>3. CASE ~Unshared(c)
  <2>1. free[c] \in Seq(Nat) /\ Len(free[c]) = m /\ Elems(free[c]) = 1..m /\ Distinct(free[c])
    BY Zenon, <1>1, <1>3, FirstIds
  <2>2. /\ waiting[c] \in Seq(Nat) /\ Len(waiting[c]) = 0 /\ Elems(waiting[c]) = {}
        /\ Distinct(waiting[c])
    BY Zenon, <1>1, <1>3, EmptyQueue
  <2> QED
    BY <1>1, <1>3, <2>1, <2>2
<1> QED
  BY Zenon, <1>2, <1>3

\* The constructors establish the invariant.
LEMMA InitInv == Init => IInv
<1> SUFFICES ASSUME Init PROVE IInv
  BY Zenon
<1>1. ASSUME NEW c \in Client
      PROVE  /\ waiting[c] \in Seq(Nat) /\ free[c] \in Seq(Nat) /\ data[c] \in Seq(Nat)
             /\ Distinct(waiting[c]) /\ Distinct(free[c])
             /\ Elems(waiting[c]) = IF Unshared(c) THEN 1..Len(data[c]) ELSE {}
             /\ Elems(free[c]) = IF Unshared(c) THEN {} ELSE 1..Len(data[c])
             /\ Len(data[c]) = Len(waiting[c]) + Len(free[c])
             /\ Len(data[c]) \in Nat
             /\ ~Unshared(c) => waiting[c] = <<>>
    BY Zenon, InitQueues
<1>2. /\ \A c \in Client : /\ replies[c] = <<>> /\ cached[c] = <<>> /\ slots[c] = <<>>
                           /\ read_all[c] = FALSE /\ thread[c].at = "start" /\ thread[c].msg = 0
      /\ \A l \in Layer : layer[l].at = "idle" /\ got[l] = <<>>
      /\ served = 0
  BY Zenon DEF Init
<1>3. <<>> \in Seq(Nat)
  OBVIOUS
<1>4. TypeOK
  <2>1. waiting \in [Client -> Seq(Nat)]
    <3>1. waiting = [c \in Client |-> waiting[c]]
      BY Zenon DEF Init
    <3> QED
      BY Zenon, <3>1, <1>1
  <2>2. free \in [Client -> Seq(Nat)]
    <3>1. free = [c \in Client |-> free[c]]
      BY Zenon DEF Init
    <3> QED
      BY Zenon, <3>1, <1>1
  <2>3. data \in [Client -> Seq(Nat)]
    <3>1. data = [c \in Client |-> data[c]]
      BY Zenon DEF Init
    <3> QED
      BY Zenon, <3>1, <1>1
  <2>4. thread \in [Client -> [at : Step, sum : Nat, msg : Nat, elem : Nat]]
    BY Zenon DEF Init, Step
  <2> QED
    BY Zenon, <2>1, <2>2, <2>3, <2>4, <1>3 DEF Init, TypeOK
<1>5. ASSUME NEW c \in Client PROVE Layers(c) \subseteq Layer
  BY Zenon, InitElements
<1>6. ASSUME NEW c \in Client PROVE Kinds(c)
  BY Zenon, <1>1, <1>2, <1>5, EmptyQueue DEF Kinds, InHand
<1>7. ASSUME NEW c \in Client PROVE ElementsKept(c)
  <2>1. PICK n \in Nat : n = Len(data[c])
    BY Zenon, <1>1
  <2>2. PICK f : f = Elements(c) /\ n = Len(data[c])
    BY Zenon, <2>1
  <2>3. DOMAIN f = ElemPlace(c)
    BY Zenon, <2>2 DEF Elements
  <2>4. /\ f[<<"cached", c>>] = {} /\ f[<<"thread", c>>] = {}
        /\ f[<<"waiting", c>>] = IF Unshared(c) THEN 1..n ELSE {}
        /\ f[<<"free", c>>] = IF Unshared(c) THEN {} ELSE 1..n
    BY Zenon, <2>2, <1>1, <1>2, EmptyQueue DEF Elements, ElemPlace, ElementsAt
  <2>5. \A l \in Layers(c) : f[<<"layer", l>>] = {}
    BY Zenon, <2>2, <1>2, <1>5 DEF Elements, ElemPlace, ElementsAt, Holding
  <2>6. PICK x : x = IF Unshared(c) THEN <<"waiting", c>> ELSE <<"free", c>>
    BY Zenon
  <2>7. x \in ElemPlace(c) /\ \A z \in ElemPlace(c) : f[z] = IF z = x THEN 1..n ELSE {}
    BY Zenon, <2>4, <2>5, <2>6, ElemPlaceCases DEF ElemPlace
  <2>8. EachIn(f, n)
    BY <2>3, <2>7 DEF EachIn
  <2> QED
    BY Zenon, <2>2, <2>8, <1>1, <1>2, EmptyQueue DEF ElementsKept
<1>8. ASSUME NEW c \in Client PROVE Sorted(c)
  BY Zenon, <1>2, <1>5, EmptyQueue DEF Sorted
<1>9. \A x \in Place : Content[x] = {}
  <2>1. ASSUME NEW c \in Client
        PROVE  /\ Content[<<"reply", c>>] = {} /\ Content[<<"thread", c>>] = {}
               /\ Content[<<"cached", c>>] = {} /\ Content[<<"slot", c>>] = {}
    <3>1. Elems(replies[c]) = {} /\ Elems(slots[c]) = {} /\ Contents(data[c], cached[c]) = {}
      BY Zenon, <1>2, EmptyQueue
    <3>2. {thread[c].msg} \ {0} = {}
      BY Zenon, <1>2
    <3> QED
      BY Zenon, <3>1, <3>2, ClientContent
  <2>2. ASSUME NEW l \in Layer PROVE Content[<<"held", l>>] = {} /\ Content[<<"used", l>>] = {}
    <3>1. Held(l) = {} /\ Used(l) = {}
      BY Zenon, <1>2, EmptyQueue DEF Held, Used
    <3> QED
      BY Zenon, <3>1, LayerContent
  <2> QED
    BY Zenon, <2>1, <2>2, PlaceCases
<1>10. EachIn(Content, served)
  BY <1>2, <1>9 DEF EachIn, Content
<1>11. InLine
  BY Zenon, <1>9 DEF InLine, Less
<1> QED
  BY Zenon, <1>4, <1>6, <1>7, <1>8, <1>10, <1>11 DEF IInv

\* A step of one client: of its channel, its reader thread or one of its layers.
ClientStep(c) == Serve(c) \/ Reader(c) \/ \E l \in Layers(c) : Get(l, c)

\* Every step of a reader thread, a layer or the server keeps the invariant.
LEMMA StepInv == IInv /\ [Next]_vars => IInv'
<1> SUFFICES ASSUME IInv, [Next]_vars PROVE IInv'
  BY Zenon
<1>1. /\ TypeOK /\ EachIn(Content, served) /\ InLine
      /\ \A c \in Client : Kinds(c) /\ ElementsKept(c) /\ Sorted(c)
      /\ BatchInv
  BY Zenon DEF IInv, BatchInv
<1>2. (\A c \in Client : ElementsKept(c)') /\ EachIn(Content, served)' /\ InLine'
  BY Zenon, <1>1, ElementsStep, BatchStep DEF BatchInvNext
<1>3. ASSUME NEW d \in Client, SameFor(d) PROVE Kinds(d)' /\ Sorted(d)'
  BY Zenon, <1>1, <1>3, KindsSame, SortedSame
<1>4. CASE UNCHANGED vars
  <2>1. \A d \in Client : SameFor(d)
    BY Zenon, <1>4 DEF vars, net, queues, SameFor
  <2>2. TypeOK'
    BY Zenon, <1>1, <1>4 DEF vars, net, queues, TypeOK
  <2> QED
    BY Zenon, <1>2, <1>3, <2>1, <2>2 DEF IInv
<1>5. ASSUME NEW c \in Client, ClientStep(c) PROVE IInv'
  <2>1. TypeOK'
    BY Zenon, <1>1, <1>5, ReaderType, GetType DEF ClientStep
  <2>2. Kinds(c)' /\ Sorted(c)'
    BY Zenon, <1>1, <1>5, ReaderKinds, GetKinds, ReaderSorted, GetSorted DEF ClientStep
  <2>3. ASSUME NEW d \in Client, d # c PROVE Kinds(d)' /\ Sorted(d)'
    <3>1. SameFor(d)
      BY Zenon, <1>1, <1>5, <2>3, OthersSame DEF ClientStep
    <3> QED
      BY Zenon, <3>1, <1>3
  <2> QED
    BY Zenon, <1>2, <2>1, <2>2, <2>3 DEF IInv
<1> QED
  BY Zenon, <1>4, <1>5 DEF Next, ClientStep

\* The places of the elements and of the batches and their order are as the invariant says
\* in every state (remote_data_layer.cpp:110-261).
THEOREM Invariance == Spec => []IInv
BY InitInv, StepInv, PTL DEF Spec

\* A layer of a client that pulls sees the batches in the order in which the server made
\* them, and one that draws from a full cache sees only batches that were received.
THEOREM OrderSafety == Spec => []InOrder
<1>1. IInv => InOrder
  <2> SUFFICES ASSUME IInv, NEW c \in Client, NEW l \in Layers(c)
               PROVE  /\ \A i \in DOMAIN got[l] : got[l][i] # 0
                      /\ Pull(c) => \A i, j \in DOMAIN got[l] : i < j => got[l][i] < got[l][j]
    BY Zenon DEF InOrder
  <2>1. TypeOK /\ Kinds(c) /\ Sorted(c) /\ EachIn(Content, served)
    BY Zenon DEF IInv
  <2>2. CASE Pull(c)
    <3>1. l \in Layer /\ Content[<<"used", l>>] = Elems(got[l]) /\ <<"used", l>> \in Place
      BY Zenon, <2>1, <2>2, OwnedBy, LayersAre, LayerContent
    <3>2. Elems(got[l]) \subseteq 1..served
      BY Zenon, <2>1, <3>1 DEF EachIn, Content
    <3>3. \A i \in DOMAIN got[l] : got[l][i] # 0
      BY <3>2 DEF Elems
    <3>4. Rising(got[l])
      BY Zenon, <2>1, <2>2 DEF Sorted
    <3> QED
      BY Zenon, <3>3, <3>4 DEF Rising
  <2>3. CASE ~Pull(c)
    <3>1. 0 \notin Elems(got[l])
      BY Zenon, <2>1, <2>3 DEF Kinds
    <3> QED
      BY Zenon, <3>1, <2>3 DEF Elems
  <2> QED
    BY Zenon, <2>2, <2>3
<1> QED
  BY <1>1, Invariance, PTL

------------------------------------------------------------------------------
INSTANCE FiniteSetTheorems

\* How many there are.
Counted(c) ==
  Len(data[c]) = Len(cached[c]) + Len(waiting[c]) + Len(free[c])
                 + (IF thread[c].at = "fill" THEN 1 ELSE 0)
                 + Cardinality({l \in Layers(c) : Holding(l)})

\* The layers that have given an element back and take no other until one is cached.
Passed(c) ==
  {l \in Layers(c) : layer[l].at = "get" \/ (layer[l].at = "idle" /\ ~Unshared(c))}

\* What the sizes that add_data has added up so far tell about the elements.
SizesTell(c) ==
  thread[c].sum = 0 =>
    /\ thread[c].at \in {"free", "waiting", "create"} => cached[c] = <<>>
    /\ thread[c].at = "waiting" => Len(free[c]) <= Cardinality(Passed(c))
    /\ thread[c].at = "create" => Len(data[c]) <= Cardinality(Layers(c))

\* What the numbers of elements are, in every state.
Numbers(c) == Counted(c) /\ SizesTell(c)
BInv == ElementsBounded /\ \A c \in Client : Numbers(c)

------------------------------------------------------------------------------
(* Numbers of elements                                                     *)

HoldingLayers(c) == {l \in Layers(c) : Holding(l)}

\* The layers that hold an element and those that have passed are different layers.
LEMMA LayerSets ==
  ASSUME TypeOK, NEW c \in Client
  PROVE  /\ IsFiniteSet(HoldingLayers(c)) /\ Cardinality(HoldingLayers(c)) \in Nat
         /\ IsFiniteSet(Passed(c)) /\ Cardinality(Passed(c)) \in Nat
         /\ Cardinality(Layers(c)) \in Nat
         /\ Cardinality(Passed(c)) + Cardinality(HoldingLayers(c)) <= Cardinality(Layers(c))
<1>1. IsFiniteSet(Layers(c)) /\ HoldingLayers(c) \subseteq Layers(c) /\ Passed(c) \subseteq Layers(c)
  BY Zenon, LayersAre, RemoteAssumption, FS_Subset DEF HoldingLayers, Passed
<1>2. PICK A, B, L : A = HoldingLayers(c) /\ B = Passed(c) /\ L = Layers(c)
  BY Zenon
<1>3. IsFiniteSet(A) /\ IsFiniteSet(B) /\ IsFiniteSet(L) /\ IsFiniteSet(A \cup B)
  BY Zenon, <1>1, <1>2, FS_Subset, FS_Union
<1>4. A \cap B = {}
  BY Zenon, <1>2 DEF HoldingLayers, Passed, Holding
<1>5. A \cup B \subseteq L
  BY Zenon, <1>1, <1>2
<1>6. /\ Cardinality(A) \in Nat /\ Cardinality(B) \in Nat /\ Cardinality(L) \in Nat
      /\ Cardinality(A \cap B) = 0
  BY Zenon, <1>3, <1>4, FS_CardinalityType, FS_EmptySet
<1>7. Cardinality(A \cup B) = Cardinality(A) + Cardinality(B) - Cardinality(A \cap B)
  BY Zenon, <1>3, FS_Union
<1>8. Cardinality(A \cup B) <= Cardinality(L)
  BY Zenon, <1>3, <1>5, FS_Subset
<1> QED
  BY <1>2, <1>3, <1>6, <1>7, <1>8

\* create_cache makes cache_size elements, or one when the size is 0.
LEMMA NewIdsCount ==
  ASSUME TypeOK, NEW c \in Client
  PROVE  NewCount(c) \in Nat /\ Len(NewIds(c)) = NewCount(c)
<1>1. PICK m \in Nat : m = NewCount(c)
  BY Zenon, LayersAre DEF NewCount
<1>2. PICK n \in Nat : n = Len(data[c])
  BY Zenon, SeqFacts DEF TypeOK
<1>3. NewIds(c) = [i \in 1..m |-> n + i]
  BY Zenon, <1>1, <1>2 DEF NewIds, NewCount
<1>4. Len([i \in 1..m |-> n + i]) = m
  OBVIOUS
<1> QED
  BY Zenon, <1>1, <1>3, <1>4

\* What the lemmas about numbers use of the invariant.
CountInv(c) == TypeOK /\ Kinds(c) /\ ElementsKept(c) /\ Counted(c) /\ SizesTell(c)
CountNext(c) ==
  /\ Counted(c)' /\ SizesTell(c)'
  /\ Len(data'[c]) = Len(data[c]) \/ Len(data'[c]) <= Cardinality(Layers(c)) + NewCount(c)

\* The lengths, before a step.
LEMMA Lengths ==
  ASSUME TypeOK, NEW c \in Client
  PROVE  /\ Len(data[c]) \in Nat /\ Len(cached[c]) \in Nat /\ Len(waiting[c]) \in Nat
         /\ Len(free[c]) \in Nat
         /\ cached[c] = <<>> <=> Len(cached[c]) = 0
BY SeqFacts DEF TypeOK

\* A step that changes nothing of the client.
LEMMA CountSame ==
  ASSUME NEW c \in Client, Counted(c), SizesTell(c), config' = config,
         thread'[c] = thread[c], Len(data'[c]) = Len(data[c]), cached'[c] = cached[c],
         waiting'[c] = waiting[c], free'[c] = free[c], \A l \in Layers(c) : layer'[l] = layer[l]
  PROVE  CountNext(c)
<1>1. /\ Layers(c)' = Layers(c) /\ {l \in Layers(c) : Holding(l)}' = {l \in Layers(c) : Holding(l)}
      /\ Passed(c)' = Passed(c)
  BY Zenon DEF Layers, Holding, Passed, Unshared
<1>2. Counted(c)'
  BY Zenon, <1>1 DEF Counted
<1>3. SizesTell(c)'
  BY Zenon, <1>1 DEF SizesTell
<1> QED
  BY Zenon, <1>2, <1>3 DEF CountNext

\* The three sizes are zero only when the layers have all elements, or have given back
\* those that are free, so that there are no more elements than layers.
LEMMA SizesCount ==
  ASSUME NEW c \in Client, CountInv(c), Sizes(c)
  PROVE  CountNext(c)
<1>1. TypeOK /\ Counted(c) /\ SizesTell(c)
  BY Zenon DEF CountInv
<1>2. PICK nd \in Nat, nc \in Nat, nw \in Nat, nf \in Nat :
         /\ nd = Len(data[c]) /\ nc = Len(cached[c]) /\ nw = Len(waiting[c]) /\ nf = Len(free[c])
         /\ cached[c] = <<>> <=> nc = 0
  BY Zenon, <1>1, Lengths
<1>3. PICK h \in Nat, p \in Nat, L \in Nat :
         /\ h = Cardinality(HoldingLayers(c)) /\ p = Cardinality(Passed(c))
         /\ L = Cardinality(Layers(c)) /\ p + h <= L
  BY Zenon, <1>1, LayerSets
<1>4. /\ config' = config /\ data' = data /\ cached' = cached /\ waiting' = waiting /\ free' = free
      /\ layer' = layer
  BY Zenon DEF Sizes, Size, queues
<1>5. /\ Layers(c)' = Layers(c) /\ HoldingLayers(c)' = HoldingLayers(c) /\ Passed(c)' = Passed(c)
  BY Zenon, <1>4 DEF Layers, HoldingLayers, Holding, Passed, Unshared
<1>6. thread[c] \in ThreadType /\ thread \in [Client -> ThreadType]
  BY Zenon, <1>1 DEF TypeOK, ThreadType
<1>7. PICK s \in Nat : s = thread[c].sum
  BY Zenon, <1>6 DEF ThreadType
<1>8. thread[c].at \in {"cached", "free", "waiting"} /\ thread'[c].at \in {"free", "waiting", "create"}
  BY Zenon, <1>6 DEF Sizes, Size, ThreadType
<1>9. nd = nc + nw + nf + 0 + h
  BY Zenon, <1>1, <1>2, <1>3, <1>8 DEF Counted, HoldingLayers
<1>10. Counted(c)'
  <2>1. Counted(c)' <=> nd = nc + nw + nf + 0 + Cardinality(HoldingLayers(c)')
    BY Zenon, <1>2, <1>4, <1>8 DEF Counted, HoldingLayers
  <2> QED
    BY Zenon, <2>1, <1>3, <1>5, <1>9
<1>11. SizesTell(c)'
  <2> SUFFICES ASSUME thread'[c].sum = 0
               PROVE  /\ nc = 0
                      /\ thread'[c].at = "waiting" => nf <= p
                      /\ thread'[c].at = "create" => nd <= L
    BY Zenon, <1>2, <1>3, <1>4, <1>5 DEF SizesTell
  <2>1. CASE Size(c, "cached", cached, "free")
    <3>1. thread'[c].sum = s + nc /\ thread'[c].at = "free"
      BY <2>1, <1>2, <1>6, <1>7 DEF Size, ThreadType
    <3> QED
      BY <3>1
  <2>2. CASE Size(c, "free", free, "waiting")
    <3>1. thread'[c].sum = s + nf /\ thread'[c].at = "waiting" /\ thread[c].at = "free"
      BY Zenon, <2>2, <1>2, <1>6, <1>7 DEF Size, ThreadType
    <3>2. s = 0 /\ nf = 0
      BY <3>1
    <3>3. nc = 0
      BY Zenon, <3>1, <3>2, <1>1, <1>2, <1>7 DEF SizesTell
    <3> QED
      BY <3>1, <3>2, <3>3
  <2>3. CASE Size(c, "waiting", waiting, "create")
    <3>1. thread'[c].sum = s + nw /\ thread'[c].at = "create" /\ thread[c].at = "waiting"
      BY Zenon, <2>3, <1>2, <1>6, <1>7 DEF Size, ThreadType
    <3>2. s = 0 /\ nw = 0
      BY <3>1
    <3>3. nc = 0 /\ nf <= p
      BY Zenon, <3>1, <3>2, <1>1, <1>2, <1>3, <1>7 DEF SizesTell
    <3> QED
      BY <3>1, <3>2, <3>3, <1>3, <1>9
  <2> QED
    BY Zenon, <2>1, <2>2, <2>3 DEF Sizes
<1> QED
  BY Zenon, <1>4, <1>10, <1>11 DEF CountNext

\* Numbers that add up to the same, with the thread's element added.
LEMMA SameSum ==
  ASSUME NEW i \in Nat, NEW j \in Nat, NEW k \in Nat, NEW l \in Nat, NEW b \in Nat,
         NEW p \in Nat, NEW q \in Nat, NEW r \in Nat, NEW s \in Nat,
         i + j + k + l = p + q + r + s
  PROVE  i + j + k + b + l = p + q + r + b + s
OBVIOUS

\* The other steps of the reader thread.
LEMMA ReaderCount ==
  ASSUME NEW c \in Client, CountInv(c), Serve(c) \/ Reader(c), ~Sizes(c)
  PROVE  CountNext(c)
<1>1. TypeOK /\ Counted(c) /\ SizesTell(c) /\ Kinds(c) /\ ElementsKept(c)
  BY Zenon DEF CountInv
<1>2. PICK nd \in Nat, nc \in Nat, nw \in Nat, nf \in Nat :
         nd = Len(data[c]) /\ nc = Len(cached[c]) /\ nw = Len(waiting[c]) /\ nf = Len(free[c])
  BY Zenon, <1>1, Lengths
<1>3. PICK h \in Nat, L \in Nat : h = Cardinality(HoldingLayers(c)) /\ L = Cardinality(Layers(c))
  BY Zenon, <1>1, LayerSets
<1>4. config' = config /\ layer' = layer
  BY Zenon DEF Serve, Reader, Start, received, Sizes, Size, CreateIfNone, PopFree, Fill, CopyItems, Publish
<1>5. Layers(c)' = Layers(c) /\ HoldingLayers(c)' = HoldingLayers(c)
  BY Zenon, <1>4 DEF Layers, HoldingLayers, Holding
<1>6. thread[c] \in ThreadType /\ thread \in [Client -> ThreadType]
  BY Zenon, <1>1 DEF TypeOK, ThreadType
<1>7. nd = nc + nw + nf + (IF thread[c].at = "fill" THEN 1 ELSE 0) + h
  BY Zenon, <1>1, <1>2, <1>3 DEF Counted, HoldingLayers
<1>8. Counted(c)' <=> Len(data'[c]) = Len(cached'[c]) + Len(waiting'[c]) + Len(free'[c])
                                       + (IF thread'[c].at = "fill" THEN 1 ELSE 0) + h
  <2>1. Cardinality({l \in Layers(c) : Holding(l)})' = h
    BY Zenon, <1>3, <1>5 DEF HoldingLayers
  <2> QED
    BY Zenon, <2>1 DEF Counted
<1>9. ASSUME thread'[c].at \notin {"free", "waiting", "create"} PROVE SizesTell(c)'
  BY Zenon, <1>9 DEF SizesTell
<1>10. CASE Serve(c)
  BY Zenon, <1>1, <1>10, CountSame DEF Serve, queues
<1>11. CASE Start(c) \/ received(c) \/ CopyItems(c) \/ Publish(c)
  <2>1. data' = data /\ cached' = cached /\ waiting' = waiting /\ free' = free
    BY Zenon, <1>11 DEF Start, received, CopyItems, Publish, queues
  <2>2. thread[c].at \in {"start", "poll", "copy", "publish"}
    BY Zenon, <1>11 DEF Start, received, CopyItems, Publish
  <2>3. thread'[c].at \in {"poll", "cached", "copy", "publish", "finished"}
    <3>1. CASE Start(c) \/ CopyItems(c)
      BY ZenonT(60), <3>1, <1>6 DEF Start, CopyItems, ThreadType
    <3>2. CASE received(c)
      BY Zenon, <3>2, <1>6 DEF received, ThreadType
    <3>3. CASE Publish(c)
      <4>1. PICK at \in {"finished", "poll"} : thread' = [thread EXCEPT ![c].at = at]
        BY Zenon, <3>3 DEF Publish
      <4> QED
        BY Zenon, <4>1, <1>6 DEF ThreadType
    <3> QED
      BY Zenon, <3>1, <3>2, <3>3, <1>11
  <2>4. Counted(c)'
    BY Zenon, <2>1, <2>2, <2>3, <1>2, <1>7, <1>8
  <2>5. SizesTell(c)'
    BY Zenon, <2>3, <1>9
  <2> QED
    BY Zenon, <2>1, <2>4, <2>5 DEF CountNext
<1>12. CASE CreateIfNone(c)
  <2>1. cached' = cached /\ thread[c].at = "create" /\ thread'[c].at = "pop"
    BY Zenon, <1>6, <1>12 DEF CreateIfNone, ThreadType
  <2>2. SizesTell(c)'
    BY Zenon, <2>1, <1>9
  <2>3. CASE thread[c].sum = 0
    <3>1. create_cache(c)
      BY Zenon, <2>3, <1>12 DEF CreateIfNone
    <3>2. PICK s \in Seq(Nat), m \in Nat : s = NewIds(c) /\ m = Len(s) /\ m = NewCount(c)
      BY Zenon, <3>1, <1>1, CreateFacts, NewIdsCount
    <3>3. Len(data'[c]) = nd + m
      BY Zenon, <3>1, <3>2, <1>1, <1>2, CreateFacts
    <3>4. nd <= L
      BY Zenon, <2>1, <2>3, <1>1, <1>2, <1>3 DEF SizesTell
    <3>5. waiting[c] \in Seq(Nat) /\ free[c] \in Seq(Nat)
      BY Zenon, <1>1 DEF TypeOK
    <3>6. Len(waiting[c] \o s) = nw + m /\ Len(free[c] \o s) = nf + m
      <4>1. PICK q \in Seq(Nat), r \in Seq(Nat) : q = waiting[c] /\ r = free[c]
        BY Zenon, <3>5
      <4>2. Len(q \o s) = Len(q) + Len(s) /\ Len(r \o s) = Len(r) + Len(s)
        BY <4>1
      <4> QED
        BY Zenon, <4>1, <4>2, <3>2, <1>2
    <3>7. PICK a \in Nat, b \in Nat :
            a = Len(waiting'[c]) /\ b = Len(free'[c]) /\ a + b = nw + nf + m
      <4>1. CASE Unshared(c)
        <5>1. waiting'[c] = waiting[c] \o s /\ free'[c] = free[c]
          BY Zenon, <3>1, <3>2, <4>1, <1>1 DEF create_cache, TypeOK
        <5>2. Len(waiting'[c]) = nw + m /\ Len(free'[c]) = nf
          BY Zenon, <5>1, <3>6, <1>2
        <5> QED
          BY <5>2
      <4>2. CASE ~Unshared(c)
        <5>1. free'[c] = free[c] \o s /\ waiting'[c] = waiting[c]
          BY Zenon, <3>1, <3>2, <4>2, <1>1 DEF create_cache, TypeOK
        <5>2. Len(waiting'[c]) = nw /\ Len(free'[c]) = nf + m
          BY Zenon, <5>1, <3>6, <1>2
        <5> QED
          BY <5>2
      <4> QED
        BY Zenon, <4>1, <4>2
    <3>8. Counted(c)'
      <4>1. Counted(c)' <=> nd + m = nc + a + b + 0 + h
        BY Zenon, <2>1, <3>3, <3>7, <1>2, <1>8
      <4>2. nd = nc + nw + nf + 0 + h
        BY Zenon, <2>1, <1>7
      <4>3. nd + m = nc + a + b + 0 + h
        <5>1. a + b = nw + nf + m
          BY Zenon, <3>7
        <5> QED
          BY <5>1, <4>2
      <4> QED
        BY Zenon, <4>1, <4>3
    <3>9. Len(data'[c]) <= L + NewCount(c)
      BY <3>2, <3>3, <3>4
    <3> QED
      BY Zenon, <2>2, <3>8, <3>9, <1>3 DEF CountNext
  <2>4. CASE thread[c].sum # 0
    <3>1. data' = data /\ waiting' = waiting /\ free' = free
      BY Zenon, <2>4, <1>12 DEF CreateIfNone
    <3>2. Counted(c)'
      BY Zenon, <2>1, <3>1, <1>2, <1>7, <1>8
    <3> QED
      BY Zenon, <2>2, <3>1, <3>2 DEF CountNext
  <2> QED
    BY Zenon, <2>3, <2>4
<1>13. CASE PopFree(c)
  <2>1. /\ data' = data /\ cached' = cached /\ waiting' = waiting /\ free'[c] = Tail(free[c])
        /\ free[c] # <<>> /\ thread[c].at = "pop" /\ thread'[c].at = "fill"
    BY Zenon, <1>1, <1>6, <1>13 DEF PopFree, ThreadType, TypeOK
  <2>2. Len(free'[c]) = nf - 1
    BY Zenon, <2>1, <1>1, <1>2, TailFacts DEF TypeOK
  <2>3. Counted(c)'
    <3>1. Counted(c)' <=> nd = nc + nw + (nf - 1) + 1 + h
      BY Zenon, <2>1, <2>2, <1>2, <1>8
    <3>2. nd = nc + nw + nf + 0 + h
      BY Zenon, <2>1, <1>7
    <3> QED
      BY <3>1, <3>2
  <2>4. SizesTell(c)'
    BY Zenon, <2>1, <1>9
  <2> QED
    BY Zenon, <2>1, <2>3, <2>4 DEF CountNext
<1>14. CASE Fill(c)
  <2>1. /\ waiting' = waiting /\ free' = free /\ thread[c].at = "fill" /\ thread'[c].at = "poll"
        /\ cached'[c] = Append(cached[c], thread[c].elem)
        /\ data'[c] = [data[c] EXCEPT ![thread[c].elem] = thread[c].msg]
    BY Zenon, <1>1, <1>6, <1>14 DEF Fill, ThreadType, TypeOK
  <2>2. thread[c].elem \in Nat /\ thread[c].msg \in Nat /\ thread[c].elem \in 1..Len(data[c])
    BY Zenon, <2>1, <1>1, <1>6, ElementsThere DEF ThreadType
  <2>3. Len(cached'[c]) = nc + 1
    BY Zenon, <2>1, <2>2, <1>1, <1>2, AppendFacts DEF TypeOK
  <2>4. Len(data'[c]) = nd
    <3>1. PICK q \in Seq(Nat) : q = data[c]
      BY Zenon, <1>1 DEF TypeOK
    <3>2. PICK e \in Nat, m \in Nat : e = thread[c].elem /\ m = thread[c].msg /\ e \in 1..Len(q)
      BY Zenon, <2>2, <3>1
    <3>3. Len([q EXCEPT ![e] = m]) = Len(q)
      BY <3>2
    <3> QED
      BY Zenon, <2>1, <3>1, <3>2, <3>3, <1>2
  <2>5. Counted(c)'
    <3>1. Counted(c)' <=> nd = (nc + 1) + nw + nf + 0 + h
      BY Zenon, <2>1, <2>3, <2>4, <1>2, <1>8
    <3>2. nd = nc + nw + nf + 1 + h
      BY Zenon, <2>1, <1>7
    <3> QED
      BY <3>1, <3>2
  <2>6. SizesTell(c)'
    BY Zenon, <2>1, <1>9
  <2> QED
    BY Zenon, <2>4, <2>5, <2>6, <1>2 DEF CountNext
<1> QED
  BY Zenon, <1>10, <1>11, <1>12, <1>13, <1>14 DEF Reader

\* The lengths of the queues and the numbers of layers after a step.
NumbersAfter(c, kc, kw, kf, g, r) ==
  /\ Len(cached'[c]) = kc /\ Len(waiting'[c]) = kw /\ Len(free'[c]) = kf
  /\ Cardinality(HoldingLayers(c)') = g /\ Cardinality(Passed(c)') = r

\* A layer that takes an element or gives one back.
LEMMA GetCount ==
  ASSUME NEW c \in Client, CountInv(c), NEW l \in Layers(c), Get(l, c)
  PROVE  CountNext(c)
<1>1. TypeOK /\ Counted(c) /\ SizesTell(c) /\ Kinds(c) /\ l \in Layer /\ Layers(c) \subseteq Layer
  BY Zenon, LayersAre DEF CountInv
<1>2. PICK nd \in Nat, nc \in Nat, nw \in Nat, nf \in Nat :
         /\ nd = Len(data[c]) /\ nc = Len(cached[c]) /\ nw = Len(waiting[c]) /\ nf = Len(free[c])
         /\ cached[c] = <<>> <=> nc = 0
  BY Zenon, <1>1, Lengths
<1>3. PICK h \in Nat, p \in Nat : h = Cardinality(HoldingLayers(c)) /\ p = Cardinality(Passed(c))
  BY Zenon, <1>1, LayerSets
<1>4. config' = config /\ thread' = thread /\ data' = data
  BY Zenon DEF Get, Begin, HandOver, PopCached, CopyOut, Draw
<1>5. Layers(c)' = Layers(c) /\ (Unshared(c)' <=> Unshared(c))
  BY Zenon, <1>4 DEF Layers, Unshared
<1>6. layer \in [Layer -> LayerType] /\ layer[l] \in LayerType
  BY Zenon, <1>1 DEF TypeOK, LayerType
<1>7. PICK b \in Nat : b = IF thread[c].at = "fill" THEN 1 ELSE 0
  BY Zenon
<1>8. nd = nc + nw + nf + b + h
  BY Zenon, <1>1, <1>2, <1>3, <1>7 DEF Counted, HoldingLayers
<1>9. /\ cached[c] \in Seq(Nat) /\ waiting[c] \in Seq(Nat) /\ free[c] \in Seq(Nat)
      /\ IsFiniteSet(HoldingLayers(c)) /\ IsFiniteSet(Passed(c))
  BY Zenon, <1>1, LayerSets DEF TypeOK
<1>10. ASSUME NEW kc \in Nat, NEW kw \in Nat, NEW kf \in Nat, NEW g \in Nat, NEW r \in Nat,
              NumbersAfter(c, kc, kw, kf, g, r), kc + kw + kf + g = nc + nw + nf + h,
              nf <= p => kf <= r, cached[c] = <<>> => cached'[c] = <<>>
       PROVE  CountNext(c)
  <2>1. /\ Len(cached'[c]) = kc /\ Len(waiting'[c]) = kw /\ Len(free'[c]) = kf
        /\ Cardinality(HoldingLayers(c)') = g /\ Cardinality(Passed(c)') = r
    BY Zenon, <1>10 DEF NumbersAfter
  <2>2. Counted(c)'
    <3>1. Counted(c)' <=> nd = kc + kw + kf + b + g
      BY Zenon, <2>1, <1>2, <1>4, <1>7 DEF Counted, HoldingLayers
    <3>2. nd = kc + kw + kf + b + g
      <4>1. kc + kw + kf + g = nc + nw + nf + h
        BY Zenon, <1>10
      <4>2. kc + kw + kf + b + g = nc + nw + nf + b + h
        BY <4>1, SameSum
      <4> QED
        BY Zenon, <4>2, <1>8
    <3> QED
      BY Zenon, <3>1, <3>2
  <2>3. SizesTell(c)'
    <3>1. SizesTell(c)' <=>
            (thread[c].sum = 0 =>
              /\ thread[c].at \in {"free", "waiting", "create"} => cached'[c] = <<>>
              /\ thread[c].at = "waiting" => kf <= r
              /\ thread[c].at = "create" => nd <= Cardinality(Layers(c)))
      BY Zenon, <2>1, <1>2, <1>4, <1>5 DEF SizesTell
    <3> QED
      BY Zenon, <3>1, <1>1, <1>2, <1>3, <1>10 DEF SizesTell
  <2> QED
    BY Zenon, <2>2, <2>3, <1>4 DEF CountNext
<1>11. CASE Draw(l, c)
  <2>1. layer' = layer /\ cached' = cached /\ waiting' = waiting /\ free' = free
    BY Zenon, <1>11 DEF Draw, queues
  <2>2. HoldingLayers(c)' = HoldingLayers(c) /\ Passed(c)' = Passed(c)
    BY Zenon, <2>1, <1>5 DEF HoldingLayers, Holding, Passed
  <2>3. NumbersAfter(c, nc, nw, nf, h, p)
    BY Zenon, <2>1, <2>2, <1>2, <1>3 DEF NumbersAfter
  <2> QED
    BY Zenon, <2>1, <2>3, <1>10
<1>12. CASE Begin(l, c) /\ Unshared(c)
  <2>1. /\ cached' = cached /\ free' = free /\ waiting'[c] = Tail(waiting[c]) /\ waiting[c] # <<>>
        /\ layer[l].at = "idle" /\ layer'[l].at = "hand"
        /\ \A k \in Layers(c) : k # l => layer'[k] = layer[k]
    <3>1. layer' = [layer EXCEPT ![l] = [at |-> "hand", elem |-> Head(waiting[c])]]
      BY Zenon, <1>12 DEF Begin
    <3>2. layer'[l].at = "hand" /\ \A k \in Layers(c) : k # l => layer'[k] = layer[k]
      BY Zenon, <3>1, <1>1, <1>6
    <3> QED
      BY Zenon, <3>2, <1>1, <1>12 DEF Begin, TypeOK
  <2>2. Len(waiting'[c]) = nw - 1 /\ nw - 1 \in Nat
    <3>1. nw > 0
      BY Zenon, <2>1, <1>2, <1>9, SeqFacts
    <3> QED
      BY <2>1, <3>1, <1>2, <1>9, TailFacts
  <2>3. HoldingLayers(c)' = HoldingLayers(c) \cup {l} /\ l \notin HoldingLayers(c)
    BY Zenon, <2>1, <1>5 DEF HoldingLayers, Holding
  <2>4. Cardinality(HoldingLayers(c)') = h + 1
    BY Zenon, <2>3, <1>3, <1>9, FS_AddElement
  <2>5. Passed(c)' = Passed(c)
    BY Zenon, <2>1, <1>5, <1>12 DEF Passed
  <2>6. nc + (nw - 1) + nf + (h + 1) = nc + nw + nf + h
    OBVIOUS
  <2>7. NumbersAfter(c, nc, nw - 1, nf, h + 1, p)
    BY Zenon, <2>1, <2>2, <2>4, <2>5, <1>2, <1>3 DEF NumbersAfter
  <2> QED
    BY <2>1, <2>2, <2>6, <2>7, <1>10
<1>13. CASE Begin(l, c) /\ ~Unshared(c)
  <2>1. /\ cached' = cached /\ free' = free /\ waiting' = waiting
        /\ layer[l].at = "idle" /\ layer'[l].at = "get"
        /\ \A k \in Layers(c) : k # l => layer'[k] = layer[k]
    BY Zenon, <1>1, <1>6, <1>13 DEF Begin, LayerType
  <2>2. HoldingLayers(c)' = HoldingLayers(c)
    BY Zenon, <2>1, <1>5 DEF HoldingLayers, Holding
  <2>3. Passed(c)' = Passed(c)
    BY Zenon, <2>1, <1>5, <1>13 DEF Passed
  <2>4. NumbersAfter(c, nc, nw, nf, h, p)
    BY Zenon, <2>1, <2>2, <2>3, <1>2, <1>3 DEF NumbersAfter
  <2> QED
    BY Zenon, <2>1, <2>4, <1>10
<1>14. CASE HandOver(l, c)
  <2>1. /\ cached' = cached /\ waiting' = waiting /\ free'[c] = Append(free[c], layer[l].elem)
        /\ layer[l].at = "hand" /\ layer'[l].at = "get" /\ layer[l].elem \in Nat
        /\ \A k \in Layers(c) : k # l => layer'[k] = layer[k]
    BY Zenon, <1>1, <1>6, <1>14 DEF HandOver, LayerType, TypeOK
  <2>2. Len(free'[c]) = nf + 1
    BY ZenonT(60), <2>1, <1>2, <1>9, AppendFacts
  <2>3. HoldingLayers(c)' = HoldingLayers(c) \ {l} /\ l \in HoldingLayers(c)
    BY Zenon, <2>1, <1>5 DEF HoldingLayers, Holding
  <2>4. Cardinality(HoldingLayers(c)') = h - 1 /\ h - 1 \in Nat
    <3>1. HoldingLayers(c) # {}
      BY Zenon, <2>3
    <3>2. h # 0
      BY Zenon, <3>1, <1>3, <1>9, FS_EmptySet
    <3>3. Cardinality(HoldingLayers(c) \ {l}) = Cardinality(HoldingLayers(c)) - 1
      BY Zenon, <2>3, <1>9, FS_RemoveElement
    <3> QED
      BY <2>3, <3>2, <3>3, <1>3
  <2>5. Passed(c)' = Passed(c) \cup {l} /\ l \notin Passed(c)
    BY Zenon, <2>1, <1>5 DEF Passed
  <2>6. Cardinality(Passed(c)') = p + 1
    BY Zenon, <2>5, <1>3, <1>9, FS_AddElement
  <2>7. nc + nw + (nf + 1) + (h - 1) = nc + nw + nf + h /\ (nf <= p => nf + 1 <= p + 1)
    OBVIOUS
  <2>8. NumbersAfter(c, nc, nw, nf + 1, h - 1, p + 1)
    BY Zenon, <2>1, <2>2, <2>4, <2>6, <1>2 DEF NumbersAfter
  <2> QED
    <3>1. PICK kf \in Nat, g \in Nat, r \in Nat : kf = nf + 1 /\ g = h - 1 /\ r = p + 1
      BY <2>4
    <3>2. nc + nw + kf + g = nc + nw + nf + h /\ (nf <= p => kf <= r)
      BY Zenon, <2>7, <3>1
    <3> QED
      BY Zenon, <2>1, <2>8, <3>1, <3>2, <1>10
<1>15. CASE PopCached(l, c)
  <2>1. /\ waiting' = waiting /\ free' = free /\ cached'[c] = Tail(cached[c]) /\ cached[c] # <<>>
        /\ layer[l].at = "get" /\ layer'[l].at = "copy"
        /\ \A k \in Layers(c) : k # l => layer'[k] = layer[k]
    BY Zenon, <1>1, <1>6, <1>15 DEF PopCached, TypeOK
  <2>2. Len(cached'[c]) = nc - 1 /\ nc - 1 \in Nat
    BY <2>1, <1>2, <1>9, TailFacts
  <2>3. HoldingLayers(c)' = HoldingLayers(c) \cup {l} /\ l \notin HoldingLayers(c)
    BY Zenon, <2>1, <1>5 DEF HoldingLayers, Holding
  <2>4. Cardinality(HoldingLayers(c)') = h + 1
    BY Zenon, <2>3, <1>3, <1>9, FS_AddElement
  <2>5. Counted(c)'
    <3>1. Counted(c)' <=> nd = (nc - 1) + nw + nf + b + (h + 1)
      BY Zenon, <2>1, <2>2, <2>4, <1>2, <1>4, <1>7 DEF Counted, HoldingLayers
    <3> QED
      BY <3>1, <1>8
  <2>6. SizesTell(c)'
    <3>1. ~(thread[c].sum = 0 /\ thread[c].at \in {"free", "waiting", "create"})
      BY Zenon, <2>1, <1>1 DEF SizesTell
    <3> QED
      BY Zenon, <3>1, <1>4 DEF SizesTell
  <2> QED
    BY Zenon, <2>5, <2>6, <1>4 DEF CountNext
<1>16. CASE CopyOut(l, c)
  <2>1. /\ cached' = cached /\ layer[l].at = "copy" /\ layer'[l].at = "idle" /\ layer[l].elem \in Nat
        /\ \A k \in Layers(c) : k # l => layer'[k] = layer[k]
    BY Zenon, <1>1, <1>6, <1>16 DEF CopyOut, LayerType, TypeOK
  <2>2. HoldingLayers(c)' = HoldingLayers(c) \ {l} /\ l \in HoldingLayers(c)
    BY Zenon, <2>1, <1>5 DEF HoldingLayers, Holding
  <2>3. Cardinality(HoldingLayers(c)') = h - 1 /\ h - 1 \in Nat
    <3>1. HoldingLayers(c) # {}
      BY Zenon, <2>2
    <3>2. h # 0
      BY Zenon, <3>1, <1>3, <1>9, FS_EmptySet
    <3>3. Cardinality(HoldingLayers(c) \ {l}) = Cardinality(HoldingLayers(c)) - 1
      BY Zenon, <2>2, <1>9, FS_RemoveElement
    <3> QED
      BY <2>2, <3>2, <3>3, <1>3
  <2>4. CASE Unshared(c)
    <3>1. waiting'[c] = Append(waiting[c], layer[l].elem) /\ free' = free
      BY Zenon, <2>4, <1>1, <1>16 DEF CopyOut, TypeOK
    <3>2. Len(waiting'[c]) = nw + 1
      BY ZenonT(60), <2>1, <3>1, <1>2, <1>9, AppendFacts
    <3>3. Passed(c)' = Passed(c)
      BY Zenon, <2>1, <2>4, <1>5 DEF Passed
    <3>4. nc + (nw + 1) + nf + (h - 1) = nc + nw + nf + h
      OBVIOUS
    <3>5. NumbersAfter(c, nc, nw + 1, nf, h - 1, p)
      BY Zenon, <2>1, <2>3, <3>1, <3>2, <3>3, <1>2, <1>3 DEF NumbersAfter
    <3> QED
      <4>1. PICK kw \in Nat, g \in Nat : kw = nw + 1 /\ g = h - 1
        BY <2>3
      <4>2. nc + kw + nf + g = nc + nw + nf + h
        BY Zenon, <3>4, <4>1
      <4> QED
        BY Zenon, <2>1, <3>5, <4>1, <4>2, <1>10
  <2>5. CASE ~Unshared(c)
    <3>1. free'[c] = Append(free[c], layer[l].elem) /\ waiting' = waiting
      BY Zenon, <2>5, <1>1, <1>16 DEF CopyOut, TypeOK
    <3>2. Len(free'[c]) = nf + 1
      BY ZenonT(60), <2>1, <3>1, <1>2, <1>9, AppendFacts
    <3>3. Passed(c)' = Passed(c) \cup {l} /\ l \notin Passed(c)
      BY Zenon, <2>1, <2>5, <1>5 DEF Passed
    <3>4. Cardinality(Passed(c)') = p + 1
      BY Zenon, <3>3, <1>3, <1>9, FS_AddElement
    <3>5. nc + nw + (nf + 1) + (h - 1) = nc + nw + nf + h /\ (nf <= p => nf + 1 <= p + 1)
      OBVIOUS
    <3>6. NumbersAfter(c, nc, nw, nf + 1, h - 1, p + 1)
      BY Zenon, <2>1, <2>3, <3>1, <3>2, <3>4, <1>2 DEF NumbersAfter
    <3> QED
      <4>1. PICK kf \in Nat, g \in Nat, r \in Nat : kf = nf + 1 /\ g = h - 1 /\ r = p + 1
        BY <2>3
      <4>2. nc + nw + kf + g = nc + nw + nf + h /\ (nf <= p => kf <= r)
        BY Zenon, <3>5, <4>1
      <4> QED
        BY Zenon, <2>1, <3>6, <4>1, <4>2, <1>10
  <2> QED
    BY Zenon, <2>4, <2>5
<1> QED
  BY Zenon, <1>11, <1>12, <1>13, <1>14, <1>15, <1>16 DEF Get
\* The number of elements stays within its bound.
LEMMA BoundKept ==
  ASSUME TypeOK, TypeOK', NEW c \in Client, ElementsBounded, CountNext(c), config' = config
  PROVE  Len(data'[c]) <= Cardinality(Layers(c)') + Len(NewIds(c)')
<1>1. PICK n \in Nat, L \in Nat : n = NewCount(c) /\ L = Cardinality(Layers(c)) /\ Len(NewIds(c)) = n
  BY Zenon, NewIdsCount, LayerSets
<1>2. Layers(c)' = Layers(c) /\ NewCount(c)' = NewCount(c)
  BY Zenon DEF Layers, NewCount, Unshared
<1>3. Len(NewIds(c)') = n
  <2>1. PICK m \in Nat : m = Len(data'[c])
    BY Zenon, SeqFacts DEF TypeOK
  <2>2. NewIds(c)' = [i \in 1..n |-> m + i]
    BY Zenon, <1>1, <1>2, <2>1 DEF NewIds, NewCount
  <2>3. Len([i \in 1..n |-> m + i]) = n
    BY <2>1
  <2> QED
    BY Zenon, <2>2, <2>3
<1>4. Len(data[c]) <= L + n
  BY Zenon, <1>1 DEF ElementsBounded
<1>5. Len(data'[c]) = Len(data[c]) \/ Len(data'[c]) <= L + n
  BY Zenon, <1>1 DEF CountNext
<1> QED
  BY Zenon, <1>1, <1>2, <1>3, <1>4, <1>5

\* The constructors establish the numbers.
LEMMA InitNumbers == Init => BInv
<1> SUFFICES ASSUME Init PROVE BInv
  BY Zenon
<1>1. TypeOK
  BY Zenon, InitInv DEF IInv
<1>2. /\ \A c \in Client : cached[c] = <<>> /\ thread[c].at = "start"
      /\ \A l \in Layer : layer[l].at = "idle"
  BY Zenon DEF Init
<1>3. ASSUME NEW c \in Client PROVE Counted(c)
  <2>1. {l \in Layers(c) : Holding(l)} = {}
    BY Zenon, <1>1, <1>2, LayersAre DEF Holding
  <2>2. Cardinality({l \in Layers(c) : Holding(l)}) = 0
    BY Zenon, <2>1, FS_EmptySet
  <2>3. Len(cached[c]) = 0 /\ thread[c].at = "start"
    BY Zenon, <1>2, EmptyQueue
  <2>4. PICK w \in Nat, u \in Nat : w = Len(waiting[c]) /\ u = Len(free[c])
    BY Zenon, <1>1, Lengths
  <2>5. Len(data[c]) = w + u
    BY Zenon, <2>4, InitQueues
  <2>6. (IF thread[c].at = "fill" THEN 1 ELSE 0) = 0
    BY Zenon, <2>3
  <2>7. 0 + w + u + 0 + 0 = w + u
    OBVIOUS
  <2> QED
    BY Zenon, <2>2, <2>3, <2>4, <2>5, <2>6, <2>7 DEF Counted
<1>4. ASSUME NEW c \in Client PROVE SizesTell(c)
  BY Zenon, <1>2 DEF SizesTell
<1>5. ElementsBounded
  <2> SUFFICES ASSUME NEW c \in Client
               PROVE  Len(data[c]) <= Cardinality(Layers(c)) + Len(NewIds(c))
    BY Zenon DEF ElementsBounded
  <2>1. Len(data[c]) <= NewCount(c) /\ Len(data[c]) \in Nat /\ NewCount(c) \in Nat
    BY Zenon, InitElements
  <2>2. Cardinality(Layers(c)) \in Nat /\ Len(NewIds(c)) = NewCount(c)
    BY Zenon, <1>1, LayerSets, NewIdsCount
  <2> QED
    BY <2>1, <2>2
<1> QED
  BY Zenon, <1>3, <1>4, <1>5 DEF BInv, Numbers

\* Every step of a reader thread, a layer or the server keeps the numbers.
LEMMA StepNumbers == IInv /\ IInv' /\ BInv /\ [Next]_vars => BInv'
<1> SUFFICES ASSUME IInv, IInv', BInv, [Next]_vars PROVE BInv'
  BY Zenon
<1>1. TypeOK /\ TypeOK' /\ ElementsBounded /\ \A c \in Client : CountInv(c)
  BY Zenon DEF IInv, BInv, Numbers, CountInv
<1>2. CASE UNCHANGED vars
  <2>1. \A d \in Client : CountNext(d)
    <3> SUFFICES ASSUME NEW d \in Client PROVE CountNext(d)
      BY Zenon
    <3>1. Counted(d) /\ SizesTell(d)
      BY Zenon, <1>1 DEF CountInv
    <3> QED
      BY Zenon, <3>1, <1>2, CountSame DEF vars, net, queues
  <2>2. ElementsBounded'
    BY Zenon, <1>1, <1>2 DEF vars, net, queues, ElementsBounded, Layers, NewIds, Unshared
  <2> QED
    BY Zenon, <2>1, <2>2 DEF BInv, Numbers, CountNext
<1>3. ASSUME NEW c \in Client, ClientStep(c) PROVE BInv'
  <2>1. CountNext(c)
    BY Zenon, <1>1, <1>3, SizesCount, ReaderCount, GetCount DEF ClientStep
  <2>2. ASSUME NEW d \in Client, d # c PROVE CountNext(d)
    <3>1. SameFor(d)
      BY Zenon, <1>1, <1>3, <2>2, OthersSame DEF ClientStep
    <3> QED
      BY Zenon, <3>1, <1>1, CountSame DEF SameFor, CountInv
  <2>3. \A d \in Client : CountNext(d)
    BY Zenon, <2>1, <2>2
  <2>4. config' = config
    BY Zenon, <1>3 DEF ClientStep, Serve, Reader, Start, received, Sizes, Size, CreateIfNone, PopFree,
         Fill, CopyItems, Publish, Get, Begin, HandOver, PopCached, CopyOut, Draw
  <2>5. ElementsBounded'
    BY Zenon, <1>1, <2>3, <2>4, BoundKept DEF ElementsBounded
  <2> QED
    BY Zenon, <2>3, <2>5 DEF BInv, Numbers, CountNext
<1> QED
  BY Zenon, <1>2, <1>3 DEF Next, ClientStep

\* The elements a client has made are at most one for each of its layers and one cache
\* more, however the sizes that add_data reads one after the other change meanwhile
\* (remote_data_layer.cpp:110-139).
THEOREM MemoryBound == Spec => []ElementsBounded
<1>1. BInv => ElementsBounded
  BY Zenon DEF BInv
<1> QED
  BY <1>1, InitNumbers, StepNumbers, Invariance, PTL DEF Spec

------------------------------------------------------------------------------
(* Batches                                                                 *)

\* What Places says of a batch: its place, its position there, and that it is there.
Found(p) ==
  /\ p = <<p[1], p[2], p[3], p[4]>> /\ <<p[1], p[2]>> \in Place /\ p[4] \in Content[<<p[1], p[2]>>]
  /\ p[1] = "reply" => p[3] \in DOMAIN replies[p[2]] /\ p[4] = replies[p[2]][p[3]]
  /\ p[1] = "cached" => p[3] \in DOMAIN cached[p[2]] /\ p[4] = data[p[2]][cached[p[2]][p[3]]]
  /\ p[1] = "slot" => p[3] \in DOMAIN slots[p[2]] /\ p[4] = slots[p[2]][p[3]]
  /\ p[1] \in {"thread", "held"} => p[3] = 1
  /\ p[1] = "used" => p[3] \in DOMAIN got[p[2]] /\ p[4] = got[p[2]][p[3]]

HeldIn(c) == UNION {At("held", l, Batches(c, <<layer[l].elem>>)) :
                      l \in {k \in Layers(c) : layer[k].at = "copy"}}
UsedIn(c) == UNION {At("used", l, got[l]) : l \in Layers(c)}

\* The parts of which Places(c) is the union.
LEMMA PlacesAre ==
  ASSUME NEW c
  PROVE  \A p : p \in Places(c) <=>
           \/ p \in At("reply", c, replies[c]) \/ p \in At("cached", c, Batches(c, cached[c]))
           \/ p \in At("slot", c, slots[c])
           \/ thread[c].msg # 0 /\ p \in At("thread", c, <<thread[c].msg>>)
           \/ p \in HeldIn(c)
           \/ Pull(c) /\ p \in UsedIn(c)
<1>1. Places(c) = At("reply", c, replies[c]) \cup At("cached", c, Batches(c, cached[c]))
                  \cup At("slot", c, slots[c])
                  \cup (IF thread[c].msg = 0 THEN {} ELSE At("thread", c, <<thread[c].msg>>))
                  \cup HeldIn(c) \cup (IF Pull(c) THEN UsedIn(c) ELSE {})
  BY Zenon DEF Places, HeldIn, UsedIn
<1> QED
  BY Zenon, <1>1

\* The places of a client are places of the invariant.
LEMMA PlaceOf ==
  ASSUME TypeOK, NEW c \in Client, NEW p \in Places(c)
  PROVE  Found(p)
<1>1. CASE p \in At("reply", c, replies[c])
  <2>1. PICK i \in DOMAIN replies[c] : p = <<"reply", c, i, replies[c][i]>>
    BY Zenon, <1>1 DEF At
  <2>2. <<"reply", c>> \in Place /\ Content[<<"reply", c>>] = Elems(replies[c])
    BY Zenon, ClientContent
  <2>3. replies[c][i] \in Elems(replies[c])
    BY Zenon, <2>1 DEF Elems
  <2>4. p[1] = "reply" /\ p[2] = c /\ p[3] = i /\ p[4] = replies[c][i]
    BY Zenon, <2>1
  <2> QED
    BY Zenon, <2>1, <2>2, <2>3, <2>4 DEF Found
<1>2. CASE p \in At("cached", c, Batches(c, cached[c]))
  <2>1. PICK i \in DOMAIN cached[c] : p = <<"cached", c, i, data[c][cached[c][i]]>>
    BY Zenon, <1>2 DEF At, Batches
  <2>2. <<"cached", c>> \in Place /\ Content[<<"cached", c>>] = Contents(data[c], cached[c])
    BY Zenon, ClientContent
  <2>3. data[c][cached[c][i]] \in Contents(data[c], cached[c])
    BY Zenon, <2>1 DEF Elems, Contents
  <2>4. p[1] = "cached" /\ p[2] = c /\ p[3] = i /\ p[4] = data[c][cached[c][i]]
    BY Zenon, <2>1
  <2> QED
    BY Zenon, <2>1, <2>2, <2>3, <2>4 DEF Found
<1>3. CASE p \in At("slot", c, slots[c])
  <2>1. PICK i \in DOMAIN slots[c] : p = <<"slot", c, i, slots[c][i]>>
    BY Zenon, <1>3 DEF At
  <2>2. <<"slot", c>> \in Place /\ Content[<<"slot", c>>] = Elems(slots[c])
    BY Zenon, ClientContent
  <2>3. slots[c][i] \in Elems(slots[c])
    BY Zenon, <2>1 DEF Elems
  <2>4. p[1] = "slot" /\ p[2] = c /\ p[3] = i /\ p[4] = slots[c][i]
    BY Zenon, <2>1
  <2> QED
    BY Zenon, <2>1, <2>2, <2>3, <2>4 DEF Found
<1>4. CASE thread[c].msg # 0 /\ p \in At("thread", c, <<thread[c].msg>>)
  <2>1. p = <<"thread", c, 1, thread[c].msg>>
    BY <1>4 DEF At
  <2>2. <<"thread", c>> \in Place /\ Content[<<"thread", c>>] = {thread[c].msg} \ {0}
    BY Zenon, ClientContent
  <2>3. p[1] = "thread" /\ p[2] = c /\ p[3] = 1 /\ p[4] = thread[c].msg
    BY Zenon, <2>1
  <2> QED
    BY Zenon, <2>1, <2>2, <2>3, <1>4 DEF Found
<1>5. ASSUME NEW l \in Layers(c), layer[l].at = "copy",
             p \in At("held", l, Batches(c, <<layer[l].elem>>))
      PROVE  Found(p)
  <2>1. p = <<"held", l, 1, data[c][layer[l].elem]>>
    BY <1>5 DEF At, Batches
  <2>2. l \in Layer /\ Held(l) = {data[c][layer[l].elem]}
    BY Zenon, <1>5, OwnedBy, LayersAre
  <2>3. <<"held", l>> \in Place /\ Content[<<"held", l>>] = Held(l)
    BY Zenon, <2>2, LayerContent
  <2>4. p[1] = "held" /\ p[2] = l /\ p[3] = 1 /\ p[4] = data[c][layer[l].elem]
    BY Zenon, <2>1
  <2> QED
    BY Zenon, <2>1, <2>2, <2>3, <2>4 DEF Found
<1>6. ASSUME NEW l \in Layers(c), Pull(c), p \in At("used", l, got[l]) PROVE Found(p)
  <2>1. PICK i \in DOMAIN got[l] : p = <<"used", l, i, got[l][i]>>
    BY Zenon, <1>6 DEF At
  <2>2. l \in Layer /\ Content[<<"used", l>>] = Elems(got[l])
    BY Zenon, <1>6, OwnedBy, LayersAre, LayerContent
  <2> QED
    BY Zenon, <2>1, <2>2, LayerContent DEF Found, Elems
<1>7. \/ p \in At("reply", c, replies[c]) \/ p \in At("cached", c, Batches(c, cached[c]))
      \/ p \in At("slot", c, slots[c])
      \/ thread[c].msg # 0 /\ p \in At("thread", c, <<thread[c].msg>>)
      \/ \E l \in Layers(c) : layer[l].at = "copy" /\ p \in At("held", l, Batches(c, <<layer[l].elem>>))
      \/ \E l \in Layers(c) : Pull(c) /\ p \in At("used", l, got[l])
  <2>1. p \in HeldIn(c)
          => \E l \in Layers(c) : layer[l].at = "copy" /\ p \in At("held", l, Batches(c, <<layer[l].elem>>))
    BY Zenon DEF HeldIn
  <2>2. p \in UsedIn(c) => \E l \in Layers(c) : p \in At("used", l, got[l])
    BY Zenon DEF UsedIn
  <2> QED
    BY Zenon, <2>1, <2>2, PlacesAre
<1> QED
  BY Zenon, <1>1, <1>2, <1>3, <1>4, <1>5, <1>6, <1>7

\* A batch of the invariant is in a place of a client.
LEMMA InPlaces ==
  ASSUME TypeOK, NEW x \in Place, NEW b \in Content[x]
  PROVE  \E c \in Client : \E p \in Places(c) : p[4] = b
<1>1. ASSUME NEW c \in Client, x = <<"reply", c>> PROVE \E p \in Places(c) : p[4] = b
  <2>1. b \in Elems(replies[c])
    BY Zenon, <1>1, ClientContent
  <2>2. PICK i \in DOMAIN replies[c] : b = replies[c][i]
    BY Zenon, <2>1 DEF Elems
  <2>3. <<"reply", c, i, b>> \in Places(c)
    BY Zenon, <2>2 DEF Places, At
  <2> QED
    BY Zenon, <2>3
<1>2. ASSUME NEW c \in Client, x = <<"cached", c>> PROVE \E p \in Places(c) : p[4] = b
  <2>1. b \in Contents(data[c], cached[c])
    BY Zenon, <1>2, ClientContent
  <2>2. PICK i \in DOMAIN cached[c] : b = data[c][cached[c][i]]
    BY Zenon, <2>1 DEF Elems, Contents
  <2>3. <<"cached", c, i, b>> \in At("cached", c, Batches(c, cached[c]))
    BY Zenon, <2>2 DEF At, Batches
  <2>4. <<"cached", c, i, b>> \in Places(c)
    BY Zenon, <2>3 DEF Places
  <2> QED
    BY Zenon, <2>4
<1>3. ASSUME NEW c \in Client, x = <<"slot", c>> PROVE \E p \in Places(c) : p[4] = b
  <2>1. b \in Elems(slots[c])
    BY Zenon, <1>3, ClientContent
  <2>2. PICK i \in DOMAIN slots[c] : b = slots[c][i]
    BY Zenon, <2>1 DEF Elems
  <2>3. <<"slot", c, i, b>> \in Places(c)
    BY Zenon, <2>2 DEF Places, At
  <2> QED
    BY Zenon, <2>3
<1>4. ASSUME NEW c \in Client, x = <<"thread", c>> PROVE \E p \in Places(c) : p[4] = b
  <2>1. thread[c].msg # 0 /\ b = thread[c].msg
    BY Zenon, <1>4, ClientContent
  <2>2. <<"thread", c, 1, b>> \in At("thread", c, <<thread[c].msg>>)
    BY <2>1 DEF At
  <2>3. <<"thread", c, 1, b>> \in Places(c)
    BY Zenon, <2>1, <2>2 DEF Places
  <2> QED
    BY Zenon, <2>3
<1>5. ASSUME NEW l \in Layer, x = <<"held", l>> PROVE \E c \in Client : \E p \in Places(c) : p[4] = b
  <2>1. PICK c \in Client : l \in Layers(c) /\ layer[l].at = "copy" /\ b = data[c][layer[l].elem]
    <3>1. b \in Held(l)
      BY Zenon, <1>5, LayerContent
    <3> QED
      BY Zenon, <3>1 DEF Held, OwnerOf
  <2>2. <<"held", l, 1, b>> \in At("held", l, Batches(c, <<layer[l].elem>>))
    BY <2>1 DEF At, Batches
  <2>3. <<"held", l, 1, b>> \in Places(c)
    BY Zenon, <2>1, <2>2 DEF Places
  <2> QED
    BY Zenon, <2>3
<1>6. ASSUME NEW l \in Layer, x = <<"used", l>> PROVE \E c \in Client : \E p \in Places(c) : p[4] = b
  <2>1. PICK c \in Client : l \in Layers(c) /\ Pull(c) /\ b \in Elems(got[l])
    BY Zenon, <1>6, LayerContent DEF Used, OwnerOf
  <2>2. PICK i \in DOMAIN got[l] : b = got[l][i]
    BY Zenon, <2>1 DEF Elems
  <2>3. <<"used", l, i, b>> \in At("used", l, got[l])
    BY Zenon, <2>2 DEF At
  <2>4. <<"used", l, i, b>> \in Places(c)
    <3>1. <<"used", l, i, b>> \in UsedIn(c)
      BY Zenon, <2>1, <2>3 DEF UsedIn
    <3> QED
      BY Zenon, <2>1, <3>1, PlacesAre
  <2> QED
    BY Zenon, <2>4
<1> QED
  BY Zenon, <1>1, <1>2, <1>3, <1>4, <1>5, <1>6, PlaceCases

\* In one place a batch has one position.
LEMMA OnePosition ==
  ASSUME TypeOK, EachIn(Content, served), \A c \in Client : Sorted(c), NEW p, NEW r, Found(p), Found(r),
         p[1] = r[1], p[2] = r[2], p[4] = r[4]
  PROVE  p = r
<1>1. <<p[1], p[2]>> \in Place /\ p[4] \in Content[<<p[1], p[2]>>]
  BY Zenon DEF Found
<1>2. PICK i, j, a, o, b : i = p[3] /\ j = r[3] /\ a = p[1] /\ o = p[2] /\ b = p[4]
  BY Zenon
<1>3. p = <<a, o, i, b>> /\ r = <<a, o, j, b>>
  BY Zenon, <1>2 DEF Found
<1>4. CASE a \in {"reply", "slot", "cached"} /\ o \in Client
  <2>1. replies[o] \in Seq(Nat) /\ slots[o] \in Seq(Nat) /\ cached[o] \in Seq(Nat) /\ Sorted(o)
    BY Zenon, <1>4 DEF TypeOK
  <2>2. DOMAIN replies[o] \subseteq Nat /\ DOMAIN slots[o] \subseteq Nat /\ DOMAIN cached[o] \subseteq Nat
    BY <2>1
  <2>3. CASE a = "reply"
    <3>1. /\ i \in DOMAIN replies[o] /\ j \in DOMAIN replies[o] /\ replies[o][i] = replies[o][j]
          /\ replies[o][i] \in Nat
      BY <1>2, <2>1, <2>3 DEF Found
    <3>2. PICK n \in Nat : n = replies[o][i] /\ n = replies[o][j]
      BY Zenon, <3>1
    <3>3. (i < j => n < n) /\ (j < i => n < n)
      BY Zenon, <2>1, <3>1, <3>2 DEF Sorted, Rising
    <3>4. i \in Nat /\ j \in Nat
      BY Zenon, <2>2, <3>1
    <3>5. i = j
      BY <3>3, <3>4
    <3> QED
      BY Zenon, <1>3, <3>5
  <2>4. CASE a = "slot"
    <3>1. /\ i \in DOMAIN slots[o] /\ j \in DOMAIN slots[o] /\ slots[o][i] = slots[o][j]
          /\ slots[o][i] \in Nat
      BY <1>2, <2>1, <2>4 DEF Found
    <3>2. PICK n \in Nat : n = slots[o][i] /\ n = slots[o][j]
      BY Zenon, <3>1
    <3>3. (i < j => n < n) /\ (j < i => n < n)
      BY Zenon, <2>1, <3>1, <3>2 DEF Sorted, Rising
    <3>4. i \in Nat /\ j \in Nat
      BY Zenon, <2>2, <3>1
    <3>5. i = j
      BY <3>3, <3>4
    <3> QED
      BY Zenon, <1>3, <3>5
  <2>5. CASE a = "cached"
    <3>1. /\ i \in DOMAIN cached[o] /\ j \in DOMAIN cached[o] /\ b = data[o][cached[o][i]]
          /\ b = data[o][cached[o][j]]
      BY Zenon, <1>2, <2>5 DEF Found
    <3>2. i < j => b < b
      BY Zenon, <2>1, <3>1 DEF Sorted, RisingBy
    <3>3. j < i => b < b
      BY Zenon, <2>1, <3>1 DEF Sorted, RisingBy
    <3>4. b \in Nat
      BY <1>1, <1>2 DEF EachIn, Content
    <3>5. i = j
      BY <2>2, <3>1, <3>2, <3>3, <3>4
    <3> QED
      BY Zenon, <1>3, <3>5
  <2> QED
    BY Zenon, <1>4, <2>3, <2>4, <2>5
<1>5. CASE a \in {"thread", "held"}
  BY Zenon, <1>2, <1>3, <1>5 DEF Found
<1>6. CASE a = "used" /\ o \in Layer
  <2>1. PICK c \in Client : o \in Layers(c) /\ Pull(c)
    BY Zenon, <1>1, <1>2, <1>6, LayerContent DEF Used, OwnerOf
  <2>2. Rising(got[o]) /\ got[o] \in Seq(Nat)
    BY Zenon, <1>6, <2>1 DEF Sorted, TypeOK
  <2>3. i \in DOMAIN got[o] /\ j \in DOMAIN got[o] /\ got[o][i] = got[o][j] /\ got[o][i] \in Nat
    BY <1>2, <1>6, <2>2 DEF Found
  <2>4. i = j
    BY <2>2, <2>3 DEF Rising
  <2> QED
    BY Zenon, <1>3, <2>4
<1> QED
  BY Zenon, <1>1, <1>2, <1>4, <1>5, <1>6, PlaceCases

\* Every batch the server hands out is in exactly one place of one client.
THEOREM BatchSafety == Spec => []EachBatchOnce
<1>1. IInv => EachBatchOnce
  <2> SUFFICES ASSUME IInv PROVE EachBatchOnce
    BY Zenon
  <2> DEFINE all == UNION {Places(c) : c \in Client}
  <2>1. /\ TypeOK /\ EachIn(Content, served) /\ served \in Nat
        /\ \A c \in Client : Kinds(c) /\ Sorted(c) /\ ElementsKept(c)
    BY Zenon DEF IInv, TypeOK
  <2>2. ASSUME NEW c \in Client, NEW p \in Places(c) PROVE Found(p)
    BY Zenon, <2>1, <2>2, PlaceOf
  <2>3. ASSUME NEW p \in all, NEW r \in all, p[4] = r[4] PROVE p = r
    <3>1. Found(p) /\ Found(r)
      BY Zenon, <2>2
    <3>2. p[4] \in 1..served
      BY Zenon, <2>1, <3>1, LayerContent DEF EachIn, Found, Content
    <3>3. <<p[1], p[2]>> = <<r[1], r[2]>>
      BY Zenon, <2>1, <2>3, <3>1, <3>2 DEF EachIn, Found, Content
    <3> QED
      BY Zenon, <2>1, <2>3, <3>1, <3>3, OnePosition
  <2>4. ASSUME NEW b \in 1..served PROVE \E p \in all : p[4] = b
    <3>1. PICK x \in Place : b \in Content[x]
      BY Zenon, <2>1 DEF EachIn, Content
    <3>2. PICK c \in Client : \E p \in Places(c) : p[4] = b
      BY Zenon, <2>1, <3>1, InPlaces
    <3> QED
      BY Zenon, <3>2
  <2>5. ASSUME NEW p \in all PROVE p[4] \in 1..served
    <3>1. Found(p)
      BY Zenon, <2>2
    <3> QED
      BY Zenon, <2>1, <3>1 DEF EachIn, Found, Content
  <2> HIDE DEF all
  <2>6. {p[4] : p \in all} = 1..served
    BY Zenon, <2>4, <2>5
  <2>7. PICK g : g = [b \in 1..served |-> CHOOSE p \in all : p[4] = b]
    BY Zenon
  <2>8. ExistsBijection(1..served, all)
    <3>1. \A b \in 1..served : g[b] \in all /\ g[b][4] = b
      BY Zenon, <2>4, <2>7
    <3>2. g \in [1..served -> all]
      BY Zenon, <2>7, <3>1
    <3>3. \A p \in all : p[4] \in 1..served /\ g[p[4]] = p
      BY Zenon, <2>3, <2>5, <3>1
    <3>4. g \in Injection(1..served, all)
      BY <3>1, <3>2 DEF Injection, IsInjective
    <3>5. g \in Surjection(1..served, all)
      BY Zenon, <3>2, <3>3 DEF Surjection
    <3> QED
      BY Zenon, <3>4, <3>5 DEF ExistsBijection, Bijection
  <2>9. IsFiniteSet(1..served) /\ Cardinality(1..served) = served
    BY <2>1, FS_Interval
  <2>10. Cardinality(all) = served
    BY Zenon, <2>8, <2>9, FS_Bijection
  <2> QED
    BY Zenon, <2>6, <2>10 DEF EachBatchOnce, all
<1> QED
  BY <1>1, Invariance, PTL

==============================================================================
