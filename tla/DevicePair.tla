----------------------------- MODULE DevicePair -----------------------------
(***************************************************************************)
(* Which GPUs exchange weights and gradients: DevicePair::compute pairs    *)
(* the devices, by board, by peer access and then as they come, and        *)
(* P2PSync::Prepare makes a solver for each, once its parent's is made.    *)
(***************************************************************************)
EXTENDS Naturals, Sequences, SequencesExt

\* DevicePair::compute over the devices 1..n.
Depth(n) == CHOOSE d \in 0..n : 2^d >= n /\ \A e \in 0..(d - 1) : 2^e < n

\* One round of pairing: device i of those remaining becomes the parent of the next one
\* that it is near to.
RECURSIVE Round(_, _, _)
Round(near, g, i) ==
  IF i > Len(g.remaining) THEN g
  ELSE LET J == {j \in (i + 1)..Len(g.remaining) : <<g.remaining[i], g.remaining[j]>> \in near}
           j == CHOOSE x \in J : \A y \in J : x <= y
       IN  Round(near, IF J = {} THEN g
                       ELSE [remaining |-> RemoveAt(g.remaining, j),
                             pairs |-> Append(g.pairs, <<g.remaining[i], g.remaining[j]>>)],
                 i + 1)

RECURSIVE Rounds(_, _, _)
Rounds(near, g, d) == IF d = 0 THEN g ELSE Rounds(near, Round(near, g, 1), d - 1)

Group(near, g) == Rounds(near, g, Depth(Len(g.remaining)))

\* By board, by peer access, and the rest one after the other.  The last grouping reads
\* past the end when an odd number of devices is left, which the inputs avoid.
All(n) == (1..n) \X (1..n)

Grouped(n, board, access) == Group(access, Group(board, [remaining |-> [i \in 1..n |-> i], pairs |-> <<>>]))

IsPaired(n, board, access) ==
  LET left == Len(Grouped(n, board, access).remaining) IN 2^Depth(left) = left

compute(n, board, access) == Group(All(n), Grouped(n, board, access)).pairs

\* Prepare makes a solver as soon as its parent's exists, in rounds over the pairs.
RECURSIVE Made(_, _, _, _)
Made(pairs, made, i, attempts) ==
  IF attempts = 0 THEN made
  ELSE IF i > Len(pairs) THEN Made(pairs, made, 1, attempts - 1)
  ELSE LET p == pairs[i]
           Has(d) == \E k \in DOMAIN made : made[k] = d
       IN  Made(pairs, IF Has(p[1]) /\ ~Has(p[2]) THEN Append(made, p[2]) ELSE made,
                i + 1, attempts)

Prepare(n, pairs) ==
  LET made == Made(pairs, <<1>>, 1, n)
      Order(d) == CHOOSE k \in DOMAIN made : made[k] = d
      PairOf(d) == CHOOSE p \in {pairs[i] : i \in DOMAIN pairs} : p[2] = d
  IN  [parent |-> [s \in 1..n |-> IF s = 1 THEN 0 ELSE Order(PairOf(made[s])[1])],
       syncs |-> [i \in DOMAIN pairs |-> Order(pairs[i][2])]]

\* Boards are sets of devices; peer access is any relation between them.
Paired(n) ==
  LET Device == 1..n
      boards == {{<<a, b>> \in Device \X Device : f[a] > 0 /\ f[a] = f[b]} : f \in [Device -> 0..n]}
      peers == SUBSET {<<a, b>> \in Device \X Device : a < b}
  IN  {Prepare(n, compute(n, board, access)) :
         <<board, access>> \in {x \in boards \X peers : IsPaired(n, x[1], x[2])}}
==============================================================================
