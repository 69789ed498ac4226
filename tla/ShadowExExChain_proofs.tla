------------------------ MODULE ShadowExExChain_proofs ------------------------
(***************************************************************************)
(* Proofs about the queue of notifications, for every block tree and every *)
(* bound: what is queued leads from the chain the ExEx has followed so far *)
(* to reth's.  From it: the table follows the chain, and a backlog of      *)
(* commits is executed on the state it was committed on.                   *)
(***************************************************************************)
EXTENDS ShadowExEx_proofs, NaturalsLeast

-----------------------------------------------------------------------------
(***************************************************************************)
(* Chains from the genesis block.                                          *)
(***************************************************************************)
IsPath(c) ==
  /\ c \in Seq(Blocks)
  /\ \A i \in DOMAIN c : /\ Parent[c[i]] = IF i = 1 THEN Genesis ELSE c[i - 1]
                         /\ Number[c[i]] = Start + i

Paths == {c \in Seq(Blocks) : IsPath(c)}

\* Notification n takes the chain c to d.
Leads(c, n, d) ==
  \/ n.kind = "committed" /\ d = c \o n.new
  \/ /\ n.kind \in {"reverted", "reorged"}
     /\ \E k \in 0..(Len(c) - 1) :
          /\ n.old = SubSeq(c, k + 1, Len(c))
          /\ d = IF n.kind = "reverted" THEN SubSeq(c, 1, k) ELSE SubSeq(c, 1, k) \o n.new

\* The chains between the notifications in the queue.  Once a fault has occurred
\* the blocks seen need not be those of the first one.
Way(S) ==
  /\ S \in [1..(Len(inbox) + 1) -> Paths]
  /\ S[Len(inbox) + 1] = canon
  /\ \A i \in 1..Len(inbox) : Leads(S[i], inbox[i], S[i + 1])
  /\ faults = 0 => seen = ChainOf(S[1])

QueueInv == \E S \in [1..(Len(inbox) + 1) -> Paths] : Way(S)

-----------------------------------------------------------------------------
LEMMA PathType ==
  ASSUME NEW c \in Paths
  PROVE  /\ c \in Seq(Blocks) /\ Len(c) \in Nat /\ DOMAIN c = 1..Len(c)
         /\ \A i \in 1..Len(c) :
              /\ c[i] \in Blocks
              /\ Parent[c[i]] = IF i = 1 THEN Genesis ELSE c[i - 1]
              /\ Number[c[i]] = Start + i
BY DEF Paths, IsPath

LEMMA EmptyPath == <<>> \in Paths
BY DEF Paths, IsPath

LEMMA PrefixPath ==
  ASSUME NEW c \in Paths, NEW k \in 0..Len(c)
  PROVE  /\ SubSeq(c, 1, k) \in Paths /\ Len(SubSeq(c, 1, k)) = k
         /\ \A i \in 1..k : SubSeq(c, 1, k)[i] = c[i]
<1>1. c \in Seq(Blocks) /\ Len(c) \in Nat /\ k \in Nat /\ k <= Len(c)
  BY PathType
<1>2. /\ SubSeq(c, 1, k) \in Seq(Blocks) /\ Len(SubSeq(c, 1, k)) = k
      /\ DOMAIN SubSeq(c, 1, k) = 1..k
      /\ \A i \in 1..k : SubSeq(c, 1, k)[i] = c[i]
  BY <1>1
<1>3. \A i \in 1..k : /\ Parent[c[i]] = IF i = 1 THEN Genesis ELSE c[i - 1]
                      /\ Number[c[i]] = Start + i
  BY <1>1, PathType
<1> DEFINE d == SubSeq(c, 1, k)
<1>4. ASSUME NEW i \in 1..k
      PROVE  /\ Parent[d[i]] = IF i = 1 THEN Genesis ELSE d[i - 1]
             /\ Number[d[i]] = Start + i
  <2>1. d[i] = c[i] /\ (i # 1 => d[i - 1] = c[i - 1])
    BY <1>1, <1>2
  <2> HIDE DEF d
  <2> QED
    BY <1>3, <2>1
<1> HIDE DEF d
<1>5. d \in Paths
  BY <1>2, <1>4 DEF Paths, IsPath, d
<1> QED
  BY <1>2, <1>5 DEF d

\* What reth appends to a chain has the next numbers.
LEMMA LinkedNumbers ==
  ASSUME NEW c \in Paths, NEW new \in Chains, LinkedTo(Tip(c), new)
  PROVE  /\ new \in Seq(Blocks) /\ new # <<>>
         /\ Parent[new[1]] = Tip(c)
         /\ \A i \in 1..Len(new) : Number[new[i]] = Start + Len(c) + i
<1>1. new \in Seq(Blocks) /\ new # <<>> /\ Len(new) \in Nat /\ 1 \in DOMAIN new
      /\ DOMAIN new = 1..Len(new)
  BY ChainsType
<1>2. \A i \in 1..Len(new) : new[i] \in Blocks
  BY <1>1
<1>3. Parent[new[1]] = Tip(c)
  BY <1>1 DEF LinkedTo
<1>4. Len(c) \in Nat /\ Start \in Nat
  BY PathType, ChainAssumption
<1>5. Number[new[1]] = Start + Len(c) + 1
  <2>1. new[1] \in Blocks
    BY <1>1
  <2>2. CASE c = <<>>
    BY <1>3, <2>1, <2>2, ChainAssumption DEF Tip
  <2>3. CASE c # <<>>
    <3>1. Len(c) \in 1..Len(c) /\ Tip(c) = c[Len(c)]
      BY <2>3, PathType DEF Tip
    <3>2. Tip(c) \in Blocks /\ Number[Tip(c)] = Start + Len(c)
      BY <3>1, PathType
    <3> QED
      BY <1>3, <1>4, <2>1, <3>2, ChainAssumption
  <2> QED
    BY <2>2, <2>3
<1> DEFINE Good == {i \in Nat : i <= Len(new) => Number[new[i]] = Start + Len(c) + i}
<1>6. ASSUME NEW i \in Nat, i >= 1, i \in Good
      PROVE  i + 1 \in Good
  <2> SUFFICES ASSUME i + 1 <= Len(new)
               PROVE  Number[new[i + 1]] = Start + Len(c) + (i + 1)
    OBVIOUS
  <2>1. i + 1 \in 1..Len(new) /\ i \in 1..Len(new)
    BY <1>1, <1>6
  <2>2. Parent[new[i + 1]] = new[i]
    BY <1>1, <1>6, <2>1 DEF LinkedTo
  <2>3. Number[new[i]] = Start + Len(c) + i
    BY <1>6, <2>1
  <2>4. Number[new[i + 1]] = Number[new[i]] + 1
    BY <1>2, <2>1, <2>2, ChainAssumption
  <2> QED
    BY <1>4, <1>6, <2>3, <2>4
<1>7. 1 \in Good
  BY <1>5
<1> HIDE DEF Good
<1>8. \A i \in Nat : i >= 1 => i \in Good
  BY <1>6, <1>7, FromOn
<1> QED
  BY <1>1, <1>3, <1>8 DEF Good

LEMMA AppendedPath ==
  ASSUME NEW c \in Paths, NEW new \in Chains, LinkedTo(Tip(c), new)
  PROVE  c \o new \in Paths
<1>1. /\ new \in Seq(Blocks) /\ new # <<>> /\ Parent[new[1]] = Tip(c)
      /\ \A i \in 1..Len(new) : Number[new[i]] = Start + Len(c) + i
  BY LinkedNumbers
<1>2. c \in Seq(Blocks) /\ Len(c) \in Nat /\ Len(new) \in Nat /\ Start \in Nat
  BY <1>1, PathType, ChainAssumption
<1> DEFINE d == c \o new
<1>3. /\ d \in Seq(Blocks) /\ Len(d) = Len(c) + Len(new) /\ DOMAIN d = 1..Len(d)
      /\ \A i \in 1..Len(d) : d[i] = IF i <= Len(c) THEN c[i] ELSE new[i - Len(c)]
  BY <1>1, <1>2
<1> HIDE DEF d
<1>4. ASSUME NEW i \in 1..Len(d)
      PROVE  /\ Parent[d[i]] = IF i = 1 THEN Genesis ELSE d[i - 1]
             /\ Number[d[i]] = Start + i
  <2>1. CASE i <= Len(c)
    <3>1. i \in 1..Len(c) /\ d[i] = c[i] /\ (i # 1 => d[i - 1] = c[i - 1])
      BY <1>2, <1>3, <2>1
    <3> QED
      BY <3>1, PathType
  <2>2. CASE i = Len(c) + 1
    <3>1. Len(new) >= 1 /\ i - Len(c) = 1 /\ ~(i <= Len(c))
      BY <1>1, <1>2, <2>2
    <3>2. d[i] = new[1]
      BY <1>3, <3>1
    <3>3. Number[new[1]] = Start + i
      BY <1>1, <1>2, <2>2, <3>1
    <3>4. Tip(c) = IF i = 1 THEN Genesis ELSE d[i - 1]
      BY <1>2, <1>3, <2>2 DEF Tip
    <3> QED
      BY <1>1, <3>2, <3>3, <3>4
  <2>3. CASE i > Len(c) + 1
    <3>1. PICK j \in 2..Len(new) :
            /\ i = Len(c) + j /\ i # 1 /\ i - 1 \in 1..Len(d)
            /\ ~(i <= Len(c)) /\ ~(i - 1 <= Len(c))
      <4>1. i - Len(c) \in 2..Len(new) /\ i = Len(c) + (i - Len(c))
        BY <1>2, <1>3, <2>3
      <4> QED
        BY <1>2, <1>3, <2>3, <4>1
    <3>2. i - Len(c) = j /\ (i - 1) - Len(c) = j - 1
      BY <1>2, <3>1
    <3>3. d[i] = new[j] /\ d[i - 1] = new[j - 1]
      BY <1>3, <3>1, <3>2
    <3>4. Parent[new[j]] = new[j - 1]
      BY <3>1 DEF LinkedTo
    <3>5. j \in 1..Len(new) /\ Start + Len(c) + j = Start + i
      BY <1>2, <3>1
    <3>6. Number[new[j]] = Start + i
      BY <1>1, <3>5
    <3> QED
      BY <3>1, <3>3, <3>4, <3>6
  <2> QED
    BY <1>2, <1>3, <2>1, <2>2, <2>3
<1> QED
  BY <1>3, <1>4 DEF Paths, IsPath, d

\* The blocks of a chain are told apart by their numbers.
LEMMA PathBlocks ==
  ASSUME NEW c \in Paths, NEW k \in 0..Len(c)
  PROVE  /\ ChainOf(SubSeq(c, 1, k)) = ChainOf(c) \ ChainOf(SubSeq(c, k + 1, Len(c)))
         /\ ChainOf(SubSeq(c, k + 1, Len(c))) \subseteq ChainOf(c)
<1>1. c \in Seq(Blocks) /\ Len(c) \in Nat /\ k \in Nat /\ k <= Len(c) /\ DOMAIN c = 1..Len(c)
  BY PathType
<1>2. \A i, j \in 1..Len(c) : c[i] = c[j] => i = j
  <2> SUFFICES ASSUME NEW i \in 1..Len(c), NEW j \in 1..Len(c), c[i] = c[j]
               PROVE  i = j
    OBVIOUS
  <2>1. Number[c[i]] = Start + i /\ Number[c[j]] = Start + j
    BY PathType
  <2> QED
    BY <2>1, ChainAssumption
<1>3. ChainOf(SubSeq(c, 1, k)) = {c[i] : i \in 1..k}
  <2>1. DOMAIN SubSeq(c, 1, k) = 1..k /\ \A i \in 1..k : SubSeq(c, 1, k)[i] = c[i]
    BY <1>1
  <2> QED
    BY <2>1 DEF ChainOf
<1>4. ChainOf(SubSeq(c, k + 1, Len(c))) = {c[i] : i \in (k + 1)..Len(c)}
  <2> DEFINE e == SubSeq(c, k + 1, Len(c))
  <2>1. DOMAIN e = 1..(Len(c) - k) /\ \A i \in 1..(Len(c) - k) : e[i] = c[k + i]
    BY <1>1
  <2>2. ASSUME NEW i \in (k + 1)..Len(c)
        PROVE  i - k \in DOMAIN e /\ e[i - k] = c[i]
    <3> HIDE DEF e
    <3>1. i - k \in 1..(Len(c) - k) /\ k + (i - k) = i
      BY <1>1
    <3> QED
      BY <2>1, <3>1
  <2>3. \A i \in DOMAIN e : k + i \in (k + 1)..Len(c) /\ e[i] = c[k + i]
    BY <1>1, <2>1
  <2> HIDE DEF e
  <2>4. ChainOf(e) = {c[i] : i \in (k + 1)..Len(c)}
    BY <2>2, <2>3 DEF ChainOf
  <2> QED
    BY <2>4 DEF e
<1>5. ChainOf(c) = {c[i] : i \in 1..Len(c)}
  BY <1>1 DEF ChainOf
<1> QED
  BY <1>1, <1>2, <1>3, <1>4, <1>5

\* What a commit that extends a chain brings.
LEMMA AppendedBlocks ==
  ASSUME NEW c \in Paths, NEW new \in Seq(Blocks), new # <<>>, c \o new \in Paths
  PROVE  /\ Len(c \o new) = Len(c) + Len(new) /\ Len(c) \in Nat /\ Len(new) \in Nat \ {0}
         /\ \A i \in 1..Len(c) : (c \o new)[i] = c[i]
         /\ Number[new[1]] = Start + Len(c) + 1 /\ Parent[new[1]] = Tip(c)
         /\ Tip(c) \notin ChainOf(new)
<1>1. c \in Seq(Blocks) /\ Len(c) \in Nat /\ Len(new) \in Nat /\ Start \in Nat
  BY PathType, ChainAssumption
<1>2. Len(new) >= 1 /\ DOMAIN new = 1..Len(new)
  BY <1>1
<1> PICK d : d = c \o new
  OBVIOUS
<1>3. /\ Len(d) = Len(c) + Len(new)
      /\ \A i \in 1..Len(d) : d[i] = IF i <= Len(c) THEN c[i] ELSE new[i - Len(c)]
  BY <1>1
<1>4. ASSUME NEW i \in 1..Len(new)
      PROVE  /\ Number[new[i]] = Start + Len(c) + i /\ new[i] \in Blocks
             /\ i = 1 => Parent[new[1]] = IF c = <<>> THEN Genesis ELSE d[Len(c)]
  <2> PICK j : j = Len(c) + i
    OBVIOUS
  <2>1. j \in 1..Len(d) /\ ~(j <= Len(c)) /\ j - Len(c) = i
    BY <1>1, <1>3
  <2>2. d[j] = new[i]
    BY <1>3, <2>1
  <2>3. /\ d[j] \in Blocks /\ Number[d[j]] = Start + j
        /\ Parent[d[j]] = IF j = 1 THEN Genesis ELSE d[j - 1]
    BY <2>1, PathType
  <2>4. i = 1 => (j = 1 <=> c = <<>>) /\ j - 1 = Len(c)
    BY <1>1
  <2> QED
    BY <1>1, <2>2, <2>3, <2>4
<1>5. Parent[new[1]] = Tip(c)
  <2>1. c # <<>> => d[Len(c)] = c[Len(c)]
    BY <1>1, <1>3
  <2> QED
    BY <1>2, <1>4, <2>1 DEF Tip
<1>6. Tip(c) \notin ChainOf(new)
  <2> SUFFICES ASSUME NEW i \in 1..Len(new), Tip(c) = new[i] PROVE FALSE
    BY <1>2 DEF ChainOf
  <2>1. new[i] \in Blocks /\ Number[new[i]] = Start + Len(c) + i
    BY <1>4
  <2>2. c # <<>>
    BY <2>1, ChainAssumption DEF Tip
  <2>3. Len(c) \in 1..Len(c) /\ Tip(c) = c[Len(c)]
    BY <1>1, <2>2 DEF Tip
  <2>4. Number[Tip(c)] = Start + Len(c)
    BY <2>3, PathType
  <2> QED
    BY <1>1, <2>1, <2>4
<1>7. 1 \in 1..Len(new)
  BY <1>1, <1>2
<1> QED
  BY <1>1, <1>2, <1>3, <1>4, <1>5, <1>6, <1>7

LEMMA ConcatBlocks ==
  ASSUME NEW c \in Seq(Blocks), NEW d \in Seq(Blocks)
  PROVE  ChainOf(c \o d) = ChainOf(c) \cup ChainOf(d)
<1>1. /\ DOMAIN (c \o d) = 1..(Len(c) + Len(d)) /\ Len(c) \in Nat /\ Len(d) \in Nat
      /\ DOMAIN c = 1..Len(c) /\ DOMAIN d = 1..Len(d)
      /\ \A i \in 1..Len(c) : (c \o d)[i] = c[i]
      /\ \A i \in 1..Len(d) : (c \o d)[Len(c) + i] = d[i]
  OBVIOUS
<1>2. ASSUME NEW b \in ChainOf(c \o d)
      PROVE  b \in ChainOf(c) \cup ChainOf(d)
  <2>1. PICK i \in 1..(Len(c) + Len(d)) : b = (c \o d)[i]
    BY <1>1 DEF ChainOf
  <2>2. CASE i <= Len(c)
    BY <1>1, <2>1, <2>2 DEF ChainOf
  <2>3. CASE i > Len(c)
    <3>1. i - Len(c) \in 1..Len(d) /\ b = d[i - Len(c)]
      BY <1>1, <2>1, <2>3
    <3> QED
      BY <1>1, <3>1 DEF ChainOf
  <2> QED
    BY <1>1, <2>2, <2>3
<1>3. ChainOf(c) \subseteq ChainOf(c \o d)
  BY <1>1 DEF ChainOf
<1>4. ChainOf(d) \subseteq ChainOf(c \o d)
  <2>1. \A i \in 1..Len(d) : Len(c) + i \in DOMAIN (c \o d)
    BY <1>1
  <2> QED
    BY <1>1, <2>1 DEF ChainOf
<1> QED
  BY <1>2, <1>3, <1>4

-----------------------------------------------------------------------------
(***************************************************************************)
(* The queue.                                                              *)
(***************************************************************************)
LEMMA InitQueue == Init => QueueInv
<1> SUFFICES ASSUME Init PROVE QueueInv
  OBVIOUS
<1> DEFINE S == [i \in 1..1 |-> <<>>]
<1>1. Len(inbox) = 0 /\ S \in [1..(Len(inbox) + 1) -> Paths]
  BY EmptyPath DEF Init
<1>2. Way(S)
  BY <1>1 DEF Init, Way, ChainOf
<1> QED
  BY <1>1, <1>2 DEF QueueInv

LEMMA WayType ==
  ASSUME TypeOK, NEW S, Way(S)
  PROVE  /\ Len(inbox) \in Nat
         /\ \A i \in 1..(Len(inbox) + 1) : S[i] \in Paths
         /\ canon \in Paths
<1>1. Len(inbox) \in Nat
  BY DEF TypeOK
<1>2. S \in [1..(Len(inbox) + 1) -> Paths] /\ S[Len(inbox) + 1] = canon
  BY DEF Way
<1>3. Len(inbox) + 1 \in 1..(Len(inbox) + 1)
  BY <1>1
<1> QED
  BY <1>1, <1>2, <1>3

\* Reth's chain moves on and a notification says how.
LEMMA EmitQueue ==
  ASSUME TypeOK, QueueInv, NEW n, NEW c \in Paths, Emit(n, c), Leads(canon, n, c)
  PROVE  QueueInv'
<1>1. PICK S : S \in [1..(Len(inbox) + 1) -> Paths] /\ Way(S)
  BY DEF QueueInv
<1>2. canon' = c /\ inbox' = Append(inbox, n) /\ faults' = faults /\ seen' = seen
  BY DEF Emit, exex
<1> PICK m : m = Len(inbox) + 1
  OBVIOUS
<1> PICK Q : Q = [i \in 1..(m + 1) |-> IF i <= m THEN S[i] ELSE c]
  OBVIOUS
<1>3. m \in Nat /\ m >= 1 /\ Len(inbox) = m - 1 /\ inbox \in Seq(Notifications)
  BY DEF TypeOK
<1>4. /\ Len(inbox') = m /\ inbox'[m] = n
      /\ \A i \in 1..(m - 1) : inbox'[i] = inbox[i]
  BY <1>2, <1>3
<1>5. /\ \A i \in 1..m : S[i] \in Paths
      /\ S[m] = canon
      /\ \A i \in 1..(m - 1) : Leads(S[i], inbox[i], S[i + 1])
  BY <1>1, <1>3 DEF Way
<1>6. Q \in [1..(m + 1) -> Paths]
  BY <1>3, <1>5
<1>7. Q[m + 1] = c /\ Q[1] = S[1] /\ \A i \in 1..m : Q[i] = S[i]
  BY <1>3
<1>8. ASSUME NEW i \in 1..m
      PROVE  Leads(Q[i], inbox'[i], Q[i + 1])
  <2>1. CASE i = m
    BY <1>4, <1>5, <1>7, <2>1
  <2>2. CASE i # m
    <3>1. i \in 1..(m - 1) /\ i + 1 \in 1..m
      BY <1>3, <2>2
    <3> QED
      BY <1>4, <1>5, <1>7, <3>1
  <2> QED
    BY <2>1, <2>2
<1>9. faults' = 0 => seen' = ChainOf(Q[1])
  BY <1>1, <1>2, <1>7 DEF Way
<1>10. Way(Q)'
  BY <1>2, <1>4, <1>6, <1>7, <1>8, <1>9 DEF Way, Leads
<1> QED
  BY <1>4, <1>6, <1>10 DEF QueueInv

LEMMA EnvironmentQueue ==
  ASSUME TypeOK, QueueInv, Environment
  PROVE  QueueInv'
<1>1. canon \in Paths /\ canon \in Seq(Blocks) /\ Len(canon) \in Nat
  BY WayType DEF QueueInv, TypeOK
<1>2. CASE Commit
  <2>1. PICK new \in Chains :
          /\ LinkedTo(Tip(canon), new)
          /\ Emit(Notification("committed", <<>>, new), canon \o new)
    BY <1>2 DEF Commit
  <2>2. canon \o new \in Paths
    BY <1>1, <2>1, AppendedPath
  <2>3. Leads(canon, Notification("committed", <<>>, new), canon \o new)
    BY DEF Leads, Notification
  <2> QED
    BY <2>1, <2>2, <2>3, EmitQueue
<1>3. CASE Revert
  <2>1. PICK n \in 0..(Len(canon) - 1) :
          Emit(Notification("reverted", SubSeq(canon, n + 1, Len(canon)), <<>>),
               SubSeq(canon, 1, n))
    BY <1>3 DEF Revert
  <2>2. SubSeq(canon, 1, n) \in Paths
    BY <1>1, PrefixPath
  <2>3. Leads(canon, Notification("reverted", SubSeq(canon, n + 1, Len(canon)), <<>>),
              SubSeq(canon, 1, n))
    BY DEF Leads, Notification
  <2> QED
    BY <2>1, <2>2, <2>3, EmitQueue
<1>4. CASE Reorg
  <2>1. PICK n \in 0..(Len(canon) - 1), new \in Chains :
          /\ LinkedTo(Tip(SubSeq(canon, 1, n)), new)
          /\ Emit(Notification("reorged", SubSeq(canon, n + 1, Len(canon)), new),
                  SubSeq(canon, 1, n) \o new)
    BY <1>4 DEF Reorg
  <2>2. SubSeq(canon, 1, n) \in Paths
    BY <1>1, PrefixPath
  <2>3. SubSeq(canon, 1, n) \o new \in Paths
    BY <2>1, <2>2, AppendedPath
  <2>4. Leads(canon, Notification("reorged", SubSeq(canon, n + 1, Len(canon)), new),
              SubSeq(canon, 1, n) \o new)
    BY DEF Leads, Notification
  <2> QED
    BY <2>1, <2>3, <2>4, EmitQueue
<1> QED
  BY <1>2, <1>3, <1>4 DEF Environment

\* The chain that the ExEx follows is one notification further on.
LEMMA ReceiveQueue ==
  ASSUME TypeOK, NEW S, Way(S), inbox # <<>>, inbox' = Tail(inbox), canon' = canon,
         faults' = 0 => seen' = ChainOf(S[2])
  PROVE  QueueInv'
<1> PICK m : m = Len(inbox)
  OBVIOUS
<1> PICK Q : Q = [i \in 1..m |-> S[i + 1]]
  OBVIOUS
<1>1. m \in Nat /\ m >= 1 /\ inbox \in Seq(Notifications)
  BY DEF TypeOK
<1>2. Len(inbox') = m - 1 /\ \A i \in 1..(m - 1) : inbox'[i] = inbox[i + 1]
  BY <1>1
<1>3. /\ \A i \in 1..(m + 1) : S[i] \in Paths
      /\ S[m + 1] = canon
      /\ \A i \in 1..m : Leads(S[i], inbox[i], S[i + 1])
  BY <1>1 DEF Way
<1>4. Q \in [1..m -> Paths] /\ Q[m] = canon' /\ Q[1] = S[2]
  BY <1>1, <1>3
<1>5. ASSUME NEW i \in 1..(m - 1)
      PROVE  Leads(Q[i], inbox'[i], Q[i + 1])
  <2>1. i + 1 \in 1..m /\ i \in 1..m /\ (i + 1) + 1 \in 1..(m + 1)
    BY <1>1
  <2>2. Q[i] = S[i + 1] /\ Q[i + 1] = S[(i + 1) + 1]
    BY <2>1
  <2> QED
    BY <1>2, <1>3, <2>1, <2>2
<1>6. Len(inbox') + 1 = m
  BY <1>1, <1>2
<1>7. Way(Q)'
  BY <1>2, <1>4, <1>5, <1>6 DEF Way, Leads
<1> QED
  BY <1>4, <1>6, <1>7 DEF QueueInv

LEMMA HandleQueue ==
  ASSUME TypeOK, QueueInv, Handle
  PROVE  QueueInv'
<1>1. PICK S : S \in [1..(Len(inbox) + 1) -> Paths] /\ Way(S)
  BY DEF QueueInv
<1>2. CASE NotificationsClosed
  <2>1. faults' # 0 /\ inbox' = inbox /\ canon' = canon
    BY <1>2 DEF NotificationsClosed, env, TypeOK
  <2>2. Way(S)'
    BY <1>1, <2>1 DEF Way, Leads
  <2> QED
    BY <1>1, <2>1, <2>2 DEF QueueInv
<1>3. CASE ~NotificationsClosed
  <2>1. inbox # <<>> /\ inbox' = Tail(inbox) /\ canon' = canon
    BY <1>3 DEF Handle, HandleCommitted, HandleCommittedFails, HandleReverted,
                HandleOther, Receive
  <2>2. Len(inbox) \in Nat /\ Len(inbox) >= 1 /\ Head(inbox) = inbox[1]
        /\ Head(inbox) \in Notifications
    BY <2>1 DEF TypeOK
  <2>3. Leads(S[1], inbox[1], S[2]) /\ S[1] \in Paths
    BY <1>1, <2>2, WayType DEF Way
  <2> DEFINE c == S[1]  n == Head(inbox)
  <2>4. c \in Seq(Blocks) /\ Len(c) \in Nat
    BY <2>3, PathType
  <2>5. n.old \in Seq(Blocks) /\ n.new \in Seq(Blocks)
    BY <2>2 DEF Notifications
  <2>6. CASE HandleCommitted
    <3>1. n.kind = "committed" /\ faults' = faults /\ seen' = seen \cup ChainOf(n.new)
      BY <2>6 DEF HandleCommitted, Receive, SpawnInsert
    <3>2. S[2] = c \o n.new
      BY <2>2, <2>3, <3>1 DEF Leads
    <3>3. ChainOf(S[2]) = ChainOf(c) \cup ChainOf(n.new)
      BY <2>4, <2>5, <3>2, ConcatBlocks
    <3>4. faults' = 0 => seen' = ChainOf(S[2])
      BY <1>1, <3>1, <3>3 DEF Way
    <3> QED
      BY <1>1, <2>1, <3>4, ReceiveQueue
  <2>7. CASE HandleCommittedFails
    <3>1. faults' # 0
      BY <2>7 DEF HandleCommittedFails, TypeOK
    <3> QED
      BY <1>1, <2>1, <3>1, ReceiveQueue
  <2>8. CASE HandleReverted \/ HandleOther
    <3>1. /\ n.kind = IF HandleReverted THEN "reverted" ELSE "reorged"
          /\ faults' = faults
      BY <2>8 DEF HandleReverted, HandleOther, Receive
    <3>2. PICK k \in 0..(Len(c) - 1) :
            /\ n.old = SubSeq(c, k + 1, Len(c))
            /\ S[2] = IF n.kind = "reverted" THEN SubSeq(c, 1, k)
                      ELSE SubSeq(c, 1, k) \o n.new
      BY <2>2, <2>3, <3>1 DEF Leads
    <3>3. k \in 0..Len(c) /\ SubSeq(c, 1, k) \in Seq(Blocks)
      BY <2>4
    <3>4. ChainOf(SubSeq(c, 1, k)) = ChainOf(c) \ ChainOf(n.old)
      BY <2>3, <3>2, <3>3, PathBlocks
    <3>5. CASE HandleReverted
      <4>1. seen' = seen \ ChainOf(n.old)
        BY <3>5 DEF HandleReverted
      <4>2. faults' = 0 => seen' = ChainOf(S[2])
        BY <1>1, <3>1, <3>2, <3>4, <3>5, <4>1 DEF Way
      <4> QED
        BY <1>1, <2>1, <4>2, ReceiveQueue
    <3>6. CASE ~HandleReverted
      <4>1. seen' = (seen \ ChainOf(n.old)) \cup ChainOf(n.new)
        BY <2>8, <3>6 DEF HandleOther
      <4>2. ChainOf(S[2]) = (ChainOf(c) \ ChainOf(n.old)) \cup ChainOf(n.new)
        <5>1. S[2] = SubSeq(c, 1, k) \o n.new
          BY <3>1, <3>2, <3>6
        <5>2. ChainOf(SubSeq(c, 1, k) \o n.new) = ChainOf(SubSeq(c, 1, k)) \cup ChainOf(n.new)
          BY <2>5, <3>3, ConcatBlocks
        <5> QED
          BY <3>4, <5>1, <5>2
      <4>3. faults' = 0 => seen' = ChainOf(S[2])
        BY <1>1, <3>1, <4>1, <4>2 DEF Way
      <4> QED
        BY <1>1, <2>1, <4>3, ReceiveQueue
    <3> QED
      BY <3>5, <3>6
  <2> QED
    BY <1>3, <2>6, <2>7, <2>8 DEF Handle
<1> QED
  BY <1>2, <1>3

LEMMA NextQueue ==
  ASSUME TypeOK, QueueInv, [Next]_vars
  PROVE  QueueInv'
<1>1. CASE RunTask \/ UNCHANGED vars
  <2>1. /\ UNCHANGED <<canon, inbox, seen>>
        /\ faults' = faults \/ faults' = faults + 1
    BY <1>1 DEF RunTask, RunInsert, RunEmptyInsert, RunMark, SqlFails, Announce, vars, env, exex
  <2>2. PICK S : S \in [1..(Len(inbox) + 1) -> Paths] /\ Way(S)
    BY DEF QueueInv
  <2>3. faults' = 0 => faults = 0
    BY <2>1 DEF TypeOK
  <2>4. Way(S)'
    BY <2>1, <2>2, <2>3 DEF Way, Leads
  <2> QED
    BY <2>1, <2>2, <2>4 DEF QueueInv
<1>2. CASE Crash
  <2>1. canon \in Paths
    BY WayType DEF QueueInv
  <2>2. inbox' = <<>> /\ canon' = canon /\ faults' # 0
    BY <1>2 DEF Crash, TypeOK
  <2> PICK Q : Q = [i \in 1..1 |-> canon]
    OBVIOUS
  <2>3. Len(inbox') = 0 /\ Q \in [1..(Len(inbox') + 1) -> Paths]
    BY <2>1, <2>2
  <2>4. Way(Q)'
    BY <2>2, <2>3 DEF Way
  <2> QED
    BY <2>3, <2>4 DEF QueueInv
<1> QED
  BY <1>1, <1>2, EnvironmentQueue, HandleQueue DEF Next

\* The queue leads from the chain that has been followed to reth's chain.
LEMMA QueueCorrect == Spec => []QueueInv
<1>1. Init => QueueInv
  BY InitQueue
<1>2. TypeOK /\ QueueInv /\ [Next]_vars => QueueInv'
  BY NextQueue
<1> QED
  BY <1>1, <1>2, TypeCorrect, PTL DEF Spec

-----------------------------------------------------------------------------
(***************************************************************************)
(* What follows from it.                                                   *)
(***************************************************************************)
LEMMA QuietSeen ==
  ASSUME TypeOK, QueueInv, faults = 0, inbox = <<>>
  PROVE  seen = ChainOf(canon)
<1>1. PICK S : Way(S)
  BY DEF QueueInv
<1>2. Len(inbox) = 0
  OBVIOUS
<1> QED
  BY <1>1, <1>2 DEF Way

LEMMA MatchesChain ==
  ASSUME TypeOK, IndexConsistent, QueueInv
  PROVE  IndexMatchesChain
<1> SUFFICES ASSUME faults = 0, inbox = <<>>, tasks = {}, NEW b \in Blocks \ tainted
             PROVE  IF b \in ChainOf(canon) THEN StoredOnce(b) ELSE Live(table, b) = {}
  BY DEF IndexMatchesChain, Quiescent
<1>1. seen = ChainOf(canon) /\ ~Busy(b)
  BY QuietSeen DEF Busy
<1> QED
  BY <1>1 DEF IndexConsistent

\* Without faults, once everything queued has been handled and every task has
\* ended, the live rows are the logs of reth's canonical chain, but for the
\* blocks whose statements overlapped.
THEOREM MatchesCanonical == Spec => []IndexMatchesChain
BY MatchesChain, TypeCorrect, Consistent, QueueCorrect, PTL

\* Where the elements of a concatenation come from.
LEMMA ConcatFacts ==
  ASSUME NEW c \in Seq(Blocks), NEW d \in Seq(Blocks)
  PROVE  /\ Len(c \o d) = Len(c) + Len(d) /\ Len(c) \in Nat /\ Len(d) \in Nat
         /\ \A j \in 1..Len(c) : (c \o d)[j] = c[j]
OBVIOUS

\* Chain c begins with chain b.
Begins(c, b) == Len(b) <= Len(c) /\ \A j \in 1..Len(b) : c[j] = b[j]

\* A chain that begins with another one still does when it is extended.
LEMMA ExtendedPrefix ==
  ASSUME NEW b \in Seq(Blocks), NEW c \in Seq(Blocks), NEW d \in Seq(Blocks), Begins(c, b)
  PROVE  Begins(c \o d, b)
<1>1. /\ Len(c \o d) = Len(c) + Len(d) /\ Len(c) \in Nat /\ Len(d) \in Nat
      /\ \A j \in 1..Len(c) : (c \o d)[j] = c[j]
  BY ConcatFacts
<1>2. Len(b) \in Nat
  OBVIOUS
<1> QED
  BY <1>1, <1>2 DEF Begins

\* Commits only ever extend the chain.
LEMMA BacklogExtends ==
  ASSUME TypeOK, NEW S, Way(S), inbox # <<>>,
         \A i \in 2..Len(inbox) : inbox[i].kind = "committed"
  PROVE  Begins(canon, S[2])
<1> PICK m : m = Len(inbox) + 1
  OBVIOUS
<1>1. m \in Nat /\ m >= 2 /\ inbox \in Seq(Notifications) /\ Len(inbox) = m - 1
  BY DEF TypeOK
<1>2. /\ \A i \in 1..m : S[i] \in Paths
      /\ S[m] = canon
      /\ \A i \in 1..(m - 1) : Leads(S[i], inbox[i], S[i + 1])
  BY <1>1, WayType DEF Way
<1> DEFINE Extended == {i \in Nat : i <= m => Begins(S[i], S[2])}
<1>3. 2 \in Extended
  <2>1. Len(S[2]) \in Nat
    BY <1>1, <1>2, PathType
  <2> QED
    BY <2>1 DEF Begins
<1>4. ASSUME NEW i \in Nat, i >= 2, i \in Extended
      PROVE  i + 1 \in Extended
  <2> SUFFICES ASSUME i + 1 <= m PROVE Begins(S[i + 1], S[2])
    OBVIOUS
  <2>1. i \in 2..(m - 1) /\ i \in 1..m /\ 2 \in 1..m
    BY <1>1, <1>4
  <2>2. Leads(S[i], inbox[i], S[i + 1]) /\ inbox[i].kind = "committed"
    BY <1>1, <1>2, <2>1
  <2>3. S[i + 1] = S[i] \o inbox[i].new
    BY <2>2 DEF Leads
  <2>4. inbox[i].new \in Seq(Blocks)
    BY <1>1, <2>1 DEF Notifications
  <2>5. S[i] \in Seq(Blocks) /\ S[2] \in Seq(Blocks)
    BY <1>2, <2>1, PathType
  <2>6. Begins(S[i], S[2])
    BY <1>1, <1>4, <2>1
  <2>7. Begins(S[i] \o inbox[i].new, S[2])
    BY <2>4, <2>5, <2>6, ExtendedPrefix
  <2> QED
    BY <2>3, <2>7
<1> HIDE DEF Extended
<1>5. \A i \in Nat : i >= 2 => i \in Extended
  BY <1>3, <1>4, FromOn
<1>6. m \in Extended
  BY <1>1, <1>5
<1> QED
  BY <1>1, <1>2, <1>6 DEF Extended

\* The block before a chain's extension is found by its number in any chain
\* that begins with the extended one.
LEMMA ParentState ==
  ASSUME TypeOK, NEW c \in Paths, NEW new \in Seq(Blocks), new # <<>>, c \o new \in Paths,
         Begins(canon, c \o new)
  PROVE  LET base == HistoricalState(Number[new[1]])
         IN  /\ new[1] \in ChainOf(new) /\ Parent[new[1]] = base
             /\ base \notin ChainOf(new)
<1>1. /\ Len(c \o new) = Len(c) + Len(new) /\ Len(c) \in Nat /\ Len(new) \in Nat \ {0}
      /\ \A j \in 1..Len(c) : (c \o new)[j] = c[j]
      /\ Number[new[1]] = Start + Len(c) + 1 /\ Parent[new[1]] = Tip(c)
      /\ Tip(c) \notin ChainOf(new)
  BY AppendedBlocks
<1>2. canon \in Seq(Blocks) /\ Len(canon) \in Nat /\ c \in Seq(Blocks) /\ Start \in Nat
  BY PathType, ChainAssumption DEF TypeOK
<1>3. Number[new[1]] - Start - 1 = Len(c) /\ Len(c) <= Len(canon)
  BY <1>1, <1>2 DEF Begins
<1>4. HistoricalState(Number[new[1]]) = Tip(SubSeq(canon, 1, Len(c)))
  BY <1>3 DEF HistoricalState
<1>5. \A j \in 1..Len(c) : canon[j] = c[j]
  <2>1. \A j \in 1..Len(c) : j \in 1..Len(c \o new)
    BY <1>1
  <2> QED
    BY <1>1, <2>1 DEF Begins
<1>6. SubSeq(canon, 1, Len(c)) = c
  BY <1>1, <1>2, <1>3, <1>5
<1>7. new[1] \in ChainOf(new)
  BY <1>1 DEF ChainOf
<1> QED
  BY <1>1, <1>4, <1>6, <1>7

\* The state that an INSERT at the head of a backlog of commits starts from.
LEMMA BacklogState ==
  ASSUME TypeOK, QueueInv, inbox # <<>>, Head(inbox).kind = "committed",
         \A i \in 2..Len(inbox) : inbox[i].kind = "committed"
  PROVE  LET new  == Head(inbox).new
             base == HistoricalState(Number[new[1]])
         IN  /\ new[1] \in ChainOf(new) /\ Parent[new[1]] = base
             /\ base \notin ChainOf(new)
<1>1. PICK S : Way(S)
  BY DEF QueueInv
<1>2. /\ Len(inbox) \in Nat /\ Len(inbox) >= 1 /\ Head(inbox) = inbox[1]
      /\ Head(inbox) \in Notifications
  BY DEF TypeOK
<1>3. Head(inbox).new \in Seq(Blocks) /\ Head(inbox).new # <<>>
  BY <1>2 DEF Notifications
<1>4. S[1] \in Paths /\ S[2] \in Paths /\ S[2] = S[1] \o Head(inbox).new
  <2>1. Leads(S[1], inbox[1], S[2])
    BY <1>1, <1>2 DEF Way
  <2>2. 1 \in 1..(Len(inbox) + 1) /\ 2 \in 1..(Len(inbox) + 1)
    BY <1>2
  <2> QED
    BY <1>1, <1>2, <2>1, <2>2, WayType DEF Leads
<1>5. Begins(canon, S[2])
  BY <1>1, BacklogExtends
<1>6. S[1] \o Head(inbox).new \in Paths
  BY <1>4
<1>7. Begins(canon, S[1] \o Head(inbox).new)
  BY <1>4, <1>5
<1> HIDE DEF TypeOK
<1> QED
  BY <1>3, <1>4, <1>6, <1>7, ParentState

\* Only SpawnInsert brings an open INSERT about.
LEMMA SpawnedInsert ==
  ASSUME TypeOK, [Next]_vars, NEW t \in tasks' \ tasks, t.kind = "insert", t.sql = "todo"
  PROVE  /\ inbox # <<>> /\ Head(inbox).kind = "committed"
         /\ t = InsertTask(handled, HistoricalState(Number[Head(inbox).new[1]]),
                           ChainOf(Head(inbox).new))
<1>1. CASE Environment \/ UNCHANGED vars \/ Crash
  BY <1>1 DEF Environment, Commit, Revert, Reorg, Emit, exex, vars, Crash
<1>2. CASE RunInsert \/ RunEmptyInsert \/ RunMark \/ SqlFails
  <2>1. PICK s \in tasks : tasks' = AfterSql(s)
    BY <1>2 DEF RunInsert, RunEmptyInsert, RunMark, SqlFails
  <2>2. s \in Tasks /\ t = [s EXCEPT !.sql = "done"]
    BY <2>1 DEF AfterSql, TypeOK
  <2> QED
    BY <2>2 DEF Tasks
<1>3. CASE Announce
  <2>1. PICK s \in tasks : \E b \in s.unsent :
          /\ s.sql = "done"
          /\ tasks' \subseteq tasks \cup {[s EXCEPT !.unsent = s.unsent \ {b}]}
    BY <1>3 DEF Announce
  <2>2. PICK b : t = [s EXCEPT !.unsent = s.unsent \ {b}]
    BY <2>1
  <2>3. s \in Tasks
    BY DEF TypeOK
  <2> QED
    BY <2>1, <2>2, <2>3 DEF Tasks
<1>4. CASE Handle
  <2>1. CASE HandleReverted
    BY <2>1 DEF HandleReverted, MarkTask
  <2>2. CASE HandleCommitted \/ HandleCommittedFails
    BY <2>2 DEF HandleCommitted, HandleCommittedFails, Receive, SpawnInsert
  <2>3. CASE HandleOther \/ NotificationsClosed
    BY <2>3 DEF HandleOther, NotificationsClosed
  <2> QED
    BY <1>4, <2>1, <2>2, <2>3 DEF Handle
<1> QED
  BY <1>1, <1>2, <1>3, <1>4 DEF Next, RunTask

\* However many commits are queued behind the one being handled, its execution
\* starts from the state after the parent of its first block.
THEOREM BacklogHarmless == Spec => BacklogKeepsParentState
<1> DEFINE Kept == \A t \in tasks' \ tasks :
       (/\ t.kind = "insert" /\ t.sql = "todo"
        /\ \A i \in 2..Len(inbox) : inbox[i].kind = "committed") =>
         \E b \in t.blocks : Parent[b] = t.base /\ t.base \notin t.blocks
<1>1. ASSUME TypeOK, QueueInv, [Next]_vars
      PROVE  Kept
  <2> SUFFICES ASSUME NEW t \in tasks' \ tasks, t.kind = "insert", t.sql = "todo",
                      \A i \in 2..Len(inbox) : inbox[i].kind = "committed"
               PROVE  \E b \in t.blocks : Parent[b] = t.base /\ t.base \notin t.blocks
    OBVIOUS
  <2> PICK new : new = Head(inbox).new
    OBVIOUS
  <2>1. /\ inbox # <<>> /\ Head(inbox).kind = "committed"
        /\ t = InsertTask(handled, HistoricalState(Number[new[1]]), ChainOf(new))
    BY <1>1, SpawnedInsert
  <2>2. t.base = HistoricalState(Number[new[1]]) /\ t.blocks = ChainOf(new)
    BY <2>1 DEF InsertTask
  <2>3. /\ new[1] \in ChainOf(new) /\ Parent[new[1]] = HistoricalState(Number[new[1]])
        /\ HistoricalState(Number[new[1]]) \notin ChainOf(new)
    BY <1>1, <2>1, BacklogState
  <2> QED
    BY <2>2, <2>3
<1>2. TypeOK /\ QueueInv /\ [Next]_vars => [Kept]_vars
  BY <1>1
<1> QED
  BY <1>2, TypeCorrect, QueueCorrect, PTL DEF Spec, BacklogKeepsParentState
=============================================================================
