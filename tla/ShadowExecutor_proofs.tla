----------------------- MODULE ShadowExecutor_proofs -----------------------
(***************************************************************************)
(* The re-execution of notifications, for every set of contracts, every    *)
(* shadow.json, every run of notifications and whatever fails: what is     *)
(* produced has its type, shadowed contracts run their shadow bytecode,    *)
(* and the rows are the logs of the transactions that ran.                 *)
(***************************************************************************)
EXTENDS ShadowExecutor, NaturalsLeast, FiniteSetTheorems

-----------------------------------------------------------------------------
(***************************************************************************)
(* The two recursive functions: the machine after each operation of a      *)
(* transaction, and the sequences joined up to each position.              *)
(***************************************************************************)
\* f is the run of a transaction's first n operations.
Performs(f, tx, n, unreadable) ==
  f = [i \in 0..n |->
         IF i = 0 THEN Machine ELSE Perform(f[i - 1], Does[tx][i], unreadable)]

LEMMA PerformsExists ==
  ASSUME NEW tx, NEW n \in Nat, NEW unreadable
  PROVE  \E f : Performs(f, tx, n, unreadable)
<1> DEFINE Reached == {k \in Nat : \E f : Performs(f, tx, k, unreadable)}
<1>1. 0 \in Reached
  <2>1. Performs([i \in 0..0 |-> Machine], tx, 0, unreadable)
    BY DEF Performs
  <2> QED
    BY <2>1
<1>2. ASSUME NEW k \in Nat, k \in Reached
      PROVE  k + 1 \in Reached
  <2>1. PICK f : Performs(f, tx, k, unreadable)
    BY <1>2
  <2> DEFINE last == Perform(f[k], Does[tx][k + 1], unreadable)
             g    == [i \in 0..(k + 1) |-> IF i <= k THEN f[i] ELSE last]
  <2>2. ASSUME NEW i \in 0..(k + 1)
        PROVE  g[i] = IF i = 0 THEN Machine ELSE Perform(g[i - 1], Does[tx][i], unreadable)
    <3>1. CASE i = 0
      BY <2>1, <3>1 DEF Performs
    <3>2. CASE i \in 1..k
      <4>1. /\ i \in 0..k /\ i # 0 /\ i - 1 \in 0..(k + 1)
            /\ g[i] = f[i] /\ g[i - 1] = f[i - 1]
        BY <3>2
      <4> QED
        BY <2>1, <4>1 DEF Performs
    <3>3. CASE i = k + 1
      <4>1. i - 1 = k /\ k \in 0..(k + 1) /\ i # 0 /\ ~(i <= k)
        BY <3>3
      <4>2. g[i] = last /\ g[i - 1] = f[k]
        BY <4>1
      <4> QED
        BY <3>3, <4>1, <4>2
    <3> QED
      BY <3>1, <3>2, <3>3
  <2> HIDE DEF last
  <2>3. g = [i \in 0..(k + 1) |-> g[i]]
    OBVIOUS
  <2> HIDE DEF g
  <2>4. Performs(g, tx, k + 1, unreadable)
    BY <2>2, <2>3, Zenon DEF Performs
  <2> QED
    BY <2>4
<1> HIDE DEF Reached
<1>3. \A k \in Nat : k >= 0 => k \in Reached
  BY <1>1, <1>2, FromOn
<1> QED
  BY <1>3 DEF Reached

\* The same, said by its steps; m is the machine it ends with.
EndsWith(f, tx, n, unreadable, m) ==
  /\ f[0] = Machine /\ f[n] = m
  /\ \A i \in 1..n : f[i] = Perform(f[i - 1], Does[tx][i], unreadable)

LEMMA TransactRun ==
  ASSUME NEW tx, NEW n \in Nat, NEW unreadable
  PROVE  \E f : EndsWith(f, tx, n, unreadable, Transact(tx, n, unreadable))
<1> DEFINE f == CHOOSE g : Performs(g, tx, n, unreadable)
<1>1. Performs(f, tx, n, unreadable)
  BY PerformsExists
<1>2. Transact(tx, n, unreadable) = f[n]
  BY Zenon DEF Transact, Performs
<1> HIDE DEF f
<1>3. \A i \in 0..n :
        f[i] = IF i = 0 THEN Machine ELSE Perform(f[i - 1], Does[tx][i], unreadable)
  BY <1>1, Zenon DEF Performs
<1>4. \A i \in 1..n : i \in 0..n /\ i # 0
  OBVIOUS
<1>5. 0 \in 0..n
  OBVIOUS
<1> QED
  BY <1>2, <1>3, <1>4, <1>5 DEF EndsWith

\* f joins the sequences up to each position.
Joins(f, seqs, n) ==
  f = [i \in 1..n |-> IF i = 1 THEN seqs[i] ELSE f[i - 1] \o seqs[i]]

LEMMA JoinsExists ==
  ASSUME NEW seqs, NEW n \in Nat, n >= 1
  PROVE  \E f : Joins(f, seqs, n)
<1> DEFINE Reached == {k \in Nat : \E f : Joins(f, seqs, k)}
<1>1. 1 \in Reached
  <2>1. Joins([i \in 1..1 |-> seqs[1]], seqs, 1)
    BY DEF Joins
  <2> QED
    BY <2>1
<1>2. ASSUME NEW k \in Nat, k >= 1, k \in Reached
      PROVE  k + 1 \in Reached
  <2>1. PICK f : Joins(f, seqs, k)
    BY <1>2
  <2> DEFINE last == f[k] \o seqs[k + 1]
             g    == [i \in 1..(k + 1) |-> IF i <= k THEN f[i] ELSE last]
  <2> HIDE DEF last
  <2>2. \A i \in 1..k : f[i] = IF i = 1 THEN seqs[i] ELSE f[i - 1] \o seqs[i]
    BY <2>1, Zenon DEF Joins
  <2>3. /\ g = [i \in 1..(k + 1) |-> g[i]]
        /\ \A i \in 1..k : g[i] = f[i] /\ (i # 1 => g[i - 1] = f[i - 1])
        /\ g[k + 1] = last /\ g[k] = f[k]
    BY <1>2
  <2> HIDE DEF g
  <2>5. ASSUME NEW i \in 1..(k + 1)
        PROVE  g[i] = IF i = 1 THEN seqs[i] ELSE g[i - 1] \o seqs[i]
    <3>1. CASE i \in 1..k
      <4>1. CASE i = 1
        BY <2>2, <2>3, <3>1, <4>1, Zenon
      <4>2. CASE i # 1
        BY <2>2, <2>3, <3>1, <4>2, Zenon
      <4> QED
        BY <4>1, <4>2, Zenon
    <3>2. CASE i = k + 1
      <4>1. i - 1 = k /\ i # 1
        BY <1>2, <3>2
      <4> QED
        BY <2>3, <3>2, <4>1, Zenon DEF last
    <3> QED
      BY <3>1, <3>2
  <2>4. Joins(g, seqs, k + 1)
    BY <2>5, <2>3, Zenon DEF Joins
  <2> QED
    BY <2>4
<1> HIDE DEF Reached
<1>3. \A k \in Nat : k >= 1 => k \in Reached
  BY <1>1, <1>2, FromOn
<1> QED
  BY <1>3 DEF Reached

LEMMA FlattenType ==
  ASSUME NEW S, NEW seqs \in Seq(Seq(S))
  PROVE  FlattenSeq(seqs) \in Seq(S)
<1>1. CASE Len(seqs) = 0
  BY <1>1 DEF FlattenSeq
<1>2. CASE Len(seqs) # 0
  <2> DEFINE n == Len(seqs)
             f == CHOOSE g : Joins(g, seqs, n)
  <2>1. n \in Nat /\ n >= 1
    BY <1>2
  <2>2. Joins(f, seqs, n)
    BY <2>1, JoinsExists
  <2>3. FlattenSeq(seqs) = f[n]
    BY <1>2, Zenon DEF FlattenSeq, Joins
  <2> HIDE DEF f, n
  <2>4. \A i \in 1..n : f[i] = IF i = 1 THEN seqs[i] ELSE f[i - 1] \o seqs[i]
    BY <2>2, Zenon DEF Joins
  <2>5. \A i \in 1..n : seqs[i] \in Seq(S)
    BY DEF n
  <2> DEFINE Typed == {k \in Nat : k <= n => f[k] \in Seq(S)}
  <2>6. 1 \in Typed
    BY <2>1, <2>4, <2>5
  <2>7. ASSUME NEW k \in Nat, k >= 1, k \in Typed
        PROVE  k + 1 \in Typed
    <3> SUFFICES ASSUME k + 1 <= n
                 PROVE  f[k + 1] \in Seq(S)
      BY <2>7
    <3>1. k + 1 \in 1..n /\ k + 1 # 1 /\ (k + 1) - 1 = k /\ k <= n
      BY <2>1, <2>7
    <3>2. f[k + 1] = f[k] \o seqs[k + 1]
      BY <2>4, <3>1
    <3>3. f[k] \in Seq(S) /\ seqs[k + 1] \in Seq(S)
      BY <2>5, <2>7, <3>1
    <3> QED
      BY <3>2, <3>3
  <2> HIDE DEF Typed
  <2>8. \A k \in Nat : k >= 1 => k \in Typed
    BY <2>6, <2>7, FromOn
  <2> QED
    BY <2>1, <2>3, <2>8 DEF Typed
<1> QED
  BY <1>1, <1>2

-----------------------------------------------------------------------------
(***************************************************************************)
(* Types.                                                                  *)
(***************************************************************************)
LEMMA BytecodeFound ==
  ASSUME NEW hash, NEW unreadable
  PROVE  /\ CodeByHash(hash, unreadable) \in Code \cup {NoCode}
         /\ \/ CodeByHash(hash, unreadable) = NoCode
            \/ HashOf(CodeByHash(hash, unreadable)) = hash
<1> DEFINE found == ShadowCodeByHash(hash)
           known == {c \in Code \ unreadable : HashOf(c) = hash}
<1>1. \A c \in found : c \in Code \cup {NoCode} /\ HashOf(c) = hash
  BY ShadowAssumption DEF ShadowCodeByHash, Shadowed
<1>2. \A c \in known : c \in Code /\ HashOf(c) = hash
  OBVIOUS
<1>3. \/ CodeByHash(hash, unreadable) \in found
      \/ CodeByHash(hash, unreadable) \in known
      \/ CodeByHash(hash, unreadable) = NoCode
  BY DEF CodeByHash
<1> QED
  BY <1>1, <1>2, <1>3

AccountsTyped(as) ==
  DOMAIN as \subseteq Address /\ \A a \in DOMAIN as : as[a] \in AccountInfo

ContractsTyped(cs) == \A h \in DOMAIN cs : cs[h] \in Code \cup {NoCode}

MachineTyped(m) ==
  AccountsTyped(m.accounts) /\ ContractsTyped(m.contracts) /\ m.runs \in Runs

LEMMA InfoTyped ==
  ASSUME world \in Worlds, NEW m, MachineTyped(m), NEW a \in Address, Exists(m, a)
  PROVE  InfoOf(m, a) \in AccountInfo
<1>1. CASE a \in DOMAIN m.accounts
  BY <1>1 DEF InfoOf, MachineTyped, AccountsTyped
<1>2. CASE a \notin DOMAIN m.accounts
  <2>1. world[a] \in Code \cup {NoCode}
    BY <1>2 DEF Exists, Worlds
  <2>2. a \in Shadowed => ShadowJson[a] \in Code \cup {NoCode}
    BY ShadowAssumption DEF Shadowed
  <2>3. Basic(world, a) \in AccountInfo
    BY <2>1, <2>2, ShadowAssumption DEF Basic, IsShadowed, AccountInfo
  <2> QED
    BY <1>2, <2>3 DEF InfoOf
<1> QED
  BY <1>1, <1>2

LEMMA CallTyped ==
  ASSUME world \in Worlds, NEW m, MachineTyped(m), NEW a \in Address, NEW unreadable
  PROVE  MachineTyped(Call(m, a, unreadable))
<1>1. CASE ~Exists(m, a)
  BY <1>1 DEF Call
<1>2. CASE Exists(m, a)
  <2> DEFINE info == InfoOf(m, a)
             code == CASE info.code # Unloaded -> info.code
                       [] info.code = Unloaded /\ info.hash = HashOf(NoCode) -> NoCode
                       [] info.code = Unloaded /\ info.hash \in DOMAIN m.contracts
                            /\ info.hash # HashOf(NoCode) -> m.contracts[info.hash]
                       [] OTHER -> CodeByHash(info.hash, unreadable)
             cs   == IF info.code = Unloaded THEN With(m.contracts, info.hash, code)
                     ELSE m.contracts
  <2>1. info \in AccountInfo
    BY <1>2, InfoTyped
  <2> HIDE DEF info
  <2>2. code \in Code \cup {NoCode}
    BY <2>1, BytecodeFound DEF AccountInfo, MachineTyped, ContractsTyped
  <2>3. Call(m, a, unreadable)
          = [accounts |-> m.accounts, contracts |-> cs,
             runs |-> Append(m.runs, [to |-> a, code |-> code])]
    BY <1>2 DEF Call, info
  <2> HIDE DEF code
  <2>4. ContractsTyped(cs)
    BY <2>2 DEF MachineTyped, ContractsTyped, With
  <2> HIDE DEF cs
  <2>5. Append(m.runs, [to |-> a, code |-> code]) \in Runs
    BY <2>2 DEF MachineTyped, Runs
  <2> QED
    BY <2>3, <2>4, <2>5 DEF MachineTyped
<1> QED
  BY <1>1, <1>2

LEMMA CreateTyped ==
  ASSUME NEW m, MachineTyped(m), NEW a \in Address, NEW code \in Code
  PROVE  MachineTyped(Create(m, a, code))
<1> DEFINE as == With(m.accounts, a, [hash |-> HashOf(code), code |-> code])
<1>1. AccountsTyped(as)
  BY DEF MachineTyped, AccountsTyped, With, AccountInfo
<1> HIDE DEF as
<1>2. \/ Create(m, a, code) = m
      \/ Create(m, a, code) = [accounts |-> as, contracts |-> m.contracts, runs |-> m.runs]
  BY Zenon DEF Create, as
<1>3. MachineTyped([accounts |-> as, contracts |-> m.contracts, runs |-> m.runs])
  BY <1>1 DEF MachineTyped
<1> QED
  BY <1>2, <1>3, Zenon

LEMMA TransactTyped ==
  ASSUME world \in Worlds, AccountsTyped(accounts), ContractsTyped(contracts),
         NEW tx \in Tx, NEW n \in 0..Len(Does[tx]), NEW unreadable
  PROVE  MachineTyped(Transact(tx, n, unreadable))
<1>1. /\ n \in Nat
      /\ \A i \in 1..n : Does[tx][i] \in Ops
  BY ExecutorAssumption
<1>0. PICK f : EndsWith(f, tx, n, unreadable, Transact(tx, n, unreadable))
  BY <1>1, TransactRun
<1>2. /\ f[0] = Machine
      /\ \A i \in 1..n : f[i] = Perform(f[i - 1], Does[tx][i], unreadable)
      /\ Transact(tx, n, unreadable) = f[n]
  BY <1>0, Zenon DEF EndsWith
<1> DEFINE Typed == {i \in Nat : i <= n => MachineTyped(f[i])}
<1>3. 0 \in Typed
  <2>1. MachineTyped(Machine)
    BY DEF Machine, MachineTyped, Runs
  <2> QED
    BY <1>2, <2>1
<1>4. ASSUME NEW i \in Nat, i \in Typed
      PROVE  i + 1 \in Typed
  <2> SUFFICES ASSUME i + 1 <= n PROVE MachineTyped(f[i + 1])
    OBVIOUS
  <2>1. i + 1 \in 1..n /\ i <= n /\ (i + 1) - 1 = i
    BY <1>1
  <2>2. MachineTyped(f[i]) /\ Does[tx][i + 1] \in Ops
    BY <1>1, <1>4, <2>1
  <2>3. f[i + 1] = Perform(f[i], Does[tx][i + 1], unreadable)
    BY <1>2, <2>1
  <2> QED
    BY <2>2, <2>3, CallTyped, CreateTyped DEF Perform, Ops
<1> HIDE DEF Typed
<1>5. \A i \in Nat : i >= 0 => i \in Typed
  BY <1>3, <1>4, FromOn
<1> QED
  BY <1>1, <1>2, <1>5 DEF Typed

LEMMA RunTyped ==
  ASSUME NEW runs \in Runs, NEW i \in DOMAIN runs
  PROVE  runs[i].to \in Address /\ runs[i].code \in Code \cup {NoCode}
<1> DEFINE R == [to : Address, code : Code \cup {NoCode}]
<1>1. runs \in Seq(R)
  BY DEF Runs
<1> HIDE DEF R
<1>2. runs[i] \in R
  BY <1>1
<1> QED
  BY <1>2 DEF R

LEMMA LogsTyped ==
  ASSUME NEW runs \in Runs
  PROVE  LogsOf(runs) \in Seq([address : Address, data : Code])
<1> DEFINE S == [address : Address, data : Code]
           e(i) == [k \in 1..Emits[runs[i].code] |->
                      [address |-> runs[i].to, data |-> runs[i].code]]
           seqs == [i \in DOMAIN runs |-> e(i)]
<1>1. ASSUME NEW i \in DOMAIN runs
      PROVE  e(i) \in Seq(S)
  <2>1. runs[i].to \in Address /\ runs[i].code \in Code \cup {NoCode}
    BY RunTyped
  <2>2. /\ Emits[runs[i].code] \in Nat
        /\ Emits[runs[i].code] > 0 => runs[i].code \in Code
    BY <2>1, ExecutorAssumption
  <2>3. \A k \in 1..Emits[runs[i].code] :
          [address |-> runs[i].to, data |-> runs[i].code] \in S
    BY <2>1, <2>2
  <2> HIDE DEF S
  <2> QED
    BY <2>2, <2>3
<1>2. DOMAIN runs = 1..Len(runs) /\ Len(runs) \in Nat
  BY DEF Runs
<1> HIDE DEF S, e
<1>3. seqs \in Seq(Seq(S))
  BY <1>1, <1>2
<1>4. LogsOf(runs) = FlattenSeq(seqs)
  BY DEF LogsOf, e
<1> HIDE DEF seqs
<1> QED
  BY <1>3, <1>4, FlattenType DEF S

LEMMA CanonicalTyped ==
  ASSUME NEW w \in Worlds, NEW blocks \in Seq(Blocks)
  PROVE  Canonical(w, blocks) \in Worlds
<1> DEFINE ops == UNION {UNION {{Does[t][i] : i \in DOMAIN Does[t]} :
                t \in {Transactions[b][j] : j \in DOMAIN Transactions[b]}} :
               b \in {blocks[k] : k \in DOMAIN blocks}}
           creations(a) == {op \in ops : op.kind = "create" /\ op.to = a}
           after(a) == IF w[a] \in {Absent, NoCode} /\ creations(a) # {}
                       THEN (CHOOSE op \in creations(a) : TRUE).code ELSE w[a]
<1>1. \A b \in Blocks : \A j \in DOMAIN Transactions[b] : Transactions[b][j] \in Tx
  BY ExecutorAssumption
<1>2. \A t \in Tx : \A i \in DOMAIN Does[t] : Does[t][i] \in Ops
  BY ExecutorAssumption
<1>3. \A k \in DOMAIN blocks : blocks[k] \in Blocks
  OBVIOUS
<1>4. ops \subseteq Ops
  <2> SUFFICES ASSUME NEW op \in ops PROVE op \in Ops
    OBVIOUS
  <2> DEFINE of(t) == {Does[t][i] : i \in DOMAIN Does[t]}
             in(b) == UNION {of(t) : t \in {Transactions[b][j] : j \in DOMAIN Transactions[b]}}
  <2>1. PICK k \in DOMAIN blocks : op \in in(blocks[k])
    OBVIOUS
  <2> HIDE DEF of
  <2>2. PICK j \in DOMAIN Transactions[blocks[k]] : op \in of(Transactions[blocks[k]][j])
    BY <2>1
  <2>3. Transactions[blocks[k]][j] \in Tx
    BY <1>1, <1>3
  <2> QED
    BY <1>2, <2>2, <2>3 DEF of
<1> HIDE DEF ops
<1>5. ASSUME NEW a \in Address
      PROVE  after(a) \in Code \cup {NoCode, Absent}
  <2>1. CASE w[a] \in {Absent, NoCode} /\ creations(a) # {}
    <3>1. (CHOOSE op \in creations(a) : TRUE) \in creations(a)
      BY <2>1, Zenon
    <3> DEFINE op == CHOOSE o \in creations(a) : TRUE
    <3>2. op \in Ops /\ op.kind = "create"
      BY <1>4, <3>1
    <3> HIDE DEF op
    <3>3. op.code \in Code
      BY <3>2 DEF Ops
    <3> QED
      BY <2>1, <3>3 DEF op
  <2>2. CASE ~(w[a] \in {Absent, NoCode} /\ creations(a) # {})
    BY <2>2 DEF Worlds
  <2> QED
    BY <2>1, <2>2
<1>6. Canonical(w, blocks) = [a \in Address |-> after(a)]
  BY Zenon DEF Canonical, ops
<1> HIDE DEF after
<1> QED
  BY <1>5, <1>6 DEF Worlds

\* Where each phase is in the notification.
PhaseInv ==
  /\ phase = "executing" => Len(done) < Len(chain)
  /\ phase \in {"idle", "collected"} => done = <<>>
  /\ phase # "executing" => results = {}
  /\ IsFiniteSet(results)
  /\ \A i \in DOMAIN done : IsFiniteSet(done[i].results)

TypeInv == TypeOK /\ PhaseInv

LEMMA InitTyped == Init => TypeInv
<1> SUFFICES ASSUME Init PROVE TypeInv
  OBVIOUS
<1>1. world \in Worlds /\ left \in Seq(Seq(Blocks) \ {<<>>})
  BY ExecutorAssumption DEF Init
<1>2. IsFiniteSet({})
  BY FS_EmptySet
<1> QED
  BY <1>1, <1>2 DEF Init, TypeInv, TypeOK, PhaseInv

LEMMA NewTyped ==
  ASSUME TypeInv, New
  PROVE  TypeInv'
<1>1. /\ Head(left) \in Seq(Blocks) \ {<<>>} /\ Tail(left) \in Seq(Seq(Blocks) \ {<<>>})
  BY DEF New, TypeInv, TypeOK
<1>2. chain' \in Seq(Blocks) /\ chain' # <<>> /\ chain'[1] \in Blocks /\ 0 < Len(chain')
  BY <1>1 DEF New
<1>3. todo' \in Seq(Tx)
  BY <1>2, ExecutorAssumption DEF New
<1>4. world' \in Worlds
  BY CanonicalTyped DEF New, TypeInv, TypeOK
<1>5. Len(done) < Len(chain')
  BY <1>2 DEF New, TypeInv, PhaseInv
<1>6. TypeOK'
  BY <1>1, <1>2, <1>3, <1>4 DEF New, TypeInv, TypeOK
<1>7. PhaseInv'
  BY <1>5 DEF New, TypeInv, PhaseInv
<1> QED
  BY <1>6, <1>7 DEF TypeInv

\* What the steps of a transaction need of the type invariant.
LEMMA TransactionDue ==
  ASSUME TypeInv, phase = "executing"
  PROVE  /\ Current \in Blocks
         /\ world \in Worlds /\ AccountsTyped(accounts) /\ ContractsTyped(contracts)
         /\ todo # <<>> => Head(todo) \in Tx /\ Tail(todo) \in Seq(Tx)
BY DEF TypeInv, TypeOK, PhaseInv, Current, AccountsTyped, ContractsTyped

LEMMA SkipUnsignedTyped ==
  ASSUME TypeInv, SkipUnsigned
  PROVE  TypeInv'
<1>1. todo' \in Seq(Tx)
  BY TransactionDue DEF SkipUnsigned, NextTransaction
<1>2. TypeOK'
  BY <1>1 DEF SkipUnsigned, NextTransaction, TypeInv, TypeOK
<1>3. PhaseInv'
  BY DEF SkipUnsigned, NextTransaction, TypeInv, PhaseInv
<1> QED
  BY <1>2, <1>3 DEF TypeInv

LEMMA SkipFailedTyped ==
  ASSUME TypeInv, SkipFailed
  PROVE  TypeInv'
<1>1. todo' \in Seq(Tx) /\ Head(todo) \in Tx
  BY TransactionDue DEF SkipFailed, NextTransaction
<1>2. PICK n \in 0..Len(Does[Head(todo)]), unreadable \in SUBSET Unreliable :
        contracts' = Transact(Head(todo), n, unreadable).contracts
  BY DEF SkipFailed
<1>3. ContractsTyped(contracts')
  BY <1>1, <1>2, TransactTyped, TransactionDue DEF SkipFailed, NextTransaction, MachineTyped
<1>4. TypeOK'
  BY <1>1, <1>3 DEF SkipFailed, NextTransaction, TypeInv, TypeOK, ContractsTyped
<1>5. PhaseInv'
  BY DEF SkipFailed, NextTransaction, TypeInv, PhaseInv
<1> QED
  BY <1>4, <1>5 DEF TypeInv

LEMMA HaltTyped ==
  ASSUME TypeInv, Halt
  PROVE  TypeInv'
<1>1. todo' \in Seq(Tx) /\ Head(todo) \in Tx /\ Current \in Blocks
  BY TransactionDue DEF Halt, NextTransaction
<1> DEFINE t == Head(todo)
<1>2. PICK n \in 0..Len(Does[t]), unreadable \in SUBSET Unreliable :
        /\ contracts' = Transact(t, n, unreadable).contracts
        /\ trace' = trace \cup {[block |-> Current, tx |-> t, halted |-> TRUE,
                                  runs |-> Transact(t, n, unreadable).runs]}
  BY DEF Halt
<1>3. MachineTyped(Transact(t, n, unreadable))
  BY <1>1, TransactTyped, TransactionDue DEF Halt, NextTransaction
<1>4. [block |-> Current, tx |-> t, halted |-> TRUE, runs |-> Transact(t, n, unreadable).runs]
        \in [block : Blocks, tx : Tx, halted : BOOLEAN, runs : Runs]
  BY <1>1, <1>3 DEF MachineTyped
<1>5. [tx |-> t, on |-> state, logs |-> <<>>] \in Results
  BY <1>1 DEF Results, TypeInv, TypeOK
<1>6. state' \in Seq(Tx)
  BY <1>1 DEF Halt, TypeInv, TypeOK
<1>7. ContractsTyped(contracts')
  BY <1>2, <1>3 DEF MachineTyped
<1>8. TypeOK'
  <2> HIDE DEF t
  <2>1. results' = results \cup {[tx |-> t, on |-> state, logs |-> <<>>]}
    BY DEF Halt, t
  <2> QED
    BY <1>1, <1>2, <1>4, <1>5, <1>6, <1>7, <2>1
    DEF Halt, NextTransaction, TypeInv, TypeOK, ContractsTyped
<1>9. PhaseInv'
  <2>1. IsFiniteSet(results \cup {[tx |-> t, on |-> state, logs |-> <<>>]})
    BY FS_AddElement DEF TypeInv, PhaseInv
  <2> QED
    BY <2>1, Zenon DEF Halt, NextTransaction, TypeInv, PhaseInv
<1> QED
  BY <1>8, <1>9 DEF TypeInv

LEMMA ExecuteTyped ==
  ASSUME TypeInv, Execute
  PROVE  TypeInv'
<1>1. todo' \in Seq(Tx) /\ Head(todo) \in Tx /\ Current \in Blocks
  BY TransactionDue DEF Execute, NextTransaction
<1> DEFINE t == Head(todo)
<1>2. PICK unreadable \in SUBSET Unreliable :
        LET m == Transact(t, Len(Does[t]), unreadable) IN
        /\ accounts' = m.accounts /\ contracts' = m.contracts
        /\ results' = results \cup {[tx |-> t, on |-> state, logs |-> LogsOf(m.runs)]}
        /\ trace' = trace \cup {[block |-> Current, tx |-> t, halted |-> FALSE,
                                  runs |-> m.runs]}
  BY DEF Execute
<1> DEFINE m == Transact(t, Len(Does[t]), unreadable)
<1>3. MachineTyped(m)
  <2>1. Len(Does[t]) \in 0..Len(Does[t])
    BY <1>1, ExecutorAssumption
  <2> QED
    BY <1>1, <2>1, TransactTyped, TransactionDue DEF Execute, NextTransaction
<1> HIDE DEF m
<1>4. [block |-> Current, tx |-> t, halted |-> FALSE, runs |-> m.runs]
        \in [block : Blocks, tx : Tx, halted : BOOLEAN, runs : Runs]
  BY <1>1, <1>3 DEF MachineTyped
<1>5. [tx |-> t, on |-> state, logs |-> LogsOf(m.runs)] \in Results
  BY <1>1, <1>3, LogsTyped DEF Results, TypeInv, TypeOK, MachineTyped
<1>6. state' \in Seq(Tx)
  BY <1>1 DEF Execute, TypeInv, TypeOK
<1>7. /\ AccountsTyped(accounts') /\ ContractsTyped(contracts')
      /\ results' = results \cup {[tx |-> t, on |-> state, logs |-> LogsOf(m.runs)]}
      /\ trace' = trace \cup {[block |-> Current, tx |-> t, halted |-> FALSE,
                                runs |-> m.runs]}
  BY <1>2, <1>3 DEF MachineTyped, m
<1>8. TypeOK'
  <2> HIDE DEF t
  <2> QED
    BY <1>1, <1>4, <1>5, <1>6, <1>7
    DEF Execute, NextTransaction, TypeInv, TypeOK, ContractsTyped, AccountsTyped
<1>9. PhaseInv'
  <2>1. IsFiniteSet(results')
    BY <1>7, FS_AddElement DEF TypeInv, PhaseInv
  <2> QED
    BY <2>1 DEF Execute, NextTransaction, TypeInv, PhaseInv
<1> QED
  BY <1>8, <1>9 DEF TypeInv

LEMMA FinishBlockTyped ==
  ASSUME TypeInv, FinishBlock
  PROVE  TypeInv'
<1> DEFINE d == [block |-> Current, results |-> results]
<1>1. d \in [block : Blocks, results : SUBSET Results]
  BY TransactionDue DEF FinishBlock, TypeInv, TypeOK
<1>2. /\ done' = Append(done, d) /\ done \in Seq([block : Blocks, results : SUBSET Results])
      /\ Len(done') = Len(done) + 1 /\ Len(done) \in Nat
  BY <1>1 DEF FinishBlock, TypeInv, TypeOK
<1>3. todo' \in Seq(Tx)
  <2>1. CASE Len(done) + 1 < Len(chain)
    <3>1. chain[Len(done) + 2] \in Blocks
      BY <1>2, <2>1 DEF TypeInv, TypeOK
    <3> QED
      BY <2>1, <3>1, ExecutorAssumption DEF FinishBlock
  <2>2. CASE ~(Len(done) + 1 < Len(chain))
    BY <2>2 DEF FinishBlock, TypeInv, TypeOK
  <2> QED
    BY <2>1, <2>2
<1>4. TypeOK'
  <2> DEFINE D == [block : Blocks, results : SUBSET Results]
  <2>1. done \in Seq(D) /\ d \in D
    BY <1>1, <1>2
  <2> HIDE DEF D, d
  <2>2. done' \in Seq(D)
    BY <1>2, <2>1
  <2>3. phase' \in {"executing", "collecting"}
    BY DEF FinishBlock
  <2> QED
    BY <1>3, <2>2, <2>3 DEF FinishBlock, TypeInv, TypeOK, evm, D
<1>5. PhaseInv'
  <2>1. \A i \in DOMAIN done' : IsFiniteSet(done'[i].results)
    BY <1>2 DEF TypeInv, PhaseInv
  <2>2. IsFiniteSet(results')
    BY FS_EmptySet DEF FinishBlock
  <2> QED
    BY <1>2, <2>1, <2>2 DEF FinishBlock, TypeInv, TypeOK, PhaseInv
<1> QED
  BY <1>4, <1>5 DEF TypeInv

\* The orders of a finite set: one position for each entry.
LEMMA Orders ==
  ASSUME NEW S, IsFiniteSet(S), NEW order \in IterationOrders(S)
  PROVE  /\ Cardinality(S) \in Nat /\ DOMAIN order = 1..Cardinality(S)
         /\ \A i \in DOMAIN order : order[i] \in S
         /\ \A x \in S : \E i \in DOMAIN order : order[i] = x
BY FS_CardinalityType DEF IterationOrders

RowTypes == [block : Blocks, tx : Tx, address : Address, data : Code,
             removed : {FALSE}, transaction_index : Nat,
             block_log_index : Nat \ {0}, transaction_log_index : Nat]

LEMMA LogsAreRows ==
  ASSUME NEW b \in Blocks, NEW S \in SUBSET Results, IsFiniteSet(S),
         NEW order \in IterationOrders(S), NEW r \in Logs(b, order)
  PROVE  r \in RowTypes /\ r.transaction_log_index = r.block_log_index - 1
<1>1. PICK i \in DOMAIN order :
        \E k \in DOMAIN order[i].logs : r = LogRow(b, order, i, k, k)
  BY DEF Logs
<1>6. PICK k \in DOMAIN order[i].logs : r = LogRow(b, order, i, k, k)
  BY <1>1
<1>2. i \in Nat \ {0} /\ order[i] \in Results
  BY Orders
<1> DEFINE L == [address : Address, data : Code]
<1>3. order[i].tx \in Tx /\ order[i].logs \in Seq(L)
  BY <1>2 DEF Results
<1> HIDE DEF L
<1>4. k \in Nat \ {0} /\ order[i].logs[k] \in L
  BY <1>3, <1>6
<1>5. order[i].logs[k].address \in Address /\ order[i].logs[k].data \in Code
  BY <1>4 DEF L
<1> QED
  BY <1>2, <1>3, <1>4, <1>5, <1>6 DEF LogRow, RowTypes

LEMMA DoneTyped ==
  ASSUME TypeInv, NEW i \in DOMAIN done
  PROVE  /\ done[i].block \in Blocks /\ done[i].results \in SUBSET Results
         /\ IsFiniteSet(done[i].results)
<1> DEFINE D == [block : Blocks, results : SUBSET Results]
<1>1. done \in Seq(D)
  BY DEF TypeInv, TypeOK
<1> HIDE DEF D
<1>2. done[i] \in D
  BY <1>1
<1> QED
  BY <1>2 DEF D, TypeInv, PhaseInv

LEMMA CollectLogsTyped ==
  ASSUME TypeInv, CollectLogs
  PROVE  TypeInv'
<1>1. CASE done = <<>>
  <2>1. TypeOK'
    BY <1>1 DEF CollectLogs, TypeInv, TypeOK, evm
  <2>2. PhaseInv'
    BY <1>1 DEF CollectLogs, TypeInv, PhaseInv
  <2> QED
    BY <2>1, <2>2 DEF TypeInv
<1>2. CASE done # <<>>
  <2> DEFINE D == [block : Blocks, results : SUBSET Results]
  <2>1. done \in Seq(D)
    BY DEF TypeInv, TypeOK
  <2> HIDE DEF D
  <2>2. Head(done) \in D /\ Tail(done) \in Seq(D) /\ Head(done) = done[1]
        /\ 1 \in DOMAIN done
        /\ \A i \in DOMAIN Tail(done) : i + 1 \in DOMAIN done /\ Tail(done)[i] = done[i + 1]
    BY <1>2, <2>1
  <2>3. /\ Head(done).block \in Blocks /\ Head(done).results \in SUBSET Results
        /\ IsFiniteSet(Head(done).results)
    BY <2>2 DEF D, TypeInv, PhaseInv
  <2>4. PICK order \in IterationOrders(Head(done).results) :
          rows' = rows \cup {r \in Logs(Head(done).block, order) : IsShadowed(r.address)}
    BY <1>2 DEF CollectLogs
  <2>5. rows' \subseteq RowTypes
    BY <2>3, <2>4, LogsAreRows DEF RowTypes, TypeInv, TypeOK
  <2>6. TypeOK'
    BY <1>2, <2>2, <2>5 DEF CollectLogs, TypeInv, TypeOK, RowTypes, D, evm
  <2>7. PhaseInv'
    BY <1>2, <2>2 DEF CollectLogs, TypeInv, PhaseInv
  <2> QED
    BY <2>6, <2>7 DEF TypeInv
<1> QED
  BY <1>1, <1>2

LEMMA StutterTyped ==
  ASSUME TypeInv, UNCHANGED vars
  PROVE  TypeInv'
BY DEF TypeInv, TypeOK, PhaseInv, vars, evm

LEMMA NextTyped ==
  ASSUME TypeInv, [Next]_vars
  PROVE  TypeInv'
BY NewTyped, SkipUnsignedTyped, SkipFailedTyped, HaltTyped, ExecuteTyped, FinishBlockTyped,
   CollectLogsTyped, StutterTyped DEF Next

LEMMA TypeInvariant == Spec => []TypeInv
BY InitTyped, NextTyped, PTL DEF Spec

\* The variables of the executor keep their types: for every shadow.json, every
\* run of notifications and whatever fails, the results, the rows and the
\* machine are what execution.rs declares them to be.
THEOREM TypeCorrect == Spec => []TypeOK
<1>1. TypeInv => TypeOK
  BY DEF TypeInv
<1> QED
  BY <1>1, TypeInvariant, PTL

-----------------------------------------------------------------------------
(***************************************************************************)
(* The rows can be told apart: the index that is not passed on is one less *)
(* than the one that is.                                                   *)
(***************************************************************************)
RowsNumbered == \A r \in rows : r.transaction_log_index = r.block_log_index - 1

LEMMA NextNumbered ==
  ASSUME TypeInv, RowsNumbered, [Next]_vars
  PROVE  RowsNumbered'
<1>1. CASE New
  BY <1>1 DEF New, RowsNumbered
<1>2. CASE SkipUnsigned \/ SkipFailed \/ Halt \/ Execute
  BY <1>2 DEF SkipUnsigned, SkipFailed, Halt, Execute, NextTransaction, RowsNumbered
<1>3. CASE FinishBlock \/ UNCHANGED vars
  BY <1>3 DEF FinishBlock, vars, RowsNumbered
<1>4. CASE CollectLogs
  <2>1. CASE done = <<>>
    BY <1>4, <2>1 DEF CollectLogs, RowsNumbered
  <2>2. CASE done # <<>>
    <3>1. PICK order \in IterationOrders(Head(done).results) :
            rows' = rows \cup {r \in Logs(Head(done).block, order) : IsShadowed(r.address)}
      BY <1>4, <2>2 DEF CollectLogs
    <3>2. Head(done) = done[1] /\ 1 \in DOMAIN done
      BY <2>2 DEF TypeInv, TypeOK
    <3>3. /\ done[1].block \in Blocks /\ done[1].results \in SUBSET Results
          /\ IsFiniteSet(done[1].results)
      BY <3>2, DoneTyped
    <3>5. \A r \in Logs(Head(done).block, order) :
            r.transaction_log_index = r.block_log_index - 1
      BY <3>1, <3>2, <3>3, LogsAreRows
    <3> QED
      BY <3>1, <3>5 DEF RowsNumbered
  <2> QED
    BY <2>1, <2>2
<1> QED
  BY <1>1, <1>2, <1>3, <1>4 DEF Next

\* What reaches a client of a row tells it from every other row, although the
\* index within the transaction is left out and a contract may emit the same
\* event twice (execution.rs:46-56, apis/types.rs:37-51).
THEOREM Tellable == Spec => []RowsAreTellable
<1>1. Init => RowsNumbered
  BY DEF Init, RowsNumbered
<1>2. TypeInv /\ RowsNumbered => RowsAreTellable
  <2> SUFFICES ASSUME TypeInv, RowsNumbered, NEW r \in rows, NEW q \in rows,
                      RpcLog(r) = RpcLog(q)
               PROVE  r = q
    BY DEF RowsAreTellable
  <2>1. r \in RowTypes /\ q \in RowTypes
    BY DEF TypeInv, TypeOK, RowTypes
  <2>2. /\ r.address = q.address /\ r.block = q.block /\ r.data = q.data
        /\ r.block_log_index = q.block_log_index /\ r.removed = q.removed
        /\ r.tx = q.tx /\ r.transaction_index = q.transaction_index
    BY DEF RpcLog
  <2>3. r.transaction_log_index = q.transaction_log_index
    BY <2>2 DEF RowsNumbered
  <2> QED
    BY <2>1, <2>2, <2>3 DEF RowTypes
<1> QED
  BY <1>1, <1>2, NextNumbered, TypeInvariant, PTL DEF Spec

-----------------------------------------------------------------------------
(***************************************************************************)
(* What a call runs.  Accounts that the machine has created have the       *)
(* bytecode a transaction of the notification deployed, and only where     *)
(* reth knows no contract; a bytecode kept under a hash has that hash, or  *)
(* is the empty one of a failed read.                                      *)
(***************************************************************************)
Deployments(a) == {op.code : op \in Deployed(a)}

AccountsDeployed(as) ==
  \A a \in DOMAIN as :
    /\ world[a] \notin Code
    /\ \E code \in Deployments(a) : as[a] = [hash |-> HashOf(code), code |-> code]
    /\ a \in Shadowed /\ world[a] # Absent => ShadowJson[a] = NoCode

ContractsHashed(cs) == \A h \in DOMAIN cs : cs[h] = NoCode \/ HashOf(cs[h]) = h

RightCode(a, code) ==
  IF a \in Shadowed /\ world[a] # Absent
  THEN \/ code = ShadowJson[a]
       \/ ShadowJson[a] = NoCode /\ code \in Deployments(a)
  ELSE code \in {NoCode, world[a]} \cup Deployments(a)

RunsRight(runs) == \A i \in DOMAIN runs : RightCode(runs[i].to, runs[i].code)

MachineRight(m) ==
  AccountsDeployed(m.accounts) /\ ContractsHashed(m.contracts) /\ RunsRight(m.runs)

LEMMA DeploymentsTyped ==
  ASSUME chain \in Seq(Blocks), NEW a
  PROVE  Deployments(a) \subseteq Code
<1> SUFFICES ASSUME NEW op \in Deployed(a) PROVE op.code \in Code
  BY DEF Deployments
<1>1. PICK t \in UNION {Elements(Transactions[b]) : b \in Elements(chain)} :
        op \in Elements(Does[t])
  BY DEF Deployed
<1>2. t \in Tx
  BY ExecutorAssumption DEF Elements
<1>3. op \in Ops /\ op.kind = "create"
  BY <1>1, <1>2, ExecutorAssumption DEF Elements, Deployed
<1> QED
  BY <1>3 DEF Ops

LEMMA HashesDiffer ==
  ASSUME NEW c, NEW d, HashOf(c) = HashOf(d)
  PROVE  c = d
BY DEF HashOf

LEMMA CallRight ==
  ASSUME TypeOK, NEW m, MachineTyped(m), MachineRight(m), NEW a \in Address, NEW unreadable
  PROVE  MachineRight(Call(m, a, unreadable))
<1>1. CASE ~Exists(m, a)
  BY <1>1 DEF Call
<1>2. CASE Exists(m, a)
  <2> DEFINE info == InfoOf(m, a)
             code == CASE info.code # Unloaded -> info.code
                       [] info.code = Unloaded /\ info.hash = HashOf(NoCode) -> NoCode
                       [] info.code = Unloaded /\ info.hash \in DOMAIN m.contracts
                            /\ info.hash # HashOf(NoCode) -> m.contracts[info.hash]
                       [] OTHER -> CodeByHash(info.hash, unreadable)
             cs   == IF info.code = Unloaded THEN With(m.contracts, info.hash, code)
                     ELSE m.contracts
  <2>1. Call(m, a, unreadable)
          = [accounts |-> m.accounts, contracts |-> cs,
             runs |-> Append(m.runs, [to |-> a, code |-> code])]
    BY <1>2 DEF Call
  <2> HIDE DEF info
  <2>2. info.code = Unloaded => code = NoCode \/ HashOf(code) = info.hash
    BY BytecodeFound DEF MachineRight, ContractsHashed
  <2>3. info.code # Unloaded => code = info.code
    OBVIOUS
  <2> HIDE DEF code
  <2>4. ContractsHashed(cs)
    BY <2>2 DEF MachineRight, ContractsHashed, With
  <2> HIDE DEF cs
  <2>5. RightCode(a, code)
    <3>1. CASE a \in DOMAIN m.accounts
      <4>1. PICK c \in Deployments(a) : info = [hash |-> HashOf(c), code |-> c]
        BY <3>1 DEF info, InfoOf, MachineRight, AccountsDeployed
      <4>2. c \in Code
        BY DeploymentsTyped DEF TypeOK
      <4>3. code = c
        BY <2>3, <4>1, <4>2, ShadowAssumption
      <4> QED
        BY <3>1, <4>3 DEF RightCode, MachineRight, AccountsDeployed
    <3>2. CASE a \notin DOMAIN m.accounts /\ a \in Shadowed
      <4>1. world[a] # Absent /\ info.code = ShadowJson[a]
        BY <1>2, <3>2 DEF Exists, info, InfoOf, Basic, IsShadowed
      <4>2. ShadowJson[a] # Unloaded
        BY <3>2, ShadowAssumption DEF Shadowed
      <4> QED
        BY <2>3, <3>2, <4>1, <4>2 DEF RightCode
    <3>3. CASE a \notin DOMAIN m.accounts /\ a \notin Shadowed
      <4>1. info.code = Unloaded /\ info.hash = HashOf(world[a])
        BY <1>2, <3>3 DEF Exists, info, InfoOf, Basic, IsShadowed
      <4>2. code = NoCode \/ code = world[a]
        BY <2>2, <4>1, HashesDiffer
      <4> QED
        BY <3>3, <4>2 DEF RightCode
    <3> QED
      BY <3>1, <3>2, <3>3
  <2>6. RunsRight(Append(m.runs, [to |-> a, code |-> code]))
    BY <2>5 DEF RunsRight, MachineRight, MachineTyped, Runs
  <2> QED
    BY <2>1, <2>4, <2>6 DEF MachineRight
<1> QED
  BY <1>1, <1>2

LEMMA CreateRight ==
  ASSUME TypeOK, NEW m, MachineRight(m), NEW a \in Address, NEW code \in Deployments(a)
  PROVE  MachineRight(Create(m, a, code))
<1> DEFINE new == [hash |-> HashOf(code), code |-> code]
           as  == With(m.accounts, a, new)
<1>1. CASE /\ a \notin DOMAIN m.accounts /\ world[a] \in {Absent, NoCode}
           /\ Exists(m, a) => InfoOf(m, a).hash = HashOf(NoCode)
  <2>1. world[a] \notin Code
    BY <1>1, ShadowAssumption
  <2>2. a \in Shadowed /\ world[a] # Absent => ShadowJson[a] = NoCode
    <3> SUFFICES ASSUME a \in Shadowed, world[a] # Absent PROVE ShadowJson[a] = NoCode
      OBVIOUS
    <3>1. InfoOf(m, a).hash = HashOf(ShadowJson[a])
      BY <1>1 DEF InfoOf, Basic, IsShadowed
    <3> QED
      BY <1>1, <3>1, HashesDiffer DEF Exists
  <2> HIDE DEF new
  <2>3. /\ DOMAIN as = DOMAIN m.accounts \cup {a}
        /\ as[a] = new /\ \A b \in DOMAIN m.accounts : b # a => as[b] = m.accounts[b]
    BY DEF With
  <2> HIDE DEF as
  <2>4. AccountsDeployed(as)
    BY <1>1, <2>1, <2>2, <2>3 DEF AccountsDeployed, MachineRight, new
  <2>5. Create(m, a, code) = [accounts |-> as, contracts |-> m.contracts, runs |-> m.runs]
    BY <1>1 DEF Create, as, new
  <2> QED
    BY <2>4, <2>5 DEF MachineRight
<1>2. CASE ~(/\ a \notin DOMAIN m.accounts /\ world[a] \in {Absent, NoCode}
             /\ Exists(m, a) => InfoOf(m, a).hash = HashOf(NoCode))
  BY <1>2, Zenon DEF Create
<1> QED
  BY <1>1, <1>2

LEMMA TransactRight ==
  ASSUME TypeOK, AccountsDeployed(accounts), ContractsHashed(contracts),
         NEW b \in Elements(chain), NEW tx \in Elements(Transactions[b]),
         NEW n \in 0..Len(Does[tx]), NEW unreadable
  PROVE  MachineRight(Transact(tx, n, unreadable))
<1>1. tx \in Tx
  BY ExecutorAssumption DEF TypeOK, Elements
<1>2. /\ n \in Nat
      /\ \A i \in 1..n : i \in DOMAIN Does[tx] /\ Does[tx][i] \in Ops
  BY <1>1, ExecutorAssumption
<1>3. ASSUME NEW i \in 1..n, Does[tx][i].kind # "call"
      PROVE  Does[tx][i].code \in Deployments(Does[tx][i].to)
  BY <1>2, <1>3 DEF Deployments, Deployed, Elements, Ops
<1>4. PICK f : EndsWith(f, tx, n, unreadable, Transact(tx, n, unreadable))
  BY <1>2, TransactRun
<1>5. /\ f[0] = Machine
      /\ \A i \in 1..n : f[i] = Perform(f[i - 1], Does[tx][i], unreadable)
      /\ Transact(tx, n, unreadable) = f[n]
  BY <1>4, Zenon DEF EndsWith
<1> DEFINE Right == {i \in Nat : i <= n => MachineTyped(f[i]) /\ MachineRight(f[i])}
<1>6. 0 \in Right
  <2>1. MachineTyped(Machine)
    BY DEF Machine, MachineTyped, Runs, AccountsTyped, ContractsTyped, TypeOK
  <2>2. MachineRight(Machine)
    BY DEF Machine, MachineRight, RunsRight
  <2> QED
    BY <1>5, <2>1, <2>2
<1>7. ASSUME NEW i \in Nat, i \in Right
      PROVE  i + 1 \in Right
  <2> SUFFICES ASSUME i + 1 <= n PROVE MachineTyped(f[i + 1]) /\ MachineRight(f[i + 1])
    OBVIOUS
  <2>1. i + 1 \in 1..n /\ i <= n /\ (i + 1) - 1 = i
    BY <1>2
  <2> DEFINE op == Does[tx][i + 1]
  <2>2. MachineTyped(f[i]) /\ MachineRight(f[i]) /\ op \in Ops
    BY <1>2, <1>7, <2>1
  <2>3. f[i + 1] = Perform(f[i], op, unreadable)
    BY <1>5, <2>1
  <2>4. op.kind # "call" => op.code \in Deployments(op.to)
    BY <1>3, <2>1
  <2> HIDE DEF op
  <2>5. CASE op.kind = "call"
    <3>1. op.to \in Address /\ f[i + 1] = Call(f[i], op.to, unreadable)
      BY <2>2, <2>3, <2>5 DEF Ops, Perform
    <3> QED
      BY <2>2, <3>1, CallTyped, CallRight DEF TypeOK
  <2>6. CASE op.kind # "call"
    <3>1. op.to \in Address /\ op.code \in Code /\ f[i + 1] = Create(f[i], op.to, op.code)
      BY <2>2, <2>3, <2>6 DEF Ops, Perform
    <3> QED
      BY <2>2, <2>4, <2>6, <3>1, CreateTyped, CreateRight
  <2> QED
    BY <2>5, <2>6
<1> HIDE DEF Right
<1>8. \A i \in Nat : i >= 0 => i \in Right
  BY <1>6, <1>7, FromOn
<1> QED
  BY <1>2, <1>5, <1>8 DEF Right

\* The transactions still to run are the current block's.
TodoOfBlock ==
  phase = "executing" => \A i \in DOMAIN todo : todo[i] \in Elements(Transactions[Current])

ShadowInv ==
  /\ AccountsDeployed(accounts) /\ ContractsHashed(contracts) /\ TodoOfBlock
  /\ \A e \in trace : RunsRight(e.runs)

LEMMA NewRight ==
  ASSUME TypeInv, New
  PROVE  ShadowInv'
<1>1. accounts' = <<>> /\ contracts' = <<>> /\ trace' = {}
  BY DEF New
<1>2. AccountsDeployed(accounts)' /\ ContractsHashed(contracts)'
  BY <1>1 DEF AccountsDeployed, ContractsHashed
<1>3. done' = <<>> /\ todo' = Transactions[chain'[1]]
  BY DEF New, TypeInv, PhaseInv
<1>4. todo' = Transactions[Current']
  BY <1>3 DEF Current
<1>5. TodoOfBlock'
  BY <1>4 DEF TodoOfBlock, Elements
<1> QED
  BY <1>1, <1>2, <1>5 DEF ShadowInv

\* Within a notification, what was right before the step is right after it.
LEMMA SameChain ==
  ASSUME world' = world, chain' = chain,
         AccountsDeployed(accounts'), ContractsHashed(contracts'),
         \A e \in trace' : RunsRight(e.runs)
  PROVE  /\ AccountsDeployed(accounts)' /\ ContractsHashed(contracts)'
         /\ \A e \in trace' : RunsRight(e.runs)'
<1>1. \A a : Deployed(a)' = Deployed(a)
  BY DEF Deployed, Elements
<1>2. \A a : Deployments(a)' = Deployments(a)
  BY <1>1 DEF Deployments
<1>3. \A a, code : RightCode(a, code)' <=> RightCode(a, code)
  BY <1>2 DEF RightCode
<1>4. \A e \in trace' : RunsRight(e.runs)'
  BY <1>3 DEF RunsRight
<1>5. AccountsDeployed(accounts)'
  BY <1>2 DEF AccountsDeployed
<1> QED
  BY <1>4, <1>5 DEF ContractsHashed

LEMMA TransactionRight ==
  ASSUME TypeInv, ShadowInv, phase = "executing", todo # <<>>,
         NEW n \in 0..Len(Does[Head(todo)]), NEW unreadable
  PROVE  /\ MachineRight(Transact(Head(todo), n, unreadable))
         /\ \A i \in DOMAIN Tail(todo) : Tail(todo)[i] \in Elements(Transactions[Current])
<1>1. Current \in Elements(chain)
  BY DEF Current, Elements, TypeInv, TypeOK, PhaseInv
<1>2. /\ 1 \in DOMAIN todo /\ Head(todo) = todo[1]
      /\ \A i \in DOMAIN Tail(todo) : i + 1 \in DOMAIN todo /\ Tail(todo)[i] = todo[i + 1]
  BY DEF TypeInv, TypeOK
<1>3. Head(todo) \in Elements(Transactions[Current])
  BY <1>2 DEF ShadowInv, TodoOfBlock
<1> QED
  BY <1>1, <1>2, <1>3, TransactRight DEF ShadowInv, TodoOfBlock, TypeInv

LEMMA SkipRight ==
  ASSUME TypeInv, ShadowInv, SkipUnsigned \/ SkipFailed
  PROVE  ShadowInv'
<1>1. /\ world' = world /\ chain' = chain /\ done' = done /\ phase = "executing"
      /\ todo # <<>> /\ todo' = Tail(todo) /\ accounts' = accounts /\ trace' = trace
  BY DEF SkipUnsigned, SkipFailed, NextTransaction
<1>2. ContractsHashed(contracts')
  <2>1. CASE SkipUnsigned
    BY <2>1 DEF SkipUnsigned, ShadowInv
  <2>2. CASE SkipFailed
    <3>1. PICK n \in 0..Len(Does[Head(todo)]), unreadable \in SUBSET Unreliable :
            contracts' = Transact(Head(todo), n, unreadable).contracts
      BY <2>2 DEF SkipFailed
    <3> QED
      BY <1>1, <3>1, TransactionRight DEF MachineRight
  <2> QED
    BY <2>1, <2>2
<1>3. /\ AccountsDeployed(accounts)' /\ ContractsHashed(contracts)'
      /\ \A e \in trace' : RunsRight(e.runs)'
  BY <1>1, <1>2, SameChain DEF ShadowInv
<1>4. 0 \in 0..Len(Does[Head(todo)])
  BY <1>1, TransactionDue, ExecutorAssumption
<1>5. TodoOfBlock'
  BY <1>1, <1>4, TransactionRight DEF TodoOfBlock, Current
<1> QED
  BY <1>3, <1>5 DEF ShadowInv

LEMMA HaltRight ==
  ASSUME TypeInv, ShadowInv, Halt
  PROVE  ShadowInv'
<1>1. /\ world' = world /\ chain' = chain /\ done' = done /\ phase = "executing"
      /\ todo # <<>> /\ todo' = Tail(todo) /\ accounts' = accounts
  BY DEF Halt, NextTransaction
<1>2. PICK n \in 0..Len(Does[Head(todo)]), unreadable \in SUBSET Unreliable :
        LET m == Transact(Head(todo), n, unreadable) IN
        /\ contracts' = m.contracts
        /\ trace' = trace \cup {[block |-> Current, tx |-> Head(todo), halted |-> TRUE,
                                  runs |-> m.runs]}
  BY DEF Halt
<1> DEFINE m == Transact(Head(todo), n, unreadable)
<1>3. MachineRight(m)
  BY <1>1, TransactionRight
<1> HIDE DEF m
<1>4. /\ contracts' = m.contracts
      /\ trace' = trace \cup {[block |-> Current, tx |-> Head(todo), halted |-> TRUE,
                                runs |-> m.runs]}
  BY <1>2 DEF m
<1>5. /\ AccountsDeployed(accounts)' /\ ContractsHashed(contracts)'
      /\ \A e \in trace' : RunsRight(e.runs)'
  BY <1>1, <1>3, <1>4, SameChain DEF ShadowInv, MachineRight
<1>6. TodoOfBlock'
  BY <1>1, TransactionRight DEF TodoOfBlock, Current
<1> QED
  BY <1>5, <1>6 DEF ShadowInv

LEMMA ExecuteRight ==
  ASSUME TypeInv, ShadowInv, Execute
  PROVE  ShadowInv'
<1>1. /\ world' = world /\ chain' = chain /\ done' = done /\ phase = "executing"
      /\ todo # <<>> /\ todo' = Tail(todo)
  BY DEF Execute, NextTransaction
<1>2. PICK unreadable \in SUBSET Unreliable :
        LET m == Transact(Head(todo), Len(Does[Head(todo)]), unreadable) IN
        /\ accounts' = m.accounts /\ contracts' = m.contracts
        /\ trace' = trace \cup {[block |-> Current, tx |-> Head(todo), halted |-> FALSE,
                                  runs |-> m.runs]}
  BY DEF Execute
<1> DEFINE m == Transact(Head(todo), Len(Does[Head(todo)]), unreadable)
<1>0. Len(Does[Head(todo)]) \in 0..Len(Does[Head(todo)])
  BY <1>1, TransactionDue, ExecutorAssumption
<1>3. MachineRight(m)
  BY <1>0, <1>1, TransactionRight
<1> HIDE DEF m
<1>4. /\ accounts' = m.accounts /\ contracts' = m.contracts
      /\ trace' = trace \cup {[block |-> Current, tx |-> Head(todo), halted |-> FALSE,
                                runs |-> m.runs]}
  BY <1>2 DEF m
<1>5. /\ AccountsDeployed(accounts)' /\ ContractsHashed(contracts)'
      /\ \A e \in trace' : RunsRight(e.runs)'
  BY <1>1, <1>3, <1>4, SameChain DEF ShadowInv, MachineRight
<1>6. TodoOfBlock'
  BY <1>0, <1>1, TransactionRight DEF TodoOfBlock, Current
<1> QED
  BY <1>5, <1>6 DEF ShadowInv

LEMMA LaterRight ==
  ASSUME TypeInv, ShadowInv, FinishBlock \/ CollectLogs \/ UNCHANGED vars
  PROVE  ShadowInv'
<1>1. /\ world' = world /\ chain' = chain /\ accounts' = accounts
      /\ contracts' = contracts /\ trace' = trace
  BY DEF FinishBlock, CollectLogs, vars, evm
<1>2. /\ AccountsDeployed(accounts)' /\ ContractsHashed(contracts)'
      /\ \A e \in trace' : RunsRight(e.runs)'
  BY <1>1, SameChain DEF ShadowInv
<1>3. TodoOfBlock'
  <2>1. CASE FinishBlock
    <3> SUFFICES ASSUME phase' = "executing"
                 PROVE  todo' = Transactions[Current']
      BY DEF TodoOfBlock, Elements
    <3>1. Len(done) + 1 < Len(chain) /\ todo' = Transactions[chain[Len(done) + 2]]
      BY <2>1 DEF FinishBlock
    <3>2. Len(done') = Len(done) + 1 /\ Len(done) \in Nat
      BY <2>1 DEF FinishBlock, TypeInv, TypeOK
    <3>3. Current' = chain[Len(done) + 2]
      BY <1>1, <3>2 DEF Current
    <3> QED
      BY <3>1, <3>3
  <2>2. CASE CollectLogs
    BY <2>2 DEF CollectLogs, TodoOfBlock
  <2>3. CASE UNCHANGED vars
    BY <2>3 DEF vars, evm, ShadowInv, TodoOfBlock, Current
  <2> QED
    BY <2>1, <2>2, <2>3
<1> QED
  BY <1>2, <1>3 DEF ShadowInv

LEMMA ShadowInvariant == Spec => [](TypeInv /\ ShadowInv)
<1>1. Init => ShadowInv
  BY DEF Init, ShadowInv, AccountsDeployed, ContractsHashed, TodoOfBlock
<1>2. TypeInv /\ ShadowInv /\ [Next]_vars => ShadowInv'
  BY NewRight, SkipRight, HaltRight, ExecuteRight, LaterRight DEF Next
<1> QED
  BY <1>1, <1>2, TypeInvariant, PTL DEF Spec

\* Whatever was called, created, halted or failed to be read before it, a call
\* of a shadowed contract that reth knows runs its shadow bytecode, and no
\* contract ever runs another one's (db.rs:84-103, contracts.rs:70-80).
THEOREM ShadowRuns == Spec => []ShadowCodeRuns
<1>1. ShadowInv => ShadowCodeRuns
  BY DEF ShadowInv, RunsRight, RightCode, Deployments, ShadowCodeRuns
<1> QED
  BY <1>1, ShadowInvariant, PTL

-----------------------------------------------------------------------------
(***************************************************************************)
(* The rows are the logs.  The transactions of the notification fall into  *)
(* those ahead and those that have been passed; of the passed ones, every  *)
(* one with a sender that did not fail has one entry in the trace.  The    *)
(* results of a block are the entries of that block, and the rows are the  *)
(* shadowed logs of the entries of the blocks collected so far.            *)
(***************************************************************************)
TraceLogs(e) == IF e.halted THEN <<>> ELSE LogsOf(e.runs)

\* The transactions of the notification that are still to be run.
Ahead ==
  IF phase = "executing"
  THEN Elements(todo) \cup UNION {Elements(Transactions[chain[i]]) : i \in Len(done) + 2..Len(chain)}
  ELSE {}

TodoSuffix ==
  phase = "executing" =>
    \E p \in 0..Len(Transactions[Current]) : /\ Len(todo) + p = Len(Transactions[Current])
                   /\ \A i \in DOMAIN todo : todo[i] = Transactions[Current][p + i]

\* Entries tr and failures sk of the chain `blocks`, with `ahead` still to run.
TraceOf(tr, sk, blocks, ahead) ==
  /\ \A e \in tr : /\ e.block \in Elements(blocks) /\ e.tx \in Elements(Transactions[e.block])
                   /\ e.tx \in Signed \ sk /\ e.tx \notin ahead
  /\ \A t \in sk : t \notin ahead
  /\ \A b \in Elements(blocks) : \A t \in Elements(Transactions[b]) :
       (t \in Signed \ sk /\ t \notin ahead) => \E e \in tr : e.block = b /\ e.tx = t
  /\ \A e, f \in tr : e.tx = f.tx => e = f

\* R holds the results of block b's entries in tr, one for each transaction.
Matches(R, b, tr) ==
  /\ \A r \in R : \E e \in tr : e.block = b /\ e.tx = r.tx /\ TraceLogs(e) = r.logs
  /\ \A e \in tr : e.block = b => \E r \in R : r.tx = e.tx /\ r.logs = TraceLogs(e)
  /\ \A r, q \in R : r.tx = q.tx => r = q

\* How many blocks of the chain have had their logs collected.
Count == IF phase = "executing" THEN 0 ELSE Len(chain) - Len(done)

Collected == {chain[i] : i \in 1..Count}

DoneInv ==
  /\ \A i \in DOMAIN done : /\ done[i].block = chain[Count + i]
                            /\ Matches(done[i].results, chain[Count + i], trace)
  /\ phase = "executing" => Matches(results, Current, trace)

\* r is the row of the k-th log of the entry e.
RowFor(r, e, k) ==
  /\ r.block = e.block /\ r.tx = e.tx /\ r.transaction_log_index = k - 1
  /\ r.address = TraceLogs(e)[k].address /\ r.data = TraceLogs(e)[k].data

ShadowedLogs(e) == {k \in DOMAIN TraceLogs(e) : TraceLogs(e)[k].address \in Shadowed}

RowsOf(rs, tr, blocks) ==
  /\ \A r \in rs : \E e \in tr : e.block \in blocks /\ \E k \in ShadowedLogs(e) : RowFor(r, e, k)
  /\ \A e \in tr : e.block \in blocks => \A k \in ShadowedLogs(e) : \E r \in rs : RowFor(r, e, k)
  /\ \A r, q \in rs :
       (/\ r.block = q.block /\ r.tx = q.tx
        /\ r.transaction_log_index = q.transaction_log_index) => r = q

LogsInv ==
  /\ Len(done) <= Len(chain)
  /\ OnceEach(chain) /\ \A i \in DOMAIN left : OnceEach(left[i])
  /\ TodoSuffix
  /\ TraceOf(trace, skipped, chain, Ahead)
  /\ DoneInv
  /\ RowsOf(rows, trace, Collected)

\* What one step does to these, for any sets.
LEMMA OneBlock ==
  ASSUME NEW blocks, OnceEach(blocks), NEW b \in Elements(blocks), NEW c \in Elements(blocks),
         NEW t \in Elements(Transactions[b]), t \in Elements(Transactions[c])
  PROVE  b = c
<1>1. PICK i \in DOMAIN blocks : blocks[i] = b
  BY DEF Elements
<1>2. PICK j \in DOMAIN blocks : blocks[j] = c
  BY DEF Elements
<1>3. PICK k \in DOMAIN Transactions[b] : Transactions[b][k] = t
  BY DEF Elements
<1>4. PICK l \in DOMAIN Transactions[c] : Transactions[c][l] = t
  BY DEF Elements
<1> QED
  BY <1>1, <1>2, <1>3, <1>4 DEF OnceEach

LEMMA PassUnsigned ==
  ASSUME NEW tr, NEW sk, NEW blocks, NEW ahead, TraceOf(tr, sk, blocks, ahead),
         NEW t, t \notin Signed
  PROVE  TraceOf(tr, sk, blocks, ahead \ {t})
BY DEF TraceOf

LEMMA PassFailed ==
  ASSUME NEW tr, NEW sk, NEW blocks, NEW ahead, TraceOf(tr, sk, blocks, ahead),
         NEW t \in ahead
  PROVE  TraceOf(tr, sk \cup {t}, blocks, ahead \ {t})
BY DEF TraceOf

LEMMA PassRun ==
  ASSUME NEW tr, NEW sk, NEW blocks, NEW ahead, TraceOf(tr, sk, blocks, ahead),
         OnceEach(blocks), NEW e, e.block \in Elements(blocks),
         e.tx \in Elements(Transactions[e.block]), e.tx \in ahead, e.tx \in Signed
  PROVE  TraceOf(tr \cup {e}, sk, blocks, ahead \ {e.tx})
<1>1. e.tx \notin sk /\ \A f \in tr : f.tx # e.tx
  BY DEF TraceOf
<1>2. \A b \in Elements(blocks) : e.tx \in Elements(Transactions[b]) => b = e.block
  BY OneBlock
<1> QED
  BY <1>1, <1>2 DEF TraceOf

LEMMA MatchesMore ==
  ASSUME NEW R, NEW b, NEW tr, Matches(R, b, tr),
         NEW e, e.block = b, \A f \in tr : f.tx # e.tx,
         NEW r, r.tx = e.tx, r.logs = TraceLogs(e)
  PROVE  Matches(R \cup {r}, b, tr \cup {e})
<1>1. \A q \in R : q.tx # r.tx
  BY DEF Matches
<1> QED
  BY <1>1 DEF Matches

LEMMA MatchesOther ==
  ASSUME NEW R, NEW b, NEW tr, Matches(R, b, tr), NEW e, e.block # b
  PROVE  Matches(R, b, tr \cup {e})
BY DEF Matches

LEMMA OrderOnce ==
  ASSUME NEW S, IsFiniteSet(S), NEW order \in IterationOrders(S),
         NEW i \in DOMAIN order, NEW j \in DOMAIN order, order[i] = order[j]
  PROVE  i = j
<1> DEFINE n == Cardinality(S)
<1>1. n \in Nat /\ IsFiniteSet(1..n) /\ Cardinality(1..n) = n
  BY FS_CardinalityType, FS_Interval
<1>2. order \in Surjection(1..n, S)
  BY Orders DEF IterationOrders, Surjection
<1>3. order \in Injection(1..n, S)
  BY <1>1, <1>2, FS_SurjSameCardinalityImpliesInj
<1> QED
  BY <1>3 DEF Injection, IsInjective

\* The rows of one more block.
LEMMA RowsMore ==
  ASSUME NEW rs, NEW tr, NEW done_blocks, NEW b, RowsOf(rs, tr, done_blocks),
         NEW R, IsFiniteSet(R), Matches(R, b, tr), NEW order \in IterationOrders(R),
         \A e \in tr : e.block = b => b \notin done_blocks,
         \A r \in R : r.logs \in Seq([address : Address, data : Code])
  PROVE  RowsOf(rs \cup {r \in Logs(b, order) : IsShadowed(r.address)}, tr, done_blocks \cup {b})
<1> DEFINE new == {r \in Logs(b, order) : IsShadowed(r.address)}
<1>1. \A i \in DOMAIN order : order[i] \in R
  BY Orders
<1>2. \A r \in R : \E i \in DOMAIN order : order[i] = r
  BY Orders
<1>3. ASSUME NEW r \in new
      PROVE  \E i \in DOMAIN order : \E k \in DOMAIN order[i].logs :
               r = LogRow(b, order, i, k, k) /\ order[i].logs[k].address \in Shadowed
  BY DEF Logs, LogRow, IsShadowed
<1>4. ASSUME NEW r \in new
      PROVE  \E e \in tr : e.block = b /\ \E k \in ShadowedLogs(e) : RowFor(r, e, k)
  <2>1. PICK i \in DOMAIN order :
          \E k \in DOMAIN order[i].logs :
            r = LogRow(b, order, i, k, k) /\ order[i].logs[k].address \in Shadowed
    BY <1>3
  <2>2. PICK k \in DOMAIN order[i].logs :
          r = LogRow(b, order, i, k, k) /\ order[i].logs[k].address \in Shadowed
    BY <2>1
  <2>3. PICK e \in tr : e.block = b /\ e.tx = order[i].tx /\ TraceLogs(e) = order[i].logs
    BY <1>1 DEF Matches
  <2>4. k \in ShadowedLogs(e)
    BY <2>2, <2>3 DEF ShadowedLogs
  <2>5. RowFor(r, e, k)
    BY <2>2, <2>3 DEF RowFor, LogRow
  <2> QED
    BY <2>3, <2>4, <2>5
<1>5. ASSUME NEW e \in tr, e.block = b, NEW k \in ShadowedLogs(e)
      PROVE  \E r \in new : RowFor(r, e, k)
  <2>1. PICK r \in R : r.tx = e.tx /\ r.logs = TraceLogs(e)
    BY <1>5 DEF Matches
  <2>2. PICK i \in DOMAIN order : order[i] = r
    BY <1>2
  <2>3. k \in DOMAIN order[i].logs /\ order[i].logs[k].address \in Shadowed
    BY <1>5, <2>1, <2>2 DEF ShadowedLogs
  <2> DEFINE row == LogRow(b, order, i, k, k)
  <2>4. row \in new
    <3>1. IsShadowed(row.address)
      BY <2>3 DEF LogRow, IsShadowed
    <3>2. row \in {LogRow(b, order, i, l, l) : l \in DOMAIN order[i].logs}
      BY <2>3
    <3> HIDE DEF row
    <3>3. row \in Logs(b, order)
      BY <3>2 DEF Logs
    <3> QED
      BY <3>1, <3>3
  <2>5. RowFor(row, e, k)
    BY <1>5, <2>1, <2>2 DEF RowFor, LogRow
  <2> QED
    BY <2>4, <2>5
<1>6. ASSUME NEW r \in new, NEW q \in new, r.tx = q.tx,
             r.transaction_log_index = q.transaction_log_index
      PROVE  r = q
  <2>1. PICK i \in DOMAIN order :
          \E k \in DOMAIN order[i].logs : r = LogRow(b, order, i, k, k)
    BY <1>3
  <2>2. PICK k \in DOMAIN order[i].logs : r = LogRow(b, order, i, k, k)
    BY <2>1
  <2>3. PICK j \in DOMAIN order :
          \E l \in DOMAIN order[j].logs : q = LogRow(b, order, j, l, l)
    BY <1>3
  <2>4. PICK l \in DOMAIN order[j].logs : q = LogRow(b, order, j, l, l)
    BY <2>3
  <2>5. order[i].tx = order[j].tx /\ k - 1 = l - 1
    BY <1>6, <2>2, <2>4 DEF LogRow
  <2>6. order[i] = order[j]
    BY <1>1, <2>5 DEF Matches
  <2>7. i = j
    BY <2>6, OrderOnce
  <2>8. k \in Nat /\ l \in Nat
    BY <1>1
  <2> QED
    BY <2>2, <2>4, <2>5, <2>7, <2>8
<1>7. ASSUME NEW r \in rs, NEW q \in new
      PROVE  r.block # q.block
  <2>1. PICK e \in tr : e.block \in done_blocks /\ r.block = e.block
    BY DEF RowsOf, RowFor
  <2>2. PICK f \in tr : f.block = b /\ q.block = b
    BY <1>4 DEF RowFor
  <2> QED
    BY <2>1, <2>2
<1> HIDE DEF new
<1>8. \A r \in rs \cup new : \E e \in tr : e.block \in done_blocks \cup {b}
        /\ \E k \in ShadowedLogs(e) : RowFor(r, e, k)
  BY <1>4 DEF RowsOf
<1>9. \A e \in tr : e.block \in done_blocks \cup {b} =>
        \A k \in ShadowedLogs(e) : \E r \in rs \cup new : RowFor(r, e, k)
  BY <1>5 DEF RowsOf
<1>10. \A r, q \in rs \cup new :
         (/\ r.block = q.block /\ r.tx = q.tx
          /\ r.transaction_log_index = q.transaction_log_index) => r = q
  BY <1>6, <1>7 DEF RowsOf
<1> QED
  BY <1>8, <1>9, <1>10 DEF RowsOf, new

\* The chain's blocks and their transactions, as far as the steps need them.
LEMMA ChainTyped ==
  ASSUME TypeInv
  PROVE  /\ chain \in Seq(Blocks) /\ Len(chain) \in Nat /\ DOMAIN chain = 1..Len(chain)
         /\ done \in Seq([block : Blocks, results : SUBSET Results])
         /\ Len(done) \in Nat /\ DOMAIN done = 1..Len(done)
         /\ todo \in Seq(Tx) /\ Len(todo) \in Nat /\ DOMAIN todo = 1..Len(todo)
         /\ \A b \in Blocks : /\ Transactions[b] \in Seq(Tx) /\ Len(Transactions[b]) \in Nat
                             /\ DOMAIN Transactions[b] = 1..Len(Transactions[b])
BY ExecutorAssumption DEF TypeInv, TypeOK

\* No transaction of the chain is in two places.
LEMMA OnePlace ==
  ASSUME OnceEach(chain), NEW i \in DOMAIN chain, NEW j \in DOMAIN chain,
         NEW t \in Elements(Transactions[chain[i]]), t \in Elements(Transactions[chain[j]])
  PROVE  i = j
<1>1. PICK k \in DOMAIN Transactions[chain[i]] : Transactions[chain[i]][k] = t
  BY DEF Elements
<1>2. PICK l \in DOMAIN Transactions[chain[j]] : Transactions[chain[j]][l] = t
  BY DEF Elements
<1> QED
  BY <1>1, <1>2 DEF OnceEach

LEMMA Executing ==
  ASSUME TypeInv, phase = "executing"
  PROVE  /\ Len(done) + 1 \in DOMAIN chain /\ Current = chain[Len(done) + 1]
         /\ Current \in Elements(chain) /\ Current \in Blocks
<1>1. Len(done) + 1 \in DOMAIN chain
  BY ChainTyped DEF TypeInv, PhaseInv
<1> QED
  BY <1>1, ChainTyped DEF Current, Elements

LEMMA TransactionPassed ==
  ASSUME TypeInv, LogsInv, NextTransaction
  PROVE  /\ Head(todo) \in Ahead /\ Head(todo) \in Elements(Transactions[Current])
         /\ Ahead' = Ahead \ {Head(todo)} /\ TodoSuffix'
<1> DEFINE T == Transactions[Current]
           later == UNION {Elements(Transactions[chain[i]]) : i \in Len(done) + 2..Len(chain)}
<1>1. /\ phase = "executing" /\ phase' = "executing" /\ todo # <<>> /\ todo' = Tail(todo)
      /\ chain' = chain /\ done' = done /\ Current' = Current
  BY DEF NextTransaction, Current
<1>2. /\ Head(todo) = todo[1] /\ 1 \in DOMAIN todo /\ Len(todo) >= 1
      /\ todo' \in Seq(Tx) /\ Len(todo') = Len(todo) - 1 /\ DOMAIN todo' = 1..(Len(todo) - 1)
      /\ \A i \in DOMAIN todo' : i + 1 \in DOMAIN todo /\ todo'[i] = todo[i + 1]
  BY <1>1, ChainTyped
<1>3. PICK p \in 0..Len(T) : /\ Len(todo) + p = Len(T)
                             /\ \A i \in DOMAIN todo : todo[i] = T[p + i]
  BY <1>1 DEF LogsInv, TodoSuffix
<1>4. T \in Seq(Tx) /\ DOMAIN T = 1..Len(T) /\ Len(T) \in Nat
  BY <1>1, Executing, ChainTyped
<1>5. \A i \in DOMAIN todo : p + i \in DOMAIN T
  BY <1>3, <1>4, ChainTyped
<1>6. \A k, l \in DOMAIN T : T[k] = T[l] => k = l
  BY <1>1, Executing DEF LogsInv, OnceEach
<1>7. Head(todo) \in Elements(T)
  BY <1>2, <1>3, <1>5 DEF Elements
<1>8. Elements(todo') = Elements(todo) \ {Head(todo)}
  <2>1. ASSUME NEW i \in DOMAIN todo, NEW j \in DOMAIN todo, todo[i] = todo[j]
        PROVE  i = j
    <3>1. T[p + i] = T[p + j]
      BY <1>3, <2>1
    <3>2. p + i = p + j
      BY <1>5, <1>6, <3>1
    <3>3. i \in Nat /\ j \in Nat /\ p \in Nat
      BY <1>3, <1>4, ChainTyped
    <3> QED
      BY <3>2, <3>3
  <2>2. ASSUME NEW i \in DOMAIN todo, todo[i] # Head(todo)
        PROVE  i - 1 \in DOMAIN todo' /\ todo'[i - 1] = todo[i]
    BY <1>2, <2>2, ChainTyped
  <2>3. Elements(todo) \ {Head(todo)} \subseteq Elements(todo')
    BY <2>2 DEF Elements
  <2>4. ASSUME NEW i \in DOMAIN todo'
        PROVE  todo'[i] \in Elements(todo) \ {Head(todo)}
    <3>1. i + 1 \in DOMAIN todo /\ i + 1 # 1
      BY <1>2
    <3> QED
      BY <1>2, <2>1, <3>1 DEF Elements
  <2> QED
    BY <2>3, <2>4 DEF Elements
<1>9. Head(todo) \notin later
  <2> SUFFICES ASSUME NEW i \in Len(done) + 2..Len(chain),
                      Head(todo) \in Elements(Transactions[chain[i]])
               PROVE  FALSE
    OBVIOUS
  <2>1. i \in DOMAIN chain /\ i # Len(done) + 1
    BY ChainTyped
  <2> QED
    BY <1>1, <1>7, <2>1, Executing, OnePlace DEF LogsInv
<1>10. Ahead = Elements(todo) \cup later /\ Ahead' = Elements(todo') \cup later
  BY <1>1 DEF Ahead, Elements
<1>11. Head(todo) \in Elements(todo)
  BY <1>2 DEF Elements
<1>12. TodoSuffix'
  <2>1. p + 1 \in 0..Len(T) /\ Len(todo') + (p + 1) = Len(T)
    <3>1. Len(todo) \in Nat /\ Len(T) \in Nat /\ Len(todo) >= 1
      BY <1>2, <1>4, ChainTyped
    <3>2. Len(todo) + p = Len(T) /\ p \in 0..Len(T)
      BY <1>3
    <3>3. Len(todo') = Len(todo) - 1
      BY <1>2
    <3> QED
      BY <3>1, <3>2, <3>3
  <2>2. \A i \in DOMAIN todo' : todo'[i] = T[(p + 1) + i]
    <3> SUFFICES ASSUME NEW i \in DOMAIN todo' PROVE todo'[i] = T[(p + 1) + i]
      OBVIOUS
    <3>1. (p + 1) + i = p + (i + 1)
      BY <1>2
    <3> QED
      BY <1>2, <1>3, <3>1
  <2> QED
    BY <1>1, <2>1, <2>2 DEF TodoSuffix
<1> HIDE DEF later, T
<1> QED
  BY <1>7, <1>8, <1>9, <1>10, <1>11, <1>12 DEF T

\* A transaction that leaves nothing but, perhaps, its failure.
LEMMA SkipLogs ==
  ASSUME TypeInv, LogsInv, SkipUnsigned \/ SkipFailed
  PROVE  LogsInv'
<1>1. NextTransaction /\ trace' = trace /\ results' = results
  BY DEF SkipUnsigned, SkipFailed
<1>2. /\ chain' = chain /\ done' = done /\ left' = left /\ phase' = phase /\ rows' = rows
      /\ Current' = Current /\ Count' = Count
  BY <1>1 DEF NextTransaction, Current, Count
<1>3. Collected' = Collected
  BY <1>2 DEF Collected
<1>4. Ahead' = Ahead \ {Head(todo)} /\ Head(todo) \in Ahead /\ TodoSuffix'
  BY <1>1, TransactionPassed
<1>5. TraceOf(trace, skipped', chain, Ahead \ {Head(todo)})
  <2>1. CASE SkipUnsigned
    BY <2>1, PassUnsigned DEF SkipUnsigned, LogsInv
  <2>2. CASE SkipFailed
    BY <1>4, <2>2, PassFailed DEF SkipFailed, LogsInv
  <2> QED
    BY <2>1, <2>2
<1>6. DoneInv'
  BY <1>1, <1>2 DEF LogsInv, DoneInv
<1> QED
  BY <1>1, <1>2, <1>3, <1>4, <1>5, <1>6 DEF LogsInv, OnceEach

\* A transaction with an entry e and a result r.
LEMMA RunLogs ==
  ASSUME TypeInv, LogsInv, NextTransaction, Head(todo) \in Signed, NEW e, NEW r,
         e.block = Current, e.tx = Head(todo), r.tx = Head(todo), r.logs = TraceLogs(e),
         trace' = trace \cup {e}, results' = results \cup {r}, skipped' = skipped
  PROVE  LogsInv'
<1>1. /\ chain' = chain /\ done' = done /\ left' = left /\ phase' = phase /\ rows' = rows
      /\ Current' = Current /\ Count' = Count /\ phase = "executing" /\ Count = 0
  BY DEF NextTransaction, Current, Count
<1>2. /\ Ahead' = Ahead \ {e.tx} /\ e.tx \in Ahead /\ TodoSuffix'
      /\ e.tx \in Elements(Transactions[e.block])
  BY TransactionPassed
<1>3. TraceOf(trace \cup {e}, skipped, chain, Ahead \ {e.tx})
  BY <1>1, <1>2, Executing, PassRun DEF LogsInv
<1>4. \A f \in trace : f.tx # e.tx
  BY <1>2 DEF LogsInv, TraceOf
<1>5. Matches(results', Current, trace')
  <2>1. Matches(results, Current, trace)
    BY <1>1 DEF LogsInv, DoneInv
  <2> QED
    BY <1>4, <2>1, MatchesMore
<1>6. ASSUME NEW i \in DOMAIN done
      PROVE  done[i].block = chain[i] /\ Matches(done[i].results, chain[i], trace')
  <2>1. Count + i = i
    BY <1>1, ChainTyped
  <2>2. done[i].block = chain[i] /\ Matches(done[i].results, chain[i], trace)
    BY <2>1 DEF LogsInv, DoneInv
  <2>3. i \in DOMAIN chain /\ i # Len(done) + 1
    BY <1>1, Executing, ChainTyped
  <2>4. chain[i] # Current
    BY <1>1, <1>2, <2>3, Executing, OnePlace DEF LogsInv
  <2> QED
    BY <2>2, <2>4, MatchesOther
<1>7. DoneInv'
  <2>1. \A i \in DOMAIN done : Count + i = i
    BY <1>1, ChainTyped
  <2> QED
    BY <1>1, <1>5, <1>6, <2>1 DEF DoneInv
<1>8. Collected = {} /\ Collected' = {}
  BY <1>1 DEF Collected
<1>9. RowsOf(rows, trace', {})
  BY <1>8 DEF LogsInv, RowsOf
<1> QED
  BY <1>1, <1>2, <1>3, <1>7, <1>8, <1>9 DEF LogsInv, OnceEach

LEMMA HaltLogs ==
  ASSUME TypeInv, LogsInv, Halt
  PROVE  LogsInv'
<1>1. PICK n \in 0..Len(Does[Head(todo)]), unreadable \in SUBSET Unreliable :
        trace' = trace \cup {[block |-> Current, tx |-> Head(todo), halted |-> TRUE,
                              runs |-> Transact(Head(todo), n, unreadable).runs]}
  BY DEF Halt
<1> DEFINE e == [block |-> Current, tx |-> Head(todo), halted |-> TRUE,
                 runs |-> Transact(Head(todo), n, unreadable).runs]
           r == [tx |-> Head(todo), on |-> state, logs |-> <<>>]
<1>2. /\ e.block = Current /\ e.tx = Head(todo) /\ r.tx = Head(todo)
      /\ r.logs = TraceLogs(e)
  BY DEF TraceLogs
<1>3. /\ NextTransaction /\ Head(todo) \in Signed /\ skipped' = skipped
      /\ results' = results \cup {r} /\ trace' = trace \cup {e}
  BY <1>1 DEF Halt
<1> HIDE DEF e, r
<1> QED
  BY <1>2, <1>3, RunLogs

LEMMA ExecuteLogs ==
  ASSUME TypeInv, LogsInv, Execute
  PROVE  LogsInv'
<1>1. PICK unreadable \in SUBSET Unreliable :
        LET m == Transact(Head(todo), Len(Does[Head(todo)]), unreadable) IN
        /\ results' = results \cup {[tx |-> Head(todo), on |-> state, logs |-> LogsOf(m.runs)]}
        /\ trace' = trace \cup {[block |-> Current, tx |-> Head(todo), halted |-> FALSE,
                                  runs |-> m.runs]}
  BY DEF Execute
<1> DEFINE m == Transact(Head(todo), Len(Does[Head(todo)]), unreadable)
           e == [block |-> Current, tx |-> Head(todo), halted |-> FALSE, runs |-> m.runs]
           r == [tx |-> Head(todo), on |-> state, logs |-> LogsOf(m.runs)]
<1>2. /\ NextTransaction /\ Head(todo) \in Signed /\ skipped' = skipped
      /\ results' = results \cup {r} /\ trace' = trace \cup {e}
  BY <1>1 DEF Execute
<1> HIDE DEF m
<1>3. /\ e.block = Current /\ e.tx = Head(todo) /\ r.tx = Head(todo)
      /\ r.logs = TraceLogs(e)
  BY DEF TraceLogs
<1> HIDE DEF e, r
<1> QED
  BY <1>2, <1>3, RunLogs

LEMMA NewLogs ==
  ASSUME TypeInv, LogsInv, New
  PROVE  LogsInv'
<1>1. /\ phase' = "executing" /\ done = <<>> /\ done' = <<>> /\ results' = {}
      /\ trace' = {} /\ skipped' = {} /\ rows' = {} /\ Count' = 0
  BY DEF New, TypeInv, PhaseInv, Count
<1>2. /\ left # <<>> /\ chain' = Head(left) /\ left' = Tail(left)
      /\ todo' = Transactions[chain'[1]] /\ left \in Seq(Seq(Blocks) \ {<<>>})
  BY DEF New, TypeInv, TypeOK
<1> DEFINE C == Seq(Blocks) \ {<<>>}
<1>3. /\ chain' \in C /\ chain' = left[1] /\ 1 \in DOMAIN left
      /\ \A i \in DOMAIN Tail(left) : i + 1 \in DOMAIN left /\ Tail(left)[i] = left[i + 1]
  <2> HIDE DEF C
  <2>1. left \in Seq(C)
    BY <1>2 DEF C
  <2> QED
    BY <1>2, <2>1
<1>4. OnceEach(chain') /\ \A i \in DOMAIN left' : OnceEach(left'[i])
  BY <1>2, <1>3 DEF LogsInv
<1>5. /\ chain' \in Seq(Blocks) /\ DOMAIN chain' = 1..Len(chain') /\ Len(chain') \in Nat
      /\ 1 \in DOMAIN chain'
  BY <1>3
<1>6. Current' = chain'[1] /\ chain'[1] \in Blocks
  BY <1>1, <1>5 DEF Current
<1>7. TodoSuffix'
  <2>1. todo' = Transactions[Current'] /\ todo' \in Seq(Tx)
    BY <1>2, <1>6, ExecutorAssumption
  <2>2. Len(todo') \in Nat /\ DOMAIN todo' = 1..Len(todo')
    BY <2>1
  <2>3. 0 \in 0..Len(todo') /\ Len(todo') + 0 = Len(todo')
        /\ \A i \in DOMAIN todo' : 0 + i = i
    BY <2>2
  <2> QED
    BY <2>1, <2>3 DEF TodoSuffix
<1>8. \A b \in Elements(chain') : \A t \in Elements(Transactions[b]) : t \in Ahead'
  <2> SUFFICES ASSUME NEW i \in DOMAIN chain', NEW t \in Elements(Transactions[chain'[i]])
               PROVE  t \in Ahead'
    BY DEF Elements
  <2>1. Ahead' = Elements(todo')
           \cup UNION {Elements(Transactions[chain'[j]]) : j \in 0 + 2..Len(chain')}
    BY <1>1 DEF Ahead, Elements
  <2>2. i = 1 \/ i \in 0 + 2..Len(chain')
    BY <1>5
  <2> QED
    BY <1>2, <2>1, <2>2
<1>9. TraceOf({}, {}, chain', Ahead')
  BY <1>8 DEF TraceOf
<1>10. DoneInv'
  BY <1>1 DEF DoneInv, Matches
<1>11. RowsOf({}, {}, Collected')
  BY DEF RowsOf
<1>12. Len(done') <= Len(chain')
  BY <1>1, <1>5
<1> QED
  BY <1>1, <1>4, <1>7, <1>9, <1>10, <1>11, <1>12 DEF LogsInv, OnceEach

\* A block is finished: its results are those of its entries, and the block
\* after it, if there is one, has no entry yet.
LEMMA FinishBlockLogs ==
  ASSUME TypeInv, LogsInv, FinishBlock
  PROVE  LogsInv'
<1> DEFINE n == Len(done)
           later == UNION {Elements(Transactions[chain[i]]) : i \in n + 2..Len(chain)}
<1>1. /\ phase = "executing" /\ todo = <<>> /\ chain' = chain /\ left' = left
      /\ rows' = rows /\ trace' = trace /\ skipped' = skipped /\ results' = {}
      /\ done' = Append(done, [block |-> Current, results |-> results])
  BY DEF FinishBlock
<1>2. /\ n \in Nat /\ Len(done') = n + 1 /\ DOMAIN done' = 1..(n + 1)
      /\ \A i \in DOMAIN done : done'[i] = done[i]
      /\ done'[n + 1] = [block |-> Current, results |-> results]
  BY <1>1, ChainTyped
<1>3. n + 1 \in DOMAIN chain /\ Current = chain[n + 1] /\ n + 1 <= Len(chain)
  BY <1>1, Executing, ChainTyped
<1>4. Count = 0 /\ Collected = {} /\ Ahead = later
  BY <1>1 DEF Count, Collected, Ahead, Elements
<1>5. Count' = 0
  <2>1. CASE n + 1 < Len(chain)
    BY <1>1, <2>1 DEF FinishBlock, Count
  <2>2. CASE ~(n + 1 < Len(chain))
    <3>1. phase' = "collecting"
      BY <2>2 DEF FinishBlock
    <3>2. Len(chain) - Len(done') = 0
      <4>1. Len(chain) \in Nat /\ n \in Nat
        BY ChainTyped
      <4>2. Len(done') = n + 1
        BY <1>2
      <4> HIDE DEF n
      <4>3. Len(chain) = n + 1
        BY <1>3, <2>2, <4>1
      <4> QED
        BY <4>1, <4>2, <4>3
    <3> QED
      BY <1>1, <3>1, <3>2 DEF Count
  <2> QED
    BY <2>1, <2>2
<1>6. Collected' = {}
  BY <1>5 DEF Collected
<1>7. ASSUME NEW i \in DOMAIN done'
      PROVE  /\ done'[i].block = chain[i]
             /\ Matches(done'[i].results, chain[i], trace)
  <2>1. CASE i \in DOMAIN done
    <3>1. Count + i = i
      BY <1>4, <2>1, ChainTyped
    <3> QED
      BY <1>2, <2>1, <3>1 DEF LogsInv, DoneInv
  <2>2. CASE i = n + 1
    BY <1>1, <1>2, <1>3, <2>2 DEF LogsInv, DoneInv
  <2> QED
    BY <1>2, <2>1, <2>2, ChainTyped
<1>8. CASE n + 1 < Len(chain)
  <2>1. /\ phase' = "executing" /\ todo' = Transactions[chain[n + 2]] /\ n + 2 \in DOMAIN chain
    BY <1>2, <1>8, ChainTyped DEF FinishBlock
  <2>2. Current' = chain[n + 2] /\ chain[n + 2] \in Blocks
    <3>1. Len(done') + 1 = n + 2
      BY <1>2
    <3> QED
      BY <1>1, <2>1, <3>1, ChainTyped DEF Current
  <2>3. TodoSuffix'
    <3>1. todo' = Transactions[Current'] /\ Len(todo') \in Nat /\ DOMAIN todo' = 1..Len(todo')
      BY <2>1, <2>2, ChainTyped
    <3>2. 0 \in 0..Len(todo') /\ Len(todo') + 0 = Len(todo')
          /\ \A i \in DOMAIN todo' : 0 + i = i
      BY <3>1
    <3> QED
      BY <3>1, <3>2 DEF TodoSuffix
  <2>4. Ahead' = Ahead
    <3>1. Ahead' = Elements(todo')
            \cup UNION {Elements(Transactions[chain[i]]) : i \in (n + 1) + 2..Len(chain)}
      BY <1>1, <1>2, <2>1 DEF Ahead, Elements
    <3>2. \A i : i \in n + 2..Len(chain) <=> i = n + 2 \/ i \in (n + 1) + 2..Len(chain)
      BY <1>2, <2>1, ChainTyped
    <3> QED
      BY <1>4, <2>1, <3>1, <3>2
  <2>5. Matches({}, Current', trace)
    <3>1. ASSUME NEW e \in trace, e.block = chain[n + 2]
          PROVE  FALSE
      <4>1. n + 2 \in n + 2..Len(chain)
        BY <1>2, <2>1, ChainTyped
      <4>2. e.tx \in later
        BY <3>1, <4>1 DEF LogsInv, TraceOf
      <4> QED
        BY <1>4, <4>2 DEF LogsInv, TraceOf
    <3> QED
      BY <2>2, <3>1 DEF Matches
  <2>6. DoneInv'
    <3>1. \A i \in DOMAIN done' : Count' + i = i
      BY <1>2, <1>5
    <3> QED
      BY <1>1, <1>7, <2>5, <3>1 DEF DoneInv
  <2>7. Len(done') <= Len(chain')
    BY <1>1, <1>2, <1>3
  <2> HIDE DEF later, n
  <2> QED
    BY <1>1, <1>4, <1>6, <2>3, <2>4, <2>6, <2>7 DEF LogsInv, OnceEach
<1>9. CASE ~(n + 1 < Len(chain))
  <2>1. phase' = "collecting"
    BY <1>9 DEF FinishBlock
  <2>2. Ahead' = {} /\ Ahead = {}
    <3>1. n + 2..Len(chain) = {}
      BY <1>2, <1>9, ChainTyped
    <3> QED
      BY <1>4, <2>1, <3>1 DEF Ahead
  <2>3. TodoSuffix'
    BY <2>1 DEF TodoSuffix
  <2>4. DoneInv'
    <3>1. \A i \in DOMAIN done' : Count' + i = i
      BY <1>2, <1>5
    <3> QED
      BY <1>1, <1>7, <2>1, <3>1 DEF DoneInv
  <2>5. Len(done') <= Len(chain')
    BY <1>1, <1>2, <1>3
  <2> HIDE DEF later, n
  <2> QED
    BY <1>1, <1>4, <1>6, <2>2, <2>3, <2>4, <2>5 DEF LogsInv, OnceEach
<1> QED
  BY <1>8, <1>9

\* The logs of the first block that is left: the next of the chain.
LEMMA CollectLogsLogs ==
  ASSUME TypeInv, LogsInv, CollectLogs
  PROVE  LogsInv'
<1>1. /\ phase = "collecting" /\ phase' \in {"collecting", "collected"} /\ chain' = chain
      /\ left' = left /\ trace' = trace /\ skipped' = skipped
  BY DEF CollectLogs
<1>2. Ahead = {} /\ Ahead' = {} /\ TodoSuffix'
  BY <1>1 DEF Ahead, TodoSuffix
<1>3. CASE done = <<>>
  <2>1. done' = done /\ rows' = rows
    BY <1>3 DEF CollectLogs
  <2>2. Count' = Count
    BY <1>1, <2>1 DEF Count
  <2>3. Collected' = Collected
    BY <1>1, <2>2 DEF Collected
  <2>4. DoneInv'
    BY <1>1, <2>1, <2>2 DEF DoneInv, LogsInv
  <2> QED
    BY <1>1, <1>2, <2>1, <2>3, <2>4 DEF LogsInv, OnceEach
<1>4. CASE done # <<>>
  <2> DEFINE b == Head(done).block
             R == Head(done).results
             D == [block : Blocks, results : SUBSET Results]
  <2>1. /\ Head(done) = done[1] /\ 1 \in DOMAIN done /\ done' = Tail(done)
        /\ Len(done) >= 1 /\ Len(done') = Len(done) - 1 /\ Len(done) <= Len(chain)
        /\ \A i \in DOMAIN done' : i + 1 \in DOMAIN done /\ done'[i] = done[i + 1]
    <3>1. done \in Seq(D)
      BY ChainTyped
    <3> HIDE DEF D
    <3> QED
      BY <1>4, <3>1 DEF CollectLogs, LogsInv
  <2>2. Count \in Nat /\ Count' = Count + 1 /\ Count + 1 \in DOMAIN chain
    BY <1>1, <2>1, ChainTyped DEF Count
  <2>3. b = chain[Count + 1] /\ Matches(R, b, trace)
    BY <2>1 DEF LogsInv, DoneInv
  <2>4. IsFiniteSet(R) /\ \A r \in R : r.logs \in Seq([address : Address, data : Code])
    <3>1. IsFiniteSet(R) /\ R \subseteq Results
      BY <2>1, DoneTyped
    <3> HIDE DEF R
    <3>2. \A r \in Results : r.logs \in Seq([address : Address, data : Code])
      BY Zenon DEF Results
    <3> QED
      BY <3>1, <3>2
  <2>5. PICK order \in IterationOrders(R) :
          rows' = rows \cup {r \in Logs(b, order) : IsShadowed(r.address)}
    BY <1>4 DEF CollectLogs
  <2>6. \A e \in trace : e.block = b => b \notin Collected
    <3> SUFFICES ASSUME NEW e \in trace, e.block = b, NEW i \in 1..Count, chain[i] = b
                 PROVE  FALSE
      BY DEF Collected
    <3>1. i \in DOMAIN chain /\ i # Count + 1
      BY <2>2, ChainTyped
    <3>2. e.tx \in Elements(Transactions[b])
      BY DEF LogsInv, TraceOf
    <3> QED
      BY <2>2, <2>3, <3>1, <3>2, OnePlace DEF LogsInv
  <2>7. Collected' = Collected \cup {b}
    <3>1. \A i : i \in 1..(Count + 1) <=> i \in 1..Count \/ i = Count + 1
      BY <2>2
    <3>2. Collected' = {chain[i] : i \in 1..(Count + 1)}
      BY <1>1, <2>2 DEF Collected
    <3> QED
      BY <2>3, <3>1, <3>2 DEF Collected
  <2> HIDE DEF b, R
  <2>8. RowsOf(rows', trace, Collected \cup {b})
    <3>1. RowsOf(rows, trace, Collected)
      BY DEF LogsInv
    <3> QED
      BY <2>3, <2>4, <2>5, <2>6, <3>1, RowsMore
  <2>9. DoneInv'
    <3>1. ASSUME NEW i \in DOMAIN done'
          PROVE  /\ done'[i].block = chain[Count' + i]
                 /\ Matches(done'[i].results, chain[Count' + i], trace)
      <4>1. Count' + i = Count + (i + 1)
        BY <2>1, <2>2, ChainTyped
      <4> QED
        BY <2>1, <4>1 DEF LogsInv, DoneInv
    <3> QED
      BY <1>1, <3>1 DEF DoneInv
  <2>10. Len(done') <= Len(chain')
    BY <1>1, <2>1, ChainTyped
  <2> QED
    BY <1>1, <1>2, <2>7, <2>8, <2>9, <2>10 DEF LogsInv, OnceEach
<1> QED
  BY <1>3, <1>4

LEMMA LogsInvariant == Spec => [](TypeInv /\ LogsInv)
<1>1. Init => LogsInv
  <2> SUFFICES ASSUME Init PROVE LogsInv
    OBVIOUS
  <2>1. /\ chain = <<>> /\ done = <<>> /\ trace = {} /\ skipped = {} /\ rows = {}
        /\ phase = "idle"
    BY DEF Init
  <2>2. \A i \in DOMAIN left : OnceEach(left[i])
    BY ExecutorAssumption DEF Init, Elements
  <2>3. OnceEach(<<>>) /\ TraceOf({}, {}, <<>>, Ahead)
    BY DEF OnceEach, TraceOf, Elements
  <2>4. DoneInv /\ TodoSuffix /\ RowsOf({}, {}, Collected)
    BY <2>1 DEF DoneInv, TodoSuffix, RowsOf
  <2> QED
    BY <2>1, <2>2, <2>3, <2>4 DEF LogsInv
<1>2. TypeInv /\ LogsInv /\ UNCHANGED vars => LogsInv'
  <2> SUFFICES ASSUME LogsInv, UNCHANGED vars PROVE LogsInv'
    OBVIOUS
  <2>1. /\ chain' = chain /\ done' = done /\ trace' = trace /\ skipped' = skipped
        /\ rows' = rows /\ phase' = phase /\ left' = left /\ todo' = todo /\ results' = results
    BY DEF vars, evm
  <2>2. Current' = Current /\ Count' = Count
    BY <2>1 DEF Current, Count
  <2>3. Ahead' = Ahead /\ Collected' = Collected
    BY <2>1, <2>2 DEF Ahead, Collected, Elements
  <2>4. DoneInv' /\ TodoSuffix'
    BY <2>1, <2>2 DEF LogsInv, DoneInv, TodoSuffix
  <2> QED
    BY <2>1, <2>3, <2>4 DEF LogsInv, OnceEach
<1>3. TypeInv /\ LogsInv /\ [Next]_vars => LogsInv'
  BY <1>2, NewLogs, SkipLogs, HaltLogs, ExecuteLogs, FinishBlockLogs, CollectLogsLogs DEF Next
<1> QED
  BY <1>1, <1>3, TypeInvariant, PTL DEF Spec

\* When the logs of a notification have been collected, every transaction with
\* a sender that did not fail has run, and the rows are the logs of the
\* shadowed contracts, under their own block, transaction and position, once
\* each (execution.rs:97-128, lib.rs:119-130): for every chain of
\* notifications, in whatever order the HashMap yields the results.
THEOREM RowsCorrect == Spec => []RowsAreTheLogs
<1>1. TypeInv /\ LogsInv => RowsAreTheLogs
  <2> SUFFICES ASSUME TypeInv, LogsInv, phase = "collected"
               PROVE  RowsAreTheLogs
    BY DEF RowsAreTheLogs
  <2> DEFINE row(e, k) == <<e.block, e.tx, k - 1, TraceLogs(e)[k].address, TraceLogs(e)[k].data>>
             of(r) == <<r.block, r.tx, r.transaction_log_index, r.address, r.data>>
             expected == UNION {{row(e, k) : k \in ShadowedLogs(e)} : e \in trace}
             ran == UNION {{<<b, t>> : t \in {u \in Elements(Transactions[b]) : Ran(u)}} :
                             b \in Elements(chain)}
  <2>1. Ahead = {} /\ Collected = Elements(chain)
    <3>1. done = <<>> /\ Count = Len(chain)
      BY ChainTyped DEF TypeInv, PhaseInv, Count
    <3> QED
      BY <3>1, ChainTyped DEF Ahead, Collected, Elements
  <2>2. {<<e.block, e.tx>> : e \in trace} = ran
    <3>1. \A e \in trace : <<e.block, e.tx>> \in ran
      BY DEF LogsInv, TraceOf, Ran
    <3>2. ASSUME NEW b \in Elements(chain), NEW t \in Elements(Transactions[b]), Ran(t)
          PROVE  <<b, t>> \in {<<e.block, e.tx>> : e \in trace}
      <4>1. PICK e \in trace : e.block = b /\ e.tx = t
        BY <2>1, <3>2 DEF LogsInv, TraceOf, Ran
      <4> QED
        BY <4>1
    <3> QED
      BY <3>1, <3>2
  <2>3. {of(r) : r \in rows} = expected
    <3>1. ASSUME NEW r \in rows
          PROVE  of(r) \in expected
      <4>1. PICK e \in trace : \E k \in ShadowedLogs(e) : RowFor(r, e, k)
        BY DEF LogsInv, RowsOf
      <4>2. PICK k \in ShadowedLogs(e) : RowFor(r, e, k)
        BY <4>1
      <4>3. of(r) = row(e, k)
        BY <4>2 DEF RowFor
      <4> HIDE DEF of, row
      <4> QED
        BY <4>3
    <3>2. ASSUME NEW e \in trace, NEW k \in ShadowedLogs(e)
          PROVE  row(e, k) \in {of(r) : r \in rows}
      <4>1. e.block \in Collected
        BY <2>1 DEF LogsInv, TraceOf
      <4>2. PICK r \in rows : RowFor(r, e, k)
        BY <4>1 DEF LogsInv, RowsOf
      <4>3. of(r) = row(e, k)
        BY <4>2 DEF RowFor
      <4> HIDE DEF of, row
      <4> QED
        BY <4>3
    <3> HIDE DEF of, row
    <3> QED
      BY <3>1, <3>2
  <2>4. \A r, q \in rows :
          /\ r.block = q.block /\ r.tx = q.tx
          /\ r.transaction_log_index = q.transaction_log_index
          => r = q
    BY DEF LogsInv, RowsOf
  <2> QED
    BY <2>2, <2>3, <2>4, Zenon DEF RowsAreTheLogs, TraceLogs, ShadowedLogs
<1> QED
  BY <1>1, LogsInvariant, PTL

-----------------------------------------------------------------------------
(***************************************************************************)
(* What a transaction reads.  The transactions committed to the State are  *)
(* those of the trace, in the notification's order; those before the next  *)
(* one to run are the ones that are no longer ahead.                       *)
(***************************************************************************)
AllResults == results \cup UNION {done[i].results : i \in DOMAIN done}

InOrder(seq) == \A j, k \in DOMAIN seq : j < k => Precedes(seq[j], seq[k])

ReadsRight(r) ==
  Elements(r.on) = {t \in Tx : Precedes(t, r.tx) /\ Ran(t)} /\ InOrder(r.on)

ReadsInv ==
  /\ Elements(state) = {e.tx : e \in trace} /\ InOrder(state)
  /\ \A r \in AllResults : (\E e \in trace : e.tx = r.tx) /\ ReadsRight(r)

InChain(t) == \E i \in DOMAIN chain : t \in Elements(Transactions[chain[i]])

LEMMA PrecedesOneWay ==
  ASSUME TypeInv, OnceEach(chain), NEW t, NEW u, Precedes(t, u), Precedes(u, t)
  PROVE  FALSE
<1>1. PICK i \in DOMAIN chain, j \in DOMAIN chain :
        \E k \in DOMAIN Transactions[chain[i]], l \in DOMAIN Transactions[chain[j]] :
          /\ Transactions[chain[i]][k] = t /\ Transactions[chain[j]][l] = u
          /\ i < j \/ (i = j /\ k < l)
  BY DEF Precedes
<1>2. PICK k \in DOMAIN Transactions[chain[i]], l \in DOMAIN Transactions[chain[j]] :
        /\ Transactions[chain[i]][k] = t /\ Transactions[chain[j]][l] = u
        /\ i < j \/ (i = j /\ k < l)
  BY <1>1
<1>3. PICK m \in DOMAIN chain, n \in DOMAIN chain :
        \E x \in DOMAIN Transactions[chain[m]], y \in DOMAIN Transactions[chain[n]] :
          /\ Transactions[chain[m]][x] = u /\ Transactions[chain[n]][y] = t
          /\ m < n \/ (m = n /\ x < y)
  BY DEF Precedes
<1>4. PICK x \in DOMAIN Transactions[chain[m]], y \in DOMAIN Transactions[chain[n]] :
        /\ Transactions[chain[m]][x] = u /\ Transactions[chain[n]][y] = t
        /\ m < n \/ (m = n /\ x < y)
  BY <1>3
<1>5. i = n /\ k = y /\ j = m /\ l = x
  BY <1>2, <1>4 DEF OnceEach
<1>6. i \in Nat /\ j \in Nat /\ chain[i] \in Blocks /\ chain[j] \in Blocks
  BY ChainTyped
<1>7. /\ DOMAIN Transactions[chain[i]] = 1..Len(Transactions[chain[i]])
      /\ DOMAIN Transactions[chain[j]] = 1..Len(Transactions[chain[j]])
  BY <1>6, ChainTyped
<1>8. k \in Nat /\ l \in Nat
  BY <1>7
<1> QED
  BY <1>2, <1>4, <1>5, <1>6, <1>8

\* What comes before the next transaction is what is not ahead.
LEMMA BeforeHead ==
  ASSUME TypeInv, LogsInv, phase = "executing", todo # <<>>, NEW t
  PROVE  Precedes(t, Head(todo)) <=> InChain(t) /\ t \notin Ahead
<1> DEFINE n == Len(done)
           T == Transactions[Current]
           h == Head(todo)
<1>1. /\ n + 1 \in DOMAIN chain /\ Current = chain[n + 1] /\ n \in Nat
      /\ \A i \in DOMAIN chain : i \in Nat /\ i <= Len(chain) /\ chain[i] \in Blocks
  BY Executing, ChainTyped
<1>2. PICK p \in 0..Len(T) : /\ Len(todo) + p = Len(T)
                             /\ \A i \in DOMAIN todo : todo[i] = T[p + i]
  BY DEF LogsInv, TodoSuffix
<1>3. T \in Seq(Tx) /\ DOMAIN T = 1..Len(T) /\ Len(T) \in Nat
  BY <1>1, ChainTyped
<1>4. /\ h = todo[1] /\ Len(todo) \in Nat /\ Len(todo) >= 1 /\ DOMAIN todo = 1..Len(todo)
  BY ChainTyped
<1>5. p + 1 \in DOMAIN T /\ T[p + 1] = h /\ p \in Nat
  BY <1>2, <1>3, <1>4
<1>6. ASSUME NEW i \in DOMAIN chain, NEW k \in DOMAIN Transactions[chain[i]],
             Transactions[chain[i]][k] = t
      PROVE  t \in Ahead <=> i > n + 1 \/ (i = n + 1 /\ k > p)
  <2>0. k \in Nat /\ t \in Elements(Transactions[chain[i]])
    BY <1>1, <1>6, ChainTyped DEF Elements
  <2>1. CASE i > n + 1
    <3>1. i \in n + 2..Len(chain)
      BY <1>1, <2>1
    <3> QED
      BY <2>0, <2>1, <3>1 DEF Ahead
  <2>2. ASSUME i <= n + 1
        PROVE  \A m \in n + 2..Len(chain) : t \notin Elements(Transactions[chain[m]])
    <3> SUFFICES ASSUME NEW m \in n + 2..Len(chain), t \in Elements(Transactions[chain[m]])
                 PROVE  FALSE
      OBVIOUS
    <3>1. m \in DOMAIN chain /\ m # i
      BY <1>1, <2>2, ChainTyped
    <3> QED
      BY <2>0, <3>1, OnePlace DEF LogsInv
  <2>3. CASE i < n + 1
    <3>1. t \notin Elements(todo)
      <4> SUFFICES ASSUME NEW m \in DOMAIN todo, todo[m] = t PROVE FALSE
        BY DEF Elements
      <4>1. p + m \in DOMAIN T /\ T[p + m] = t
        BY <1>2, <1>3, <1>4
      <4>2. t \in Elements(Transactions[chain[n + 1]])
        BY <1>1, <4>1 DEF Elements
      <4>3. i = n + 1
        BY <1>1, <2>0, <4>2, OnePlace DEF LogsInv
      <4> QED
        BY <1>1, <2>3, <4>3
    <3>2. i <= n + 1
      BY <1>1, <2>3
    <3>3. t \notin Ahead
      BY <2>2, <3>1, <3>2 DEF Ahead
    <3> QED
      BY <1>1, <2>3, <3>3
  <2>4. CASE i = n + 1 /\ k > p
    <3>1. T[k] = t /\ k \in 1..Len(T)
      BY <1>1, <1>3, <1>6, <2>4
    <3>2. k - p \in DOMAIN todo /\ p + (k - p) = k
      BY <1>2, <1>3, <1>4, <1>5, <2>0, <2>4, <3>1
    <3>3. todo[k - p] = t
      BY <1>2, <3>1, <3>2
    <3> QED
      BY <2>4, <3>2, <3>3 DEF Ahead, Elements
  <2>5. CASE i = n + 1 /\ ~(k > p)
    <3>1. t \notin Elements(todo)
      <4> SUFFICES ASSUME NEW m \in DOMAIN todo, todo[m] = t PROVE FALSE
        BY DEF Elements
      <4>1. p + m \in DOMAIN T /\ T[p + m] = t
        BY <1>2, <1>3, <1>4
      <4>2. k = p + m
        BY <1>1, <1>6, <2>5, <4>1 DEF LogsInv, OnceEach
      <4> QED
        BY <1>4, <1>5, <2>0, <2>5, <4>2
    <3>2. i <= n + 1
      BY <1>1, <2>5
    <3>3. t \notin Ahead
      BY <2>2, <3>1, <3>2 DEF Ahead
    <3> QED
      BY <1>1, <2>5, <3>3
  <2> QED
    BY <1>1, <2>1, <2>3, <2>4, <2>5
<1>7. ASSUME Precedes(t, h)
      PROVE  InChain(t) /\ t \notin Ahead
  <2>1. PICK i \in DOMAIN chain, j \in DOMAIN chain :
          \E k \in DOMAIN Transactions[chain[i]], l \in DOMAIN Transactions[chain[j]] :
            /\ Transactions[chain[i]][k] = t /\ Transactions[chain[j]][l] = h
            /\ i < j \/ (i = j /\ k < l)
    BY <1>7 DEF Precedes
  <2>2. PICK k \in DOMAIN Transactions[chain[i]], l \in DOMAIN Transactions[chain[j]] :
          /\ Transactions[chain[i]][k] = t /\ Transactions[chain[j]][l] = h
          /\ i < j \/ (i = j /\ k < l)
    BY <2>1
  <2>3. j = n + 1 /\ l = p + 1
    BY <1>1, <1>5, <2>2 DEF LogsInv, OnceEach
  <2>4. k \in Nat
    BY <1>1, ChainTyped
  <2>5. ~(i > n + 1 \/ (i = n + 1 /\ k > p))
    BY <1>1, <1>5, <2>2, <2>3, <2>4
  <2> QED
    BY <1>6, <2>2, <2>5 DEF InChain, Elements
<1>8. ASSUME InChain(t), t \notin Ahead
      PROVE  Precedes(t, h)
  <2>1. PICK i \in DOMAIN chain : t \in Elements(Transactions[chain[i]])
    BY <1>8 DEF InChain
  <2>2. PICK k \in DOMAIN Transactions[chain[i]] : Transactions[chain[i]][k] = t
    BY <2>1 DEF Elements
  <2>3. ~(i > n + 1 \/ (i = n + 1 /\ k > p))
    BY <1>6, <1>8, <2>2
  <2>4. k \in Nat
    BY <1>1, ChainTyped
  <2>5. i < n + 1 \/ (i = n + 1 /\ k < p + 1)
    BY <1>1, <1>5, <2>3, <2>4
  <2> HIDE DEF n, h, T
  <2>6. Transactions[chain[n + 1]][p + 1] = h /\ p + 1 \in DOMAIN Transactions[chain[n + 1]]
    BY <1>1, <1>5 DEF T
  <2> QED
    BY <1>1, <2>2, <2>5, <2>6 DEF Precedes
<1> QED
  BY <1>7, <1>8

LEMMA EntriesInChain ==
  ASSUME TypeInv, LogsInv, NEW e \in trace
  PROVE  InChain(e.tx) /\ e.tx \notin Ahead /\ e.tx \in Tx /\ Ran(e.tx)
BY DEF LogsInv, TraceOf, InChain, Elements, Ran, TypeInv, TypeOK

\* What has been committed is what the next transaction has before it.
LEMMA StateIsBefore ==
  ASSUME TypeInv, LogsInv, phase = "executing", todo # <<>>
  PROVE  {e.tx : e \in trace} = {t \in Tx : Precedes(t, Head(todo)) /\ Ran(t)}
<1>1. ASSUME NEW e \in trace
      PROVE  e.tx \in Tx /\ Precedes(e.tx, Head(todo)) /\ Ran(e.tx)
  BY EntriesInChain, BeforeHead
<1>2. ASSUME NEW t \in Tx, Precedes(t, Head(todo)), Ran(t)
      PROVE  \E e \in trace : e.tx = t
  <2>1. InChain(t) /\ t \notin Ahead
    BY <1>2, BeforeHead
  <2> QED
    BY <1>2, <2>1 DEF LogsInv, TraceOf, InChain, Elements, Ran
<1> QED
  BY <1>1, <1>2

\* The order is the chain's, and failures are of transactions still ahead.
LEMMA ReadsKept ==
  ASSUME TypeInv, LogsInv, ReadsInv, chain' = chain,
         \/ skipped' = skipped
         \/ /\ phase = "executing" /\ todo # <<>> /\ skipped' = skipped \cup {Head(todo)}
  PROVE  /\ \A seq : InOrder(seq)' <=> InOrder(seq)
         /\ \A r \in AllResults : ReadsRight(r)'
<1>1. \A t, u : Precedes(t, u)' <=> Precedes(t, u)
  BY DEF Precedes
<1>2. \A seq : InOrder(seq)' <=> InOrder(seq)
  BY <1>1 DEF InOrder
<1>3. ASSUME NEW r \in AllResults
      PROVE  ReadsRight(r)'
  <2>1. \A t \in Tx : Precedes(t, r.tx) => (Ran(t)' <=> Ran(t))
    <3>1. CASE skipped' = skipped
      BY <3>1 DEF Ran
    <3>2. CASE /\ phase = "executing" /\ todo # <<>> /\ skipped' = skipped \cup {Head(todo)}
      <4>1. Precedes(r.tx, Head(todo))
        BY <3>2, EntriesInChain, BeforeHead DEF ReadsInv
      <4>2. ~Precedes(Head(todo), r.tx)
        BY <4>1, PrecedesOneWay DEF LogsInv
      <4> QED
        BY <3>2, <4>2 DEF Ran
    <3> QED
      BY <3>1, <3>2
  <2>2. {t \in Tx : Precedes(t, r.tx) /\ Ran(t)} = {t \in Tx : Precedes(t, r.tx)' /\ Ran(t)'}
    BY <1>1, <2>1
  <2>3. Elements(r.on) = {t \in Tx : Precedes(t, r.tx) /\ Ran(t)} /\ InOrder(r.on)
    BY DEF ReadsInv, ReadsRight
  <2> QED
    BY <1>2, <2>2, <2>3 DEF ReadsRight, Elements
<1> QED
  BY <1>2, <1>3

LEMMA SkipReads ==
  ASSUME TypeInv, LogsInv, ReadsInv, SkipUnsigned \/ SkipFailed
  PROVE  ReadsInv'
<1>1. /\ NextTransaction /\ chain' = chain /\ done' = done /\ results' = results
      /\ trace' = trace /\ state' = state /\ phase = "executing" /\ todo # <<>>
      /\ skipped' = skipped \/ skipped' = skipped \cup {Head(todo)}
  BY DEF SkipUnsigned, SkipFailed, NextTransaction
<1>2. AllResults' = AllResults
  BY <1>1 DEF AllResults
<1>3. /\ InOrder(state) => InOrder(state)'
      /\ \A r \in AllResults : ReadsRight(r)'
  BY <1>1, ReadsKept DEF InOrder
<1> QED
  BY <1>1, <1>2, <1>3 DEF ReadsInv, Elements

LEMMA RunReads ==
  ASSUME TypeInv, LogsInv, ReadsInv, NextTransaction, NEW e, NEW r,
         e.tx = Head(todo), r.tx = Head(todo), r.on = state, state' = Append(state, Head(todo)),
         trace' = trace \cup {e}, results' = results \cup {r}, skipped' = skipped
  PROVE  ReadsInv'
<1> DEFINE h == Head(todo)
<1>1. /\ chain' = chain /\ done' = done /\ phase = "executing" /\ todo # <<>>
  BY DEF NextTransaction
<1>2. AllResults' = AllResults \cup {r}
  BY <1>1 DEF AllResults
<1>3. /\ \A seq : InOrder(seq)' <=> InOrder(seq)
      /\ \A q \in AllResults : ReadsRight(q)'
  BY <1>1, ReadsKept
<1>4. ReadsRight(r)
  BY <1>1, StateIsBefore DEF ReadsRight, ReadsInv
<1>5. \A t, u : (Precedes(t, u)' <=> Precedes(t, u)) /\ (Ran(t)' <=> Ran(t))
  BY <1>1 DEF Precedes, Ran
<1>6. ReadsRight(r)'
  BY <1>3, <1>4, <1>5 DEF ReadsRight, Elements
<1>7. /\ state \in Seq(Tx) /\ Len(state) \in Nat /\ Len(state') = Len(state) + 1
      /\ DOMAIN state' = 1..(Len(state) + 1) /\ DOMAIN state = 1..Len(state)
      /\ \A j \in DOMAIN state : state'[j] = state[j]
      /\ state'[Len(state) + 1] = h
  <2>1. h \in Tx
    BY <1>1, TransactionDue
  <2> QED
    BY <2>1 DEF TypeInv, TypeOK
<1>8. Elements(state') = Elements(state) \cup {h}
  <2>1. \A j : j \in DOMAIN state' <=> j \in DOMAIN state \/ j = Len(state) + 1
    BY <1>7
  <2> HIDE DEF h
  <2> QED
    BY <1>7, <2>1 DEF Elements
<1>9. InOrder(state')
  <2> SUFFICES ASSUME NEW j \in DOMAIN state', NEW k \in DOMAIN state', j < k
               PROVE  Precedes(state'[j], state'[k])
    BY DEF InOrder
  <2>1. j \in DOMAIN state
    BY <1>7
  <2>2. CASE k \in DOMAIN state
    BY <1>7, <2>1, <2>2 DEF ReadsInv, InOrder
  <2>3. CASE k = Len(state) + 1
    <3>1. PICK f \in trace : f.tx = state[j]
      BY <2>1 DEF ReadsInv, Elements
    <3>2. Precedes(state[j], h)
      BY <1>1, <3>1, EntriesInChain, BeforeHead
    <3> QED
      BY <1>7, <2>1, <2>3, <3>2
  <2> QED
    BY <1>7, <2>2, <2>3
<1>10. InOrder(state)'
  BY <1>5, <1>9 DEF InOrder
<1>11. Elements(state)' = {f.tx : f \in trace'}
  BY <1>8 DEF ReadsInv, Elements
<1>12. \A q \in AllResults' : \E f \in trace' : f.tx = q.tx
  BY <1>2 DEF ReadsInv
<1> QED
  BY <1>2, <1>3, <1>6, <1>10, <1>11, <1>12 DEF ReadsInv

LEMMA HaltReads ==
  ASSUME TypeInv, LogsInv, ReadsInv, Halt
  PROVE  ReadsInv'
<1>1. PICK n \in 0..Len(Does[Head(todo)]), unreadable \in SUBSET Unreliable :
        trace' = trace \cup {[block |-> Current, tx |-> Head(todo), halted |-> TRUE,
                              runs |-> Transact(Head(todo), n, unreadable).runs]}
  BY DEF Halt
<1> DEFINE e == [block |-> Current, tx |-> Head(todo), halted |-> TRUE,
                 runs |-> Transact(Head(todo), n, unreadable).runs]
           r == [tx |-> Head(todo), on |-> state, logs |-> <<>>]
<1>2. e.tx = Head(todo) /\ r.tx = Head(todo) /\ r.on = state
  OBVIOUS
<1>3. /\ NextTransaction /\ skipped' = skipped /\ state' = Append(state, Head(todo))
      /\ results' = results \cup {r} /\ trace' = trace \cup {e}
  BY <1>1 DEF Halt
<1> HIDE DEF e, r
<1> QED
  BY <1>2, <1>3, RunReads

LEMMA ExecuteReads ==
  ASSUME TypeInv, LogsInv, ReadsInv, Execute
  PROVE  ReadsInv'
<1>1. PICK unreadable \in SUBSET Unreliable :
        LET m == Transact(Head(todo), Len(Does[Head(todo)]), unreadable) IN
        /\ results' = results \cup {[tx |-> Head(todo), on |-> state, logs |-> LogsOf(m.runs)]}
        /\ trace' = trace \cup {[block |-> Current, tx |-> Head(todo), halted |-> FALSE,
                                  runs |-> m.runs]}
  BY DEF Execute
<1> DEFINE m == Transact(Head(todo), Len(Does[Head(todo)]), unreadable)
           e == [block |-> Current, tx |-> Head(todo), halted |-> FALSE, runs |-> m.runs]
           r == [tx |-> Head(todo), on |-> state, logs |-> LogsOf(m.runs)]
<1>2. /\ NextTransaction /\ skipped' = skipped /\ state' = Append(state, Head(todo))
      /\ results' = results \cup {r} /\ trace' = trace \cup {e}
  BY <1>1 DEF Execute
<1> HIDE DEF m
<1>3. e.tx = Head(todo) /\ r.tx = Head(todo) /\ r.on = state
  OBVIOUS
<1> HIDE DEF e, r
<1> QED
  BY <1>2, <1>3, RunReads

LEMMA LaterReads ==
  ASSUME TypeInv, LogsInv, ReadsInv, FinishBlock \/ CollectLogs \/ UNCHANGED vars
  PROVE  ReadsInv'
<1>1. /\ chain' = chain /\ trace' = trace /\ state' = state /\ skipped' = skipped
  BY DEF FinishBlock, CollectLogs, vars, evm
<1>2. AllResults' \subseteq AllResults
  <2>1. CASE FinishBlock
    <3> DEFINE d == [block |-> Current, results |-> results]
    <3>1. /\ done' = Append(done, d) /\ results' = {} /\ Len(done) \in Nat
          /\ DOMAIN done = 1..Len(done)
      BY <2>1, ChainTyped DEF FinishBlock
    <3>2. \A i \in DOMAIN done' : (i \in DOMAIN done /\ done'[i] = done[i]) \/ done'[i] = d
      <4> HIDE DEF d
      <4> QED
        BY <3>1, ChainTyped
    <3> QED
      BY <3>1, <3>2 DEF AllResults
  <2>2. CASE CollectLogs
    <3>1. \A i \in DOMAIN done' : \E j \in DOMAIN done : done'[i] = done[j]
      <4>1. CASE done = <<>>
        BY <2>2, <4>1 DEF CollectLogs
      <4>2. CASE done # <<>>
        <5> DEFINE D == [block : Blocks, results : SUBSET Results]
        <5>1. done \in Seq(D) /\ done' = Tail(done)
          BY <2>2, <4>2, ChainTyped DEF CollectLogs
        <5> HIDE DEF D
        <5>2. \A i \in DOMAIN Tail(done) : i + 1 \in DOMAIN done /\ Tail(done)[i] = done[i + 1]
          BY <4>2, <5>1
        <5> QED
          BY <5>1, <5>2
      <4> QED
        BY <4>1, <4>2
    <3>2. results' = results
      BY <2>2 DEF CollectLogs
    <3> QED
      BY <3>1, <3>2 DEF AllResults
  <2>3. CASE UNCHANGED vars
    BY <2>3 DEF vars, AllResults
  <2> QED
    BY <2>1, <2>2, <2>3
<1>3. /\ InOrder(state) => InOrder(state)'
      /\ \A r \in AllResults : ReadsRight(r)'
  BY <1>1, ReadsKept DEF InOrder
<1> QED
  BY <1>1, <1>2, <1>3 DEF ReadsInv, Elements

\* A transaction reads what the transactions before it in the notification have
\* written, in their order, and nothing else: not what failed or was skipped,
\* not what comes after it, not the notification before (execution.rs:107-127,
\* lib.rs:105-120).
THEOREM ReadsCorrect == Spec => []ReadsItsPredecessors
<1>1. Init => ReadsInv
  BY DEF Init, ReadsInv, AllResults, InOrder, Elements
<1>2. TypeInv /\ New => ReadsInv'
  <2> SUFFICES ASSUME TypeInv, New PROVE ReadsInv'
    OBVIOUS
  <2>1. done' = <<>> /\ results' = {} /\ trace' = {} /\ state' = <<>>
    BY DEF New, TypeInv, PhaseInv
  <2> QED
    BY <2>1 DEF ReadsInv, AllResults, InOrder, Elements
<1>3. TypeInv /\ LogsInv /\ ReadsInv /\ [Next]_vars => ReadsInv'
  BY <1>2, SkipReads, HaltReads, ExecuteReads, LaterReads DEF Next
<1>4. ReadsInv => ReadsItsPredecessors
  BY DEF ReadsInv, AllResults, ReadsRight, InOrder, ReadsItsPredecessors
<1> QED
  BY <1>1, <1>3, <1>4, LogsInvariant, PTL DEF Spec
=============================================================================
