--------------------------- MODULE SettlementProofs ---------------------------
(***************************************************************************)
(* The rule engine's settlements, for any four players, hands, facts,      *)
(* command ids and rounds, whatever commands run between a settlement's    *)
(* scoring and its turn, and whatever is lost with a failed write or a     *)
(* restart: one settlement per round and per command id, amounts that the  *)
(* room accepts, and scores that are those of the rule sheet.              *)
(***************************************************************************)
EXTENDS RoomProofs, Settlement

-----------------------------------------------------------------------------
\* More about sums: over a part, of one value, of differences, and of sums.
LEMMA SumTyped ==
  ASSUME NEW S, IsFiniteSet(S), NEW f \in [S -> Int]
  PROVE  Sum(f) \in Int
<1>1. PICK g \in [SUBSET S -> Int] : g = SumsOf(g, f, SUBSET S) /\ Sum(f) = g[S]
  BY SumOf
<1> QED
  BY <1>1

LEMMA PartOf ==
  ASSUME NEW S, NEW f \in [S -> Int], NEW U \in SUBSET S
  PROVE  Restrict(f, U) \in [U -> Int] /\ \A x \in U : Restrict(f, U)[x] = f[x]
BY DEF Restrict

\* The sums over the parts of a map are those of its recursion.
LEMMA SumOfPart ==
  ASSUME NEW S, IsFiniteSet(S), NEW f \in [S -> Int],
         NEW g \in [SUBSET S -> Int], g = SumsOf(g, f, SUBSET S), NEW U \in SUBSET S
  PROVE  Sum(Restrict(f, U)) = g[U]
<1> DEFINE p == Restrict(f, U)
<1>1. IsFiniteSet(U) /\ p \in [U -> Int] /\ \A x \in U : p[x] = f[x]
  BY FS_Subset, PartOf
<1>2. PICK h \in [SUBSET U -> Int] : h = SumsOf(h, p, SUBSET U) /\ Sum(p) = h[U]
  <2> HIDE DEF p
  <2> QED
    BY <1>1, SumOf
<1> DEFINE G == {T \in SUBSET U : h[T] = g[T]}
<1>3. {} \in G
  BY <1>2 DEF SumsOf
<1>4. ASSUME NEW T \in SUBSET U, T # {}, T \ {Picked(T)} \in G PROVE T \in G
  <2>1. Picked(T) \in U /\ T \in SUBSET S
    BY <1>4 DEF Picked
  <2>2. h[T] = p[Picked(T)] + h[T \ {Picked(T)}]
    BY <1>2, <1>4 DEF SumsOf
  <2>3. g[T] = f[Picked(T)] + g[T \ {Picked(T)}]
    BY <1>4, <2>1 DEF SumsOf
  <2> HIDE DEF p
  <2> QED
    BY <1>1, <1>4, <2>1, <2>2, <2>3
<1>5. SUBSET U \subseteq G
  <2> HIDE DEF G
  <2> QED
    BY <1>1, <1>3, <1>4, AllSubsets
<1> QED
  BY <1>2, <1>5

\* A sum begins with the value that is picked.
LEMMA SumBegins ==
  ASSUME NEW S, IsFiniteSet(S), NEW f \in [S -> Int], NEW U \in SUBSET S, U # {}
  PROVE  Sum(Restrict(f, U)) = f[Picked(U)] + Sum(Restrict(f, U \ {Picked(U)}))
<1>1. PICK g \in [SUBSET S -> Int] : g = SumsOf(g, f, SUBSET S) /\ Sum(f) = g[S]
  BY SumOf
<1>2. Picked(U) \in U /\ U \ {Picked(U)} \in SUBSET S
  BY DEF Picked
<1>3. g[U] = f[Picked(U)] + g[U \ {Picked(U)}]
  BY <1>1 DEF SumsOf
<1> QED
  BY <1>1, <1>2, <1>3, SumOfPart

LEMMA SumOfAll ==
  ASSUME NEW S, NEW f \in [S -> Int]
  PROVE  Restrict(f, S) = f
BY DEF Restrict

LEMMA SumOfNone ==
  ASSUME NEW S, NEW f \in [S -> Int]
  PROVE  Sum(Restrict(f, {})) = 0
<1>1. Restrict(f, {}) \in [{} -> Int]
  BY PartOf
<1> QED
  BY <1>1, SumOfZeros, FS_EmptySet

\* A sum with one value in it.
LEMMA SumOfOne ==
  ASSUME NEW S, IsFiniteSet(S), NEW q \in S, NEW f \in [S -> Int],
         \A x \in S \ {q} : f[x] = 0
  PROVE  Sum(f) = f[q]
<1> DEFINE G == {U \in SUBSET S : Sum(Restrict(f, U)) = IF q \in U THEN f[q] ELSE 0}
<1>1. {} \in G
  BY SumOfNone
<1>2. ASSUME NEW U \in SUBSET S, U # {}, U \ {Picked(U)} \in G PROVE U \in G
  <2>1. Sum(Restrict(f, U)) = f[Picked(U)] + Sum(Restrict(f, U \ {Picked(U)}))
    BY <1>2, SumBegins
  <2>2. CASE Picked(U) = q
    <3>1. Sum(Restrict(f, U \ {Picked(U)})) = 0 /\ q \in U
      BY <1>2, <2>2 DEF Picked
    <3> QED
      BY <2>1, <2>2, <3>1
  <2>3. CASE Picked(U) # q
    <3>1. f[Picked(U)] = 0
      BY <1>2, <2>3 DEF Picked
    <3>2. Sum(Restrict(f, U \ {Picked(U)})) = IF q \in U THEN f[q] ELSE 0
      BY <1>2, <2>3
    <3> QED
      BY <2>1, <3>1, <3>2
  <2> QED
    BY <2>2, <2>3
<1>3. SUBSET S \subseteq G
  <2> HIDE DEF G
  <2> QED
    BY <1>1, <1>2, AllSubsets
<1> QED
  BY <1>3, SumOfAll

\* The sum of the differences is the difference of the sums.
LEMMA SumLess ==
  ASSUME NEW S, IsFiniteSet(S), NEW f \in [S -> Int], NEW d \in [S -> Int]
  PROVE  Sum([x \in S |-> f[x] - d[x]]) = Sum(f) - Sum(d)
<1> DEFINE h == [x \in S |-> f[x] - d[x]]
<1>1. h \in [S -> Int] /\ \A x \in S : h[x] = f[x] - d[x]
  OBVIOUS
<1> HIDE DEF h
<1>2. [x \in S |-> h[x] + d[x]] = f
  BY <1>1
<1>3. Sum(f) = Sum(h) + Sum(d)
  BY <1>1, <1>2, SumAdds
<1>4. Sum(f) \in Int /\ Sum(d) \in Int /\ Sum(h) \in Int
  BY <1>1, SumTyped
<1> QED
  BY <1>3, <1>4 DEF h

\* The columns of a table.
Column(F, T, q) == [t \in T |-> F[t][q]]

LEMMA ColumnTyped ==
  ASSUME NEW S, NEW T, NEW F \in [T -> [S -> Int]], NEW q \in S
  PROVE  Column(F, T, q) \in [T -> Int] /\ \A t \in T : Column(F, T, q)[t] = F[t][q]
BY DEF Column

\* A table has one sum, by columns and by rows.
LEMMA SumsSwap ==
  ASSUME NEW S, IsFiniteSet(S), NEW T, IsFiniteSet(T), NEW F \in [T -> [S -> Int]]
  PROVE  Sum([q \in S |-> Sum(Column(F, T, q))]) = Sum([t \in T |-> Sum(F[t])])
<1> DEFINE rows == [t \in T |-> Sum(F[t])]
           Cols(U) == [q \in S |-> Sum(Restrict(Column(F, T, q), U))]
           G == {U \in SUBSET T : Sum(Cols(U)) = Sum(Restrict(rows, U))}
<1>1. rows \in [T -> Int] /\ \A t \in T : rows[t] = Sum(F[t])
  BY SumTyped
<1>2. ASSUME NEW U \in SUBSET T
      PROVE  /\ Cols(U) \in [S -> Int]
             /\ \A q \in S : Cols(U)[q] = Sum(Restrict(Column(F, T, q), U))
  <2>1. IsFiniteSet(U)
    BY FS_Subset
  <2> SUFFICES ASSUME NEW q \in S PROVE Sum(Restrict(Column(F, T, q), U)) \in Int
    OBVIOUS
  <2>2. Restrict(Column(F, T, q), U) \in [U -> Int]
    BY ColumnTyped, PartOf
  <2> QED
    BY <2>1, <2>2, SumTyped
<1>3. {} \in G
  <2>1. \A q \in S : Cols({})[q] = 0
    BY ColumnTyped, SumOfNone
  <2>2. Cols({}) \in [S -> Int]
    BY <1>2
  <2> HIDE DEF Cols, rows
  <2>3. Sum(Cols({})) = 0
    BY <2>1, <2>2, SumOfZeros
  <2>4. Sum(Restrict(rows, {})) = 0
    BY <1>1, SumOfNone
  <2> QED
    BY <2>3, <2>4
<1>4. ASSUME NEW U \in SUBSET T, U # {}, U \ {Picked(U)} \in G PROVE U \in G
  <2> DEFINE t == Picked(U)
             V == U \ {t}
  <2>0. U # {}
    BY <1>4
  <2>1. t \in T /\ V \in SUBSET T
    BY <2>0 DEF Picked
  <2>2. \A q \in S : Cols(U)[q] = F[t][q] + Cols(V)[q]
    <3> SUFFICES ASSUME NEW q \in S
                 PROVE  Sum(Restrict(Column(F, T, q), U))
                          = F[t][q] + Sum(Restrict(Column(F, T, q), V))
      OBVIOUS
    <3> DEFINE c == Column(F, T, q)
    <3>1. c \in [T -> Int]
      BY <2>1, ColumnTyped
    <3>2. c[t] = F[t][q]
      BY <2>1, ColumnTyped
    <3> HIDE DEF c, Cols, rows, G
    <3>3. Sum(Restrict(c, U)) = c[t] + Sum(Restrict(c, V))
      BY <2>0, <3>1, SumBegins
    <3> QED
      BY <3>2, <3>3 DEF c
  <2>3. F[t] \in [S -> Int]
    BY <2>1
  <2>4. Sum(Restrict(rows, U)) = rows[t] + Sum(Restrict(rows, V))
    <3> HIDE DEF rows, Cols, G
    <3> QED
      BY <1>1, <2>0, SumBegins
  <2>5. rows[t] = Sum(F[t])
    BY <2>1
  <2>6. Cols(U) \in [S -> Int] /\ Cols(V) \in [S -> Int]
    BY <1>2, <2>1
  <2>7. Sum(Cols(V)) = Sum(Restrict(rows, V))
    BY <1>4
  <2> HIDE DEF Cols, rows, t, V
  <2>8. Cols(U) = [q \in S |-> F[t][q] + Cols(V)[q]]
    BY <2>2, <2>6
  <2>9. Sum(Cols(U)) = Sum(F[t]) + Sum(Cols(V))
    BY <2>3, <2>6, <2>8, SumAdds
  <2> QED
    BY <2>4, <2>5, <2>7, <2>9
<1>5. SUBSET T \subseteq G
  <2> HIDE DEF G
  <2> QED
    BY <1>3, <1>4, AllSubsets
<1>6. Sum(Cols(T)) = Sum(Restrict(rows, T))
  BY <1>5
<1>7. Cols(T) = [q \in S |-> Sum(Column(F, T, q))]
  <2>1. \A q \in S : Restrict(Column(F, T, q), T) = Column(F, T, q)
    BY ColumnTyped, SumOfAll
  <2> QED
    BY <2>1
<1> QED
  BY <1>1, <1>6, <1>7, SumOfAll

-----------------------------------------------------------------------------
\* What transfers make of the players' scores.

\* Transfers as the scoring makes them: between two players, of something.
Proper(T) ==
  /\ IsFiniteSet(T)
  /\ \A t \in T : /\ t.from \in Players /\ t.to \in Players /\ t.from # t.to
                  /\ t.amount \in Nat \ {0}

\* One player's part in a transfer.
Moved(t, p) == IF t.to = p THEN t.amount ELSE IF t.from = p THEN -t.amount ELSE 0

LEMMA MovedTyped ==
  ASSUME NEW T, Proper(T), NEW t \in T, NEW p
  PROVE  Moved(t, p) \in Int
BY DEF Proper, Moved

LEMMA FourPlayers == IsFiniteSet(Players)
BY SettlementAssumption

\* What one gets the other pays.
LEMMA TransferAdds ==
  ASSUME NEW T, Proper(T), NEW t \in T
  PROVE  Sum([p \in Players |-> Moved(t, p)]) = 0
<1> DEFINE to == [p \in Players |-> IF p = t.to THEN t.amount ELSE 0]
           from == [p \in Players |-> IF p = t.from THEN t.amount ELSE 0]
<1>1. /\ t.from \in Players /\ t.to \in Players /\ t.from # t.to /\ t.amount \in Int
  BY DEF Proper
<1>2. to \in [Players -> Int] /\ from \in [Players -> Int]
  BY <1>1
<1>3. to[t.to] = t.amount /\ \A p \in Players \ {t.to} : to[p] = 0
  BY <1>1
<1>4. from[t.from] = t.amount /\ \A p \in Players \ {t.from} : from[p] = 0
  BY <1>1
<1>5. [p \in Players |-> Moved(t, p)] = [p \in Players |-> to[p] - from[p]]
  BY <1>1 DEF Moved
<1> HIDE DEF to, from
<1>6. Sum(to) = t.amount
  BY <1>1, <1>2, <1>3, FourPlayers, SumOfOne
<1>7. Sum(from) = t.amount
  BY <1>1, <1>2, <1>4, FourPlayers, SumOfOne
<1>8. Sum([p \in Players |-> to[p] - from[p]]) = Sum(to) - Sum(from)
  BY <1>2, FourPlayers, SumLess
<1> QED
  BY <1>1, <1>5, <1>6, <1>7, <1>8

\* The deltas of transfers.
LEMMA DeltasAre ==
  ASSUME NEW T
  PROVE  Deltas(Players, T) = [p \in Players |-> Sum([t \in T |-> Moved(t, p)])]
BY DEF Deltas, Sum, Moved

LEMMA DeltasTyped ==
  ASSUME NEW T, Proper(T)
  PROVE  Deltas(Players, T) \in [Players -> Int]
<1> SUFFICES ASSUME NEW p \in Players PROVE Sum([t \in T |-> Moved(t, p)]) \in Int
  BY DeltasAre
<1>1. [t \in T |-> Moved(t, p)] \in [T -> Int]
  BY MovedTyped
<1>2. IsFiniteSet(T)
  BY DEF Proper
<1> QED
  BY <1>1, <1>2, SumTyped

LEMMA DeltasAddUp ==
  ASSUME NEW T, Proper(T)
  PROVE  Sum(Deltas(Players, T)) = 0
<1> DEFINE F == [t \in T |-> [p \in Players |-> Moved(t, p)]]
           rows == [t \in T |-> Sum(F[t])]
<1>1. F \in [T -> [Players -> Int]]
  BY MovedTyped
<1>2. IsFiniteSet(T)
  BY DEF Proper
<1>3. Deltas(Players, T) = [p \in Players |-> Sum(Column(F, T, p))]
  <2>1. \A p \in Players : Column(F, T, p) = [t \in T |-> Moved(t, p)]
    BY DEF Column
  <2> HIDE DEF F
  <2> QED
    BY <2>1, DeltasAre
<1>4. \A t \in T : rows[t] = 0
  BY TransferAdds
<1>5. Sum(rows) = 0
  <2>1. rows \in [T -> Int]
    <3>1. \A t \in T : rows[t] \in Int
      BY <1>4
    <3> QED
      BY <3>1
  <2> HIDE DEF rows
  <2> QED
    BY <1>2, <1>4, <2>1, SumOfZeros
<1> HIDE DEF F
<1>6. Sum([p \in Players |-> Sum(Column(F, T, p))]) = Sum(rows)
  BY <1>1, <1>2, FourPlayers, SumsSwap
<1> QED
  BY <1>3, <1>5, <1>6

\* Deltas are what is received less what is paid (serverSettlementDeltas).
LEMMA DeltasAreMoves ==
  ASSUME NEW T, Proper(T), NEW p \in Players
  PROVE  /\ Received(T, p) \in Int /\ Paid(T, p) \in Int
         /\ Deltas(Players, T)[p] = Received(T, p) - Paid(T, p)
<1> DEFINE in == [t \in T |-> IF t.to = p THEN t.amount ELSE 0]
           out == [t \in T |-> IF t.from = p THEN t.amount ELSE 0]
<1>1. in \in [T -> Int] /\ out \in [T -> Int] /\ IsFiniteSet(T)
  BY DEF Proper
<1>2. [t \in T |-> Moved(t, p)] = [t \in T |-> in[t] - out[t]]
  BY DEF Proper, Moved
<1>3. Received(T, p) = Sum(in) /\ Paid(T, p) = Sum(out)
  BY DEF Received, Paid
<1> HIDE DEF in, out
<1>4. Sum([t \in T |-> in[t] - out[t]]) = Sum(in) - Sum(out)
  BY <1>1, SumLess
<1>5. Sum(in) \in Int /\ Sum(out) \in Int
  BY <1>1, SumTyped
<1> QED
  BY <1>2, <1>3, <1>4, <1>5, DeltasAre

\* The transfers are what one player owes another.
Pays(T, O) ==
  /\ O \in [Players -> [Players -> Nat]]
  /\ \A t \in T : t = [from |-> t.from, to |-> t.to, amount |-> O[t.from][t.to]]
  /\ \A q, p \in Players : O[q][p] # 0 => \E t \in T : t.from = q /\ t.to = p

\* The transfers from one player to another are one, or none.
LEMMA OneTransfer ==
  ASSUME NEW T, Proper(T), NEW O, Pays(T, O), NEW q \in Players, NEW p \in Players
  PROVE  Sum([t \in T |-> IF t.to = p /\ t.from = q THEN t.amount ELSE 0]) = O[q][p]
<1> DEFINE f == [t \in T |-> IF t.to = p /\ t.from = q THEN t.amount ELSE 0]
<1>1. f \in [T -> Int] /\ IsFiniteSet(T)
  BY DEF Proper
<1>2. \A t \in T : t.to = p /\ t.from = q => t = [from |-> q, to |-> p, amount |-> O[q][p]]
  BY DEF Pays
<1>3. CASE O[q][p] = 0
  <2>1. \A t \in T : f[t] = 0
    BY <1>2, <1>3
  <2> HIDE DEF f
  <2>2. Sum(f) = 0
    BY <1>1, <2>1, SumOfZeros
  <2> QED
    BY <1>3, <2>2 DEF f
<1>4. CASE O[q][p] # 0
  <2>1. PICK t \in T : t.from = q /\ t.to = p
    BY <1>4 DEF Pays
  <2>2. f[t] = O[q][p]
    BY <1>2, <2>1
  <2>3. \A u \in T \ {t} : f[u] = 0
    BY <1>2, <2>1
  <2> HIDE DEF f
  <2>4. Sum(f) = f[t]
    BY <1>1, <2>3, SumOfOne
  <2> QED
    BY <2>2, <2>4 DEF f
<1> QED
  BY <1>3, <1>4

LEMMA ReceivedIsOwed ==
  ASSUME NEW T, Proper(T), NEW O, Pays(T, O), NEW p \in Players
  PROVE  Received(T, p) = Sum([q \in Players |-> O[q][p]])
<1> DEFINE F == [t \in T |-> [q \in Players |->
                   IF t.to = p /\ t.from = q THEN t.amount ELSE 0]]
<1>1. F \in [T -> [Players -> Int]]
  BY DEF Proper
<1>2. IsFiniteSet(T)
  BY DEF Proper
<1>3. ASSUME NEW q \in Players PROVE Sum(Column(F, T, q)) = O[q][p]
  <2>1. Column(F, T, q) = [t \in T |-> IF t.to = p /\ t.from = q THEN t.amount ELSE 0]
    BY DEF Column
  <2> HIDE DEF F
  <2> QED
    BY <2>1, OneTransfer
<1>4. ASSUME NEW t \in T PROVE Sum(F[t]) = IF t.to = p THEN t.amount ELSE 0
  <2>1. F[t] \in [Players -> Int] /\ t.from \in Players
    BY <1>1 DEF Proper
  <2>2. \A q \in Players \ {t.from} : F[t][q] = 0
    OBVIOUS
  <2>3. F[t][t.from] = IF t.to = p THEN t.amount ELSE 0
    BY <2>1
  <2> HIDE DEF F
  <2>4. Sum(F[t]) = F[t][t.from]
    BY <2>1, <2>2, FourPlayers, SumOfOne
  <2> QED
    BY <2>3, <2>4
<1> HIDE DEF F
<1>5. Sum([q \in Players |-> Sum(Column(F, T, q))]) = Sum([t \in T |-> Sum(F[t])])
  BY <1>1, <1>2, FourPlayers, SumsSwap
<1>6. [t \in T |-> Sum(F[t])] = [t \in T |-> IF t.to = p THEN t.amount ELSE 0]
  BY <1>4
<1>7. [q \in Players |-> Sum(Column(F, T, q))] = [q \in Players |-> O[q][p]]
  BY <1>3
<1> QED
  BY <1>5, <1>6, <1>7 DEF Received

LEMMA PaidIsOwed ==
  ASSUME NEW T, Proper(T), NEW O, Pays(T, O), NEW p \in Players
  PROVE  Paid(T, p) = Sum([q \in Players |-> O[p][q]])
<1> DEFINE F == [t \in T |-> [q \in Players |->
                   IF t.to = q /\ t.from = p THEN t.amount ELSE 0]]
<1>1. F \in [T -> [Players -> Int]]
  BY DEF Proper
<1>2. IsFiniteSet(T)
  BY DEF Proper
<1>3. ASSUME NEW q \in Players PROVE Sum(Column(F, T, q)) = O[p][q]
  <2>1. Column(F, T, q) = [t \in T |-> IF t.to = q /\ t.from = p THEN t.amount ELSE 0]
    BY DEF Column
  <2> HIDE DEF F
  <2> QED
    BY <2>1, OneTransfer
<1>4. ASSUME NEW t \in T PROVE Sum(F[t]) = IF t.from = p THEN t.amount ELSE 0
  <2>1. F[t] \in [Players -> Int] /\ t.to \in Players
    BY <1>1 DEF Proper
  <2>2. \A q \in Players \ {t.to} : F[t][q] = 0
    OBVIOUS
  <2>3. F[t][t.to] = IF t.from = p THEN t.amount ELSE 0
    BY <2>1
  <2> HIDE DEF F
  <2>4. Sum(F[t]) = F[t][t.to]
    BY <2>1, <2>2, FourPlayers, SumOfOne
  <2> QED
    BY <2>3, <2>4
<1> HIDE DEF F
<1>5. Sum([q \in Players |-> Sum(Column(F, T, q))]) = Sum([t \in T |-> Sum(F[t])])
  BY <1>1, <1>2, FourPlayers, SumsSwap
<1>6. [t \in T |-> Sum(F[t])] = [t \in T |-> IF t.from = p THEN t.amount ELSE 0]
  BY <1>4
<1>7. [q \in Players |-> Sum(Column(F, T, q))] = [q \in Players |-> O[p][q]]
  BY <1>3
<1> QED
  BY <1>5, <1>6, <1>7 DEF Paid

LEMMA DeltasAreOwed ==
  ASSUME NEW T, Proper(T), NEW O, Pays(T, O), NEW p \in Players
  PROVE  Deltas(Players, T)[p] = Sum([q \in Players |-> O[q][p] - O[p][q]])
<1> DEFINE in == [q \in Players |-> O[q][p]]
           out == [q \in Players |-> O[p][q]]
<1>1. in \in [Players -> Int] /\ out \in [Players -> Int]
  BY DEF Pays
<1>2. Deltas(Players, T)[p] = Sum(in) - Sum(out)
  BY DeltasAreMoves, ReceivedIsOwed, PaidIsOwed
<1>3. [q \in Players |-> O[q][p] - O[p][q]] = [q \in Players |-> in[q] - out[q]]
  OBVIOUS
<1> HIDE DEF in, out
<1>4. Sum([q \in Players |-> in[q] - out[q]]) = Sum(in) - Sum(out)
  BY <1>1, FourPlayers, SumLess
<1> QED
  BY <1>2, <1>3, <1>4

-----------------------------------------------------------------------------
\* What the rule engine scores (scoreSusongRound).

WinOf(fact, w) == CHOOSE win \in fact.wins : win.player = w

\* What a player owes a winner.
Owed(zeng, flowers, fact, q, w) ==
  IF w \in Winners(fact) /\ q \in Payers(fact, w, Players)
  THEN Amount(Config, zeng, fact, w, q,
              WinTier(flowers[w], WinOf(fact, w).special, WinOf(fact, w).gangs))
  ELSE 0

OwedTable(zeng, flowers, fact) ==
  [q \in Players |-> [w \in Players |-> Owed(zeng, flowers, fact, q, w)]]

\* What may be scored: a fact, with the zeng and the flowers of four players.
Readable(zeng, flowers, fact) ==
  /\ fact \in Facts /\ zeng \in [Players -> Nat]
  /\ fact.outcome # "draw" => flowers \in [Players -> FlowerStates]
  /\ Scorable(zeng, flowers, fact)

LEMMA TierTyped ==
  ASSUME NEW f \in FlowerStates, NEW special \in BOOLEAN, NEW gangs \in Nat
  PROVE  TierIndex(WinTier(f, special, gangs)) \in 1..4
<1>1. f.counted \in Nat
  BY DEF FlowerStates
<1>2. WinTier(f, special, gangs) \in {"small", "big", "double_big", "one_bamboo"}
  <2>1. CASE NoFlower(f)
    BY <2>1 DEF WinTier
  <2>2. CASE ~NoFlower(f)
    <3>1. WinTier(f, special, gangs) = ClassifyHu(f.counted, special, gangs)
      BY <2>2 DEF WinTier
    <3>2. ClassifyHu(f.counted, special, gangs) \in {"small", "big", "double_big", "one_bamboo"}
      BY <1>1 DEF ClassifyHu
    <3> QED
      BY <3>1, <3>2
  <2> QED
    BY <2>1, <2>2
<1> QED
  BY <1>2 DEF TierIndex

\* A player who wins has one hand.
LEMMA OneWin ==
  ASSUME NEW zeng, NEW flowers, NEW fact, Readable(zeng, flowers, fact),
         NEW w \in Winners(fact)
  PROVE  /\ WinOf(fact, w) \in fact.wins /\ WinOf(fact, w).player = w
         /\ \A win \in fact.wins : win.player = w => win = WinOf(fact, w)
<1> DEFINE f == [win \in fact.wins |-> win.player]
<1>1. fact.outcome # "draw" /\ IsFiniteSet(fact.wins)
  BY SettlementAssumption DEF Readable, Winners
<1>2. Cardinality(fact.wins) = Cardinality(Winners(fact))
  BY <1>1 DEF Readable, Scorable
<1>3. f \in Surjection(fact.wins, Winners(fact))
  BY DEF Surjection, Winners
<1>4. f \in Injection(fact.wins, Winners(fact))
  <2> HIDE DEF f
  <2> QED
    BY <1>1, <1>2, <1>3, FS_SurjSameCardinalityImpliesInj
<1>5. \A win1, win2 \in fact.wins : win1.player = win2.player => win1 = win2
  BY <1>4 DEF Injection, IsInjective
<1>6. \E win \in fact.wins : win.player = w
  BY DEF Winners
<1> QED
  BY <1>5, <1>6 DEF WinOf

\* Everybody who pays is at the table and did not win what is paid for.
LEMMA PayersAre ==
  ASSUME NEW zeng, NEW flowers, NEW fact, Readable(zeng, flowers, fact),
         NEW w \in Winners(fact)
  PROVE  /\ fact.outcome \in {"self_draw", "discard"}
         /\ w \in Players /\ Payers(fact, w, Players) \subseteq Players \ {w}
<1>1. fact.outcome # "draw" /\ DOMAIN zeng = Players
  BY SettlementAssumption DEF Readable, Winners
<1>2. /\ fact.outcome \in {"self_draw", "discard"}
      /\ Winners(fact) \subseteq Players
      /\ fact.outcome = "discard" => fact.discarder \in Players \ Winners(fact)
  BY <1>1 DEF Readable, Scorable
<1> QED
  BY <1>2 DEF Payers

LEMMA AmountTyped ==
  ASSUME NEW zeng \in [Players -> Nat], NEW fact, NEW w \in Players, NEW q \in Players,
         NEW tier, TierIndex(tier) \in 1..4
  PROVE  Amount(Config, zeng, fact, w, q, tier) \in Nat \ {0}
<1> DEFINE base == Config.tiers[TierIndex(tier)]
           m == IF {w, q} \in fact.sanxi THEN 2 ELSE 1
           a == zeng[w] * Config.zeng
           b == zeng[q] * Config.zeng
<1>1. base \in Nat \ {0}
  BY SettlementAssumption
<1>2. a \in Nat /\ b \in Nat
  BY SettlementAssumption
<1>3. Amount(Config, zeng, fact, w, q, tier) = (base + a + b) * m
  BY DEF Amount
<1>4. m = 1 \/ m = 2
  OBVIOUS
<1> HIDE DEF base, m, a, b
<1> QED
  BY <1>1, <1>2, <1>3, <1>4

LEMMA OwedTyped ==
  ASSUME NEW zeng, NEW flowers, NEW fact, Readable(zeng, flowers, fact),
         NEW w \in Winners(fact), NEW q \in Payers(fact, w, Players)
  PROVE  Owed(zeng, flowers, fact, q, w) \in Nat \ {0}
<1>1. w \in Players /\ q \in Players /\ fact.outcome # "draw"
  BY PayersAre
<1>2. zeng \in [Players -> Nat] /\ flowers[w] \in FlowerStates
  BY <1>1 DEF Readable
<1>3. WinOf(fact, w).special \in BOOLEAN /\ WinOf(fact, w).gangs \in Nat
  <2>1. WinOf(fact, w) \in fact.wins /\ fact \in Facts
    BY OneWin DEF Readable
  <2> QED
    BY <2>1, SettlementAssumption
<1> DEFINE tier == WinTier(flowers[w], WinOf(fact, w).special, WinOf(fact, w).gangs)
<1>4. TierIndex(tier) \in 1..4
  BY <1>2, <1>3, TierTyped
<1>5. Owed(zeng, flowers, fact, q, w) = Amount(Config, zeng, fact, w, q, tier)
  BY DEF Owed
<1> HIDE DEF tier
<1> QED
  BY <1>1, <1>2, <1>4, <1>5, AmountTyped

\* The transfers of a round are one for each payer and winner.
LEMMA TransfersAre ==
  ASSUME NEW zeng, NEW flowers, NEW fact, Readable(zeng, flowers, fact)
  PROVE  \A t : t \in RoundTransfers(Config, zeng, flowers, fact) <=>
           \E w \in Winners(fact) : \E q \in Payers(fact, w, Players) :
             t = [from |-> q, to |-> w, amount |-> Owed(zeng, flowers, fact, q, w)]
<1> DEFINE T == RoundTransfers(Config, zeng, flowers, fact)
           Rec(q, w) == [from |-> q, to |-> w, amount |-> Owed(zeng, flowers, fact, q, w)]
<1>1. DOMAIN zeng = Players
  BY DEF Readable
<1>2. CASE fact.outcome = "draw"
  <2>1. T = {} /\ Winners(fact) = {}
    BY <1>2, SettlementAssumption DEF RoundTransfers, Winners, Readable
  <2> QED
    BY <2>1
<1>3. CASE fact.outcome # "draw"
  <2>1. ASSUME NEW win \in fact.wins
        PROVE  WinTransfers(Config, zeng, flowers, fact, win)
                 = {Rec(q, win.player) : q \in Payers(fact, win.player, Players)}
    <3>1. win.player \in Winners(fact)
      BY DEF Winners
    <3>2. WinOf(fact, win.player) = win
      BY <3>1, OneWin
    <3>3. \A q \in Payers(fact, win.player, Players) :
            Owed(zeng, flowers, fact, q, win.player)
              = Amount(Config, zeng, fact, win.player, q,
                       WinTier(flowers[win.player], win.special, win.gangs))
      BY <3>1, <3>2 DEF Owed
    <3> QED
      BY <1>1, <3>3 DEF WinTransfers
  <2>2. \A t : t \in T <=> \E win \in fact.wins :
                            t \in WinTransfers(Config, zeng, flowers, fact, win)
    BY <1>3 DEF RoundTransfers
  <2>3. \A t : t \in T <=> \E win \in fact.wins :
                            \E q \in Payers(fact, win.player, Players) : t = Rec(q, win.player)
    <3> HIDE DEF T, Rec
    <3> QED
      BY <2>1, <2>2
  <2> HIDE DEF T, Rec
  <2>4. \A w : w \in Winners(fact) <=> \E win \in fact.wins : w = win.player
    BY DEF Winners
  <2>5. \A t : t \in T <=> \E w \in Winners(fact) :
                            \E q \in Payers(fact, w, Players) : t = Rec(q, w)
    BY <2>3, <2>4
  <2> QED
    BY <2>5 DEF T, Rec
<1> QED
  BY <1>2, <1>3

LEMMA RoundIsProper ==
  ASSUME NEW zeng, NEW flowers, NEW fact, Readable(zeng, flowers, fact),
         NEW T, T = RoundTransfers(Config, zeng, flowers, fact)
  PROVE  Proper(T) /\ Pays(T, OwedTable(zeng, flowers, fact))
<1> DEFINE O == OwedTable(zeng, flowers, fact)
           Rec(q, w) == [from |-> q, to |-> w, amount |-> Owed(zeng, flowers, fact, q, w)]
           P == {x \in Players \X Players :
                   x[2] \in Winners(fact) /\ x[1] \in Payers(fact, x[2], Players)}
           f == [x \in P |-> Rec(x[1], x[2])]
<1>1. \A t : t \in T <=> \E w \in Winners(fact) : \E q \in Payers(fact, w, Players) : t = Rec(q, w)
  BY TransfersAre
<1>2. ASSUME NEW w \in Winners(fact), NEW q \in Payers(fact, w, Players)
      PROVE  w \in Players /\ q \in Players /\ q # w /\ <<q, w>> \in P
  BY PayersAre
<1>3. IsFiniteSet(T)
  <2>1. IsFiniteSet(P)
    <3>1. IsFiniteSet(Players \X Players)
      BY FourPlayers, FS_Product
    <3>2. P \in SUBSET (Players \X Players)
      OBVIOUS
    <3> HIDE DEF P
    <3> QED
      BY <3>1, <3>2, FS_Subset
  <2>2. f \in [P -> T]
    <3> SUFFICES ASSUME NEW x \in P PROVE Rec(x[1], x[2]) \in T
      OBVIOUS
    <3> QED
      BY <1>1
  <2>3. \A t \in T : \E x \in P : f[x] = t
    <3> SUFFICES ASSUME NEW t \in T PROVE \E x \in P : f[x] = t
      OBVIOUS
    <3>1. PICK w \in Winners(fact) : \E q \in Payers(fact, w, Players) : t = Rec(q, w)
      BY <1>1
    <3>2. PICK q \in Payers(fact, w, Players) : t = Rec(q, w)
      BY <3>1
    <3>3. <<q, w>> \in P
      BY <1>2
    <3>4. f[<<q, w>>] = t
      BY <3>2, <3>3
    <3> QED
      BY <3>3, <3>4
  <2>4. f \in Surjection(P, T)
    <3> HIDE DEF f, P
    <3> QED
      BY <2>2, <2>3 DEF Surjection
  <2> HIDE DEF f, P
  <2> QED
    BY <2>1, <2>4, FS_Surjection
<1>4. Proper(T)
  <2>1. ASSUME NEW t \in T
        PROVE  /\ t.from \in Players /\ t.to \in Players /\ t.from # t.to
               /\ t.amount \in Nat \ {0}
    <3>1. PICK w \in Winners(fact) : \E q \in Payers(fact, w, Players) : t = Rec(q, w)
      BY <1>1
    <3>2. PICK q \in Payers(fact, w, Players) : t = Rec(q, w)
      BY <3>1
    <3>3. Owed(zeng, flowers, fact, q, w) \in Nat \ {0}
      BY OwedTyped
    <3> QED
      BY <1>2, <3>2, <3>3
  <2> QED
    BY <1>3, <2>1 DEF Proper
<1>5. ASSUME NEW q \in Players, NEW w \in Players PROVE O[q][w] = Owed(zeng, flowers, fact, q, w)
  BY DEF OwedTable
<1>6. Pays(T, O)
  <2>1. O \in [Players -> [Players -> Nat]]
    <3> SUFFICES ASSUME NEW q \in Players, NEW w \in Players
                 PROVE  Owed(zeng, flowers, fact, q, w) \in Nat
      BY DEF OwedTable
    <3>1. CASE w \in Winners(fact) /\ q \in Payers(fact, w, Players)
      BY <3>1, OwedTyped
    <3>2. CASE ~(w \in Winners(fact) /\ q \in Payers(fact, w, Players))
      BY <3>2 DEF Owed
    <3> QED
      BY <3>1, <3>2
  <2>2. ASSUME NEW t \in T
        PROVE  t = [from |-> t.from, to |-> t.to, amount |-> O[t.from][t.to]]
    <3>1. PICK w \in Winners(fact) : \E q \in Payers(fact, w, Players) : t = Rec(q, w)
      BY <1>1
    <3>2. PICK q \in Payers(fact, w, Players) : t = Rec(q, w)
      BY <3>1
    <3>3. O[q][w] = Owed(zeng, flowers, fact, q, w)
      BY <1>2, <1>5
    <3> HIDE DEF O
    <3> QED
      BY <3>2, <3>3
  <2>3. ASSUME NEW q \in Players, NEW w \in Players, O[q][w] # 0
        PROVE  \E t \in T : t.from = q /\ t.to = w
    <3>1. w \in Winners(fact) /\ q \in Payers(fact, w, Players)
      BY <1>5, <2>3 DEF Owed
    <3>2. Rec(q, w) \in T
      BY <1>1, <3>1
    <3> QED
      BY <3>2
  <2> HIDE DEF O
  <2> QED
    BY <2>1, <2>2, <2>3 DEF Pays
<1> QED
  BY <1>4, <1>6

-----------------------------------------------------------------------------
\* The rule sheet says the same.

LEMMA TierIsRuled ==
  ASSUME NEW f \in FlowerStates, NEW win, win.special \in BOOLEAN, win.gangs \in Nat
  PROVE  RuledTier(f, win) = TierIndex(WinTier(f, win.special, win.gangs))
<1>1. f.counted \in Nat
  BY DEF FlowerStates
<1>2. CASE f.status = "piao" \/ f.counted = 0 \/ win.special \/ win.gangs > 1
  <2>1. RuledTier(f, win) = 4
    BY <1>2 DEF RuledTier
  <2>2. WinTier(f, win.special, win.gangs) = "one_bamboo"
    <3>1. CASE NoFlower(f)
      BY <3>1 DEF WinTier
    <3>2. CASE ~NoFlower(f)
      <4>1. win.gangs >= 2 \/ win.special
        BY <1>2, <3>2 DEF NoFlower
      <4>2. ClassifyHu(f.counted, win.special, win.gangs) = "one_bamboo"
        BY <4>1 DEF ClassifyHu
      <4> QED
        BY <3>2, <4>2 DEF WinTier
    <3> QED
      BY <3>1, <3>2
  <2> QED
    BY <2>1, <2>2 DEF TierIndex
<1>3. CASE ~(f.status = "piao" \/ f.counted = 0 \/ win.special \/ win.gangs > 1)
  <2>1. WinTier(f, win.special, win.gangs) = ClassifyHu(f.counted, win.special, win.gangs)
    BY <1>3 DEF WinTier, NoFlower
  <2>2. CASE win.gangs = 1
    <3> DEFINE Tier == CHOOSE tier \in 2..4 :
                         f.counted \in <<{}, 1..3, 4..5, Nat \ 0..5>>[tier]
    <3>1. RuledTier(f, win) = Tier
      BY <1>3, <2>2 DEF RuledTier
    <3>2. CASE f.counted \in 1..3
      <4>1. Tier = 2
        BY <3>2
      <4>2. ClassifyHu(f.counted, win.special, win.gangs) = "big"
        BY <1>3, <2>2, <3>2 DEF ClassifyHu
      <4> QED
        BY <2>1, <3>1, <4>1, <4>2 DEF TierIndex
    <3>3. CASE f.counted \in 4..5
      <4>1. Tier = 3
        BY <3>3
      <4>2. ClassifyHu(f.counted, win.special, win.gangs) = "double_big"
        BY <1>3, <2>2, <3>3 DEF ClassifyHu
      <4> QED
        BY <2>1, <3>1, <4>1, <4>2 DEF TierIndex
    <3>4. CASE f.counted >= 6
      <4>1. Tier = 4
        BY <1>1, <3>4
      <4>2. ClassifyHu(f.counted, win.special, win.gangs) = "one_bamboo"
        BY <1>1, <1>3, <2>2, <3>4 DEF ClassifyHu
      <4> QED
        BY <2>1, <3>1, <4>1, <4>2 DEF TierIndex
    <3> QED
      BY <1>1, <1>3, <3>2, <3>3, <3>4
  <2>3. CASE win.gangs = 0
    <3> DEFINE Tier == CHOOSE tier \in 1..3 :
                         f.counted \in <<1..4, 5..9, Nat \ 0..9>>[tier]
    <3>1. RuledTier(f, win) = Tier
      BY <1>3, <2>3 DEF RuledTier
    <3>2. CASE f.counted \in 1..4
      <4>1. Tier = 1
        BY <3>2
      <4>2. ClassifyHu(f.counted, win.special, win.gangs) = "small"
        BY <1>3, <2>3, <3>2 DEF ClassifyHu
      <4> QED
        BY <2>1, <3>1, <4>1, <4>2 DEF TierIndex
    <3>3. CASE f.counted \in 5..9
      <4>1. Tier = 2
        BY <3>3
      <4>2. ClassifyHu(f.counted, win.special, win.gangs) = "big"
        BY <1>3, <2>3, <3>3 DEF ClassifyHu
      <4> QED
        BY <2>1, <3>1, <4>1, <4>2 DEF TierIndex
    <3>4. CASE f.counted >= 10
      <4>1. Tier = 3
        BY <1>1, <3>4
      <4>2. ClassifyHu(f.counted, win.special, win.gangs) = "double_big"
        BY <1>1, <1>3, <2>3, <3>4 DEF ClassifyHu
      <4> QED
        BY <2>1, <3>1, <4>1, <4>2 DEF TierIndex
    <3> QED
      BY <1>1, <1>3, <3>2, <3>3, <3>4
  <2> QED
    BY <1>3, <2>2, <2>3
<1> QED
  BY <1>2, <1>3

LEMMA OwedIsRuled ==
  ASSUME NEW fact, Readable(room.zeng, room.flowers, fact),
         NEW q \in Players, NEW w \in Players
  PROVE  Owed(room.zeng, room.flowers, fact, q, w) = Owes(q, w, fact)
<1>1. CASE w \notin Winners(fact)
  BY <1>1 DEF Owed, Owes
<1>2. CASE w \in Winners(fact)
  <2>1. /\ fact.outcome \in {"self_draw", "discard"}
        /\ Payers(fact, w, Players) \subseteq Players \ {w}
    BY <1>2, PayersAre
  <2>2. CASE q \notin Payers(fact, w, Players)
    <3>1. q = w \/ (fact.outcome = "discard" /\ q # fact.discarder)
      BY <2>1, <2>2 DEF Payers
    <3> QED
      BY <2>2, <3>1 DEF Owed, Owes
  <2>3. CASE q \in Payers(fact, w, Players)
    <3> DEFINE win == WinOf(fact, w)
               f == room.flowers[w]
               base == Config.tiers[RuledTier(f, win)]
               both == {q, w} \in fact.sanxi
    <3>1. q # w /\ ~(fact.outcome = "discard" /\ q # fact.discarder)
      BY <2>1, <2>3 DEF Payers
    <3>2. RuledTier(f, win) = TierIndex(WinTier(f, win.special, win.gangs))
      <4>1. win \in fact.wins /\ fact \in Facts
        BY <1>2, OneWin DEF Readable
      <4>2. win.special \in BOOLEAN /\ win.gangs \in Nat
        BY <4>1, SettlementAssumption
      <4>3. f \in FlowerStates
        BY <2>1 DEF Readable
      <4> HIDE DEF win, f
      <4> QED
        BY <4>2, <4>3, TierIsRuled
    <3>3. base \in Nat
      <4>1. TierIndex(WinTier(f, win.special, win.gangs)) \in 1..4
        <5>1. win \in fact.wins /\ fact \in Facts
          BY <1>2, OneWin DEF Readable
        <5>2. win.special \in BOOLEAN /\ win.gangs \in Nat
          BY <5>1, SettlementAssumption
        <5>3. f \in FlowerStates
          BY <2>1 DEF Readable
        <5> HIDE DEF win, f
        <5> QED
          BY <5>2, <5>3, TierTyped
      <4> HIDE DEF win, f
      <4> QED
        BY <3>2, <4>1, SettlementAssumption
    <3>4. {w, q} = {q, w}
      OBVIOUS
    <3>5. Owed(room.zeng, room.flowers, fact, q, w)
            = (base + room.zeng[w] * Config.zeng + room.zeng[q] * Config.zeng)
                * (IF both THEN 2 ELSE 1)
      BY <1>2, <2>3, <3>2, <3>4 DEF Owed, Amount
    <3>6. Owes(q, w, fact)
            = IF both THEN 2 * (base + (room.zeng[w] + room.zeng[q]) * Config.zeng)
              ELSE base + (room.zeng[w] + room.zeng[q]) * Config.zeng
      BY <1>2, <3>1 DEF Owes, WinOf
    <3>7. room.zeng[w] \in Nat /\ room.zeng[q] \in Nat /\ Config.zeng \in Nat
      BY SettlementAssumption DEF Readable
    <3> HIDE DEF base, both
    <3> QED
      BY <3>3, <3>5, <3>6, <3>7
  <2> QED
    BY <2>2, <2>3
<1> QED
  BY <1>1, <1>2

\* Deltas of the room as it is are those of the rule sheet.
LEMMA DeltasAreRuled ==
  ASSUME NEW fact, Readable(room.zeng, room.flowers, fact), NEW p \in Players
  PROVE  Deltas(Players, RoundTransfers(Config, room.zeng, room.flowers, fact))[p]
           = Sum([q \in Players |-> Owes(q, p, fact) - Owes(p, q, fact)])
<1> DEFINE T == RoundTransfers(Config, room.zeng, room.flowers, fact)
           O == OwedTable(room.zeng, room.flowers, fact)
<1>1. Proper(T) /\ Pays(T, O)
  BY RoundIsProper
<1>2. \A q \in Players : O[q][p] = Owes(q, p, fact) /\ O[p][q] = Owes(p, q, fact)
  BY OwedIsRuled DEF OwedTable
<1> HIDE DEF T, O
<1>3. Deltas(Players, T)[p] = Sum([q \in Players |-> O[q][p] - O[p][q]])
  BY <1>1, DeltasAreOwed
<1>4. [q \in Players |-> O[q][p] - O[p][q]]
        = [q \in Players |-> Owes(q, p, fact) - Owes(p, q, fact)]
  BY <1>2
<1> QED
  BY <1>3, <1>4 DEF T

LEMMA WinIsRuled ==
  ASSUME NEW fact, Readable(room.zeng, room.flowers, fact), NEW w \in Winners(fact)
  PROVE  RuledWin(w, fact)
<1> DEFINE f == room.flowers[w]
<1>1. fact.outcome \in {"self_draw", "discard"} /\ w \in Players
  BY PayersAre
<1>2. f \in FlowerStates
  BY <1>1 DEF Readable
<1>3. MayWin(f, fact.outcome)
  BY <1>1 DEF Readable, Scorable
<1> HIDE DEF f
<1>4. f.discards \in Nat /\ f.replacements \in Nat /\ f.counted \in Nat
  BY <1>2 DEF FlowerStates
<1>5. /\ f.status # "awaiting_piao_choice" /\ f.discards = 0 /\ f.replacements = 0
      /\ fact.outcome = "discard" => f.status # "piao" /\ f.counted > 0
  BY <1>3, <1>4 DEF MayWin, Unresolved, NoFlower
<1> QED
  BY <1>5 DEF RuledWin, f

-----------------------------------------------------------------------------
\* The invariant.

RoomParts == {"status", "owner", "seatOf", "ready", "scores", "zeng", "turn", "round",
              "phase", "flowers", "deadline"}

\* A room of four that is past the start of its first round.
FourAtTable(r) ==
  /\ DOMAIN r = RoomParts
  /\ Seated(r) = Players /\ r.round \in Nat
  /\ r.scores \in [Players -> Int] /\ r.zeng \in [Players -> Nat]
  /\ r.flowers = Empty \/ r.flowers \in [Players -> FlowerStates]

\* A round that is not over.
Live == {"dealing", "playing"}

\* A round that is over stays over, until there is a next one.
Advanced(r, s) ==
  r.round <= s.round /\ (r.round = s.round /\ s.status \in Live => r.status \in Live)

\* The rooms in memory and in the store.
RoomsOK ==
  /\ FourAtTable(room) /\ FourAtTable(durable.room) /\ version \in Nat
  /\ Advanced(durable.room, room)
  /\ running \in {"nothing", "command", "settlement"}
  /\ running = "nothing" => room = durable.room
  /\ running = "settlement" => durable.room.status = "playing" /\ room.status = "settling"
  /\ running = "settlement" => waiting # {} /\ First.id \notin done

\* A settlement was scored from this room.
ScoredFrom(s, r) ==
  Readable(r.zeng, r.flowers, s.fact)
    /\ s.transfers = RoundTransfers(Config, r.zeng, r.flowers, s.fact)

\* A settlement in the queue, whatever has become of the room it was scored from.
SentOK(s) ==
  /\ s = [number |-> s.number, id |-> s.id, fact |-> s.fact, expected |-> s.expected,
          transfers |-> s.transfers, deltas |-> s.deltas, basis |-> s.basis]
  /\ s.number \in Nat /\ s.number < scored
  /\ s.expected \in Nat \cup {NoVersion}
  /\ s.basis \in {"durable", "pending", "lost"}
  /\ Proper(s.transfers) /\ s.deltas = Deltas(Players, s.transfers)

\* With the version of the durable room it was scored from that room, and with the
\* next one from the room that is being written.
BasisOK(s) ==
  /\ s.basis = "durable" /\ s.expected # NoVersion =>
       /\ s.expected <= version
       /\ s.expected = version => ScoredFrom(s, durable.room)
  /\ s.basis = "pending" =>
       /\ running # "nothing"
       /\ s.expected # NoVersion =>
            /\ s.expected <= version + 1
            /\ s.expected = version + 1 => ScoredFrom(s, room)

WaitingOK ==
  /\ scored \in Nat
  /\ \A s \in waiting : SentOK(s) /\ BasisOK(s)
  /\ \A s, t \in waiting : s.number = t.number => s = t

\* What was settled has a result, and its round is over.
AppliedOK ==
  /\ \A a \in applied :
       /\ a.id \in done /\ a.round \in Nat /\ a.round <= durable.room.round
       /\ a.round = durable.room.round => durable.room.status \notin Live
  /\ SettledOnce

SettleInv == RoomsOK /\ WaitingOK /\ AppliedOK

LEMMA SeatsExist == Injection(Players, Seats) # {}
<1>1. IsFiniteSet(Seats) /\ Cardinality(Seats) = 4
  <2>1. Seats = 0..3
    BY SettlementAssumption DEF Seats
  <2>2. 0 \in Int /\ 3 \in Int
    OBVIOUS
  <2>3. IsFiniteSet(0..3) /\ Cardinality(0..3) = IF 0 > 3 THEN 0 ELSE 3 - 0 + 1
    BY <2>2, FS_Interval, Zenon
  <2> QED
    BY <2>1, <2>3
<1>2. ExistsBijection(Players, Seats)
  BY <1>1, SettlementAssumption, FS_SameCardinalityBij
<1> QED
  BY <1>2 DEF ExistsBijection, Bijection

LEMMA HandTyped ==
  /\ Dealt("optional", 1, "none") \in FlowerStates
  /\ \A hand \in [Busy -> Hands] : \A p \in Busy : hand[p] \in FlowerStates
<1>1. Dealt("optional", 1, "none") \in FlowerStates
  BY DEF Dealt, CreateFlowerState, FlowerStates, PiaoModes, FlowerStatus
<1> QED
  BY <1>1, SettlementAssumption

LEMMA InitSettleInv == SettlementInit => SettleInv
<1> SUFFICES ASSUME SettlementInit PROVE SettleInv
  OBVIOUS
<1> DEFINE seat == CHOOSE f \in Injection(Players, Seats) : TRUE
           first == CHOOSE p \in Players : seat[p] = 0
           Flower(hand) == [p \in Players |->
                              IF p \in Busy THEN hand[p] ELSE Dealt("optional", 1, "none")]
<1>1. seat \in [Players -> Seats]
  <2>1. seat \in Injection(Players, Seats)
    BY SeatsExist
  <2> HIDE DEF seat
  <2> QED
    BY <2>1 DEF Injection
<1>2. PICK hand \in [Busy -> Hands] :
        room = [NewRoom EXCEPT
            !.status = "playing", !.phase = "playing", !.round = 1, !.seatOf = seat,
            !.ready = Players, !.owner = first, !.turn = first, !.deadline = DeadlineEnabled,
            !.scores = [p \in Players |-> 0], !.zeng = [p \in Players |-> 0],
            !.flowers = Flower(hand)]
  BY Zenon DEF SettlementInit
<1>3. Flower(hand) \in [Players -> FlowerStates]
  BY HandTyped
<1> HIDE DEF seat, first, Flower
<1>4. FourAtTable(room)
  <2> DEFINE flowers == Flower(hand)
             zeros == [p \in Players |-> 0]
  <2>1. zeros \in [Players -> Int] /\ zeros \in [Players -> Nat]
    OBVIOUS
  <2>2. room = [status |-> "playing", owner |-> first, seatOf |-> seat, ready |-> Players,
                scores |-> zeros, zeng |-> zeros, turn |-> first, round |-> 1,
                phase |-> "playing", flowers |-> flowers, deadline |-> DeadlineEnabled]
    <3> HIDE DEF zeros, flowers
    <3> QED
      BY <1>2 DEF NewRoom, zeros, flowers
  <2>3. flowers \in [Players -> FlowerStates]
    BY <1>3
  <2> HIDE DEF zeros, flowers
  <2>4. DOMAIN room = RoomParts
    BY <2>2 DEF RoomParts
  <2> QED
    BY <1>1, <2>1, <2>2, <2>3, <2>4 DEF FourAtTable, Seated
<1>5. durable.room = room /\ version = 0 /\ running = "nothing"
      /\ waiting = {} /\ applied = {} /\ scored = 0
  BY DEF SettlementInit, Memory
<1>6. room.round \in Nat
  BY <1>4 DEF FourAtTable
<1> QED
  BY <1>4, <1>5, <1>6
     DEF SettleInv, RoomsOK, Advanced, WaitingOK, AppliedOK, SettledOnce

-----------------------------------------------------------------------------
\* The first of the queue.
LEMMA LeastNumber ==
  ASSUME NEW N, N \subseteq Nat, N # {}
  PROVE  \E m \in N : \A k \in N : m <= k
<1> DEFINE Less == OpToRel(<, Nat)
<1>1. \A k, m \in Nat : k < m => <<k, m>> \in Less
  BY DEF OpToRel
<1>2. IsWellFoundedOn(Less, Nat)
  BY NatLessThanWellFounded
<1> HIDE DEF Less
<1>3. PICK m \in N : \A k \in N : <<k, m>> \notin Less
  BY <1>2, WFMin
<1>4. \A k \in N : ~ k < m
  BY <1>1, <1>3
<1>5. \A k, n \in Nat : ~ k < n => n <= k
  OBVIOUS
<1> QED
  BY <1>3, <1>4, <1>5

LEMMA FirstIs ==
  ASSUME WaitingOK, waiting # {}
  PROVE  First \in waiting /\ \A t \in waiting : First.number <= t.number
<1> DEFINE N == {s.number : s \in waiting}
<1>1. N \subseteq Nat /\ N # {}
  BY DEF WaitingOK, SentOK
<1>2. \E m \in N : \A k \in N : m <= k
  <2> HIDE DEF N
  <2> QED
    BY <1>1, LeastNumber
<1>3. \E s \in waiting : \A t \in waiting : s.number <= t.number
  BY <1>2
<1> QED
  BY <1>3 DEF First

\* The settlements in the queue all come before one that is sent now.
LEMMA FirstStays ==
  ASSUME WaitingOK, waiting # {}, NEW s, s.number = scored, waiting' = waiting \cup {s}
  PROVE  First' = First
<1>1. First \in waiting /\ \A t \in waiting : First.number <= t.number
  BY FirstIs
<1>2. scored \in Nat /\ \A t \in waiting : t.number \in Nat /\ t.number < scored
  BY DEF WaitingOK, SentOK
<1>3. \A t \in waiting' : First.number <= t.number
  BY <1>1, <1>2
<1>4. First' \in waiting' /\ \A t \in waiting' : First'.number <= t.number
  <2>1. \E u \in waiting' : \A t \in waiting' : u.number <= t.number
    BY <1>1, <1>3
  <2> QED
    BY <2>1 DEF First
<1>5. First' \in waiting /\ First'.number = First.number
  <2>1. First'.number <= First.number /\ First.number <= First'.number
    BY <1>1, <1>3, <1>4
  <2>2. First' # s
    BY <1>1, <1>2, <2>1
  <2> QED
    BY <1>1, <1>2, <1>4, <2>1, <2>2
<1> QED
  BY <1>1, <1>5 DEF WaitingOK

-----------------------------------------------------------------------------
\* What a command makes of the room.
LEMMA RoomFields ==
  ASSUME FourAtTable(room)
  PROVE  /\ DOMAIN room.zeng = Players /\ DOMAIN room.seatOf = Players
         /\ DOMAIN room.flowers \in {{}, Players}
         /\ \A p \in DOMAIN room.flowers : p \in Players /\ room.flowers[p] \in FlowerStates
BY DEF FourAtTable, Seated, Empty

\* One player's flowers change.
LEMMA FlowersChanged ==
  ASSUME FourAtTable(room), NEW p \in DOMAIN room.flowers, NEW f \in FlowerStates,
         room' = [room EXCEPT !.flowers = [room.flowers EXCEPT ![p] = f]]
  PROVE  FourAtTable(room') /\ Advanced(room, room')
<1> DEFINE flowers == [room.flowers EXCEPT ![p] = f]
<1>1. room.flowers \in [Players -> FlowerStates]
  BY DEF FourAtTable, Empty
<1>2. flowers \in [Players -> FlowerStates]
  BY <1>1
<1> HIDE DEF flowers
<1>3. room' = [room EXCEPT !.flowers = flowers]
  BY DEF flowers
<1>4. room'.round = room.round /\ room'.status = room.status /\ room.round \in Nat
  BY <1>3 DEF FourAtTable, RoomParts
<1>5. FourAtTable(room')
  BY <1>2, <1>3 DEF FourAtTable, RoomParts, Seated
<1> QED
  BY <1>4, <1>5 DEF Advanced

LEMMA DrawTyped ==
  ASSUME NEW f \in FlowerStates PROVE RecordDraw(f, 1) \in FlowerStates
<1>1. f.drawn + 1 \in Nat /\ f.discards + 1 \in Nat /\ f.counted + 1 \in Nat
      /\ f.replacements + 1 \in Nat
  BY DEF FlowerStates
<1> DEFINE drawn == f.drawn + 1
           discards == f.discards + 1
           counted == f.counted + 1
           replacements == f.replacements + 1
<1>2. RecordDraw(f, 1)
        = IF f.status = "piao"
          THEN [f EXCEPT !.drawn = drawn, !.discards = discards]
          ELSE [f EXCEPT !.drawn = drawn, !.counted = counted, !.replacements = replacements]
  BY DEF RecordDraw
<1> HIDE DEF drawn, discards, counted, replacements
<1> QED
  BY <1>1, <1>2 DEF FlowerStates, drawn, discards, counted, replacements

LEMMA ExecutedRoom ==
  ASSUME FourAtTable(room), Execute
  PROVE  FourAtTable(room') /\ Advanced(room, room')
<1>1. room.round \in Nat
  BY DEF FourAtTable
<1>2. ASSUME NEW p \in Busy, IncreaseZeng(p) PROVE FourAtTable(room') /\ Advanced(room, room')
  <2> DEFINE zeng == [room.zeng EXCEPT ![p] = @ + 1]
  <2>1. zeng \in [Players -> Nat]
    <3>1. p \in Players /\ room.zeng \in [Players -> Nat]
      BY SettlementAssumption DEF FourAtTable
    <3>2. room.zeng[p] \in Nat
      BY <3>1
    <3>3. room.zeng[p] + 1 \in Nat
      BY <3>2
    <3> QED
      BY <3>1, <3>3
  <2>2. room' = [room EXCEPT !.zeng = zeng]
    BY <1>2 DEF IncreaseZeng, Append
  <2> HIDE DEF zeng
  <2> QED
    BY <1>1, <2>1, <2>2 DEF FourAtTable, RoomParts, Seated, Advanced
<1>3. ASSUME NEW p \in Busy, RecordFlowerDraw(p, 1)
      PROVE  FourAtTable(room') /\ Advanced(room, room')
  <2> DEFINE f == RecordDraw(room.flowers[p], 1)
  <2>1. p \in DOMAIN room.flowers
    BY <1>3 DEF RecordFlowerDraw
  <2>2. room.flowers[p] \in FlowerStates
    BY <2>1, RoomFields
  <2>3. f \in FlowerStates
    BY <2>2, DrawTyped
  <2>4. room' = [room EXCEPT !.flowers = [room.flowers EXCEPT ![p] = f]]
    BY <1>3 DEF RecordFlowerDraw, Append
  <2> HIDE DEF f
  <2> QED
    BY <2>1, <2>3, <2>4, FlowersChanged
<1>4. ASSUME NEW p \in Busy, NEW action \in {"discard", "replace"}, ResolveFlower(p, action)
      PROVE  FourAtTable(room') /\ Advanced(room, room')
  <2> DEFINE f == Resolve(room.flowers[p], action)
  <2>1. p \in DOMAIN room.flowers /\ CanResolve(room.flowers[p], action)
    BY <1>4 DEF ResolveFlower
  <2>2. room.flowers[p] \in FlowerStates
    BY <2>1, RoomFields
  <2>3. f \in FlowerStates
    BY <2>1, <2>2 DEF Resolve, CanResolve, FlowerStates
  <2>4. room' = [room EXCEPT !.flowers = [room.flowers EXCEPT ![p] = f]]
    BY <1>4 DEF ResolveFlower, Append
  <2> HIDE DEF f
  <2> QED
    BY <2>1, <2>3, <2>4, FlowersChanged
<1>5. ASSUME SettleRound(room.owner) PROVE FourAtTable(room') /\ Advanced(room, room')
  <2>1. room' = [room EXCEPT !.status = "settling", !.phase = "settling",
                             !.scores = room.scores, !.deadline = FALSE]
    BY <1>5 DEF SettleRound, Settle, Append
  <2> QED
    BY <1>1, <2>1 DEF FourAtTable, RoomParts, Seated, Advanced, Live
<1>6. ASSUME Cancel(room.owner) PROVE FourAtTable(room') /\ Advanced(room, room')
  <2>1. room' = [room EXCEPT !.status = "cancelled", !.deadline = FALSE]
    BY <1>6 DEF Cancel, Append
  <2> QED
    BY <1>1, <2>1 DEF FourAtTable, RoomParts, Seated, Advanced, Live
<1>7. ASSUME NextRound(System, TRUE) PROVE FourAtTable(room') /\ Advanced(room, room')
  <2>1. CASE room' = Finished(room)
    BY <1>1, <2>1 DEF Finished, FourAtTable, RoomParts, Seated, Advanced, Live
  <2>2. CASE room' = DealtNext
    BY <1>1, <2>2 DEF DealtNext, FourAtTable, RoomParts, Seated, Advanced, Live
  <2> QED
    BY <1>7, <2>1, <2>2 DEF NextRound, Append
<1>8. ASSUME BeginPlaying(System) PROVE FourAtTable(room') /\ Advanced(room, room')
  <2>1. room' = [room EXCEPT !.status = "playing", !.phase = "playing",
                             !.turn = FirstTurn(room), !.deadline = DeadlineEnabled]
        /\ room.status = "dealing"
    BY <1>8 DEF BeginPlaying, Append
  <2> QED
    BY <1>1, <2>1 DEF FourAtTable, RoomParts, Seated, Advanced, Live
<1> QED
  BY <1>2, <1>3, <1>4, <1>5, <1>6, <1>7, <1>8 DEF Execute

\* What a settlement makes of the room.
LEMMA SettledRoom ==
  ASSUME FourAtTable(room), NEW deltas \in [Players -> Int], NEW transfers,
         SettleScores(System, deltas, transfers)
  PROVE  /\ FourAtTable(room') /\ Advanced(room, room')
         /\ room.status = "playing" /\ room'.status = "settling"
         /\ \A p \in Players : room'.scores[p] = room.scores[p] + deltas[p]
<1> DEFINE scores == [p \in Players |-> room.scores[p] + deltas[p]]
<1>1. scores \in [Players -> Int]
  BY DEF FourAtTable
<1>2. room' = [room EXCEPT !.status = "settling", !.phase = "settling",
                           !.scores = scores, !.deadline = FALSE]
      /\ room.status = "playing"
  BY DEF SettleScores, Settle, Append, FourAtTable
<1>3. \A p \in Players : scores[p] = room.scores[p] + deltas[p]
  OBVIOUS
<1> HIDE DEF scores
<1>4. room.round \in Nat
  BY DEF FourAtTable
<1> QED
  BY <1>1, <1>2, <1>3, <1>4 DEF FourAtTable, RoomParts, Seated, Advanced, Live

-----------------------------------------------------------------------------
\* Every action keeps the invariant.

\* What is said of a settlement in the queue depends on nothing else.
LEMMA StaysSent ==
  ASSUME NEW s, SentOK(s), scored \in Nat, scored' \in Nat, scored <= scored'
  PROVE  SentOK(s)'
BY DEF SentOK

LEMMA SettleSusongRoundKeeps ==
  ASSUME SettleInv, NEW id \in Ids, NEW fact \in Facts, NEW expected,
         expected \in {NoVersion, version} \/ (running # "nothing" /\ expected = version + 1),
         SettleSusongRound(id, fact, expected)
  PROVE  SettleInv'
<1>1. PICK transfers : transfers = RoundTransfers(Config, room.zeng, room.flowers, fact)
  OBVIOUS
<1>2. PICK basis : basis = IF running = "nothing" THEN "durable" ELSE "pending"
  OBVIOUS
<1>3. PICK deltas : deltas = Deltas(Players, transfers)
  OBVIOUS
<1>4. PICK s : s = [number |-> scored, id |-> id, fact |-> fact, expected |-> expected,
                    transfers |-> transfers, deltas |-> deltas, basis |-> basis]
  OBVIOUS
<1>5. /\ waiting' = waiting \cup {s} /\ scored' = scored + 1
      /\ room' = room /\ running' = running /\ durable' = durable /\ version' = version
      /\ done' = done /\ applied' = applied
  BY <1>1, <1>2, <1>3, <1>4 DEF SettleSusongRound, vars
<1>6. WaitingOK /\ RoomsOK /\ AppliedOK
  BY DEF SettleInv
<1>7. scored \in Nat /\ version \in Nat
  BY <1>6 DEF WaitingOK, RoomsOK
<1>8. Readable(room.zeng, room.flowers, fact)
  <2>1. Scorable(room.zeng, room.flowers, fact)
        /\ (fact.outcome # "draw" => room.flowers # Empty)
    BY DEF SettleSusongRound
  <2>2. /\ room.zeng \in [Players -> Nat]
        /\ room.flowers = Empty \/ room.flowers \in [Players -> FlowerStates]
    BY <1>6 DEF RoomsOK, FourAtTable
  <2> QED
    BY <2>1, <2>2 DEF Readable
<1>9. Proper(transfers)
  BY <1>1, <1>8, RoundIsProper
<1>10. /\ s.number = scored /\ s.fact = fact /\ s.expected = expected /\ s.basis = basis
       /\ s.transfers = transfers /\ s.deltas = deltas
  BY <1>4
<1>11. ScoredFrom(s, room)
  BY <1>1, <1>8, <1>10 DEF ScoredFrom
<1>12. RoomsOK'
  <2>1. running = "settlement" => waiting' # {} /\ First' = First /\ First \notin {s}
    <3> SUFFICES ASSUME running = "settlement"
                 PROVE  waiting' # {} /\ First' = First /\ First \notin {s}
      OBVIOUS
    <3>1. waiting # {}
      BY <1>6 DEF RoomsOK
    <3>2. First' = First
      BY <1>5, <1>6, <1>10, <3>1, FirstStays
    <3>3. First \in waiting
      BY <1>6, <3>1, FirstIs
    <3>4. First.number < scored
      BY <1>6, <3>3 DEF WaitingOK, SentOK
    <3>5. First # s
      BY <1>7, <1>10, <3>4
    <3> QED
      BY <1>5, <3>1, <3>2, <3>5
  <2>2. running = "settlement" => waiting' # {} /\ First'.id \notin done'
    BY <1>5, <1>6, <2>1 DEF RoomsOK
  <2>3. FourAtTable(room)' /\ FourAtTable(durable.room)'
    BY <1>5, <1>6 DEF RoomsOK, FourAtTable
  <2>4. Advanced(durable.room, room)'
    BY <1>5, <1>6 DEF RoomsOK, Advanced
  <2> QED
    BY <1>5, <1>6, <2>2, <2>3, <2>4 DEF RoomsOK
<1>13. SentOK(s)'
  <2>1. expected \in Nat \cup {NoVersion}
    BY <1>7
  <2>2. s = [number |-> s.number, id |-> s.id, fact |-> s.fact, expected |-> s.expected,
             transfers |-> s.transfers, deltas |-> s.deltas, basis |-> s.basis]
    BY <1>4
  <2>3. s.number \in Nat /\ s.number < scored' /\ s.basis \in {"durable", "pending", "lost"}
    BY <1>2, <1>5, <1>7, <1>10
  <2> QED
    BY <1>3, <1>9, <1>10, <2>1, <2>2, <2>3 DEF SentOK
<1>14. BasisOK(s)'
  <2>1. CASE running = "nothing"
    <3>1. s.basis = "durable" /\ s.expected \in {NoVersion, version}
      BY <1>2, <1>10, <2>1
    <3>2. durable.room = room
      BY <1>6, <2>1 DEF RoomsOK
    <3>3. ScoredFrom(s, durable'.room)
      BY <1>5, <1>11, <3>2
    <3>4. s.expected # NoVersion => s.expected <= version'
      BY <1>5, <1>7, <3>1
    <3> QED
      BY <3>1, <3>3, <3>4 DEF BasisOK, ScoredFrom
  <2>2. CASE running # "nothing"
    <3>1. s.basis = "pending" /\ s.expected \in {NoVersion, version, version + 1}
      BY <1>2, <1>10, <2>2
    <3>2. ScoredFrom(s, room')
      BY <1>5, <1>11
    <3>3. s.expected # NoVersion => s.expected <= version' + 1
      BY <1>5, <1>7, <3>1
    <3> QED
      BY <1>5, <2>2, <3>1, <3>2, <3>3 DEF BasisOK, ScoredFrom
  <2> QED
    BY <2>1, <2>2
<1>15. WaitingOK'
  <2>1. ASSUME NEW t \in waiting PROVE SentOK(t)' /\ BasisOK(t)'
    <3>1. SentOK(t) /\ BasisOK(t)
      BY <1>6 DEF WaitingOK
    <3>2. SentOK(t)'
      BY <1>5, <1>7, <3>1, StaysSent
    <3>3. BasisOK(t)'
      BY <1>5, <3>1 DEF BasisOK, ScoredFrom
    <3> QED
      BY <3>2, <3>3
  <2>2. ASSUME NEW t \in waiting PROVE t.number # s.number
    <3>1. t.number \in Nat /\ t.number < scored
      BY <1>6 DEF WaitingOK, SentOK
    <3> QED
      BY <1>7, <1>10, <3>1
  <2>3. \A t, u \in waiting' : t.number = u.number => t = u
    BY <1>5, <1>6, <2>2 DEF WaitingOK
  <2>4. \A t \in waiting' : SentOK(t)' /\ BasisOK(t)'
    BY <1>5, <1>13, <1>14, <2>1
  <2>5. scored' \in Nat
    BY <1>5, <1>7
  <2> QED
    BY <2>3, <2>4, <2>5 DEF WaitingOK
<1>16. AppliedOK'
  BY <1>5, <1>6 DEF AppliedOK, SettledOnce
<1> QED
  BY <1>12, <1>15, <1>16 DEF SettleInv

\* With nothing under way no settlement waits for what becomes of it.
LEMMA NothingPending ==
  ASSUME WaitingOK, running = "nothing", NEW s \in waiting PROVE s.basis # "pending"
BY DEF WaitingOK, BasisOK

\* A command executed leaves the queue and the store alone.
LEMMA ExecutedKeeps ==
  ASSUME SettleInv, running = "nothing", FourAtTable(room'), Advanced(room, room'),
         running' \in {"command", "settlement"},
         running' = "settlement" => /\ waiting # {} /\ First.id \notin done
                                    /\ room.status = "playing" /\ room'.status = "settling",
         UNCHANGED <<durable, version, waiting, done, applied, scored>>
  PROVE  SettleInv'
<1>1. WaitingOK /\ RoomsOK /\ AppliedOK
  BY DEF SettleInv
<1>2. room = durable.room
  BY <1>1 DEF RoomsOK
<1>3. RoomsOK'
  <2>1. FourAtTable(room)' /\ FourAtTable(durable.room)' /\ version' \in Nat
    BY <1>1 DEF RoomsOK, FourAtTable
  <2>2. Advanced(durable.room, room)'
    BY <1>2 DEF Advanced
  <2>3. First' = First
    BY DEF First
  <2>4. running' = "settlement" => waiting' # {} /\ First'.id \notin done'
    BY <2>3
  <2>5. running' = "settlement" =>
          durable'.room.status = "playing" /\ room'.status = "settling"
    BY <1>2
  <2> QED
    BY <2>1, <2>2, <2>4, <2>5 DEF RoomsOK
<1>4. WaitingOK'
  <2>1. ASSUME NEW t \in waiting PROVE SentOK(t)' /\ BasisOK(t)'
    <3>1. SentOK(t) /\ BasisOK(t) /\ scored \in Nat
      BY <1>1 DEF WaitingOK
    <3>2. t.basis # "pending"
      BY <1>1, NothingPending
    <3>3. BasisOK(t)'
      BY <3>1, <3>2 DEF BasisOK, ScoredFrom
    <3> QED
      BY <3>1, <3>3 DEF SentOK
  <2> QED
    BY <1>1, <2>1 DEF WaitingOK
<1>5. AppliedOK'
  BY <1>1 DEF AppliedOK, SettledOnce
<1> QED
  BY <1>3, <1>4, <1>5 DEF SettleInv

LEMMA ExecuteKeeps == SettleInv /\ Execute => SettleInv'
<1> SUFFICES ASSUME SettleInv, Execute PROVE SettleInv'
  OBVIOUS
<1>1. /\ running = "nothing" /\ running' = "command"
      /\ UNCHANGED <<durable, version, waiting, done, applied, scored>>
  BY DEF Execute
<1>2. FourAtTable(room)
  BY DEF SettleInv, RoomsOK
<1>3. FourAtTable(room') /\ Advanced(room, room')
  BY <1>2, ExecutedRoom
<1> QED
  BY <1>1, <1>3, ExecutedKeeps

\* A settlement that is executed is the first of the queue, and a proper one.
LEMMA ExecutedFirst ==
  ASSUME SettleInv, ExecuteSettlement
  PROVE  /\ First \in waiting /\ SentOK(First) /\ BasisOK(First)
         /\ FourAtTable(room') /\ Advanced(room, room')
         /\ room.status = "playing" /\ room'.status = "settling"
         /\ \A p \in Players : room'.scores[p] = room.scores[p] + First.deltas[p]
<1>1. WaitingOK /\ FourAtTable(room) /\ waiting # {}
  BY DEF SettleInv, RoomsOK, ExecuteSettlement
<1>2. First \in waiting
  BY <1>1, FirstIs
<1>3. SentOK(First) /\ BasisOK(First)
  BY <1>1, <1>2 DEF WaitingOK
<1>4. First.deltas \in [Players -> Int]
  BY <1>3, DeltasTyped DEF SentOK
<1>5. SettleScores(System, First.deltas, First.transfers)
  BY DEF ExecuteSettlement
<1> QED
  BY <1>1, <1>2, <1>3, <1>4, <1>5, SettledRoom

LEMMA ExecuteSettlementKeeps == SettleInv /\ ExecuteSettlement => SettleInv'
<1> SUFFICES ASSUME SettleInv, ExecuteSettlement PROVE SettleInv'
  OBVIOUS
<1>1. /\ running = "nothing" /\ running' = "settlement"
      /\ waiting # {} /\ First.id \notin done
      /\ UNCHANGED <<durable, version, waiting, done, applied, scored>>
  BY DEF ExecuteSettlement, Seen
<1>2. /\ FourAtTable(room') /\ Advanced(room, room')
      /\ room.status = "playing" /\ room'.status = "settling"
  BY ExecutedFirst
<1> QED
  BY <1>1, <1>2, ExecutedKeeps

LEMMA AnswerSettlementKeeps == SettleInv /\ AnswerSettlement => SettleInv'
<1> SUFFICES ASSUME SettleInv, AnswerSettlement PROVE SettleInv'
  OBVIOUS
<1>1. /\ running = "nothing" /\ running' = running /\ waiting' \subseteq waiting
      /\ room' = room /\ durable' = durable /\ version' = version
      /\ done' = done /\ applied' = applied /\ scored' = scored
  BY DEF AnswerSettlement, vars
<1>2. WaitingOK /\ RoomsOK /\ AppliedOK
  BY DEF SettleInv
<1>3. RoomsOK'
  BY <1>1, <1>2 DEF RoomsOK, FourAtTable, Advanced
<1>4. WaitingOK'
  <2>1. ASSUME NEW t \in waiting PROVE SentOK(t)' /\ BasisOK(t)'
    BY <1>1, <1>2 DEF WaitingOK, SentOK, BasisOK, ScoredFrom
  <2> QED
    BY <1>1, <1>2, <2>1 DEF WaitingOK
<1>5. AppliedOK'
  BY <1>1, <1>2 DEF AppliedOK, SettledOnce
<1> QED
  BY <1>3, <1>4, <1>5 DEF SettleInv

\* The queue when a command has become durable or was lost.
LEMMA RebasedIs ==
  ASSUME WaitingOK, NEW basis
  PROVE  /\ \A t \in Rebased(basis) : \E s \in waiting :
              t = [s EXCEPT !.basis = IF s.basis = "pending" THEN basis ELSE s.basis]
         /\ \A t, u \in Rebased(basis) : t.number = u.number => t = u
<1> DEFINE New(s) == [s EXCEPT !.basis = IF s.basis = "pending" THEN basis ELSE s.basis]
<1>1. \A t \in Rebased(basis) : \E s \in waiting : t = New(s)
  BY DEF Rebased
<1>2. \A s \in waiting : New(s).number = s.number
  BY DEF WaitingOK, SentOK
<1> HIDE DEF New
<1>3. \A t, u \in Rebased(basis) : t.number = u.number => t = u
  BY <1>1, <1>2 DEF WaitingOK
<1> QED
  BY <1>1, <1>3 DEF New

LEMMA RebasedFields ==
  ASSUME NEW s, SentOK(s), NEW basis \in {"durable", "lost"},
         NEW t, t = [s EXCEPT !.basis = IF s.basis = "pending" THEN basis ELSE s.basis]
  PROVE  /\ SentOK(t)
         /\ t.fact = s.fact /\ t.transfers = s.transfers /\ t.expected = s.expected
         /\ t.basis = IF s.basis = "pending" THEN basis ELSE s.basis
<1> DEFINE new == IF s.basis = "pending" THEN basis ELSE s.basis
<1>1. new \in {"durable", "pending", "lost"}
  BY DEF SentOK
<1>2. t = [s EXCEPT !.basis = new]
  OBVIOUS
<1> HIDE DEF new
<1>3. t = [number |-> s.number, id |-> s.id, fact |-> s.fact, expected |-> s.expected,
           transfers |-> s.transfers, deltas |-> s.deltas, basis |-> new]
  BY <1>2 DEF SentOK
<1>4. SentOK(t)
  BY <1>1, <1>3 DEF SentOK
<1> QED
  BY <1>3, <1>4 DEF new

LEMMA CommitKeeps == SettleInv /\ Commit => SettleInv'
<1> SUFFICES ASSUME SettleInv, Commit PROVE SettleInv'
  OBVIOUS
<1>1. /\ running # "nothing" /\ running' = "nothing"
      /\ room' = room /\ durable'.room = room
      /\ version' = version + 1 /\ waiting' = Rebased("durable") /\ scored' = scored
  BY DEF Commit, Memory, vars
<1>2. WaitingOK /\ RoomsOK /\ AppliedOK
  BY DEF SettleInv
<1>3. version \in Nat /\ FourAtTable(room) /\ Advanced(durable.room, room)
      /\ room.round \in Nat /\ durable.room.round \in Nat
  BY <1>2 DEF RoomsOK, FourAtTable
<1>4. RoomsOK'
  <2>1. FourAtTable(room)' /\ FourAtTable(durable.room)'
    BY <1>1, <1>3 DEF FourAtTable
  <2>2. Advanced(durable.room, room)'
    BY <1>1, <1>3 DEF Advanced
  <2> QED
    BY <1>1, <1>3, <2>1, <2>2 DEF RoomsOK
<1>5. WaitingOK'
  <2>1. ASSUME NEW t \in waiting' PROVE SentOK(t)' /\ BasisOK(t)'
    <3>1. PICK s \in waiting :
            t = [s EXCEPT !.basis = IF s.basis = "pending" THEN "durable" ELSE s.basis]
      BY <1>1, <1>2, RebasedIs
    <3>2. SentOK(s) /\ BasisOK(s)
      BY <1>2 DEF WaitingOK
    <3>3. /\ SentOK(t)
          /\ t.fact = s.fact /\ t.transfers = s.transfers /\ t.expected = s.expected
          /\ t.basis = IF s.basis = "pending" THEN "durable" ELSE s.basis
      BY <3>1, <3>2, RebasedFields
    <3>4. SentOK(t)'
      BY <1>1, <3>3 DEF SentOK
    <3>5. s.expected # NoVersion => s.expected \in Nat
      BY <3>2 DEF SentOK
    <3>6. s.basis # "lost" /\ s.expected # NoVersion =>
            /\ s.expected <= version + 1
            /\ s.expected = version + 1 => ScoredFrom(s, room)
      BY <1>3, <3>2, <3>5 DEF BasisOK, SentOK
    <3>7. ScoredFrom(s, room) => ScoredFrom(t, room)
      BY <3>3 DEF ScoredFrom
    <3>8. t.basis # "pending" /\ (t.basis = "durable" => s.basis # "lost")
      BY <3>3
    <3>9. BasisOK(t)'
      BY <1>1, <3>3, <3>6, <3>7, <3>8 DEF BasisOK, ScoredFrom
    <3> QED
      BY <3>4, <3>9
  <2>2. \A t, u \in waiting' : t.number = u.number => t = u
    BY <1>1, <1>2, RebasedIs
  <2> QED
    BY <1>1, <1>2, <2>1, <2>2 DEF WaitingOK
<1>6. AppliedOK'
  <2>1. \A a \in applied : /\ a.id \in done /\ a.round \in Nat /\ a.round <= room.round
                           /\ a.round = room.round => room.status \notin Live
    <3> SUFFICES ASSUME NEW a \in applied
                 PROVE  /\ a.id \in done /\ a.round \in Nat /\ a.round <= room.round
                        /\ a.round = room.round => room.status \notin Live
      OBVIOUS
    <3>1. /\ a.id \in done /\ a.round \in Nat /\ a.round <= durable.room.round
          /\ a.round = durable.room.round => durable.room.status \notin Live
      BY <1>2 DEF AppliedOK
    <3> QED
      BY <1>3, <3>1 DEF Advanced
  <2>2. CASE running = "settlement"
    <3>1. PICK new : new = [number |-> First.number, id |-> First.id, round |-> room.round]
      OBVIOUS
    <3>2. new.id = First.id /\ new.round = room.round
      BY <3>1
    <3>3. done' = done \cup {First.id} /\ applied' = applied \cup {new}
      BY <2>2, <3>1 DEF Commit
    <3>4. /\ First.id \notin done /\ durable.room.status = "playing"
          /\ room.status = "settling"
      BY <1>2, <2>2 DEF RoomsOK
    <3>5. \A a \in applied : a.id # new.id /\ a.round # new.round
      <4> SUFFICES ASSUME NEW a \in applied PROVE a.id # new.id /\ a.round # new.round
        OBVIOUS
      <4>1. a.id # new.id
        BY <2>1, <3>2, <3>4
      <4>2. /\ a.round \in Nat /\ a.round <= durable.room.round
            /\ a.round = durable.room.round => durable.room.status \notin Live
        BY <1>2 DEF AppliedOK
      <4>3. a.round < durable.room.round
        BY <1>3, <3>4, <4>2 DEF Live
      <4>4. durable.room.round <= room.round
        BY <1>3 DEF Advanced
      <4>5. a.round # room.round
        BY <1>3, <4>2, <4>3, <4>4
      <4> QED
        BY <3>2, <4>1, <4>5
    <3>6. SettledOnce'
      BY <1>2, <3>3, <3>5 DEF AppliedOK, SettledOnce
    <3>7. \A a \in applied' : /\ a.id \in done' /\ a.round \in Nat /\ a.round <= room.round
                              /\ a.round = room.round => room.status \notin Live
      BY <1>3, <2>1, <3>2, <3>3, <3>4 DEF Live
    <3> QED
      BY <1>1, <3>6, <3>7 DEF AppliedOK
  <2>3. CASE running # "settlement"
    <3>1. done' = done /\ applied' = applied
      BY <2>3 DEF Commit
    <3> QED
      BY <1>1, <1>2, <2>1, <3>1 DEF AppliedOK, SettledOnce
  <2> QED
    BY <2>2, <2>3
<1> QED
  BY <1>4, <1>5, <1>6 DEF SettleInv

\* Restored, the room in memory is the durable one.
LEMMA RestoredKeeps ==
  ASSUME SettleInv, Restored, running' = "nothing",
         UNCHANGED <<durable, version, done, applied, scored>>
  PROVE  RoomsOK' /\ AppliedOK'
<1>1. RoomsOK /\ AppliedOK /\ room' = durable.room
  BY DEF SettleInv, Restored
<1>2. FourAtTable(durable.room) /\ durable.room.round \in Nat /\ version \in Nat
  BY <1>1 DEF RoomsOK, FourAtTable
<1>3. FourAtTable(room)' /\ FourAtTable(durable.room)'
  BY <1>1, <1>2 DEF FourAtTable
<1>4. Advanced(durable.room, room)'
  BY <1>1, <1>2 DEF Advanced
<1>5. RoomsOK'
  BY <1>1, <1>2, <1>3, <1>4 DEF RoomsOK
<1>6. AppliedOK'
  BY <1>1 DEF AppliedOK, SettledOnce
<1> QED
  BY <1>5, <1>6

LEMMA FailKeeps == SettleInv /\ Fail => SettleInv'
<1> SUFFICES ASSUME SettleInv, Fail PROVE SettleInv'
  OBVIOUS
<1>1. /\ running' = "nothing" /\ Restored /\ waiting' = Rebased("lost")
      /\ UNCHANGED <<durable, version, done, applied, scored>>
  BY DEF Fail
<1>2. WaitingOK
  BY DEF SettleInv
<1>3. WaitingOK'
  <2>1. ASSUME NEW t \in waiting' PROVE SentOK(t)' /\ BasisOK(t)'
    <3>1. PICK s \in waiting :
            t = [s EXCEPT !.basis = IF s.basis = "pending" THEN "lost" ELSE s.basis]
      BY <1>1, <1>2, RebasedIs
    <3>2. SentOK(s) /\ BasisOK(s)
      BY <1>2 DEF WaitingOK
    <3>3. /\ SentOK(t)
          /\ t.fact = s.fact /\ t.transfers = s.transfers /\ t.expected = s.expected
          /\ t.basis = IF s.basis = "pending" THEN "lost" ELSE s.basis
      BY <3>1, <3>2, RebasedFields
    <3>4. SentOK(t)'
      BY <1>1, <3>3 DEF SentOK
    <3>5. t.basis # "pending" /\ (t.basis = "durable" => s.basis = "durable")
      BY <3>3
    <3>6. BasisOK(t)'
      BY <1>1, <3>2, <3>3, <3>5 DEF BasisOK, ScoredFrom
    <3> QED
      BY <3>4, <3>6
  <2>2. \A t, u \in waiting' : t.number = u.number => t = u
    BY <1>1, <1>2, RebasedIs
  <2> QED
    BY <1>1, <1>2, <2>1, <2>2 DEF WaitingOK
<1> QED
  BY <1>1, <1>3, RestoredKeeps DEF SettleInv

LEMMA RestartKeeps == SettleInv /\ Restart => SettleInv'
<1> SUFFICES ASSUME SettleInv, Restart PROVE SettleInv'
  OBVIOUS
<1>1. /\ running' = "nothing" /\ Restored /\ waiting' = {}
      /\ UNCHANGED <<durable, version, done, applied, scored>>
  BY DEF Restart
<1>2. WaitingOK'
  BY <1>1 DEF SettleInv, WaitingOK
<1> QED
  BY <1>1, <1>2, RestoredKeeps DEF SettleInv

LEMMA SettleInvKept == SettleInv /\ [SettlementNext]_settlementVars => SettleInv'
<1> SUFFICES ASSUME SettleInv, [SettlementNext]_settlementVars PROVE SettleInv'
  OBVIOUS
<1>1. CASE Settling
  <2>1. PICK id \in Ids, fact \in Facts :
          \/ SettleSusongRound(id, fact, NoVersion)
          \/ SettleSusongRound(id, fact, version)
          \/ running # "nothing" /\ SettleSusongRound(id, fact, version + 1)
    BY <1>1 DEF Settling
  <2> QED
    BY <2>1, SettleSusongRoundKeeps
<1>2. CASE UNCHANGED settlementVars
  BY <1>2 DEF settlementVars, vars, actor, SettleInv, RoomsOK, WaitingOK, AppliedOK,
              FourAtTable, Advanced, SentOK, BasisOK, ScoredFrom, SettledOnce, First
<1> QED
  BY <1>1, <1>2, ExecuteKeeps, ExecuteSettlementKeeps, AnswerSettlementKeeps,
     CommitKeeps, FailKeeps, RestartKeeps DEF SettlementNext

LEMMA SettleInvAlways == SettlementSpec => []SettleInv
BY InitSettleInv, SettleInvKept, PTL DEF SettlementSpec

-----------------------------------------------------------------------------
\* Whatever is retried, fails or restarts, of the settlements made durable no two
\* have the same command id and no two the same round (settleSusongRound,
\* commandResults, settleRound refused outside a round that is played).
THEOREM SettledOnceHolds == SettlementSpec => []SettledOnce
<1>1. SettleInv => SettledOnce
  BY DEF SettleInv, AppliedOK
<1> QED
  BY <1>1, SettleInvAlways, PTL

\* For every fact and every room it can be scored from, the deltas of the rule
\* engine are what its transfers add up to, they add up to zero, and no transfer is
\* of nothing or to oneself: serverSettlementDeltas accepts all it computes.
THEOREM EngineAgreesHolds == SettlementSpec => []EngineAgreesWithRoom
<1>1. SettleInv => EngineAgreesWithRoom
  <2> SUFFICES ASSUME SettleInv, NEW s \in waiting
               PROVE  /\ ServerSettlement(System, s.deltas, s.transfers)
                      /\ \A t \in s.transfers : t.amount > 0
    BY DEF EngineAgreesWithRoom
  <2>1. Proper(s.transfers) /\ s.deltas = Deltas(Players, s.transfers)
    BY DEF SettleInv, WaitingOK, SentOK
  <2>2. Seated(room) = Players
    BY DEF SettleInv, RoomsOK, FourAtTable
  <2>3. Sum(s.deltas) = 0
    BY <2>1, DeltasAddUp
  <2>4. \A p \in Players : s.deltas[p] = Received(s.transfers, p) - Paid(s.transfers, p)
    BY <2>1, DeltasAreMoves
  <2>5. \A t \in s.transfers : t.from # t.to /\ t.amount > 0
    BY <2>1 DEF Proper
  <2> QED
    BY <2>2, <2>3, <2>4, <2>5 DEF ServerSettlement
<1> QED
  BY <1>1, SettleInvAlways, PTL

\* A settlement that names the room version it was scored from is applied to that
\* very room: whoever wins may win by the rule sheet, and every score changes by
\* what the rule sheet says that the players owe each other (scoreSusongRound,
\* expectedRoomVersion).
THEOREM SettledAsRuledHolds == SettlementSpec => SettledAsRuled
<1> DEFINE Ruled ==
      ExecuteSettlement /\ First.expected # NoVersion /\ First.basis # "lost" =>
        /\ \A w \in Winners(First.fact) : RuledWin(w, First.fact)
        /\ \A p \in Players : room'.scores[p] = RuledScore(p, First.fact)
<1>1. SettleInv /\ [SettlementNext]_settlementVars => [Ruled]_settlementVars
  <2> SUFFICES ASSUME SettleInv, ExecuteSettlement,
                      First.expected # NoVersion, First.basis # "lost"
               PROVE  /\ \A w \in Winners(First.fact) : RuledWin(w, First.fact)
                      /\ \A p \in Players : room'.scores[p] = RuledScore(p, First.fact)
    OBVIOUS
  <2>1. running = "nothing" /\ MatchesVersion(First)
    BY DEF ExecuteSettlement
  <2>2. First \in waiting /\ SentOK(First) /\ BasisOK(First)
    BY ExecutedFirst
  <2>3. First.basis = "durable"
    BY <2>1, <2>2 DEF SentOK, BasisOK
  <2>4. First.expected = version
    BY <2>1 DEF MatchesVersion
  <2>5. ScoredFrom(First, room)
    BY <2>1, <2>2, <2>3, <2>4 DEF BasisOK, SettleInv, RoomsOK
  <2>6. Readable(room.zeng, room.flowers, First.fact)
    BY <2>5 DEF ScoredFrom
  <2>7. First.deltas
          = Deltas(Players, RoundTransfers(Config, room.zeng, room.flowers, First.fact))
    BY <2>2, <2>5 DEF SentOK, ScoredFrom
  <2>8. ASSUME NEW p \in Players PROVE room'.scores[p] = RuledScore(p, First.fact)
    <3>1. room'.scores[p] = room.scores[p] + First.deltas[p]
      BY ExecutedFirst
    <3>2. First.deltas[p]
            = Sum([q \in Players |-> Owes(q, p, First.fact) - Owes(p, q, First.fact)])
      BY <2>6, <2>7, DeltasAreRuled
    <3> QED
      BY <3>1, <3>2 DEF RuledScore
  <2>9. ASSUME NEW w \in Winners(First.fact) PROVE RuledWin(w, First.fact)
    BY <2>6, WinIsRuled
  <2> QED
    BY <2>8, <2>9
<1>2. SettlementSpec => [][Ruled]_settlementVars
  BY <1>1, SettleInvAlways, PTL DEF SettlementSpec
<1> QED
  BY <1>2 DEF SettledAsRuled
=============================================================================
