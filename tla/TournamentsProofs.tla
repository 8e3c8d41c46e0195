--------------------------- MODULE TournamentsProofs ---------------------------
(***************************************************************************)
(* Proofs about Tournaments, for any people, offers, balances, lengths and   *)
(* failures: the coins follow the membership to the last coin of the pool,   *)
(* places are deserved and final, nobody is started behind his back and no   *)
(* place is sold twice.                                                     *)
(***************************************************************************)
EXTENDS Tournaments, SumTheorems, SequenceTheorems

(* The journal, in a book that may be the one before or after a step.       *)
WholeRows(rows) == IsFiniteSet(rows) /\ \A x \in rows : x.user \in Users /\ x.delta \in Int
RowsOf(rows, u) == {r \in rows : r.user = u}
Book(L) ==
  /\ L = [balance |-> L.balance, rows |-> L.rows]
  /\ L.balance \in [Users -> Nat] /\ WholeRows(L.rows)
NetIn(L, u) == - SumOf(RowsOf(L.rows, u))
NoPrize(L) == \A x \in L.rows : x.kind # "TOURNAMENT_PRIZE"
StakeIn(r, m, u) == (IF m[u].in THEN r.offer.fee ELSE 0) +
                    (IF u = r.creator THEN r.offer.bonus ELSE 0)

(* What the tables say at rest, by the status of the tournament: r is its    *)
(* row, m its participants, ss their sessions, L the coins.                *)
Rows == [status : Statuses, offer : Offers \cup {None}, creator : Users \cup {None},
         startsAt : Nat, endsAt : Nat]
Shapes(r, m, ss, L) ==
  /\ r \in Rows /\ (r.status # "none" => r.offer \in Offers /\ r.creator \in Users)
  /\ m \in [Users -> Members] /\ \A u \in Users : ~ m[u].in => m[u] = NotIn
  /\ ss \in [Users -> [status : {"none", "active", "finished"}, balance : Nat]]
  /\ Book(L)

Fits(o, m) ==
  /\ Cardinality(In(m)) <= o.max
  /\ o.teams =>
       /\ \A u \in In(m) : m[u].team \in Teams
       /\ \A k \in Teams : Cardinality(InTeam(m, k)) <= o.size
Gathered(r, m, L) ==
  /\ m[r.creator].in /\ Fits(r.offer, m)
  /\ \A u \in Users : NetIn(L, u) = StakeIn(r, m, u)
  /\ NoPrize(L)

NoSessions(ss) == \A u \in Users : ss[u].status = "none"
Closed(ss) == \A u \in Users : ss[u].status # "active"
Playing(r, m, ss) ==
  /\ r.offer.teams => BothTeams(m)
  /\ \A u \in Users : ss[u].status # "none" <=> m[u].in

Deserved(o, m, ss, place, prize) ==
  \A u, v \in In(m) :
    /\ place[u] < place[v] => prize[u] >= prize[v]
    /\ ~ o.teams /\ ss[u].balance > ss[v].balance => place[u] < place[v]
Placed(r, m, ss, L) ==
  /\ \A u \in Users : NetIn(L, u) = StakeIn(r, m, u) - m[u].prize
  /\ SumFunction([u \in Users |-> m[u].prize]) = PrizePool(r.offer, Cardinality(In(m)))
  /\ Deserved(r.offer, m, ss, [u \in Users |-> m[u].place], [u \in Users |-> m[u].prize])
  /\ Closed(ss)

Fine(r, m, ss, L) ==
  /\ Shapes(r, m, ss, L)
  /\ r.status = "none" => In(m) = {} /\ NoSessions(ss) /\ L.rows = {}
  /\ r.status = "lobby" => Gathered(r, m, L) /\ NoSessions(ss)
  /\ r.status = "running" => Gathered(r, m, L) /\ Playing(r, m, ss)
  /\ r.status = "finished" => Placed(r, m, ss, L)
  /\ r.status = "cancelled" => (\A u \in Users : NetIn(L, u) = 0) /\ NoSessions(ss)
  /\ r.status = "removed" =>
       SumFunction([u \in Users |-> NetIn(L, u)]) = 0 /\ NoSessions(ss)

(* What the final has counted outside of its transaction, is still so.      *)
Counted(o, m, ss, place, prize) ==
  /\ place \in [In(m) -> Nat] /\ prize \in [In(m) -> Nat]
  /\ SumFunction(prize) = PrizePool(o, Cardinality(In(m)))
  /\ Deserved(o, m, ss, place, prize)
  /\ Closed(ss)

(* The inductive invariant.  What a transaction of a person has read stands  *)
(* until it ends: he has the lock, and what takes none waits for a running   *)
(* tournament, on which no transaction begins.                             *)
UserHolds ==
  \A u \in Users : tx[u].op # "none" =>
    /\ lock = u /\ tx[u].row = row /\ tx[u].member = member
    /\ row.status \in {"lobby", "finished", "cancelled"}

(* The same for the runner, if it has read a lobby.                        *)
RunnerHolds ==
  /\ At("starting") <=> lock = Runner
  /\ At("starting") /\ tx[Runner].row.status = "lobby" =>
       tx[Runner].row = row /\ tx[Runner].member = member

Final ==
  /\ At("closing") \/ At("final") => row.status = "running"
  /\ At("final") => Counted(row.offer, member, session, runner.place, runner.prize)

TypeOfTx ==
  /\ lock \in Callers \cup {None}
  /\ DOMAIN tx = Callers
  /\ \A u \in Users :
       /\ Doing(u, "join") => tx[u].arg \in Teams \cup {None}
       /\ Doing(u, "move") => tx[u].arg \in [user : Users, team : Teams]
       /\ Doing(u, "ready") => tx[u].arg \in BOOLEAN
TypeOfClock == now \in 0 .. MaxTime /\ failures \in 0 .. MaxFailures
TypeOfRunner == runner.pc \in {"idle", "start", "starting", "closing", "final"}

IInv ==
  /\ TypeOfClock /\ TypeOfTx /\ TypeOfRunner
  /\ Fine(row, member, session, ledger)
  /\ UserHolds /\ RunnerHolds /\ Final

-----------------------------------------------------------------------------
(* Prizes.                                                                 *)

(* Rounding down keeps the order and stays below.                         *)
LEMMA PercentFacts ==
  ASSUME NEW pool \in Nat, NEW a \in 1 .. 100, NEW b \in 1 .. 100, b <= a
  PROVE  /\ (pool * a) \div 100 \in Nat /\ 100 * ((pool * a) \div 100) <= pool * a
         /\ (pool * b) \div 100 <= (pool * a) \div 100
<1>. DEFINE A == pool * a
            B == pool * b
<1>1. A \in Nat /\ B \in Nat
  OBVIOUS
<1>2. B <= A
  OBVIOUS
<1>. HIDE DEF A, B
<1>3. A \div 100 \in Nat /\ 100 * (A \div 100) <= A
  BY <1>1
<1>4. B \div 100 <= A \div 100
  BY <1>1, <1>2
<1>. QED BY <1>3, <1>4 DEF A, B

LEMMA SumOfSeq ==
  ASSUME NEW s, NEW n \in Nat, DOMAIN s = 1 .. n
  PROVE  SumSeq(s) = SumFunctionOnSet(s, 1 .. n) /\ IsFiniteSet(1 .. n)
BY FS_Interval DEF SumSeq, SumFunction

(* payouts() gives out the pool to the coin, nobody less than nothing, and   *)
(* nobody more than the place above.                                       *)
LEMMA PayoutsAreFair ==
  ASSUME NEW pool \in Nat, NEW n \in Nat \ {0}, NEW shares \in [1 .. n -> 1 .. 100],
         SumSeq(shares) <= 100,
         \A i, j \in 1 .. n : i <= j => shares[j] <= shares[i]
  PROVE  /\ Payouts(pool, shares) \in [1 .. n -> Nat]
         /\ SumFunctionOnSet(Payouts(pool, shares), 1 .. n) = pool
         /\ \A i, j \in 1 .. n : i <= j => Payouts(pool, shares)[j] <= Payouts(pool, shares)[i]
<1>. DEFINE raw == [i \in 1 .. n |-> (pool * shares[i]) \div 100]
            rest == pool - SumSeq(raw)
            paid == [raw EXCEPT ![1] = raw[1] + pool - SumSeq(raw)]
            hundred == [i \in 1 .. n |-> 100 * raw[i]]
            whole == [i \in 1 .. n |-> pool * shares[i]]
            S == 1 .. n
<1>1. Payouts(pool, shares) = paid
  BY DEF Payouts
<1>2. ASSUME NEW i \in S
      PROVE  raw[i] \in Nat /\ 100 * raw[i] <= pool * shares[i]
  <2>1. shares[i] \in 1 .. 100 /\ shares[i] <= shares[i]
    OBVIOUS
  <2>2. raw[i] = (pool * shares[i]) \div 100
    OBVIOUS
  <2>. QED BY <2>1, <2>2, PercentFacts
<1>3. ASSUME NEW i \in S, NEW j \in S, i <= j
      PROVE  raw[j] <= raw[i]
  <2>1. shares[i] \in 1 .. 100 /\ shares[j] \in 1 .. 100 /\ shares[j] <= shares[i]
    BY <1>3
  <2>. QED BY <2>1, PercentFacts
<1>4. IsFiniteSet(S) /\ DOMAIN raw = S /\ 1 \in S
  BY FS_Interval
<1>5. SumSeq(raw) = SumFunctionOnSet(raw, S) /\ SumSeq(shares) = SumFunctionOnSet(shares, S)
  BY SumOfSeq
<1>6. ASSUME NEW i \in S
      PROVE  /\ hundred[i] = 100 * raw[i] /\ whole[i] = pool * shares[i]
             /\ shares[i] \in Int /\ whole[i] \in Int /\ raw[i] \in Int
  <2>0. shares[i] \in 1 .. 100
    OBVIOUS
  <2>1. raw[i] \in Nat /\ shares[i] \in Nat
    <3>0. \A k \in 1 .. 100 : k \in Nat
      OBVIOUS
    <3>1. shares[i] \in Nat
      BY <2>0, <3>0, Zenon
    <3>2. raw[i] \in Nat
      BY ONLY <1>2, i \in S
    <3>. QED BY <3>1, <3>2
  <2>2. hundred[i] = 100 * raw[i] /\ whole[i] = pool * shares[i]
    OBVIOUS
  <2>3. pool * shares[i] \in Int
    BY <2>1
  <2>. QED BY <2>1, <2>2, <2>3
<1>. HIDE DEF raw, hundred, whole, S
<1>7. SumFunctionOnSet(hundred, S) = 100 * SumFunctionOnSet(raw, S)
  BY <1>4, <1>6, SumTimes
<1>8. SumFunctionOnSet(whole, S) = pool * SumFunctionOnSet(shares, S)
  BY <1>4, <1>6, SumTimes
<1>9. SumFunctionOnSet(hundred, S) <= SumFunctionOnSet(whole, S)
  <2>1. \A i \in S : hundred[i] \in Int /\ whole[i] \in Int /\ hundred[i] <= whole[i]
    BY <1>2, <1>6
  <2>. QED BY <1>4, <2>1, SumLess
<1>10. SumSeq(raw) \in Nat /\ SumSeq(shares) \in Int
  BY <1>2, <1>4, <1>5, <1>6, SumNat, SumType
<1>11. SumSeq(raw) <= pool
  <2>1. pool * SumSeq(shares) <= pool * 100
    BY <1>10
  <2>2. 100 * SumSeq(raw) <= pool * SumSeq(shares)
    BY <1>5, <1>7, <1>8, <1>9
  <2>3. pool * SumSeq(shares) \in Int
    BY <1>10
  <2>. QED BY <1>10, <2>1, <2>2, <2>3
<1>. DEFINE total == SumSeq(raw)
<1>12. total \in Nat /\ total <= pool /\ total = SumFunctionOnSet(raw, S)
  BY <1>5, <1>10, <1>11
<1>. HIDE DEF total
<1>13. paid = [raw EXCEPT ![1] = raw[1] + pool - total]
  BY DEF total
<1>. HIDE DEF paid
<1>14. /\ DOMAIN paid = S /\ paid[1] = raw[1] + pool - total
       /\ \A i \in S \ {1} : paid[i] = raw[i]
  BY <1>4, <1>13
<1>15. \A i \in S : paid[i] \in Nat
  BY <1>2, <1>4, <1>12, <1>14
<1>16. SumFunctionOnSet(paid, S) = SumFunctionOnSet(raw, S) + paid[1] - raw[1]
  BY <1>2, <1>4, <1>14, <1>15, SumChange
<1>17. \A i, j \in S : i <= j => paid[j] <= paid[i]
  <2>. SUFFICES ASSUME NEW i \in S, NEW j \in S, i <= j
               PROVE  paid[j] <= paid[i]
    OBVIOUS
  <2>1. CASE j = 1
    BY <2>1, <1>15 DEF S
  <2>2. CASE j # 1
    <3>1. paid[j] = raw[j] /\ raw[j] <= raw[i] /\ raw[i] \in Nat /\ raw[j] \in Nat
      BY <1>2, <1>3, <1>14, <2>2
    <3>2. raw[i] <= paid[i]
      BY <1>2, <1>12, <1>14, <3>1
    <3>. QED BY <1>15, <3>1, <3>2
  <2>. QED BY <2>1, <2>2
<1>18. paid \in [S -> Nat]
  <2>1. paid = [i \in S |-> paid[i]]
    BY <1>13, <1>4
  <2>. QED BY <1>15, <2>1
<1>. QED BY <1>1, <1>2, <1>4, <1>12, <1>14, <1>16, <1>17, <1>18 DEF S

LEMMA OfferFacts ==
  ASSUME NEW o, IsOffer(o)
  PROVE  /\ o.fee \in Nat /\ o.bonus \in Nat /\ o.max \in Nat \ {0} /\ o.size \in Nat
         /\ Len(o.shares) \in Nat \ {0}
         /\ o.shares \in [1 .. Len(o.shares) -> 1 .. 100] /\ SumSeq(o.shares) = 100
         /\ \A i, j \in 1 .. Len(o.shares) : i <= j => o.shares[j] <= o.shares[i]
         /\ \A n \in Nat : PrizePool(o, n) \in Nat
<1>1. o.fee \in Nat /\ o.bonus \in Nat /\ o.max \in Nat \ {0} /\ o.size \in Nat
  BY DEF IsOffer
<1>2. ValidShares(o.shares)
  BY DEF IsOffer
<1>0. o.shares \in Seq(1 .. 100) /\ o.shares # << >>
  BY <1>2 DEF ValidShares
<1>3. /\ o.shares \in [1 .. Len(o.shares) -> 1 .. 100] /\ DOMAIN o.shares = 1 .. Len(o.shares)
      /\ Len(o.shares) \in Nat \ {0}
  BY <1>0, LenProperties, EmptySeq
<1>4. SumSeq(o.shares) = 100 /\ \A i, j \in DOMAIN o.shares : i <= j => o.shares[j] <= o.shares[i]
  BY <1>2 DEF ValidShares
<1>5. ASSUME NEW n \in Nat PROVE PrizePool(o, n) \in Nat
  <2>1. o.fee * n \in Nat
    BY <1>1
  <2>. QED BY <1>1, <2>1 DEF PrizePool
<1>6. \A i, j \in 1 .. Len(o.shares) : i <= j => o.shares[j] <= o.shares[i]
  BY <1>3, <1>4
<1>. QED BY <1>1, <1>3, <1>4, <1>5, <1>6

(* The first shares of the offer are no more than all of them.             *)
LEMMA FirstShares ==
  ASSUME NEW o, IsOffer(o), NEW k \in 1 .. Len(o.shares)
  PROVE  LET T == SubSeq(o.shares, 1, k) IN
         /\ T \in [1 .. k -> 1 .. 100] /\ SumSeq(T) <= 100
         /\ \A i, j \in 1 .. k : i <= j => T[j] <= T[i]
<1>. DEFINE T == SubSeq(o.shares, 1, k)
            s == o.shares
            n == Len(o.shares)
            A == 1 .. k
            B == (k + 1) .. n
<1>1. n \in Nat \ {0} /\ s \in [1 .. n -> 1 .. 100] /\ SumSeq(s) = 100
  BY OfferFacts
<1>2. \A i, j \in 1 .. n : i <= j => s[j] <= s[i]
  BY OfferFacts
<1>3. s \in Seq(1 .. 100)
  BY DEF IsOffer, ValidShares
<1>0. k \in Nat \ {0} /\ k <= n /\ \A i \in 1 .. k : i \in 1 .. n
  BY <1>1
<1>4. T = [i \in 1 .. k |-> s[i]]
  <2>1. \A i \in 1 .. k : s[i] \in 1 .. 100
    BY <1>0, <1>1
  <2>2. k = k - 1 + 1 /\ \A i \in 1 .. k : 1 + i - 1 = i
    BY <1>0
  <2>3. T \in Seq(1 .. 100) /\ Len(T) = k /\ \A i \in 1 .. k : T[i] = s[i]
    <3>1. /\ T \in Seq(1 .. 100)
          /\ Len(T) = IF 1 <= k THEN k - 1 + 1 ELSE 0
          /\ \A i \in 1 .. k - 1 + 1 : T[i] = s[1 + i - 1]
      BY <1>0, <2>1, SubSeqProperties
    <3>. HIDE DEF T, s
    <3>2. \A i \in 1 .. k : T[i] = s[1 + i - 1]
      BY <2>2, <3>1
    <3>3. \A i \in 1 .. k : T[i] = s[i]
      BY <2>2, <3>2
    <3>. QED BY <1>0, <2>2, <3>1, <3>3
  <2>4. DOMAIN T = 1 .. k
    BY <2>3, LenProperties
  <2>. HIDE DEF T
  <2>5. T \in [1 .. k -> 1 .. 100]
    BY <2>3, LenProperties
  <2>. QED BY <2>3, <2>5
<1>5. IsFiniteSet(A) /\ IsFiniteSet(B) /\ A \cap B = {} /\ A \cup B = 1 .. n /\ k \in Nat
  <2>1. k \in Int /\ n \in Int /\ k + 1 \in Int
    BY <1>0, <1>1
  <2>. HIDE DEF n
  <2>2. IsFiniteSet(A) /\ IsFiniteSet(B)
    BY <2>1, FS_Interval
  <2>. QED BY <1>0, <2>1, <2>2
<1>6. \A i \in 1 .. n : s[i] \in Nat
  <2>1. \A x \in 1 .. 100 : x \in Nat
    OBVIOUS
  <2>2. \A i \in 1 .. n : s[i] \in 1 .. 100
    BY <1>1
  <2>. QED BY <2>1, <2>2, Zenon
<1>7. SumSeq(s) = SumFunctionOnSet(s, 1 .. n)
  BY <1>1, SumOfSeq
<1>8. SumFunctionOnSet(s, A \cup B) = SumFunctionOnSet(s, A) + SumFunctionOnSet(s, B)
  <2>1. \A y \in A \cup B : s[y] \in Int
    BY <1>5, <1>6
  <2>. HIDE DEF A, B, s
  <2>. QED BY <1>5, <2>1, SumUnion
<1>9. SumFunctionOnSet(s, A) \in Nat /\ SumFunctionOnSet(s, B) \in Nat
  <2>1. \A y \in A \cup B : s[y] \in Nat
    BY <1>5, <1>6
  <2>. HIDE DEF A, B, s
  <2>. QED BY <1>5, <2>1, SumNat
<1>10. SumSeq(T) = SumFunctionOnSet(T, A)
  BY <1>4, <1>5, SumOfSeq
<1>13. \A i \in 1 .. k : T[i] = s[i] /\ i \in 1 .. n
  BY <1>0, <1>4
<1>11. SumFunctionOnSet(T, A) = SumFunctionOnSet(s, A)
  <2>. HIDE DEF T, s
  <2>. QED BY <1>5, <1>13, SumSame
<1>12. SumSeq(T) <= 100
  <2>1. SumSeq(T) = SumFunctionOnSet(s, A)
    BY <1>10, <1>11
  <2>2. 100 = SumFunctionOnSet(s, A) + SumFunctionOnSet(s, B)
    BY <1>1, <1>5, <1>7, <1>8
  <2>. HIDE DEF T, s, A, B
  <2>. QED BY <1>9, <2>1, <2>2
<1>14. T \in [1 .. k -> 1 .. 100]
  <2>. HIDE DEF T, s, n
  <2>. QED BY <1>1, <1>4, <1>13
<1>15. \A i, j \in 1 .. k : i <= j => T[j] <= T[i]
  BY <1>2, <1>13
<1>. QED BY <1>12, <1>14, <1>15

(* Every place up to the number of players is somebody's.                  *)
LEMMA PlacesAreTaken ==
  ASSUME NEW S, IsFiniteSet(S), NEW p \in [S -> 1 .. Cardinality(S)],
         \A u, v \in S : p[u] = p[v] => u = v
  PROVE  \A t \in 1 .. Cardinality(S) : \E u \in S : p[u] = t
<1>. DEFINE n == Cardinality(S)
            T == 1 .. n
<1>1. n \in Nat
  BY FS_CardinalityType
<1>2. IsFiniteSet(T) /\ Cardinality(T) = n
  BY <1>1, FS_Interval
<1>3. p \in Injection(S, T)
  BY DEF Injection, IsInjective
<1>. HIDE DEF T
<1>4. p \in Surjection(S, T)
  BY <1>2, <1>3, FS_Injection
<1>. QED BY <1>4 DEF Surjection, T

(* An arena gives out its pool, and more for a better place.               *)
LEMMA ArenaIsFair ==
  ASSUME NEW o, IsOffer(o), NEW m, IsFiniteSet(In(m)), In(m) # {},
         NEW p \in [In(m) -> 1 .. Cardinality(In(m))],
         \A u, v \in In(m) : p[u] = p[v] => u = v
  PROVE  /\ ArenaPrizes(o, m, p) \in [In(m) -> Nat]
         /\ SumFunction(ArenaPrizes(o, m, p)) = PrizePool(o, Cardinality(In(m)))
         /\ \A u, v \in In(m) :
              p[u] < p[v] => ArenaPrizes(o, m, p)[u] >= ArenaPrizes(o, m, p)[v]
<1>. DEFINE S == In(m)
            n == Cardinality(S)
            L == Len(o.shares)
            filled == IF n < L THEN n ELSE L
            prizes == Payouts(PrizePool(o, n), SubSeq(o.shares, 1, filled))
            f == [t \in 1 .. n |-> IF t <= L THEN prizes[t] ELSE 0]
            P == [u \in S |-> IF p[u] <= L THEN prizes[p[u]] ELSE 0]
            A == 1 .. filled
            B == (filled + 1) .. n
<1>1. n \in Nat \ {0} /\ L \in Nat \ {0}
  BY OfferFacts, FS_CardinalityType, FS_EmptySet
<1>2. filled \in 1 .. L /\ filled \in Nat \ {0} /\ filled <= n
      /\ \A t \in 1 .. n : t <= L <=> t \in A
  BY <1>1
<1>3. ArenaPrizes(o, m, p) = P
  BY DEF ArenaPrizes
<1>. HIDE DEF filled
<1>4. /\ prizes \in [A -> Nat] /\ SumFunctionOnSet(prizes, A) = PrizePool(o, n)
      /\ \A i, j \in A : i <= j => prizes[j] <= prizes[i]
  <2>. DEFINE T == SubSeq(o.shares, 1, filled)
              pool == PrizePool(o, n)
  <2>1. T \in [1 .. filled -> 1 .. 100] /\ SumSeq(T) <= 100
        /\ \A i, j \in 1 .. filled : i <= j => T[j] <= T[i]
    BY <1>2, FirstShares
  <2>2. pool \in Nat
    BY <1>1, OfferFacts
  <2>. HIDE DEF T, pool
  <2>3. /\ Payouts(pool, T) \in [1 .. filled -> Nat]
        /\ SumFunctionOnSet(Payouts(pool, T), 1 .. filled) = pool
        /\ \A i, j \in 1 .. filled : i <= j => Payouts(pool, T)[j] <= Payouts(pool, T)[i]
    BY <1>2, <2>1, <2>2, PayoutsAreFair
  <2>. QED BY <2>3 DEF T, pool
<1>. HIDE DEF prizes
<1>5. \A t \in 1 .. n : f[t] = (IF t \in A THEN prizes[t] ELSE 0) /\ f[t] \in Nat
  BY <1>2, <1>4
<1>6. \A u \in S : P[u] = f[p[u]] /\ p[u] \in 1 .. n /\ P[u] \in Nat
  BY <1>5
<1>7. P \in [S -> Nat] /\ P = [u \in S |-> f[p[u]]]
  BY <1>6
<1>8. IsFiniteSet(A) /\ IsFiniteSet(B) /\ IsFiniteSet(1 .. n) /\ A \cap B = {} /\ A \cup B = 1 .. n
  <2>. HIDE DEF n
  <2>1. n \in Int /\ filled \in Int /\ filled + 1 \in Int
    BY <1>1, <1>2
  <2>2. IsFiniteSet(A) /\ IsFiniteSet(B) /\ IsFiniteSet(1 .. n)
    BY <2>1, FS_Interval
  <2>. QED BY <1>2, <2>1, <2>2
<1>. HIDE DEF f
<1>9. SumFunctionOnSet(P, S) = SumFunctionOnSet(f, 1 .. n)
  <2>. DEFINE N == 1 .. n
  <2>1. \A t \in N : \E u \in S : p[u] = t
    BY PlacesAreTaken
  <2>2. IsFiniteSet(S) /\ IsFiniteSet(N) /\ \A t \in N : f[t] \in Int
    BY <1>5, <1>8
  <2>3. OneToOne(p, S, N)
    BY <2>1 DEF OneToOne
  <2>5. \A u \in S : P[u] = f[p[u]]
    BY <1>6
  <2>. HIDE DEF N, S, P
  <2>6. SumFunctionOnSet(P, S) = SumFunctionOnSet(f, N)
    BY <2>2, <2>3, <2>5, SumAlong
  <2>. QED BY <2>6 DEF N
<1>. HIDE DEF P
<1>10. SumFunctionOnSet(f, A \cup B) = SumFunctionOnSet(f, A) + SumFunctionOnSet(f, B)
  <2>1. \A t \in A \cup B : f[t] \in Int
    BY <1>5, <1>8
  <2>. HIDE DEF A, B
  <2>. QED BY <1>8, <2>1, SumUnion
<1>11. SumFunctionOnSet(f, B) = 0
  <2>1. \A t \in B : f[t] = 0
    BY <1>5, <1>8
  <2>2. Cardinality(B) \in Nat
    BY <1>8, FS_CardinalityType
  <2>. HIDE DEF B
  <2>3. SumFunctionOnSet(f, B) = 0 * Cardinality(B)
    BY <1>8, <2>1, SumConst
  <2>. QED BY <2>2, <2>3
<1>12. SumFunctionOnSet(f, A) = SumFunctionOnSet(prizes, A)
  <2>1. \A t \in A : f[t] = prizes[t]
    BY <1>5, <1>8
  <2>. HIDE DEF A
  <2>. QED BY <1>8, <2>1, SumSame
<1>13. PrizePool(o, n) \in Nat
  BY <1>1, OfferFacts
<1>14. SumFunctionOnSet(f, 1 .. n) = PrizePool(o, n)
  <2>1. SumFunctionOnSet(f, 1 .. n) = SumFunctionOnSet(f, A) + SumFunctionOnSet(f, B)
    BY <1>8, <1>10
  <2>2. SumFunctionOnSet(f, A) = PrizePool(o, n)
    BY <1>4, <1>12
  <2>. QED BY <1>11, <1>13, <2>1, <2>2
<1>15. SumFunction(P) = PrizePool(o, n)
  BY <1>7, <1>9, <1>14 DEF SumFunction
<1>16. ASSUME NEW u \in S, NEW v \in S, p[u] < p[v]
       PROVE  P[u] >= P[v]
  <2>1. p[u] \in 1 .. n /\ p[v] \in 1 .. n /\ P[u] = f[p[u]] /\ P[v] = f[p[v]]
    BY <1>6
  <2>2. P[u] \in Nat /\ P[v] \in Nat
    BY <1>6
  <2>3. CASE p[v] \in A
    <3>1. p[u] \in A
      BY <1>2, <1>16, <2>1, <2>3
    <3>2. P[u] = prizes[p[u]] /\ P[v] = prizes[p[v]]
      BY <1>5, <2>1, <2>3, <3>1
    <3>3. prizes[p[v]] <= prizes[p[u]]
      BY <1>4, <1>16, <2>1, <2>3, <3>1
    <3>. QED BY <2>2, <3>2, <3>3
  <2>4. CASE p[v] \notin A
    BY <1>5, <2>1, <2>2, <2>4
  <2>. QED BY <2>3, <2>4
<1>. QED BY <1>3, <1>7, <1>15, <1>16

LEMMA LeastExists ==
  ASSUME NEW S, S # {}, NEW rank, \A u \in S : rank[u] \in Nat
  PROVE  \E u \in S : \A v \in S : rank[u] <= rank[v]
<1>. DEFINE R == {n \in Nat : \E u \in S : rank[u] = n}
<1>1. R \in SUBSET Nat /\ R # {}
  OBVIOUS
<1>. HIDE DEF R
<1>2. PICK n \in R : \A k \in R : ~ (<<k, n>> \in OpToRel(<, Nat))
  BY <1>1, NatLessThanWellFounded, WFMin
<1>3. \A k \in R : ~ (k < n)
  BY <1>1, <1>2 DEF OpToRel
<1>4. \A k \in R : n <= k
  BY <1>1, <1>3
<1>. QED BY <1>1, <1>4 DEF R

LEMMA EqualParts ==
  ASSUME NEW pool \in Nat, NEW n \in Nat \ {0}
  PROVE  LET share == pool \div n IN
         /\ share \in Nat /\ share * (n - 1) \in Nat /\ share * (n - 1) <= pool
<1>. DEFINE share == pool \div n
<1>1. share \in Nat /\ n * share <= pool
  OBVIOUS
<1>. HIDE DEF share
<1>2. share * (n - 1) = n * share - share /\ share * (n - 1) \in Nat
  BY <1>1
<1>3. n * share \in Nat
  BY <1>1
<1>. QED BY <1>1, <1>2, <1>3 DEF share

(* A team that wins gets the whole pool, and the other nothing.            *)
LEMMA TeamsAreFair ==
  ASSUME NEW o, IsOffer(o), NEW m, IsFiniteSet(In(m)), NEW w, InTeam(m, w) # {},
         NEW p, \A u \in In(m) : p[u] \in Nat
  PROVE  /\ TeamPrizes(o, m, p, w) \in [In(m) -> Nat]
         /\ SumFunction(TeamPrizes(o, m, p, w)) = PrizePool(o, Cardinality(In(m)))
         /\ \A u \in In(m) : u \notin InTeam(m, w) => TeamPrizes(o, m, p, w)[u] = 0
<1>. DEFINE S == In(m)
            won == InTeam(m, w)
            pool == PrizePool(o, Cardinality(S))
            n == Cardinality(won)
            share == pool \div n
            first == CHOOSE u \in won : \A v \in won : p[u] <= p[v]
            P == [u \in S |-> IF u \notin won THEN 0
                              ELSE IF u = first THEN pool - share * (n - 1)
                              ELSE share]
<1>1. TeamPrizes(o, m, p, w) = P
  BY DEF TeamPrizes
<1>2. won \subseteq S
  BY DEF InTeam
<1>3. IsFiniteSet(won) /\ IsFiniteSet(S \ won) /\ IsFiniteSet(won \ {first}) /\ n \in Nat \ {0}
  BY <1>2, FS_Subset, FS_CardinalityType, FS_EmptySet
<1>4. first \in won
  <2>1. \E u \in won : \A v \in won : p[u] <= p[v]
    BY <1>2, LeastExists
  <2>. QED BY <2>1
<1>5. pool \in Nat
  BY FS_CardinalityType, OfferFacts
<1>. HIDE DEF first, pool, n
<1>6. share \in Nat /\ share * (n - 1) \in Nat /\ share * (n - 1) <= pool
  BY <1>3, <1>5, EqualParts
<1>. HIDE DEF share
<1>. DEFINE given == share * (n - 1)
            best == pool - given
<1>7. best \in Nat
  BY <1>5, <1>6
<1>8. P = [u \in S |-> IF u \notin won THEN 0 ELSE IF u = first THEN best ELSE share]
  OBVIOUS
<1>. HIDE DEF P, best, given
<1>9. /\ \A u \in S : P[u] \in Nat
      /\ \A u \in S \ won : P[u] = 0
      /\ \A u \in won \ {first} : P[u] = share
      /\ P[first] = best /\ DOMAIN P = S
  BY <1>2, <1>4, <1>6, <1>7, <1>8
<1>10. P \in [S -> Nat]
  BY <1>8, <1>9
<1>. HIDE DEF won
<1>. DEFINE Sum(X) == SumFunctionOnSet(P, X)
            lost == S \ won
<1>11. Sum(won \cup lost) = Sum(won) + Sum(lost)
  <2>1. \A u \in won \cup lost : P[u] \in Int
    BY <1>2, <1>9
  <2>2. won \cap lost = {}
    OBVIOUS
  <2>. HIDE DEF lost
  <2>. QED BY <1>3, <2>1, <2>2, SumUnion DEF lost
<1>12. Sum(lost) = 0
  <2>1. Sum(lost) = 0 * Cardinality(lost)
    BY <1>3, <1>9, SumConst
  <2>2. Cardinality(lost) \in Nat
    BY <1>3, FS_CardinalityType
  <2>. QED BY <2>1, <2>2
<1>13. Sum(won) = P[first] + Sum(won \ {first})
  <2>1. \A u \in won : P[u] \in Int
    BY <1>2, <1>9
  <2>. QED BY <1>3, <1>4, <2>1, SumRemove
<1>14. Sum(won \ {first}) = given
  <2>1. Cardinality(won \ {first}) = n - 1
    BY <1>3, <1>4, FS_RemoveElement DEF n
  <2>2. Sum(won \ {first}) = share * Cardinality(won \ {first})
    BY <1>3, <1>6, <1>9, SumConst
  <2>. QED BY <2>1, <2>2 DEF given
<1>15. S = won \cup lost
  BY <1>2
<1>16. SumFunction(P) = pool
  <2>1. given \in Nat
    BY <1>6 DEF given
  <2>2. SumFunction(P) = Sum(won \cup lost)
    BY <1>9, <1>15 DEF SumFunction
  <2>3. Sum(won) = best + given
    BY <1>9, <1>13, <1>14
  <2>4. Sum(won \cup lost) = best + given + 0
    BY <1>11, <1>12, <2>3
  <2>. HIDE DEF Sum
  <2>. QED BY <1>5, <2>1, <2>2, <2>4 DEF best
<1>. QED BY <1>1, <1>9, <1>10, <1>16 DEF pool, won

(* The final counts the whole pool, and places as the results deserve.      *)
LEMMA ResultIsFair ==
  ASSUME NEW o, IsOffer(o), NEW m, NEW ss, IsFiniteSet(In(m)), In(m) # {},
         o.teams => BothTeams(m) /\ \A u \in In(m) : m[u].team \in Teams,
         NEW rank \in Rankings(m, ss),
         \A u \in In(m) : ss[u].balance \in Nat
  PROVE  LET r == Result(o, m, ss, rank) IN
         /\ r.place \in [In(m) -> Nat] /\ r.prize \in [In(m) -> Nat]
         /\ SumFunction(r.prize) = PrizePool(o, Cardinality(In(m)))
         /\ Deserved(o, m, ss, r.place, r.prize)
<1>. DEFINE S == In(m)
            n == Cardinality(S)
            r == Result(o, m, ss, rank)
<1>1. /\ rank \in [S -> 1 .. n]
      /\ \A u, v \in S : rank[u] = rank[v] => u = v
      /\ \A u, v \in S : Better(m, ss, u, v) => rank[u] < rank[v]
  BY DEF Rankings
<1>2. n \in Nat \ {0} /\ \A u \in S : rank[u] \in Nat
  <2>1. n \in Nat \ {0}
    BY FS_CardinalityType, FS_EmptySet
  <2>2. \A k \in 1 .. n : k \in Nat
    BY <2>1
  <2>. QED BY <1>1, <2>1, <2>2
<1>3. CASE ~ o.teams
  <2>1. r.place = rank /\ r.prize = ArenaPrizes(o, m, rank)
    BY <1>3 DEF Result
  <2>2. r.place \in [S -> Nat]
    BY <1>1, <1>2, <2>1
  <2>3. /\ ArenaPrizes(o, m, rank) \in [S -> Nat]
        /\ SumFunction(ArenaPrizes(o, m, rank)) = PrizePool(o, n)
        /\ \A u, v \in S :
             rank[u] < rank[v] => ArenaPrizes(o, m, rank)[u] >= ArenaPrizes(o, m, rank)[v]
    BY <1>1, ArenaIsFair
  <2>4. \A u, v \in S : ss[u].balance > ss[v].balance => rank[u] < rank[v]
    BY <1>1 DEF Better
  <2>5. Deserved(o, m, ss, r.place, r.prize)
    BY <2>1, <2>3, <2>4 DEF Deserved
  <2>. QED BY <2>1, <2>2, <2>3, <2>5
<1>4. CASE o.teams
  <2>. DEFINE w == Winner(m, ss, rank)
              P == TeamPrizes(o, m, rank, w)
  <2>1. BothTeams(m) /\ \A u \in S : m[u].team \in Teams
    BY <1>4
  <2>2. \E u \in S : rank[u] = 1
    BY <1>1, <1>2, PlacesAreTaken
  <2>3. w \in Teams
    <3>. DEFINE u == CHOOSE v \in S : rank[v] = 1
    <3>1. u \in S
      BY <2>2
    <3>2. m[u].team \in Teams
      BY <2>1, <3>1
    <3>3. w \in {0, 1, m[u].team}
      BY DEF Winner
    <3>. QED BY <3>2, <3>3 DEF Teams
  <2>4. InTeam(m, w) # {}
    BY <2>1, <2>3 DEF BothTeams
  <2>5. r.place = [u \in S |-> IF m[u].team = w THEN 1 ELSE 2] /\ r.prize = P
    BY <1>4 DEF Result
  <2>. HIDE DEF w
  <2>6. /\ P \in [S -> Nat] /\ SumFunction(P) = PrizePool(o, n)
        /\ \A u \in S : u \notin InTeam(m, w) => P[u] = 0
    BY <1>2, <2>4, TeamsAreFair
  <2>7. r.place \in [S -> Nat]
    BY <2>5
  <2>8. ASSUME NEW u \in S, NEW v \in S, r.place[u] < r.place[v]
        PROVE  r.prize[u] >= r.prize[v]
    <3>1. m[v].team # w
      BY <2>5, <2>8
    <3>2. P[v] = 0
      BY <2>6, <3>1 DEF InTeam
    <3>. QED BY <2>5, <2>6, <3>2
  <2>9. Deserved(o, m, ss, r.place, r.prize)
    BY <1>4, <2>8 DEF Deserved
  <2>. QED BY <2>5, <2>6, <2>7, <2>9
<1>5. o.teams \in BOOLEAN
  BY DEF IsOffer
<1>. QED BY <1>3, <1>4, <1>5

-----------------------------------------------------------------------------
(* The journal.                                                            *)

(* K has no rows over those of L but of this kind.                         *)
Unless(kind, K, L) == \A r \in K.rows : r \in L.rows \/ r.kind = kind

LEMMA SumOfType ==
  ASSUME NEW rows, WholeRows(rows)
  PROVE  SumOf(rows) = SumFunctionOnSet([x \in rows |-> x.delta], rows) /\ SumOf(rows) \in Int
<1>1. SumOf(rows) = SumFunctionOnSet([x \in rows |-> x.delta], rows)
  BY DEF SumOf, SumFunction
<1>2. \A x \in rows : [y \in rows |-> y.delta][x] \in Int
  BY DEF WholeRows
<1>. QED BY <1>1, <1>2, SumType DEF WholeRows

LEMMA PartIsWhole ==
  ASSUME NEW rows, WholeRows(rows), NEW part \in SUBSET rows
  PROVE  WholeRows(part)
BY FS_Subset DEF WholeRows

(* The sum of one row, and of rows put to others.                         *)
LEMMA SumOfOne ==
  ASSUME NEW x, x.user \in Users, x.delta \in Int
  PROVE  SumOf({x}) = x.delta /\ WholeRows({x})
<1>1. WholeRows({x})
  BY FS_Singleton DEF WholeRows
<1>2. SumOf({x}) = SumFunctionOnSet([y \in {x} |-> y.delta], {x})
  BY <1>1, SumOfType
<1>. DEFINE f == [y \in {x} |-> y.delta]
<1>3. f[x] = x.delta /\ f[x] \in Int /\ \A y \in {x} \ {x} : f[y] = 0
  OBVIOUS
<1>. HIDE DEF f
<1>4. SumFunctionOnSet(f, {x}) = f[x]
  BY <1>1, <1>3, SumOnly DEF WholeRows
<1>. QED BY <1>1, <1>2, <1>3, <1>4 DEF f

LEMMA SumOfBoth ==
  ASSUME NEW X, NEW Y, WholeRows(X), WholeRows(Y), X \cap Y = {}
  PROVE  WholeRows(X \cup Y) /\ SumOf(X \cup Y) = SumOf(X) + SumOf(Y)
<1>. DEFINE f == [x \in X |-> x.delta]
            g == [x \in Y |-> x.delta]
            all == X \cup Y
            h == [x \in all |-> x.delta]
<1>1. WholeRows(all) /\ IsFiniteSet(X) /\ IsFiniteSet(Y)
  BY FS_Union DEF WholeRows
<1>2. (\A x \in X : h[x] = f[x]) /\ (\A x \in Y : h[x] = g[x]) /\ \A x \in all : h[x] \in Int
  BY <1>1 DEF WholeRows
<1>3. SumOf(all) = SumFunctionOnSet(h, all) /\ SumOf(X) = SumFunctionOnSet(f, X)
      /\ SumOf(Y) = SumFunctionOnSet(g, Y)
  BY <1>1, SumOfType
<1>. HIDE DEF f, g, h
<1>4. SumFunctionOnSet(h, X) = SumFunctionOnSet(f, X) /\ SumFunctionOnSet(h, Y) = SumFunctionOnSet(g, Y)
  BY <1>1, <1>2, SumSame
<1>5. SumFunctionOnSet(h, all) = SumFunctionOnSet(h, X) + SumFunctionOnSet(h, Y)
  BY <1>1, <1>2, SumUnion
<1>. QED BY <1>1, <1>3, <1>4, <1>5

(* What a set of new rows does to the rows of a person.                    *)
LEMMA NewRows ==
  ASSUME NEW X, NEW Y, WholeRows(X), WholeRows(Y), X \cap Y = {}
  PROVE  \A u : /\ SumOf(RowsOf(X \cup Y, u)) = SumOf(RowsOf(X, u)) + SumOf(RowsOf(Y, u))
               /\ SumOf(RowsOf(X, u)) \in Int /\ SumOf(RowsOf(Y, u)) \in Int
<1>. TAKE u
<1>. DEFINE A == RowsOf(X, u)
            B == RowsOf(Y, u)
<1>1. RowsOf(X \cup Y, u) = A \cup B /\ A \cap B = {} /\ A \subseteq X /\ B \subseteq Y
  BY DEF RowsOf
<1>2. WholeRows(A) /\ WholeRows(B)
  BY <1>1, PartIsWhole
<1>. HIDE DEF A, B
<1>3. SumOf(A \cup B) = SumOf(A) + SumOf(B)
  BY <1>1, <1>2, SumOfBoth
<1>4. SumOf(A) \in Int /\ SumOf(B) \in Int
  BY <1>2, SumOfType
<1>. QED BY <1>1, <1>3, <1>4 DEF A, B

LEMMA SumOfNone == SumOf({}) = 0
<1>1. WholeRows({})
  BY FS_EmptySet DEF WholeRows
<1>2. SumOf({}) = SumFunctionOnSet([x \in {} |-> x.delta], {})
  BY <1>1, SumOfType
<1>. QED BY <1>2, SumEmpty

(* Rows of which everybody in U has one and nobody else any.               *)
RowEach(U, rowOf, Y) ==
  /\ U \subseteq Users /\ Y = {rowOf[u] : u \in U}
  /\ \A u \in U : rowOf[u].user = u /\ rowOf[u].delta \in Int

LEMMA OneRowEach ==
  ASSUME NEW U, NEW rowOf, NEW Y, RowEach(U, rowOf, Y)
  PROVE  /\ WholeRows(Y)
         /\ \A u \in Users : SumOf(RowsOf(Y, u)) = IF u \in U THEN rowOf[u].delta ELSE 0
<1>. USE DEF RowEach
<1>. DEFINE g == [u \in U |-> rowOf[u]]
<1>1. IsFiniteSet(U)
  BY UsersAssumption, FS_Subset
<1>2. g \in Surjection(U, Y)
  BY DEF Surjection
<1>3. WholeRows(Y)
  <2>1. IsFiniteSet(Y)
    BY <1>1, <1>2, FS_Surjection
  <2>. QED BY <2>1 DEF WholeRows
<1>4. ASSUME NEW u \in Users
      PROVE  SumOf(RowsOf(Y, u)) = IF u \in U THEN rowOf[u].delta ELSE 0
  <2>1. CASE u \in U
    <3>1. RowsOf(Y, u) = {rowOf[u]}
      BY <2>1 DEF RowsOf
    <3>2. rowOf[u].user \in Users /\ rowOf[u].delta \in Int
      BY <2>1
    <3>. QED BY <2>1, <3>1, <3>2, SumOfOne
  <2>2. CASE u \notin U
    <3>1. RowsOf(Y, u) = {}
      BY <2>2 DEF RowsOf
    <3>. QED BY <2>2, <3>1, SumOfNone
  <2>. QED BY <2>1, <2>2
<1>. QED BY <1>3, <1>4

(* A charge and a refund.                                                 *)
LEMMA MoveFacts ==
  ASSUME NEW L, Book(L), NEW u \in Users, NEW d \in Int, NEW kind, NEW ref,
         Fresh(L, u, kind, ref), L.balance[u] + d >= 0
  PROVE  LET K == Move(L, u, d, kind, ref) IN
         /\ Book(K) /\ Unless(kind, K, L)
         /\ \A v \in Users : NetIn(K, v) = NetIn(L, v) - IF v = u THEN d ELSE 0
         /\ \A v \in Users : NetIn(K, v) \in Int /\ NetIn(L, v) \in Int
<1>. DEFINE x == Row(u, kind, ref, d)
            K == Move(L, u, d, kind, ref)
<1>1. x.user = u /\ x.kind = kind /\ x.ref = ref /\ x.delta = d
  BY DEF Row
<1>2. x \notin L.rows
  BY <1>1 DEF Fresh
<1>3. K.balance = [L.balance EXCEPT ![u] = @ + d] /\ K.rows = L.rows \cup {x}
      /\ K = [balance |-> K.balance, rows |-> K.rows]
  BY DEF Move
<1>. HIDE DEF x, K
<1>4. WholeRows({x}) /\ SumOf({x}) = d
  BY <1>1, SumOfOne
<1>5. WholeRows(L.rows) /\ L.rows \cap {x} = {}
  BY <1>2 DEF Book
<1>6. ASSUME NEW v \in Users
      PROVE  /\ NetIn(K, v) = NetIn(L, v) - IF v = u THEN d ELSE 0
             /\ NetIn(K, v) \in Int /\ NetIn(L, v) \in Int
  <2>1. RowsOf({x}, v) = IF v = u THEN {x} ELSE {}
    BY <1>1 DEF RowsOf
  <2>2. SumOf(RowsOf({x}, v)) = IF v = u THEN d ELSE 0
    BY <1>4, <2>1, SumOfNone
  <2>3. /\ SumOf(RowsOf(L.rows \cup {x}, v)) = SumOf(RowsOf(L.rows, v)) + SumOf(RowsOf({x}, v))
        /\ SumOf(RowsOf(L.rows, v)) \in Int
    <3>. DEFINE X == L.rows
                Y == {x}
    <3>1. WholeRows(X) /\ WholeRows(Y)
      BY <1>4, <1>5
    <3>2. X \cap Y = {}
      BY <1>5
    <3>. HIDE DEF X, Y
    <3>3. \A w : /\ SumOf(RowsOf(X \cup Y, w)) = SumOf(RowsOf(X, w)) + SumOf(RowsOf(Y, w))
                /\ SumOf(RowsOf(X, w)) \in Int /\ SumOf(RowsOf(Y, w)) \in Int
      BY <3>1, <3>2, NewRows
    <3>. QED BY <3>3 DEF X, Y
  <2>. QED BY <1>3, <2>2, <2>3 DEF NetIn
<1>7. Book(K)
  <2>1. WholeRows(K.rows)
    BY <1>3, <1>4, <1>5, SumOfBoth
  <2>2. K.balance \in [Users -> Nat]
    BY <1>3 DEF Book
  <2>. QED BY <1>3, <2>1, <2>2 DEF Book
<1>8. Unless(kind, K, L)
  BY <1>1, <1>3 DEF Unless
<1>. QED BY <1>6, <1>7, <1>8 DEF K

LEMMA NetType ==
  ASSUME NEW L, Book(L), NEW v \in Users
  PROVE  NetIn(L, v) \in Int
<1>1. WholeRows(L.rows) /\ RowsOf(L.rows, v) \subseteq L.rows
  BY DEF Book, RowsOf
<1>2. SumOf(RowsOf(L.rows, v)) \in Int
  BY <1>1, PartIsWhole, SumOfType
<1>. QED BY <1>2 DEF NetIn

LEMMA ChargeFacts ==
  ASSUME NEW L, Book(L), NEW u \in Users, NEW n \in Nat, NEW kind, NEW ref,
         CanCharge(L, u, n, kind, ref)
  PROVE  LET K == Charge(L, u, n, kind, ref) IN
         /\ Book(K) /\ Unless(kind, K, L)
         /\ \A v \in Users : NetIn(K, v) = NetIn(L, v) + IF v = u THEN n ELSE 0
<1>1. CASE n = 0
  <2>1. Charge(L, u, n, kind, ref) = L
    BY <1>1 DEF Charge
  <2>. QED BY <1>1, <2>1, NetType DEF Unless
<1>2. CASE n > 0
  <2>. DEFINE K == Move(L, u, - n, kind, ref)
  <2>1. Charge(L, u, n, kind, ref) = K
    BY <1>2 DEF Charge
  <2>0. Fresh(L, u, kind, ref) /\ L.balance[u] >= n /\ L.balance[u] \in Nat
    BY <1>2 DEF CanCharge, Book
  <2>2. Fresh(L, u, kind, ref) /\ L.balance[u] + (- n) >= 0 /\ - n \in Int
    BY <2>0
  <2>3. /\ Book(K) /\ Unless(kind, K, L)
        /\ \A v \in Users : NetIn(K, v) = NetIn(L, v) - IF v = u THEN - n ELSE 0
        /\ \A v \in Users : NetIn(K, v) \in Int /\ NetIn(L, v) \in Int
    BY <2>2, MoveFacts
  <2>. HIDE DEF K
  <2>. QED BY <2>1, <2>3
<1>. QED BY <1>1, <1>2

LEMMA RefundFacts ==
  ASSUME NEW L, Book(L), NEW u \in Users, NEW n \in Nat, NEW ref, CanRefund(L, u, n, ref)
  PROVE  LET K == Refund(L, u, n, ref) IN
         /\ Book(K) /\ Unless("TOURNAMENT_REFUND", K, L)
         /\ \A v \in Users : NetIn(K, v) = NetIn(L, v) - IF v = u THEN n ELSE 0
<1>1. CASE n = 0
  <2>1. Refund(L, u, n, ref) = L
    BY <1>1 DEF Refund, Credit
  <2>. QED BY <1>1, <2>1, NetType DEF Unless
<1>2. CASE n > 0
  <2>. DEFINE K == Move(L, u, n, "TOURNAMENT_REFUND", ref)
  <2>1. Refund(L, u, n, ref) = K
    BY <1>2 DEF Refund, Credit
  <2>2. Fresh(L, u, "TOURNAMENT_REFUND", ref) /\ L.balance[u] \in Nat
    BY <1>2 DEF CanRefund, CanCredit, Book
  <2>3. /\ Book(K) /\ Unless("TOURNAMENT_REFUND", K, L)
        /\ \A v \in Users : NetIn(K, v) = NetIn(L, v) - IF v = u THEN n ELSE 0
    BY <2>2, MoveFacts
  <2>. QED BY <2>1, <2>3
<1>. QED BY <1>1, <1>2

(* Rows put to a book at once, under keys that are free, with what the      *)
(* balances get.                                                          *)
Posted(K, L, U, amount, kind, ref) ==
  K = [balance |-> [u \in Users |-> L.balance[u] + IF u \in U THEN amount[u] ELSE 0],
       rows |-> L.rows \cup {Row(u, kind, ref[u], amount[u]) : u \in U}]

LEMMA ManyRows ==
  ASSUME NEW L, Book(L), NEW U, U \subseteq Users, NEW amount, NEW kind, NEW ref,
         \A u \in U : amount[u] \in Nat /\ Fresh(L, u, kind, ref[u]),
         NEW K, Posted(K, L, U, amount, kind, ref)
  PROVE  /\ Book(K) /\ Unless(kind, K, L)
         /\ \A v \in Users : NetIn(K, v) = NetIn(L, v) - IF v \in U THEN amount[v] ELSE 0
<1>. DEFINE rowOf == [u \in U |-> Row(u, kind, ref[u], amount[u])]
            Y == {rowOf[u] : u \in U}
            X == L.rows
<1>1. \A u \in U : /\ rowOf[u].user = u /\ rowOf[u].kind = kind
                   /\ rowOf[u].ref = ref[u] /\ rowOf[u].delta = amount[u] /\ amount[u] \in Int
  BY DEF Row
<1>2. Y = {Row(u, kind, ref[u], amount[u]) : u \in U}
  OBVIOUS
<1>. HIDE DEF rowOf
<1>3. WholeRows(X)
  BY DEF Book
<1>4. /\ WholeRows(Y)
      /\ \A u \in Users : SumOf(RowsOf(Y, u)) = IF u \in U THEN rowOf[u].delta ELSE 0
  <2>1. RowEach(U, rowOf, Y)
    BY <1>1 DEF RowEach
  <2>. HIDE DEF Y
  <2>. QED BY <2>1, OneRowEach
<1>5. X \cap Y = {}
  BY <1>1 DEF Fresh
<1>6. /\ K.rows = X \cup Y /\ K = [balance |-> K.balance, rows |-> K.rows]
      /\ K.balance = [u \in Users |-> L.balance[u] + IF u \in U THEN amount[u] ELSE 0]
  BY <1>2 DEF Posted
<1>7. K.balance \in [Users -> Nat]
  <2>1. \A u \in Users : L.balance[u] \in Nat /\ (u \in U => amount[u] \in Nat)
    BY DEF Book
  <2>2. \A u \in Users : L.balance[u] + (IF u \in U THEN amount[u] ELSE 0) \in Nat
    BY <2>1
  <2>. QED BY <1>6, <2>2
<1>8. Unless(kind, K, L)
  BY <1>1, <1>6 DEF Unless
<1>. HIDE DEF X, Y
<1>9. WholeRows(X \cup Y)
  BY <1>3, <1>4, <1>5, SumOfBoth
<1>10. \A w : /\ SumOf(RowsOf(X \cup Y, w)) = SumOf(RowsOf(X, w)) + SumOf(RowsOf(Y, w))
              /\ SumOf(RowsOf(X, w)) \in Int /\ SumOf(RowsOf(Y, w)) \in Int
  BY <1>3, <1>4, <1>5, NewRows
<1>11. Book(K)
  BY <1>6, <1>7, <1>9 DEF Book
<1>12. ASSUME NEW v \in Users
       PROVE  NetIn(K, v) = NetIn(L, v) - IF v \in U THEN amount[v] ELSE 0
  <2>1. SumOf(RowsOf(Y, v)) = IF v \in U THEN amount[v] ELSE 0
    BY <1>1, <1>4
  <2>2. SumOf(RowsOf(K.rows, v)) = SumOf(RowsOf(X, v)) + SumOf(RowsOf(Y, v))
        /\ SumOf(RowsOf(X, v)) \in Int /\ SumOf(RowsOf(Y, v)) \in Int
    BY <1>6, <1>10
  <2>3. NetIn(K, v) = - SumOf(RowsOf(K.rows, v)) /\ NetIn(L, v) = - SumOf(RowsOf(X, v))
    BY DEF NetIn, X
  <2>. QED BY <2>1, <2>2, <2>3
<1>. QED BY <1>8, <1>11, <1>12

(* A lobby gives back the fees, and the top-up.                           *)
LEMMA RefundFeesFacts ==
  ASSUME NEW L, Book(L), NEW s, s.row.offer.fee \in Nat,
         \A u \in In(s.member) : CanRefund(L, u, s.row.offer.fee, FeeRef(s.member[u].at))
  PROVE  LET K == RefundFees(L, s) IN
         /\ Book(K) /\ Unless("TOURNAMENT_REFUND", K, L)
         /\ \A v \in Users :
              NetIn(K, v) = NetIn(L, v) - IF s.member[v].in THEN s.row.offer.fee ELSE 0
<1>. DEFINE fee == s.row.offer.fee
            U == In(s.member)
            K == RefundFees(L, s)
            amount == [u \in Users |-> fee]
            ref == [u \in Users |-> FeeRef(s.member[u].at)]
<1>1. U \in SUBSET Users /\ \A u \in Users : u \in U <=> s.member[u].in
  BY DEF In
<1>2. CASE fee = 0
  <2>1. K.rows = L.rows /\ K = [balance |-> K.balance, rows |-> K.rows]
    BY <1>2 DEF RefundFees
  <2>2. K.balance = [u \in Users |-> L.balance[u] + IF s.member[u].in THEN 0 ELSE 0]
    BY <1>2 DEF RefundFees
  <2>3. K.balance \in [Users -> Nat]
    BY <2>2 DEF Book
  <2>. HIDE DEF K
  <2>4. Book(K) /\ Unless("TOURNAMENT_REFUND", K, L)
    BY <2>1, <2>3 DEF Book, Unless
  <2>5. \A v \in Users : NetIn(K, v) = NetIn(L, v) /\ NetIn(L, v) \in Int
    BY <2>1, NetType DEF NetIn
  <2>. QED BY <1>2, <2>4, <2>5 DEF K
<1>3. CASE fee # 0
  <2>1. \A u \in U : amount[u] \in Nat /\ Fresh(L, u, "TOURNAMENT_REFUND", ref[u])
    BY <1>1, <1>3 DEF CanRefund, CanCredit
  <2>2. Posted(K, L, U, amount, "TOURNAMENT_REFUND", ref)
    <3>1. K.balance = [u \in Users |-> L.balance[u] + IF u \in U THEN amount[u] ELSE 0]
      BY <1>1 DEF RefundFees
    <3>2. {Row(u, "TOURNAMENT_REFUND", FeeRef(s.member[u].at), fee) : u \in U}
            = {Row(u, "TOURNAMENT_REFUND", ref[u], amount[u]) : u \in U}
      BY <1>1
    <3>3. K.rows = L.rows \cup {Row(u, "TOURNAMENT_REFUND", FeeRef(s.member[u].at), fee) : u \in U}
      BY <1>3 DEF RefundFees
    <3>4. K = [balance |-> K.balance, rows |-> K.rows]
      BY DEF RefundFees
    <3>. HIDE DEF K, U, ref, amount
    <3>. QED BY <3>1, <3>2, <3>3, <3>4 DEF Posted
  <2>. HIDE DEF K, U, ref, amount
  <2>3. /\ Book(K) /\ Unless("TOURNAMENT_REFUND", K, L)
        /\ \A v \in Users : NetIn(K, v) = NetIn(L, v) - IF v \in U THEN amount[v] ELSE 0
    BY <1>1, <2>1, <2>2, ManyRows
  <2>. QED BY <1>1, <2>3 DEF K, amount
<1>. QED BY <1>2, <1>3

LEMMA RefundLobbyFacts ==
  ASSUME NEW L, Book(L), NEW s, s.row.offer.fee \in Nat, s.row.offer.bonus \in Nat,
         s.row.creator \in Users, CanRefundLobby(L, s)
  PROVE  LET K == RefundLobby(L, s) IN
         /\ Book(K) /\ Unless("TOURNAMENT_REFUND", K, L)
         /\ \A v \in Users :
              NetIn(K, v) = NetIn(L, v) - (IF s.member[v].in THEN s.row.offer.fee ELSE 0)
                                        - (IF v = s.row.creator THEN s.row.offer.bonus ELSE 0)
<1>. DEFINE F == RefundFees(L, s)
            K == Refund(F, s.row.creator, s.row.offer.bonus, BonusRef)
<1>1. \A u \in In(s.member) : CanRefund(L, u, s.row.offer.fee, FeeRef(s.member[u].at))
  BY DEF CanRefundLobby
<1>2. /\ Book(F) /\ Unless("TOURNAMENT_REFUND", F, L)
      /\ \A v \in Users : NetIn(F, v) = NetIn(L, v) - IF s.member[v].in THEN s.row.offer.fee ELSE 0
  BY <1>1, RefundFeesFacts
<1>3. CanRefund(F, s.row.creator, s.row.offer.bonus, BonusRef)
  BY DEF CanRefundLobby
<1>. HIDE DEF F
<1>4. /\ Book(K) /\ Unless("TOURNAMENT_REFUND", K, F)
      /\ \A v \in Users : NetIn(K, v) = NetIn(F, v) - IF v = s.row.creator THEN s.row.offer.bonus ELSE 0
  BY <1>2, <1>3, RefundFacts
<1>5. RefundLobby(L, s) = K
  BY DEF RefundLobby, F
<1>. HIDE DEF K
<1>6. Unless("TOURNAMENT_REFUND", K, L)
  BY <1>2, <1>4 DEF Unless
<1>. QED BY <1>2, <1>4, <1>5, <1>6

(* The prizes.                                                            *)
LEMMA PrizesFacts ==
  ASSUME NEW L, Book(L), NEW U \in SUBSET Users, NEW prize \in [U -> Nat],
         \A r \in L.rows : r.kind # "TOURNAMENT_PRIZE"
  PROVE  LET K == PayPrizes(L, prize) IN
         /\ Book(K)
         /\ \A v \in Users : NetIn(K, v) = NetIn(L, v) - IF v \in U THEN prize[v] ELSE 0
<1>. DEFINE W == {u \in U : prize[u] > 0}
            K == PayPrizes(L, prize)
            ref == [u \in W |-> TournamentRef]
<1>1. W \in SUBSET Users /\ \A u \in W : prize[u] \in Nat /\ Fresh(L, u, "TOURNAMENT_PRIZE", ref[u])
  BY DEF Fresh
<1>2. Posted(K, L, W, prize, "TOURNAMENT_PRIZE", ref)
  <2>1. DOMAIN prize = U
    OBVIOUS
  <2>2. \A u \in Users : (IF u \in U THEN prize[u] ELSE 0) = (IF u \in W THEN prize[u] ELSE 0)
    OBVIOUS
  <2>3. K.balance = [u \in Users |-> L.balance[u] + IF u \in W THEN prize[u] ELSE 0]
    <3>1. K.balance = [u \in Users |-> L.balance[u] + IF u \in U THEN prize[u] ELSE 0]
      BY <2>1 DEF PayPrizes
    <3>. HIDE DEF W, K
    <3>. QED BY <2>2, <3>1
  <2>4. PrizeRows(prize) = {Row(u, "TOURNAMENT_PRIZE", ref[u], prize[u]) : u \in W}
    BY <2>1 DEF PrizeRows
  <2>5. K.rows = L.rows \cup PrizeRows(prize) /\ K = [balance |-> K.balance, rows |-> K.rows]
    BY DEF PayPrizes
  <2>. HIDE DEF K, W, ref
  <2>. QED BY <2>3, <2>4, <2>5 DEF Posted
<1>. HIDE DEF K, ref
<1>3. \A v \in Users : (IF v \in W THEN prize[v] ELSE 0) = (IF v \in U THEN prize[v] ELSE 0)
  OBVIOUS
<1>. HIDE DEF W
<1>4. /\ Book(K)
      /\ \A v \in Users : NetIn(K, v) = NetIn(L, v) - IF v \in W THEN prize[v] ELSE 0
  BY <1>1, <1>2, ManyRows
<1>. QED BY <1>3, <1>4 DEF K

-----------------------------------------------------------------------------
(* The people of a tournament.                                             *)

LEMMA InFacts ==
  ASSUME NEW m
  PROVE  /\ In(m) \subseteq Users /\ IsFiniteSet(In(m)) /\ Cardinality(In(m)) \in Nat
         /\ \A u \in Users : u \in In(m) <=> m[u].in
         /\ \A k : /\ InTeam(m, k) \subseteq In(m) /\ IsFiniteSet(InTeam(m, k))
                   /\ Cardinality(InTeam(m, k)) \in Nat
                   /\ \A u \in In(m) : u \in InTeam(m, k) <=> m[u].team = k
<1>1. In(m) \subseteq Users /\ \A u \in Users : u \in In(m) <=> m[u].in
  BY DEF In
<1>2. IsFiniteSet(In(m)) /\ Cardinality(In(m)) \in Nat
  BY <1>1, UsersAssumption, FS_Subset, FS_CardinalityType
<1>3. ASSUME NEW k
      PROVE  /\ InTeam(m, k) \subseteq In(m) /\ IsFiniteSet(InTeam(m, k))
             /\ Cardinality(InTeam(m, k)) \in Nat
             /\ \A u \in In(m) : u \in InTeam(m, k) <=> m[u].team = k
  <2>1. InTeam(m, k) \subseteq In(m) /\ \A u \in In(m) : u \in InTeam(m, k) <=> m[u].team = k
    BY DEF InTeam
  <2>. QED BY <1>2, <2>1, FS_Subset, FS_CardinalityType
<1>. QED BY <1>1, <1>2, <1>3

(* Places that were enough are enough for fewer, in the same teams.         *)
LEMMA FewerFit ==
  ASSUME NEW o, IsOffer(o), NEW m, Fits(o, m), NEW n, In(n) \subseteq In(m),
         \A u \in In(n) : n[u].team = m[u].team
  PROVE  Fits(o, n)
<1>1. \A k : InTeam(n, k) \subseteq InTeam(m, k)
  BY DEF InTeam
<1>2. Cardinality(In(n)) <= Cardinality(In(m))
  BY InFacts, FS_Subset
<1>3. ASSUME NEW k PROVE Cardinality(InTeam(n, k)) <= Cardinality(InTeam(m, k))
  <2>1. IsFiniteSet(InTeam(m, k)) /\ InTeam(n, k) \subseteq InTeam(m, k)
    BY <1>1, InFacts
  <2>. QED BY <2>1, FS_Subset
<1>4. Cardinality(In(n)) <= o.max
  <2>1. Cardinality(In(n)) \in Nat /\ Cardinality(In(m)) \in Nat
    BY InFacts
  <2>2. o.max \in Nat /\ Cardinality(In(m)) <= o.max
    BY OfferFacts DEF Fits
  <2>. QED BY <1>2, <2>1, <2>2
<1>5. ASSUME o.teams
      PROVE  /\ \A u \in In(n) : n[u].team \in Teams
             /\ \A k \in Teams : Cardinality(InTeam(n, k)) <= o.size
  <2>1. \A u \in In(n) : n[u].team \in Teams
    BY <1>5 DEF Fits
  <2>2. ASSUME NEW k \in Teams PROVE Cardinality(InTeam(n, k)) <= o.size
    <3>1. Cardinality(InTeam(m, k)) <= o.size
      BY <1>5 DEF Fits
    <3>2. Cardinality(InTeam(n, k)) \in Nat /\ Cardinality(InTeam(m, k)) \in Nat /\ o.size \in Nat
      BY InFacts, OfferFacts
    <3>. QED BY <1>3, <3>1, <3>2
  <2>. QED BY <2>1, <2>2
<1>. QED BY <1>4, <1>5 DEF Fits

(* One more, if there was room.                                           *)
LEMMA OneMoreFits ==
  ASSUME NEW o, IsOffer(o), NEW m, Fits(o, m), NEW n, NEW u \in Users, ~ m[u].in,
         n[u].in, \A v \in Users \ {u} : n[v] = m[v],
         Cardinality(In(m)) < o.max,
         o.teams => n[u].team \in Teams /\ Cardinality(InTeam(m, n[u].team)) < o.size
  PROVE  Fits(o, n)
<1>1. In(n) = In(m) \cup {u} /\ u \notin In(m)
  BY DEF In
<1>0. IsFiniteSet(In(m)) /\ Cardinality(In(m)) \in Nat
  BY InFacts
<1>2. Cardinality(In(n)) = Cardinality(In(m)) + 1
  BY <1>0, <1>1, FS_AddElement
<1>3. Cardinality(In(n)) <= o.max
  <2>1. o.max \in Nat
    BY OfferFacts
  <2>. QED BY <1>0, <1>2, <2>1
<1>4. ASSUME o.teams
      PROVE  /\ \A v \in In(n) : n[v].team \in Teams
             /\ \A k \in Teams : Cardinality(InTeam(n, k)) <= o.size
  <2>1. \A v \in In(m) : n[v] = m[v]
    BY <1>1, InFacts
  <2>2. \A v \in In(n) : n[v].team \in Teams
    BY <1>1, <1>4, <2>1 DEF Fits
  <2>3. ASSUME NEW k \in Teams PROVE Cardinality(InTeam(n, k)) <= o.size
    <3>0. IsFiniteSet(InTeam(m, k)) /\ Cardinality(InTeam(m, k)) \in Nat /\ o.size \in Nat
      BY InFacts, OfferFacts
    <3>1. CASE k = n[u].team
      <4>1. InTeam(n, k) = InTeam(m, k) \cup {u} /\ u \notin InTeam(m, k)
        BY <1>1, <2>1, <3>1 DEF InTeam
      <4>2. Cardinality(InTeam(n, k)) = Cardinality(InTeam(m, k)) + 1
        BY <3>0, <4>1, FS_AddElement
      <4>. QED BY <1>4, <3>0, <3>1, <4>2
    <3>2. CASE k # n[u].team
      <4>1. InTeam(n, k) = InTeam(m, k)
        BY <1>1, <2>1, <3>2 DEF InTeam
      <4>. QED BY <1>4, <4>1 DEF Fits
    <3>. QED BY <3>1, <3>2
  <2>. QED BY <2>2, <2>3
<1>. QED BY <1>3, <1>4 DEF Fits

(* One moved to the other team, if there was room.                        *)
LEMMA MovedFits ==
  ASSUME NEW o, IsOffer(o), NEW m, Fits(o, m), NEW n, NEW u \in Users,
         m[u].in, n[u].in, \A v \in Users \ {u} : n[v] = m[v],
         n[u].team \in Teams, Cardinality(InTeam(m, n[u].team)) < o.size, n[u].team # m[u].team
  PROVE  Fits(o, n)
<1>1. In(n) = In(m) /\ u \in In(m)
  BY DEF In
<1>2. \A v \in In(m) \ {u} : n[v] = m[v]
  BY InFacts
<1>3. ASSUME o.teams
      PROVE  /\ \A v \in In(n) : n[v].team \in Teams
             /\ \A k \in Teams : Cardinality(InTeam(n, k)) <= o.size
  <2>1. \A v \in In(n) : n[v].team \in Teams
    BY <1>1, <1>2, <1>3 DEF Fits
  <2>2. ASSUME NEW k \in Teams PROVE Cardinality(InTeam(n, k)) <= o.size
    <3>0. /\ IsFiniteSet(InTeam(m, k)) /\ Cardinality(InTeam(m, k)) \in Nat /\ o.size \in Nat
          /\ Cardinality(InTeam(n, k)) \in Nat
      BY InFacts, OfferFacts
    <3>1. CASE k = n[u].team
      <4>1. InTeam(n, k) = InTeam(m, k) \cup {u} /\ u \notin InTeam(m, k)
        BY <1>1, <1>2, <3>1 DEF InTeam
      <4>2. Cardinality(InTeam(n, k)) = Cardinality(InTeam(m, k)) + 1
        BY <3>0, <4>1, FS_AddElement
      <4>. QED BY <3>0, <3>1, <4>2
    <3>2. CASE k # n[u].team
      <4>1. InTeam(n, k) \subseteq InTeam(m, k)
        BY <1>1, <1>2, <3>2 DEF InTeam
      <4>2. Cardinality(InTeam(n, k)) <= Cardinality(InTeam(m, k))
        BY <3>0, <4>1, FS_Subset
      <4>3. Cardinality(InTeam(m, k)) <= o.size
        BY <1>3 DEF Fits
      <4>. QED BY <3>0, <4>2, <4>3
    <3>. QED BY <3>1, <3>2
  <2>. QED BY <2>1, <2>2
<1>. QED BY <1>1, <1>3 DEF Fits

-----------------------------------------------------------------------------
(* What each operation does to the tables.                                  *)

LEMMA OfferOfRow ==
  ASSUME NEW r, NEW m, NEW ss, NEW L, Shapes(r, m, ss, L), r.status # "none"
  PROVE  /\ IsOffer(r.offer) /\ r.creator \in Users
         /\ r.offer.fee \in Nat /\ r.offer.bonus \in Nat
<1>1. r.offer \in Offers /\ r.creator \in Users
  BY DEF Shapes
<1>2. IsOffer(r.offer)
  BY <1>1, TournamentsAssumption
<1>. QED BY <1>1, <1>2, OfferFacts

(* A row of a participant written.                                        *)
LEMMA RowWritten ==
  ASSUME NEW r, NEW m, NEW ss, NEW L, Shapes(r, m, ss, L), NEW u \in Users,
         NEW x \in Members, x.in \/ x = NotIn, NEW K, Book(K)
  PROVE  LET n == [m EXCEPT ![u] = x] IN
         /\ Shapes(r, n, ss, K) /\ n[u] = x /\ \A v \in Users \ {u} : n[v] = m[v]
<1>. DEFINE n == [m EXCEPT ![u] = x]
<1>1. m \in [Users -> Members]
  BY DEF Shapes
<1>2. n \in [Users -> Members] /\ n[u] = x /\ \A v \in Users \ {u} : n[v] = m[v]
  BY <1>1
<1>. HIDE DEF n
<1>3. \A v \in Users : ~ n[v].in => n[v] = NotIn
  BY <1>2 DEF Shapes
<1>4. Shapes(r, n, ss, K)
  BY <1>2, <1>3 DEF Shapes
<1>. QED BY <1>2, <1>4 DEF n

LEMMA Joining ==
  ASSUME NEW r, NEW m, NEW ss, NEW L, Fine(r, m, ss, L), r.status = "lobby",
         NEW u \in Users, ~ m[u].in, NEW x \in Members, x.in,
         Cardinality(In(m)) < r.offer.max,
         r.offer.teams => x.team \in Teams /\ Cardinality(InTeam(m, x.team)) < r.offer.size,
         NEW ref, CanCharge(L, u, r.offer.fee, "TOURNAMENT_FEE", ref)
  PROVE  Fine(r, [m EXCEPT ![u] = x], ss, Charge(L, u, r.offer.fee, "TOURNAMENT_FEE", ref))
<1>. DEFINE n == [m EXCEPT ![u] = x]
            fee == r.offer.fee
            K == Charge(L, u, fee, "TOURNAMENT_FEE", ref)
<1>1. Shapes(r, m, ss, L) /\ Gathered(r, m, L) /\ NoSessions(ss)
  BY DEF Fine
<1>2. IsOffer(r.offer) /\ r.creator \in Users /\ fee \in Nat /\ r.offer.bonus \in Nat
  BY <1>1, OfferOfRow
<1>3. Book(L)
  BY <1>1 DEF Shapes
<1>4. /\ Book(K) /\ Unless("TOURNAMENT_FEE", K, L)
      /\ \A v \in Users : NetIn(K, v) = NetIn(L, v) + IF v = u THEN fee ELSE 0
  BY <1>2, <1>3, ChargeFacts
<1>. HIDE DEF K, fee
<1>5. Shapes(r, n, ss, K) /\ n[u] = x /\ \A v \in Users \ {u} : n[v] = m[v]
  BY <1>1, <1>4, RowWritten
<1>. HIDE DEF n
<1>6. Fits(r.offer, n)
  <2>1. Fits(r.offer, m)
    BY <1>1 DEF Gathered
  <2>. QED BY <1>2, <1>5, <2>1, OneMoreFits
<1>7. \A v \in Users : NetIn(K, v) = StakeIn(r, n, v)
  <2>1. \A v \in Users : NetIn(L, v) = StakeIn(r, m, v)
    BY <1>1 DEF Gathered
  <2>2. \A v \in Users : StakeIn(r, n, v) = StakeIn(r, m, v) + IF v = u THEN fee ELSE 0
    BY <1>2, <1>5 DEF StakeIn, fee
  <2>. QED BY <1>4, <2>1, <2>2
<1>8. NoPrize(K)
  BY <1>1, <1>4 DEF Gathered, NoPrize, Unless
<1>9. n[r.creator].in
  BY <1>1, <1>2, <1>5 DEF Gathered
<1>10. Gathered(r, n, K)
  BY <1>6, <1>7, <1>8, <1>9 DEF Gathered
<1>11. Fine(r, n, ss, K)
  BY <1>1, <1>5, <1>10 DEF Fine
<1>. QED BY <1>11 DEF n, K, fee

LEMMA Leaving ==
  ASSUME NEW r, NEW m, NEW ss, NEW L, Fine(r, m, ss, L), r.status = "lobby",
         NEW u \in Users, m[u].in, u # r.creator,
         NEW ref, CanRefund(L, u, r.offer.fee, ref)
  PROVE  Fine(r, [m EXCEPT ![u] = NotIn], ss, Refund(L, u, r.offer.fee, ref))
<1>. DEFINE n == [m EXCEPT ![u] = NotIn]
            fee == r.offer.fee
            K == Refund(L, u, fee, ref)
<1>1. Shapes(r, m, ss, L) /\ Gathered(r, m, L) /\ NoSessions(ss)
  BY DEF Fine
<1>2. IsOffer(r.offer) /\ r.creator \in Users /\ fee \in Nat /\ r.offer.bonus \in Nat
  BY <1>1, OfferOfRow
<1>3. Book(L)
  BY <1>1 DEF Shapes
<1>4. /\ Book(K) /\ Unless("TOURNAMENT_REFUND", K, L)
      /\ \A v \in Users : NetIn(K, v) = NetIn(L, v) - IF v = u THEN fee ELSE 0
  BY <1>2, <1>3, RefundFacts
<1>. HIDE DEF K, fee
<1>0. NotIn \in Members /\ ~ NotIn.in
  BY TournamentsAssumption DEF NotIn, Members
<1>5. Shapes(r, n, ss, K) /\ n[u] = NotIn /\ \A v \in Users \ {u} : n[v] = m[v]
  BY <1>0, <1>1, <1>4, RowWritten
<1>. HIDE DEF n
<1>6. Fits(r.offer, n)
  <2>1. Fits(r.offer, m)
    BY <1>1 DEF Gathered
  <2>2. In(n) \subseteq In(m) /\ \A v \in In(n) : n[v].team = m[v].team
    BY <1>0, <1>5 DEF In
  <2>. QED BY <1>2, <2>1, <2>2, FewerFit
<1>7. \A v \in Users : NetIn(K, v) = StakeIn(r, n, v)
  <2>1. \A v \in Users : NetIn(L, v) = StakeIn(r, m, v)
    BY <1>1 DEF Gathered
  <2>2. \A v \in Users : StakeIn(r, m, v) = StakeIn(r, n, v) + IF v = u THEN fee ELSE 0
    BY <1>0, <1>2, <1>5 DEF StakeIn, fee
  <2>3. \A v \in Users : StakeIn(r, n, v) \in Int
    BY <1>2 DEF StakeIn, fee
  <2>. QED BY <1>2, <1>4, <2>1, <2>2, <2>3
<1>8. NoPrize(K)
  BY <1>1, <1>4 DEF Gathered, NoPrize, Unless
<1>9. n[r.creator].in
  BY <1>1, <1>2, <1>5 DEF Gathered
<1>10. Gathered(r, n, K)
  BY <1>6, <1>7, <1>8, <1>9 DEF Gathered
<1>11. Fine(r, n, ss, K)
  BY <1>1, <1>5, <1>10 DEF Fine
<1>. QED BY <1>11 DEF n, K, fee

(* Somebody who is in moves to the other team, or says whether he is ready. *)
LEMMA Changing ==
  ASSUME NEW r, NEW m, NEW ss, NEW L, Fine(r, m, ss, L), r.status = "lobby",
         NEW u \in Users, m[u].in, NEW x \in Members, x.in,
         Fits(r.offer, [m EXCEPT ![u] = x])
  PROVE  Fine(r, [m EXCEPT ![u] = x], ss, L)
<1>. DEFINE n == [m EXCEPT ![u] = x]
<1>1. Shapes(r, m, ss, L) /\ Gathered(r, m, L) /\ NoSessions(ss)
  BY DEF Fine
<1>2. r.creator \in Users /\ Book(L)
  BY <1>1, OfferOfRow DEF Shapes
<1>3. Shapes(r, n, ss, L) /\ n[u] = x /\ \A v \in Users \ {u} : n[v] = m[v]
  BY <1>1, <1>2, RowWritten
<1>. HIDE DEF n
<1>4. \A v \in Users : n[v].in <=> m[v].in
  BY <1>3
<1>5. Gathered(r, n, L)
  <2>1. \A v \in Users : StakeIn(r, n, v) = StakeIn(r, m, v)
    BY <1>4 DEF StakeIn
  <2>2. Fits(r.offer, n)
    BY DEF n
  <2>. QED BY <1>1, <1>2, <1>4, <2>1, <2>2 DEF Gathered
<1>6. Fine(r, n, ss, L)
  BY <1>1, <1>3, <1>5 DEF Fine
<1>. QED BY <1>6 DEF n

(* A new tournament: the creator is in it, and has paid.                   *)
LEMMA Opening ==
  ASSUME NEW r, NEW m, NEW ss, NEW L, Fine(r, m, ss, L), r.status = "none",
         NEW q \in Rows, q.status = "lobby", q.offer \in Offers, NEW u \in Users, q.creator = u,
         NEW x \in Members, x.in, q.offer.teams => x.team \in Teams,
         NEW ref, NEW bonusRef,
         CanCharge(L, u, q.offer.fee, "TOURNAMENT_FEE", ref),
         CanCharge(Charge(L, u, q.offer.fee, "TOURNAMENT_FEE", ref), u, q.offer.bonus,
                   "TOURNAMENT_BONUS", bonusRef)
  PROVE  Fine(q, [m EXCEPT ![u] = x], ss,
              Charge(Charge(L, u, q.offer.fee, "TOURNAMENT_FEE", ref), u, q.offer.bonus,
                     "TOURNAMENT_BONUS", bonusRef))
<1>. DEFINE n == [m EXCEPT ![u] = x]
            fee == q.offer.fee
            bonus == q.offer.bonus
            P == Charge(L, u, fee, "TOURNAMENT_FEE", ref)
            K == Charge(P, u, bonus, "TOURNAMENT_BONUS", bonusRef)
<1>1. Shapes(r, m, ss, L) /\ In(m) = {} /\ NoSessions(ss) /\ L.rows = {}
  BY DEF Fine
<1>2. IsOffer(q.offer) /\ fee \in Nat /\ bonus \in Nat /\ q.offer.max \in Nat \ {0}
  BY TournamentsAssumption, OfferFacts
<1>3. Book(L)
  BY <1>1 DEF Shapes
<1>4. /\ Book(P) /\ Unless("TOURNAMENT_FEE", P, L)
      /\ \A v \in Users : NetIn(P, v) = NetIn(L, v) + IF v = u THEN fee ELSE 0
  BY <1>2, <1>3, ChargeFacts
<1>. HIDE DEF P
<1>5. CanCharge(P, u, bonus, "TOURNAMENT_BONUS", bonusRef)
  BY DEF P
<1>6. /\ Book(K) /\ Unless("TOURNAMENT_BONUS", K, P)
      /\ \A v \in Users : NetIn(K, v) = NetIn(P, v) + IF v = u THEN bonus ELSE 0
  BY <1>2, <1>4, <1>5, ChargeFacts
<1>. HIDE DEF K, fee, bonus
<1>7. Shapes(r, n, ss, K) /\ n[u] = x /\ \A v \in Users \ {u} : n[v] = m[v]
  BY <1>1, <1>6, RowWritten
<1>. HIDE DEF n
<1>8. Shapes(q, n, ss, K)
  BY <1>7 DEF Shapes
<1>9. Fits(q.offer, n)
  <2>1. /\ Cardinality(In(m)) = 0 /\ \A k : Cardinality(InTeam(m, k)) = 0
        /\ \A v \in Users : ~ m[v].in
    BY <1>1, FS_EmptySet, InFacts DEF InTeam
  <2>2. Fits(q.offer, m)
    BY <1>1, <1>2, <2>1 DEF Fits, IsOffer
  <2>3. q.offer.teams => 0 < q.offer.size
    BY <1>2 DEF IsOffer
  <2>. QED BY <1>2, <1>7, <2>1, <2>2, <2>3, OneMoreFits
<1>10. \A v \in Users : NetIn(K, v) = StakeIn(q, n, v)
  <2>1. \A v \in Users : NetIn(L, v) = 0
    <3>1. \A v \in Users : RowsOf(L.rows, v) = {}
      BY <1>1 DEF RowsOf
    <3>. QED BY <3>1, SumOfNone DEF NetIn
  <2>2. \A v \in Users : n[v].in <=> v = u
    BY <1>1, <1>7, InFacts
  <2>3. \A v \in Users : StakeIn(q, n, v) = (IF v = u THEN fee ELSE 0) + (IF v = u THEN bonus ELSE 0)
    BY <2>2 DEF StakeIn, fee, bonus
  <2>. QED BY <1>2, <1>4, <1>6, <2>1, <2>3
<1>11. NoPrize(K)
  BY <1>1, <1>4, <1>6 DEF NoPrize, Unless
<1>12. Gathered(q, n, K)
  BY <1>7, <1>9, <1>10, <1>11 DEF Gathered
<1>13. Fine(q, n, ss, K)
  BY <1>1, <1>8, <1>12 DEF Fine
<1>. QED BY <1>13 DEF n, K, P, fee, bonus

Started(m, ss) ==
  [u \in Users |-> IF m[u].in THEN [status |-> "active", balance |-> 0] ELSE ss[u]]

LEMMA Launching ==
  ASSUME NEW r, NEW m, NEW ss, NEW L, Fine(r, m, ss, L), r.status = "lobby",
         r.offer.teams => BothTeams(m), NEW t \in Nat
  PROVE  Fine([r EXCEPT !.status = "running", !.endsAt = t], m, Started(m, ss), L)
<1>. DEFINE q == [r EXCEPT !.status = "running", !.endsAt = t]
            now_ == Started(m, ss)
<1>1. Shapes(r, m, ss, L) /\ Gathered(r, m, L) /\ NoSessions(ss)
  BY DEF Fine
<1>2. r \in Rows /\ r.offer \in Offers /\ r.creator \in Users
  BY <1>1 DEF Shapes
<1>3. q \in Rows /\ q.status = "running" /\ q.offer = r.offer /\ q.creator = r.creator
  BY <1>2 DEF Rows, Statuses
<1>. HIDE DEF q
<1>4. /\ now_ \in [Users -> [status : {"none", "active", "finished"}, balance : Nat]]
      /\ \A u \in Users : now_[u].status # "none" <=> m[u].in
  BY <1>1 DEF Shapes, Started, NoSessions
<1>. HIDE DEF now_
<1>5. Shapes(q, m, now_, L)
  BY <1>1, <1>2, <1>3, <1>4 DEF Shapes
<1>6. \A u \in Users : StakeIn(q, m, u) = StakeIn(r, m, u)
  BY <1>3 DEF StakeIn
<1>7. Gathered(q, m, L)
  BY <1>1, <1>3, <1>6 DEF Gathered
<1>8. Playing(q, m, now_)
  BY <1>3, <1>4 DEF Playing
<1>9. Fine(q, m, now_, L)
  BY <1>3, <1>5, <1>7, <1>8 DEF Fine
<1>. QED BY <1>9 DEF q, now_

(* Trading and the early end touch nothing of this.                        *)
LEMMA Trading ==
  ASSUME NEW r, NEW m, NEW ss, NEW L, Fine(r, m, ss, L), r.status = "running",
         NEW q \in Rows, q.status = "running", q.offer = r.offer, q.creator = r.creator,
         NEW tt \in [Users -> [status : {"none", "active", "finished"}, balance : Nat]],
         \A u \in Users : tt[u].status = "none" <=> ss[u].status = "none"
  PROVE  Fine(q, m, tt, L)
<1>1. Shapes(r, m, ss, L) /\ Gathered(r, m, L) /\ Playing(r, m, ss)
  BY DEF Fine
<1>2. Shapes(q, m, tt, L)
  BY <1>1 DEF Shapes
<1>3. Gathered(q, m, L)
  <2>1. \A u \in Users : StakeIn(q, m, u) = StakeIn(r, m, u)
    BY DEF StakeIn
  <2>. QED BY <1>1, <2>1 DEF Gathered
<1>4. Playing(q, m, tt)
  BY <1>1 DEF Playing
<1>. QED BY <1>2, <1>3, <1>4 DEF Fine

(* A lobby is canceled: nobody has anything in it.                         *)
LEMMA Refunding ==
  ASSUME NEW s, NEW ss, NEW L, Fine(s.row, s.member, ss, L), s.row.status = "lobby",
         CanRefundLobby(L, s)
  PROVE  Book(RefundLobby(L, s)) /\ \A u \in Users : NetIn(RefundLobby(L, s), u) = 0
<1>. DEFINE r == s.row
            m == s.member
            K == RefundLobby(L, s)
<1>1. Shapes(r, m, ss, L) /\ Gathered(r, m, L)
  BY DEF Fine
<1>2. r.creator \in Users /\ r.offer.fee \in Nat /\ r.offer.bonus \in Nat /\ Book(L)
  BY <1>1, OfferOfRow DEF Shapes
<1>3. /\ Book(K)
      /\ \A v \in Users : NetIn(K, v) = NetIn(L, v) - (IF m[v].in THEN r.offer.fee ELSE 0)
                                        - (IF v = r.creator THEN r.offer.bonus ELSE 0)
  BY <1>2, RefundLobbyFacts
<1>4. \A v \in Users : NetIn(L, v) = (IF m[v].in THEN r.offer.fee ELSE 0) +
                                     (IF v = r.creator THEN r.offer.bonus ELSE 0)
  BY <1>1 DEF Gathered, StakeIn
<1>. HIDE DEF r, m, K
<1>5. \A v \in Users : NetIn(K, v) = 0
  BY <1>2, <1>3, <1>4
<1>. QED BY <1>3, <1>5 DEF K

LEMMA Canceling ==
  ASSUME NEW r, NEW m, NEW ss, NEW L, Fine(r, m, ss, L), r.status = "lobby",
         NEW s, s.row = r, s.member = m, CanRefundLobby(L, s)
  PROVE  Fine([r EXCEPT !.status = "cancelled"], m, ss, RefundLobby(L, s))
<1>. DEFINE q == [r EXCEPT !.status = "cancelled"]
            K == RefundLobby(L, s)
<1>1. Book(K) /\ \A u \in Users : NetIn(K, u) = 0
  BY Refunding
<1>2. Shapes(r, m, ss, L) /\ NoSessions(ss)
  BY DEF Fine
<1>3. q \in Rows /\ q.status = "cancelled" /\ q.offer = r.offer /\ q.creator = r.creator
  BY <1>2 DEF Shapes, Rows, Statuses
<1>. HIDE DEF q, K
<1>4. Shapes(q, m, ss, K)
  BY <1>1, <1>2, <1>3 DEF Shapes
<1>5. Fine(q, m, ss, K)
  BY <1>1, <1>2, <1>3, <1>4 DEF Fine
<1>. QED BY <1>5 DEF q, K

-----------------------------------------------------------------------------
(* The end.                                                                *)

SumOver(f) == SumFunctionOnSet(f, Users)

(* What everybody has put in is what there is to win.                      *)
LEMMA SumOfStakes ==
  ASSUME NEW r, NEW m, r.creator \in Users, r.offer.fee \in Nat, r.offer.bonus \in Nat
  PROVE  /\ SumOver([u \in Users |-> StakeIn(r, m, u)]) = PrizePool(r.offer, Cardinality(In(m)))
         /\ \A u \in Users : StakeIn(r, m, u) \in Nat
<1>. DEFINE fee == r.offer.fee
            bonus == r.offer.bonus
            f == [u \in Users |-> IF m[u].in THEN fee ELSE 0]
            g == [u \in Users |-> IF u = r.creator THEN bonus ELSE 0]
            h == [u \in Users |-> StakeIn(r, m, u)]
            c == r.creator
            A == In(m)
<1>1. /\ \A u \in Users : f[u] \in Int /\ g[u] \in Int /\ h[u] = f[u] + g[u]
      /\ \A u \in Users : StakeIn(r, m, u) \in Nat
  BY DEF StakeIn
<1>2. A \subseteq Users /\ IsFiniteSet(A) /\ Cardinality(A) \in Nat /\ IsFiniteSet(Users)
  BY InFacts, UsersAssumption
<1>3. (\A u \in A : f[u] = fee) /\ \A u \in Users : u \notin A => f[u] = 0
  BY <1>2, InFacts
<1>4. g[c] = bonus /\ \A u \in Users \ {c} : g[u] = 0
  OBVIOUS
<1>5. fee \in Int /\ bonus \in Int /\ c \in Users
  OBVIOUS
<1>6. PrizePool(r.offer, Cardinality(A)) = fee * Cardinality(A) + bonus
  BY DEF PrizePool
<1>. HIDE DEF f, g, h, fee, bonus, A, c
<1>7. SumOver(h) = SumOver(f) + SumOver(g)
  BY <1>1, <1>2, SumPlus DEF SumOver
<1>8. SumOver(f) = fee * Cardinality(A)
  <2>1. SumFunctionOnSet(f, Users) = SumFunctionOnSet(f, A)
    BY <1>2, <1>3, <1>5, SumPart
  <2>2. SumFunctionOnSet(f, A) = fee * Cardinality(A)
    BY <1>2, <1>3, <1>5, SumConst
  <2>. QED BY <2>1, <2>2 DEF SumOver
<1>9. SumOver(g) = bonus
  BY <1>2, <1>4, <1>5, SumOnly DEF SumOver
<1>10. SumOver(h) = PrizePool(r.offer, Cardinality(A))
  BY <1>6, <1>7, <1>8, <1>9
<1>. QED BY <1>1, <1>10 DEF h, A

NobodyIn == [u \in Users |-> NotIn]
NoneOpen == [u \in Users |-> NoSession]

LEMMA SumOfZeros ==
  ASSUME NEW f, \A u \in Users : f[u] = 0
  PROVE  SumOver(f) = 0
<1>1. SumFunctionOnSet(f, Users) = 0 * Cardinality(Users) /\ Cardinality(Users) \in Nat
  BY UsersAssumption, SumConst, FS_CardinalityType
<1>. QED BY <1>1 DEF SumOver

(* Removed: the coins are where they were before it, or with the winners.    *)
LEMMA Removing ==
  ASSUME NEW r, NEW m, NEW ss, NEW L, Fine(r, m, ss, L),
         r.status \in {"lobby", "finished", "cancelled"},
         NEW s, s.row = r, s.member = m, RefundsOnRemove(s) => CanRefundLobby(L, s)
  PROVE  Fine([r EXCEPT !.status = "removed"], NobodyIn, NoneOpen,
              IF RefundsOnRemove(s) THEN RefundLobby(L, s) ELSE L)
<1>. DEFINE q == [r EXCEPT !.status = "removed"]
            K == IF RefundsOnRemove(s) THEN RefundLobby(L, s) ELSE L
            net == [u \in Users |-> NetIn(K, u)]
<1>1. Shapes(r, m, ss, L)
  BY DEF Fine
<1>2. q \in Rows /\ q.status = "removed" /\ q.offer = r.offer /\ q.creator = r.creator
  BY <1>1 DEF Shapes, Rows, Statuses
<1>3. r.creator \in Users /\ r.offer.fee \in Nat /\ r.offer.bonus \in Nat /\ Book(L)
  BY <1>1, OfferOfRow DEF Shapes
<1>4. /\ NobodyIn \in [Users -> Members] /\ \A u \in Users : NobodyIn[u] = NotIn
      /\ NoneOpen \in [Users -> [status : {"none", "active", "finished"}, balance : Nat]]
      /\ NoSessions(NoneOpen)
  BY TournamentsAssumption DEF NobodyIn, NoneOpen, NotIn, Members, NoSession, NoSessions
<1>5. Book(K) /\ SumOver(net) = 0
  <2>1. CASE r.status = "lobby"
    <3>1. RefundsOnRemove(s) /\ K = RefundLobby(L, s)
      BY <2>1 DEF RefundsOnRemove, Open
    <3>2. Book(K) /\ \A u \in Users : NetIn(K, u) = 0
      BY <2>1, <3>1, Refunding
    <3>3. \A u \in Users : net[u] = 0
      BY <3>2
    <3>. HIDE DEF net
    <3>. QED BY <3>2, <3>3, SumOfZeros
  <2>2. ASSUME r.status # "lobby" PROVE K = L
    BY <2>2 DEF RefundsOnRemove, Open
  <2>3. CASE r.status = "cancelled"
    <3>1. K = L /\ \A u \in Users : NetIn(L, u) = 0
      BY <2>2, <2>3 DEF Fine
    <3>2. \A u \in Users : net[u] = 0
      BY <3>1
    <3>. HIDE DEF net, K
    <3>. QED BY <1>3, <3>1, <3>2, SumOfZeros
  <2>4. CASE r.status = "finished"
    <3>. DEFINE prize == [u \in Users |-> m[u].prize]
                stake == [u \in Users |-> StakeIn(r, m, u)]
                pool == PrizePool(r.offer, Cardinality(In(m)))
    <3>1. K = L /\ Placed(r, m, ss, L)
      BY <2>2, <2>4 DEF Fine
    <3>2. SumOver(prize) = pool
      BY <3>1 DEF Placed, SumFunction, SumOver
    <3>3. SumOver(stake) = pool /\ \A u \in Users : stake[u] \in Nat
      BY <1>3, SumOfStakes
    <3>4. \A u \in Users : prize[u] \in Nat
      BY <1>1 DEF Shapes, Members
    <3>5. \A u \in Users : net[u] \in Int /\ prize[u] \in Int /\ stake[u] = net[u] + prize[u]
      BY <3>1, <3>3, <3>4 DEF Placed
    <3>. HIDE DEF K, net, prize, stake, pool
    <3>6. SumOver(stake) = SumOver(net) + SumOver(prize) /\ SumOver(net) \in Int
      BY <3>5, UsersAssumption, SumPlus, SumType DEF SumOver
    <3>7. SumOver(prize) \in Int
      BY <3>5, UsersAssumption, SumType DEF SumOver
    <3>. QED BY <1>3, <3>1, <3>2, <3>3, <3>6, <3>7
  <2>. QED BY <2>1, <2>3, <2>4
<1>6. Shapes(q, NobodyIn, NoneOpen, K)
  <2>. HIDE DEF q, K, net
  <2>. QED BY <1>1, <1>2, <1>4, <1>5 DEF Shapes
<1>7. SumFunction(net) = 0
  BY <1>5 DEF SumFunction, SumOver
<1>8. Fine(q, NobodyIn, NoneOpen, K)
  <2>. HIDE DEF q, K
  <2>. QED BY <1>2, <1>4, <1>6, <1>7 DEF Fine
<1>. QED BY <1>8

WithResults(m, place, prize) ==
  [u \in Users |-> IF u \in In(m) THEN [m[u] EXCEPT !.place = place[u], !.prize = prize[u]]
                                  ELSE m[u]]

(* Finished: the pool is given out, by the results.                        *)
LEMMA Finishing ==
  ASSUME NEW r, NEW m, NEW ss, NEW L, Fine(r, m, ss, L), r.status = "running",
         NEW place, NEW prize, Counted(r.offer, m, ss, place, prize)
  PROVE  Fine([r EXCEPT !.status = "finished"], WithResults(m, place, prize), ss,
              PayPrizes(L, prize))
<1>. DEFINE q == [r EXCEPT !.status = "finished"]
            n == WithResults(m, place, prize)
            K == PayPrizes(L, prize)
            A == In(m)
            pool == PrizePool(r.offer, Cardinality(A))
            paid == [u \in Users |-> n[u].prize]
<1>1. Shapes(r, m, ss, L) /\ Gathered(r, m, L)
  BY DEF Fine
<1>2. q \in Rows /\ q.status = "finished" /\ q.offer = r.offer /\ q.creator = r.creator
  BY <1>1 DEF Shapes, Rows, Statuses
<1>3. r.creator \in Users /\ r.offer.fee \in Nat /\ r.offer.bonus \in Nat /\ Book(L)
  BY <1>1, OfferOfRow DEF Shapes
<1>4. /\ place \in [A -> Nat] /\ prize \in [A -> Nat] /\ SumFunction(prize) = pool
      /\ Deserved(r.offer, m, ss, place, prize) /\ Closed(ss)
  BY DEF Counted
<1>5. A \subseteq Users /\ IsFiniteSet(A) /\ \A u \in Users : u \in A <=> m[u].in
  BY InFacts
<1>6. m \in [Users -> Members] /\ \A u \in Users : ~ m[u].in => m[u] = NotIn
  BY <1>1 DEF Shapes
<1>7. /\ \A u \in A : n[u] = [m[u] EXCEPT !.place = place[u], !.prize = prize[u]]
      /\ \A u \in Users \ A : n[u] = m[u]
      /\ n = [u \in Users |-> n[u]]
  BY <1>5 DEF WithResults
<1>8. /\ Book(K)
      /\ \A v \in Users : NetIn(K, v) = NetIn(L, v) - IF v \in A THEN prize[v] ELSE 0
  <2>1. \A x \in L.rows : x.kind # "TOURNAMENT_PRIZE"
    BY <1>1 DEF Gathered, NoPrize
  <2>2. A \in SUBSET Users /\ prize \in [A -> Nat]
    BY <1>4, <1>5
  <2>. HIDE DEF A
  <2>. QED BY <1>3, <2>1, <2>2, PrizesFacts
<1>. HIDE DEF q, n, K, A, pool
<1>9. /\ \A u \in A : /\ n[u] \in Members /\ n[u].place = place[u] /\ n[u].prize = prize[u]
                      /\ n[u].in = m[u].in
      /\ \A u \in Users \ A : n[u] = NotIn /\ n[u].prize = 0 /\ n[u] \in Members
  <2>1. ASSUME NEW u \in A
        PROVE  /\ n[u] \in Members /\ n[u].place = place[u] /\ n[u].prize = prize[u]
               /\ n[u].in = m[u].in
    <3>1. m[u] \in Members /\ place[u] \in Nat /\ prize[u] \in Nat
      BY <1>4, <1>5, <1>6
    <3>2. n[u] = [m[u] EXCEPT !.place = place[u], !.prize = prize[u]]
      BY <1>7
    <3>. QED BY <3>1, <3>2 DEF Members
  <2>2. ASSUME NEW u \in Users \ A
        PROVE  n[u] = NotIn /\ n[u].prize = 0 /\ n[u] \in Members
    <3>1. n[u] = m[u] /\ m[u] = NotIn /\ m[u] \in Members
      BY <1>5, <1>6, <1>7
    <3>2. NotIn.prize = 0
      BY DEF NotIn
    <3>. QED BY <3>1, <3>2
  <2>. QED BY <2>1, <2>2
<1>10. n \in [Users -> Members] /\ \A u \in Users : n[u].in <=> m[u].in
  <2>0. \A u \in Users : n[u].in <=> m[u].in
    BY <1>6, <1>7, <1>9
  <2>1. \A u \in Users : n[u] \in Members
    BY <1>9
  <2>. QED BY <1>7, <2>0, <2>1
<1>11. In(n) = A
  BY <1>10 DEF In, A
<1>12. Shapes(q, n, ss, K)
  <2>1. \A u \in Users : ~ n[u].in => n[u] = NotIn
    BY <1>5, <1>9, <1>10
  <2>. QED BY <1>1, <1>2, <1>8, <1>10, <2>1 DEF Shapes
<1>13. \A u \in Users : NetIn(K, u) = StakeIn(q, n, u) - n[u].prize
  <2>1. \A u \in Users : NetIn(L, u) = StakeIn(q, n, u)
    BY <1>1, <1>2, <1>10 DEF Gathered, StakeIn
  <2>2. \A u \in Users : n[u].prize = IF u \in A THEN prize[u] ELSE 0
    BY <1>9
  <2>. QED BY <1>8, <2>1, <2>2
<1>14. SumFunction(paid) = pool
  <2>1. /\ \A u \in A : paid[u] = prize[u] /\ paid[u] \in Int
        /\ \A u \in Users : u \notin A => paid[u] = 0
    BY <1>4, <1>5, <1>9
  <2>2. SumFunction(paid) = SumFunctionOnSet(paid, Users)
    BY DEF SumFunction
  <2>3. SumFunction(prize) = SumFunctionOnSet(prize, A)
    BY <1>4 DEF SumFunction
  <2>. HIDE DEF paid
  <2>4. SumFunctionOnSet(paid, Users) = SumFunctionOnSet(paid, A)
    BY <1>5, <2>1, UsersAssumption, SumPart
  <2>5. SumFunctionOnSet(paid, A) = SumFunctionOnSet(prize, A)
    BY <1>5, <2>1, SumSame
  <2>. QED BY <1>4, <2>2, <2>3, <2>4, <2>5
<1>15. Deserved(q.offer, n, ss, [u \in Users |-> n[u].place], paid)
  <2>1. \A u \in A : [v \in Users |-> n[v].place][u] = place[u] /\ paid[u] = prize[u]
    BY <1>5, <1>9
  <2>2. Deserved(r.offer, m, ss, place, prize)
    BY <1>4
  <2>. HIDE DEF paid
  <2>. QED BY <1>2, <1>11, <2>1, <2>2 DEF Deserved, A
<1>16. Placed(q, n, ss, K)
  BY <1>2, <1>4, <1>11, <1>13, <1>14, <1>15 DEF Placed, pool
<1>17. Fine(q, n, ss, K)
  BY <1>2, <1>12, <1>16 DEF Fine
<1>. QED BY <1>17 DEF q, n, K

-----------------------------------------------------------------------------
(* The invariant is inductive: one lemma per action.                        *)

Moving == TypeOfClock /\ TypeOfTx /\ TypeOfRunner /\ UserHolds /\ RunnerHolds /\ Final

LEMMA IInvParts == IInv <=> Fine(row, member, session, ledger) /\ Moving
BY DEF IInv, Moving

LEMMA NobodyElse == None # Runner /\ None \notin Users /\ Runner \notin Users
BY TournamentsAssumption

LEMMA NoneHolds == NoTx.op = "none" /\ NoTx.row.status = "none"
BY DEF NoTx, NoRow

LEMMA TxFacts ==
  ASSUME IInv, NEW u \in Users, tx[u].op # "none"
  PROVE  /\ lock = u /\ lock # None /\ lock # Runner
         /\ tx[u].row = row /\ tx[u].member = member
         /\ row.status \in {"lobby", "finished", "cancelled"}
         /\ ~ At("starting") /\ ~ At("closing") /\ ~ At("final")
<1>1. /\ lock = u /\ tx[u].row = row /\ tx[u].member = member
      /\ row.status \in {"lobby", "finished", "cancelled"}
  BY DEF IInv, UserHolds
<1>2. lock # None /\ lock # Runner
  BY <1>1, NobodyElse
<1>3. ~ At("starting")
  BY <1>2 DEF IInv, RunnerHolds
<1>4. ~ At("closing") /\ ~ At("final")
  BY <1>1 DEF IInv, Final
<1>. QED BY <1>1, <1>2, <1>3, <1>4

(* A transaction of a person that ends leaves nobody in the middle of one.  *)
LEMMA EndFacts ==
  ASSUME IInv, NEW u \in Users, tx[u].op # "none", End(u), UNCHANGED world
  PROVE  Moving'
<1>1. lock = u /\ ~ At("starting") /\ ~ At("closing") /\ ~ At("final")
  BY TxFacts
<1>2. runner' = runner /\ now' = now /\ failures' = failures
  BY DEF world
<1>3. tx' = [tx EXCEPT ![u] = NoTx] /\ lock' = None
  BY <1>1 DEF End
<1>4. TypeOfTx /\ UserHolds /\ TypeOfRunner /\ TypeOfClock
  BY DEF IInv
<1>5. DOMAIN tx = Callers /\ u \in Callers
  BY <1>4 DEF TypeOfTx, Callers
<1>6. \A v \in Users : tx'[v].op = "none"
  <2>. SUFFICES ASSUME NEW v \in Users PROVE tx'[v].op = "none"
    OBVIOUS
  <2>1. CASE v = u
    BY <1>3, <1>5, <2>1, NoneHolds
  <2>2. CASE v # u
    <3>1. tx[v].op = "none"
      BY <1>1, <1>4, <2>2 DEF UserHolds
    <3>. QED BY <1>3, <2>2, <3>1
  <2>. QED BY <2>1, <2>2
<1>7. TypeOfTx'
  BY <1>3, <1>5, <1>6 DEF TypeOfTx, Doing
<1>8. UserHolds'
  BY <1>6 DEF UserHolds
<1>9. RunnerHolds'
  BY <1>1, <1>2, <1>3, NobodyElse DEF RunnerHolds, At
<1>10. Final'
  BY <1>1, <1>2 DEF Final, At
<1>. QED BY <1>2, <1>4, <1>7, <1>8, <1>9, <1>10 DEF Moving, TypeOfRunner, TypeOfClock

LEMMA FineStays ==
  ASSUME Fine(row, member, session, ledger), UNCHANGED <<row, member, session, ledger>>
  PROVE  Fine(row', member', session', ledger')
OBVIOUS

LEMMA FineTypes ==
  ASSUME Fine(row, member, session, ledger)
  PROVE  /\ row \in Rows /\ (row.status # "none" => row.offer \in Offers /\ row.creator \in Users)
         /\ member \in [Users -> Members]
         /\ session \in [Users -> [status : {"none", "active", "finished"}, balance : Nat]]
         /\ Book(ledger)
BY DEF Fine, Shapes

LEMMA OfferInLobby ==
  ASSUME Fine(row, member, session, ledger), row.status \in {"lobby", "running"}
  PROVE  /\ IsOffer(row.offer) /\ Fits(row.offer, member)
         /\ row.creator \in Users /\ member[row.creator].in
<1>1. Shapes(row, member, session, ledger) /\ Gathered(row, member, ledger)
  BY DEF Fine
<1>. QED BY <1>1, OfferOfRow DEF Gathered

(* A place taken now.                                                      *)
LEMMA JoinedFacts ==
  ASSUME TypeOfClock, NEW k \in Teams \cup {None}
  PROVE  Joined(k) \in Members /\ Joined(k).in /\ Joined(k).team = k
BY DEF TypeOfClock, Joined, NotIn, Members

LEMMA InitInv == Init => IInv
<1>. SUFFICES ASSUME Init PROVE IInv
  OBVIOUS
<1>1. /\ now = 0 /\ row = NoRow /\ member = NobodyIn /\ session = NoneOpen
      /\ ledger = NewLedger /\ lock = None /\ tx = [c \in Callers |-> NoTx]
      /\ runner = Resting /\ failures = 0
  BY DEF Init, NobodyIn, NoneOpen
<1>2. Book(ledger) /\ ledger.rows = {}
  BY <1>1, StartingCoinsAssumption, FS_EmptySet DEF NewLedger, Book, WholeRows
<1>3. /\ member \in [Users -> Members] /\ \A u \in Users : member[u] = NotIn
      /\ session \in [Users -> [status : {"none", "active", "finished"}, balance : Nat]]
      /\ NoSessions(session)
  BY <1>1, TournamentsAssumption DEF NobodyIn, NoneOpen, NotIn, Members, NoSession, NoSessions
<1>4. row \in Rows /\ row.status = "none"
  BY <1>1 DEF NoRow, Rows, Statuses
<1>5. Shapes(row, member, session, ledger)
  BY <1>2, <1>3, <1>4 DEF Shapes
<1>6. In(member) = {}
  BY <1>3 DEF In, NotIn
<1>7. Fine(row, member, session, ledger)
  BY <1>2, <1>3, <1>4, <1>5, <1>6 DEF Fine
<1>8. runner.pc = "idle"
  BY <1>1 DEF Resting
<1>9. TypeOfClock /\ TypeOfRunner /\ Final
  BY <1>1, <1>8, TournamentsAssumption DEF TypeOfClock, TypeOfRunner, Final, At
<1>10. \A u \in Users : tx[u].op = "none"
  BY <1>1, NoneHolds DEF Callers
<1>11. TypeOfTx /\ UserHolds /\ RunnerHolds
  BY <1>1, <1>8, <1>10, NobodyElse DEF TypeOfTx, UserHolds, RunnerHolds, Doing, At
<1>. QED BY <1>7, <1>9, <1>11 DEF IInv

LEMMA CreateInv ==
  ASSUME IInv, NEW u \in Hosts, NEW o \in Offers, Create(u, o)
  PROVE  IInv'
<1>. DEFINE x == Joined(IF o.teams THEN 0 ELSE None)
            q == [NoRow EXCEPT !.status = "lobby", !.offer = o, !.creator = u,
                               !.startsAt = now + o.lead]
            paid == Charge(ledger, u, o.fee, "TOURNAMENT_FEE", FeeRef(now))
<1>1. Fine(row, member, session, ledger) /\ TypeOfClock /\ Moving
  BY IInvParts DEF Moving
<1>2. u \in Users /\ o.lead \in Nat
  BY TournamentsAssumption DEF IsOffer
<1>3. /\ q \in Rows /\ q.status = "lobby" /\ q.offer = o /\ q.creator = u
  <2>. DEFINE t == now + o.lead
  <2>1. t \in Nat
    BY <1>1, <1>2 DEF TypeOfClock
  <2>. HIDE DEF t
  <2>2. NoRow \in Rows
    BY DEF NoRow, Rows, Statuses
  <2>3. q = [NoRow EXCEPT !.status = "lobby", !.offer = o, !.creator = u, !.startsAt = t]
    BY DEF t
  <2>. HIDE DEF q
  <2>. QED BY <1>2, <2>1, <2>2, <2>3 DEF Rows, Statuses
<1>4. x \in Members /\ x.in /\ (o.teams => x.team \in Teams)
  <2>1. (IF o.teams THEN 0 ELSE None) \in Teams \cup {None}
    BY DEF Teams
  <2>2. x \in Members /\ x.in /\ x.team = IF o.teams THEN 0 ELSE None
    BY <1>1, <2>1, JoinedFacts
  <2>. QED BY <2>2 DEF Teams
<1>5. /\ row.status = "none"
      /\ CanCharge(ledger, u, o.fee, "TOURNAMENT_FEE", FeeRef(now))
      /\ CanCharge(paid, u, o.bonus, "TOURNAMENT_BONUS", TournamentRef)
      /\ row' = q /\ member' = [member EXCEPT ![u] = x] /\ session' = session
      /\ ledger' = Charge(paid, u, o.bonus, "TOURNAMENT_BONUS", TournamentRef)
      /\ UNCHANGED <<lock, tx, now, runner, failures>>
  BY DEF Create, world
<1>. HIDE DEF q, x
<1>6. Fine(row', member', session', ledger')
  <2>1. Fine(q, [member EXCEPT ![u] = x], session,
             Charge(Charge(ledger, u, q.offer.fee, "TOURNAMENT_FEE", FeeRef(now)), u, q.offer.bonus,
                    "TOURNAMENT_BONUS", TournamentRef))
    BY <1>1, <1>2, <1>3, <1>4, <1>5, Opening
  <2>. QED BY <1>3, <1>5, <2>1
<1>7. Moving'
  <2>1. \A v \in Users : tx[v].op = "none"
    BY <1>1, <1>5 DEF Moving, UserHolds
  <2>2. UserHolds'
    BY <1>5, <2>1 DEF UserHolds
  <2>3. RunnerHolds'
    BY <1>1, <1>5 DEF Moving, RunnerHolds, At
  <2>4. Final'
    BY <1>1, <1>5 DEF Moving, Final, At
  <2>. QED BY <1>1, <1>5, <2>2, <2>3, <2>4
       DEF Moving, TypeOfTx, TypeOfRunner, TypeOfClock, Doing
<1>. QED BY <1>6, <1>7 DEF IInv, Moving

(* A request that reads, under the lock, what it will decide on.            *)
LEMMA BeginInv ==
  ASSUME IInv, NEW u \in Users, NEW s, NEW allowed, Begin(u, s, allowed),
         s.row = row, s.member = member, row.status \in {"lobby", "finished", "cancelled"},
         /\ s.op = "join" => s.arg \in Teams \cup {None}
         /\ s.op = "move" => s.arg \in [user : Users, team : Teams]
         /\ s.op = "ready" => s.arg \in BOOLEAN
  PROVE  IInv'
<1>1. Fine(row, member, session, ledger) /\ Moving
  BY IInvParts
<1>2. /\ lock = None /\ lock' = u /\ tx' = [tx EXCEPT ![u] = s]
      /\ UNCHANGED <<row, member, session, ledger, runner, now, failures>>
  BY DEF Begin, world, Unlocked
<1>3. DOMAIN tx = Callers /\ u \in Callers /\ Runner # u
  BY <1>1, NobodyElse DEF Moving, TypeOfTx, Callers
<1>4. tx'[u] = s /\ DOMAIN tx' = Callers /\ \A c \in Callers \ {u} : tx'[c] = tx[c]
  BY <1>2, <1>3
<1>5. \A v \in Users \ {u} : tx[v].op = "none" /\ tx'[v].op = "none"
  BY <1>1, <1>2, <1>4, NobodyElse DEF Moving, UserHolds, Callers
<1>6. TypeOfTx'
  <2>1. lock' \in Callers \cup {None}
    BY <1>2, <1>3
  <2>2. ASSUME NEW v \in Users
        PROVE  /\ Doing(v, "join")' => tx'[v].arg \in Teams \cup {None}
               /\ Doing(v, "move")' => tx'[v].arg \in [user : Users, team : Teams]
               /\ Doing(v, "ready")' => tx'[v].arg \in BOOLEAN
    BY <1>4, <1>5 DEF Doing
  <2>. QED BY <1>4, <2>1, <2>2 DEF TypeOfTx
<1>7. UserHolds'
  BY <1>2, <1>4, <1>5 DEF UserHolds
<1>8. RunnerHolds'
  <2>1. ~ At("starting")
    BY <1>1, <1>2, NobodyElse DEF Moving, RunnerHolds
  <2>. QED BY <1>2, <1>3, <2>1 DEF RunnerHolds, At
<1>9. Final'
  BY <1>1, <1>2 DEF Moving, Final, At
<1>. QED BY <1>1, <1>2, <1>6, <1>7, <1>8, <1>9
     DEF IInv, Moving, TypeOfClock, TypeOfRunner

LEMMA RequestInv ==
  ASSUME IInv, NEW u \in Users, Request(u)
  PROVE  IInv'
<1>1. row.status \notin {"none", "removed"}
  BY DEF Request
<1>0. row.status \in Statuses
  BY IInvParts, FineTypes DEF Rows
<1>. DEFINE Reads(s) == s.row = row /\ s.member = member
<1>2. CASE \E k \in IF row.offer.teams THEN Teams ELSE {None} :
             LET s == Read("join", k) IN Begin(u, s, CanJoin(s, u))
  <2>1. PICK k \in IF row.offer.teams THEN Teams ELSE {None} :
               Begin(u, Read("join", k), CanJoin(Read("join", k), u))
    BY <1>2
  <2>. DEFINE s == Read("join", k)
  <2>2. s.op = "join" /\ s.arg = k /\ Reads(s) /\ k \in Teams \cup {None}
    BY DEF Read
  <2>. HIDE DEF s
  <2>3. Begin(u, s, CanJoin(s, u)) /\ CanJoin(s, u)
    BY <2>1 DEF s, Begin
  <2>4. row.status = "lobby"
    BY <2>2, <2>3 DEF CanJoin, Open
  <2>. QED BY <2>2, <2>3, <2>4, BeginInv
<1>3. CASE \E v \in Users, k \in Teams :
             LET s == Read("move", [user |-> v, team |-> k]) IN Begin(u, s, CanMove(s, u))
  <2>1. PICK v \in Users, k \in Teams :
          LET s == Read("move", [user |-> v, team |-> k]) IN Begin(u, s, CanMove(s, u))
    BY <1>3
  <2>. DEFINE s == Read("move", [user |-> v, team |-> k])
  <2>2. s.op = "move" /\ s.arg \in [user : Users, team : Teams] /\ Reads(s)
    BY DEF Read
  <2>. HIDE DEF s
  <2>3. Begin(u, s, CanMove(s, u)) /\ CanMove(s, u)
    BY <2>1 DEF s, Begin
  <2>4. row.status = "lobby"
    BY <2>2, <2>3 DEF CanMove, Open
  <2>. QED BY <2>2, <2>3, <2>4, BeginInv
<1>4. CASE \E b \in BOOLEAN : LET s == Read("ready", b) IN Begin(u, s, CanSetReady(s, u))
  <2>1. PICK b \in BOOLEAN : LET s == Read("ready", b) IN Begin(u, s, CanSetReady(s, u))
    BY <1>4
  <2>. DEFINE s == Read("ready", b)
  <2>2. s.op = "ready" /\ s.arg \in BOOLEAN /\ Reads(s)
    BY DEF Read
  <2>. HIDE DEF s
  <2>3. Begin(u, s, CanSetReady(s, u)) /\ CanSetReady(s, u)
    BY <2>1 DEF s, Begin
  <2>4. row.status = "lobby"
    BY <2>2, <2>3 DEF CanSetReady, Open
  <2>. QED BY <2>2, <2>3, <2>4, BeginInv
<1>5. CASE LET s == Read("leave", None) IN Begin(u, s, CanLeave(s, u))
  <2>. DEFINE s == Read("leave", None)
  <2>2. s.op = "leave" /\ Reads(s)
    BY DEF Read
  <2>. HIDE DEF s
  <2>3. Begin(u, s, CanLeave(s, u)) /\ CanLeave(s, u)
    BY <1>5 DEF s, Begin
  <2>4. row.status = "lobby"
    BY <2>2, <2>3 DEF CanLeave, Open
  <2>. QED BY <2>2, <2>3, <2>4, BeginInv
<1>6. CASE LET s == Read("remove", None) IN Begin(u, s, CanRemove(s, u))
  <2>. DEFINE s == Read("remove", None)
  <2>2. s.op = "remove" /\ Reads(s)
    BY DEF Read
  <2>. HIDE DEF s
  <2>3. Begin(u, s, CanRemove(s, u)) /\ CanRemove(s, u)
    BY <1>6 DEF s, Begin
  <2>4. row.status \in {"lobby", "finished", "cancelled"}
    BY <1>0, <1>1, <2>2, <2>3 DEF CanRemove, Statuses
  <2>. QED BY <2>2, <2>3, <2>4, BeginInv
<1>. QED BY <1>2, <1>3, <1>4, <1>5, <1>6 DEF Request

(* The lobby that a person leaves behind starts, if everybody is ready.      *)
LEMMA LaunchFacts ==
  ASSUME TypeOfClock, NEW n, NEW K, Fine(row, n, session, K), row.status = "lobby",
         LaunchIfReady(row, n, n)
  PROVE  Fine(row', n, session', K)
<1>1. CASE EverybodyReady(row, n)
  <2>1. Launched(n)
    BY <1>1 DEF LaunchIfReady
  <2>2. row' = [row EXCEPT !.status = "running", !.endsAt = now + Duration]
        /\ session' = Started(n, session)
    BY <2>1 DEF Launched, Started
  <2>3. now + Duration \in Nat
    BY TournamentsAssumption DEF TypeOfClock
  <2>4. row.offer.teams => BothTeams(n)
    BY <1>1 DEF EverybodyReady
  <2>. QED BY <2>2, <2>3, <2>4, Launching
<1>2. CASE ~ EverybodyReady(row, n)
  BY <1>2 DEF LaunchIfReady, NotLaunched
<1>. QED BY <1>1, <1>2

LEMMA JoinInv ==
  ASSUME IInv, NEW u \in Users, Join(u)
  PROVE  IInv'
<1>. DEFINE s == tx[u]
            k == IF s.row.offer.teams THEN s.arg ELSE None
            x == Joined(k)
<1>1. tx[u].op = "join" /\ tx[u].op # "none" /\ CanJoin(s, u) /\ End(u) /\ UNCHANGED world
  BY DEF Join, Doing
<1>2. s.row = row /\ s.member = member
  BY <1>1, TxFacts
<1>3. /\ row.status = "lobby" /\ ~ member[u].in /\ Cardinality(In(member)) < row.offer.max
      /\ row.offer.teams => s.arg \in Teams /\ Cardinality(InTeam(member, s.arg)) < row.offer.size
      /\ CanCharge(ledger, u, row.offer.fee, "TOURNAMENT_FEE", FeeRef(now))
  BY <1>1, <1>2 DEF CanJoin, Open, HasRoom
<1>4. /\ member' = [member EXCEPT ![u] = x]
      /\ ledger' = Charge(ledger, u, row.offer.fee, "TOURNAMENT_FEE", FeeRef(now))
      /\ row' = row /\ session' = session
  BY <1>2 DEF Join
<1>5. Fine(row, member, session, ledger) /\ TypeOfClock /\ Moving
  BY IInvParts DEF Moving
<1>6. k \in Teams \cup {None}
  BY <1>2, <1>3
<1>. HIDE DEF k
<1>7. x \in Members /\ x.in /\ x.team = k
  BY <1>5, <1>6, JoinedFacts
<1>8. row.offer.teams => x.team \in Teams /\ Cardinality(InTeam(member, x.team)) < row.offer.size
  BY <1>2, <1>3, <1>7 DEF k
<1>. HIDE DEF x
<1>9. Fine(row', member', session', ledger')
  BY <1>3, <1>4, <1>5, <1>7, <1>8, Joining
<1>10. Moving'
  BY <1>1, EndFacts
<1>. QED BY <1>9, <1>10 DEF IInv, Moving

LEMMA MoveTeamInv ==
  ASSUME IInv, NEW u \in Users, MoveTeam(u)
  PROVE  IInv'
<1>. DEFINE s == tx[u]
            v == s.arg.user
            k == s.arg.team
            x == [member[v] EXCEPT !.team = k]
            n == [member EXCEPT ![v] = x]
<1>1. tx[u].op = "move" /\ tx[u].op # "none" /\ CanMove(s, u) /\ End(u) /\ UNCHANGED world
  BY DEF MoveTeam, Doing
<1>2. s.row = row /\ s.member = member
  BY <1>1, TxFacts
<1>3. /\ row.status = "lobby" /\ member[v].in /\ member[v].team # k
      /\ Cardinality(InTeam(member, k)) < row.offer.size
  BY <1>1, <1>2 DEF CanMove, Open
<1>4. /\ member' = [member EXCEPT ![v].team = k]
      /\ row' = row /\ session' = session /\ ledger' = ledger
  BY DEF MoveTeam
<1>5. Fine(row, member, session, ledger) /\ TypeOfTx /\ Moving
  BY IInvParts DEF Moving
<1>6. v \in Users /\ k \in Teams
  <2>1. s.arg \in [user : Users, team : Teams]
    BY <1>1, <1>5 DEF TypeOfTx, Doing
  <2>. QED BY <2>1
<1>. HIDE DEF v, k
<1>7. member \in [Users -> Members]
  BY <1>5, FineTypes
<1>8. member[v] \in Members
  BY <1>6, <1>7
<1>9. x \in Members /\ x.in /\ x.team = k
  BY <1>3, <1>6, <1>8 DEF Members
<1>10. member' = n
  BY <1>4
<1>. HIDE DEF x
<1>11. n[v] = x /\ \A w \in Users \ {v} : n[w] = member[w]
  BY <1>6, <1>7
<1>12. IsOffer(row.offer) /\ Fits(row.offer, member)
  BY <1>3, <1>5, OfferInLobby
<1>. HIDE DEF n
<1>13. Fits(row.offer, n)
  BY <1>3, <1>6, <1>9, <1>11, <1>12, MovedFits
<1>14. Fine(row, n, session, ledger)
  BY <1>3, <1>5, <1>6, <1>9, <1>13, Changing DEF n
<1>15. Fine(row', member', session', ledger')
  BY <1>4, <1>10, <1>14
<1>16. Moving'
  BY <1>1, EndFacts
<1>. QED BY <1>15, <1>16 DEF IInv, Moving

LEMMA LeaveInv ==
  ASSUME IInv, NEW u \in Users, Leave(u)
  PROVE  IInv'
<1>. DEFINE s == tx[u]
            n == [member EXCEPT ![u] = NotIn]
            ref == FeeRef(member[u].at)
<1>1. tx[u].op = "leave" /\ tx[u].op # "none" /\ CanLeave(s, u) /\ End(u) /\ UNCHANGED world
  BY DEF Leave, Doing
<1>2. s.row = row /\ s.member = member
  BY <1>1, TxFacts
<1>3. /\ row.status = "lobby" /\ row.creator # u /\ member[u].in
      /\ CanRefund(ledger, u, row.offer.fee, ref)
  BY <1>1, <1>2 DEF CanLeave, Open
<1>4. /\ member' = n /\ ledger' = Refund(ledger, u, row.offer.fee, ref)
      /\ LaunchIfReady(row, n, n)
  BY <1>2 DEF Leave
<1>5. Fine(row, member, session, ledger) /\ TypeOfClock /\ Moving
  BY IInvParts DEF Moving
<1>. HIDE DEF ref
<1>6. Fine(row, n, session, Refund(ledger, u, row.offer.fee, ref))
  BY <1>3, <1>5, Leaving
<1>. HIDE DEF n
<1>7. Fine(row', member', session', ledger')
  BY <1>3, <1>4, <1>5, <1>6, LaunchFacts
<1>8. Moving'
  BY <1>1, EndFacts
<1>. QED BY <1>7, <1>8 DEF IInv, Moving

LEMMA SetReadyInv ==
  ASSUME IInv, NEW u \in Users, SetReady(u)
  PROVE  IInv'
<1>. DEFINE s == tx[u]
            b == s.arg
            x == [member[u] EXCEPT !.ready = b]
            n == [member EXCEPT ![u] = x]
<1>1. tx[u].op = "ready" /\ tx[u].op # "none" /\ CanSetReady(s, u) /\ End(u) /\ UNCHANGED world
  BY DEF SetReady, Doing
<1>2. s.row = row /\ s.member = member
  BY <1>1, TxFacts
<1>3. row.status = "lobby" /\ member[u].in
  BY <1>1, <1>2 DEF CanSetReady, Open
<1>4. /\ member' = n /\ ledger' = ledger /\ LaunchIfReady(row, n, n)
  BY <1>2 DEF SetReady
<1>5. Fine(row, member, session, ledger) /\ TypeOfClock /\ TypeOfTx /\ Moving
  BY IInvParts DEF Moving
<1>6. b \in BOOLEAN
  BY <1>1, <1>5 DEF TypeOfTx, Doing
<1>. HIDE DEF b
<1>7. member \in [Users -> Members]
  BY <1>5, FineTypes
<1>8. member[u] \in Members
  BY <1>7
<1>9. x \in Members /\ x.in /\ x.team = member[u].team
  BY <1>3, <1>6, <1>8 DEF Members
<1>. HIDE DEF x
<1>10. n[u] = x /\ \A w \in Users \ {u} : n[w] = member[w]
  BY <1>7
<1>11. IsOffer(row.offer) /\ Fits(row.offer, member)
  BY <1>3, <1>5, OfferInLobby
<1>. HIDE DEF n
<1>12. In(n) \subseteq In(member) /\ \A w \in In(n) : n[w].team = member[w].team
  BY <1>3, <1>9, <1>10 DEF In
<1>13. Fits(row.offer, n)
  BY <1>11, <1>12, FewerFit
<1>14. Fine(row, n, session, ledger)
  BY <1>3, <1>5, <1>9, <1>13, Changing DEF n
<1>15. Fine(row', member', session', ledger')
  BY <1>3, <1>4, <1>5, <1>14, LaunchFacts
<1>16. Moving'
  BY <1>1, EndFacts
<1>. QED BY <1>15, <1>16 DEF IInv, Moving

LEMMA RemoveLobbyInv ==
  ASSUME IInv, NEW u \in Users, RemoveLobby(u)
  PROVE  IInv'
<1>. DEFINE s == tx[u]
<1>1. tx[u].op # "none" /\ CanRemove(s, u) /\ End(u) /\ UNCHANGED world
  BY DEF RemoveLobby, Doing
<1>2. s.row = row /\ s.member = member /\ row.status \in {"lobby", "finished", "cancelled"}
  BY <1>1, TxFacts
<1>3. RefundsOnRemove(s) => CanRefundLobby(ledger, s)
  BY <1>1 DEF CanRemove
<1>4. /\ row' = [row EXCEPT !.status = "removed"] /\ member' = NobodyIn /\ session' = NoneOpen
      /\ ledger' = IF RefundsOnRemove(s) THEN RefundLobby(ledger, s) ELSE ledger
  BY DEF RemoveLobby, NobodyIn, NoneOpen
<1>5. Fine(row, member, session, ledger)
  BY IInvParts
<1>6. Fine(row', member', session', ledger')
  <2>. HIDE DEF s
  <2>. QED BY <1>2, <1>3, <1>4, <1>5, Removing
<1>7. Moving'
  BY <1>1, EndFacts
<1>. QED BY <1>6, <1>7 DEF IInv, Moving

LEMMA AbortInv ==
  ASSUME IInv, NEW u \in Users, Abort(u)
  PROVE  IInv'
<1>1. tx[u].op # "none" /\ End(u) /\ UNCHANGED world
      /\ UNCHANGED <<row, member, session, ledger>>
  BY DEF Abort
<1>2. Fine(row', member', session', ledger')
  BY <1>1, IInvParts
<1>3. Moving'
  BY <1>1, EndFacts
<1>. QED BY <1>2, <1>3 DEF IInv, Moving

(* The early end moves the time of the end only, and nobody has the row.    *)
LEMMA FinishEarlyInv ==
  ASSUME IInv, NEW u \in Users, FinishEarly(u)
  PROVE  IInv'
<1>1. /\ row.status = "running" /\ row' = [row EXCEPT !.endsAt = now]
      /\ UNCHANGED <<member, session, ledger, lock, tx, now, failures, runner>>
  BY DEF FinishEarly, world
<1>2. Fine(row, member, session, ledger) /\ TypeOfClock /\ Moving
  BY IInvParts DEF Moving
<1>3. row \in Rows /\ session \in [Users -> [status : {"none", "active", "finished"}, balance : Nat]]
  BY <1>2, FineTypes
<1>4. row' \in Rows /\ row'.status = "running" /\ row'.offer = row.offer /\ row'.creator = row.creator
  <2>1. now \in Nat
    BY <1>2 DEF TypeOfClock
  <2>. QED BY <1>1, <1>3, <2>1 DEF Rows
<1>5. Fine(row', member, session, ledger)
  BY <1>1, <1>2, <1>3, <1>4, Trading
<1>6. Fine(row', member', session', ledger')
  BY <1>1, <1>5
<1>7. UserHolds'
  BY <1>1, <1>2 DEF Moving, UserHolds
<1>8. RunnerHolds'
  BY <1>1, <1>2 DEF Moving, RunnerHolds, At
<1>9. Final'
  BY <1>1, <1>2, <1>4 DEF Moving, Final, At
<1>10. TypeOfTx' /\ TypeOfClock' /\ TypeOfRunner'
  BY <1>1, <1>2 DEF Moving, TypeOfTx, TypeOfClock, TypeOfRunner, Doing
<1>. QED BY <1>6, <1>7, <1>8, <1>9, <1>10 DEF IInv

(* A session that is open is one of a tournament that runs.                *)
LEMMA OpenSession ==
  ASSUME IInv, NEW u \in Users, session[u].status = "active"
  PROVE  row.status = "running" /\ ~ At("final")
<1>1. Fine(row, member, session, ledger) /\ Final
  BY DEF IInv
<1>2. row.status \in Statuses
  BY <1>1, FineTypes DEF Rows
<1>3. row.status \notin {"none", "lobby", "cancelled", "removed"}
  BY <1>1 DEF Fine, NoSessions
<1>4. row.status # "finished"
  BY <1>1 DEF Fine, Placed, Closed
<1>5. ~ At("final")
  BY <1>1 DEF Final, Counted, Closed
<1>. QED BY <1>2, <1>3, <1>4, <1>5 DEF Statuses

(* A session written, while it is open.                                    *)
LEMMA SessionInv ==
  ASSUME IInv, NEW u \in Users, session[u].status = "active",
         NEW x \in [status : {"active", "finished"}, balance : Nat],
         session' = [session EXCEPT ![u] = x],
         UNCHANGED <<row, member, ledger, lock, tx, now, failures, runner>>
  PROVE  IInv'
<1>1. row.status = "running" /\ ~ At("final")
  BY OpenSession
<1>2. Fine(row, member, session, ledger) /\ Moving
  BY IInvParts
<1>3. row \in Rows /\ session \in [Users -> [status : {"none", "active", "finished"}, balance : Nat]]
  BY <1>2, FineTypes
<1>4. /\ session' \in [Users -> [status : {"none", "active", "finished"}, balance : Nat]]
      /\ \A v \in Users : session'[v].status = "none" <=> session[v].status = "none"
  <2>1. x \in [status : {"none", "active", "finished"}, balance : Nat] /\ x.status # "none"
    OBVIOUS
  <2>. QED BY <1>3, <2>1
<1>5. Fine(row, member, session', ledger)
  BY <1>1, <1>2, <1>3, <1>4, Trading
<1>6. Fine(row', member', session', ledger')
  BY <1>5
<1>7. Final'
  BY <1>1, <1>2 DEF Moving, Final, At
<1>8. UserHolds' /\ RunnerHolds'
  BY <1>2 DEF Moving, UserHolds, RunnerHolds, At
<1>9. TypeOfTx' /\ TypeOfClock' /\ TypeOfRunner'
  BY <1>2 DEF Moving, TypeOfTx, TypeOfClock, TypeOfRunner, Doing
<1>. QED BY <1>6, <1>7, <1>8, <1>9 DEF IInv

LEMMA TradeInv ==
  ASSUME IInv, NEW u \in Users, NEW b \in Balances, Trade(u, b)
  PROVE  IInv'
<1>. DEFINE x == [session[u] EXCEPT !.balance = b]
<1>1. /\ session[u].status = "active" /\ session' = [session EXCEPT ![u].balance = b]
      /\ UNCHANGED <<row, member, ledger, lock, tx, now, failures, runner>>
  BY DEF Trade, world
<1>2. session \in [Users -> [status : {"none", "active", "finished"}, balance : Nat]]
  BY IInvParts, FineTypes
<1>3. b \in Nat
  BY TournamentsAssumption
<1>4. x \in [status : {"active", "finished"}, balance : Nat]
  BY <1>1, <1>2, <1>3
<1>5. session' = [session EXCEPT ![u] = x]
  BY <1>1
<1>. HIDE DEF x
<1>. QED BY <1>1, <1>4, <1>5, SessionInv

LEMMA CloseSessionInv ==
  ASSUME IInv, NEW b \in Balances, CloseSession(b)
  PROVE  IInv'
<1>. DEFINE u == CHOOSE v \in ToClose : TRUE
            x == [status |-> "finished", balance |-> b]
<1>1. u \in Users /\ session[u].status = "active"
  <2>1. u \in ToClose
    BY DEF CloseSession
  <2>. HIDE DEF u
  <2>. QED BY <2>1 DEF ToClose
<1>2. /\ session' = [session EXCEPT ![u] = x]
      /\ UNCHANGED <<row, member, ledger, lock, tx, now, failures, runner>>
  BY DEF CloseSession, outside
<1>3. x \in [status : {"active", "finished"}, balance : Nat]
  BY TournamentsAssumption
<1>. HIDE DEF u, x
<1>. QED BY <1>1, <1>2, <1>3, SessionInv

LEMMA TickInv ==
  ASSUME IInv, Tick
  PROVE  IInv'
<1>1. /\ now < MaxTime /\ now' = now + 1
      /\ UNCHANGED <<row, member, session, ledger, lock, tx, runner, failures>>
  BY DEF Tick
<1>2. Fine(row, member, session, ledger) /\ Moving
  BY IInvParts
<1>3. TypeOfClock'
  BY <1>1, <1>2, TournamentsAssumption DEF Moving, TypeOfClock
<1>4. Fine(row', member', session', ledger')
  BY <1>1, <1>2
<1>5. TypeOfTx' /\ TypeOfRunner' /\ UserHolds' /\ RunnerHolds' /\ Final'
  BY <1>1, <1>2 DEF Moving, TypeOfTx, TypeOfRunner, UserHolds, RunnerHolds, Final, At, Doing
<1>. QED BY <1>3, <1>4, <1>5 DEF IInv

-----------------------------------------------------------------------------
(* The runner.                                                             *)

(* It goes on without touching the tables or the lock.                     *)
LEMMA GotoInv ==
  ASSUME IInv, NEW pc \in {"start", "closing"}, Goto(pc), ~ At("starting"),
         pc = "closing" => row.status = "running",
         UNCHANGED <<row, member, session, ledger, lock, tx, now, failures>>
  PROVE  IInv'
<1>1. Fine(row, member, session, ledger) /\ Moving
  BY IInvParts
<1>2. runner'.pc = pc
  BY DEF Goto
<1>3. Fine(row', member', session', ledger')
  BY <1>1
<1>4. TypeOfTx' /\ TypeOfClock' /\ TypeOfRunner' /\ UserHolds'
  BY <1>1, <1>2 DEF Moving, TypeOfTx, TypeOfClock, TypeOfRunner, UserHolds, Doing
<1>5. RunnerHolds'
  BY <1>1, <1>2 DEF Moving, RunnerHolds, At
<1>6. Final'
  BY <1>2 DEF Final, At
<1>. QED BY <1>3, <1>4, <1>5, <1>6 DEF IInv

LEMMA StartDueInv ==
  ASSUME IInv, StartDue
  PROVE  IInv'
<1>1. At("idle") /\ Goto("start")
      /\ UNCHANGED <<row, member, session, ledger, lock, tx, now, failures>>
  BY DEF StartDue, outside
<1>2. ~ At("starting")
  BY <1>1 DEF At
<1>. QED BY <1>1, <1>2, GotoInv

LEMMA FinishDueInv ==
  ASSUME IInv, FinishDue
  PROVE  IInv'
<1>1. At("idle") /\ Goto("closing") /\ row.status = "running"
      /\ UNCHANGED <<row, member, session, ledger, lock, tx, now, failures>>
  BY DEF FinishDue, DueForFinal, outside
<1>2. ~ At("starting")
  BY <1>1 DEF At
<1>. QED BY <1>1, <1>2, GotoInv

LEMMA LockToStartInv ==
  ASSUME IInv, LockToStart
  PROVE  IInv'
<1>1. /\ lock = None /\ lock' = Runner /\ tx' = [tx EXCEPT ![Runner] = Read("start", now)]
      /\ Goto("starting") /\ UNCHANGED <<row, member, session, ledger, now, failures>>
  BY DEF LockToStart, Unlocked, outside
<1>2. Fine(row, member, session, ledger) /\ Moving
  BY IInvParts
<1>3. runner'.pc = "starting"
  BY <1>1 DEF Goto
<1>4. DOMAIN tx = Callers /\ Runner \in Callers
  BY <1>2 DEF Moving, TypeOfTx, Callers
<1>5. DOMAIN tx' = Callers /\ tx'[Runner] = Read("start", now) /\ \A v \in Users : tx'[v] = tx[v]
  BY <1>1, <1>4, NobodyElse DEF Callers
<1>6. \A v \in Users : tx[v].op = "none"
  BY <1>1, <1>2, NobodyElse DEF Moving, UserHolds
<1>7. TypeOfTx'
  BY <1>1, <1>2, <1>4, <1>5 DEF Moving, TypeOfTx, Doing
<1>8. UserHolds'
  BY <1>5, <1>6 DEF UserHolds
<1>9. RunnerHolds'
  BY <1>1, <1>3, <1>5 DEF RunnerHolds, At, Read
<1>10. Final'
  BY <1>3 DEF Final, At
<1>11. Fine(row', member', session', ledger')
  BY <1>1, <1>2
<1>12. TypeOfClock' /\ TypeOfRunner'
  BY <1>1, <1>2, <1>3 DEF Moving, TypeOfClock, TypeOfRunner
<1>. QED BY <1>7, <1>8, <1>9, <1>10, <1>11, <1>12 DEF IInv

(* Its transaction ends.                                                   *)
LEMMA RunnerEnds ==
  ASSUME IInv, At("starting"), End(Runner), Goto("idle"), UNCHANGED <<now, failures>>
  PROVE  Moving'
<1>1. Moving
  BY IInvParts
<1>2. lock = Runner
  BY <1>1 DEF Moving, RunnerHolds
<1>3. runner'.pc = "idle" /\ tx' = [tx EXCEPT ![Runner] = NoTx] /\ lock' = None
  BY <1>2 DEF Goto, End
<1>4. DOMAIN tx = Callers /\ Runner \in Callers
  BY <1>1 DEF Moving, TypeOfTx, Callers
<1>5. DOMAIN tx' = Callers /\ \A v \in Users : tx'[v] = tx[v]
  BY <1>3, <1>4, NobodyElse DEF Callers
<1>6. \A v \in Users : tx[v].op = "none"
  BY <1>1, <1>2, NobodyElse DEF Moving, UserHolds
<1>7. TypeOfTx'
  BY <1>1, <1>3, <1>5 DEF Moving, TypeOfTx, Doing
<1>8. UserHolds' /\ RunnerHolds' /\ Final'
  BY <1>3, <1>5, <1>6, NobodyElse DEF UserHolds, RunnerHolds, Final, At
<1>9. TypeOfClock' /\ TypeOfRunner'
  BY <1>1, <1>3 DEF Moving, TypeOfClock, TypeOfRunner
<1>. QED BY <1>7, <1>8, <1>9 DEF Moving

(* What it starts or cancels is the lobby it has read.                     *)
LEMMA DueFacts ==
  ASSUME IInv, At("starting"), StillDue(tx[Runner])
  PROVE  /\ row.status = "lobby" /\ row.offer.scheduled
         /\ tx[Runner].row = row /\ tx[Runner].member = member
BY DEF IInv, RunnerHolds, StillDue, Open

LEMMA StartScheduledInv ==
  ASSUME IInv, StartScheduled
  PROVE  IInv'
<1>. DEFINE s == tx[Runner]
<1>1. /\ At("starting") /\ StillDue(s) /\ Enough(s)
      /\ (IF row.status = "lobby" THEN Launched(member) ELSE NotLaunched)
      /\ End(Runner) /\ Goto("idle") /\ UNCHANGED <<member, ledger, now, failures>>
  BY DEF StartScheduled, outside
<1>2. row.status = "lobby" /\ s.row = row /\ s.member = member
  BY <1>1, DueFacts
<1>3. Fine(row, member, session, ledger) /\ TypeOfClock
  BY DEF IInv
<1>4. /\ row' = [row EXCEPT !.status = "running", !.endsAt = now + Duration]
      /\ session' = Started(member, session)
  BY <1>1, <1>2 DEF Launched, Started
<1>5. row.offer.teams => BothTeams(member)
  BY <1>1, <1>2 DEF Enough
<1>6. now + Duration \in Nat
  BY <1>3, TournamentsAssumption DEF TypeOfClock
<1>7. Fine([row EXCEPT !.status = "running", !.endsAt = now + Duration], member,
           Started(member, session), ledger)
  BY <1>2, <1>3, <1>5, <1>6, Launching
<1>8. Fine(row', member', session', ledger')
  BY <1>1, <1>4, <1>7
<1>9. Moving'
  BY <1>1, RunnerEnds
<1>. QED BY <1>8, <1>9 DEF IInv, Moving

LEMMA CancelScheduledInv ==
  ASSUME IInv, CancelScheduled
  PROVE  IInv'
<1>. DEFINE s == tx[Runner]
<1>1. /\ At("starting") /\ StillDue(s) /\ CanRefundLobby(ledger, s)
      /\ row' = [row EXCEPT !.status = "cancelled"] /\ ledger' = RefundLobby(ledger, s)
      /\ End(Runner) /\ Goto("idle") /\ UNCHANGED <<member, session, now, failures>>
  BY DEF CancelScheduled, outside
<1>2. row.status = "lobby" /\ s.row = row /\ s.member = member
  BY <1>1, DueFacts
<1>3. Fine(row, member, session, ledger)
  BY DEF IInv
<1>4. Fine(row', member', session', ledger')
  <2>. HIDE DEF s
  <2>1. Fine([row EXCEPT !.status = "cancelled"], member, session, RefundLobby(ledger, s))
    BY <1>1, <1>2, <1>3, Canceling
  <2>. QED BY <1>1, <2>1
<1>5. Moving'
  BY <1>1, RunnerEnds
<1>. QED BY <1>4, <1>5 DEF IInv, Moving

LEMMA NothingToStartInv ==
  ASSUME IInv, NothingToStart
  PROVE  IInv'
<1>1. /\ At("starting") /\ End(Runner) /\ Goto("idle")
      /\ UNCHANGED <<row, member, session, ledger, now, failures>>
  BY DEF NothingToStart, outside
<1>2. Moving'
  BY <1>1, RunnerEnds
<1>3. Fine(row', member', session', ledger')
  BY <1>1, IInvParts
<1>. QED BY <1>2, <1>3 DEF IInv, Moving

LEMMA FinalReadInv ==
  ASSUME IInv, FinalRead
  PROVE  IInv'
<1>1. /\ At("closing") /\ ToClose = {}
      /\ UNCHANGED <<row, member, session, ledger, lock, tx, now, failures>>
  BY DEF FinalRead, outside
<1>2. PICK rank \in Rankings(member, session) :
        runner' = [pc |-> "final",
                   place |-> Result(row.offer, member, session, rank).place,
                   prize |-> Result(row.offer, member, session, rank).prize]
  BY DEF FinalRead
<1>. DEFINE result == Result(row.offer, member, session, rank)
<1>3. runner'.pc = "final" /\ runner'.place = result.place /\ runner'.prize = result.prize
  BY <1>2
<1>. HIDE DEF result
<1>4. Fine(row, member, session, ledger) /\ Moving
  BY IInvParts
<1>5. row.status = "running"
  BY <1>1, <1>4 DEF Moving, Final
<1>6. Gathered(row, member, ledger) /\ Playing(row, member, session)
  BY <1>4, <1>5 DEF Fine
<1>7. IsOffer(row.offer) /\ row.creator \in Users /\ member[row.creator].in
  BY <1>4, <1>5, OfferInLobby
<1>8. IsFiniteSet(In(member)) /\ In(member) # {}
  BY <1>7, InFacts
<1>9. row.offer.teams => BothTeams(member) /\ \A u \in In(member) : member[u].team \in Teams
  BY <1>6 DEF Gathered, Fits, Playing
<1>10. \A u \in In(member) : session[u].balance \in Nat
  <2>1. session \in [Users -> [status : {"none", "active", "finished"}, balance : Nat]]
    BY <1>4, FineTypes
  <2>. QED BY <2>1, InFacts
<1>11. /\ result.place \in [In(member) -> Nat] /\ result.prize \in [In(member) -> Nat]
       /\ SumFunction(result.prize) = PrizePool(row.offer, Cardinality(In(member)))
       /\ Deserved(row.offer, member, session, result.place, result.prize)
  BY <1>7, <1>8, <1>9, <1>10, ResultIsFair DEF result
<1>12. Closed(session)
  BY <1>1 DEF ToClose, Closed
<1>13. Counted(row.offer, member, session, result.place, result.prize)
  BY <1>11, <1>12 DEF Counted
<1>14. Final'
  BY <1>1, <1>3, <1>5, <1>13 DEF Final
<1>15. RunnerHolds'
  BY <1>1, <1>3, <1>4 DEF Moving, RunnerHolds, At
<1>16. TypeOfTx' /\ TypeOfClock' /\ TypeOfRunner' /\ UserHolds'
  BY <1>1, <1>3, <1>4 DEF Moving, TypeOfTx, TypeOfClock, TypeOfRunner, UserHolds, Doing
<1>17. Fine(row', member', session', ledger')
  BY <1>1, <1>4
<1>. QED BY <1>14, <1>15, <1>16, <1>17 DEF IInv

LEMMA FinalizeInv ==
  ASSUME IInv, Finalize
  PROVE  IInv'
<1>1. /\ At("final") /\ row.status = "running" /\ row' = [row EXCEPT !.status = "finished"]
      /\ ledger' = PayPrizes(ledger, runner.prize) /\ runner' = Resting
      /\ UNCHANGED <<session, lock, tx, now, failures>>
  BY DEF Finalize, outside
<1>2. Fine(row, member, session, ledger) /\ Moving
  BY IInvParts
<1>3. Counted(row.offer, member, session, runner.place, runner.prize)
  BY <1>1, <1>2 DEF Moving, Final
<1>4. member' = WithResults(member, runner.place, runner.prize)
  <2>1. DOMAIN runner.place = In(member)
    BY <1>3 DEF Counted
  <2>. QED BY <2>1 DEF Finalize, WithResults
<1>5. Fine([row EXCEPT !.status = "finished"], WithResults(member, runner.place, runner.prize),
           session, PayPrizes(ledger, runner.prize))
  BY <1>1, <1>2, <1>3, Finishing
<1>6. Fine(row', member', session', ledger')
  BY <1>1, <1>4, <1>5
<1>7. \A u \in Users : tx[u].op = "none"
  BY <1>1, <1>2 DEF Moving, UserHolds
<1>8. runner'.pc = "idle"
  BY <1>1 DEF Resting
<1>9. UserHolds' /\ RunnerHolds' /\ Final'
  BY <1>1, <1>2, <1>7, <1>8 DEF Moving, UserHolds, RunnerHolds, Final, At
<1>10. TypeOfTx' /\ TypeOfClock' /\ TypeOfRunner'
  BY <1>1, <1>2, <1>8 DEF Moving, TypeOfTx, TypeOfClock, TypeOfRunner, Doing
<1>. QED BY <1>6, <1>9, <1>10 DEF IInv

LEMMA RunnerFailsInv ==
  ASSUME IInv, RunnerFails
  PROVE  IInv'
<1>1. /\ failures < MaxFailures /\ failures' = failures + 1 /\ runner' = Resting /\ End(Runner)
      /\ UNCHANGED <<now, row, member, session, ledger>>
  BY DEF RunnerFails
<1>2. Fine(row, member, session, ledger) /\ Moving
  BY IInvParts
<1>3. /\ runner'.pc = "idle" /\ tx' = [tx EXCEPT ![Runner] = NoTx]
      /\ lock' = IF lock = Runner THEN None ELSE lock
  BY <1>1 DEF Resting, End
<1>4. DOMAIN tx = Callers
  BY <1>2 DEF Moving, TypeOfTx
<1>5. DOMAIN tx' = Callers /\ \A v \in Users : tx'[v] = tx[v]
  BY <1>3, <1>4, NobodyElse DEF Callers
<1>6. TypeOfTx'
  BY <1>2, <1>3, <1>5 DEF Moving, TypeOfTx, Doing
<1>7. UserHolds'
  BY <1>1, <1>2, <1>3, <1>5, NobodyElse DEF Moving, UserHolds
<1>8. RunnerHolds' /\ Final'
  BY <1>1, <1>3, NobodyElse DEF RunnerHolds, Final, At
<1>9. TypeOfClock' /\ TypeOfRunner'
  BY <1>1, <1>2, <1>3, TournamentsAssumption DEF Moving, TypeOfClock, TypeOfRunner
<1>10. Fine(row', member', session', ledger')
  BY <1>1, <1>2
<1>. QED BY <1>6, <1>7, <1>8, <1>9, <1>10 DEF IInv

-----------------------------------------------------------------------------
(* Theorems.                                                               *)

LEMMA Inductive == IInv /\ [Next]_vars => IInv'
<1>. SUFFICES ASSUME IInv, [Next]_vars PROVE IInv'
  OBVIOUS
<1>1. CASE UNCHANGED vars
  BY <1>1 DEF vars, IInv, Fine, TypeOfClock, TypeOfTx, TypeOfRunner, UserHolds, RunnerHolds,
              Final, At, Doing
<1>2. ASSUME NEW u \in Hosts, NEW o \in Offers, Create(u, o) PROVE IInv'
  BY <1>2, CreateInv
<1>3. ASSUME NEW u \in Users, Request(u) PROVE IInv'
  BY <1>3, RequestInv
<1>4. ASSUME NEW u \in Users, Commit(u) PROVE IInv'
  BY <1>4, JoinInv, MoveTeamInv, LeaveInv, SetReadyInv, RemoveLobbyInv, AbortInv DEF Commit
<1>5. ASSUME NEW u \in Users, FinishEarly(u) PROVE IInv'
  BY <1>5, FinishEarlyInv
<1>6. ASSUME NEW u \in Users, NEW b \in Balances, Trade(u, b) PROVE IInv'
  BY <1>6, TradeInv
<1>7. ASSUME RunnerStep PROVE IInv'
  BY <1>7, StartDueInv, LockToStartInv, StartScheduledInv, CancelScheduledInv, NothingToStartInv,
     FinishDueInv, FinalReadInv, FinalizeInv, CloseSessionInv DEF RunnerStep
<1>8. CASE RunnerFails
  BY <1>8, RunnerFailsInv
<1>9. CASE Tick
  BY <1>9, TickInv
<1>. QED BY <1>1, <1>2, <1>3, <1>4, <1>5, <1>6, <1>7, <1>8, <1>9 DEF Next

(* The invariant holds, for any people, offers, balances and failures.     *)
THEOREM Invariance == Spec => []IInv
<1>. QED BY InitInv, Inductive, PTL DEF Spec

LEMMA InvTypes == IInv => TypeOK
<1>. SUFFICES ASSUME IInv PROVE TypeOK
  OBVIOUS
<1>1. Fine(row, member, session, ledger) /\ Moving
  BY IInvParts
<1>2. /\ row \in Rows /\ (row.status # "none" => row.offer \in Offers /\ row.creator \in Users)
      /\ member \in [Users -> Members]
      /\ session \in [Users -> [status : {"none", "active", "finished"}, balance : Nat]]
      /\ Book(ledger)
  BY <1>1, FineTypes
<1>3. /\ ledger = [balance |-> ledger.balance, rows |-> ledger.rows]
      /\ ledger.balance \in [Users -> Nat] /\ IsFiniteSet(ledger.rows)
      /\ \A r \in ledger.rows : r.user \in Users /\ r.delta \in Int
  BY <1>2 DEF Book, WholeRows
<1>4. runner.pc = "final" =>
        runner.place \in [In(member) -> Nat] /\ runner.prize \in [In(member) -> Nat]
  BY <1>1 DEF Moving, Final, At, Counted
<1>5. /\ now \in 0 .. MaxTime /\ failures \in 0 .. MaxFailures
      /\ lock \in Callers \cup {None} /\ DOMAIN tx = Callers
      /\ \A u \in Users :
           /\ Doing(u, "join") => tx[u].arg \in Teams \cup {None}
           /\ Doing(u, "move") => tx[u].arg \in [user : Users, team : Teams]
           /\ Doing(u, "ready") => tx[u].arg \in BOOLEAN
      /\ runner.pc \in {"idle", "start", "starting", "closing", "final"}
  BY <1>1 DEF Moving, TypeOfClock, TypeOfTx, TypeOfRunner
<1>. QED BY <1>2, <1>3, <1>4, <1>5 DEF TypeOK, Rows

(* Every variable stays in its type, and no balance is ever negative.      *)
THEOREM TypeCorrect == Spec => []TypeOK
<1>. QED BY Invariance, InvTypes, PTL

LEMMA InvCoins == IInv => CoinsFollowMembership
<1>. SUFFICES ASSUME IInv PROVE CoinsFollowMembership
  OBVIOUS
<1>1. Fine(row, member, session, ledger)
  BY DEF IInv
<1>2. row.status \in Statuses
  BY <1>1, FineTypes DEF Rows
<1>3. \A u : Net(u) = NetIn(ledger, u) /\ Stake(u) = StakeIn(row, member, u)
  BY DEF Net, NetIn, RowsOf, Stake, StakeIn
<1>4. ASSUME row.status \in {"lobby", "running"}
      PROVE  \A u \in Users : Net(u) = Stake(u)
  BY <1>1, <1>3, <1>4 DEF Fine, Gathered
<1>5. ASSUME row.status = "finished"
      PROVE  /\ \A u \in Users : Net(u) = Stake(u) - member[u].prize
             /\ SumFunction([u \in Users |-> member[u].prize])
                  = PrizePool(row.offer, Cardinality(In(member)))
  BY <1>1, <1>3, <1>5 DEF Fine, Placed
<1>6. ASSUME row.status = "cancelled"
      PROVE  \A u \in Users : Net(u) = 0
  BY <1>1, <1>3, <1>6 DEF Fine
<1>7. ASSUME row.status \in {"none", "removed"}
      PROVE  SumFunction([u \in Users |-> Net(u)]) = 0
  <2>1. [u \in Users |-> Net(u)] = [u \in Users |-> NetIn(ledger, u)]
    BY <1>3
  <2>2. CASE row.status = "removed"
    BY <1>1, <2>1, <2>2 DEF Fine
  <2>3. CASE row.status = "none"
    <3>. DEFINE f == [u \in Users |-> NetIn(ledger, u)]
    <3>1. \A u \in Users : RowsOf(ledger.rows, u) = {}
      BY <1>1, <2>3 DEF Fine, RowsOf
    <3>2. \A u \in Users : f[u] = 0
      BY <3>1, SumOfNone DEF NetIn
    <3>3. SumFunction(f) = SumOver(f)
      BY DEF SumFunction, SumOver
    <3>. HIDE DEF f
    <3>4. SumFunction(f) = 0
      BY <3>2, <3>3, SumOfZeros
    <3>. QED BY <2>1, <3>4 DEF f
  <2>. QED BY <1>7, <2>2, <2>3
<1>. QED BY <1>2, <1>4, <1>5, <1>6, <1>7 DEF CoinsFollowMembership, Statuses

(* Coins follow the membership through every interleaving of requests, of    *)
(* the start, the final and failures, for any shares of the prizes.         *)
THEOREM CoinsFollow == Spec => []CoinsFollowMembership
<1>. QED BY Invariance, InvCoins, PTL

LEMMA InvSessions == IInv => PlayersHaveSessions
<1>. SUFFICES ASSUME IInv PROVE PlayersHaveSessions
  OBVIOUS
<1>1. Fine(row, member, session, ledger)
  BY DEF IInv
<1>2. ASSUME row.status = "running"
      PROVE  {u \in Users : session[u].status # "none"} = In(member)
  BY <1>1, <1>2 DEF Fine, Playing, In
<1>3. ASSUME row.status \in {"lobby", "running"}
      PROVE  Fits(row.offer, member)
  BY <1>1, <1>3 DEF Fine, Gathered
<1>. QED BY <1>2, <1>3 DEF PlayersHaveSessions, Fits

(* No place is sold twice, whoever races for the last one, and who is in a  *)
(* started tournament has a session.                                       *)
THEOREM HaveSessions == Spec => []PlayersHaveSessions
<1>. QED BY Invariance, InvSessions, PTL

LEMMA InvDeserved == IInv => PlacesAreDeserved
<1>. SUFFICES ASSUME IInv, row.status = "finished"
             PROVE  Deserved(row.offer, member, session,
                             [u \in Users |-> member[u].place], [u \in Users |-> member[u].prize])
  <2>1. In(member) \subseteq Users
    BY DEF In
  <2>. QED BY <2>1 DEF PlacesAreDeserved, Deserved
<1>. QED BY DEF IInv, Fine, Placed

(* Nobody is placed below a worse result or paid less for a better place,    *)
(* though the final counts outside of the transaction that writes.          *)
THEOREM AreDeserved == Spec => []PlacesAreDeserved
<1>. QED BY Invariance, InvDeserved, PTL

(* A step from a lobby to a running tournament.                            *)
Dragged == row.status = "lobby" /\ row'.status = "running" /\ ~ row.offer.scheduled

LEMMA LaunchIsReady ==
  ASSUME NEW n, LaunchIfReady(row, n, n), row'.status # row.status
  PROVE  \A u \in In(n) : n[u].ready
BY DEF LaunchIfReady, NotLaunched, EverybodyReady

LEMMA NotDraggedStep ==
  ASSUME IInv, [Next]_vars, Dragged
  PROVE  \A u \in In(member') : member'[u].ready
<1>. DEFINE Goal == \A u \in In(member') : member'[u].ready
<1>1. row' # row /\ row'.status # row.status
  BY DEF Dragged
<1>2. ASSUME NEW u \in Users, Leave(u) PROVE Goal
  <2>. DEFINE n == [member EXCEPT ![u] = NotIn]
  <2>1. tx[u].op # "none"
    BY <1>2 DEF Leave, Doing
  <2>2. tx[u].row = row /\ tx[u].member = member
    BY <2>1, TxFacts
  <2>3. member' = n /\ LaunchIfReady(row, n, n)
    BY <1>2, <2>2 DEF Leave
  <2>. HIDE DEF n
  <2>. QED BY <1>1, <2>3, LaunchIsReady
<1>3. ASSUME NEW u \in Users, SetReady(u) PROVE Goal
  <2>. DEFINE n == [member EXCEPT ![u].ready = tx[u].arg]
  <2>1. tx[u].op # "none"
    BY <1>3 DEF SetReady, Doing
  <2>2. tx[u].row = row /\ tx[u].member = member
    BY <2>1, TxFacts
  <2>3. member' = n /\ LaunchIfReady(row, n, n)
    BY <1>3, <2>2 DEF SetReady
  <2>. HIDE DEF n
  <2>. QED BY <1>1, <2>3, LaunchIsReady
<1>4. CASE StartScheduled
  BY <1>4, DueFacts DEF StartScheduled, Dragged
<1>5. row \in Rows
  BY IInvParts, FineTypes
<1>6. ASSUME NEW u \in Users, RemoveLobby(u) PROVE FALSE
  <2>1. row' = [row EXCEPT !.status = "removed"]
    BY <1>6 DEF RemoveLobby
  <2>. QED BY <1>5, <2>1 DEF Dragged, Rows
<1>7. ~ CancelScheduled
  <2>1. CancelScheduled => row' = [row EXCEPT !.status = "cancelled"]
    BY DEF CancelScheduled
  <2>. QED BY <1>5, <2>1 DEF Dragged, Rows
<1>8. ~ Finalize
  BY DEF Finalize, Dragged
<1>9. ASSUME NEW u \in Users PROVE ~ FinishEarly(u)
  BY DEF FinishEarly, Dragged
<1>10. ASSUME NEW u \in Hosts, NEW o \in Offers PROVE ~ Create(u, o)
  BY DEF Create, Dragged
<1>11. ASSUME NEW u \in Users PROVE ~ Request(u) /\ ~ Join(u) /\ ~ MoveTeam(u) /\ ~ Abort(u)
  BY <1>1 DEF Request, Begin, Join, MoveTeam, Abort
<1>12. ASSUME NEW u \in Users, NEW b \in Balances PROVE ~ Trade(u, b)
  BY <1>1 DEF Trade
<1>13. ~ UNCHANGED vars /\ ~ RunnerFails /\ ~ Tick
  BY <1>1 DEF vars, RunnerFails, Tick
<1>14. ~ StartDue /\ ~ LockToStart /\ ~ NothingToStart /\ ~ FinishDue /\ ~ FinalRead
       /\ \A b \in Balances : ~ CloseSession(b)
  BY <1>1 DEF StartDue, LockToStart, NothingToStart, FinishDue, FinalRead, CloseSession
<1>. QED BY <1>2, <1>3, <1>4, <1>6, <1>7, <1>8, <1>9, <1>10, <1>11, <1>12, <1>13, <1>14
     DEF Next, Commit, RunnerStep

(* Nobody is started behind his back: the composition that was found ready   *)
(* is the one that starts.                                                 *)
THEOREM NotDragged == Spec => NobodyIsDragged
<1>1. IInv /\ [Next]_vars =>
        [row.status = "lobby" /\ row'.status = "running" /\ ~ row.offer.scheduled =>
           \A u \in In(member') : member'[u].ready]_vars
  BY NotDraggedStep DEF Dragged
<1>. QED BY <1>1, Invariance, PTL DEF Spec, NobodyIsDragged

(* A step after the final.                                                 *)
Lasting ==
  /\ row'.status \in {"finished", "removed"}
  /\ ledger' = ledger /\ pass' = pass
  /\ row'.status = "finished" => member' = member /\ session' = session

LEMMA AfterTheFinal ==
  ASSUME IInv, [Next]_vars, row.status = "finished"
  PROVE  Lasting
<1>1. ASSUME UNCHANGED <<row, member, session, ledger, pass>> PROVE Lasting
  BY <1>1 DEF Lasting
<1>2. ASSUME NEW u \in Users, RemoveLobby(u) PROVE Lasting
  <2>1. tx[u].op # "none"
    BY <1>2 DEF RemoveLobby, Doing
  <2>2. tx[u].row = row
    BY <2>1, TxFacts
  <2>3. ~ RefundsOnRemove(tx[u])
    BY <2>2 DEF RefundsOnRemove, Open
  <2>4. row' = [row EXCEPT !.status = "removed"] /\ ledger' = ledger /\ pass' = pass
    BY <1>2, <2>3 DEF RemoveLobby, world
  <2>5. row \in Rows
    BY IInvParts, FineTypes
  <2>6. row'.status = "removed"
    BY <2>4, <2>5 DEF Rows
  <2>. QED BY <2>4, <2>6 DEF Lasting
<1>3. ASSUME NEW u \in Users PROVE ~ Join(u) /\ ~ MoveTeam(u) /\ ~ Leave(u) /\ ~ SetReady(u)
  <2>1. tx[u].op # "none" => tx[u].row = row
    BY TxFacts
  <2>2. tx[u].op # "none" => ~ Open(tx[u])
    BY <2>1 DEF Open
  <2>3. ~ Join(u)
    BY <2>2 DEF Join, Doing, CanJoin
  <2>4. ~ MoveTeam(u)
    BY <2>2 DEF MoveTeam, Doing, CanMove
  <2>5. ~ Leave(u)
    BY <2>2 DEF Leave, Doing, CanLeave
  <2>6. ~ SetReady(u)
    BY <2>2 DEF SetReady, Doing, CanSetReady
  <2>. QED BY <2>3, <2>4, <2>5, <2>6
<1>4. ~ StartScheduled /\ ~ CancelScheduled
  BY DueFacts DEF StartScheduled, CancelScheduled
<1>5. ~ Finalize /\ ~ FinishDue
  BY DEF Finalize, FinishDue, DueForFinal
<1>6. ASSUME NEW b \in Balances PROVE ~ CloseSession(b) /\ \A u \in Users : ~ Trade(u, b)
  <2>1. \A u \in Users : session[u].status # "active"
    BY OpenSession
  <2>2. ~ CloseSession(b)
    BY <2>1 DEF CloseSession, ToClose
  <2>3. \A u \in Users : ~ Trade(u, b)
    BY <2>1 DEF Trade
  <2>. QED BY <2>2, <2>3
<1>7. ASSUME NEW u \in Users PROVE ~ FinishEarly(u)
  BY DEF FinishEarly
<1>8. ASSUME NEW u \in Hosts, NEW o \in Offers PROVE ~ Create(u, o)
  BY DEF Create
<1>9. ASSUME NEW u \in Users, Request(u) \/ Abort(u) PROVE Lasting
  BY <1>1, <1>9 DEF Request, Begin, Abort, world
<1>10. CASE StartDue \/ LockToStart \/ NothingToStart \/ FinalRead
  BY <1>1, <1>10 DEF StartDue, LockToStart, NothingToStart, FinalRead
<1>11. CASE RunnerFails \/ Tick \/ UNCHANGED vars
  BY <1>1, <1>11 DEF RunnerFails, Tick, vars
<1>. QED BY <1>2, <1>3, <1>4, <1>5, <1>6, <1>7, <1>8, <1>9, <1>10, <1>11
     DEF Next, Commit, RunnerStep

(* Results are final, whatever transaction was open when they were written.  *)
THEOREM AreFinal == Spec => ResultsAreFinal
<1>1. IInv /\ [Next]_vars =>
        [row.status = "finished" =>
           /\ row'.status \in {"finished", "removed"}
           /\ ledger' = ledger /\ pass' = pass
           /\ row'.status = "finished" => member' = member /\ session' = session]_vars
  BY AfterTheFinal DEF Lasting
<1>. QED BY <1>1, Invariance, PTL DEF Spec, ResultsAreFinal

-----------------------------------------------------------------------------
(* The tournaments implement the coin ledger.                              *)

(* The fees of a lobby are given back under keys that are free.            *)
LEMMA RefundFeesPosts ==
  ASSUME NEW L, Booked(L), Book(L), NEW s, s.row.offer.fee \in Nat,
         \A u \in In(s.member) : CanRefund(L, u, s.row.offer.fee, FeeRef(s.member[u].at))
  PROVE  Settles(L, RefundFees(L, s))
<1>. DEFINE fee == s.row.offer.fee
            U == In(s.member)
            K == RefundFees(L, s)
            amount == [u \in Users |-> fee]
            ref == [u \in Users |-> FeeRef(s.member[u].at)]
<1>1. U \in SUBSET Users /\ \A u \in Users : u \in U <=> s.member[u].in
  BY DEF In
<1>2. CASE fee = 0
  <2>1. K.rows = L.rows /\ K = [balance |-> K.balance, rows |-> K.rows]
    BY <1>2 DEF RefundFees
  <2>2. K.balance = [u \in Users |-> L.balance[u] + IF s.member[u].in THEN 0 ELSE 0]
    BY <1>2 DEF RefundFees
  <2>3. L.balance \in [Users -> Nat] /\ L = [balance |-> L.balance, rows |-> L.rows]
    BY DEF Book
  <2>. HIDE DEF K
  <2>4. K.balance = L.balance
    BY <2>2, <2>3
  <2>5. K = L
    BY <2>1, <2>3, <2>4
  <2>. QED BY <2>5 DEF K, Settles
<1>3. CASE fee # 0
  <2>1. \A u \in U : amount[u] \in Nat /\ Fresh(L, u, "TOURNAMENT_REFUND", ref[u])
    BY <1>1, <1>3 DEF CanRefund, CanCredit
  <2>2. ForEach(L, K, U, amount, "TOURNAMENT_REFUND", ref)
    <3>1. K.balance = [u \in Users |-> L.balance[u] + IF u \in U THEN amount[u] ELSE 0]
      BY <1>1 DEF RefundFees
    <3>2. {Row(u, "TOURNAMENT_REFUND", FeeRef(s.member[u].at), fee) : u \in U}
            = {Row(u, "TOURNAMENT_REFUND", ref[u], amount[u]) : u \in U}
      BY <1>1
    <3>3. K.rows = L.rows \cup {Row(u, "TOURNAMENT_REFUND", FeeRef(s.member[u].at), fee) : u \in U}
      BY <1>3 DEF RefundFees
    <3>. HIDE DEF K, U, ref, amount
    <3>. QED BY <1>1, <3>1, <3>2, <3>3 DEF ForEach
  <2>. HIDE DEF K, U, ref, amount
  <2>3. Settles(L, K)
    BY <2>1, <2>2, ForEachPosts DEF Settles
  <2>. QED BY <2>3 DEF K
<1>. QED BY <1>2, <1>3

LEMMA RefundLobbyPosts ==
  ASSUME NEW L, Booked(L), Book(L), NEW s, s.row.offer.fee \in Nat, s.row.offer.bonus \in Nat,
         s.row.creator \in Users, CanRefundLobby(L, s)
  PROVE  Settles(L, RefundLobby(L, s))
<1>. DEFINE F == RefundFees(L, s)
            K == Refund(F, s.row.creator, s.row.offer.bonus, BonusRef)
<1>1. Settles(L, F)
  BY RefundFeesPosts DEF CanRefundLobby
<1>2. CanCredit(F, s.row.creator, s.row.offer.bonus, "TOURNAMENT_REFUND", BonusRef)
  BY DEF CanRefundLobby, CanRefund
<1>3. Booked(F)
  BY <1>1 DEF Settles
<1>4. RefundLobby(L, s) = Credit(F, s.row.creator, s.row.offer.bonus, "TOURNAMENT_REFUND", BonusRef)
  BY DEF RefundLobby, Refund
<1>. HIDE DEF F
<1>5. Settles(F, RefundLobby(L, s))
  BY <1>2, <1>3, <1>4, CreditPosts
<1>. QED BY <1>1, <1>5, SettlesAgain

(* Nobody has a prize before prizes are paid.                              *)
LEMMA PrizesPost ==
  ASSUME NEW L, Booked(L), NEW U \in SUBSET Users, NEW prize \in [U -> Nat], NoPrize(L)
  PROVE  Settles(L, PayPrizes(L, prize))
<1>. DEFINE W == {u \in U : prize[u] > 0}
            K == PayPrizes(L, prize)
            ref == [u \in W |-> TournamentRef]
<1>1. W \in SUBSET Users /\ \A u \in W : prize[u] \in Nat /\ Fresh(L, u, "TOURNAMENT_PRIZE", ref[u])
  BY DEF Fresh, NoPrize
<1>2. ForEach(L, K, W, prize, "TOURNAMENT_PRIZE", ref)
  <2>1. DOMAIN prize = U
    OBVIOUS
  <2>2. \A u \in Users : (IF u \in U THEN prize[u] ELSE 0) = (IF u \in W THEN prize[u] ELSE 0)
    OBVIOUS
  <2>3. K.balance = [u \in Users |-> L.balance[u] + IF u \in W THEN prize[u] ELSE 0]
    <3>1. K.balance = [u \in Users |-> L.balance[u] + IF u \in U THEN prize[u] ELSE 0]
      BY <2>1 DEF PayPrizes
    <3>. HIDE DEF W, K
    <3>. QED BY <2>2, <3>1
  <2>4. PrizeRows(prize) = {Row(u, "TOURNAMENT_PRIZE", ref[u], prize[u]) : u \in W}
    BY <2>1 DEF PrizeRows
  <2>5. K.rows = L.rows \cup PrizeRows(prize)
    BY DEF PayPrizes
  <2>. HIDE DEF K, W, ref
  <2>. QED BY <1>1, <2>3, <2>4, <2>5 DEF ForEach
<1>. HIDE DEF K, W, ref
<1>3. Settles(L, K)
  BY <1>1, <1>2, ForEachPosts DEF Settles
<1>. QED BY <1>3 DEF K

LEMMA LedgerPosts ==
  ASSUME NEW L, NEW K
  PROVE  Posts(L, K) => Ledger!Posts([balance |-> L.balance, rows |-> L.rows],
                                     [balance |-> K.balance, rows |-> K.rows])
<1>1. ASSUME NEW f, NEW S PROVE Ledger!SumFunctionOnSet(f, S) = SumFunctionOnSet(f, S)
  <2>1. Ledger!SumFunctionOnSet(f, S) = PartialSums(f, S)[S]
    BY DEF Ledger!SumFunctionOnSet, Ledger!FoldFunctionOnSet, Ledger!MapThenFoldSet,
           PartialSums, Defines, Chosen
  <2>. QED BY <2>1, SumIsPartialSum
<1>2. ASSUME NEW rows, NEW u PROVE Ledger!SumDelta(rows, u) = SumDelta(rows, u)
  BY <1>1 DEF Ledger!SumDelta, SumDelta
<1>. QED BY <1>2 DEF Ledger!Posts, Posts, Ledger!KeysUnique, KeysUnique

(* A step posts to the ledger or leaves it alone.                          *)
LEMMA LedgerStep ==
  ASSUME IInv, Booked(ledger), [Next]_vars
  PROVE  Settles(ledger, ledger')
<1>0. Fine(row, member, session, ledger) /\ Shapes(row, member, session, ledger) /\ Book(ledger)
  BY DEF IInv, Fine, Shapes
<1>1. CASE ledger' = ledger
  BY <1>1 DEF Settles
<1>2. ASSUME NEW u \in Hosts, NEW o \in Offers, Create(u, o)
      PROVE  Settles(ledger, ledger')
  <2>. DEFINE paid == Charge(ledger, u, o.fee, "TOURNAMENT_FEE", FeeRef(now))
  <2>1. u \in Users /\ o.fee \in Nat /\ o.bonus \in Nat
    BY TournamentsAssumption, OfferFacts
  <2>2. Settles(ledger, paid)
    BY <1>2, <2>1, ChargePosts DEF Create
  <2>3. /\ CanCharge(paid, u, o.bonus, "TOURNAMENT_BONUS", TournamentRef)
        /\ ledger' = Charge(paid, u, o.bonus, "TOURNAMENT_BONUS", TournamentRef)
    BY <1>2 DEF Create
  <2>4. Booked(paid)
    BY <2>2 DEF Settles
  <2>. HIDE DEF paid
  <2>5. Settles(paid, ledger')
    BY <2>1, <2>3, <2>4, ChargePosts
  <2>. QED BY <2>2, <2>5, SettlesAgain
<1>3. ASSUME NEW u \in Users, tx[u].op # "none"
      PROVE  /\ tx[u].row = row /\ tx[u].member = member
             /\ row.offer.fee \in Nat /\ row.offer.bonus \in Nat /\ row.creator \in Users
  <2>1. tx[u].row = row /\ tx[u].member = member /\ row.status # "none"
    BY <1>3, TxFacts
  <2>. QED BY <1>0, <2>1, OfferOfRow
<1>4. ASSUME NEW u \in Users, Join(u)
      PROVE  Settles(ledger, ledger')
  <2>1. tx[u].op # "none"
    BY <1>4 DEF Join, Doing
  <2>2. /\ CanCharge(ledger, u, row.offer.fee, "TOURNAMENT_FEE", FeeRef(now))
        /\ ledger' = Charge(ledger, u, row.offer.fee, "TOURNAMENT_FEE", FeeRef(now))
    BY <1>3, <1>4, <2>1 DEF Join, CanJoin
  <2>. QED BY <1>3, <2>1, <2>2, ChargePosts
<1>5. ASSUME NEW u \in Users, Leave(u)
      PROVE  Settles(ledger, ledger')
  <2>. DEFINE ref == FeeRef(member[u].at)
  <2>1. tx[u].op # "none"
    BY <1>5 DEF Leave, Doing
  <2>2. /\ CanCredit(ledger, u, row.offer.fee, "TOURNAMENT_REFUND", ref)
        /\ ledger' = Credit(ledger, u, row.offer.fee, "TOURNAMENT_REFUND", ref)
    BY <1>3, <1>5, <2>1 DEF Leave, CanLeave, CanRefund, Refund
  <2>. HIDE DEF ref
  <2>. QED BY <1>3, <2>1, <2>2, CreditPosts
<1>6. ASSUME NEW u \in Users, RemoveLobby(u)
      PROVE  Settles(ledger, ledger')
  <2>1. tx[u].op # "none"
    BY <1>6 DEF RemoveLobby, Doing
  <2>2. \/ ledger' = ledger
        \/ CanRefundLobby(ledger, tx[u]) /\ ledger' = RefundLobby(ledger, tx[u])
    BY <1>6 DEF RemoveLobby, CanRemove
  <2>. QED BY <1>0, <1>1, <1>3, <2>1, <2>2, RefundLobbyPosts
<1>7. CASE CancelScheduled
  <2>1. /\ At("starting") /\ StillDue(tx[Runner]) /\ CanRefundLobby(ledger, tx[Runner])
        /\ ledger' = RefundLobby(ledger, tx[Runner])
    BY <1>7 DEF CancelScheduled
  <2>2. row.status = "lobby" /\ tx[Runner].row = row
    BY <2>1, DueFacts
  <2>3. row.offer.fee \in Nat /\ row.offer.bonus \in Nat /\ row.creator \in Users
    BY <1>0, <2>2, OfferOfRow
  <2>. QED BY <1>0, <2>1, <2>2, <2>3, RefundLobbyPosts
<1>8. CASE Finalize
  <2>1. At("final") /\ row.status = "running" /\ ledger' = PayPrizes(ledger, runner.prize)
    BY <1>8 DEF Finalize
  <2>2. NoPrize(ledger)
    BY <1>0, <2>1 DEF Fine, Gathered
  <2>3. runner.prize \in [In(member) -> Nat]
    BY <2>1 DEF IInv, Final, Counted
  <2>4. In(member) \in SUBSET Users
    BY DEF In
  <2>. QED BY <2>1, <2>2, <2>3, <2>4, PrizesPost
<1>9. ASSUME NEW u \in Users, Request(u) \/ MoveTeam(u) \/ SetReady(u) \/ Abort(u) \/ FinishEarly(u)
      PROVE  ledger' = ledger
  BY <1>9 DEF Request, Begin, MoveTeam, SetReady, Abort, FinishEarly
<1>10. ASSUME NEW b, \/ \E u \in Users : Trade(u, b)
                     \/ CloseSession(b)
       PROVE  ledger' = ledger
  BY <1>10 DEF Trade, CloseSession
<1>11. CASE StartDue \/ LockToStart \/ StartScheduled \/ NothingToStart \/ FinishDue \/ FinalRead
  BY <1>1, <1>11 DEF StartDue, LockToStart, StartScheduled, NothingToStart, FinishDue, FinalRead
<1>12. CASE RunnerFails \/ Tick \/ UNCHANGED vars
  BY <1>1, <1>12 DEF RunnerFails, Tick, vars
<1>. QED
  BY <1>1, <1>2, <1>4, <1>5, <1>6, <1>7, <1>8, <1>9, <1>10, <1>11, <1>12
     DEF Next, Commit, RunnerStep

(* The tournaments implement the coin ledger: every fee, refund and prize is *)
(* a row under a key of its own, and balances are the journal.             *)
THEOREM ImplementsLedger == Spec => CoinLedgerSpec
<1>1. Init => ledger = NewLedger /\ Booked(ledger)
  BY NewIsBooked DEF Init
<1>2. IInv /\ Booked(ledger) /\ [Next]_vars => Booked(ledger)' /\ [Ledger!Post]_<<ledger.balance, ledger.rows>>
  <2>. SUFFICES ASSUME IInv, Booked(ledger), [Next]_vars
                PROVE  Booked(ledger)' /\ [Ledger!Post]_<<ledger.balance, ledger.rows>>
    OBVIOUS
  <2>1. Settles(ledger, ledger')
    BY LedgerStep
  <2>. QED BY <2>1, LedgerPosts DEF Ledger!Post, Settles
<1>3. ledger = NewLedger => Ledger!Init
  BY DEF Ledger!Init, NewLedger
<1>. QED BY <1>1, <1>2, <1>3, Invariance, PTL DEF Spec, CoinLedgerSpec, Ledger!Spec

==============================================================================
