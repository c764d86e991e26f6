------------------------ MODULE CashDispenser_proofs ------------------------
(***************************************************************************)
(* Paying out: at any time the request is with nobody, with the driver,    *)
(* answered in the queue or never to be answered, and each of the four     *)
(* says how the notes given, the sums of the manager and the change agree  *)
(* (DispenserInv).                                                         *)
(*                                                                         *)
(* The fold of canDispense is studied as a function on sets of nominals    *)
(* (Greedy): from it, that what has been offered is what is given as long  *)
(* as nothing fails (Keeping).                                             *)
(***************************************************************************)
EXTENDS CashDispenser, ChangeLedger_proofs

\* The signals of the queue q tell of the state of the device only.
Status(s)   == s.signal \in {"error", "ok"}
Statuses(q) == \A i \in DOMAIN q : Status(q[i])

\* The queue q holds the answer to the request: k notes of the unit u, after a
\* note of that unit rejected or the news that it is empty.
Rejected(q) == \E i \in DOMAIN q : q[i].signal = "rejected"
Emptied(q)  == \E i \in DOMAIN q : q[i].signal = "unitEmpty"

Answer(q, u, k) ==
    \E d \in DOMAIN q :
        /\ q[d].signal = "dispensed" /\ q[d].unit = u /\ q[d].items = k
        /\ \A i \in DOMAIN q : i > d => Status(q[i])
        /\ \A i \in DOMAIN q : i < d =>
              \/ Status(q[i])
              \/ q[i].signal = "unitEmpty" /\ q[i].unit = u
              \/ q[i].signal = "rejected" /\ q[i].unit = u /\ q[i].items = 1
        /\ \A i, j \in DOMAIN q : q[i].signal = "rejected" /\ q[j].signal = "rejected" => i = j

\* What the manager knows to have been given.
Known == paidOut + amounts.dispensed

\* No request is under way.
NoRequest ==
    /\ stage # "waiting" /\ job = NoJob /\ Statuses(queue) /\ amounts = NoAmounts
    /\ ~crashed => given = Known

\* The driver holds the request.
Requested ==
    /\ stage = "waiting" /\ job # NoJob /\ Statuses(queue)
    /\ job.items * Nominal[job.unit] <= amounts.toDispensing
    /\ given = Known

\* The answer is on its way; the count of the unit covers the notes in it and
\* those of the answer, unless there are no notes left in it.
Replied ==
    /\ stage = "waiting" /\ job = NoJob
    /\ \E u \in Units, k \in 0..MaxCount :
         /\ Answer(queue, u, k)
         /\ k * Nominal[u] <= amounts.toDispensing
         /\ given = Known + k * Nominal[u]
         /\ stock[u] # 0 =>
              count[u] >= stock[u] + k + (IF Rejected(queue) THEN 1 ELSE 0)
         /\ Emptied(queue) => stock[u] = 0

\* The driver has ended the request without an answer.
Silenced ==
    /\ stage = "waiting" /\ job = NoJob /\ Statuses(queue)
    /\ given = Known

\* What is to be given is covered by the change, and the change by the notes.
Covering ==
    /\ stage = "offered" => available <= Leftover
    /\ stage = "waiting" => amounts.toDispensing + amounts.dispensed <= Leftover
    /\ ~crashed => Leftover + lost + paidOut = AllNotes
    /\ crashed => stage = "idle" /\ change = NoChange /\ given <= AllNotes

\* The notes given that the database does not know yet are in `saves'.
Booking ==
    \/ /\ saves = <<>>
       /\ ~crashed => booked = Known
    \/ /\ \E c \in Contents : saves = <<UnitsSave(c)>>
       /\ ~crashed => booked = Known
    \/ \E c \in Contents, n \in Nat :
         /\ saves = <<UnitsSave(c), GivenSave(n)>>
         /\ ~crashed => booked + n = Known
    \/ \E n \in Nat :
         /\ saves = <<GivenSave(n)>>
         /\ ~crashed => booked + n = Known

\* No count is below the notes in the unit, nor is one about to be saved.
Counting ==
    /\ \A u \in Units : count[u] >= stock[u] /\ saved[u] >= stock[u]
    /\ \A i \in DOMAIN saves :
          saves[i].table = "device_param" => \A u \in Units : saves[i].counts[u] >= stock[u]

DispenserInv ==
    /\ TypeOK
    /\ NoRequest \/ Requested \/ Replied \/ Silenced
    /\ Covering
    /\ Booking
    /\ Counting

-----------------------------------------------------------------------------
(* Sums and units *)

\* As much of v as goes into s is no more than s.
LEMMA FitsIn ==
    ASSUME NEW s \in Nat, NEW v \in Nat \ {0}
    PROVE  /\ s \div v \in Nat /\ v * (s \div v) <= s
           /\ v <= s => s \div v # 0
OBVIOUS

\* Fewer notes make a smaller sum.
LEMMA FewerNotes ==
    ASSUME NEW k \in Nat, NEW j \in Nat, NEW v \in Nat, k <= j
    PROVE  k * v \in Nat /\ j * v \in Nat /\ k * v <= j * v
OBVIOUS

\* The smaller of two numbers.
LEMMA MinOfTwo ==
    ASSUME NEW a \in Nat, NEW b \in Nat
    PROVE  Min({a, b}) \in {a, b} /\ Min({a, b}) <= a /\ Min({a, b}) <= b
BY MinIs

\* Units, nominals and contents are numbers.
LEMMA UnitsAre ==
    /\ Units \subseteq Nat /\ IsFiniteSet(Units)
    /\ \A u \in Units : Nominal[u] \in Nat \ {0}
    /\ \A c \in Contents, u \in Units : c[u] \in Nat /\ c[u] <= MaxCount
<1>1. Nominal \in Seq(Nat \ {0}) /\ Units = 1..Len(Nominal) /\ MaxCount \in Nat
  BY DispenserAssumption
<1>2. Units \subseteq Nat /\ \A u \in Units : Nominal[u] \in Nat \ {0}
  BY <1>1
<1>3. IsFiniteSet(Units)
  BY <1>1, FS_Interval
<1>4. \A c \in Contents, u \in Units : c[u] \in Nat /\ c[u] <= MaxCount
  BY <1>1 DEF Contents
<1>5. QED
  BY <1>2, <1>3, <1>4

\* The nominals of some units are finitely many numbers.
LEMMA NominalsAre ==
    ASSUME NEW A \in SUBSET Units
    PROVE  /\ {Nominal[u] : u \in A} \subseteq Nat \ {0}
           /\ IsFiniteSet({Nominal[u] : u \in A})
<1> DEFINE T == {Nominal[u] : u \in A}
           f == [u \in A |-> Nominal[u]]
<1>1. IsFiniteSet(A)
  BY UnitsAre, FS_Subset
<1>2. f \in Surjection(A, T)
  BY DEF Surjection
<1> HIDE DEF f
<1>3. IsFiniteSet(T)
  <2> HIDE DEF T
  <2>1. QED
    BY <1>1, <1>2, FS_Surjection
<1>4. QED
  BY <1>3, UnitsAre

\* The units that may serve a sum are a finite set, each with a note that fits.
LEMMA UsableIs ==
    ASSUME NEW c \in Contents, NEW sum \in Nat
    PROVE  /\ Usable(c, sum) \subseteq Units /\ IsFiniteSet(Usable(c, sum))
           /\ \A u \in Usable(c, sum) : c[u] # 0 /\ Nominal[u] <= sum
<1>1. Usable(c, sum) \subseteq Units
  BY DEF Usable
<1>2. IsFiniteSet(Usable(c, sum))
  BY <1>1, UnitsAre, FS_Subset
<1>3. QED
  BY <1>1, <1>2 DEF Usable

-----------------------------------------------------------------------------
(* The largest nominal first *)

\* How often v goes into s.
LEMMA Quotient ==
    ASSUME NEW s \in Nat, NEW v \in Nat \ {0}, NEW q \in Nat
    PROVE  s \div v = q <=> q * v <= s /\ s < q * v + v
OBVIOUS

\* As many notes of the nominal v as go into s and are there.
Fitting(s, v, n) == Min({s \div v, n})

LEMMA FittingIs ==
    ASSUME NEW s \in Nat, NEW v \in Nat \ {0}, NEW n \in Nat
    PROVE  /\ Fitting(s, v, n) \in Nat /\ Fitting(s, v, n) <= n
           /\ v * Fitting(s, v, n) \in Nat /\ v * Fitting(s, v, n) <= s
           /\ v > s \/ n = 0 => Fitting(s, v, n) = 0
<1>1. PICK q : q = s \div v
  OBVIOUS
<1>2. q \in Nat /\ v * q <= s /\ (v > s => q = 0)
  BY <1>1, FitsIn, Quotient
<1>3. PICK k : k = Fitting(s, v, n)
  OBVIOUS
<1>4. k \in {q, n} /\ k <= q /\ k <= n
  BY <1>1, <1>2, <1>3, MinOfTwo DEF Fitting
<1>5. v * k \in Nat /\ v * k <= v * q
  BY <1>2, <1>4
<1>6. QED
  BY <1>2, <1>3, <1>4, <1>5

\* It is the number k with k * v at most s and either all there are or with less
\* than v left over.
LEMMA FittingAs ==
    ASSUME NEW s \in Nat, NEW v \in Nat \ {0}, NEW n \in Nat, NEW k \in Nat
    PROVE  k = Fitting(s, v, n) <=> k <= n /\ k * v <= s /\ (k = n \/ s < k * v + v)
<1>1. PICK q : q = s \div v
  OBVIOUS
<1>2. q \in Nat /\ q * v <= s /\ s < q * v + v
  BY <1>1, FitsIn, Quotient
<1>3. PICK m : m = Fitting(s, v, n)
  OBVIOUS
<1>4. m \in {q, n} /\ m <= q /\ m <= n
  BY <1>1, <1>2, <1>3, MinOfTwo DEF Fitting
<1>5. ASSUME NEW a \in Nat, NEW b \in Nat, a < b
      PROVE  a * v \in Nat /\ b * v \in Nat /\ a * v + v <= b * v
  BY <1>5
<1>6. ASSUME k = m
      PROVE  k <= n /\ k * v <= s /\ (k = n \/ s < k * v + v)
  <2>1. k < q => k * v + v <= q * v /\ k * v \in Nat /\ q * v \in Nat
    BY <1>2, <1>5
  <2>2. v \in Nat
    OBVIOUS
  <2>3. QED
    BY <1>2, <1>4, <1>6, <2>1, <2>2
<1>7. ASSUME k <= n /\ k * v <= s /\ (k = n \/ s < k * v + v)
      PROVE  k = m
  <2>1. k < q => k * v + v <= q * v /\ k * v \in Nat /\ q * v \in Nat
    BY <1>2, <1>5
  <2>2. q < k => q * v + v <= k * v /\ k * v \in Nat /\ q * v \in Nat
    BY <1>2, <1>5
  <2>3. k <= q
    <3>1. PICK x \in Nat : x = k * v
      OBVIOUS
    <3>2. PICK y \in Nat : y = q * v
      BY <1>2
    <3>3. QED
      BY <1>2, <1>7, <2>2, <3>1, <3>2
  <2>4. k = n \/ k = q
    <3>1. PICK x \in Nat : x = k * v
      OBVIOUS
    <3>2. PICK y \in Nat : y = q * v
      BY <1>2
    <3>3. QED
      BY <1>2, <1>7, <2>1, <2>3, <3>1, <3>2
  <2>5. QED
    BY <1>2, <1>4, <1>7, <2>3, <2>4
<1>8. QED
  BY <1>3, <1>6, <1>7

\* Notes of the nominals in S for a sum s, h[v] of them of nominal v, the largest
\* nominal first: the sum that the nominals in each subset give.
Greedy(it, h, S, s) ==
    /\ it \in [SUBSET S -> 0..s]
    /\ it[{}] = 0
    /\ \A T \in (SUBSET S) \ {{}} :
          LET v == Min(T)
              taken == it[T \ {v}]
          IN  it[T] = taken + v * Fitting(s - taken, v, h[v])

\* The numbers a nominal stands for, and how many notes there are.
Kinds(S, h) == S \subseteq Nat \ {0} /\ IsFiniteSet(S) /\ \A v \in S : h[v] \in Nat

\* The smallest nominal v of T, for which a is taken and d is left over.
Takes(it, h, s, T, v, a, d) ==
    /\ v \in T /\ v \in Nat \ {0} /\ \A x \in T : v <= x
    /\ h[v] \in Nat /\ a \in Nat /\ d \in Nat /\ d = s - a
    /\ a = it[T \ {v}] /\ it[T] = a + v * Fitting(d, v, h[v])
    /\ v > d \/ h[v] = 0 => it[T] = a

\* One nominal more.
LEMMA GreedyStep ==
    ASSUME NEW S, NEW h, NEW s \in Nat, NEW it, Kinds(S, h), Greedy(it, h, S, s),
           NEW T \in SUBSET S, T # {}
    PROVE  \E v, a, d : Takes(it, h, s, T, v, a, d)
<1>1. PICK v : v = Min(T)
  OBVIOUS
<1>2. v \in T /\ \A x \in T : v <= x
  BY <1>1, MinIs DEF Kinds
<1>3. v \in Nat \ {0} /\ h[v] \in Nat
  BY <1>2 DEF Kinds
<1>4. it[T \ {v}] \in 0..s
  BY DEF Greedy
<1>5. it[T] = it[T \ {v}] + v * Fitting(s - it[T \ {v}], v, h[v])
  BY <1>1 DEF Greedy
<1>6. PICK a, d : a = it[T \ {v}] /\ d = s - a
  OBVIOUS
<1>7. a \in Nat /\ d \in Nat /\ it[T] = a + v * Fitting(d, v, h[v])
  BY <1>4, <1>5, <1>6
<1>8. v > d \/ h[v] = 0 => it[T] = a
  <2>1. v > d \/ h[v] = 0 => Fitting(d, v, h[v]) = 0
    BY <1>3, <1>7, FittingIs
  <2>2. v * 0 = 0
    BY <1>3
  <2>3. QED
    BY <1>7, <2>1, <2>2
<1>9. QED
  BY <1>2, <1>3, <1>6, <1>7, <1>8 DEF Takes

\* There is such a function.
LEMMA GreedyExists ==
    ASSUME NEW S, NEW h, NEW s \in Nat, Kinds(S, h)
    PROVE  \E it : Greedy(it, h, S, s)
<1> DEFINE Add(v, taken) == taken + v * Fitting(s - taken, v, h[v])
           pick == [T \in SUBSET S |-> Min(T)]
           step == [T \in SUBSET S |->
                      [n \in 0..s |-> IF T = {} THEN 0 ELSE Add(Min(T), n)]]
<1>1. \A T \in SUBSET S : T # {} => Min(T) \in T
  BY MinIs DEF Kinds
<1>2. ASSUME NEW v \in S, NEW taken \in 0..s
      PROVE  Add(v, taken) \in 0..s
  <2>1. s - taken \in Nat /\ v \in Nat \ {0} /\ h[v] \in Nat
    BY DEF Kinds
  <2>2. PICK x : x = v * Fitting(s - taken, v, h[v])
    OBVIOUS
  <2>3. x \in Nat /\ x <= s - taken
    BY <2>1, <2>2, FittingIs
  <2>4. QED
    BY <2>2, <2>3
<1> HIDE DEF Add
<1>3. Steps(pick, step, S, 0..s)
  <2>1. \A T \in SUBSET S : T # {} => pick[T] \in T
    BY <1>1
  <2>2. \A T \in SUBSET S, n \in 0..s : (IF T = {} THEN 0 ELSE Add(Min(T), n)) \in 0..s
    BY <1>1, <1>2
  <2>3. step \in [SUBSET S -> [0..s -> 0..s]]
    BY <2>2
  <2> HIDE DEF pick, step
  <2>4. QED
    BY <2>1, <2>3 DEF Steps
<1>4. PICK it : IsFold(it, pick, step, 0, S, 0..s)
  <2>1. IsFiniteSet(S) /\ 0 \in 0..s
    BY DEF Kinds
  <2> HIDE DEF pick, step
  <2>2. QED
    BY <1>3, <2>1, FoldExists
<1>5. it \in [SUBSET S -> 0..s]
  BY <1>4 DEF IsFold
<1>6. it[{}] = 0
  <2> HIDE DEF pick, step
  <2>1. QED
    BY <1>4 DEF IsFold
<1>7. ASSUME NEW T \in (SUBSET S) \ {{}}
      PROVE  it[T] = Add(Min(T), it[T \ {Min(T)}])
  <2>1. it[T] = step[T][it[T \ {pick[T]}]]
    <3> HIDE DEF pick, step
    <3>1. QED
      BY <1>4 DEF IsFold
  <2>2. it[T \ {Min(T)}] \in 0..s
    BY <1>5
  <2>3. QED
    BY <2>1, <2>2
<1>8. QED
  BY <1>5, <1>6, <1>7 DEF Greedy, Add

\* Asked for what it has found of s, or for anything between the two, it finds it.
LEMMA GreedyAgain ==
    ASSUME NEW S, NEW h, NEW s \in Nat, NEW t \in Nat, NEW f, NEW g, Kinds(S, h),
           Greedy(f, h, S, s), Greedy(g, h, S, t), f[S] <= t, t <= s
    PROVE  g[S] = f[S]
<1> DEFINE G == {T \in SUBSET S : f[T] <= t => g[T] = f[T]}
<1>1. ASSUME NEW T \in SUBSET S, \A U \in SUBSET T : U # T => U \in G
      PROVE  T \in G
  <2>1. CASE T = {}
    BY <2>1 DEF Greedy
  <2>2. CASE T # {}
    <3>1. PICK v, a, d : Takes(f, h, s, T, v, a, d)
      BY <2>2, GreedyStep
    <3>2. PICK w, b, e : Takes(g, h, t, T, w, b, e)
      BY <2>2, GreedyStep
    <3>3. v = w /\ T \ {v} \in G
      BY <1>1, <3>1, <3>2 DEF Takes
    <3>4. PICK k : k = Fitting(d, v, h[v])
      OBVIOUS
    <3>5. v \in Nat \ {0} /\ h[v] \in Nat /\ a \in Nat /\ d \in Nat /\ d = s - a
          /\ a = f[T \ {v}] /\ f[T] = a + v * k
      BY <3>1, <3>4 DEF Takes
    <3>6. k \in Nat
      BY <3>4, <3>5, FittingIs
    <3>7. PICK x \in Nat : x = k * v /\ x = v * k
      BY <3>5, <3>6
    <3>8. k <= h[v] /\ x <= d /\ (k = h[v] \/ d < x + v)
      BY <3>4, <3>5, <3>6, <3>7, FittingAs
    <3>9. SUFFICES ASSUME f[T] <= t PROVE g[T] = f[T]
      OBVIOUS
    <3>10. f[T] = a + x /\ a <= t
      BY <3>5, <3>7, <3>9
    <3>11. b = a /\ e \in Nat /\ e = t - a /\ g[T] = a + v * Fitting(e, v, h[v])
      BY <3>2, <3>3, <3>5, <3>10 DEF Takes
    <3>12. x <= e /\ (k = h[v] \/ e < x + v)
      BY <3>5, <3>7, <3>8, <3>9, <3>10, <3>11
    <3>13. k = Fitting(e, v, h[v])
      BY <3>5, <3>6, <3>7, <3>8, <3>11, <3>12, FittingAs
    <3>14. QED
      BY <3>7, <3>10, <3>11, <3>13
  <2>3. QED
    BY <2>1, <2>2
<1>2. SUBSET S \subseteq G
  <2>1. IsFiniteSet(S)
    BY DEF Kinds
  <2> HIDE DEF G
  <2>2. QED
    BY <1>1, <2>1, SubsetInduction
<1>3. QED
  BY <1>2

\* Nominals too large for the sum, or without notes, change nothing.
LEMMA GreedyFewer ==
    ASSUME NEW S, NEW R, NEW h, NEW k, NEW s \in Nat, NEW f, NEW g, Kinds(S, h), Kinds(R, k),
           Greedy(f, h, S, s), Greedy(g, k, R, s), R \subseteq S, \A v \in R : k[v] = h[v],
           \A v \in S \ R : v > s \/ h[v] = 0
    PROVE  g[R] = f[S]
<1> DEFINE G == {T \in SUBSET S : g[T \cap R] = f[T]}
<1>1. ASSUME NEW T \in SUBSET S, \A U \in SUBSET T : U # T => U \in G
      PROVE  T \in G
  <2>1. CASE T = {}
    <3>1. T \cap R = {}
      BY <2>1
    <3>2. QED
      BY <2>1, <3>1 DEF Greedy
  <2>2. CASE T # {}
    <3>1. PICK v, a, d : Takes(f, h, s, T, v, a, d)
      BY <2>2, GreedyStep
    <3>2. v \in T /\ g[(T \ {v}) \cap R] = a
      BY <1>1, <3>1 DEF Takes
    <3>3. CASE v \in R
      <4>1. PICK V : V = T \cap R
        OBVIOUS
      <4>2. V # {} /\ V \in SUBSET R
        BY <3>2, <3>3, <4>1
      <4>3. PICK w, b, e : Takes(g, k, s, V, w, b, e)
        BY <4>2, GreedyStep
      <4>4. w \in T /\ v \in V /\ w \in Nat /\ v \in Nat /\ v <= w /\ w <= v
        BY <3>1, <3>2, <3>3, <4>1, <4>3 DEF Takes
      <4>5. w = v
        BY <4>4
      <4>6. V \ {v} = (T \ {v}) \cap R
        BY <4>1
      <4>7. b = a /\ e = d /\ k[v] = h[v]
        BY <3>1, <3>2, <3>3, <4>3, <4>5, <4>6 DEF Takes
      <4>8. QED
        BY <3>1, <4>1, <4>3, <4>5, <4>7 DEF Takes
    <3>4. CASE v \notin R
      <4>1. (T \ {v}) \cap R = T \cap R
        BY <3>4
      <4>2. v > d \/ h[v] = 0
        BY <3>1, <3>4 DEF Takes
      <4>3. f[T] = a
        BY <3>1, <4>2 DEF Takes
      <4>4. QED
        BY <3>2, <4>1, <4>3
    <3>5. QED
      BY <3>3, <3>4
  <2>3. QED
    BY <2>1, <2>2
<1>2. SUBSET S \subseteq G
  <2>1. IsFiniteSet(S)
    BY DEF Kinds
  <2> HIDE DEF G
  <2>2. QED
    BY <1>1, <2>1, SubsetInduction
<1>3. S \cap R = R
  OBVIOUS
<1>4. QED
  BY <1>2, <1>3

\* With i notes of the largest nominal m gone, the rest of the sum is found.
LEMMA GreedyRest ==
    ASSUME NEW S, NEW h, NEW k, NEW s \in Nat, NEW r \in Nat, NEW f, NEW g,
           Kinds(S, h), Kinds(S, k), Greedy(f, h, S, s), Greedy(g, k, S, r),
           NEW m \in S, NEW i \in Nat, i <= Fitting(s, m, h[m]), r = s - i * m,
           k[m] = h[m] - i, \A v \in S : v # m => k[v] = h[v],
           \A v \in S : v > m => v > s \/ h[v] = 0
    PROVE  g[S] = f[S] - i * m
<1>1. PICK w : w = i * m
  OBVIOUS
<1>2. m \in Nat \ {0} /\ h[m] \in Nat /\ k[m] \in Nat
  BY DEF Kinds
<1>3. w \in Nat /\ r = s - w /\ w <= s
  BY <1>1, <1>2
<1> DEFINE G == {T \in SUBSET S : /\ m \in T => g[T] = f[T] - w
                                  /\ (\A v \in T : v > m) => f[T] = 0 /\ g[T] = 0}
<1>4. ASSUME NEW T \in SUBSET S, \A U \in SUBSET T : U # T => U \in G
      PROVE  T \in G
  <2>1. CASE T = {}
    BY <2>1 DEF Greedy
  <2>2. CASE T # {}
    <3>1. PICK v, a, d : Takes(f, h, s, T, v, a, d)
      BY <2>2, GreedyStep
    <3>2. PICK u, b, e : Takes(g, k, r, T, u, b, e)
      BY <2>2, GreedyStep
    <3>3. u = v /\ v \in T /\ v \in Nat \ {0} /\ T \ {v} \in G
      BY <1>4, <3>1, <3>2 DEF Takes
    <3>4. /\ a \in Nat /\ d \in Nat /\ d = s - a /\ a = f[T \ {v}] /\ h[v] \in Nat
          /\ f[T] = a + v * Fitting(d, v, h[v]) /\ (v > d \/ h[v] = 0 => f[T] = a)
          /\ b \in Nat /\ e \in Nat /\ e = r - b /\ b = g[T \ {v}] /\ k[v] \in Nat
          /\ g[T] = b + v * Fitting(e, v, k[v]) /\ (v > e \/ k[v] = 0 => g[T] = b)
      BY <3>1, <3>2, <3>3 DEF Takes
    <3>5. ASSUME \A x \in T : x > m
          PROVE  f[T] = 0 /\ g[T] = 0
      <4>1. v > m /\ a = 0 /\ b = 0
        BY <3>3, <3>4, <3>5
      <4>2. k[v] = h[v] /\ (v > s \/ h[v] = 0)
        BY <1>2, <3>3, <4>1
      <4>3. v > d \/ h[v] = 0
        BY <3>4, <4>1, <4>2
      <4>4. v > e \/ k[v] = 0
        BY <1>3, <3>3, <3>4, <4>1, <4>2
      <4>5. QED
        BY <3>4, <4>1, <4>3, <4>4
    <3>6. ASSUME m \in T, v = m
          PROVE  g[T] = f[T] - w
      <4>1. \A x \in T \ {v} : x > m
        <5>1. \A x \in T : x >= v /\ x \in Nat
          BY <3>1 DEF Takes, Kinds
        <5>2. QED
          BY <1>2, <3>6, <5>1
      <4>2. a = 0 /\ b = 0 /\ d = s /\ e = r
        BY <3>3, <3>4, <4>1
      <4>3. PICK n : n = Fitting(s, m, h[m])
        OBVIOUS
      <4>4. n \in Nat /\ i <= n /\ n <= h[m]
        BY <1>2, <4>3, FittingIs
      <4>5. PICK x \in Nat : x = n * m
        BY <1>2, <4>4
      <4>6. x <= s /\ (n = h[m] \/ s < x + m)
        BY <1>2, <4>3, <4>4, <4>5, FittingAs
      <4>7. PICK j \in Nat : j = n - i
        BY <4>4
      <4>8. j * m = x - w /\ j * m \in Nat
        BY <1>1, <1>2, <4>4, <4>5, <4>7
      <4>9. PICK y \in Nat : y = j * m
        BY <4>8
      <4>10. j <= k[m] /\ y <= r /\ (j = k[m] \/ r < y + m)
        BY <1>2, <1>3, <4>4, <4>5, <4>6, <4>7, <4>8, <4>9
      <4>11. j = Fitting(r, m, k[m])
        BY <1>2, <4>9, <4>10, FittingAs
      <4>12. m * n = x /\ m * j = y
        BY <1>2, <4>4, <4>5, <4>7, <4>9
      <4>13. f[T] = 0 + m * n
        BY <3>4, <3>6, <4>2, <4>3
      <4>14. g[T] = 0 + m * j
        BY <3>4, <3>6, <4>2, <4>11
      <4>15. f[T] = x /\ g[T] = y
        BY <4>12, <4>13, <4>14
      <4>16. QED
        BY <1>3, <4>5, <4>8, <4>9, <4>15
    <3>7. ASSUME m \in T, v # m
          PROVE  g[T] = f[T] - w
      <4>1. b = a - w
        BY <3>3, <3>4, <3>7
      <4>2. e = d /\ k[v] = h[v]
        BY <1>3, <3>3, <3>4, <3>7, <4>1
      <4>3. PICK x : x = v * Fitting(d, v, h[v])
        OBVIOUS
      <4>4. x \in Nat /\ f[T] = a + x /\ g[T] = b + x
        BY <3>3, <3>4, <4>2, <4>3, FittingIs
      <4>5. QED
        BY <1>3, <3>4, <4>1, <4>4
    <3>8. QED
      BY <3>5, <3>6, <3>7
  <2>3. QED
    BY <2>1, <2>2
<1>5. SUBSET S \subseteq G
  <2>1. IsFiniteSet(S)
    BY DEF Kinds
  <2> HIDE DEF G
  <2>2. QED
    BY <1>4, <2>1, SubsetInduction
<1>6. QED
  BY <1>1, <1>5

-----------------------------------------------------------------------------
(* What canDispense finds *)

\* The nominals of the units A, and how many notes the contents c have of each.
NominalsOf(A) == {Nominal[u] : u \in A}
HeldIn(c, A)  == [v \in NominalsOf(A) |-> SumFunctionOnSet(c, {u \in A : Nominal[u] = v})]

LEMMA HoldingIs ==
    ASSUME NEW c \in Contents, NEW A \in SUBSET Units
    PROVE  /\ Kinds(NominalsOf(A), HeldIn(c, A))
           /\ \A u \in A : Nominal[u] \in NominalsOf(A) /\ c[u] <= HeldIn(c, A)[Nominal[u]]
<1>1. IsFiniteSet(A)
  BY UnitsAre, FS_Subset
<1>2. ASSUME NEW v \in NominalsOf(A)
      PROVE  /\ HeldIn(c, A)[v] \in Nat
             /\ \A u \in A : Nominal[u] = v => c[u] <= HeldIn(c, A)[v]
  <2> DEFINE U == {u \in A : Nominal[u] = v}
  <2>1. IsFiniteSet(U) /\ \A u \in U : c[u] \in Nat
    BY <1>1, UnitsAre, FS_Subset
  <2>2. HeldIn(c, A)[v] = SumFunctionOnSet(c, U)
    BY DEF HeldIn
  <2>3. \A u \in A : Nominal[u] = v => u \in U
    OBVIOUS
  <2> HIDE DEF U
  <2>4. QED
    BY <2>1, <2>2, <2>3, SumNat
<1>3. NominalsOf(A) \subseteq Nat \ {0} /\ IsFiniteSet(NominalsOf(A))
  BY NominalsAre DEF NominalsOf
<1>4. \A u \in A : Nominal[u] \in NominalsOf(A)
  BY DEF NominalsOf
<1>5. Kinds(NominalsOf(A), HeldIn(c, A))
  BY <1>2, <1>3 DEF Kinds
<1>6. QED
  BY <1>2, <1>4, <1>5

\* The fold of canDispense is the function that takes the largest nominal first.
LEMMA CanDispenseGreedy ==
    ASSUME NEW c \in Contents, NEW sum \in Nat
    PROVE  LET usable == Usable(c, sum)
               S == NominalsOf(usable)
           IN  \E it : /\ Greedy(it, HeldIn(c, usable), S, sum)
                       /\ CanDispense(c, sum) = it[S]
<1> DEFINE usable == Usable(c, sum)
           held(v) == SumFunctionOnSet(c, {u \in usable : Nominal[u] = v})
           Add(v, taken) == taken + v * Min({(sum - taken) \div v, held(v)})
           S == {Nominal[u] : u \in usable}
           h == HeldIn(c, usable)
           Body(it, T) == IF T = {} THEN 0 ELSE Add(Min(T), it[T \ {Min(T)}])
           Iter == CHOOSE it : it = [T \in SUBSET S |-> Body(it, T)]
<1>1. CanDispense(c, sum) = Iter[S]
  BY DEF CanDispense, MapThenFoldSet
<1>2. S = NominalsOf(usable) /\ \A v \in S : h[v] = held(v)
  BY DEF HeldIn, NominalsOf
<1>3. Kinds(S, h)
  <2>1. usable \in SUBSET Units
    BY UsableIs
  <2> HIDE DEF S, usable
  <2>2. Kinds(NominalsOf(usable), HeldIn(c, usable))
    BY <2>1, HoldingIs
  <2>3. QED
    BY <1>2, <2>2
<1>4. \A T \in SUBSET S : T # {} => Min(T) \in T
  <2> HIDE DEF S, h
  <2>1. QED
    BY <1>3, MinIs DEF Kinds
<1>5. \A v \in S : \A taken : Add(v, taken) = taken + v * Fitting(sum - taken, v, h[v])
  BY <1>2 DEF Fitting
<1> HIDE DEF Add, S, h, held, usable
<1>6. ASSUME NEW v \in S, NEW taken \in 0..sum
      PROVE  Add(v, taken) \in 0..sum
  <2>1. PICK d : d = sum - taken
    OBVIOUS
  <2>2. d \in Nat /\ v \in Nat \ {0} /\ h[v] \in Nat
    BY <1>3, <2>1 DEF Kinds
  <2>3. PICK x : x = v * Fitting(d, v, h[v])
    OBVIOUS
  <2>4. x \in Nat /\ x <= d
    BY <2>2, <2>3, FittingIs
  <2>5. Add(v, taken) = taken + x
    BY <1>5, <2>1, <2>3
  <2>6. QED
    BY <2>1, <2>4, <2>5
<1>7. PICK it : Greedy(it, h, S, sum)
  BY <1>3, GreedyExists
<1>8. it = [T \in SUBSET S |-> Body(it, T)]
  <2>1. \A T \in SUBSET S : it[T] = Body(it, T)
    <3>1. it[{}] = Body(it, {})
      BY <1>7 DEF Greedy
    <3>2. ASSUME NEW T \in (SUBSET S) \ {{}}
          PROVE  it[T] = Body(it, T)
      <4>1. Min(T) \in S
        BY <1>4
      <4>2. it[T] = it[T \ {Min(T)}]
                      + Min(T) * Fitting(sum - it[T \ {Min(T)}], Min(T), h[Min(T)])
        BY <1>7 DEF Greedy
      <4>3. QED
        BY <1>5, <4>1, <4>2
    <3>3. QED
      BY <3>1, <3>2
  <2>2. it \in [SUBSET S -> 0..sum]
    BY <1>7 DEF Greedy
  <2> HIDE DEF Body
  <2>3. QED
    BY <2>1, <2>2
<1>9. Iter = [T \in SUBSET S |-> Body(Iter, T)]
  <2> HIDE DEF Body
  <2>1. QED
    BY <1>8
<1>10. \A T \in SUBSET S : Iter[T] = Body(Iter, T)
  <2> HIDE DEF Body, Iter
  <2>1. QED
    BY <1>9
<1> HIDE DEF Iter
<1>11. SUBSET S \subseteq {T \in SUBSET S : Iter[T] \in 0..sum}
  <2> DEFINE G == {T \in SUBSET S : Iter[T] \in 0..sum}
  <2>1. ASSUME NEW T \in SUBSET S, \A U \in SUBSET T : U # T => U \in G
        PROVE  T \in G
    <3>1. CASE T = {}
      BY <1>10, <3>1
    <3>2. CASE T # {}
      <4>1. Min(T) \in T
        BY <1>4, <3>2
      <4>2. T \ {Min(T)} \in G
        BY <2>1, <4>1
      <4>3. Add(Min(T), Iter[T \ {Min(T)}]) \in 0..sum
        BY <1>6, <4>1, <4>2
      <4>4. QED
        BY <1>10, <3>2, <4>3
    <3>3. QED
      BY <3>1, <3>2
  <2> HIDE DEF G
  <2>2. IsFiniteSet(S)
    BY <1>3 DEF Kinds
  <2>3. SUBSET S \subseteq G
    BY <2>1, <2>2, SubsetInduction
  <2>4. QED
    BY <2>3 DEF G
<1>12. Greedy(Iter, h, S, sum)
  <2>1. \A T \in SUBSET S : Iter[T] \in 0..sum
    BY <1>11
  <2>2. Iter \in [SUBSET S -> 0..sum]
    <3> HIDE DEF Body
    <3>1. QED
      BY <1>9, <2>1
  <2>3. Iter[{}] = 0
    BY <1>10
  <2>4. ASSUME NEW T \in (SUBSET S) \ {{}}
        PROVE  Iter[T] = Iter[T \ {Min(T)}]
                           + Min(T) * Fitting(sum - Iter[T \ {Min(T)}], Min(T), h[Min(T)])
    <3>1. Min(T) \in S /\ Iter[T] = Add(Min(T), Iter[T \ {Min(T)}])
      BY <1>4, <1>10
    <3>2. QED
      BY <1>5, <3>1
  <2>5. QED
    BY <2>2, <2>3, <2>4 DEF Greedy
<1>13. QED
  BY <1>1, <1>2, <1>12 DEF h, usable

\* canDispense finds no more than it is asked for, and nothing without a unit
\* that may serve it.
LEMMA CanDispenseIs ==
    ASSUME NEW c \in Contents, NEW sum \in Nat
    PROVE  /\ CanDispense(c, sum) \in Nat /\ CanDispense(c, sum) <= sum
           /\ CanDispense(c, sum) # 0 => Usable(c, sum) # {}
<1>1. PICK A, S : A = Usable(c, sum) /\ S = NominalsOf(A)
  OBVIOUS
<1>2. PICK it : Greedy(it, HeldIn(c, A), S, sum) /\ CanDispense(c, sum) = it[S]
  BY <1>1, CanDispenseGreedy
<1>3. it[S] \in 0..sum /\ it[{}] = 0
  BY <1>2 DEF Greedy
<1>4. A = {} => S = {}
  BY <1>1 DEF NominalsOf
<1>5. QED
  BY <1>1, <1>2, <1>3, <1>4

\* The unit dispense() turns to has a note that fits into the sum, and none of
\* a larger nominal does.
LEMMA UnitForIs ==
    ASSUME NEW c \in Contents, NEW sum \in Nat, Usable(c, sum) # {}
    PROVE  /\ UnitFor(c, sum) \in Usable(c, sum)
           /\ \A w \in Usable(c, sum) : Nominal[w] <= Nominal[UnitFor(c, sum)]
<1> DEFINE usable == Usable(c, sum)
           S == {Nominal[u] : u \in usable}
           U == {u \in usable : Nominal[u] = Max(S)}
<1>1. usable \subseteq Units /\ IsFiniteSet(usable) /\ usable # {}
  BY UsableIs
<1>2. S \subseteq Nat /\ IsFiniteSet(S) /\ S # {}
  <2> HIDE DEF usable
  <2>1. S # {}
    BY <1>1
  <2>2. QED
    BY <1>1, <2>1, NominalsAre
<1>3. Max(S) \in S /\ \A x \in S : x <= Max(S)
  <2> HIDE DEF S
  <2>1. QED
    BY <1>2, MaxIs
<1>4. U # {} /\ U \subseteq usable
  <2> HIDE DEF usable
  <2>1. QED
    BY <1>3
<1>5. Min(U) \in U
  <2>1. U \subseteq Nat
    BY <1>1, <1>4, UnitsAre
  <2> HIDE DEF U
  <2>2. QED
    BY <1>4, <2>1, MinIs
<1>6. \A w \in usable : Nominal[w] <= Nominal[Min(U)]
  <2>1. Nominal[Min(U)] = Max(S)
    BY <1>5
  <2>2. QED
    BY <1>3, <2>1
<1>7. QED
  BY <1>4, <1>5, <1>6 DEF UnitFor

-----------------------------------------------------------------------------
(* A working dispenser: unit after unit it gives what canDispense has found *)

Working == ~down /\ ~failed

\* The sum s can be given whole with the contents c.
Payable(c, s) ==
    \E it : /\ Greedy(it, HeldIn(c, Units), NominalsOf(Units), s)
            /\ it[NominalsOf(Units)] = s

\* A nominal none of whose units may serve the sum, though they all work, is too
\* large or has no notes.
LEMMA Useless ==
    ASSUME NEW c \in Contents, NEW s \in Nat, Working, NEW v \in NominalsOf(Units),
           \A u \in Usable(c, s) : Nominal[u] # v
    PROVE  v > s \/ HeldIn(c, Units)[v] = 0
<1> DEFINE U == {u \in Units : Nominal[u] = v}
<1>1. HeldIn(c, Units)[v] = SumFunctionOnSet(c, U)
  BY DEF HeldIn
<1>2. IsFiniteSet(U)
  BY UnitsAre, FS_Subset
<1>3. v \in Nat
  BY UnitsAre DEF NominalsOf
<1>4. SUFFICES ASSUME v <= s PROVE \A u \in U : c[u] = 0
  <2> HIDE DEF U
  <2>1. s \in Nat
    OBVIOUS
  <2>2. QED
    BY <1>1, <1>2, <1>3, <1>4, <2>1, SumZero
<1>5. QED
  BY <1>4 DEF Usable, Working

\* Looking at the units that may serve the sum is as good as looking at all.
LEMMA CanDispenseAll ==
    ASSUME NEW c \in Contents, NEW s \in Nat, Working, NEW f,
           Greedy(f, HeldIn(c, Units), NominalsOf(Units), s)
    PROVE  CanDispense(c, s) = f[NominalsOf(Units)]
<1>1. PICK A, R, S, k, h : /\ A = Usable(c, s) /\ R = NominalsOf(A) /\ S = NominalsOf(Units)
                           /\ k = HeldIn(c, A) /\ h = HeldIn(c, Units)
  OBVIOUS
<1>2. PICK g : Greedy(g, k, R, s) /\ CanDispense(c, s) = g[R]
  BY <1>1, CanDispenseGreedy
<1>3. A \in SUBSET Units /\ \A u \in A : Nominal[u] <= s
  BY <1>1, UsableIs
<1>4. Kinds(R, k) /\ Kinds(S, h)
  BY <1>1, <1>3, HoldingIs
<1>5. R \subseteq S
  BY <1>1, <1>3 DEF NominalsOf
<1>6. ASSUME NEW v \in R
      PROVE  k[v] = h[v]
  <2> DEFINE T == {u \in A : Nominal[u] = v}
             U == {u \in Units : Nominal[u] = v}
  <2>1. k[v] = SumFunctionOnSet(c, T) /\ h[v] = SumFunctionOnSet(c, U)
    BY <1>1, <1>5 DEF HeldIn
  <2>2. IsFiniteSet(U) /\ T \in SUBSET U
    BY <1>3, UnitsAre, FS_Subset
  <2>3. Ints(c, U)
    BY UnitsAre DEF Ints
  <2>4. v <= s
    BY <1>1, <1>3 DEF NominalsOf
  <2>5. \A u \in U \ T : c[u] = 0
    BY <1>1, <2>4 DEF Usable, Working
  <2> HIDE DEF T, U
  <2>6. QED
    BY <2>1, <2>2, <2>3, <2>5, SumPart
<1>7. ASSUME NEW v \in S \ R
      PROVE  v > s \/ h[v] = 0
  <2>1. \A u \in Usable(c, s) : Nominal[u] # v
    BY <1>1 DEF NominalsOf
  <2>2. QED
    BY <1>1, <2>1, Useless
<1>8. g[R] = f[S]
  BY <1>1, <1>2, <1>4, <1>5, <1>6, <1>7, GreedyFewer
<1>9. QED
  BY <1>1, <1>2, <1>8

\* The function exists.
LEMMA AllGreedy ==
    ASSUME NEW c \in Contents, NEW s \in Nat
    PROVE  \E f : Greedy(f, HeldIn(c, Units), NominalsOf(Units), s)
<1>1. Kinds(NominalsOf(Units), HeldIn(c, Units))
  BY HoldingIs
<1>2. QED
  BY <1>1, GreedyExists

\* What canDispense has found can be given whole,
LEMMA FoundIsPayable ==
    ASSUME NEW c \in Contents, NEW s \in Nat, Working
    PROVE  Payable(c, CanDispense(c, s))
<1>1. PICK f : Greedy(f, HeldIn(c, Units), NominalsOf(Units), s)
  BY AllGreedy
<1>2. PICK t : t = CanDispense(c, s)
  OBVIOUS
<1>3. t = f[NominalsOf(Units)] /\ t \in Nat /\ t <= s
  BY <1>1, <1>2, CanDispenseAll, CanDispenseIs
<1>4. PICK g : Greedy(g, HeldIn(c, Units), NominalsOf(Units), t)
  BY <1>3, AllGreedy
<1>5. Kinds(NominalsOf(Units), HeldIn(c, Units))
  BY HoldingIs
<1>6. g[NominalsOf(Units)] = t
  BY <1>1, <1>3, <1>4, <1>5, GreedyAgain
<1>7. QED
  BY <1>2, <1>4, <1>6 DEF Payable

\* and is found again.
LEMMA PayableIsFound ==
    ASSUME NEW c \in Contents, NEW s \in Nat, Working, Payable(c, s)
    PROVE  CanDispense(c, s) = s
BY CanDispenseAll DEF Payable

\* When the unit that dispense() turns to has given its part, the rest can be
\* given whole.
LEMMA RestIsPayable ==
    ASSUME NEW c \in Contents, NEW s \in Nat, Working, Payable(c, s), Usable(c, s) # {},
           NEW u, u = UnitFor(c, s), NEW i, i = Min({c[u], s \div Nominal[u]})
    PROVE  /\ i \in Nat /\ i <= c[u] /\ s - i * Nominal[u] \in Nat
           /\ [c EXCEPT ![u] = @ - i] \in Contents
           /\ Payable([c EXCEPT ![u] = @ - i], s - i * Nominal[u])
<1>1. PICK d, m, r, S, h, k :
         /\ d = [c EXCEPT ![u] = @ - i] /\ m = Nominal[u] /\ r = s - i * m
         /\ S = NominalsOf(Units) /\ h = HeldIn(c, Units) /\ k = HeldIn(d, Units)
  OBVIOUS
<1>2. u \in Usable(c, s) /\ \A w \in Usable(c, s) : Nominal[w] <= m
  BY <1>1, UnitForIs
<1>3. u \in Units /\ c[u] \in Nat /\ m \in Nat \ {0}
  BY <1>1, <1>2, UsableIs, UnitsAre
<1>4. PICK q : q = s \div m
  OBVIOUS
<1>5. q \in Nat /\ m * q <= s
  BY <1>3, <1>4, FitsIn
<1>6. i \in Nat /\ i <= c[u] /\ i <= q
  BY <1>1, <1>3, <1>4, <1>5, MinOfTwo
<1>7. r \in Nat
  <2>1. m * i <= m * q /\ i * m = m * i /\ m * i \in Nat
    BY <1>3, <1>5, <1>6
  <2>2. m * q \in Nat
    BY <1>3, <1>5
  <2>3. QED
    BY <1>1, <1>5, <2>1, <2>2
<1>8. /\ d \in Contents /\ d[u] = c[u] - i
      /\ \A w \in Units : w # u => d[w] = c[w]
  <2>1. c[u] <= MaxCount /\ MaxCount \in Nat
    BY <1>3, UnitsAre, DispenserAssumption
  <2>2. c[u] - i \in 0..MaxCount
    BY <1>3, <1>6, <2>1
  <2>3. QED
    BY <1>1, <1>3, <2>2 DEF Contents
<1>9. Kinds(S, h) /\ Kinds(S, k) /\ m \in S /\ c[u] <= h[m]
  BY <1>1, <1>3, <1>8, HoldingIs
<1>10. i <= Fitting(s, m, h[m])
  <2>1. h[m] \in Nat
    BY <1>9 DEF Kinds
  <2>2. PICK n : n = Fitting(s, m, h[m])
    OBVIOUS
  <2>3. n \in {q, h[m]}
    BY <1>4, <1>5, <2>1, <2>2, MinOfTwo DEF Fitting
  <2>4. QED
    BY <1>3, <1>5, <1>6, <1>9, <2>1, <2>2, <2>3
<1>11. ASSUME NEW v \in S
       PROVE  k[v] = IF v = m THEN h[v] - i ELSE h[v]
  <2> DEFINE U == {w \in Units : Nominal[w] = v}
  <2>1. h[v] = SumFunctionOnSet(c, U) /\ k[v] = SumFunctionOnSet(d, U)
    BY <1>1 DEF HeldIn
  <2>2. IsFiniteSet(U) /\ U \subseteq Units
    BY UnitsAre, FS_Subset
  <2>3. u \in U <=> v = m
    BY <1>1, <1>3
  <2> HIDE DEF U
  <2>4. Ints(c, U)
    BY <2>2, UnitsAre DEF Ints
  <2>5. CASE v = m
    <3>1. u \in U /\ d[u] \in Int /\ \A w \in U \ {u} : d[w] = c[w]
      BY <1>3, <1>6, <1>8, <2>2, <2>3, <2>5
    <3>2. SumFunctionOnSet(d, U) = SumFunctionOnSet(c, U) - c[u] + d[u]
      BY <2>2, <2>4, <3>1, SumUpdate
    <3>3. SumFunctionOnSet(c, U) \in Int
      BY <2>2, <2>4, SumStep
    <3>4. QED
      BY <1>3, <1>6, <1>8, <2>1, <2>5, <3>2, <3>3
  <2>6. CASE v # m
    <3>1. \A w \in U : d[w] = c[w]
      BY <1>8, <2>2, <2>3, <2>6
    <3>2. SumFunctionOnSet(d, U) = SumFunctionOnSet(c, U)
      BY <2>2, <2>4, <3>1, SumSame
    <3>3. QED
      BY <2>1, <2>6, <3>2
  <2>7. QED
    BY <2>5, <2>6
<1>12. ASSUME NEW v \in S, v > m
       PROVE  v > s \/ h[v] = 0
  <2>1. ASSUME NEW w \in Usable(c, s), Nominal[w] = v
        PROVE  FALSE
    <3>1. v <= m /\ v \in Nat
      BY <1>2, <1>9, <2>1 DEF Kinds
    <3>2. QED
      BY <1>3, <1>12, <3>1
  <2>2. QED
    BY <1>1, <2>1, Useless
<1>13. PICK f : Greedy(f, h, S, s) /\ f[S] = s
  BY <1>1 DEF Payable
<1>14. PICK g : Greedy(g, k, S, r)
  BY <1>1, <1>7, <1>8, AllGreedy
<1>15. g[S] = f[S] - i * m
  <2>1. k[m] = h[m] - i /\ \A v \in S : v # m => k[v] = h[v]
    BY <1>9, <1>11
  <2>2. r = s - i * m
    BY <1>1
  <2>3. \A v \in S : v > m => v > s \/ h[v] = 0
    BY <1>12
  <2>4. m \in S /\ i \in Nat /\ r \in Nat /\ Kinds(S, h) /\ Kinds(S, k)
        /\ Greedy(f, h, S, s) /\ Greedy(g, k, S, r)
    BY <1>6, <1>7, <1>9, <1>13, <1>14
  <2>5. QED
    BY <1>10, <2>1, <2>2, <2>3, <2>4, GreedyRest
<1>16. g[S] = r
  BY <1>1, <1>13, <1>15
<1>17. Payable(d, r)
  BY <1>1, <1>14, <1>16 DEF Payable
<1>18. QED
  BY <1>1, <1>6, <1>7, <1>8, <1>17

-----------------------------------------------------------------------------
(* The answer in the queue *)

\* What a signal holds follows from its name.
LEMMA SignalFields ==
    ASSUME NEW s \in Signals
    PROVE  /\ s.signal \in {"error", "ok", "unitEmpty", "rejected", "dispensed"}
           /\ ~Status(s) => s.unit \in Units
           /\ s.signal \in {"rejected", "dispensed"} => s.items \in 0..MaxCount
BY DEF Signals, Status

\* The signals of a queue without its first one.
LEMMA TailSignals ==
    ASSUME NEW q \in Seq(Signals), q # <<>>
    PROVE  /\ Tail(q) \in Seq(Signals) /\ 1 \in DOMAIN q /\ Head(q) = q[1]
           /\ Head(q) \in Signals
           /\ \A i \in DOMAIN Tail(q) : i + 1 \in DOMAIN q /\ Tail(q)[i] = q[i + 1]
           /\ \A i \in DOMAIN q : i # 1 => i - 1 \in DOMAIN Tail(q) /\ Tail(q)[i - 1] = q[i]
           /\ DOMAIN q \subseteq Nat \ {0} /\ DOMAIN Tail(q) \subseteq Nat \ {0}
OBVIOUS

\* The signals of a queue with one more.
LEMMA AppendSignals ==
    ASSUME NEW q \in Seq(Signals), NEW s \in Signals
    PROVE  /\ Append(q, s) \in Seq(Signals)
           /\ Len(q) \in Nat /\ DOMAIN q = 1..Len(q)
           /\ DOMAIN Append(q, s) = 1..(Len(q) + 1)
           /\ Append(q, s)[Len(q) + 1] = s
           /\ \A i \in DOMAIN q : Append(q, s)[i] = q[i]
OBVIOUS

\* News of the state of the device leaves the answer where it is.
LEMMA AnswerStatus ==
    ASSUME NEW q \in Seq(Signals), NEW s \in Signals, Status(s)
    PROVE  /\ Statuses(q) => Statuses(Append(q, s))
           /\ \A u, k : Answer(q, u, k) => Answer(Append(q, s), u, k)
           /\ Rejected(Append(q, s)) => Rejected(q)
           /\ Emptied(Append(q, s)) => Emptied(q)
<1> DEFINE n == Len(q) + 1
           r == Append(q, s)
<1>1. /\ n \in Nat /\ DOMAIN q = 1..(n - 1) /\ DOMAIN r = 1..n
      /\ r[n] = s /\ \A i \in 1..(n - 1) : r[i] = q[i]
  BY AppendSignals
<1>2. s.signal \notin {"rejected", "unitEmpty", "dispensed"}
  BY DEF Status
<1> HIDE DEF n, r
<1>3. \A i \in 1..n : i \in 1..(n - 1) \/ i = n
  BY <1>1
<1>4. Statuses(q) => Statuses(r)
  BY <1>1, <1>3 DEF Statuses
<1>5. ASSUME NEW u, NEW k, Answer(q, u, k)
      PROVE  Answer(r, u, k)
  <2>1. PICK d \in 1..(n - 1) :
           /\ q[d].signal = "dispensed" /\ q[d].unit = u /\ q[d].items = k
           /\ \A i \in 1..(n - 1) : i > d => Status(q[i])
           /\ \A i \in 1..(n - 1) : i < d =>
                 \/ Status(q[i])
                 \/ q[i].signal = "unitEmpty" /\ q[i].unit = u
                 \/ q[i].signal = "rejected" /\ q[i].unit = u /\ q[i].items = 1
           /\ \A i, j \in 1..(n - 1) :
                 q[i].signal = "rejected" /\ q[j].signal = "rejected" => i = j
    BY <1>1, <1>5 DEF Answer
  <2>2. d \in 1..n /\ d < n /\ r[d] = q[d]
    BY <1>1
  <2>3. \A i \in 1..n : i > d => Status(r[i])
    BY <1>1, <1>3, <2>1
  <2>4. \A i \in 1..n : i < d =>
                 \/ Status(r[i])
                 \/ r[i].signal = "unitEmpty" /\ r[i].unit = u
                 \/ r[i].signal = "rejected" /\ r[i].unit = u /\ r[i].items = 1
    BY <1>1, <1>3, <2>1, <2>2
  <2>5. \A i, j \in 1..n : r[i].signal = "rejected" /\ r[j].signal = "rejected" => i = j
    BY <1>1, <1>2, <1>3, <2>1
  <2>6. QED
    BY <1>1, <2>1, <2>2, <2>3, <2>4, <2>5 DEF Answer
<1>6. Rejected(r) => Rejected(q)
  BY <1>1, <1>2, <1>3 DEF Rejected
<1>7. Emptied(r) => Emptied(q)
  BY <1>1, <1>2, <1>3 DEF Emptied
<1>8. QED
  BY <1>4, <1>5, <1>6, <1>7 DEF r

\* The first signal of a queue with an answer: the answer itself, with nothing
\* but news behind it, or what comes before the answer.
LEMMA AnswerFirst ==
    ASSUME NEW q \in Seq(Signals), q # <<>>, NEW u, NEW k, Answer(q, u, k),
           NEW s, s = Head(q)
    PROVE  /\ s.signal = "dispensed" => s.unit = u /\ s.items = k /\ Statuses(Tail(q))
           /\ s.signal # "dispensed" => Answer(Tail(q), u, k)
           /\ s.signal = "unitEmpty" => s.unit = u /\ Emptied(q)
           /\ s.signal = "rejected" =>
                s.unit = u /\ s.items = 1 /\ Rejected(q) /\ ~Rejected(Tail(q))
           /\ Rejected(Tail(q)) => Rejected(q)
           /\ Emptied(Tail(q)) => Emptied(q)
<1> DEFINE r == Tail(q)
<1>1. /\ 1 \in DOMAIN q /\ s = q[1]
      /\ \A i \in DOMAIN r : i + 1 \in DOMAIN q /\ r[i] = q[i + 1]
      /\ \A i \in DOMAIN q : i # 1 => i - 1 \in DOMAIN r /\ r[i - 1] = q[i]
      /\ DOMAIN q \subseteq Nat \ {0} /\ DOMAIN r \subseteq Nat \ {0}
  BY TailSignals
<1> HIDE DEF r
<1>2. PICK d \in DOMAIN q :
         /\ q[d].signal = "dispensed" /\ q[d].unit = u /\ q[d].items = k
         /\ \A i \in DOMAIN q : i > d => Status(q[i])
         /\ \A i \in DOMAIN q : i < d =>
               \/ Status(q[i])
               \/ q[i].signal = "unitEmpty" /\ q[i].unit = u
               \/ q[i].signal = "rejected" /\ q[i].unit = u /\ q[i].items = 1
         /\ \A i, j \in DOMAIN q :
               q[i].signal = "rejected" /\ q[j].signal = "rejected" => i = j
  BY DEF Answer
<1>3. d \in Nat \ {0}
  BY <1>1
<1>4. CASE d = 1
  <2>1. s.signal = "dispensed" /\ s.unit = u /\ s.items = k
    BY <1>1, <1>2, <1>4
  <2>2. Statuses(r)
    BY <1>1, <1>2, <1>4 DEF Statuses
  <2>3. Rejected(r) => Rejected(q)
    BY <1>1 DEF Rejected
  <2>4. Emptied(r) => Emptied(q)
    BY <1>1 DEF Emptied
  <2>5. QED
    BY <2>1, <2>2, <2>3, <2>4 DEF r
<1>5. CASE d # 1
  <2>1. /\ 1 < d
        /\ \/ Status(s)
           \/ s.signal = "unitEmpty" /\ s.unit = u
           \/ s.signal = "rejected" /\ s.unit = u /\ s.items = 1
    BY <1>1, <1>2, <1>3, <1>5
  <2>2. s.signal # "dispensed"
    BY <2>1 DEF Status
  <2>3. Answer(r, u, k)
    <3>1. d - 1 \in DOMAIN r /\ r[d - 1] = q[d]
      BY <1>1, <1>5
    <3>2. \A i \in DOMAIN r : i > d - 1 => Status(r[i])
      BY <1>1, <1>2, <1>3
    <3>3. \A i \in DOMAIN r : i < d - 1 =>
               \/ Status(r[i])
               \/ r[i].signal = "unitEmpty" /\ r[i].unit = u
               \/ r[i].signal = "rejected" /\ r[i].unit = u /\ r[i].items = 1
      BY <1>1, <1>2, <1>3
    <3>4. \A i, j \in DOMAIN r :
               r[i].signal = "rejected" /\ r[j].signal = "rejected" => i = j
      <4> TAKE i, j \in DOMAIN r
      <4> HAVE r[i].signal = "rejected" /\ r[j].signal = "rejected"
      <4>1. i + 1 = j + 1
        BY <1>1, <1>2
      <4>2. QED
        BY <1>1, <4>1
    <3>5. QED
      BY <1>2, <3>1, <3>2, <3>3, <3>4 DEF Answer
  <2>4. s.signal = "unitEmpty" => Emptied(q)
    BY <1>1 DEF Emptied
  <2>5. s.signal = "rejected" => Rejected(q) /\ ~Rejected(r)
    <3> HAVE s.signal = "rejected"
    <3>1. Rejected(q)
      BY <1>1 DEF Rejected
    <3>2. ASSUME NEW i \in DOMAIN r, r[i].signal = "rejected"
          PROVE  FALSE
      <4>1. i + 1 = 1
        BY <1>1, <1>2, <3>2
      <4>2. QED
        BY <1>1, <4>1
    <3>3. QED
      BY <3>1, <3>2 DEF Rejected
  <2>6. Rejected(r) => Rejected(q)
    BY <1>1 DEF Rejected
  <2>7. Emptied(r) => Emptied(q)
    BY <1>1 DEF Emptied
  <2>8. QED
    BY <2>1, <2>2, <2>3, <2>4, <2>5, <2>6, <2>7 DEF r, Status
<1>6. QED
  BY <1>4, <1>5

\* News at the head of a queue without an answer.
LEMMA StatusesTail ==
    ASSUME NEW q \in Seq(Signals), q # <<>>, Statuses(q)
    PROVE  Status(Head(q)) /\ Statuses(Tail(q))
BY TailSignals DEF Statuses

\* An answer of notes given added to a queue of news.
LEMMA AnswerAlone ==
    ASSUME NEW q \in Seq(Signals), Statuses(q), NEW u \in Units, NEW k \in 0..MaxCount,
           NEW y \in Signals, y.signal = "dispensed", y.unit = u, y.items = k
    PROVE  /\ q \o <<y>> \in Seq(Signals) /\ Answer(q \o <<y>>, u, k)
           /\ ~Rejected(q \o <<y>>) /\ ~Emptied(q \o <<y>>)
<1> DEFINE n == Len(q) + 1
           r == Append(q, y)
<1>1. q \o <<y>> = r
  OBVIOUS
<1>2. /\ r \in Seq(Signals) /\ n \in Nat \ {0} /\ DOMAIN q = 1..(n - 1) /\ DOMAIN r = 1..n
      /\ r[n] = y /\ \A i \in 1..(n - 1) : r[i] = q[i]
  BY AppendSignals
<1> HIDE DEF n, r
<1>3. \A i \in 1..n : (i \in 1..(n - 1) /\ Status(r[i])) \/ i = n
  BY <1>2 DEF Statuses
<1>4. \A i \in 1..n : r[i].signal \notin {"rejected", "unitEmpty"}
  BY <1>2, <1>3 DEF Status
<1>5. Answer(r, u, k)
  BY <1>2, <1>3, <1>4 DEF Answer
<1>6. ~Rejected(r) /\ ~Emptied(r)
  BY <1>2, <1>4 DEF Rejected, Emptied
<1>7. QED
  BY <1>1, <1>2, <1>5, <1>6

\* The same after one signal on the unit.
LEMMA AnswerAfter ==
    ASSUME NEW q \in Seq(Signals), Statuses(q), NEW u \in Units, NEW k \in 0..MaxCount,
           NEW y \in Signals, y.signal = "dispensed", y.unit = u, y.items = k,
           NEW z \in Signals, z.signal \in {"unitEmpty", "rejected"}, z.unit = u,
           z.signal = "rejected" => z.items = 1
    PROVE  /\ (q \o <<z>>) \o <<y>> \in Seq(Signals) /\ Answer((q \o <<z>>) \o <<y>>, u, k)
           /\ Rejected((q \o <<z>>) \o <<y>>) => z.signal = "rejected"
           /\ Emptied((q \o <<z>>) \o <<y>>) => z.signal = "unitEmpty"
<1> DEFINE m == Len(q) + 1
           t == Append(q, z)
           n == Len(t) + 1
           r == Append(t, y)
<1>1. (q \o <<z>>) \o <<y>> = r
  OBVIOUS
<1>2. /\ t \in Seq(Signals) /\ m \in Nat \ {0} /\ DOMAIN q = 1..(m - 1) /\ DOMAIN t = 1..m
      /\ t[m] = z /\ \A i \in 1..(m - 1) : t[i] = q[i]
  BY AppendSignals
<1>3. n = m + 1
  OBVIOUS
<1>4. /\ r \in Seq(Signals) /\ DOMAIN r = 1..n
      /\ r[n] = y /\ \A i \in 1..m : r[i] = t[i]
  BY <1>2, AppendSignals
<1> HIDE DEF m, n, r, t
<1>5. r[m] = z /\ \A i \in 1..(m - 1) : r[i] = q[i]
  BY <1>2, <1>4
<1>6. \A i \in 1..n : (i \in 1..(m - 1) /\ Status(r[i])) \/ i = m \/ i = n
  BY <1>2, <1>3, <1>5 DEF Statuses
<1>7. \A i \in 1..n : r[i].signal \in {"rejected", "unitEmpty"} => i = m
  BY <1>4, <1>6 DEF Status
<1>8. Answer(r, u, k)
  <2>1. n \in DOMAIN r /\ r[n].signal = "dispensed" /\ r[n].unit = u /\ r[n].items = k
    BY <1>2, <1>3, <1>4
  <2>2. \A i \in DOMAIN r : ~(i > n)
    BY <1>2, <1>3, <1>4
  <2>3. \A i \in DOMAIN r : i < n =>
           \/ Status(r[i])
           \/ r[i].signal = "unitEmpty" /\ r[i].unit = u
           \/ r[i].signal = "rejected" /\ r[i].unit = u /\ r[i].items = 1
    BY <1>2, <1>3, <1>4, <1>5, <1>6
  <2>4. \A i, j \in DOMAIN r : r[i].signal = "rejected" /\ r[j].signal = "rejected" => i = j
    BY <1>4, <1>7
  <2>5. QED
    BY <2>1, <2>2, <2>3, <2>4 DEF Answer
<1>9. Rejected(r) => z.signal = "rejected"
  BY <1>4, <1>5, <1>7 DEF Rejected
<1>10. Emptied(r) => z.signal = "unitEmpty"
  BY <1>4, <1>5, <1>7 DEF Emptied
<1>11. QED
  BY <1>1, <1>4, <1>8, <1>9, <1>10

\* What performDispense reports for a queue q of news, a unit u, k notes given and r
\* rejected.
Report(q, u, k, r, empty) ==
    q \o (IF empty THEN <<[signal |-> "unitEmpty", unit |-> u]>> ELSE <<>>)
      \o (IF r = 0 THEN <<>> ELSE <<[signal |-> "rejected", unit |-> u, items |-> r]>>)
      \o <<[signal |-> "dispensed", unit |-> u, items |-> k]>>

\* The report is an answer; it tells of a rejected note or an empty unit only if
\* there was one.
LEMMA ReportIs ==
    ASSUME NEW q \in Seq(Signals), Statuses(q), NEW u \in Units, NEW k \in 0..MaxCount,
           NEW r \in {0, 1}, NEW empty \in BOOLEAN, empty => r = 0, r = 1 => 1 \in 0..MaxCount
    PROVE  /\ Report(q, u, k, r, empty) \in Seq(Signals)
           /\ Answer(Report(q, u, k, r, empty), u, k)
           /\ Rejected(Report(q, u, k, r, empty)) => r = 1
           /\ Emptied(Report(q, u, k, r, empty)) => empty
<1>1. PICK y \in Signals : y = [signal |-> "dispensed", unit |-> u, items |-> k]
  BY DEF Signals
<1>2. y.signal = "dispensed" /\ y.unit = u /\ y.items = k /\ q \o <<>> = q
  BY <1>1
<1>3. CASE empty
  <2>1. PICK z \in Signals : z = [signal |-> "unitEmpty", unit |-> u]
    BY DEF Signals
  <2>2. z.signal = "unitEmpty" /\ z.unit = u /\ (q \o <<z>>) \o <<>> = q \o <<z>>
    BY <2>1
  <2>3. Report(q, u, k, r, empty) = (q \o <<z>>) \o <<y>>
    BY <1>1, <1>3, <2>1, <2>2 DEF Report
  <2>4. /\ (q \o <<z>>) \o <<y>> \in Seq(Signals) /\ Answer((q \o <<z>>) \o <<y>>, u, k)
        /\ Rejected((q \o <<z>>) \o <<y>>) => z.signal = "rejected"
    BY <1>2, <2>2, AnswerAfter
  <2>5. QED
    BY <1>3, <2>2, <2>3, <2>4
<1>4. CASE ~empty /\ r = 0
  <2>1. Report(q, u, k, r, empty) = q \o <<y>>
    BY <1>1, <1>2, <1>4 DEF Report
  <2>2. QED
    BY <1>2, <2>1, AnswerAlone
<1>5. CASE ~empty /\ r = 1
  <2>1. PICK z \in Signals : z = [signal |-> "rejected", unit |-> u, items |-> 1]
    BY <1>5 DEF Signals
  <2>2. z.signal = "rejected" /\ z.unit = u /\ z.items = 1
    BY <2>1
  <2>3. Report(q, u, k, r, empty) = (q \o <<z>>) \o <<y>>
    BY <1>1, <1>2, <1>5, <2>1 DEF Report
  <2>4. /\ (q \o <<z>>) \o <<y>> \in Seq(Signals) /\ Answer((q \o <<z>>) \o <<y>>, u, k)
        /\ Emptied((q \o <<z>>) \o <<y>>) => z.signal = "unitEmpty"
    BY <1>2, <2>2, AnswerAfter
  <2>5. QED
    BY <1>5, <2>2, <2>3, <2>4
<1>6. QED
  BY <1>3, <1>4, <1>5

-----------------------------------------------------------------------------
(* What a step leaves alone *)

\* The types of the variables of the dispenser.
LEMMA TypesAre ==
    ASSUME TypeOK
    PROVE  /\ LedgerTypeOK
           /\ count \in Contents /\ saved \in Contents /\ unitData \in Contents
           /\ stock \in Contents
           /\ \A u \in Units : count[u] \in Nat /\ saved[u] \in Nat /\ stock[u] \in Nat
                                 /\ unitData[u] \in Nat
           /\ queue \in Seq(Signals)
           /\ amounts.toDispensing \in Nat /\ amounts.dispensed \in Nat
           /\ available \in Nat /\ booked \in Nat /\ given \in Nat /\ promised \in Nat
           /\ untold \in Nat
           /\ handed \in Nat /\ faults \in Nat /\ refills \in Nat /\ Leftover \in Nat
           /\ change \in Nat \cup {NoChange} /\ lost \in Nat /\ paidOut \in Nat
           /\ Known \in Nat /\ AllNotes \in Nat
<1>1. LedgerTypeOK /\ change \in Nat \cup {NoChange} /\ lost \in Nat /\ paidOut \in Nat
  BY DEF TypeOK, LedgerTypeOK
<1>2. count \in Contents /\ saved \in Contents /\ unitData \in Contents /\ stock \in Contents
  BY DEF TypeOK
<1>3. \A u \in Units : /\ count[u] \in Nat /\ saved[u] \in Nat /\ stock[u] \in Nat
                       /\ unitData[u] \in Nat
  BY <1>2, UnitsAre
<1>4. amounts.toDispensing \in Nat /\ amounts.dispensed \in Nat
  BY DEF TypeOK
<1>5. AllNotes \in Nat
  BY <1>1, NoteSums DEF LedgerTypeOK
<1>6. Leftover \in Nat
  BY <1>1 DEF Leftover
<1>7. QED
  BY <1>1, <1>2, <1>3, <1>4, <1>5, <1>6 DEF TypeOK, Known

\* The money of the ledger is where it was.
LEMMA CoveringSame ==
    ASSUME Covering, UNCHANGED <<stage, available, amounts, change, lost, paidOut, notes, crashed>>,
           crashed => given' = given
    PROVE  Covering'
<1>1. Leftover' = Leftover /\ AllNotes' = AllNotes
  BY DEF Leftover, AllNotes, NotesOf
<1>2. QED
  BY <1>1 DEF Covering

\* What is still to be booked is what it was.
LEMMA BookingSame ==
    ASSUME Booking, UNCHANGED <<saves, booked, paidOut, amounts, crashed>>
    PROVE  Booking'
BY DEF Booking, Known, UnitsSave, GivenSave

\* The counts cover units that have lost notes.
LEMMA CountingSame ==
    ASSUME TypeOK, Counting, UNCHANGED <<saves, count, saved>>, stock' \in Contents,
           \A u \in Units : stock'[u] <= stock[u]
    PROVE  Counting'
<1>1. \A u \in Units : stock[u] \in Nat /\ stock'[u] \in Nat /\ count[u] \in Nat /\ saved[u] \in Nat
  BY UnitsAre, TypesAre
<1>2. \A i \in DOMAIN saves : saves[i].table = "device_param" => saves[i].counts \in Contents
  BY DEF TypeOK
<1>3. \A i \in DOMAIN saves : saves[i].table = "device_param" =>
          \A u \in Units : saves[i].counts[u] \in Nat
  BY <1>2, UnitsAre
<1>4. QED
  BY <1>1, <1>3 DEF Counting

\* A step of the manager or of the ledger that sends no signal and has the
\* dispenser do nothing leaves the request where it is.
LEMMA RequestSame ==
    ASSUME NoRequest \/ Requested \/ Replied \/ Silenced,
           UNCHANGED <<stage, job, queue, amounts, crashed, given, paidOut, stock, count>>
    PROVE  (NoRequest \/ Requested \/ Replied \/ Silenced)'
<1>1. Known' = Known
  BY DEF Known
<1>2. CASE NoRequest
  BY <1>1, <1>2 DEF NoRequest, Statuses, Status
<1>3. CASE Requested
  BY <1>1, <1>3 DEF Requested, Statuses, Status
<1>4. CASE Replied
  <2>1. PICK u \in Units, k \in 0..MaxCount :
           /\ Answer(queue, u, k)
           /\ k * Nominal[u] <= amounts.toDispensing
           /\ given = Known + k * Nominal[u]
           /\ stock[u] # 0 =>
                count[u] >= stock[u] + k + (IF Rejected(queue) THEN 1 ELSE 0)
           /\ Emptied(queue) => stock[u] = 0
    BY <1>4 DEF Replied
  <2>2. PICK q : q = queue
    OBVIOUS
  <2>3. /\ Answer(q, u, k)' <=> Answer(q, u, k) 
        /\ Rejected(q)' <=> Rejected(q) /\ (Emptied(q)' <=> Emptied(q))
    BY DEF Answer, Rejected, Emptied, Status
  <2>4. /\ Answer(queue, u, k)' /\ (Rejected(queue)' <=> Rejected(queue))
        /\ (Emptied(queue)' <=> Emptied(queue))
    BY <2>1, <2>2, <2>3 DEF Answer, Rejected, Emptied, Status
  <2>5. stage' = "waiting" /\ job' = NoJob
    BY <1>4 DEF Replied
  <2>6. QED
    BY <1>1, <2>1, <2>4, <2>5 DEF Replied
<1>5. CASE Silenced
  BY <1>1, <1>5 DEF Silenced, Statuses, Status
<1>6. QED
  BY <1>2, <1>3, <1>4, <1>5

-----------------------------------------------------------------------------
(* The driver *)

\* An answer q on its way, as the four shapes of a request read it.
LEMMA RepliedIs ==
    ASSUME NEW u \in Units, NEW k \in 0..MaxCount, NEW q, q = queue', Answer(q, u, k),
           stage' = "waiting", job' = NoJob, k * Nominal[u] <= amounts'.toDispensing,
           given' = Known' + k * Nominal[u],
           stock'[u] # 0 => count'[u] >= stock'[u] + k + (IF Rejected(q) THEN 1 ELSE 0),
           Emptied(q) => stock'[u] = 0
    PROVE  Replied'
<1>1. Answer(queue, u, k)'
  BY DEF Answer, Status
<1>2. (Rejected(queue)' <=> Rejected(q)) /\ (Emptied(queue)' <=> Emptied(q))
  BY DEF Rejected, Emptied
<1>3. QED
  BY <1>1, <1>2 DEF Replied

\* Notes that come out for the request, and the notes the driver is told of.
LEMMA TakenOutIs ==
    ASSUME DispenserInv, job # NoJob, NEW k \in Nat, NEW told \in Nat, NEW r \in {0, 1},
           told <= k, told <= job.items, k + r <= stock[job.unit],
           TakenOut(k, r), Told(k, told)
    PROVE  /\ Requested /\ ~crashed
           /\ job.unit \in Units /\ told \in 0..MaxCount
           /\ stock' \in Contents /\ stock'[job.unit] = stock[job.unit] - k - r
           /\ \A v \in Units : stock'[v] <= stock[v]
           /\ given' = given + told * Nominal[job.unit]
           /\ given' \in Nat /\ untold' \in Nat /\ handed' \in Nat
           /\ told * Nominal[job.unit] <= amounts.toDispensing
           /\ job' = NoJob
<1> DEFINE u == job.unit
<1>1. /\ Requested /\ ~crashed
      /\ u \in Units /\ job.items \in 1..MaxCount
  BY DEF DispenserInv, NoRequest, Replied, Silenced, Requested, Covering, TypeOK
<1>2. /\ stock[u] \in Nat /\ stock[u] <= MaxCount /\ MaxCount \in Nat
      /\ Nominal[u] \in Nat /\ given \in Nat /\ untold \in Nat /\ handed \in Nat
      /\ told \in 0..MaxCount
  <2>1. stock[u] \in Nat /\ stock[u] <= MaxCount /\ Nominal[u] \in Nat
    BY <1>1, UnitsAre, TypesAre DEF DispenserInv
  <2>2. given \in Nat /\ untold \in Nat /\ handed \in Nat /\ MaxCount \in Nat
    BY TypesAre, DispenserAssumption DEF DispenserInv
  <2>3. QED
    BY <2>1, <2>2
<1>3. stock' \in Contents /\ stock'[u] = stock[u] - k - r /\ \A v \in Units : stock'[v] <= stock[v]
  <2>1. stock \in Contents /\ stock' = [stock EXCEPT ![u] = @ - k - r]
    BY TypesAre DEF TakenOut, DispenserInv
  <2>2. stock[u] - k - r \in 0..MaxCount
    BY <1>2
  <2>3. stock' \in Contents /\ stock'[u] = stock[u] - k - r
    BY <1>1, <2>1, <2>2 DEF Contents
  <2>4. ASSUME NEW v \in Units
        PROVE  stock'[v] <= stock[v]
    <3>1. CASE v = u
      BY <1>2, <2>3, <3>1
    <3>2. CASE v # u
      <4>1. stock'[v] = stock[v] /\ stock[v] \in Nat
        BY <2>1, <3>2, UnitsAre DEF Contents
      <4>2. QED
        BY <4>1
    <3>3. QED
      BY <3>1, <3>2
  <2>5. QED
    BY <2>3, <2>4
<1>4. /\ given' = given + told * Nominal[u] /\ given' \in Nat
      /\ untold' \in Nat /\ handed' \in Nat
      /\ told * Nominal[u] <= amounts.toDispensing
  <2>1. told * Nominal[u] \in Nat /\ told * Nominal[u] <= job.items * Nominal[u]
        /\ job.items * Nominal[u] \in Nat
    <3>1. job.items \in Nat
      BY <1>1, <1>2
    <3>2. PICK a \in Nat, b \in Nat, v \in Nat :
             a = told /\ b = job.items /\ v = Nominal[u] /\ a <= b
      BY <1>2, <3>1
    <3>3. a * v \in Nat /\ b * v \in Nat /\ a * v <= b * v
      BY <3>2, FewerNotes
    <3>4. QED
      BY <3>2, <3>3
  <2>2. amounts.toDispensing \in Nat /\ job.items * Nominal[u] <= amounts.toDispensing
    BY <1>1, TypesAre DEF Requested, DispenserInv
  <2>3. /\ given' = given + told * Nominal[u] /\ handed' = handed + k * Nominal[u]
        /\ untold' = untold + (k - told) * Nominal[u]
    BY DEF TakenOut, Told
  <2>4. PICK g, h, m, n : /\ g = told * Nominal[u] /\ h = job.items * Nominal[u]
                          /\ m = k * Nominal[u] /\ n = (k - told) * Nominal[u]
    OBVIOUS
  <2>5. k - told \in Nat /\ m \in Nat /\ n \in Nat
    BY <1>2, <2>4
  <2>6. /\ g \in Nat /\ g <= amounts.toDispensing
        /\ given + g \in Nat /\ handed + m \in Nat /\ untold + n \in Nat
    BY <1>2, <2>1, <2>2, <2>4, <2>5
  <2>7. QED
    BY <2>3, <2>4, <2>6
<1>5. job' = NoJob
  BY DEF TakenOut
<1>6. QED
  BY <1>1, <1>2, <1>3, <1>4, <1>5

\* performDispense with k notes come out, `told' of them known and r rejected: the
\* answer is in the queue, and the count of the unit still covers it.
LEMMA PerformedIs ==
    ASSUME DispenserInv, job # NoJob, NEW k \in Nat, NEW told \in Nat, NEW r \in {0, 1},
           NEW empty \in BOOLEAN,
           told <= k, told <= job.items, k + r <= stock[job.unit],
           empty => r = 0 /\ k = stock[job.unit],
           Performed(k, told, r, empty),
           UNCHANGED <<ledger, count, saved, managerVars, down, promised, refills, crashed>>,
           faults' \in 0..MaxFaults
    PROVE  DispenserInv'
<1> DEFINE u == job.unit
<1>1. TakenOut(k, r) /\ Told(k, told)
  BY DEF Performed
<1>2. /\ Requested /\ ~crashed
      /\ u \in Units /\ told \in 0..MaxCount
      /\ stock' \in Contents /\ stock'[u] = stock[u] - k - r
      /\ \A v \in Units : stock'[v] <= stock[v]
      /\ given' = given + told * Nominal[u]
      /\ given' \in Nat /\ untold' \in Nat /\ handed' \in Nat
      /\ told * Nominal[u] <= amounts.toDispensing
      /\ job' = NoJob
  BY <1>1, TakenOutIs
<1>3. /\ stock[u] \in Nat /\ stock[u] <= MaxCount /\ count[u] \in Nat /\ MaxCount \in Nat
      /\ r = 1 => 1 \in 0..MaxCount
  <2>1. stock[u] \in Nat /\ stock[u] <= MaxCount /\ count[u] \in Nat
    BY <1>2, UnitsAre, TypesAre DEF DispenserInv
  <2>2. MaxCount \in Nat
    BY DispenserAssumption
  <2>3. QED
    BY <2>1, <2>2
<1>4. unitData' \in Contents
  <2>1. unitData \in Contents /\ 0 \in 0..MaxCount
    BY <1>3, TypesAre DEF DispenserInv
  <2>2. unitData' = IF empty THEN [unitData EXCEPT ![u] = 0] ELSE unitData
    BY DEF Performed
  <2>3. QED
    BY <2>1, <2>2 DEF Contents
<1>5. /\ queue' \in Seq(Signals) /\ Answer(queue', u, told)
      /\ Rejected(queue') => r = 1
      /\ Emptied(queue') => empty
  <2>1. queue' = Report(queue, u, told, r, empty)
    BY DEF Performed, Report
  <2>2. queue \in Seq(Signals) /\ Statuses(queue)
    BY <1>2, TypesAre DEF DispenserInv, Requested
  <2> HIDE DEF u
  <2>3. QED
    BY <1>2, <1>3, <2>1, <2>2, ReportIs
<1>6. UNCHANGED <<ledger, count, saved, managerVars, down, promised, refills, crashed, silent>>
  BY DEF Performed
<1>7. LedgerTypeOK'
  BY <1>6, LedgerStutterType, TypesAre DEF DispenserInv
<1>8. TypeOK'
  BY <1>2, <1>4, <1>5, <1>6, <1>7 DEF DispenserInv, TypeOK, managerVars
<1>9. UNCHANGED <<stage, amounts, saves, booked, available, change, lost, paidOut, notes>>
  BY <1>6 DEF managerVars, ledger
<1>10. Replied'
  <2>1. Known' = Known /\ given = Known /\ stage' = "waiting"
    BY <1>2, <1>9 DEF Known, Requested
  <2>2. stock'[u] # 0 => count'[u] >= stock'[u] + told + (IF Rejected(queue') THEN 1 ELSE 0)
    <3>1. count[u] >= stock[u] /\ count'[u] = count[u]
      BY <1>2, <1>6 DEF DispenserInv, Counting
    <3>2. PICK a, b, c, d, e : /\ a = count'[u] /\ b = stock[u] /\ c = stock'[u]
                               /\ d = told /\ e = (IF Rejected(queue') THEN 1 ELSE 0)
      OBVIOUS
    <3>3. a \in Nat /\ b \in Nat /\ a >= b /\ c = b - k - r /\ d <= k /\ d \in Nat
      BY <1>2, <1>3, <3>1, <3>2
    <3>4. e \in {0, 1} /\ e <= r
      <4>1. CASE Rejected(queue')
        BY <1>5, <3>2, <4>1
      <4>2. CASE ~Rejected(queue')
        BY <3>2, <4>2
      <4>3. QED
        BY <4>1, <4>2
    <3>5. a >= c + d + e
      BY <3>3, <3>4
    <3>6. QED
      BY <3>2, <3>5
  <2>3. Emptied(queue') => stock'[u] = 0
    BY <1>2, <1>3, <1>5
  <2>4. given' = Known' + told * Nominal[u] /\ told * Nominal[u] <= amounts'.toDispensing
    BY <1>2, <1>9, <2>1
  <2>5. PICK q : q = queue'
    OBVIOUS
  <2> HIDE DEF u
  <2>6. QED
    BY <1>2, <1>5, <2>1, <2>2, <2>3, <2>4, <2>5, RepliedIs
<1>11. Covering'
  BY <1>2, <1>6, <1>9, CoveringSame DEF DispenserInv
<1>12. Booking'
  BY <1>6, <1>9, BookingSame DEF DispenserInv
<1>13. Counting'
  BY <1>2, <1>6, <1>9, CountingSame DEF DispenserInv
<1>14. QED
  BY <1>8, <1>10, <1>11, <1>12, <1>13 DEF DispenserInv

\* A request that ends without dispensed().
LEMMA EndedSilentlyIs ==
    ASSUME DispenserInv, job # NoJob, NEW k \in Nat, k <= stock[job.unit],
           EndedSilently(k),
           UNCHANGED <<ledger, count, saved, managerVars, down, promised, refills, crashed>>,
           faults' \in 0..MaxFaults
    PROVE  DispenserInv'
<1> DEFINE u == job.unit
<1>1. TakenOut(k, 0) /\ Told(k, 0) /\ silent' = TRUE /\ UNCHANGED <<unitData, queue>>
  BY DEF EndedSilently
<1>2. /\ u \in Units /\ job.items \in 1..MaxCount /\ stock[u] \in Nat
  <2>1. u \in Units /\ job.items \in 1..MaxCount
    BY DEF DispenserInv, TypeOK
  <2>2. QED
    BY <2>1, TypesAre DEF DispenserInv
<1>3. 0 <= job.items /\ k + 0 <= stock[u]
  BY <1>2
<1>4. /\ Requested /\ ~crashed
      /\ stock' \in Contents
      /\ \A v \in Units : stock'[v] <= stock[v]
      /\ given' = given + 0 * Nominal[u]
      /\ given' \in Nat /\ untold' \in Nat /\ handed' \in Nat
      /\ job' = NoJob
  BY <1>1, <1>3, TakenOutIs
<1>5. given' = given
  <2>1. Nominal[u] \in Nat /\ given \in Nat
    BY <1>2, UnitsAre, TypesAre DEF DispenserInv
  <2>2. QED
    BY <1>4, <2>1
<1>6. LedgerTypeOK'
  BY LedgerStutterType, TypesAre DEF DispenserInv
<1>7. TypeOK'
  BY <1>1, <1>4, <1>6 DEF DispenserInv, TypeOK, managerVars
<1>8. UNCHANGED <<stage, amounts, saves, booked, available, change, lost, paidOut, notes>>
  BY DEF managerVars, ledger
<1>9. Silenced'
  <2>1. Known' = Known
    BY <1>8 DEF Known
  <2>2. QED
    BY <1>1, <1>4, <1>5, <1>8, <2>1 DEF Requested, Silenced, Statuses, Status
<1>10. Covering'
  BY <1>4, <1>8, CoveringSame DEF DispenserInv
<1>11. Booking'
  BY <1>8, BookingSame DEF DispenserInv
<1>12. Counting'
  BY <1>4, <1>8, CountingSame DEF DispenserInv
<1>13. QED
  BY <1>7, <1>9, <1>10, <1>11, <1>12 DEF DispenserInv

\* performDispense by a device that works, that jams, whose answer or whose command
\* is lost, or that is down.
LEMMA GiveIs ==
    DispenserInv /\ (\/ Give \/ GiveAndReject \/ Jam \/ LoseAnswer \/ LoseCommand
                     \/ GiveNothing)
        => DispenserInv'
<1>1. SUFFICES ASSUME DispenserInv,
                      \/ Give \/ GiveAndReject \/ Jam \/ LoseAnswer \/ LoseCommand
                      \/ GiveNothing
               PROVE  DispenserInv'
  OBVIOUS
<1>2. job # NoJob
  BY <1>1 DEF Give, GiveAndReject, Jam, LoseAnswer, LoseCommand, GiveNothing, DeviceFault
<1>3. PICK u, i : u = job.unit /\ i = job.items
  OBVIOUS
<1>4. u \in Units /\ i \in 1..MaxCount
  <2>1. job \in [unit : Units, items : 1..MaxCount] \cup {NoJob}
    BY <1>1 DEF DispenserInv, TypeOK
  <2>2. QED
    BY <1>2, <1>3, <2>1
<1>5. stock[u] \in Nat /\ i \in Nat /\ faults \in 0..MaxFaults /\ MaxFaults \in Nat
  <2>1. faults \in 0..MaxFaults /\ MaxFaults \in Nat
    BY <1>1, DispenserAssumption DEF DispenserInv, TypeOK
  <2>2. stock[u] \in Nat
    BY <1>1, <1>4, TypesAre DEF DispenserInv
  <2>3. QED
    BY <1>4, <2>1, <2>2
<1>6. PICK m : m = Min({i, stock[u]})
  OBVIOUS
<1>7. m \in Nat /\ m \in {i, stock[u]} /\ m <= i /\ m <= stock[u]
  BY <1>5, <1>6, MinOfTwo
<1>8. DeviceFault =>
        /\ UNCHANGED <<ledger, count, saved, managerVars, down, promised, refills, crashed>>
        /\ faults' \in 0..MaxFaults
  BY <1>5 DEF DeviceFault
<1>9. \A k \in MayComeOut : k \in Nat /\ k <= stock[u]
  <2>1. PICK n : n = Repeats * i
    OBVIOUS
  <2>2. n \in Nat
    BY <1>5, <2>1, DispenserAssumption
  <2>3. PICK l : l = Min({n, stock[u]})
    OBVIOUS
  <2>4. l \in Nat /\ l <= stock[u]
    BY <1>5, <2>2, <2>3, MinOfTwo
  <2>5. MayComeOut = 0..l
    BY <1>3, <2>1, <2>3 DEF MayComeOut
  <2>6. QED
    BY <1>5, <2>4, <2>5
<1>10. CASE Give
  <2>1. /\ Performed(m, m, 0, m < i)
        /\ UNCHANGED <<ledger, count, saved, managerVars, down, promised, refills, crashed>>
        /\ faults' = faults
    BY <1>3, <1>6, <1>10 DEF Give
  <2>2. faults' \in 0..MaxFaults /\ m + 0 <= stock[u] /\ m <= m
    BY <1>5, <1>7, <2>1
  <2>3. CASE m < i
    <3>1. Performed(m, m, 0, TRUE)
      BY <2>1, <2>3 DEF Performed
    <3>2. m = stock[u]
      BY <1>5, <1>7, <2>3
    <3>3. QED
      BY <1>1, <1>2, <1>3, <1>7, <2>1, <2>2, <3>1, <3>2, PerformedIs
  <2>4. CASE ~(m < i)
    <3>1. Performed(m, m, 0, FALSE)
      BY <2>1, <2>4 DEF Performed
    <3>2. QED
      BY <1>1, <1>2, <1>3, <1>7, <2>1, <2>2, <3>1, PerformedIs
  <2>5. QED
    BY <2>3, <2>4
<1>11. CASE GiveAndReject
  <2>1. Performed(i, i, 1, FALSE) /\ i < stock[u] /\ DeviceFault
    BY <1>3, <1>11 DEF GiveAndReject
  <2>2. i <= i /\ i + 1 <= stock[u]
    BY <1>5, <2>1
  <2>3. QED
    BY <1>1, <1>2, <1>3, <1>5, <1>8, <2>1, <2>2, PerformedIs
<1>12. CASE Jam
  <2>1. DeviceFault
    BY <1>12 DEF Jam
  <2>2. PICK k \in 0..m : Performed(k, k, 0, FALSE)
    BY <1>3, <1>6, <1>12 DEF Jam
  <2>3. k \in Nat /\ k <= k /\ k <= i /\ k + 0 <= stock[u]
    BY <1>5, <1>7
  <2>4. QED
    BY <1>1, <1>2, <1>3, <1>8, <2>1, <2>2, <2>3, PerformedIs
<1>13. CASE LoseAnswer
  <2>1. DeviceFault
    BY <1>13 DEF LoseAnswer
  <2>2. PICK k \in MayComeOut \ {0} :
           \E told \in 0..Min({i, k - 1}) : Performed(k, told, 0, FALSE)
    BY <1>3, <1>13 DEF LoseAnswer
  <2>3. k \in Nat \ {0} /\ k <= stock[u] /\ k - 1 \in Nat
    BY <1>9, <2>2
  <2>4. PICK l : l = Min({i, k - 1})
    OBVIOUS
  <2>5. l \in Nat /\ l <= i /\ l <= k - 1
    BY <1>5, <2>3, <2>4, MinOfTwo
  <2>6. PICK told \in 0..l : Performed(k, told, 0, FALSE)
    BY <2>2, <2>4
  <2>7. told \in Nat /\ told <= k /\ told <= i /\ k + 0 <= stock[u]
    BY <1>5, <2>3, <2>5
  <2>8. QED
    BY <1>1, <1>2, <1>3, <1>8, <2>1, <2>3, <2>6, <2>7, PerformedIs
<1>14. CASE LoseCommand
  <2>1. DeviceFault
    BY <1>14 DEF LoseCommand
  <2>2. PICK k \in MayComeOut : EndedSilently(k)
    BY <1>14 DEF LoseCommand
  <2>3. QED
    BY <1>1, <1>2, <1>3, <1>8, <1>9, <2>1, <2>2, EndedSilentlyIs
<1>15. CASE GiveNothing
  <2>1. /\ Performed(0, 0, 0, FALSE) \/ EndedSilently(0)
        /\ UNCHANGED <<ledger, count, saved, managerVars, down, promised, refills, crashed>>
        /\ faults' \in 0..MaxFaults
    BY <1>5, <1>15 DEF GiveNothing
  <2>2. 0 <= 0 /\ 0 <= i /\ 0 + 0 <= stock[u] /\ 0 <= stock[u]
    BY <1>5
  <2>3. CASE Performed(0, 0, 0, FALSE)
    BY <1>1, <1>2, <1>3, <2>1, <2>2, <2>3, PerformedIs
  <2>4. CASE EndedSilently(0)
    BY <1>1, <1>2, <1>3, <2>1, <2>2, <2>4, EndedSilentlyIs
  <2>5. QED
    BY <2>1, <2>3, <2>4
<1>16. QED
  BY <1>1, <1>10, <1>11, <1>12, <1>13, <1>14, <1>15

\* News of the device changes nothing but the queue.
LEMMA NewsIs ==
    ASSUME DispenserInv, NEW s \in Signals, Status(s), queue' = Append(queue, s),
           down' \in BOOLEAN, faults' \in 0..MaxFaults,
           UNCHANGED <<ledger, unitVars, managerVars, job, given, untold, silent, promised, handed,
                       refills, crashed>>
    PROVE  DispenserInv'
<1>1. UNCHANGED <<stage, available, amounts, saves, booked, change, lost, paidOut, notes,
                  crashed, given, job, stock, count, saved>>
  BY DEF ledger, unitVars, managerVars
<1>2. TypeOK'
  <2>1. LedgerTypeOK'
    BY LedgerStutterType, TypesAre DEF DispenserInv
  <2>2. queue' \in Seq(Signals)
    BY TypesAre DEF DispenserInv
  <2>3. QED
    BY <2>1, <2>2 DEF DispenserInv, TypeOK, unitVars, managerVars
<1>3. Covering' /\ Booking'
  BY <1>1, CoveringSame, BookingSame DEF DispenserInv
<1>4. Counting'
  BY <1>1 DEF DispenserInv, Counting
<1>5. Known' = Known /\ queue \in Seq(Signals)
  BY <1>1, TypesAre DEF Known, DispenserInv
<1>6. Statuses(queue) => Statuses(queue)'
  <2>1. Statuses(queue) => Statuses(Append(queue, s))
    BY <1>5, AnswerStatus
  <2>2. QED
    BY <2>1 DEF Statuses, Status
<1>7. NoRequest => NoRequest'
  BY <1>1, <1>5, <1>6 DEF NoRequest
<1>8. Requested => Requested'
  BY <1>1, <1>5, <1>6 DEF Requested
<1>9. ASSUME Replied PROVE Replied'
  <2>1. PICK u \in Units, k \in 0..MaxCount :
           /\ Answer(queue, u, k)
           /\ k * Nominal[u] <= amounts.toDispensing
           /\ given = Known + k * Nominal[u]
           /\ stock[u] # 0 =>
                count[u] >= stock[u] + k + (IF Rejected(queue) THEN 1 ELSE 0)
           /\ Emptied(queue) => stock[u] = 0
    BY <1>9 DEF Replied
  <2>2. PICK q : q = Append(queue, s)
    OBVIOUS
  <2>3. Answer(q, u, k) /\ (Rejected(q) => Rejected(queue)) /\ (Emptied(q) => Emptied(queue))
    BY <1>5, <2>1, <2>2, AnswerStatus
  <2>4. count[u] \in Nat /\ stock[u] \in Nat
    BY TypesAre DEF DispenserInv
  <2>5. stock'[u] # 0 => count'[u] >= stock'[u] + k + (IF Rejected(q) THEN 1 ELSE 0)
    BY <1>1, <2>1, <2>3, <2>4
  <2>6. stage' = "waiting" /\ job' = NoJob
    BY <1>1, <1>9 DEF Replied
  <2>7. /\ k * Nominal[u] <= amounts'.toDispensing /\ given' = Known' + k * Nominal[u]
        /\ Emptied(q) => stock'[u] = 0
    BY <1>1, <1>5, <2>1, <2>3
  <2>8. QED
    BY <2>2, <2>3, <2>5, <2>6, <2>7, RepliedIs
<1>10. Silenced => Silenced'
  BY <1>1, <1>5, <1>6 DEF Silenced
<1>11. QED
  BY <1>2, <1>3, <1>4, <1>7, <1>8, <1>9, <1>10 DEF DispenserInv

\* The driver reports an error, or the end of it.
LEMMA FailIs == DispenserInv /\ (Fail \/ Recover) => DispenserInv'
<1>1. SUFFICES ASSUME DispenserInv, Fail \/ Recover
               PROVE  DispenserInv'
  OBVIOUS
<1>2. faults \in 0..MaxFaults /\ MaxFaults \in Nat
  BY <1>1, DispenserAssumption DEF DispenserInv, TypeOK
<1>3. CASE Fail
  <2>1. PICK s \in Signals : s = [signal |-> "error"]
    BY DEF Signals
  <2>2. Status(s)
    BY <2>1 DEF Status
  <2>3. /\ queue' = Append(queue, s) /\ down' \in BOOLEAN /\ faults' \in 0..MaxFaults
        /\ UNCHANGED <<ledger, unitVars, managerVars, job, given, untold, silent, promised, handed,
                       refills, crashed>>
    BY <1>2, <1>3, <2>1 DEF Fail
  <2>4. QED
    BY <1>1, <2>2, <2>3, NewsIs
<1>4. CASE Recover
  <2>1. PICK s \in Signals : s = [signal |-> "ok"]
    BY DEF Signals
  <2>2. Status(s)
    BY <2>1 DEF Status
  <2>3. /\ queue' = Append(queue, s) /\ down' \in BOOLEAN /\ faults' \in 0..MaxFaults
        /\ UNCHANGED <<ledger, unitVars, managerVars, job, given, untold, silent, promised, handed,
                       refills, crashed>>
    BY <1>2, <1>4, <2>1 DEF Recover, history
  <2>4. QED
    BY <1>1, <2>2, <2>3, NewsIs
<1>5. QED
  BY <1>1, <1>3, <1>4

-----------------------------------------------------------------------------
(* The saves *)

\* The head of the saves tells which of the four shapes they have.
LEMMA SavesShape ==
    ASSUME Booking, saves # <<>>
    PROVE  /\ Head(saves).table = "device_param" =>
                \E c \in Contents :
                   /\ Head(saves) = UnitsSave(c) /\ DOMAIN saves \subseteq Nat /\ 1 \in DOMAIN saves
                   /\ saves[1] = UnitsSave(c)
                   /\ \/ Tail(saves) = <<>> /\ (~crashed => booked = Known)
                      \/ \E n \in Nat : /\ Tail(saves) = <<GivenSave(n)>>
                                        /\ ~crashed => booked + n = Known
           /\ Head(saves).table = "dispensed_note" =>
                \E n \in Nat : /\ Head(saves) = GivenSave(n) /\ Tail(saves) = <<>>
                               /\ ~crashed => booked + n = Known
<1>1. ASSUME NEW c, NEW w, w = UnitsSave(c)
      PROVE  w.table = "device_param"
  BY <1>1 DEF UnitsSave
<1>2. ASSUME NEW n, NEW w, w = GivenSave(n)
      PROVE  w.table = "dispensed_note"
  BY <1>2 DEF GivenSave
<1>3. CASE \E c \in Contents : saves = <<UnitsSave(c)>> /\ (~crashed => booked = Known)
  <2>1. PICK c \in Contents : saves = <<UnitsSave(c)>> /\ (~crashed => booked = Known)
    BY <1>3
  <2>2. PICK w : w = UnitsSave(c)
    OBVIOUS
  <2>3. saves = <<w>> /\ Head(saves) = w /\ Tail(saves) = <<>> /\ saves[1] = w
    BY <2>1, <2>2, OneAndTwo
  <2>4. w.table = "device_param" /\ DOMAIN saves = {1}
    BY <1>1, <2>2, <2>3
  <2>5. QED
    BY <2>1, <2>2, <2>3, <2>4
<1>4. CASE \E c \in Contents, n \in Nat :
              saves = <<UnitsSave(c), GivenSave(n)>> /\ (~crashed => booked + n = Known)
  <2>1. PICK c \in Contents, n \in Nat :
              saves = <<UnitsSave(c), GivenSave(n)>> /\ (~crashed => booked + n = Known)
    BY <1>4
  <2>2. PICK w, v : w = UnitsSave(c) /\ v = GivenSave(n)
    OBVIOUS
  <2>3. saves = <<w, v>> /\ Head(saves) = w /\ Tail(saves) = <<v>> /\ saves[1] = w
    BY <2>1, <2>2, OneAndTwo
  <2>4. w.table = "device_param" /\ DOMAIN saves = {1, 2}
    BY <1>1, <2>2, <2>3
  <2>5. QED
    BY <2>1, <2>2, <2>3, <2>4
<1>5. CASE \E n \in Nat : saves = <<GivenSave(n)>> /\ (~crashed => booked + n = Known)
  <2>1. PICK n \in Nat : saves = <<GivenSave(n)>> /\ (~crashed => booked + n = Known)
    BY <1>5
  <2>2. PICK w : w = GivenSave(n)
    OBVIOUS
  <2>3. Head(saves) = w /\ Tail(saves) = <<>>
    BY <2>1, <2>2, OneAndTwo
  <2>4. w.table = "dispensed_note"
    BY <1>2, <2>2
  <2>5. QED
    BY <2>1, <2>2, <2>3, <2>4
<1>6. QED
  BY <1>3, <1>4, <1>5 DEF Booking

\* A device parameter reaches the database.
LEMMA SaveUnitsIs == DispenserInv /\ SaveUnits => DispenserInv'
<1>1. SUFFICES ASSUME DispenserInv, SaveUnits PROVE DispenserInv'
  OBVIOUS
<1>2. /\ saves # <<>> /\ Head(saves).table = "device_param"
      /\ saved' = Head(saves).counts /\ saves' = Tail(saves)
      /\ UNCHANGED <<ledger, count, unitData, stock, failed, amounts, available,
                     booked, stage, deviceVars, history>>
  BY <1>1 DEF SaveUnits
<1>3. PICK c \in Contents :
         /\ Head(saves) = UnitsSave(c) /\ 1 \in DOMAIN saves /\ saves[1] = UnitsSave(c)
         /\ \/ Tail(saves) = <<>> /\ (~crashed => booked = Known)
            \/ \E n \in Nat : Tail(saves) = <<GivenSave(n)>> /\ (~crashed => booked + n = Known)
  BY <1>1, <1>2, SavesShape DEF DispenserInv
<1>4. saved' = c /\ c = saves[1].counts /\ saves[1].table = "device_param"
  BY <1>2, <1>3 DEF UnitsSave
<1>5. UNCHANGED <<stage, available, amounts, booked, change, lost, paidOut, notes,
                  crashed, given, job, queue, stock, count>>
  BY <1>2 DEF ledger, deviceVars, history
<1>6. TypeOK'
  <2>1. LedgerTypeOK'
    BY <1>1, <1>2, LedgerStutterType, TypesAre DEF DispenserInv
  <2>2. saves' \in Seq([table : {"device_param"}, counts : Contents]
                       \cup [table : {"dispensed_note"}, amount : Nat])
    BY <1>1, <1>2 DEF DispenserInv, TypeOK
  <2>3. QED
    BY <1>1, <1>2, <1>4, <2>1, <2>2 DEF DispenserInv, TypeOK, deviceVars, history
<1>7. (NoRequest \/ Requested \/ Replied \/ Silenced)'
  BY <1>1, <1>5, RequestSame DEF DispenserInv
<1>8. Covering'
  BY <1>1, <1>5, CoveringSame DEF DispenserInv
<1>9. Booking'
  <2>1. Known' = Known
    BY <1>5 DEF Known
  <2>2. CASE Tail(saves) = <<>> /\ (~crashed => booked = Known)
    BY <1>2, <1>5, <2>1, <2>2 DEF Booking
  <2>3. CASE \E n \in Nat : Tail(saves) = <<GivenSave(n)>> /\ (~crashed => booked + n = Known)
    <3>1. PICK n \in Nat : Tail(saves) = <<GivenSave(n)>> /\ (~crashed => booked + n = Known)
      BY <2>3
    <3>2. saves' = <<GivenSave(n)>>
      BY <1>2, <3>1
    <3>3. saves' = <<GivenSave(n)'>>
      BY <3>2 DEF GivenSave
    <3>4. QED
      BY <1>5, <2>1, <3>1, <3>3 DEF Booking
  <2>4. QED
    BY <1>3, <2>2, <2>3
<1>10. Counting'
  <2>1. \A u \in Units : count'[u] >= stock'[u] /\ saved'[u] >= stock'[u]
    BY <1>1, <1>3, <1>4, <1>5 DEF DispenserInv, Counting
  <2>2. ASSUME NEW i \in DOMAIN saves', saves'[i].table = "device_param"
        PROVE  FALSE
    <3>1. CASE Tail(saves) = <<>>
      BY <1>2, <2>2, <3>1
    <3>2. ASSUME NEW n \in Nat, Tail(saves) = <<GivenSave(n)>>
          PROVE  FALSE
      <4>1. saves' = <<GivenSave(n)>> /\ i = 1
        BY <1>2, <2>2, <3>2
      <4>2. GivenSave(n).table = "dispensed_note"
        BY DEF GivenSave
      <4>3. QED
        BY <2>2, <4>1, <4>2
    <3>3. QED
      BY <1>3, <3>1, <3>2
  <2>3. QED
    BY <2>1, <2>2 DEF Counting
<1>11. QED
  BY <1>6, <1>7, <1>8, <1>9, <1>10 DEF DispenserInv

\* A row of dispensed_note reaches the database.
LEMMA SaveGivenIs == DispenserInv /\ SaveGiven => DispenserInv'
<1>1. SUFFICES ASSUME DispenserInv, SaveGiven PROVE DispenserInv'
  OBVIOUS
<1>2. /\ saves # <<>> /\ Head(saves).table = "dispensed_note"
      /\ booked' = booked + Head(saves).amount /\ saves' = Tail(saves)
      /\ UNCHANGED <<ledger, unitVars, failed, amounts, available, stage,
                     deviceVars, history>>
  BY <1>1 DEF SaveGiven
<1>3. PICK n \in Nat :
         /\ Head(saves) = GivenSave(n) /\ Tail(saves) = <<>>
         /\ ~crashed => booked + n = Known
  BY <1>1, <1>2, SavesShape DEF DispenserInv
<1>4. booked' = booked + n /\ saves' = <<>> /\ booked \in Nat
  <2>1. booked \in Nat
    BY <1>1, TypesAre DEF DispenserInv
  <2>2. Head(saves).amount = n
    BY <1>3 DEF GivenSave
  <2>3. QED
    BY <1>2, <1>3, <2>1, <2>2
<1>5. UNCHANGED <<stage, available, amounts, change, lost, paidOut, notes,
                  crashed, given, job, queue, stock, count, saved>>
  BY <1>2 DEF ledger, unitVars, deviceVars, history
<1>6. TypeOK'
  <2>1. LedgerTypeOK'
    BY <1>1, <1>2, LedgerStutterType, TypesAre DEF DispenserInv
  <2>2. QED
    BY <1>1, <1>2, <1>4, <2>1 DEF DispenserInv, TypeOK, unitVars, deviceVars, history
<1>7. (NoRequest \/ Requested \/ Replied \/ Silenced)'
  BY <1>1, <1>5, RequestSame DEF DispenserInv
<1>8. Covering'
  BY <1>1, <1>5, CoveringSame DEF DispenserInv
<1>9. Booking'
  <2>1. Known' = Known
    BY <1>5 DEF Known
  <2>2. QED
    BY <1>3, <1>4, <1>5, <2>1 DEF Booking
<1>10. Counting'
  BY <1>1, <1>4, <1>5 DEF DispenserInv, Counting
<1>11. QED
  BY <1>6, <1>7, <1>8, <1>9, <1>10 DEF DispenserInv

\* The row of the change reaches the database.
LEMMA SaveLedgerIs == DispenserInv /\ SaveLedger => DispenserInv'
<1>1. SUFFICES ASSUME DispenserInv, SaveLedger PROVE DispenserInv'
  OBVIOUS
<1>2. SaveChange /\ UNCHANGED <<unitVars, managerVars, deviceVars, history>>
  BY <1>1 DEF SaveLedger
<1>3. UNCHANGED <<stage, available, amounts, booked, saves, change, lost, paidOut, notes,
                  crashed, given, job, queue, stock, count, saved>>
  BY <1>2 DEF SaveChange, unitVars, managerVars, deviceVars, history
<1>4. TypeOK'
  <2>1. LedgerTypeOK'
    BY <1>1, <1>2, SaveType, TypesAre DEF DispenserInv, Save
  <2>2. QED
    BY <1>1, <1>2, <2>1 DEF DispenserInv, TypeOK, unitVars, managerVars, deviceVars, history
<1>5. (NoRequest \/ Requested \/ Replied \/ Silenced)'
  BY <1>1, <1>3, RequestSame DEF DispenserInv
<1>6. Covering' /\ Booking'
  BY <1>1, <1>3, CoveringSame, BookingSame DEF DispenserInv
<1>7. Counting'
  BY <1>1, <1>3 DEF DispenserInv, Counting
<1>8. QED
  BY <1>4, <1>5, <1>6, <1>7 DEF DispenserInv

-----------------------------------------------------------------------------
(* The manager *)

\* Taking notes off a count that covers them.
LEMMA ReducedIs ==
    ASSUME TypeOK, NEW u \in Units, NEW k \in Nat, NEW c, c = Reduced(u, k)
    PROVE  /\ c \in Contents /\ SentToDriver(c, u) \in Contents
           /\ \A v \in Units : v # u => c[v] = count[v]
           /\ c[u] \in Nat /\ c[u] + k >= count[u]
           /\ k <= count[u] => c[u] + k = count[u]
<1>1. count \in Contents /\ count[u] \in Nat /\ count[u] <= MaxCount /\ unitData \in Contents
      /\ MaxCount \in Nat
  BY TypesAre, UnitsAre, DispenserAssumption
<1>2. PICK m : m = Min({k, count[u]})
  OBVIOUS
<1>3. m \in {k, count[u]} /\ m <= k /\ m <= count[u]
  BY <1>1, <1>2, MinOfTwo
<1>4. c = [count EXCEPT ![u] = count[u] - m]
  BY <1>2 DEF Reduced
<1>5. count[u] - m \in 0..MaxCount
  BY <1>1, <1>3
<1>6. c \in Contents /\ c[u] = count[u] - m /\ \A v \in Units : v # u => c[v] = count[v]
  BY <1>1, <1>4, <1>5 DEF Contents
<1>7. SentToDriver(c, u) \in Contents
  BY <1>1, <1>6 DEF SentToDriver
<1>8. QED
  BY <1>1, <1>3, <1>6, <1>7

\* A signal on a unit at the head of the queue belongs to an answer.
LEMMA AnswerHead ==
    ASSUME DispenserInv, queue # <<>>, NEW s, s = Head(queue), ~Status(s)
    PROVE  /\ stage = "waiting" /\ job = NoJob /\ ~crashed
           /\ \E u \in Units, k \in 0..MaxCount :
                /\ Answer(queue, u, k)
                /\ k * Nominal[u] <= amounts.toDispensing
                /\ given = Known + k * Nominal[u]
                /\ stock[u] # 0 =>
                     count[u] >= stock[u] + k + (IF Rejected(queue) THEN 1 ELSE 0)
                /\ Emptied(queue) => stock[u] = 0
<1>1. queue \in Seq(Signals)
  BY TypesAre DEF DispenserInv
<1>2. ~Statuses(queue)
  BY <1>1, StatusesTail
<1>3. Replied
  BY <1>2 DEF DispenserInv, NoRequest, Requested, Silenced
<1>4. ~crashed
  BY <1>3 DEF DispenserInv, Covering, Replied
<1>5. QED
  BY <1>3, <1>4 DEF Replied

\* handleSignal of rejected notes.
LEMMA OnRejectedIs == DispenserInv /\ OnRejected => DispenserInv'
<1>1. SUFFICES ASSUME DispenserInv, OnRejected PROVE DispenserInv'
  OBVIOUS
<1>2. PICK s : s = Head(queue)
  OBVIOUS
<1>3. PICK c : c = Reduced(s.unit, s.items)
  OBVIOUS
<1>4. /\ saves = <<>> /\ queue # <<>> /\ s.signal = "rejected"
      /\ count' = c /\ unitData' = SentToDriver(c, s.unit) /\ saves' = <<UnitsSave(c)>>
      /\ queue' = Tail(queue)
      /\ UNCHANGED <<ledger, saved, stock, down, job, failed, amounts, available,
                     booked, stage, history>>
  BY <1>1, <1>2, <1>3 DEF OnRejected, Signalled, Idle
<1>5. ~Status(s)
  BY <1>4 DEF Status
<1>6. stage = "waiting" /\ job = NoJob /\ ~crashed
  BY <1>1, <1>2, <1>4, <1>5, AnswerHead
<1>7. PICK u \in Units, k \in 0..MaxCount :
         /\ Answer(queue, u, k)
         /\ k * Nominal[u] <= amounts.toDispensing
         /\ given = Known + k * Nominal[u]
         /\ stock[u] # 0 =>
              count[u] >= stock[u] + k + (IF Rejected(queue) THEN 1 ELSE 0)
         /\ Emptied(queue) => stock[u] = 0
  BY <1>1, <1>2, <1>4, <1>5, AnswerHead
<1>8. queue \in Seq(Signals) /\ TypeOK
  BY <1>1, TypesAre DEF DispenserInv
<1>9. PICK q : q = Tail(queue)
  OBVIOUS
<1>10. /\ Answer(q, u, k) /\ s.unit = u /\ s.items = 1 /\ Rejected(queue) /\ ~Rejected(q)
       /\ Emptied(q) => Emptied(queue)
  BY <1>2, <1>4, <1>7, <1>8, <1>9, AnswerFirst
<1>11. q \in Seq(Signals)
  BY <1>4, <1>8, <1>9, TailSignals
<1>12. /\ c \in Contents /\ SentToDriver(c, u) \in Contents
       /\ \A v \in Units : v # u => c[v] = count[v]
       /\ c[u] \in Nat /\ c[u] + 1 >= count[u]
       /\ 1 <= count[u] => c[u] + 1 = count[u]
  BY <1>3, <1>8, <1>10, ReducedIs
<1>13. stock[u] \in Nat /\ count[u] \in Nat
  BY <1>8, TypesAre
<1>14. stock[u] # 0 => c[u] >= stock[u] + k
  BY <1>7, <1>10, <1>12, <1>13
<1>15. \A v \in Units : c[v] >= stock[v]
  <2>1. c[u] >= stock[u]
    BY <1>12, <1>13, <1>14
  <2>2. \A v \in Units : v # u => c[v] >= stock[v]
    BY <1>1, <1>12 DEF DispenserInv, Counting
  <2>3. QED
    BY <2>1, <2>2
<1>16. UNCHANGED <<stage, available, amounts, change, lost, paidOut, notes, crashed,
                   given, job, stock, saved, booked>>
  BY <1>4 DEF ledger, history
<1>17. TypeOK'
  <2>1. LedgerTypeOK'
    BY <1>4, <1>8, LedgerStutterType, TypesAre
  <2>2. count' \in Contents /\ unitData' \in Contents /\ queue' \in Seq(Signals)
    BY <1>4, <1>9, <1>10, <1>11, <1>12
  <2>3. saves' \in Seq([table : {"device_param"}, counts : Contents]
                       \cup [table : {"dispensed_note"}, amount : Nat])
    BY <1>4, <1>12 DEF UnitsSave
  <2>4. QED
    BY <1>4, <1>8, <2>1, <2>2, <2>3 DEF TypeOK, history
<1>18. Known' = Known
  BY <1>16 DEF Known
<1>19. Replied'
  <2>1. stock'[u] # 0 => count'[u] >= stock'[u] + k + (IF Rejected(q) THEN 1 ELSE 0)
    BY <1>4, <1>10, <1>13, <1>14, <1>16
  <2>2. /\ q = queue' /\ k * Nominal[u] <= amounts'.toDispensing
        /\ given' = Known' + k * Nominal[u]
        /\ Emptied(q) => stock'[u] = 0
    BY <1>4, <1>6, <1>7, <1>9, <1>10, <1>16, <1>18
  <2>3. stage' = "waiting" /\ job' = NoJob
    BY <1>6, <1>16
  <2>4. QED
    BY <1>10, <2>1, <2>2, <2>3, RepliedIs
<1>20. Covering'
  BY <1>1, <1>16, CoveringSame DEF DispenserInv
<1>21. Booking'
  <2>1. booked = Known
    BY <1>1, <1>4, <1>6, OneAndTwo DEF DispenserInv, Booking
  <2>2. saves' = <<UnitsSave(c)'>>
    BY <1>4 DEF UnitsSave
  <2>3. QED
    BY <1>12, <1>16, <1>18, <2>1, <2>2 DEF Booking
<1>22. Counting'
  <2>1. \A i \in DOMAIN saves' : saves'[i].counts = c
    BY <1>4 DEF UnitsSave
  <2>2. QED
    BY <1>1, <1>4, <1>15, <1>16, <2>1 DEF DispenserInv, Counting
<1>23. QED
  BY <1>17, <1>19, <1>20, <1>21, <1>22 DEF DispenserInv

\* onUnitEmpty.
LEMMA OnUnitEmptyIs == DispenserInv /\ OnUnitEmpty => DispenserInv'
<1>1. SUFFICES ASSUME DispenserInv, OnUnitEmpty PROVE DispenserInv'
  OBVIOUS
<1>2. PICK s : s = Head(queue)
  OBVIOUS
<1>3. /\ saves = <<>> /\ queue # <<>> /\ s.signal = "unitEmpty"
      /\ count' = [count EXCEPT ![s.unit] = 0] /\ queue' = Tail(queue)
      /\ UNCHANGED <<ledger, saved, unitData, stock, down, job, managerVars, history>>
  BY <1>1, <1>2 DEF OnUnitEmpty, Signalled, Idle
<1>4. ~Status(s)
  BY <1>3 DEF Status
<1>5. stage = "waiting" /\ job = NoJob
  BY <1>1, <1>2, <1>3, <1>4, AnswerHead
<1>6. PICK u \in Units, k \in 0..MaxCount :
         /\ Answer(queue, u, k)
         /\ k * Nominal[u] <= amounts.toDispensing
         /\ given = Known + k * Nominal[u]
         /\ Emptied(queue) => stock[u] = 0
  BY <1>1, <1>2, <1>3, <1>4, AnswerHead
<1>7. queue \in Seq(Signals) /\ TypeOK /\ count \in Contents /\ 0 \in 0..MaxCount
  BY <1>1, TypesAre, DispenserAssumption DEF DispenserInv
<1>8. PICK q : q = Tail(queue)
  OBVIOUS
<1>9. /\ Answer(q, u, k) /\ s.unit = u /\ Emptied(queue)
  BY <1>2, <1>3, <1>6, <1>7, <1>8, AnswerFirst
<1>10. q \in Seq(Signals) /\ stock[u] = 0
  BY <1>3, <1>6, <1>7, <1>8, <1>9, TailSignals
<1>11. UNCHANGED <<stage, available, amounts, saves, booked, change, lost, paidOut, notes,
                   crashed, given, job, stock, saved>>
  BY <1>3 DEF ledger, managerVars, history
<1>12. /\ count' \in Contents /\ count'[u] = 0
       /\ \A v \in Units : v # u => count'[v] = count[v]
  BY <1>3, <1>7, <1>9 DEF Contents
<1>13. TypeOK'
  <2>1. LedgerTypeOK'
    BY <1>3, <1>7, LedgerStutterType, TypesAre
  <2>2. QED
    BY <1>3, <1>7, <1>8, <1>10, <1>12, <2>1 DEF TypeOK, managerVars, history
<1>14. Known' = Known
  BY <1>11 DEF Known
<1>15. Replied'
  <2>1. /\ q = queue' /\ k * Nominal[u] <= amounts'.toDispensing
        /\ given' = Known' + k * Nominal[u] /\ stock'[u] = 0
        /\ stage' = "waiting" /\ job' = NoJob
    BY <1>3, <1>5, <1>6, <1>8, <1>10, <1>11, <1>14
  <2>2. QED
    BY <1>9, <2>1, RepliedIs
<1>16. Covering' /\ Booking'
  BY <1>1, <1>11, CoveringSame, BookingSame DEF DispenserInv
<1>17. Counting'
  <2>1. \A v \in Units : count'[v] >= stock'[v]
    BY <1>1, <1>10, <1>11, <1>12 DEF DispenserInv, Counting
  <2>2. QED
    BY <1>1, <1>11, <2>1 DEF DispenserInv, Counting
<1>18. QED
  BY <1>13, <1>15, <1>16, <1>17 DEF DispenserInv

\* onStatusChanged.
LEMMA OnStatusIs == DispenserInv /\ OnStatus => DispenserInv'
<1>1. SUFFICES ASSUME DispenserInv, OnStatus PROVE DispenserInv'
  OBVIOUS
<1>2. PICK s : s = Head(queue)
  OBVIOUS
<1>3. /\ queue # <<>> /\ s.signal \in {"error", "ok"}
      /\ failed' = (s.signal = "error") /\ queue' = Tail(queue)
      /\ UNCHANGED <<ledger, unitVars, down, job, amounts, available, saves,
                     booked, stage, history>>
  BY <1>1, <1>2 DEF OnStatus
<1>4. queue \in Seq(Signals) /\ TypeOK
  BY <1>1, TypesAre DEF DispenserInv
<1>5. PICK q : q = Tail(queue)
  OBVIOUS
<1>6. q \in Seq(Signals)
  BY <1>3, <1>4, <1>5, TailSignals
<1>7. UNCHANGED <<stage, available, amounts, saves, booked, change, lost, paidOut, notes,
                  crashed, given, job, stock, count, saved>>
  BY <1>3 DEF ledger, unitVars, history
<1>8. TypeOK'
  <2>1. LedgerTypeOK'
    BY <1>3, <1>4, LedgerStutterType, TypesAre
  <2>2. failed' \in BOOLEAN
    BY <1>3
  <2>3. QED
    BY <1>3, <1>4, <1>5, <1>6, <2>1, <2>2 DEF TypeOK, unitVars, history
<1>9. Known' = Known
  BY <1>7 DEF Known
<1>10. Statuses(queue) => Statuses(queue)'
  <2>1. Statuses(queue) => Statuses(q)
    BY <1>3, <1>4, <1>5, StatusesTail
  <2>2. QED
    BY <1>3, <1>5, <2>1 DEF Statuses, Status
<1>11. NoRequest => NoRequest'
  BY <1>7, <1>9, <1>10 DEF NoRequest
<1>12. Requested => Requested'
  BY <1>7, <1>9, <1>10 DEF Requested
<1>13. ASSUME Replied PROVE Replied'
  <2>1. PICK u \in Units, k \in 0..MaxCount :
           /\ Answer(queue, u, k)
           /\ k * Nominal[u] <= amounts.toDispensing
           /\ given = Known + k * Nominal[u]
           /\ stock[u] # 0 =>
                count[u] >= stock[u] + k + (IF Rejected(queue) THEN 1 ELSE 0)
           /\ Emptied(queue) => stock[u] = 0
    BY <1>13 DEF Replied
  <2>2. s.signal # "dispensed"
    BY <1>3
  <2>3. Answer(q, u, k) /\ (Rejected(q) => Rejected(queue)) /\ (Emptied(q) => Emptied(queue))
    BY <1>2, <1>3, <1>4, <1>5, <2>1, <2>2, AnswerFirst
  <2>4. count[u] \in Nat /\ stock[u] \in Nat
    BY <1>4, TypesAre
  <2>5. stock'[u] # 0 => count'[u] >= stock'[u] + k + (IF Rejected(q) THEN 1 ELSE 0)
    BY <1>7, <2>1, <2>3, <2>4
  <2>6. stage' = "waiting" /\ job' = NoJob
    BY <1>7, <1>13 DEF Replied
  <2>7. /\ k * Nominal[u] <= amounts'.toDispensing /\ given' = Known' + k * Nominal[u]
        /\ Emptied(q) => stock'[u] = 0
    BY <1>7, <1>9, <2>1, <2>3
  <2>8. q = queue'
    BY <1>3, <1>5
  <2>9. QED
    BY <2>3, <2>5, <2>6, <2>7, <2>8, RepliedIs
<1>14. Covering' /\ Booking'
  BY <1>1, <1>7, CoveringSame, BookingSame DEF DispenserInv
<1>15. Counting'
  BY <1>1, <1>7 DEF DispenserInv, Counting
<1>16. Silenced => Silenced'
  BY <1>7, <1>9, <1>10 DEF Silenced
<1>17. QED
  BY <1>1, <1>8, <1>11, <1>12, <1>13, <1>14, <1>15, <1>16 DEF DispenserInv

\* The next request of dispense() is taken by the driver, or answered at once.
LEMMA AskIs ==
    ASSUME NEW c \in Contents, NEW sum \in Nat, Usable(c, sum) # {},
           NEW q \in Seq(Signals), Statuses(q), Ask(c, sum, q), job = NoJob,
           stage' = "waiting", amounts'.toDispensing = sum, given' = Known', Known' \in Nat,
           \A v \in Units : stock'[v] \in Nat /\ count'[v] >= stock'[v] /\ count'[v] \in Nat
    PROVE  /\ job' \in [unit : Units, items : 1..MaxCount] \cup {NoJob}
           /\ queue' \in Seq(Signals)
           /\ Requested' \/ Replied'
<1>1. PICK u : u = UnitFor(c, sum)
  OBVIOUS
<1>2. u \in Usable(c, sum)
  BY <1>1, UnitForIs
<1>3. u \in Units /\ c[u] # 0 /\ Nominal[u] <= sum
  BY <1>2, UsableIs
<1>4. c[u] \in Nat /\ c[u] <= MaxCount /\ Nominal[u] \in Nat \ {0} /\ MaxCount \in Nat
  BY <1>3, UnitsAre, DispenserAssumption
<1>5. PICK f : f = sum \div Nominal[u]
  OBVIOUS
<1>6. f \in Nat /\ Nominal[u] * f <= sum /\ f # 0
  BY <1>3, <1>4, <1>5, FitsIn
<1>7. PICK i : i = Min({c[u], f})
  OBVIOUS
<1>8. i \in {c[u], f} /\ i <= c[u] /\ i <= f
  BY <1>4, <1>6, <1>7, MinOfTwo
<1>9. i \in 1..MaxCount
  BY <1>3, <1>4, <1>6, <1>8
<1>10. i * Nominal[u] <= sum
  <2>1. i * Nominal[u] \in Nat /\ f * Nominal[u] \in Nat /\ i * Nominal[u] <= f * Nominal[u]
    BY <1>4, <1>6, <1>8, <1>9, FewerNotes
  <2>2. f * Nominal[u] = Nominal[u] * f
    BY <1>4, <1>6
  <2>3. QED
    BY <1>6, <2>1, <2>2
<1>11. CASE unitData'[u] = 0
  <2>1. PICK s \in Signals : s = [signal |-> "dispensed", unit |-> u, items |-> 0]
    <3>1. 0 \in 0..MaxCount
      BY <1>4
    <3>2. [signal |-> "dispensed", unit |-> u, items |-> 0] \in Signals
      BY <1>3, <3>1 DEF Signals
    <3>3. QED
      BY <3>2
  <2>2. s.signal = "dispensed" /\ s.unit = u /\ s.items = 0 /\ 0 \in 0..MaxCount
    BY <1>4, <2>1
  <2>3. job' = NoJob /\ queue' = Append(q, s)
    BY <1>1, <1>11, <2>1 DEF Ask
  <2>4. PICK r : r = q \o <<s>>
    OBVIOUS
  <2>5. Append(q, s) = r
    BY <2>4
  <2>6. r \in Seq(Signals) /\ Answer(r, u, 0) /\ ~Rejected(r) /\ ~Emptied(r)
    BY <1>3, <2>2, <2>4, AnswerAlone
  <2>7. 0 * Nominal[u] = 0
    BY <1>4
  <2>8. /\ 0 * Nominal[u] <= amounts'.toDispensing /\ given' = Known' + 0 * Nominal[u]
        /\ stock'[u] # 0 => count'[u] >= stock'[u] + 0 + (IF Rejected(r) THEN 1 ELSE 0)
    BY <1>3, <2>6, <2>7
  <2>9. r = queue'
    BY <2>3, <2>5
  <2>10. Replied'
    BY <1>3, <2>2, <2>3, <2>6, <2>8, <2>9, RepliedIs
  <2>11. QED
    BY <2>3, <2>6, <2>9, <2>10
<1>12. CASE unitData'[u] # 0
  <2>1. job' = [unit |-> u, items |-> i] /\ queue' = q
    BY <1>1, <1>5, <1>7, <1>12 DEF Ask
  <2>2. job'.unit = u /\ job'.items = i /\ job' # NoJob
    BY <1>9, <2>1 DEF NoJob
  <2>3. Statuses(queue)'
    BY <2>1 DEF Statuses, Status
  <2>4. Requested'
    BY <1>10, <2>2, <2>3 DEF Requested, NoJob
  <2>5. QED
    BY <1>3, <1>9, <2>1, <2>4
<1>13. QED
  BY <1>11, <1>12

\* What is taken off the change is what is reported, if the change covers it.
LEMMA TakenOff ==
    ASSUME TypeOK, NEW n \in Nat, n <= Leftover, AmountDispensed(n)
    PROVE  /\ Leftover' = Leftover - n /\ paidOut' = paidOut + n
           /\ UNCHANGED <<lost, notes>>
<1>1. ~(n > Leftover) /\ change \in Nat \cup {NoChange} /\ Leftover \in Nat
  BY TypesAre
<1>2. paidOut' = paidOut + n /\ UNCHANGED <<lost, notes>>
  BY <1>1 DEF AmountDispensed
<1>3. CASE n # 0 /\ change # NoChange
  <2>1. change' = change - n /\ Leftover = change /\ change \in Nat
    BY <1>1, <1>3 DEF AmountDispensed, Leftover
  <2>2. change' # NoChange
    BY <1>1, <2>1 DEF NoChange
  <2>3. QED
    BY <1>2, <2>1, <2>2 DEF Leftover
<1>4. CASE ~(n # 0 /\ change # NoChange)
  <2>1. change' = change
    BY <1>4 DEF AmountDispensed
  <2>2. n = 0
    BY <1>1, <1>4 DEF Leftover
  <2>3. QED
    BY <1>1, <1>2, <2>1, <2>2 DEF Leftover
<1>5. QED
  BY <1>3, <1>4

\* One thing to save, followed by nothing or by another one.
LEMMA SavesJoined ==
    ASSUME NEW a, NEW b
    PROVE  <<a>> \o <<>> = <<a>> /\ <<a>> \o <<b>> = <<a, b>>
<1> DEFINE S == {a, b}
           x == <<a>>
           y == <<b>>
           t == x \o y
           z == <<a, b>>
<1>1. x \in Seq(S) /\ y \in Seq(S) /\ Len(x) = 1 /\ x[1] = a /\ Len(y) = 1 /\ y[1] = b
  OBVIOUS
<1>2. z \in Seq(S) /\ Len(z) = 2 /\ z[1] = a /\ z[2] = b
  OBVIOUS
<1> HIDE DEF S, x, y, z
<1>3. t \in Seq(S) /\ Len(t) = 2 /\ t[1] = a /\ t[2] = b
  <2>1. /\ t \in Seq(S) /\ Len(t) = Len(x) + Len(y)
        /\ \A i \in 1 .. Len(x) + Len(y) :
              t[i] = IF i <= Len(x) THEN x[i] ELSE y[i - Len(x)]
    BY <1>1, ConcatProperties
  <2> HIDE DEF t
  <2>2. t \in Seq(S) /\ \A i \in 1..2 : t[i] = IF i <= 1 THEN x[i] ELSE y[i - 1]
    BY <1>1, <2>1
  <2>3. t[1] = a /\ t[2] = y[2 - 1]
    BY <1>1, <2>2
  <2>4. QED
    BY <1>1, <2>1, <2>2, <2>3
<1>4. x \o <<>> = x
  BY <1>1
<1> HIDE DEF t
<1>5. t = z
  <2>1. \A i \in 1..Len(t) : t[i] = z[i]
    BY <1>2, <1>3
  <2>2. QED
    BY <1>2, <1>3, <2>1, SeqEqual
<1>6. QED
  BY <1>4, <1>5 DEF t, x, y, z

\* onDispensed: the next request, or the whole sum taken off the change.
LEMMA OnDispensedIs == DispenserInv /\ OnDispensed => DispenserInv'
<1>1. SUFFICES ASSUME DispenserInv, OnDispensed PROVE DispenserInv'
  OBVIOUS
<1>2. PICK s : s = Head(queue)
  OBVIOUS
<1>3. /\ saves = <<>> /\ queue # <<>> /\ s.signal = "dispensed"
  BY <1>1, <1>2 DEF OnDispensed, Signalled, Idle
<1>4. ~Status(s)
  BY <1>3 DEF Status
<1>5. stage = "waiting" /\ job = NoJob /\ ~crashed
  BY <1>1, <1>2, <1>3, <1>4, AnswerHead
<1>6. PICK u \in Units, k \in 0..MaxCount :
         /\ Answer(queue, u, k)
         /\ k * Nominal[u] <= amounts.toDispensing
         /\ given = Known + k * Nominal[u]
         /\ stock[u] # 0 =>
              count[u] >= stock[u] + k + (IF Rejected(queue) THEN 1 ELSE 0)
  BY <1>1, <1>2, <1>3, <1>4, AnswerHead
<1>7. queue \in Seq(Signals) /\ TypeOK
  BY <1>1, TypesAre DEF DispenserInv
<1>8. PICK q : q = Tail(queue)
  OBVIOUS
<1>9. s.unit = u /\ s.items = k /\ Statuses(q) /\ q \in Seq(Signals)
  <2>1. s.unit = u /\ s.items = k /\ Statuses(q)
    BY <1>2, <1>3, <1>6, <1>7, <1>8, AnswerFirst
  <2>2. q \in Seq(Signals)
    BY <1>3, <1>7, <1>8, TailSignals
  <2>3. QED
    BY <2>1, <2>2
<1>10. PICK c : c = Reduced(u, k)
  OBVIOUS
<1>11. PICK sum : sum = k * Nominal[u]
  OBVIOUS
<1>12. PICK rest, done : rest = amounts.toDispensing - sum /\ done = amounts.dispensed + sum
  OBVIOUS
<1>13. /\ count' = c /\ unitData' = SentToDriver(c, u)
       /\ saves' = <<UnitsSave(c)>> \o (IF sum = 0 THEN <<>> ELSE <<GivenSave(sum)>>)
       /\ UNCHANGED <<saved, stock, down, failed, available, booked, history>>
       /\ IF CanDispense(c, rest) # 0
          THEN /\ Ask(c, rest, q)
               /\ amounts' = [toDispensing |-> rest, dispensed |-> done]
               /\ UNCHANGED <<stage, ledger>>
          ELSE /\ AmountDispensed(done)
               /\ amounts' = NoAmounts /\ stage' = "idle" /\ queue' = q /\ job' = job
  BY <1>1, <1>2, <1>8, <1>9, <1>10, <1>11, <1>12 DEF OnDispensed, Served
<1>14. /\ c \in Contents /\ SentToDriver(c, u) \in Contents
       /\ \A v \in Units : v # u => c[v] = count[v]
       /\ c[u] \in Nat /\ (k <= count[u] => c[u] + k = count[u])
  BY <1>7, <1>10, ReducedIs
<1>15. \A v \in Units : c[v] >= stock[v] /\ c[v] \in Nat /\ stock[v] \in Nat
  <2>1. \A v \in Units : count[v] \in Nat /\ stock[v] \in Nat /\ c[v] \in Nat
    BY <1>7, <1>14, TypesAre, UnitsAre
  <2>2. c[u] >= stock[u]
    BY <1>6, <1>14, <2>1
  <2>3. \A v \in Units : v # u => c[v] >= stock[v]
    BY <1>1, <1>14 DEF DispenserInv, Counting
  <2>4. QED
    BY <2>1, <2>2, <2>3
<1>16. /\ sum \in Nat /\ rest \in Nat /\ done \in Nat /\ given = Known + sum
       /\ given = paidOut + done /\ rest + done <= Leftover /\ Leftover \in Nat
       /\ paidOut \in Nat /\ booked \in Nat /\ given \in Nat
  <2>1. Nominal[u] \in Nat
    BY UnitsAre
  <2>2. sum \in Nat
    BY <1>11, <2>1
  <2>3. /\ amounts.toDispensing \in Nat /\ amounts.dispensed \in Nat /\ paidOut \in Nat
        /\ Leftover \in Nat /\ booked \in Nat /\ given \in Nat
    BY <1>7, TypesAre
  <2>4. amounts.toDispensing + amounts.dispensed <= Leftover
    BY <1>1, <1>5 DEF DispenserInv, Covering
  <2>5. given = Known + sum /\ sum <= amounts.toDispensing
    BY <1>6, <1>11
  <2>6. QED
    BY <1>12, <2>2, <2>3, <2>4, <2>5 DEF Known
<1>17. /\ LedgerTypeOK' /\ amounts' \in [toDispensing : Nat, dispensed : Nat]
       /\ job' \in [unit : Units, items : 1..MaxCount] \cup {NoJob}
       /\ queue' \in Seq(Signals) /\ stage' \in {"idle", "waiting"}
       /\ (NoRequest \/ Requested \/ Replied \/ Silenced)' /\ Covering' /\ given = Known'
  <2>1. given' = given /\ ~crashed' /\ crashed' = crashed
    BY <1>5, <1>13 DEF history
  <2>2. CASE CanDispense(c, rest) # 0
    <3>1. /\ Ask(c, rest, q) /\ stage' = "waiting" /\ UNCHANGED ledger
          /\ amounts' = [toDispensing |-> rest, dispensed |-> done]
          /\ amounts'.toDispensing = rest /\ amounts'.dispensed = done
      BY <1>5, <1>13, <2>2
    <3>2. Usable(c, rest) # {}
      BY <1>14, <1>16, <2>2, CanDispenseIs
    <3>3. given = Known' /\ Known' \in Nat
      BY <1>16, <3>1 DEF Known, ledger
    <3>4. \A v \in Units : stock'[v] \in Nat /\ count'[v] >= stock'[v] /\ count'[v] \in Nat
      BY <1>13, <1>15
    <3>5. /\ job' \in [unit : Units, items : 1..MaxCount] \cup {NoJob}
          /\ queue' \in Seq(Signals) /\ (Requested' \/ Replied')
      BY <1>5, <1>9, <1>14, <1>16, <2>1, <3>1, <3>2, <3>3, <3>4, AskIs
    <3>6. LedgerTypeOK'
      BY <1>7, <3>1, LedgerStutterType, TypesAre
    <3>7. Leftover' = Leftover /\ AllNotes' = AllNotes /\ UNCHANGED <<lost, paidOut>>
      BY <3>1 DEF Leftover, AllNotes, NotesOf, ledger
    <3>8. Covering'
      BY <1>1, <1>16, <2>1, <3>1, <3>7 DEF DispenserInv, Covering
    <3>9. QED
      BY <1>16, <3>1, <3>3, <3>5, <3>6, <3>8
  <2>3. CASE ~(CanDispense(c, rest) # 0)
    <3>1. /\ AmountDispensed(done)
          /\ amounts' = NoAmounts /\ stage' = "idle" /\ queue' = q /\ job' = NoJob
      BY <1>5, <1>13, <2>3
    <3>2. /\ Leftover' = Leftover - done /\ paidOut' = paidOut + done
          /\ UNCHANGED <<lost, notes>>
      BY <1>7, <1>16, <3>1, TakenOff
    <3>3. LedgerTypeOK'
      BY <1>7, <1>16, <3>1, AmountDispensedType, TypesAre
    <3>4. Known' = given
      BY <1>16, <3>1, <3>2 DEF Known, NoAmounts
    <3>5. Statuses(queue)'
      BY <1>9, <3>1 DEF Statuses, Status
    <3>6. NoRequest'
      BY <2>1, <3>1, <3>4, <3>5 DEF NoRequest, NoJob, NoAmounts
    <3>7. Covering'
      <4>1. AllNotes' = AllNotes /\ Leftover + lost + paidOut = AllNotes /\ lost \in Nat
        BY <1>1, <1>5, <1>7, <3>2, TypesAre DEF DispenserInv, Covering, AllNotes, NotesOf
      <4>2. Leftover' + lost' + paidOut' = AllNotes'
        BY <1>16, <3>2, <4>1
      <4>3. QED
        BY <2>1, <3>1, <4>2 DEF Covering
    <3>8. NoAmounts \in [toDispensing : Nat, dispensed : Nat]
      BY DEF NoAmounts
    <3>9. QED
      BY <1>9, <3>1, <3>3, <3>4, <3>6, <3>7, <3>8
  <2>4. QED
    BY <2>2, <2>3
<1>18. PICK d, n : d = UnitsSave(c) /\ n = GivenSave(sum)
  OBVIOUS
<1>19. \/ sum = 0 /\ saves' = <<d>>
       \/ sum # 0 /\ saves' = <<d, n>>
  <2>1. saves' = <<d>> \o (IF sum = 0 THEN <<>> ELSE <<n>>)
    BY <1>13, <1>18
  <2>2. <<d>> \o <<>> = <<d>> /\ <<d>> \o <<n>> = <<d, n>>
    BY SavesJoined
  <2>3. QED
    BY <2>1, <2>2
<1>20. TypeOK'
  <2>1. /\ d \in [table : {"device_param"}, counts : Contents]
        /\ n \in [table : {"dispensed_note"}, amount : Nat]
    BY <1>14, <1>16, <1>18 DEF UnitsSave, GivenSave
  <2>2. saves' \in Seq([table : {"device_param"}, counts : Contents]
                       \cup [table : {"dispensed_note"}, amount : Nat])
    <3> DEFINE D == [table : {"device_param"}, counts : Contents]
                    \cup [table : {"dispensed_note"}, amount : Nat]
    <3>1. d \in D /\ n \in D
      BY <2>1
    <3> HIDE DEF D
    <3>2. <<d>> \in Seq(D) /\ <<d, n>> \in Seq(D)
      BY <3>1
    <3>3. saves' \in Seq(D)
      BY <1>19, <3>2
    <3>4. QED
      BY <3>3 DEF D
  <2>3. QED
    BY <1>7, <1>13, <1>14, <1>17, <2>2 DEF TypeOK, history
<1>21. Booking'
  <2>1. booked = Known
    BY <1>1, <1>3, <1>5, OneAndTwo DEF DispenserInv, Booking
  <2>2. booked' + sum = Known'
    BY <1>13, <1>16, <1>17, <2>1
  <2>3. d = UnitsSave(c)' /\ n = GivenSave(sum)'
    BY <1>18 DEF UnitsSave, GivenSave
  <2>4. CASE sum = 0 /\ saves' = <<d>>
    <3>1. booked' = Known'
      BY <1>13, <1>16, <2>2, <2>4
    <3>2. QED
      BY <1>14, <2>3, <2>4, <3>1 DEF Booking
  <2>5. CASE saves' = <<d, n>>
    BY <1>14, <1>16, <2>2, <2>3, <2>5 DEF Booking
  <2>6. QED
    BY <1>19, <2>4, <2>5
<1>22. Counting'
  <2>1. d.counts = c /\ n.table = "dispensed_note"
    BY <1>18 DEF UnitsSave, GivenSave
  <2>2. \A i \in DOMAIN saves' : saves'[i] = d \/ saves'[i] = n
    BY <1>19
  <2>3. \A i \in DOMAIN saves' : saves'[i].table = "device_param" => saves'[i].counts = c
    BY <2>1, <2>2
  <2>4. QED
    BY <1>1, <1>13, <1>15, <2>3 DEF DispenserInv, Counting
<1>23. QED
  BY <1>17, <1>20, <1>21, <1>22 DEF DispenserInv

-----------------------------------------------------------------------------
(* The scenario, the service menu and stops *)

\* FundsService::canDispense.
LEMMA OfferChangeIs == DispenserInv /\ OfferChange => DispenserInv'
<1>1. SUFFICES ASSUME DispenserInv, OfferChange PROVE DispenserInv'
  OBVIOUS
<1>2. /\ stage = "idle" /\ Leftover # 0
      /\ available' = CanDispense(count, Leftover)
      /\ stage' = (IF available' = 0 THEN "idle" ELSE "offered")
      /\ UNCHANGED <<ledger, unitVars, failed, amounts, saves, booked,
                     deviceVars, history>>
  BY <1>1 DEF OfferChange
<1>3. TypeOK /\ count \in Contents /\ Leftover \in Nat
  BY <1>1, TypesAre DEF DispenserInv
<1>4. available' \in Nat /\ available' <= Leftover /\ stage' \in {"idle", "offered"}
  BY <1>2, <1>3, CanDispenseIs
<1>5. UNCHANGED <<amounts, saves, booked, change, lost, paidOut, notes,
                  crashed, given, job, queue, stock, count, saved>>
  BY <1>2 DEF ledger, unitVars, deviceVars, history
<1>6. ~crashed
  BY <1>1, <1>2 DEF DispenserInv, Covering, Leftover
<1>7. TypeOK'
  <2>1. LedgerTypeOK'
    BY <1>2, <1>3, LedgerStutterType, TypesAre
  <2>2. QED
    BY <1>2, <1>3, <1>4, <2>1 DEF TypeOK, unitVars, deviceVars, history
<1>8. NoRequest'
  <2>1. NoRequest /\ Known' = Known
    BY <1>1, <1>2, <1>5 DEF DispenserInv, Requested, Replied, Silenced, Known
  <2>2. stage' # "waiting"
    BY <1>4
  <2>3. QED
    BY <1>5, <2>1, <2>2 DEF NoRequest, Statuses, Status
<1>9. Covering'
  <2>1. Leftover' = Leftover /\ AllNotes' = AllNotes
    BY <1>5 DEF Leftover, AllNotes, NotesOf
  <2>2. QED
    BY <1>1, <1>4, <1>5, <1>6, <2>1 DEF DispenserInv, Covering
<1>10. Booking' /\ Counting'
  BY <1>1, <1>5, BookingSame DEF DispenserInv, Counting
<1>11. QED
  BY <1>7, <1>8, <1>9, <1>10 DEF DispenserInv

\* FundsService::dispense.
LEMMA DispenseIs == DispenserInv /\ Dispense => DispenserInv'
<1>1. SUFFICES ASSUME DispenserInv, Dispense PROVE DispenserInv'
  OBVIOUS
<1>2. PICK sum : sum = available
  OBVIOUS
<1>3. /\ stage = "offered" /\ available' = 0 /\ unitData' = unitData
      /\ promised' = (IF stage' = "waiting" THEN sum ELSE 0) /\ handed' = 0
      /\ UNCHANGED <<ledger, count, saved, stock, down, failed, saves, booked,
                     given, untold, silent, refills, faults, crashed>>
  BY <1>1, <1>2 DEF Dispense
<1>4. IF Usable(count, sum) = {}
      THEN amounts' = NoAmounts /\ stage' = "idle" /\ UNCHANGED <<job, queue>>
      ELSE /\ amounts' = IF amounts = NoAmounts
                         THEN [amounts EXCEPT !.toDispensing = sum] ELSE amounts
           /\ Ask(count, sum, queue) /\ stage' = "waiting"
  BY <1>1, <1>2 DEF Dispense
<1>5. NoRequest /\ ~crashed
  BY <1>1, <1>3 DEF DispenserInv, Requested, Replied, Silenced, Covering
<1>6. /\ TypeOK /\ count \in Contents /\ unitData \in Contents /\ sum \in Nat
      /\ queue \in Seq(Signals) /\ sum <= Leftover /\ Leftover \in Nat /\ paidOut \in Nat
      /\ given \in Nat
      /\ \A v \in Units : stock[v] \in Nat /\ count[v] \in Nat
  BY <1>1, <1>2, <1>3, TypesAre DEF DispenserInv, Covering
<1>7. job = NoJob /\ Statuses(queue) /\ amounts = NoAmounts /\ given = paidOut
  BY <1>5, <1>6 DEF NoRequest, Known, NoAmounts
<1>8. UNCHANGED <<saves, booked, change, lost, paidOut, notes, crashed, given, stock, count, saved>>
  BY <1>3 DEF ledger
<1>9. /\ job' \in [unit : Units, items : 1..MaxCount] \cup {NoJob}
      /\ queue' \in Seq(Signals) /\ stage' \in {"idle", "waiting"}
      /\ amounts' \in [toDispensing : Nat, dispensed : Nat]
      /\ amounts'.dispensed = 0 /\ amounts'.toDispensing \in {0, sum}
      /\ (NoRequest \/ Requested \/ Replied \/ Silenced)'
  <2>1. CASE Usable(count, sum) = {}
    <3>1. amounts' = NoAmounts /\ stage' = "idle" /\ job' = NoJob /\ queue' = queue
      BY <1>4, <1>7, <2>1
    <3>2. Known' = given'
      BY <1>6, <1>7, <1>8, <3>1 DEF Known, NoAmounts
    <3>3. Statuses(queue)'
      BY <1>7, <3>1 DEF Statuses, Status
    <3>4. NoRequest'
      BY <3>1, <3>2, <3>3 DEF NoRequest, NoJob, NoAmounts
    <3>5. amounts'.dispensed = 0 /\ amounts'.toDispensing = 0
      BY <3>1 DEF NoAmounts
    <3>6. NoAmounts \in [toDispensing : Nat, dispensed : Nat]
      BY DEF NoAmounts
    <3>7. QED
      BY <1>6, <3>1, <3>4, <3>5, <3>6
  <2>2. CASE Usable(count, sum) # {}
    <3>1. /\ amounts' = [toDispensing |-> sum, dispensed |-> 0]
          /\ Ask(count, sum, queue) /\ stage' = "waiting"
      BY <1>4, <1>7, <2>2 DEF NoAmounts
    <3>2. amounts'.dispensed = 0 /\ amounts'.toDispensing = sum
      BY <3>1
    <3>3. given' = Known' /\ Known' \in Nat
      BY <1>6, <1>7, <1>8, <3>2 DEF Known
    <3>4. \A v \in Units : stock'[v] \in Nat /\ count'[v] >= stock'[v] /\ count'[v] \in Nat
      BY <1>1, <1>6, <1>8 DEF DispenserInv, Counting
    <3>5. /\ job' \in [unit : Units, items : 1..MaxCount] \cup {NoJob}
          /\ queue' \in Seq(Signals) /\ (Requested' \/ Replied')
      BY <1>6, <1>7, <2>2, <3>1, <3>2, <3>3, <3>4, AskIs
    <3>6. QED
      BY <1>6, <3>1, <3>2, <3>5
  <2>3. QED
    BY <2>1, <2>2
<1>10. TypeOK'
  <2>1. LedgerTypeOK'
    BY <1>3, <1>6, LedgerStutterType, TypesAre
  <2>2. promised' \in Nat /\ handed' \in Nat /\ available' \in Nat
    BY <1>3, <1>6
  <2>3. QED
    BY <1>3, <1>6, <1>9, <2>1, <2>2 DEF TypeOK
<1>11. Covering'
  <2>1. Leftover' = Leftover /\ AllNotes' = AllNotes
    BY <1>8 DEF Leftover, AllNotes, NotesOf
  <2>2. amounts'.toDispensing + amounts'.dispensed <= Leftover
    BY <1>6, <1>9
  <2>3. QED
    BY <1>1, <1>5, <1>8, <1>9, <2>1, <2>2 DEF DispenserInv, Covering
<1>12. Booking'
  <2>1. Known' = Known
    BY <1>6, <1>7, <1>8, <1>9 DEF Known, NoAmounts
  <2>2. QED
    BY <1>1, <1>8, <2>1 DEF DispenserInv, Booking, UnitsSave, GivenSave
<1>13. Counting'
  BY <1>1, <1>8 DEF DispenserInv, Counting
<1>14. QED
  BY <1>9, <1>10, <1>11, <1>12, <1>13 DEF DispenserInv

\* The customer leaves the rest.
LEMMA GiveUpChangeIs == DispenserInv /\ GiveUpChange => DispenserInv'
<1>1. SUFFICES ASSUME DispenserInv, GiveUpChange PROVE DispenserInv'
  OBVIOUS
<1>2. /\ stage = "idle" /\ ResetChange
      /\ UNCHANGED <<unitVars, managerVars, deviceVars, history>>
  BY <1>1 DEF GiveUpChange
<1>3. /\ change # NoChange /\ lost' = lost + change /\ change' = NoChange
      /\ UNCHANGED <<paidOut, notes>>
  BY <1>2 DEF ResetChange
<1>4. UNCHANGED <<stage, available, amounts, saves, booked, paidOut,
                  crashed, given, job, queue, stock, count, saved>>
  BY <1>2, <1>3 DEF unitVars, managerVars, deviceVars, history
<1>5. TypeOK /\ change \in Nat /\ lost \in Nat /\ paidOut \in Nat /\ Leftover = change
  BY <1>1, <1>3, TypesAre DEF DispenserInv, Leftover
<1>6. TypeOK'
  <2>1. LedgerTypeOK'
    BY <1>2, <1>5, ResetChangeType, TypesAre
  <2>2. QED
    BY <1>2, <1>5, <2>1 DEF TypeOK, unitVars, managerVars, deviceVars, history
<1>7. (NoRequest \/ Requested \/ Replied \/ Silenced)'
  BY <1>1, <1>4, RequestSame DEF DispenserInv
<1>8. Covering'
  <2>1. Leftover' = 0 /\ AllNotes' = AllNotes
    BY <1>3 DEF Leftover, AllNotes, NotesOf
  <2>2. ~crashed => Leftover' + lost' + paidOut' = AllNotes'
    BY <1>1, <1>3, <1>5, <2>1 DEF DispenserInv, Covering
  <2>3. QED
    BY <1>1, <1>2, <1>3, <1>4, <2>1, <2>2 DEF DispenserInv, Covering
<1>9. Booking' /\ Counting'
  BY <1>1, <1>4, BookingSame DEF DispenserInv, Counting
<1>10. QED
  BY <1>6, <1>7, <1>8, <1>9 DEF DispenserInv

\* A unit is filled and declared.
LEMMA RefillIs ==
    ASSUME DispenserInv, NEW u \in Units, Refill(u)
    PROVE  DispenserInv'
<1>1. /\ stage = "idle" /\ saves = <<>> /\ refills < MaxRefills /\ refills' = refills + 1
      /\ stock' = [stock EXCEPT ![u] = MaxCount] /\ count' = [count EXCEPT ![u] = MaxCount]
      /\ saved' = count' /\ unitData' = count'
      /\ UNCHANGED <<ledger, managerVars, deviceVars, given, untold, silent, promised, handed,
                     faults, crashed>>
  BY DEF Refill, Idle
<1>2. TypeOK /\ stock \in Contents /\ count \in Contents /\ MaxCount \in 0..MaxCount
      /\ MaxRefills \in Nat /\ refills \in Nat
  BY TypesAre, DispenserAssumption DEF DispenserInv
<1>3. /\ stock' \in Contents /\ count' \in Contents
      /\ stock'[u] = MaxCount /\ count'[u] = MaxCount
      /\ \A v \in Units : v # u => stock'[v] = stock[v] /\ count'[v] = count[v]
  BY <1>1, <1>2 DEF Contents
<1>4. UNCHANGED <<stage, available, amounts, saves, booked, change, lost, paidOut, notes,
                  crashed, given, job, queue>>
  BY <1>1 DEF ledger, managerVars, deviceVars
<1>5. refills' \in 0..MaxRefills
  BY <1>1, <1>2
<1>6. TypeOK'
  <2>1. LedgerTypeOK'
    BY <1>1, <1>2, LedgerStutterType, TypesAre
  <2>2. QED
    BY <1>1, <1>2, <1>3, <1>5, <2>1 DEF TypeOK, managerVars, deviceVars
<1>7. NoRequest'
  <2>1. NoRequest /\ Known' = Known
    BY <1>1, <1>4 DEF DispenserInv, Requested, Replied, Silenced, Known
  <2>2. QED
    BY <1>4, <2>1 DEF NoRequest, Statuses, Status
<1>8. Covering' /\ Booking'
  BY <1>4, CoveringSame, BookingSame DEF DispenserInv
<1>9. Counting'
  <2>1. \A v \in Units : count'[v] >= stock'[v]
    BY <1>2, <1>3 DEF DispenserInv, Counting
  <2>2. QED
    BY <1>1, <1>4, <2>1 DEF DispenserInv, Counting
<1>10. QED
  BY <1>6, <1>7, <1>8, <1>9 DEF DispenserInv

\* The notes given, with those the driver has been asked for, are covered by what
\* the customers have put in.
LEMMA GivenCovered ==
    ASSUME DispenserInv
    PROVE  /\ given <= AllNotes
           /\ job # NoJob => given + job.items * Nominal[job.unit] <= AllNotes
<1>1. /\ given \in Nat /\ AllNotes \in Nat /\ Leftover \in Nat /\ lost \in Nat /\ paidOut \in Nat
      /\ amounts.toDispensing \in Nat /\ amounts.dispensed \in Nat
  BY TypesAre DEF DispenserInv
<1>2. CASE crashed
  <2>1. stage = "idle" /\ given <= AllNotes
    BY <1>2 DEF DispenserInv, Covering
  <2>2. job = NoJob
    BY <2>1 DEF DispenserInv, NoRequest, Requested, Replied, Silenced
  <2>3. QED
    BY <2>1, <2>2
<1>3. CASE ~crashed
  <2>1. Leftover + lost + paidOut = AllNotes
    BY <1>3 DEF DispenserInv, Covering
  <2>2. CASE NoRequest
    <3>1. given = paidOut /\ job = NoJob
      BY <1>1, <1>3, <2>2 DEF NoRequest, Known, NoAmounts
    <3>2. QED
      BY <1>1, <2>1, <3>1
  <2>3. CASE Requested
    <3>1. PICK g : g = job.items * Nominal[job.unit]
      OBVIOUS
    <3>2. g \in Nat
      <4>1. job \in [unit : Units, items : 1..MaxCount]
        BY <2>3 DEF Requested, DispenserInv, TypeOK
      <4>2. job.items \in Nat /\ job.unit \in Units
        BY <4>1
      <4>3. Nominal[job.unit] \in Nat
        BY <4>2, UnitsAre
      <4>4. QED
        BY <3>1, <4>2, <4>3
    <3>3. g <= amounts.toDispensing /\ given = paidOut + amounts.dispensed
      BY <2>3, <3>1 DEF Requested, Known
    <3>4. amounts.toDispensing + amounts.dispensed <= Leftover
      BY <2>3 DEF Requested, DispenserInv, Covering
    <3>5. given + g <= AllNotes
      BY <1>1, <2>1, <3>2, <3>3, <3>4
    <3>6. QED
      BY <1>1, <3>1, <3>2, <3>5
  <2>4. CASE Replied
    <3>1. PICK u \in Units, k \in 0..MaxCount :
             /\ k * Nominal[u] <= amounts.toDispensing
             /\ given = Known + k * Nominal[u]
      BY <2>4 DEF Replied
    <3>2. PICK g : g = k * Nominal[u]
      OBVIOUS
    <3>3. g \in Nat
      <4>1. Nominal[u] \in Nat
        BY UnitsAre
      <4>2. QED
        BY <3>2, <4>1
    <3>4. g <= amounts.toDispensing /\ given = paidOut + amounts.dispensed + g
      BY <3>1, <3>2 DEF Known
    <3>5. job = NoJob /\ amounts.toDispensing + amounts.dispensed <= Leftover
      BY <2>4 DEF Replied, DispenserInv, Covering
    <3>6. QED
      BY <1>1, <2>1, <3>3, <3>4, <3>5
  <2>5. CASE Silenced
    <3>1. /\ given = paidOut + amounts.dispensed /\ job = NoJob
          /\ amounts.toDispensing + amounts.dispensed <= Leftover
      BY <2>5 DEF Silenced, Known, DispenserInv, Covering
    <3>2. QED
      BY <1>1, <2>1, <3>1
  <2>6. QED
    BY <2>2, <2>3, <2>4, <2>5 DEF DispenserInv
<1>4. QED
  BY <1>2, <1>3

\* The program stops, and the device may still carry out its request.
LEMMA CrashIs == DispenserInv /\ Crash => DispenserInv'
<1>1. SUFFICES ASSUME DispenserInv, Crash PROVE DispenserInv'
  OBVIOUS
<1>2. /\ faults < MaxFaults /\ faults' = faults + 1 /\ crashed' = TRUE /\ LedgerCrash
      /\ count' = saved /\ unitData' = saved /\ down' = FALSE /\ failed' = FALSE
      /\ job' = NoJob /\ queue' = <<>> /\ amounts' = NoAmounts /\ available' = 0
      /\ saves' = <<>> /\ stage' = "idle" /\ silent' = FALSE
      /\ UNCHANGED <<saved, booked, untold, promised, handed, refills>>
  BY <1>1 DEF Crash
<1>3. /\ TypeOK /\ stock \in Contents /\ saved \in Contents /\ given \in Nat /\ AllNotes \in Nat
      /\ \A v \in Units : saved[v] \in Nat /\ stock[v] \in Nat
  BY <1>1, TypesAre DEF DispenserInv
<1>4. change' = NoChange /\ AllNotes' = AllNotes
  BY <1>2 DEF LedgerCrash, AllNotes, NotesOf
<1>5. /\ stock' \in Contents /\ \A v \in Units : stock'[v] <= stock[v]
      /\ given' \in Nat /\ given' <= AllNotes
  <2>1. CASE job = NoJob
    <3>1. stock' = stock /\ given' = given
      BY <1>1, <2>1 DEF Crash
    <3>2. QED
      BY <1>1, <1>3, <3>1, GivenCovered
  <2>2. CASE job # NoJob
    <3>1. PICK u, i : u = job.unit /\ i = job.items
      OBVIOUS
    <3>2. u \in Units /\ i \in Nat
      <4>1. job \in [unit : Units, items : 1..MaxCount]
        BY <1>3, <2>2 DEF TypeOK
      <4>2. QED
        BY <3>1, <4>1
    <3>3. stock[u] \in 0..MaxCount /\ Nominal[u] \in Nat /\ MaxCount \in Nat
      BY <1>3, <3>2, UnitsAre, DispenserAssumption DEF Contents
    <3>4. PICK m : m = Min({i, stock[u]})
      OBVIOUS
    <3>5. m \in Nat /\ m <= i /\ m <= stock[u]
      BY <3>2, <3>3, <3>4, MinOfTwo
    <3>6. PICK k \in 0..m :
             /\ stock' = [stock EXCEPT ![u] = stock[u] - k]
             /\ given' = given + k * Nominal[u]
      BY <1>1, <2>2, <3>1, <3>4 DEF Crash
    <3>7. k \in Nat /\ k <= i /\ stock[u] - k \in 0..MaxCount /\ stock[u] - k <= stock[u]
      BY <3>2, <3>3, <3>5
    <3>8. stock' \in Contents /\ \A v \in Units : stock'[v] <= stock[v]
      <4>1. /\ stock' \in Contents /\ stock'[u] = stock[u] - k
            /\ \A v \in Units : v # u => stock'[v] = stock[v]
        BY <1>3, <3>2, <3>6, <3>7 DEF Contents
      <4>2. QED
        BY <1>3, <3>7, <4>1
    <3>9. given' \in Nat /\ given' <= AllNotes
      <4>1. PICK g, h : g = k * Nominal[u] /\ h = i * Nominal[u]
        OBVIOUS
      <4>2. g \in Nat /\ h \in Nat /\ g <= h
        BY <3>2, <3>3, <3>7, <4>1, FewerNotes
      <4>3. given + h <= AllNotes
        BY <1>1, <2>2, <3>1, <4>1, GivenCovered
      <4>4. given' = given + g
        BY <3>6, <4>1
      <4>5. QED
        BY <1>3, <4>2, <4>3, <4>4
    <3>10. QED
      BY <3>8, <3>9
  <2>3. QED
    BY <2>1, <2>2
<1>6. TypeOK'
  <2>1. LedgerTypeOK'
    BY <1>2, <1>3, LedgerCrashType, TypesAre
  <2>2. faults' \in 0..MaxFaults
    BY <1>2, <1>3, DispenserAssumption DEF TypeOK
  <2>3. NoAmounts \in [toDispensing : Nat, dispensed : Nat]
    BY DEF NoAmounts
  <2>4. /\ stage' \in {"idle", "offered", "waiting"} /\ queue' \in Seq(Signals)
        /\ saves' \in Seq([table : {"device_param"}, counts : Contents]
                           \cup [table : {"dispensed_note"}, amount : Nat])
        /\ job' \in [unit : Units, items : 1..MaxCount] \cup {NoJob}
    BY <1>2
  <2>5. {count, saved, unitData, stock}' \subseteq Contents
    BY <1>2, <1>3, <1>5
  <2>6. {down, failed, crashed, silent}' \subseteq BOOLEAN
    BY <1>2
  <2>7. /\ {available, booked, given, untold, promised, handed}' \subseteq Nat
        /\ refills' \in 0..MaxRefills /\ amounts' \in [toDispensing : Nat, dispensed : Nat]
    BY <1>2, <1>3, <1>5, <2>3 DEF TypeOK
  <2>8. QED
    BY <2>1, <2>2, <2>4, <2>5, <2>6, <2>7 DEF TypeOK
<1>7. NoRequest'
  <2>1. Statuses(queue)'
    BY <1>2 DEF Statuses
  <2>2. QED
    BY <1>2, <2>1 DEF NoRequest, NoJob, NoAmounts
<1>8. Covering'
  BY <1>2, <1>4, <1>5 DEF Covering, NoChange
<1>9. Booking'
  BY <1>2 DEF Booking
<1>10. Counting'
  <2>1. \A v \in Units : saved[v] >= stock[v]
    BY <1>1 DEF DispenserInv, Counting
  <2>2. \A v \in Units : stock'[v] \in Nat
    BY <1>5, UnitsAre
  <2>3. \A v \in Units : saved[v] >= stock'[v]
    BY <1>3, <1>5, <2>1, <2>2
  <2>4. QED
    BY <1>2, <2>3 DEF Counting
<1>11. QED
  BY <1>6, <1>7, <1>8, <1>9, <1>10 DEF DispenserInv

-----------------------------------------------------------------------------
(* The dispenser as a whole *)

\* At the start one payment has left its notes as the change.
LEMMA DispenserInit == Init => DispenserInv
<1>1. SUFFICES ASSUME Init PROVE DispenserInv
  OBVIOUS
<1>2. /\ created = 1 /\ active = NoPayment /\ obj = Nothing
      /\ row = [p \in PaymentIds |-> Nothing]
      /\ change \in 1..MaxChange /\ changeRow = change /\ lost = 0 /\ paidOut = 0
      /\ encs = <<>> /\ writes = <<>> /\ torn = 0
  BY <1>1, Zenon DEF Init
<1>3. notes = [p \in PaymentIds |->
                 [e \in 0..MaxEncashments |-> IF p = 1 /\ e = 0 THEN change ELSE 0]]
  BY <1>1, Zenon DEF Init
<1>4. /\ count \in Contents /\ stock \in {s \in Contents : \A u \in Units : s[u] <= count[u]}
      /\ saved = count /\ unitData = count
      /\ down = FALSE /\ failed = FALSE /\ job = NoJob /\ queue = <<>>
      /\ amounts = NoAmounts /\ available = 0 /\ saves = <<>> /\ booked = 0 /\ stage = "idle"
      /\ given = 0 /\ untold = 0 /\ silent = FALSE /\ promised = 0 /\ handed = 0 /\ refills = 0
      /\ faults = (IF stock = count THEN 0 ELSE 1) /\ faults <= MaxFaults
      /\ crashed = FALSE
  BY <1>1, Zenon DEF Init
<1>5. /\ change \in Nat \ {0} /\ changeRow \in Nat
      /\ 1 \in PaymentIds /\ PaymentIds \subseteq Nat
  <2>1. MaxChange \in Nat /\ MaxPayments \in Nat \ {0}
    BY DispenserAssumption, LedgerAssumption
  <2>2. QED
    BY <1>2, <2>1 DEF PaymentIds
<1>6. LedgerTypeOK
  <2>1. notes \in [PaymentIds -> [0..MaxEncashments -> Nat]]
    BY <1>3, <1>5
  <2>2. Nothing \in Amounts
    BY DEF Nothing, Amounts
  <2>3. row \in [PaymentIds -> Amounts]
    BY <1>2, <2>2
  <2>4. created \in 0..MaxPayments
    BY <1>2, LedgerAssumption
  <2>5. encs \in Seq(Nat) /\ writes \in Seq(Saves)
    BY <1>2
  <2>6. QED
    BY <1>2, <1>5, <2>1, <2>2, <2>3, <2>4, <2>5 DEF LedgerTypeOK
<1>7. TypeOK
  <2>1. faults \in 0..MaxFaults /\ refills \in 0..MaxRefills
    BY <1>4, DispenserAssumption
  <2>2. /\ queue \in Seq(Signals)
        /\ saves \in Seq([table : {"device_param"}, counts : Contents]
                           \cup [table : {"dispensed_note"}, amount : Nat])
    BY <1>4
  <2>3. amounts \in [toDispensing : Nat, dispensed : Nat]
    BY <1>4 DEF NoAmounts
  <2>4. {count, saved, unitData, stock} \subseteq Contents
    BY <1>4
  <2>5. {down, failed, crashed, silent} \subseteq BOOLEAN
    BY <1>4
  <2>6. {available, booked, given, untold, promised, handed} \subseteq Nat
    BY <1>4
  <2>7. job \in [unit : Units, items : 1..MaxCount] \cup {NoJob}
        /\ stage \in {"idle", "offered", "waiting"}
    BY <1>4
  <2>8. QED
    BY <1>6, <2>1, <2>2, <2>3, <2>4, <2>5, <2>6, <2>7 DEF TypeOK
<1>8. AllNotes = change
  <2> DEFINE f == [p \in PaymentIds |-> NotesOf(p)]
  <2>1. \A p \in PaymentIds :
           notes[p] = [e \in 0..MaxEncashments |-> IF p = 1 /\ e = 0 THEN change ELSE 0]
    BY <1>3
  <2>2. IsFiniteSet(0..MaxEncashments) /\ 0 \in 0..MaxEncashments
    BY LedgerAssumption, FS_Interval
  <2>3. \A p \in PaymentIds : notes[p] \in [0..MaxEncashments -> Nat]
    BY <1>6 DEF LedgerTypeOK
  <2>4. NotesOf(1) = change
    <3>1. notes[1][0] = change /\ \A e \in 0..MaxEncashments : e # 0 => notes[1][e] = 0
      BY <1>5, <2>1, <2>2
    <3>2. PICK g \in [0..MaxEncashments -> Nat] : g = notes[1]
      BY <1>5, <2>3
    <3>3. SumFunction(g) = g[0]
      BY <2>2, <3>1, <3>2, SumFunctionOne
    <3>4. QED
      BY <3>1, <3>2, <3>3 DEF NotesOf
  <2>5. \A p \in PaymentIds : p # 1 => NotesOf(p) = 0
    <3> TAKE p \in PaymentIds
    <3> HAVE p # 1
    <3>1. PICK g \in [0..MaxEncashments -> Nat] : g = notes[p]
      BY <2>3
    <3>2. \A e \in 0..MaxEncashments : g[e] = 0
      BY <2>1, <3>1
    <3>3. SumFunction(g) = g[0]
      BY <2>2, <3>2, SumFunctionOne
    <3>4. QED
      BY <2>2, <3>1, <3>2, <3>3 DEF NotesOf
  <2>6. f \in [PaymentIds -> Nat] /\ IsFiniteSet(PaymentIds)
    <3>1. \A p \in PaymentIds : NotesOf(p) \in Nat
      BY <1>5, <2>4, <2>5
    <3>2. IsFiniteSet(PaymentIds)
      BY LedgerAssumption, FS_Interval DEF PaymentIds
    <3>3. QED
      BY <3>1, <3>2
  <2>7. f[1] = change /\ \A p \in PaymentIds : p # 1 => f[p] = 0
    BY <1>5, <2>4, <2>5
  <2>8. AllNotes = SumFunction(f)
    BY DEF AllNotes
  <2> HIDE DEF f
  <2>9. SumFunction(f) = f[1]
    BY <1>5, <2>6, <2>7, SumFunctionOne
  <2>10. QED
    BY <2>7, <2>8, <2>9
<1>9. Leftover = change /\ lost = 0 /\ paidOut = 0 /\ stage = "idle" /\ ~crashed
      /\ \A u \in Units : stock[u] <= count[u]
  BY <1>2, <1>4, <1>5 DEF Leftover, NoChange
<1>10. NoRequest
  BY <1>4, <1>9 DEF NoRequest, Known, Statuses, NoAmounts
<1>11. Covering
  BY <1>5, <1>8, <1>9 DEF Covering
<1>12. Booking
  BY <1>4, <1>9 DEF Booking, Known, NoAmounts
<1>13. Counting
  <2>1. \A u \in Units : stock[u] \in Nat /\ count[u] \in Nat
    BY <1>4, UnitsAre
  <2>2. QED
    BY <1>4, <1>9, <2>1 DEF Counting
<1>14. QED
  BY <1>7, <1>10, <1>11, <1>12, <1>13 DEF DispenserInv

\* Every step keeps the invariant.
LEMMA DispenserStep == DispenserInv /\ [Next]_vars => DispenserInv'
<1>1. SUFFICES ASSUME DispenserInv, [Next]_vars PROVE DispenserInv'
  OBVIOUS
<1>2. CASE SaveNext
  BY <1>1, <1>2, SaveUnitsIs, SaveGivenIs, SaveLedgerIs DEF SaveNext
<1>3. CASE Manager
  BY <1>1, <1>3, OnRejectedIs, OnUnitEmptyIs, OnStatusIs, OnDispensedIs DEF Manager
<1>4. CASE Scenario
  BY <1>1, <1>4, OfferChangeIs, DispenseIs, GiveUpChangeIs, RefillIs DEF Scenario
<1>5. CASE Driver
  BY <1>1, <1>5, GiveIs, FailIs DEF Driver
<1>6. CASE Crash
  BY <1>1, <1>6, CrashIs
<1>7. CASE UNCHANGED vars
  <2>1. UNCHANGED <<stage, available, amounts, saves, booked, change, lost, paidOut, notes,
                    crashed, given, job, queue, stock, count, saved>>
    BY <1>7 DEF vars, ledger, unitVars, managerVars, deviceVars, history
  <2>2. TypeOK'
    <3>1. LedgerTypeOK'
      BY <1>1, <1>7, LedgerStutterType, TypesAre DEF DispenserInv, vars
    <3>2. QED
      BY <1>1, <1>7, <3>1 DEF DispenserInv, TypeOK, vars, unitVars, managerVars, deviceVars, history
  <2>3. (NoRequest \/ Requested \/ Replied \/ Silenced)'
    BY <1>1, <2>1, RequestSame DEF DispenserInv
  <2>4. Covering' /\ Booking' /\ Counting'
    BY <1>1, <2>1, CoveringSame, BookingSame DEF DispenserInv, Counting
  <2>5. QED
    BY <2>2, <2>3, <2>4 DEF DispenserInv
<1>8. QED
  BY <1>1, <1>2, <1>3, <1>4, <1>5, <1>6, <1>7 DEF Next

\* The invariant holds of every behaviour.
LEMMA DispenserAlways == Spec => []DispenserInv
<1>1. QED
  BY DispenserInit, DispenserStep, PTL DEF Spec

-----------------------------------------------------------------------------
(* While nothing fails: what is asked for is given *)

\* With k notes of the unit u gone, the rest of r can still be given whole.
Owing(c, r, u, k) ==
    /\ k <= c[u] /\ r - k * Nominal[u] \in Nat
    /\ [c EXCEPT ![u] = @ - k] \in Contents
    /\ Payable([c EXCEPT ![u] = @ - k], r - k * Nominal[u])

AnswerOf(u, k) == [signal |-> "dispensed", unit |-> u, items |-> k]

\* No request is under way; an offer can be given whole.
Resting ==
    /\ stage # "waiting" /\ job = NoJob /\ queue = <<>> /\ stock = count
    /\ stage = "idle" => handed = promised
    /\ stage = "offered" => Payable(count, available)

\* The driver has a request it can serve.
Asked ==
    /\ stage = "waiting" /\ job # NoJob /\ queue = <<>> /\ stock = count
    /\ Owing(count, amounts.toDispensing, job.unit, job.items)
    /\ handed + amounts.toDispensing = promised

\* It has served it.
Answered ==
    /\ stage = "waiting" /\ job = NoJob
    /\ \E u \in Units, k \in Nat :
          /\ queue = <<AnswerOf(u, k)>>
          /\ Owing(count, amounts.toDispensing, u, k)
          /\ stock = [count EXCEPT ![u] = @ - k]
          /\ handed + amounts.toDispensing = promised + k * Nominal[u]

\* The manager counts right, and the driver takes no unit with notes for empty.
Keeping ==
    /\ Working
    /\ \A u \in Units : count[u] # 0 => unitData[u] # 0
    /\ Resting \/ Asked \/ Answered

\* A request of dispense() is one the driver can serve.
LEMMA AskKeeps ==
    ASSUME NEW c \in Contents, NEW sum \in Nat, Working, Payable(c, sum),
           Usable(c, sum) # {}, Ask(c, sum, <<>>), job = NoJob, count' = c, stock' = c,
           stage' = "waiting", amounts'.toDispensing = sum, handed' + sum = promised',
           \A u \in Units : c[u] # 0 => unitData'[u] # 0
    PROVE  Asked'
<1>1. PICK u, i : u = UnitFor(c, sum) /\ i = Min({c[u], sum \div Nominal[u]})
  OBVIOUS
<1>2. u \in Units /\ c[u] # 0
  BY <1>1, UnitForIs, UsableIs
<1>3. job' = [unit |-> u, items |-> i] /\ queue' = <<>>
  BY <1>1, <1>2 DEF Ask
<1>4. u # 0
  BY <1>2, DispenserAssumption
<1>5. job' # NoJob /\ job'.unit = u /\ job'.items = i
  BY <1>3, <1>4 DEF NoJob
<1>6. Owing(c, sum, u, i)
  BY <1>1, RestIsPayable DEF Owing
<1>7. Owing(count', amounts'.toDispensing, job'.unit, job'.items)
  BY <1>5, <1>6
<1>8. handed' + amounts'.toDispensing = promised'
  OBVIOUS
<1>9. job' # NoJob /\ queue' = <<>> /\ stock' = count'
  BY <1>3, <1>5
<1>10. QED
  BY <1>7, <1>8, <1>9 DEF Asked, Owing, NoJob, Payable

\* The notes come out: those asked for are there.
LEMMA GiveKeeps == DispenserInv /\ Keeping /\ Give => Keeping'
<1>1. SUFFICES ASSUME DispenserInv, Keeping, Give PROVE Keeping'
  OBVIOUS
<1>2. Asked /\ job # NoJob
  BY <1>1 DEF Give, Keeping, Resting, Answered
<1>3. PICK u, k : u = job.unit /\ k = job.items
  OBVIOUS
<1>4. u \in Units /\ k \in 1..MaxCount
  <2>1. job \in [unit : Units, items : 1..MaxCount] \cup {NoJob}
    BY <1>1 DEF DispenserInv, TypeOK
  <2>2. QED
    BY <1>2, <1>3, <2>1
<1>5. /\ k \in Nat /\ count[u] \in Nat /\ stock[u] = count[u] /\ k <= count[u]
      /\ Nominal[u] \in Nat /\ handed \in Nat /\ promised \in Nat
      /\ amounts.toDispensing \in Nat /\ queue = <<>>
  <2>1. k <= count[u] /\ stock[u] = count[u] /\ queue = <<>>
    BY <1>2, <1>3 DEF Asked, Owing
  <2>2. count[u] \in Nat /\ handed \in Nat /\ promised \in Nat /\ amounts.toDispensing \in Nat
    BY <1>1, <1>4, TypesAre DEF DispenserInv
  <2>3. k \in Nat /\ Nominal[u] \in Nat
    BY <1>4, UnitsAre, DispenserAssumption
  <2>4. QED
    BY <2>1, <2>2, <2>3
<1>6. PICK m : m = Min({k, stock[u]})
  OBVIOUS
<1>7. m = k
  BY <1>5, <1>6, MinOfTwo
<1>8. /\ Performed(k, k, 0, FALSE)
      /\ UNCHANGED <<count, managerVars, down, promised>>
  <2>1. Performed(m, m, 0, m < k)
        /\ UNCHANGED <<count, managerVars, down, promised>>
    BY <1>1, <1>3, <1>6 DEF Give
  <2>2. (m < k) = FALSE
    BY <1>5, <1>7
  <2>3. QED
    BY <1>7, <2>1, <2>2
<1>9. PICK x : x = AnswerOf(u, k)
  OBVIOUS
<1>10. /\ job' = NoJob /\ stock' = [stock EXCEPT ![u] = @ - k - 0]
       /\ unitData' = unitData /\ handed' = handed + k * Nominal[u]
       /\ queue' = <<>> \o <<>> \o <<>> \o <<x>>
  BY <1>3, <1>5, <1>8, <1>9 DEF Performed, TakenOut, AnswerOf
<1>11. queue' = <<x>>
  BY <1>10
<1>12. stock' = [count EXCEPT ![u] = @ - k]
  <2>1. stock = count
    BY <1>2 DEF Asked
  <2>2. count[u] - k - 0 = count[u] - k
    BY <1>5
  <2>3. QED
    BY <1>10, <2>1, <2>2
<1>13. /\ count' = count /\ amounts' = amounts /\ stage' = stage /\ failed' = failed
       /\ down' = down /\ promised' = promised
  BY <1>8 DEF managerVars
<1>14. Owing(count, amounts.toDispensing, u, k) /\ handed + amounts.toDispensing = promised
       /\ stage = "waiting"
  BY <1>2, <1>3 DEF Asked
<1>15. handed' + amounts'.toDispensing = promised' + k * Nominal[u]
  <2>1. PICK y \in Nat : y = k * Nominal[u]
    BY <1>5
  <2>2. QED
    BY <1>5, <1>10, <1>13, <1>14, <2>1
<1>16. Answered'
  <2>1. /\ queue' = <<AnswerOf(u, k)>>
        /\ Owing(count', amounts'.toDispensing, u, k)
        /\ stock' = [count' EXCEPT ![u] = @ - k]
    BY <1>9, <1>11, <1>12, <1>13, <1>14
  <2>2. QED
    BY <1>4, <1>5, <1>10, <1>13, <1>14, <1>15, <2>1 DEF Answered, Owing, NoJob, AnswerOf, Payable
<1>17. QED
  BY <1>1, <1>10, <1>13, <1>16 DEF Keeping, Working

\* The next unit is asked, or all has been given.
LEMMA OnDispensedKeeps == DispenserInv /\ Keeping /\ OnDispensed => Keeping'
<1>1. SUFFICES ASSUME DispenserInv, Keeping, OnDispensed PROVE Keeping'
  OBVIOUS
<1>2. queue # <<>>
  BY <1>1 DEF OnDispensed, Signalled
<1>3. Answered
  BY <1>1, <1>2 DEF Keeping, Resting, Asked
<1>4. PICK u \in Units, k \in Nat :
         /\ queue = <<AnswerOf(u, k)>>
         /\ Owing(count, amounts.toDispensing, u, k)
         /\ stock = [count EXCEPT ![u] = @ - k]
         /\ handed + amounts.toDispensing = promised + k * Nominal[u]
  BY <1>3 DEF Answered
<1>5. PICK s : s = AnswerOf(u, k)
  OBVIOUS
<1>6. Head(queue) = s /\ Tail(queue) = <<>> /\ s.unit = u /\ s.items = k
  BY <1>4, <1>5 DEF AnswerOf
<1>7. PICK c : c = Reduced(u, k)
  OBVIOUS
<1>8. count[u] \in Nat /\ handed \in Nat /\ promised \in Nat /\ amounts.toDispensing \in Nat
      /\ Nominal[u] \in Nat /\ unitData \in Contents /\ count \in Contents
  <2>1. TypeOK
    BY <1>1 DEF DispenserInv
  <2>2. QED
    BY <2>1, TypesAre, UnitsAre
<1>9. Min({k, count[u]}) = k
  <2>1. k <= count[u]
    BY <1>4 DEF Owing
  <2>2. QED
    BY <1>8, <2>1, MinOfTwo
<1>10. c = [count EXCEPT ![u] = @ - k]
  BY <1>7, <1>9 DEF Reduced
<1>11. PICK rest : rest = amounts.toDispensing - k * Nominal[u]
  OBVIOUS
<1>12. c \in Contents /\ rest \in Nat /\ Payable(c, rest)
  BY <1>4, <1>10, <1>11 DEF Owing
<1>13. Working /\ CanDispense(c, rest) = rest
  BY <1>1, <1>12, PayableIsFound DEF Keeping
<1>14. handed + rest = promised
  <2>1. PICK y \in Nat : y = k * Nominal[u]
    BY <1>8
  <2>2. PICK t \in Nat : t = amounts.toDispensing
    BY <1>8
  <2>3. handed + t = promised + y /\ rest = t - y /\ handed \in Nat /\ promised \in Nat
    BY <1>4, <1>8, <1>11, <2>1, <2>2
  <2>4. QED
    BY <2>3
<1>15. /\ count' = c /\ unitData' = SentToDriver(c, u)
       /\ UNCHANGED <<stock, down, failed, history>>
       /\ IF CanDispense(c, rest) # 0
          THEN /\ Ask(c, rest, <<>>)
               /\ amounts' = [toDispensing |-> rest,
                              dispensed |-> amounts.dispensed + k * Nominal[u]]
               /\ UNCHANGED stage
          ELSE /\ amounts' = NoAmounts /\ stage' = "idle" /\ queue' = <<>> /\ job' = job
  BY <1>1, <1>6, <1>7, <1>11 DEF OnDispensed, Served
<1>16. \A v \in Units : c[v] # 0 => unitData'[v] # 0
  <2>1. unitData' = c \/ (unitData' = unitData)
    BY <1>15 DEF SentToDriver
  <2>2. \A v \in Units : c[v] # 0 => count[v] # 0
    <3>1. c[u] = count[u] - k /\ \A v \in Units : v # u => c[v] = count[v]
      BY <1>8, <1>10 DEF Contents
    <3>2. k <= count[u]
      BY <1>4 DEF Owing
    <3>3. c[u] # 0 => count[u] # 0
      BY <1>8, <3>1, <3>2
    <3>4. QED
      BY <3>1, <3>3
  <2>3. QED
    BY <1>1, <2>1, <2>2 DEF Keeping
<1>17. stock' = c /\ handed' = handed /\ promised' = promised /\ Working'
  BY <1>4, <1>10, <1>13, <1>15 DEF history, Working
<1>18. CASE rest # 0
  <2>1. /\ Ask(c, rest, <<>>) /\ stage' = stage
        /\ amounts' = [toDispensing |-> rest, dispensed |-> amounts.dispensed + k * Nominal[u]]
    BY <1>13, <1>15, <1>18
  <2>2. amounts'.toDispensing = rest /\ stage' = "waiting" /\ job = NoJob
    BY <1>3, <2>1 DEF Answered
  <2>3. Usable(c, rest) # {}
    BY <1>12, <1>13, <1>18, CanDispenseIs
  <2>4. handed' + rest = promised'
    BY <1>14, <1>17
  <2>5. Asked'
    BY <1>12, <1>13, <1>15, <1>16, <1>17, <2>1, <2>2, <2>3, <2>4, AskKeeps
  <2>6. QED
    BY <1>15, <1>16, <1>17, <2>5 DEF Keeping
<1>19. CASE rest = 0
  <2>1. stage' = "idle" /\ queue' = <<>> /\ job' = NoJob
    BY <1>3, <1>13, <1>15, <1>19 DEF Answered
  <2>2. handed' = promised'
    BY <1>8, <1>14, <1>17, <1>19
  <2>3. Resting'
    BY <1>15, <1>17, <2>1, <2>2 DEF Resting, NoJob
  <2>4. QED
    BY <1>15, <1>16, <1>17, <2>3 DEF Keeping
<1>20. QED
  BY <1>18, <1>19

\* The offer is what can be given.
LEMMA OfferChangeKeeps == DispenserInv /\ Keeping /\ OfferChange => Keeping'
<1>1. SUFFICES ASSUME DispenserInv, Keeping, OfferChange PROVE Keeping'
  OBVIOUS
<1>2. /\ stage = "idle" /\ available' = CanDispense(count, Leftover)
      /\ stage' = "idle" \/ stage' = "offered"
      /\ UNCHANGED <<unitVars, failed, deviceVars, history>>
  BY <1>1 DEF OfferChange
<1>3. Working /\ Resting
  BY <1>1, <1>2 DEF Keeping, Asked, Answered
<1>4. count \in Contents /\ Leftover \in Nat
  BY <1>1, TypesAre DEF DispenserInv
<1>5. PICK n : n = CanDispense(count, Leftover)
  OBVIOUS
<1>6. Payable(count, n)
  BY <1>3, <1>4, <1>5, FoundIsPayable
<1>7. /\ UNCHANGED <<job, queue, stock, count, handed, promised, unitData, failed, down>>
      /\ available' = n
  BY <1>2, <1>5 DEF unitVars, deviceVars, history
<1>8. Payable(count', available')
  BY <1>6, <1>7
<1>9. Resting'
  BY <1>2, <1>3, <1>7, <1>8 DEF Resting, NoJob, Payable
<1>10. QED
  BY <1>1, <1>7, <1>9 DEF Keeping, Working

\* dispense() of an offer turns to a unit that can serve it.
LEMMA DispenseKeeps == DispenserInv /\ Keeping /\ Dispense => Keeping'
<1>1. SUFFICES ASSUME DispenserInv, Keeping, Dispense PROVE Keeping'
  OBVIOUS
<1>2. PICK sum : sum = available
  OBVIOUS
<1>3. /\ stage = "offered" /\ handed' = 0
      /\ promised' = (IF stage' = "waiting" THEN sum ELSE 0)
      /\ IF Usable(count, sum) = {}
         THEN stage' = "idle" /\ UNCHANGED <<job, queue>>
         ELSE /\ amounts' = IF amounts = NoAmounts
                            THEN [amounts EXCEPT !.toDispensing = sum] ELSE amounts
              /\ Ask(count, sum, queue)
              /\ stage' = "waiting"
      /\ UNCHANGED <<unitData, count, stock, down, failed>>
  BY <1>1, <1>2 DEF Dispense
<1>4. Working /\ Resting /\ sum \in Nat /\ count \in Contents /\ amounts = NoAmounts
  <2>1. Working /\ Resting
    BY <1>1, <1>3 DEF Keeping, Asked, Answered
  <2>2. sum \in Nat /\ count \in Contents
    BY <1>1, <1>2, TypesAre DEF DispenserInv
  <2>3. amounts = NoAmounts
    BY <1>1, <1>3 DEF DispenserInv, NoRequest, Requested, Replied, Silenced
  <2>4. QED
    BY <2>1, <2>2, <2>3
<1>5. Payable(count, sum) /\ job = NoJob /\ queue = <<>> /\ stock = count
  BY <1>2, <1>3, <1>4 DEF Resting
<1>6. Working' /\ \A u \in Units : count'[u] # 0 => unitData'[u] # 0
  BY <1>1, <1>3 DEF Keeping, Working
<1>7. CASE Usable(count, sum) = {}
  <2>1. stage' = "idle" /\ job' = NoJob /\ queue' = <<>> /\ stock' = count' /\ handed' = promised'
    BY <1>3, <1>5, <1>7
  <2>2. Resting'
    BY <2>1 DEF Resting, NoJob
  <2>3. QED
    BY <1>6, <2>2 DEF Keeping
<1>8. CASE Usable(count, sum) # {}
  <2>1. Ask(count, sum, <<>>) /\ stage' = "waiting" /\ promised' = sum
        /\ amounts' = [amounts EXCEPT !.toDispensing = sum]
    BY <1>3, <1>4, <1>5, <1>8
  <2>2. amounts'.toDispensing = sum
    BY <1>4, <2>1 DEF NoAmounts
  <2>3. handed' + sum = promised'
    BY <1>3, <1>4, <2>1
  <2>4. \A u \in Units : count[u] # 0 => unitData'[u] # 0
    BY <1>3, <1>6
  <2>5. count' = count /\ stock' = count
    BY <1>3, <1>5
  <2>6. Asked'
    BY <1>4, <1>5, <1>8, <2>1, <2>2, <2>3, <2>4, <2>5, AskKeeps
  <2>7. QED
    BY <1>6, <2>6 DEF Keeping
<1>9. QED
  BY <1>7, <1>8

\* A unit filled and declared.
LEMMA RefillKeeps ==
    ASSUME DispenserInv, Keeping, NEW u \in Units, Refill(u)
    PROVE  Keeping'
<1>1. /\ stage = "idle" /\ stock' = [stock EXCEPT ![u] = MaxCount]
      /\ count' = [count EXCEPT ![u] = MaxCount] /\ unitData' = count'
      /\ UNCHANGED <<managerVars, deviceVars, promised, handed>>
  BY DEF Refill
<1>2. Resting /\ Working
  BY <1>1 DEF Keeping, Asked, Answered
<1>3. UNCHANGED <<stage, job, queue, failed, down, handed, promised>>
  BY <1>1 DEF managerVars, deviceVars
<1>4. stock' = count'
  BY <1>1, <1>2 DEF Resting
<1>5. Resting'
  BY <1>1, <1>2, <1>3, <1>4 DEF Resting, NoJob
<1>6. QED
  BY <1>1, <1>2, <1>3, <1>5 DEF Keeping, Working

\* A step that leaves request, contents and device alone.
LEMMA SameKeeps ==
    ASSUME Keeping,
           UNCHANGED <<count, unitData, stock, down, failed, job, queue, amounts, available,
                       stage, promised, handed>>
    PROVE  Keeping'
<1>1. Resting => Resting'
  BY DEF Resting, NoJob, Payable
<1>2. Asked => Asked'
  BY DEF Asked, NoJob, Owing, Payable
<1>3. Answered => Answered'
  BY DEF Answered, NoJob, Owing, Payable, AnswerOf
<1>4. QED
  BY <1>1, <1>2, <1>3 DEF Keeping, Working

\* Every step without a failure keeps it; the other signals and actions of the
\* driver do not come without one.
LEMMA KeepingStep ==
    ASSUME DispenserInv, Keeping, [Next]_vars, faults' = faults
    PROVE  Keeping'
<1>1. faults \in Nat
  BY TypesAre DEF DispenserInv
<1>2. ~down /\ \A i \in DOMAIN queue : queue[i].signal = "dispensed"
  <2>1. \A u, k : AnswerOf(u, k).signal = "dispensed"
    BY DEF AnswerOf
  <2>2. \/ queue = <<>>
        \/ \E u \in Units, k \in Nat : queue = <<AnswerOf(u, k)>>
    BY DEF Keeping, Resting, Asked, Answered
  <2>3. ~down
    BY DEF Keeping, Working
  <2>4. QED
    BY <2>1, <2>2, <2>3
<1>3. queue # <<>> => Head(queue).signal = "dispensed"
  <2>1. queue \in Seq(Signals)
    BY TypesAre DEF DispenserInv
  <2>2. queue # <<>> => 1 \in DOMAIN queue /\ Head(queue) = queue[1]
    BY <2>1
  <2>3. QED
    BY <1>2, <2>2
<1>4. CASE SaveNext \/ GiveUpChange
  <2>1. UNCHANGED <<count, unitData, stock, down, failed, job, queue, amounts, available,
                    stage, promised, handed>>
    BY <1>4 DEF SaveNext, SaveUnits, SaveGiven, SaveLedger, GiveUpChange, unitVars,
                managerVars, deviceVars, history
  <2>2. QED
    BY <2>1, SameKeeps
<1>5. CASE Manager
  <2>1. ~OnRejected /\ ~OnUnitEmpty /\ ~OnStatus
    BY <1>3 DEF OnRejected, OnUnitEmpty, OnStatus, Signalled
  <2>2. QED
    BY <1>5, <2>1, OnDispensedKeeps DEF Manager
<1>6. CASE OfferChange \/ Dispense \/ \E u \in Units : Refill(u)
  BY <1>6, OfferChangeKeeps, DispenseKeeps, RefillKeeps
<1>7. CASE Driver
  <2>1. ~GiveAndReject /\ ~Jam /\ ~LoseAnswer /\ ~LoseCommand /\ ~Fail
    <3>1. GiveAndReject \/ Jam \/ LoseAnswer \/ LoseCommand \/ Fail => faults' = faults + 1
      BY DEF GiveAndReject, Jam, LoseAnswer, LoseCommand, DeviceFault, Fail
    <3>2. faults' # faults + 1
      BY <1>1
    <3>3. QED
      BY <3>1, <3>2
  <2>2. ~GiveNothing /\ ~Recover
    BY <1>2, Zenon DEF GiveNothing, Recover
  <2>3. QED
    BY <1>7, <2>1, <2>2, GiveKeeps DEF Driver
<1>8. ~Crash
  BY <1>1 DEF Crash
<1>9. CASE UNCHANGED vars
  <2>1. UNCHANGED <<count, unitData, stock, down, failed, job, queue, amounts, available,
                    stage, promised, handed>>
    BY <1>9 DEF vars, unitVars, managerVars, deviceVars, history
  <2>2. QED
    BY <2>1, SameKeeps
<1>10. QED
  BY <1>4, <1>5, <1>6, <1>7, <1>8, <1>9 DEF Next, Scenario

\* No step takes a failure back.
LEMMA FaultsGrow ==
    ASSUME DispenserInv, [Next]_vars
    PROVE  faults \in Nat /\ (faults' = faults \/ faults' = faults + 1)
<1>1. faults \in Nat
  BY TypesAre DEF DispenserInv
<1>2. CASE SaveNext \/ Manager
  BY <1>1, <1>2 DEF SaveNext, SaveUnits, SaveGiven, SaveLedger, Manager, OnRejected,
                   OnUnitEmpty, OnStatus, OnDispensed, history
<1>3. CASE Scenario
  BY <1>1, <1>3 DEF Scenario, OfferChange, Dispense, GiveUpChange, Refill, history
<1>4. CASE Driver \/ Crash
  BY <1>1, <1>4 DEF Driver, Give, GiveAndReject, Jam, LoseAnswer, LoseCommand, DeviceFault,
                   GiveNothing, Fail, Recover, Crash, history
<1>5. CASE UNCHANGED vars
  BY <1>1, <1>5 DEF vars, history
<1>6. QED
  BY <1>1, <1>2, <1>3, <1>4, <1>5 DEF Next

\* As long as nothing has failed.
Kept == faults = 0 => Keeping

\* Both hold of every behaviour.
LEMMA KeptAlways == Spec => [](DispenserInv /\ Kept)
<1>1. Init => Kept
  <2>1. SUFFICES ASSUME Init, faults = 0 PROVE Keeping
    BY DEF Kept
  <2>2. /\ faults = (IF stock = count THEN 0 ELSE 1)
        /\ unitData = count /\ down = FALSE /\ failed = FALSE /\ job = NoJob /\ queue = <<>>
        /\ stage = "idle" /\ promised = 0 /\ handed = 0
    BY <2>1, Zenon DEF Init
  <2>3. stock = count
    BY <2>1, <2>2
  <2>4. QED
    BY <2>2, <2>3 DEF Keeping, Resting, Working
<1>2. DispenserInv /\ Kept /\ [Next]_vars => Kept'
  <2>1. SUFFICES ASSUME DispenserInv, Kept, [Next]_vars, faults' = 0 PROVE Keeping'
    BY DEF Kept
  <2>2. faults = 0
    BY <2>1, FaultsGrow
  <2>3. QED
    BY <2>1, <2>2, KeepingStep DEF Kept
<1>3. QED
  BY <1>1, <1>2, DispenserInit, DispenserStep, PTL DEF Spec

\* Every variable of the dispenser has its type in every reachable state, the
\* counts within what a unit holds included.
THEOREM DispenserTypes == Spec => []TypeOK
<1>1. DispenserInv => TypeOK
  BY DEF DispenserInv
<1>2. QED
  BY <1>1, DispenserAlways, PTL

\* Whatever comes out beyond what the customers have put in are notes that a reply of
\* the driver left out (an answer lost in performDispense): no jam, rejected note,
\* wrong load, silent driver or stop of the program makes the terminal hand out more.
THEOREM NeverHandsOutMore == Spec => []NeverOverpays
<1>1. DispenserInv => NeverOverpays
  BY GivenCovered DEF NeverOverpays
<1>2. QED
  BY <1>1, DispenserAlways, PTL

\* As long as the program has not stopped, each payout at its end is off the
\* change and in dispensed_note to the last note the driver was told of, also when
\* some replies were lost and the rest was asked for again (onDispensed,
\* onAmountDispensed).
THEOREM PayoutIsRecorded == Spec => []PaidOutIsGiven
<1>1. DispenserInv => PaidOutIsGiven
  <2>1. SUFFICES ASSUME DispenserInv, ~crashed, saves = <<>>, stage = "idle"
                 PROVE  paidOut = given /\ booked = given
    BY DEF PaidOutIsGiven, Idle
  <2>2. NoRequest
    BY <2>1 DEF DispenserInv, Requested, Replied, Silenced
  <2>3. given = Known /\ Known = paidOut
    BY <2>1, <2>2, TypesAre DEF NoRequest, Known, NoAmounts, DispenserInv
  <2>4. booked = Known
    BY <2>1, OneAndTwo DEF DispenserInv, Booking
  <2>5. QED
    BY <2>3, <2>4
<1>2. QED
  BY <1>1, DispenserAlways, PTL

\* No note is ever forgotten in a unit: the contents the manager knows of, and
\* those in the database, are at least the notes that are there.
THEOREM NotesAreKnown == Spec => []NoNoteForgotten
<1>1. DispenserInv => NoNoteForgotten
  BY DEF DispenserInv, Counting, NoNoteForgotten
<1>2. QED
  BY <1>1, DispenserAlways, PTL

\* With honest counts and a device that works the customer is given what
\* canDispense has offered, to the last note, from however many units it takes:
\* what is left after each portion is again a sum that canDispense finds whole
\* (canDispense, dispense, onDispensed).
THEOREM WholeOfferIsGiven == Spec => []PromiseKept
<1>1. DispenserInv /\ Kept => PromiseKept
  BY DEF Kept, Keeping, Resting, Asked, Answered, PromiseKept
<1>2. QED
  BY <1>1, KeptAlways, PTL

=============================================================================
