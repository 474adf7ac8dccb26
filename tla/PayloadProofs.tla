---------------------------- MODULE PayloadProofs ----------------------------
(***************************************************************************)
(* Theorems about task payloads of any length, over any characters and for *)
(* any limits: the byte scan of an address is right, and producer and      *)
(* worker agree.                                                           *)
(*                                                                         *)
(* What a scan computes is shown by induction along the text.  The library *)
(* states induction for a predicate, here it is needed, and proved from    *)
(* the well-foundedness of the naturals, for a set.                        *)
(***************************************************************************)
EXTENDS Payloads, WellFoundedInduction, TLAPS

(* Induction: a set that holds 0, and n whenever it holds n - 1, holds all  *)
(* the numbers up to N.                                                     *)
LEMMA IntervalInduction ==
  ASSUME NEW N \in Nat, NEW T, 0 \in T, \A n \in 1..N : n - 1 \in T => n \in T
  PROVE  0..N \subseteq T
<1> DEFINE Rest == {n \in 0..N : n \notin T}
<1>1. SUFFICES ASSUME Rest # {} PROVE FALSE
  OBVIOUS
<1>2. Rest \subseteq Nat
  OBVIOUS
<1>3. PICK x \in Rest : \A y \in Rest : ~(<<y, x>> \in OpToRel(<, Nat))
  BY <1>1, <1>2, NatLessThanWellFounded, WFMin
<1>4. \A y \in Rest : ~(y < x)
  BY <1>2, <1>3 DEF OpToRel
<1>5. x \in 1..N /\ x - 1 \in 0..N /\ x - 1 < x
  OBVIOUS
<1>6. x - 1 \in T
  BY <1>4, <1>5
<1>7. QED
  BY <1>5, <1>6

(* Recursion: a function that is given by its value at 0 and by what it     *)
(* makes of each value the next, exists.                                    *)
LEMMA Recursion ==
  ASSUME NEW V, NEW base \in V, NEW N \in Nat, NEW step \in [1..N -> [V -> V]]
  PROVE  \E s \in [0..N -> V] :
           s[0] = base /\ \A n \in 1..N : s[n] = step[n][s[n - 1]]
<1> DEFINE Good(k, s) ==
             /\ s \in [0..k -> V]
             /\ s[0] = base
             /\ \A n \in 1..k : s[n] = step[n][s[n - 1]]
           T == {k \in 0..N : \E s : Good(k, s)}
<1>1. 0 \in T
  <2>1. Good(0, [n \in 0..0 |-> base])
    OBVIOUS
  <2>2. 0 \in 0..N
    OBVIOUS
  <2> HIDE DEF Good
  <2>3. QED
    BY <2>1, <2>2
<1>2. ASSUME NEW k \in 1..N, k - 1 \in T PROVE k \in T
  <2>1. PICK s : Good(k - 1, s)
    BY <1>2
  <2> DEFINE next == step[k][s[k - 1]]
             t == [n \in 0..k |-> IF n = k THEN next ELSE s[n]]
  <2>2. next \in V
    BY <2>1
  <2>3. t \in [0..k -> V] /\ t[0] = base
    BY <2>1, <2>2
  <2>4. ASSUME NEW n \in 1..k PROVE t[n] = step[n][t[n - 1]]
    <3>1. t[n - 1] = s[n - 1]
      OBVIOUS
    <3>2. CASE n = k
      <4>1. t[n] = next
        BY <3>2
      <4>2. t[n - 1] = s[k - 1]
        BY <3>1, <3>2
      <4>3. QED
        BY <3>2, <4>1, <4>2
    <3>3. CASE n # k
      <4>1. n \in 1..(k - 1) /\ t[n] = s[n]
        BY <3>3
      <4>2. s[n] = step[n][s[n - 1]]
        BY <2>1, <4>1
      <4>3. QED
        BY <3>1, <4>1, <4>2
    <3>4. QED
      BY <3>2, <3>3
  <2> HIDE DEF t
  <2>5. Good(k, t)
    BY <2>3, <2>4
  <2>6. QED
    BY <2>5
<1> HIDE DEF T
<1>3. N \in T
  <2>1. 0..N \subseteq T
    BY <1>1, <1>2, IntervalInduction
  <2>2. N \in 0..N
    OBVIOUS
  <2>3. QED
    BY <2>1, <2>2
<1>4. QED
  BY <1>3 DEF T

-----------------------------------------------------------------------------
Chars == DOMAIN Width

LEMMA Texts ==
  ASSUME NEW text \in Seq(Chars)
  PROVE  /\ Len(text) \in Nat
         /\ DOMAIN text = 1..Len(text)
         /\ \A n \in 1..Len(text) : text[n] \in Chars /\ Width[text[n]] \in 1..4
  BY PayloadAssumption DEF Chars

(* Where characters begin: each as far behind the one before as that is wide. *)
LEMMA BeginsRecursion ==
  ASSUME NEW text \in Seq(Chars)
  PROVE  /\ Begins(text) \in [0..Len(text) -> Nat]
         /\ Begins(text)[0] = 0
         /\ \A n \in 1..Len(text) : Begins(text)[n] = Begins(text)[n - 1] + Width[text[n]]
<1> DEFINE N == Len(text)
           V == Nat
           base == 0
           step == [n \in 1..N |-> [begin \in V |-> begin + Width[text[n]]]]
           Defines(b) == b = [n \in 0..N |-> IF n = 0 THEN 0 ELSE b[n - 1] + Width[text[n]]]
<1>1. N \in Nat /\ \A n \in 1..N : Width[text[n]] \in 1..4
  BY Texts
<1>0. N \in Nat
  BY <1>1
<1>2. \A n \in 1..N, begin \in Nat : begin + Width[text[n]] \in Nat
  BY <1>1
<1> HIDE DEF N
<1>3. step \in [1..N -> [V -> V]] /\ base \in V
  BY <1>2
<1> HIDE DEF step, base, V
<1>4. \E b : Defines(b)
  <2>1. PICK b \in [0..N -> V] : b[0] = base /\ \A n \in 1..N : b[n] = step[n][b[n - 1]]
    BY <1>0, <1>3, Recursion
  <2>2. \A n \in 1..N : b[n] = b[n - 1] + Width[text[n]]
    <3>1. \A n \in 1..N : b[n - 1] \in V
      BY <1>1, <2>1
    <3>2. QED
      BY <2>1, <3>1 DEF step
  <2>3. b = [n \in 0..N |-> b[n]]
    BY <2>1
  <2>4. \A n \in 0..N : n = 0 \/ n \in 1..N
    BY <1>1
  <2>5. \A n \in 0..N : b[n] = IF n = 0 THEN 0 ELSE b[n - 1] + Width[text[n]]
    BY <2>1, <2>2, <2>4 DEF base
  <2>6. Defines(b)
    BY <2>3, <2>5, Zenon
  <2>7. QED
    BY <2>6
<1>5. Defines(CHOOSE b : Defines(b))
  BY <1>4, Zenon
<1>6. Begins(text) = CHOOSE b : Defines(b)
  BY Zenon DEF Begins, N
<1>7. Defines(Begins(text))
  BY <1>5, <1>6, Zenon
<1>8. /\ Begins(text)[0] = 0
      /\ \A n \in 1..N : Begins(text)[n] = Begins(text)[n - 1] + Width[text[n]]
      /\ DOMAIN Begins(text) = 0..N
      /\ Begins(text) = [n \in 0..N |-> Begins(text)[n]]
  <2> DEFINE b == Begins(text)
  <2>1. Defines(b)
    BY <1>7
  <2> HIDE DEF b
  <2>2. \A n \in 0..N : b[n] = IF n = 0 THEN 0 ELSE b[n - 1] + Width[text[n]]
    BY <2>1, Zenon
  <2>3. b[0] = 0 /\ \A n \in 1..N : b[n] = b[n - 1] + Width[text[n]]
    <3>1. 0 \in 0..N /\ \A n \in 1..N : n \in 0..N /\ n # 0
      BY <1>1
    <3>2. QED
      BY <2>2, <3>1
  <2>4. DOMAIN b = 0..N
    BY <2>1
  <2>5. b = [n \in 0..N |-> b[n]]
    BY <2>1, <2>4
  <2>6. QED
    BY <2>3, <2>4, <2>5 DEF b
<1> DEFINE T == {n \in 0..N : Begins(text)[n] \in Nat}
<1>9. 0..N \subseteq T
  <2>1. 0 \in T
    BY <1>1, <1>8
  <2>2. ASSUME NEW n \in 1..N, n - 1 \in T PROVE n \in T
    <3>1. Begins(text)[n - 1] \in Nat /\ n \in 0..N
      BY <1>1, <2>2
    <3>2. Width[text[n]] \in Nat
      BY <1>1
    <3>3. Begins(text)[n] = Begins(text)[n - 1] + Width[text[n]]
      BY <1>8
    <3>4. QED
      BY <3>1, <3>2, <3>3
  <2> HIDE DEF T
  <2>3. QED
    BY <1>1, <2>1, <2>2, IntervalInduction
<1>10. QED
  BY <1>8, <1>9 DEF N

(* A later character begins at a later byte. *)
LEMMA BeginsGrow ==
  ASSUME NEW text \in Seq(Chars), NEW i \in 0..Len(text), NEW j \in 0..Len(text), i < j
  PROVE  Begins(text)[i] < Begins(text)[j]
<1> DEFINE N == Len(text)
           b == Begins(text)
           T == {n \in 0..N : i < n => b[i] < b[n]}
<1>1. /\ N \in Nat
      /\ b \in [0..N -> Nat]
      /\ \A n \in 1..N : b[n] = b[n - 1] + Width[text[n]] /\ Width[text[n]] \in 1..4
  BY Texts, BeginsRecursion
<1> HIDE DEF N, b
<1>2. 0 \in T
  BY <1>1 DEF N
<1>3. ASSUME NEW n \in 1..N, n - 1 \in T PROVE n \in T
  <2>1. b[n - 1] \in Nat /\ b[n] \in Nat /\ b[n - 1] < b[n]
    <3>1. n - 1 \in 0..N /\ n \in 0..N
      BY <1>1
    <3>2. b[n - 1] \in Nat /\ b[n] \in Nat
      BY <1>1, <3>1
    <3>3. Width[text[n]] \in 1..4 /\ b[n] = b[n - 1] + Width[text[n]]
      BY <1>1
    <3>4. QED
      BY <3>2, <3>3
  <2>2. b[i] \in Nat /\ i \in Nat
    BY <1>1 DEF N
  <2>3. i < n => i = n - 1 \/ i < n - 1
    BY <2>2
  <2>4. QED
    BY <1>3, <2>1, <2>2, <2>3
<1> HIDE DEF T
<1>4. j \in T
  BY <1>1, <1>2, <1>3, IntervalInduction DEF N
<1>5. QED
  BY <1>4 DEF T, b

-----------------------------------------------------------------------------
ScanStates == [byte : Nat, at : Nat \cup {-1}, twice : BOOLEAN]

(* The scan starts and goes on as Scan says, from state to state. *)
LEMMA ScanType ==
  /\ ScanStart \in ScanStates
  /\ \A st \in ScanStates, c \in Chars : Scan(st, c) \in ScanStates
<1>1. \A c \in Chars : Width[c] \in 1..4
  BY PayloadAssumption DEF Chars
<1>2. ASSUME NEW st \in ScanStates, NEW c \in Chars PROVE Scan(st, c) \in ScanStates
  <2>1. st.byte + Width[c] \in Nat
    BY <1>1 DEF ScanStates
  <2>2. (IF c = At /\ st.at = -1 THEN st.byte ELSE st.at) \in Nat \cup {-1}
    BY DEF ScanStates
  <2>3. (st.twice \/ (c = At /\ st.at # -1)) \in BOOLEAN
    OBVIOUS
  <2>4. QED
    BY <2>1, <2>2, <2>3 DEF Scan, ScanStates
<1>3. QED
  BY <1>2 DEF ScanStart, ScanStates

LEMMA ScanFields ==
  ASSUME NEW st, NEW c
  PROVE  /\ Scan(st, c).byte = st.byte + Width[c]
         /\ Scan(st, c).at = IF c = At /\ st.at = -1 THEN st.byte ELSE st.at
         /\ Scan(st, c).twice <=> st.twice \/ (c = At /\ st.at # -1)
<1>1. Scan(st, c).byte = st.byte + Width[c]
  BY DEF Scan
<1>2. Scan(st, c).at = IF c = At /\ st.at = -1 THEN st.byte ELSE st.at
  BY DEF Scan
<1>3. Scan(st, c).twice <=> st.twice \/ (c = At /\ st.at # -1)
  BY Zenon DEF Scan
<1>4. QED
  BY <1>1, <1>2, <1>3

LEMMA ScansRecursion ==
  ASSUME NEW text \in Seq(Chars)
  PROVE  /\ Scans(text) \in [0..Len(text) -> ScanStates]
         /\ Scans(text)[0] = ScanStart
         /\ \A n \in 1..Len(text) : Scans(text)[n] = Scan(Scans(text)[n - 1], text[n])
<1> DEFINE N == Len(text)
           step == [n \in 1..N |-> [st \in ScanStates |-> Scan(st, text[n])]]
           Defines(s) == s = [n \in 0..N |-> IF n = 0 THEN ScanStart ELSE Scan(s[n - 1], text[n])]
<1>1. N \in Nat
  BY Texts
<1>2. \A n \in 1..N : text[n] \in Chars
  BY Texts
<1> HIDE DEF N
<1>3. step \in [1..N -> [ScanStates -> ScanStates]]
  BY <1>2, ScanType
<1>4. ScanStart \in ScanStates
  BY ScanType
<1> HIDE DEF step
<1>5. \E s : Defines(s)
  <2>1. PICK s \in [0..N -> ScanStates] :
          s[0] = ScanStart /\ \A n \in 1..N : s[n] = step[n][s[n - 1]]
    BY <1>1, <1>3, <1>4, Recursion, SMTT(60)
  <2>2. \A n \in 1..N : s[n] = Scan(s[n - 1], text[n])
    <3>1. \A n \in 1..N : s[n - 1] \in ScanStates
      BY <1>1, <2>1
    <3>2. QED
      BY <2>1, <3>1 DEF step
  <2>3. s = [n \in 0..N |-> s[n]]
    BY <2>1
  <2>4. \A n \in 0..N : n = 0 \/ n \in 1..N
    BY <1>1
  <2>5. \A n \in 0..N : s[n] = IF n = 0 THEN ScanStart ELSE Scan(s[n - 1], text[n])
    BY <2>1, <2>2, <2>4
  <2>6. QED
    BY <2>3, <2>5, Zenon
<1>6. Defines(CHOOSE s : Defines(s))
  BY <1>5, Zenon
<1>7. Scans(text) = CHOOSE s : Defines(s)
  BY Zenon DEF Scans, N
<1> DEFINE s == Scans(text)
<1>8. Defines(s)
  BY <1>6, <1>7, Zenon
<1> HIDE DEF s
<1>9. \A n \in 0..N : s[n] = IF n = 0 THEN ScanStart ELSE Scan(s[n - 1], text[n])
  BY <1>8, Zenon
<1>10. s[0] = ScanStart /\ \A n \in 1..N : s[n] = Scan(s[n - 1], text[n])
  <2>1. 0 \in 0..N /\ \A n \in 1..N : n \in 0..N /\ n # 0
    BY <1>1
  <2>2. QED
    BY <1>9, <2>1
<1>11. \A n \in 0..N : s[n] \in ScanStates
  <2> DEFINE T == {n \in 0..N : s[n] \in ScanStates}
  <2>1. 0 \in T
    BY <1>1, <1>4, <1>10
  <2>2. ASSUME NEW n \in 1..N, n - 1 \in T PROVE n \in T
    <3>1. s[n - 1] \in ScanStates /\ n \in 0..N
      BY <1>1, <2>2
    <3>2. QED
      BY <1>2, <1>10, <3>1, ScanType
  <2> HIDE DEF T
  <2>3. 0..N \subseteq T
    BY <1>1, <2>1, <2>2, IntervalInduction
  <2>4. QED
    BY <2>3 DEF T
<1>12. s \in [0..N -> ScanStates]
  <2>1. DOMAIN s = 0..N /\ s = [n \in DOMAIN s |-> s[n]]
    BY <1>8
  <2>2. QED
    BY <1>11, <2>1
<1>13. QED
  BY <1>10, <1>12 DEF N, s

(* What the scan knows after n characters: where the first @ among them     *)
(* begins, if there is one, and whether another follows it.                 *)
FirstAt(text, n, k) == k \in 1..n /\ text[k] = At /\ \A j \in 1..(k - 1) : text[j] # At

Knows(text, n) ==
  LET st == Scans(text)[n]
  IN  /\ st.byte = Begins(text)[n]
      /\ \/ st.at = -1 /\ ~st.twice /\ \A j \in 1..n : text[j] # At
         \/ \E k \in 1..n :
              /\ FirstAt(text, n, k)
              /\ st.at = Begins(text)[k - 1]
              /\ st.twice <=> \E j \in (k + 1)..n : text[j] = At

LEMMA ScanKnows ==
  ASSUME NEW text \in Seq(Chars)
  PROVE  Knows(text, Len(text))
<1> DEFINE N == Len(text)
           b == Begins(text)
           s == Scans(text)
           T == {n \in 0..N : Knows(text, n)}
<1>1. N \in Nat
  BY Texts
<1>2. b \in [0..N -> Nat] /\ b[0] = 0 /\ \A n \in 1..N : b[n] = b[n - 1] + Width[text[n]]
  BY BeginsRecursion
<1>3. s \in [0..N -> ScanStates] /\ s[0] = ScanStart /\ \A n \in 1..N : s[n] = Scan(s[n - 1], text[n])
  BY ScansRecursion
<1>4. 0 \in T
  BY <1>1, <1>2, <1>3 DEF Knows, ScanStart
<1>5. ASSUME NEW n \in 1..N, n - 1 \in T PROVE n \in T
  <2> DEFINE st == s[n - 1]
             c == text[n]
  <2>1. /\ s[n].byte = st.byte + Width[c]
        /\ s[n].at = IF c = At /\ st.at = -1 THEN st.byte ELSE st.at
        /\ s[n].twice <=> (st.twice \/ (c = At /\ st.at # -1))
    <3>1. s[n] = Scan(st, c)
      BY <1>3
    <3>2. QED
      BY <3>1, ScanFields
  <2>2. Knows(text, n - 1)
    BY <1>5
  <2>3. st.byte = b[n - 1] /\ b[n - 1] \in Nat /\ n \in Nat \ {0} /\ n - 1 \in Nat
    BY <1>1, <1>2, <2>2 DEF Knows
  <2>4. s[n].byte = b[n]
    BY <1>2, <2>1, <2>3
  <2>5. 1..n = 1..(n - 1) \cup {n}
    BY <2>3
  <2>6. CASE st.at = -1 /\ ~st.twice /\ \A j \in 1..(n - 1) : text[j] # At
    <3>1. CASE c = At
      <4>1. s[n].at = b[n - 1] /\ ~s[n].twice
        BY <2>1, <2>3, <2>6, <3>1
      <4>2. FirstAt(text, n, n)
        BY <2>3, <2>6, <3>1 DEF FirstAt
      <4>3. ~ \E j \in (n + 1)..n : text[j] = At
        BY <2>3
      <4>4. QED
        BY <1>1, <2>3, <2>4, <4>1, <4>2, <4>3 DEF Knows
    <3>2. CASE c # At
      <4>1. s[n].at = -1 /\ ~s[n].twice
        BY <2>1, <2>6, <3>2
      <4>2. \A j \in 1..n : text[j] # At
        BY <2>5, <2>6, <3>2
      <4>3. QED
        BY <1>1, <2>4, <4>1, <4>2 DEF Knows
    <3>3. QED
      BY <3>1, <3>2
  <2>7. ASSUME NEW k \in 1..(n - 1), FirstAt(text, n - 1, k), st.at = b[k - 1],
               st.twice <=> \E j \in (k + 1)..(n - 1) : text[j] = At
        PROVE  n \in T
    <3>1. b[k - 1] \in Nat /\ k \in 1..n
      BY <1>1, <1>2, <2>3
    <3>2. s[n].at = b[k - 1] /\ (s[n].twice <=> st.twice \/ c = At)
      <4>1. st.at # -1
        BY <2>7, <3>1
      <4> HIDE DEF s, st, c
      <4>2. QED
        BY <2>1, <2>7, <4>1
    <3>3. FirstAt(text, n, k)
      BY <2>7, <3>1 DEF FirstAt
    <3>4. (k + 1)..n = (k + 1)..(n - 1) \cup {n}
      BY <2>3
    <3>5. s[n].twice <=> \E j \in (k + 1)..n : text[j] = At
      BY <2>7, <3>2, <3>4
    <3>6. QED
      BY <1>1, <2>4, <3>1, <3>2, <3>3, <3>5 DEF Knows
  <2>8. QED
    BY <2>2, <2>6, <2>7 DEF Knows
<1> HIDE DEF T
<1>6. 0..N \subseteq T
  BY <1>1, <1>4, <1>5, IntervalInduction
<1>7. QED
  BY <1>1, <1>6 DEF T

(* The scan finds exactly the addresses. *)
LEMMA ScanFindsAddresses ==
  ASSUME NEW text \in Seq(Chars)
  PROVE  isValidEmail(text) <=> Address(text)
<1> DEFINE N == Len(text)
           b == Begins(text)
           st == Scans(text)[N]
           Ats == {j \in 1..N : text[j] = At}
<1>1. N \in Nat /\ DOMAIN text = 1..N
  BY Texts
<1>2. /\ b \in [0..N -> Nat] /\ b[0] = 0
      /\ \A n \in 1..N : b[n] = b[n - 1] + Width[text[n]]
  BY BeginsRecursion
<1>3. \A i, j \in 0..N : i < j => b[i] < b[j]
  BY BeginsGrow
<1>4. Knows(text, N)
  BY ScanKnows
<1>5. Bytes(text) = b[N] /\ b[N] \in Nat
  BY <1>1, <1>2 DEF Bytes
<1>6. After(text, st.at) = {i \in 1..N : b[i - 1] > st.at}
  BY <1>1 DEF After
<1>7. ASSUME isValidEmail(text) PROVE Address(text)
  <2>1. /\ b[N] \in MinEmail..MaxEmail
        /\ ~st.twice
        /\ st.at \in 1..(b[N] - 2)
        /\ \E i \in 1..N : b[i - 1] > st.at /\ text[i] = Dot
    BY <1>5, <1>6, <1>7 DEF isValidEmail
  <2>2. PICK k \in 1..N : /\ FirstAt(text, N, k)
                          /\ st.at = b[k - 1]
                          /\ ~ \E j \in (k + 1)..N : text[j] = At
    BY <1>4, <2>1 DEF Knows
  <2>3. Ats = {k}
    BY <1>1, <2>2 DEF FirstAt
  <2>4. k # 1
    BY <1>2, <2>1, <2>2
  <2>5. PICK i \in 1..N : b[i - 1] > b[k - 1] /\ text[i] = Dot
    BY <2>1, <2>2
  <2>6. i > k
    <3>1. i - 1 \in 0..N /\ k - 1 \in 0..N /\ b[i - 1] \in Nat /\ b[k - 1] \in Nat
      BY <1>1, <1>2
    <3>2. ~(i - 1 < k - 1) /\ i - 1 # k - 1
      BY <1>3, <2>5, <3>1
    <3>3. QED
      BY <1>1, <3>2
  <2>7. k \in 2..(N - 1) /\ i \in (k + 1)..N
    BY <1>1, <2>4, <2>6
  <2>8. QED
    BY <1>1, <1>5, <2>1, <2>3, <2>5, <2>7 DEF Address
<1>8. ASSUME Address(text) PROVE isValidEmail(text)
  <2>1. PICK i \in 2..(N - 1) : Ats = {i} /\ \E j \in (i + 1)..N : text[j] = Dot
    BY <1>1, <1>8 DEF Address
  <2>2. PICK j \in (i + 1)..N : text[j] = Dot
    BY <2>1
  <2>3. i \in 1..N /\ text[i] = At /\ \A k \in 1..N : text[k] = At => k = i
    BY <1>1, <2>1
  <2>4. st.at = b[i - 1] /\ ~st.twice
    <3>1. PICK k \in 1..N : /\ FirstAt(text, N, k)
                            /\ st.at = b[k - 1]
                            /\ st.twice <=> \E m \in (k + 1)..N : text[m] = At
      BY <1>4, <2>3 DEF Knows
    <3>2. k = i
      BY <2>3, <3>1 DEF FirstAt
    <3>3. \A m \in (k + 1)..N : m \in 1..N /\ m # i
      BY <1>1, <3>2
    <3>4. QED
      BY <2>3, <3>1, <3>2, <3>3
  <2>5. /\ 0 \in 0..N /\ i - 1 \in 0..N /\ i \in 0..N /\ N \in 0..N /\ j - 1 \in 0..N
        /\ 0 < i - 1 /\ i - 1 < i /\ i < N /\ i - 1 < j - 1
        /\ j \in 1..N
    BY <1>1
  <2>6. /\ b[i - 1] \in Nat /\ b[i] \in Nat /\ b[j - 1] \in Nat
        /\ 0 < b[i - 1] /\ b[i] < b[N] /\ b[i - 1] < b[j - 1]
    BY <1>2, <1>3, <2>5
  <2>7. b[i] = b[i - 1] + 1
    BY <1>2, <2>3, PayloadAssumption
  <2>8. st.at \in 1..(b[N] - 2)
    BY <1>5, <2>4, <2>6, <2>7
  <2>9. j \in After(text, st.at) /\ text[j] = Dot
    BY <1>6, <2>2, <2>4, <2>5, <2>6
  <2>10. Bytes(text) \in MinEmail..MaxEmail
    BY <1>8 DEF Address
  <2>11. QED
    BY <1>5, <2>4, <2>8, <2>9, <2>10 DEF isValidEmail
<1>9. QED
  BY <1>7, <1>8

-----------------------------------------------------------------------------
(* A payload reached a stage because of what its checks said of it. *)
PathInv ==
  /\ payload \in Payloads
  /\ stage \in {"sent", "refused", "queued", "rejected", "running"}
  /\ stage = "refused" => ~ValidateTaskPayload(payload)
  /\ stage = "queued" => ValidateTaskPayload(payload)
  /\ stage # "rejected"

(* What the producer lets in, the handler of its type accepts. *)
LEMMA SameChecks ==
  ASSUME NEW p \in Payloads
  PROVE  /\ ValidateTaskPayload(p) => ProcessTask(p)
         /\ p.task \in {"send_email", "generate_report", "process_order"} /\ ProcessTask(p)
              => ValidateTaskPayload(p)
  BY PayloadAssumption DEF ValidateTaskPayload, ProcessTask

LEMMA PathAlways == Spec => []PathInv
<1>1. Init => PathInv
  BY DEF Init, PathInv
<1>2. PathInv /\ [Next]_vars => PathInv'
  <2> SUFFICES ASSUME PathInv, [Next]_vars PROVE PathInv'
    OBVIOUS
  <2>1. payload' = payload
    BY DEF Next, Enqueue, Process, vars
  <2>2. ValidateTaskPayload(payload)' = ValidateTaskPayload(payload)
    BY <2>1 DEF ValidateTaskPayload, ValidEmail, ValidReport, ValidOrder
  <2>3. CASE Enqueue
    BY <2>1, <2>2, <2>3 DEF Enqueue, PathInv
  <2>4. CASE Process
    BY <2>1, <2>2, <2>4, SameChecks DEF Process, PathInv
  <2>5. CASE UNCHANGED vars
    BY <2>2, <2>5 DEF PathInv, vars
  <2>6. QED
    BY <2>3, <2>4, <2>5 DEF Next
<1>3. QED
  BY <1>1, <1>2, PTL DEF Spec

(* isValidEmail accepts exactly the texts with one @, something before it   *)
(* and a dot after it, within the limits: for texts of any length and       *)
(* characters of any width.                                                 *)
THEOREM AddressesAreFound == Spec => []AddressesFound
<1>1. PathInv => AddressesFound
  BY PayloadAssumption, ScanFindsAddresses DEF PathInv, AddressesFound, IsEmail, Chars
<1>2. QED
  BY <1>1, PathAlways, PTL

(* ValidateTaskPayload and the handlers' own checks agree.                  *)
THEOREM SidesAgree == Spec => []BothSidesAgree
<1>1. PathInv => BothSidesAgree
  BY SameChecks DEF PathInv, BothSidesAgree
<1>2. QED
  BY <1>1, PathAlways, PTL
=============================================================================
