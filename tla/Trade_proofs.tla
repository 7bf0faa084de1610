---------------------------- MODULE Trade_proofs ----------------------------
(***************************************************************************)
(* Trades keep the goods: with up to three players, nothing is in two      *)
(* places and no credit is made or destroyed; where it is saved, all of it *)
(* is; and nothing is lost while those who confirm have room for what      *)
(* comes.  What an instance needs for this is in Given.                    *)
(***************************************************************************)
EXTENDS Trade, FiniteSetTheorems, SequenceTheorems, TLAPS

\* The players, in some order; less than three are named twice.
Trio == CHOOSE t \in Players \X Players \X Players : Players = {t[1], t[2], t[3]}
First  == Trio[1]
Second == Trio[2]
Third  == Trio[3]

\* All the credits.
Total == StartCredits * Cardinality(Players)

\* Saves are kept for a server that may crash.
Keep == MaxCrashes # 0

\* At most three players.  The things they trade, the slots of a hold and of a window
\* and the credits are any; where saves are kept, there are two logins, and only there
\* may things be picked up and windows emptied for a new trade.
Given ==
    /\ TradeAssumption
    /\ \E a, b, c : Players = {a, b, c}
    /\ Keep => MaxLogins = 2
    /\ ~Keep => ~Slash /\ ~Loot

\* What the proofs take of it: the players in their order, and the bounds.
Setting ==
    /\ Players = {First, Second, Third} /\ None \notin Players
    /\ IsFiniteSet(Items)
    /\ CargoSpace \in Nat /\ Slots \in Nat /\ Total \in Nat /\ MaxLogins \in Nat
    /\ Keep \in BOOLEAN /\ (Keep => MaxLogins = 2) /\ (~Keep => ~Slash /\ ~Loot)
    /\ MaxCrashes \in Nat

\* What is given is a setting.
LEMMA GivenSets ==
    ASSUME Given PROVE Setting
<1>1. PICK a, b, c : Players = {a, b, c}
  BY DEF Given
<1>2. Players = {First, Second, Third}
  <2>1. \E t \in Players \X Players \X Players : Players = {t[1], t[2], t[3]}
    <3>1. <<a, b, c>> \in Players \X Players \X Players
      BY <1>1
    <3> QED
      BY <1>1, <3>1
  <2>2. Players = {Trio[1], Trio[2], Trio[3]}
    BY <2>1 DEF Trio
  <2> QED
    BY <2>2 DEF First, Second, Third
<1>3. Total \in Nat
  <2>1. Cardinality(Players) \in Nat
    <3>1. IsFiniteSet(({a} \cup {b}) \cup {c})
      BY FS_Singleton, FS_AddElement
    <3>2. Players = ({a} \cup {b}) \cup {c}
      BY <1>1
    <3> QED
      BY <3>1, <3>2, FS_CardinalityType
  <2>2. StartCredits \in Nat
    BY DEF Given, TradeAssumption
  <2>3. \A i, j \in Nat : i * j \in Nat
    OBVIOUS
  <2> QED
    BY <2>1, <2>2, <2>3 DEF Total
<1>4. /\ None \notin Players /\ IsFiniteSet(Items)
      /\ CargoSpace \in Nat /\ Slots \in Nat /\ MaxLogins \in Nat /\ MaxCrashes \in Nat
  BY DEF Given, TradeAssumption
<1>5. Keep \in BOOLEAN /\ (Keep => MaxLogins = 2) /\ (~Keep => ~Slash /\ ~Loot)
  BY DEF Given, Keep
<1> QED
  BY <1>2, <1>3, <1>4, <1>5 DEF Setting

\* The sum of f over the players.
TotalOf(f) ==
    f[First] + (IF Second = First THEN 0 ELSE f[Second])
      + (IF Third \in {First, Second} THEN 0 ELSE f[Third])

\* What players may have.
Holdings ==
    [cargo : [Players -> SUBSET Items], offer : [Players -> SUBSET Items],
     credits : [Players -> 0..Total]]
\* Holds and windows have their slots.
Fitting(m) ==
    \A p \in Players : Cardinality(m.cargo[p]) <= CargoSpace /\ Cardinality(m.offer[p]) <= Slots

\* What the players may have, with all the credits there are unless some payment
\* has been saved by halves.
Books(halves) ==
    {m \in Holdings : Fitting(m) /\ (halves \/ TotalOf(m.credits) = Total)}

\* Nothing is in two places.
Single(m) ==
    \A p, q \in Players :
        /\ m.cargo[p] \cap m.offer[q] = {}
        /\ p # q => m.cargo[p] \cap m.cargo[q] = {} /\ m.offer[p] \cap m.offer[q] = {}

\* None of X or one of it.
Ones(X) == {{}} \cup {{x} : x \in X}

\* p puts out into the window and takes in back: k is saved, then n.
Swap(m, p, out, in, k, n) ==
    /\ out \in Ones(m.cargo[p]) /\ in \in Ones(m.offer[p])
    /\ out = {} => CargoSpace - Cardinality(m.cargo[p]) > 0
    /\ in = {} => Cardinality(m.offer[p]) < Slots
    /\ k = [m EXCEPT !.cargo[p] = (@ \ out) \cup in]
    /\ n = [k EXCEPT !.offer[p] = (@ \ in) \cup out]

\* p gets y and gives x.
Pays(m, p, y, x) == [m EXCEPT !.credits[p] = @ + y - x]

\* Of finitely many things one has finitely many.
LEMMA Finite ==
    ASSUME Setting, NEW X \in SUBSET Items
    PROVE  IsFiniteSet(X) /\ Cardinality(X) \in Nat
BY FS_Subset, FS_CardinalityType DEF Setting

\* The smaller of two numbers.
LEMMA SmallestOfTwo ==
    ASSUME NEW i \in Int, NEW j \in Int
    PROVE  Min({i, j}) = IF i <= j THEN i ELSE j
BY DEF Min

\* One out, one in.
LEMMA SwapSize ==
    ASSUME NEW X, IsFiniteSet(X), NEW n \in Nat, Cardinality(X) <= n,
           NEW Y, NEW out \in Ones(X), NEW in \in Ones(Y), out = {} => Cardinality(X) < n
    PROVE  Cardinality((X \ out) \cup in) <= n
<1>1. Cardinality(X) \in Nat
  BY FS_CardinalityType
<1>2. /\ IsFiniteSet(X \ out) /\ Cardinality(X \ out) \in Nat
      /\ Cardinality(X \ out) = IF out = {} THEN Cardinality(X) ELSE Cardinality(X) - 1
  <2>1. CASE out = {}
    <3>1. X \ out = X
      BY <2>1
    <3> QED
      BY <1>1, <2>1, <3>1
  <2>2. CASE out # {}
    <3>1. PICK x \in X : out = {x}
      BY <2>2 DEF Ones
    <3>2. IsFiniteSet(X \ {x}) /\ Cardinality(X \ {x}) = Cardinality(X) - 1
      BY <3>1, FS_RemoveElement
    <3>3. Cardinality(X \ {x}) \in Nat
      BY <3>2, FS_CardinalityType
    <3> QED
      BY <2>2, <3>1, <3>2, <3>3
  <2> QED
    BY <2>1, <2>2
<1>3. Cardinality((X \ out) \cup in) <= Cardinality(X \ out) + 1
  <2>1. CASE in = {}
    <3>1. (X \ out) \cup in = X \ out
      BY <2>1
    <3>2. \A j \in Nat : j <= j + 1
      OBVIOUS
    <3>3. Cardinality(X \ out) <= Cardinality(X \ out) + 1
      BY <1>2, <3>2
    <3> QED
      BY <3>1, <3>3
  <2>2. CASE in # {}
    <3>1. PICK x \in Y : in = {x}
      BY <2>2 DEF Ones
    <3>2. Cardinality((X \ out) \cup {x}) =
            IF x \in X \ out THEN Cardinality(X \ out) ELSE Cardinality(X \ out) + 1
      BY <1>2, FS_AddElement
    <3> QED
      BY <1>2, <3>1, <3>2
  <2> QED
    BY <2>1, <2>2
<1>4. Cardinality((X \ out) \cup in) \in Int
  <2>1. IsFiniteSet(in)
    <3>1. CASE in = {}
      BY <3>1, FS_EmptySet
    <3>2. CASE in # {}
      <4>1. PICK x \in Y : in = {x}
        BY <3>2 DEF Ones
      <4> QED
        BY <4>1, FS_Singleton
    <3> QED
      BY <3>1, <3>2
  <2>2. IsFiniteSet((X \ out) \cup in)
    BY <1>2, <2>1, FS_Union
  <2> QED
    BY <2>2, FS_CardinalityType
<1>5. CASE out = {}
  BY <1>1, <1>2, <1>3, <1>4, <1>5
<1>6. CASE out # {}
  BY <1>1, <1>2, <1>3, <1>4, <1>6
<1> QED
  BY <1>5, <1>6

\* A swap keeps the books, and every thing in one place.
LEMMA SwapBooks ==
    ASSUME Setting, NEW halves \in BOOLEAN, NEW m \in Books(halves), NEW p \in Players,
           NEW out, NEW in, NEW k, NEW n, Swap(m, p, out, in, k, n)
    PROVE  /\ k \in Books(halves) /\ n \in Books(halves) /\ n.credits = m.credits
           /\ Single(m) => Single(n)
<1>1. /\ m \in Holdings /\ m.cargo \in [Players -> SUBSET Items]
      /\ m.offer \in [Players -> SUBSET Items]
  BY DEF Books, Holdings
<1>2. out \in SUBSET m.cargo[p] /\ in \in SUBSET m.offer[p]
  BY DEF Swap, Ones
<1> DEFINE c == (m.cargo[p] \ out) \cup in
           o == (m.offer[p] \ in) \cup out
<1>3. c \in SUBSET Items /\ o \in SUBSET Items
  BY <1>1, <1>2
<1>4. Cardinality(c) <= CargoSpace /\ Cardinality(o) <= Slots
  <2>1. IsFiniteSet(m.cargo[p]) /\ IsFiniteSet(m.offer[p])
    BY <1>1, Finite
  <2>2. Cardinality(m.cargo[p]) <= CargoSpace /\ Cardinality(m.offer[p]) <= Slots
    BY DEF Books, Fitting
  <2>3. CargoSpace \in Nat /\ Slots \in Nat
    BY DEF Setting
  <2>6. out = {} => Cardinality(m.cargo[p]) < CargoSpace
    BY <2>1, <2>3, FS_CardinalityType DEF Swap
  <2>4. Cardinality(c) <= CargoSpace
    BY <2>1, <2>2, <2>3, <2>6, SwapSize DEF Swap
  <2>5. Cardinality(o) <= Slots
    BY <2>1, <2>2, <2>3, SwapSize DEF Swap
  <2> QED
    BY <2>4, <2>5
<1>5. /\ k.cargo = [m.cargo EXCEPT ![p] = c] /\ k.offer = m.offer /\ k.credits = m.credits
      /\ n.cargo = [m.cargo EXCEPT ![p] = c] /\ n.offer = [m.offer EXCEPT ![p] = o] /\ n.credits = m.credits
      /\ k \in Holdings /\ n \in Holdings
  <2>1. k = [m EXCEPT !.cargo[p] = c] /\ n = [k EXCEPT !.offer[p] = (k.offer[p] \ in) \cup out]
    BY DEF Swap
  <2>2. k \in Holdings /\ k.cargo = [m.cargo EXCEPT ![p] = c] /\ k.offer = m.offer /\ k.credits = m.credits
    <3> HIDE DEF c
    <3> QED
      BY <1>1, <1>3, <2>1 DEF Holdings
  <2>3. n = [k EXCEPT !.offer[p] = o]
    BY <2>1, <2>2
  <2> HIDE DEF c, o
  <2> QED
    BY <1>1, <1>3, <2>2, <2>3 DEF Holdings
<1>6. Fitting(k) /\ Fitting(n)
  <2>1. Fitting(m)
    BY DEF Books
  <2> HIDE DEF c, o
  <2> QED
    BY <1>1, <1>4, <1>5, <2>1 DEF Fitting
<1>7. Single(m) => Single(n)
  <2> SUFFICES ASSUME Single(m), NEW x \in Players, NEW y \in Players
               PROVE  /\ n.cargo[x] \cap n.offer[y] = {}
                      /\ x # y => n.cargo[x] \cap n.cargo[y] = {} /\ n.offer[x] \cap n.offer[y] = {}
    BY DEF Single
  <2>1. \A z \in Players : /\ n.cargo[z] = IF z = p THEN c ELSE m.cargo[z]
                           /\ n.offer[z] = IF z = p THEN o ELSE m.offer[z]
    <3> HIDE DEF c, o
    <3> QED
      BY <1>1, <1>5
  <2>2. \A u, v \in Players : /\ m.cargo[u] \cap m.offer[v] = {}
                              /\ u # v => m.cargo[u] \cap m.cargo[v] = {} /\ m.offer[u] \cap m.offer[v] = {}
    BY DEF Single
  <2>3. CASE x = p /\ y = p
    BY <1>2, <2>1, <2>2, <2>3
  <2>4. CASE x = p /\ y # p
    BY <1>2, <2>1, <2>2, <2>4
  <2>5. CASE x # p /\ y = p
    BY <1>2, <2>1, <2>2, <2>5
  <2>6. CASE x # p /\ y # p
    BY <2>1, <2>2, <2>6
  <2> QED
    BY <2>3, <2>4, <2>5, <2>6
<1> QED
  BY <1>5, <1>6, <1>7 DEF Books

\* p puts what it can of things into its hold.
Stows(halves, m, p, things, n) ==
    /\ Setting /\ halves \in BOOLEAN /\ m \in Books(halves) /\ p \in Players
    /\ things \subseteq Items /\ n \in CargoAddItems(m, p, things)

\* p and q empty their windows.
Empties(halves, m, p, q, n) ==
    /\ Setting /\ halves \in BOOLEAN /\ m \in Books(halves)
    /\ p \in Players /\ q \in Players /\ n = ClearTradeWindowForBoth(m, p, q)

\* Things stowed keep the books.
LEMMA StowBooks ==
    ASSUME NEW halves, NEW m, NEW p, NEW things, NEW n, Stows(halves, m, p, things, n)
    PROVE  /\ n \in Books(halves) /\ n.offer = m.offer /\ n.credits = m.credits
           /\ \E kept \in SUBSET things : \A r \in Players :
                 n.cargo[r] = m.cargo[r] \cup (IF r = p THEN kept ELSE {})
<1>0. /\ Setting /\ halves \in BOOLEAN /\ m \in Books(halves) /\ p \in Players
      /\ things \subseteq Items /\ n \in CargoAddItems(m, p, things)
  BY DEF Stows
<1>1. /\ m \in Holdings /\ m.cargo \in [Players -> SUBSET Items]
  BY <1>0 DEF Books, Holdings
<1>2. PICK kept \in SUBSET things :
          /\ Cardinality(kept) <= CargoSpace - Cardinality(m.cargo[p])
          /\ n = [m EXCEPT !.cargo[p] = m.cargo[p] \cup kept]
  <2>1. PICK kept \in SUBSET things :
            /\ Cardinality(kept) = Min({Cardinality(things), CargoSpace - Cardinality(m.cargo[p])})
            /\ n = [m EXCEPT !.cargo[p] = m.cargo[p] \cup kept]
    BY <1>0 DEF CargoAddItems, CargoFreeSpace
  <2>2. Cardinality(things) \in Nat /\ Cardinality(m.cargo[p]) \in Nat /\ CargoSpace \in Nat
    BY <1>0, <1>1, Finite DEF Setting
  <2>3. Cardinality(kept) <= CargoSpace - Cardinality(m.cargo[p])
    <3>1. PICK i, j : i = Cardinality(things) /\ j = CargoSpace - Cardinality(m.cargo[p])
      OBVIOUS
    <3>2. i \in Int /\ j \in Int /\ Cardinality(kept) = Min({i, j})
      BY <2>1, <2>2, <3>1
    <3> QED
      BY <3>1, <3>2, SmallestOfTwo
  <2> QED
    BY <2>1, <2>3
<1> DEFINE c == m.cargo[p] \cup kept
<1>3. c \in SUBSET Items
  BY <1>0, <1>1
<1>4. Cardinality(c) <= CargoSpace
  <2>1. IsFiniteSet(m.cargo[p]) /\ IsFiniteSet(kept) /\ Cardinality(m.cargo[p]) \in Nat /\ Cardinality(kept) \in Nat
    BY <1>0, <1>1, Finite
  <2>2. Cardinality(c) <= Cardinality(m.cargo[p]) + Cardinality(kept) /\ Cardinality(c) \in Nat
    <3>1. IsFiniteSet(m.cargo[p] \cap kept) /\ Cardinality(m.cargo[p] \cap kept) \in Nat
          /\ Cardinality(c) = Cardinality(m.cargo[p]) + Cardinality(kept) - Cardinality(m.cargo[p] \cap kept)
      BY <2>1, FS_Union, FS_Intersection, FS_CardinalityType
    <3>2. Cardinality(c) \in Nat
      BY <1>0, <1>3, Finite
    <3> QED
      BY <2>1, <3>1, <3>2
  <2>3. CargoSpace \in Nat
    BY <1>0 DEF Setting
  <2> QED
    BY <1>2, <2>1, <2>2, <2>3
<1>5. n = [m EXCEPT !.cargo[p] = c]
  BY <1>2
<1> HIDE DEF c
<1>6. /\ n.cargo = [m.cargo EXCEPT ![p] = c] /\ n.offer = m.offer /\ n.credits = m.credits
      /\ n \in Holdings
  BY <1>0, <1>1, <1>3, <1>5 DEF Holdings
<1>7. Fitting(n)
  <2>1. Fitting(m)
    BY <1>0 DEF Books
  <2> QED
    BY <1>0, <1>1, <1>4, <1>6, <2>1 DEF Fitting
<1>8. \A r \in Players : n.cargo[r] = m.cargo[r] \cup (IF r = p THEN kept ELSE {})
  BY <1>0, <1>1, <1>6 DEF c
<1>9. n \in Books(halves)
  BY <1>0, <1>6, <1>7 DEF Books
<1> QED
  BY <1>6, <1>8, <1>9

\* Windows emptied keep the books.
LEMMA EmptyBooks ==
    ASSUME NEW halves, NEW m, NEW p, NEW q, NEW n, Empties(halves, m, p, q, n)
    PROVE  /\ n \in Books(halves) /\ n.cargo = m.cargo /\ n.credits = m.credits
           /\ \A r \in Players : n.offer[r] = IF r \in {p, q} THEN {} ELSE m.offer[r]
<1>0. /\ Setting /\ halves \in BOOLEAN /\ m \in Books(halves)
      /\ p \in Players /\ q \in Players /\ n = ClearTradeWindowForBoth(m, p, q)
  BY DEF Empties
<1>1. m \in Holdings /\ Fitting(m) /\ m.offer \in [Players -> SUBSET Items]
  BY <1>0 DEF Books, Holdings
<1>2. /\ n.cargo = m.cargo /\ n.credits = m.credits /\ n \in Holdings
      /\ \A r \in Players : n.offer[r] = IF r \in {p, q} THEN {} ELSE m.offer[r]
  BY <1>0, <1>1 DEF ClearTradeWindowForBoth, Holdings
<1>3. Cardinality({}) = 0
  BY FS_EmptySet
<1>4. Fitting(n)
  BY <1>0, <1>1, <1>2, <1>3 DEF Fitting, Setting
<1>5. n \in Books(halves)
  BY <1>0, <1>2, <1>4 DEF Books
<1> QED
  BY <1>2, <1>5

\* Of the credits f, p pays x to q and q pays y to p: first g, then h.
Paying(f, p, q, x, y, g, h) ==
    /\ f \in [Players -> Nat] /\ TotalOf(f) = Total
    /\ p \in Players /\ q \in Players /\ p # q
    /\ x \in Nat /\ y \in Nat /\ x <= f[p] /\ y <= f[q]
    /\ g = [f EXCEPT ![p] = f[p] + y - x] /\ h = [g EXCEPT ![q] = g[q] + x - y]

\* The credits of a player are some of all the credits; a payment leaves their sum.
LEMMA Payments ==
    ASSUME Setting, NEW f, NEW p, NEW q, NEW x, NEW y, NEW g, NEW h,
           Paying(f, p, q, x, y, g, h)
    PROVE  /\ g \in [Players -> 0..Total] /\ h \in [Players -> 0..Total]
           /\ TotalOf(h) = Total
<1>0. /\ f \in [Players -> Nat] /\ TotalOf(f) = Total
      /\ p \in Players /\ q \in Players /\ p # q
      /\ x \in Nat /\ y \in Nat /\ x <= f[p] /\ y <= f[q]
      /\ g = [f EXCEPT ![p] = f[p] + y - x] /\ h = [g EXCEPT ![q] = g[q] + x - y]
  BY DEF Paying
<1>1. Players = {First, Second, Third} /\ Total \in Nat
  BY DEF Setting
<1>2. PICK a, b, c : a = First /\ b = Second /\ c = Third
  OBVIOUS
<1>3. f[a] \in Nat /\ f[b] \in Nat /\ f[c] \in Nat
  BY <1>0, <1>1, <1>2
<1>4. /\ f[p] + f[q] <= Total /\ \A r \in Players : f[r] <= Total /\ f[r] \in Nat
  BY <1>0, <1>1, <1>2, <1>3 DEF TotalOf
<1>5. g[p] = f[p] + y - x /\ g[q] = f[q] /\ \A r \in Players \ {p} : g[r] = f[r]
  BY <1>0
<1>6. h[q] = f[q] + x - y /\ h[p] = g[p] /\ \A r \in Players \ {p, q} : h[r] = f[r]
  BY <1>0, <1>5
<1>7. \A r \in Players : g[r] \in 0..Total /\ h[r] \in 0..Total
  BY <1>0, <1>1, <1>4, <1>5, <1>6
<1>8. TotalOf(h) = Total
  <2>1. /\ f[a] + (IF b = a THEN 0 ELSE f[b]) + (IF c \in {a, b} THEN 0 ELSE f[c]) = Total
        /\ p \in {a, b, c} /\ q \in {a, b, c}
    BY <1>0, <1>1, <1>2 DEF TotalOf
  <2>2. \A r \in {a, b, c} : h[r] = IF r = p THEN f[p] + y - x ELSE IF r = q THEN f[q] + x - y ELSE f[r]
    BY <1>1, <1>2, <1>5, <1>6
  <2>3. PICK fa, fb, fc, ha, hb, hc :
            /\ fa = f[a] /\ fb = f[b] /\ fc = f[c] /\ ha = h[a] /\ hb = h[b] /\ hc = h[c]
    OBVIOUS
  <2>4. /\ fa \in Nat /\ fb \in Nat /\ fc \in Nat
        /\ ha = IF a = p THEN fa + y - x ELSE IF a = q THEN fa + x - y ELSE fa
        /\ hb = IF b = p THEN fb + y - x ELSE IF b = q THEN fb + x - y ELSE fb
        /\ hc = IF c = p THEN fc + y - x ELSE IF c = q THEN fc + x - y ELSE fc
    BY <1>3, <2>2, <2>3
  <2>5. ha + (IF b = a THEN 0 ELSE hb) + (IF c \in {a, b} THEN 0 ELSE hc)
          = fa + (IF b = a THEN 0 ELSE fb) + (IF c \in {a, b} THEN 0 ELSE fc)
    <3>1. CASE a = b
      BY <1>0, <2>1, <2>3, <2>4, <3>1
    <3>2. CASE a # b /\ c \in {a, b}
      BY <1>0, <2>1, <2>3, <2>4, <3>2
    <3>3. CASE a # b /\ c \notin {a, b}
      BY <1>0, <2>1, <2>3, <2>4, <3>3
    <3> QED
      BY <3>1, <3>2, <3>3
  <2> QED
    BY <1>2, <2>1, <2>3, <2>5 DEF TotalOf
<1> QED
  BY <1>0, <1>7, <1>8

\* Of the state m, p pays x to q and q pays y to p: first k, then n.
Deals(m, p, q, x, y, k, n) ==
    /\ Setting /\ m \in Books(FALSE) /\ p \in Players /\ q \in Players /\ p # q
    /\ x \in Nat /\ y \in Nat /\ x <= m.credits[p] /\ y <= m.credits[q]
    /\ k = Pays(m, p, y, x) /\ n = Pays(k, q, x, y)

\* m and n differ in the credits of P.
AlikeBut(m, n, P) ==
    /\ n.cargo = m.cargo /\ n.offer = m.offer
    /\ \A r \in Players \ P : n.credits[r] = m.credits[r]

\* Payments keep the books, by halves while one is made.
LEMMA PayBooks ==
    ASSUME NEW m, NEW p, NEW q, NEW x, NEW y, NEW k, NEW n, Deals(m, p, q, x, y, k, n)
    PROVE  k \in Books(TRUE) /\ n \in Books(FALSE) /\ AlikeBut(m, n, {p, q})
<1>0. /\ Setting /\ m \in Books(FALSE) /\ p \in Players /\ q \in Players /\ p # q
      /\ x \in Nat /\ y \in Nat /\ x <= m.credits[p] /\ y <= m.credits[q]
      /\ k = Pays(m, p, y, x) /\ n = Pays(k, q, x, y)
  BY DEF Deals
<1>1. m \in Holdings /\ Fitting(m) /\ TotalOf(m.credits) = Total
  BY <1>0 DEF Books
<1>2. m.credits \in [Players -> 0..Total] /\ m.credits \in [Players -> Nat]
  BY <1>0, <1>1 DEF Holdings, Setting
<1>3. PICK f, g, h : f = m.credits /\ g = [f EXCEPT ![p] = f[p] + y - x] /\ h = [g EXCEPT ![q] = g[q] + x - y]
  OBVIOUS
<1>4. /\ g \in [Players -> 0..Total] /\ h \in [Players -> 0..Total]
      /\ TotalOf(h) = Total
  <2>1. Paying(f, p, q, x, y, g, h)
    BY <1>0, <1>1, <1>2, <1>3 DEF Paying
  <2> QED
    BY <1>0, <2>1, Payments
<1>5. k = [m EXCEPT !.credits = g] /\ k.credits = g
  BY <1>0, <1>1, <1>3 DEF Pays, Holdings
<1>6. n = [k EXCEPT !.credits = h]
  BY <1>0, <1>1, <1>3, <1>5 DEF Pays, Holdings
<1>7. /\ k \in Holdings /\ n \in Holdings /\ n.credits = h
      /\ n.cargo = m.cargo /\ n.offer = m.offer /\ k.cargo = m.cargo /\ k.offer = m.offer
  BY <1>1, <1>4, <1>5, <1>6 DEF Holdings
<1>8. Fitting(k) /\ Fitting(n)
  BY <1>0, <1>1, <1>7 DEF Fitting
<1>9. \A r \in Players \ {p, q} : n.credits[r] = m.credits[r]
  BY <1>0, <1>2, <1>3, <1>4, <1>7
<1> QED
  BY <1>4, <1>7, <1>8, <1>9 DEF Books, AlikeBut

\* Saves may hold a payment by halves once all logins are used, and where they are
\* not kept, as nobody reads them.
Late == logins = MaxLogins \/ ~Keep

\* All the credits are there, and nobody offers more than he has.
Settled ==
    /\ TotalOf(mem.credits) = Total
    /\ \A p \in Players : money[p] <= mem.credits[p]

\* None can play any more.
Over == logins = MaxLogins /\ \A p \in Players : session[p] = 0

\* No login is shared, and a window is for another player, in a login there was.
LoginInv ==
    /\ logins \in 0..MaxLogins /\ session \in [Players -> 0..logins]
    /\ \A p, q \in Players : p # q /\ session[p] = session[q] => session[p] = 0
    /\ trade = [p \in Players |-> trade[p]]
    /\ \A p \in Players : trade[p] # None =>
          \E q \in Players \ {p}, n \in 1..logins : trade[p] = <<q, n>>

\* Memory, database and saves are in the books.
BookInv ==
    /\ mem \in Books(TRUE) /\ db \in Books(Late) /\ saves \in Seq(Books(Late))
    /\ money \in [Players -> Nat] /\ loose \subseteq Items
    /\ Settled \/ Over

\* The last save is of what there is, where saves are kept; where not, nothing is
\* lost by halves.
SaveInv ==
    IF Keep THEN /\ saves = <<>> => db = mem
                 /\ saves # <<>> => saves[Len(saves)] = mem
    ELSE saves = <<>> /\ Settled /\ Single(mem)

\* The goods are kept.
GoodsInv == LoginInv /\ BookInv /\ SaveInv

\* p is on line, with a window for q.
Trading(p, q) ==
    /\ p \in Players /\ q \in Players
    /\ session[p] # 0 /\ trade[p] # None /\ trade[p] = <<q, session[q]>>

\* The saves of a handler, in order (AddSaveToQueue).
Queues(states) ==
    /\ mem' = states[Len(states)]
    /\ saves' = IF Keep THEN saves \o states ELSE saves

\* Both windows are closed.
Ends(p, q) ==
    /\ trade' = [trade EXCEPT ![p] = None, ![q] = None]
    /\ money' = [money EXCEPT ![p] = 0, ![q] = 0]

\* Both windows are opened.
Opens(p, q) == trade' = [trade EXCEPT ![p] = <<q, session[q]>>, ![q] = <<p, session[p]>>]

\* The steps of Trade, as far as the goods are concerned.
Rests == UNCHANGED <<mem, db, saves, money, session, logins, trade, loose>>

\* Two windows open.
OpensUp(p, q) ==
    /\ p # q /\ session[p] # 0 /\ session[q] # 0
    /\ Opens(p, q)
    /\ UNCHANGED <<mem, db, saves, money, session, logins, loose>>

\* The /trade command empties both windows first.
Clears(p, q) ==
    /\ p # q /\ session[p] # 0 /\ session[q] # 0 /\ Keep
    /\ Queues(<<ClearTradeWindowForBoth(mem, p, q)>>)
    /\ Opens(p, q)
    /\ UNCHANGED <<db, money, session, logins, loose>>

\* Things go from hold to window and back.
Swaps(p, q) ==
    /\ Trading(p, q)
    /\ \E out, in, k, n : Swap(mem, p, out, in, k, n) /\ Queues(<<k, n>>)
    /\ UNCHANGED <<db, money, session, logins, trade, loose>>

\* Money is offered.
Bids(p, q) ==
    /\ Trading(p, q)
    /\ \E n \in 0..mem.credits[p] : money' = [money EXCEPT ![p] = n]
    /\ UNCHANGED <<mem, db, saves, session, logins, trade, loose>>

\* Both have confirmed.
Exchanges(p, q) ==
    /\ Trading(p, q) /\ confirm[q] # None
    /\ Cardinality(mem.offer[q]) <= CargoSpace - Cardinality(mem.cargo[p])
    /\ LET m1 == Pays(mem, p, money[q], money[p])
           m2 == Pays(m1, q, money[p], money[q])
       IN  \E m3 \in CargoAddItems(m2, p, mem.offer[q]) : \E m4 \in CargoAddItems(m3, q, mem.offer[p]) :
              Queues(<<m1, m2, m3, m4, ClearTradeWindowForBoth(m4, p, q)>>)
    /\ Ends(p, q)
    /\ UNCHANGED <<db, session, logins, loose>>

\* Both take back what fits.
Cancels(p, q) ==
    /\ Trading(p, q)
    /\ \E m1 \in CargoAddItems(mem, p, mem.offer[p]) : \E m2 \in CargoAddItems(m1, q, mem.offer[q]) :
          Queues(<<m1, m2, ClearTradeWindowForBoth(m2, p, q)>>)
    /\ Ends(p, q)
    /\ UNCHANGED <<db, session, logins, loose>>

\* A login has a number nobody had before.
LogsIn(p) ==
    /\ session[p] = 0 /\ logins < MaxLogins
    /\ logins' = logins + 1 /\ session' = [session EXCEPT ![p] = logins + 1]
    /\ UNCHANGED <<mem, db, saves, money, trade, loose>>

\* A logoff leaves the window of the other one open.
LogsOff(p) ==
    /\ session' = [session EXCEPT ![p] = 0]
    /\ trade' = [trade EXCEPT ![p] = None]
    /\ money' = [money EXCEPT ![p] = 0]
    /\ UNCHANGED <<mem, db, saves, logins, loose>>

\* A thing is picked up.
PicksUp(p) ==
    /\ Keep /\ session[p] # 0 /\ CargoSpace - Cardinality(mem.cargo[p]) > 0
    /\ \E i \in loose : /\ loose' = loose \ {i}
                       /\ Queues(<<[mem EXCEPT !.cargo[p] = @ \cup {i}]>>)
    /\ UNCHANGED <<db, money, session, logins, trade>>

\* The oldest save is written.
Writes ==
    /\ saves # <<>>
    /\ db' = Head(saves) /\ saves' = Tail(saves)
    /\ UNCHANGED <<mem, money, session, logins, trade, loose>>

\* What was not written is gone.
Crashes ==
    /\ Keep
    /\ mem' = db /\ saves' = <<>>
    /\ session' = [p \in Players |-> 0] /\ trade' = [p \in Players |-> None]
    /\ money' = [p \in Players |-> 0]
    /\ UNCHANGED <<db, logins, loose>>

\* Any of these.
Goes ==
    \/ Rests \/ Writes \/ Crashes
    \/ \E p \in Players : LogsIn(p) \/ LogsOff(p) \/ PicksUp(p)
    \/ \E p, q \in Players :
          \/ OpensUp(p, q) \/ Clears(p, q) \/ Swaps(p, q) \/ Bids(p, q)
          \/ Exchanges(p, q) \/ Cancels(p, q)

\* Traders are two, both are online, and when saves are kept it is late.
LEMMA TradersOn ==
    ASSUME Setting, LoginInv, NEW p, NEW q, Trading(p, q)
    PROVE  p \in Players /\ q \in Players /\ p # q /\ ~Over /\ Late
<1>1. /\ p \in Players /\ q \in Players /\ session[p] # 0 /\ trade[p] # None
      /\ trade[p] = <<q, session[q]>>
  BY DEF Trading
<1>2. PICK r \in Players \ {p}, n \in 1..logins : trade[p] = <<r, n>>
  BY <1>1 DEF LoginInv
<1>3. q = r /\ session[q] = n
  BY <1>1, <1>2
<1>4. logins \in 0..MaxLogins /\ session[p] \in 0..logins /\ session[q] \in 1..logins
  BY <1>1, <1>2, <1>3 DEF LoginInv
<1>5. session[p] # session[q]
  BY <1>1, <1>2, <1>3 DEF LoginInv
<1>6. Keep => logins = MaxLogins
  <2>1. Keep => MaxLogins = 2
    BY DEF Setting
  <2> QED
    BY <1>1, <1>4, <1>5, <2>1
<1> QED
  BY <1>1, <1>2, <1>3, <1>6 DEF Over, Late

\* Books with all the credits are books.
LEMMA LateMeans ==
    ASSUME Setting
    PROVE  /\ Late \in BOOLEAN
           /\ \A halves \in BOOLEAN :
                  Books(FALSE) \subseteq Books(halves) /\ Books(halves) \subseteq Books(TRUE)
BY DEF Late, Books

\* A handler queues states that are in the books, the last of them settled.
Queued(states) ==
    /\ states \in Seq(Books(Late)) /\ states # <<>> /\ Queues(states)
    /\ db' = db /\ logins' = logins
    /\ money' \in [Players -> Nat] /\ loose' \subseteq Items
    /\ TotalOf(mem'.credits) = Total /\ \A p \in Players : money'[p] <= mem'.credits[p]
    /\ ~Keep /\ Single(mem) => Single(mem')

\* The last of the saves is the last one queued.
LEMMA LastOf ==
    ASSUME NEW S, NEW s \in Seq(S), NEW t \in Seq(S), t # <<>>
    PROVE  /\ t[Len(t)] \in S /\ s \o t \in Seq(S) /\ s \o t # <<>>
           /\ (s \o t)[Len(s \o t)] = t[Len(t)]
<1>1. Len(t) \in Nat /\ Len(t) > 0 /\ Len(s) \in Nat
  OBVIOUS
<1> QED
  BY <1>1

\* A handler that queues such states keeps the books and the saves.
LEMMA QueuedKeeps ==
    ASSUME Setting, BookInv, SaveInv, NEW states, Queued(states)
    PROVE  BookInv' /\ SaveInv'
<1>0. Late' = Late
  BY DEF Queued, Late
<1>1. PICK S : S = Books(Late)
  OBVIOUS
<1>2. states \in Seq(S) /\ states # <<>> /\ saves \in Seq(S) /\ db \in S /\ S \subseteq Books(TRUE)
  BY <1>1, LateMeans DEF Queued, BookInv
<1>3. mem' = states[Len(states)] /\ saves' = IF Keep THEN saves \o states ELSE saves
  BY DEF Queued, Queues
<1>4. mem' \in S /\ saves' \in Seq(S) /\ db' \in S
  BY <1>2, <1>3, LastOf DEF Queued
<1>5. Settled'
  <2>1. TotalOf(mem'.credits) = TotalOf(mem.credits)'
    BY DEF TotalOf
  <2> QED
    BY <2>1 DEF Settled, Queued
<1>6. BookInv'
  <2>1. S' = S /\ Books(Late)' = Books(Late) /\ Books(TRUE)' = Books(TRUE)
    BY <1>0 DEF Books, Holdings, Fitting, TotalOf
  <2>2. mem' \in Books(TRUE)' /\ db' \in Books(Late)' /\ saves' \in Seq(Books(Late))'
    BY <1>1, <1>2, <1>4, <2>1
  <2> QED
    BY <1>5, <2>2 DEF BookInv, Queued
<1>7. CASE Keep
  <2>1. saves' # <<>> /\ saves'[Len(saves')] = mem'
    BY <1>2, <1>3, <1>7, LastOf
  <2> QED
    BY <1>6, <1>7, <2>1 DEF SaveInv
<1>8. CASE ~Keep
  <2>1. saves' = <<>> /\ Single(mem')
    BY <1>3, <1>8 DEF SaveInv, Queued
  <2> QED
    BY <1>5, <1>6, <1>8, <2>1 DEF SaveInv, Single
<1> QED
  BY <1>6, <1>7, <1>8

\* None else comes on line, and windows that change are closed.
Calm ==
    /\ logins' = logins /\ session' = session
    /\ trade' = [p \in Players |-> trade'[p]]
    /\ \A p \in Players : trade'[p] # None => trade'[p] = trade[p]

\* Where nobody comes on line, the windows stay those of other players.
LEMMA CalmKeeps ==
    ASSUME LoginInv, Calm
    PROVE  LoginInv'
<1>1. /\ logins' \in 0..MaxLogins /\ session' \in [Players -> 0..logins']
      /\ \A p, q \in Players : p # q /\ session'[p] = session'[q] => session'[p] = 0
  BY DEF LoginInv, Calm
<1>2. ASSUME NEW p \in Players, trade'[p] # None
      PROVE  \E q \in Players \ {p}, n \in 1..logins' : trade'[p] = <<q, n>>
  <2>1. trade'[p] = trade[p] /\ logins' = logins
    BY <1>2 DEF Calm
  <2>2. \E q \in Players \ {p}, n \in 1..logins : trade[p] = <<q, n>>
    BY <1>2, <2>1 DEF LoginInv
  <2> QED
    BY <2>1, <2>2
<1> QED
  BY <1>1, <1>2 DEF LoginInv, Calm

\* Two players on line may open windows.
LEMMA OpensKeeps ==
    ASSUME LoginInv, NEW p \in Players, NEW q \in Players, p # q,
           session[p] # 0, session[q] # 0, Opens(p, q), UNCHANGED <<session, logins>>
    PROVE  LoginInv'
<1>1. session[p] \in 1..logins /\ session[q] \in 1..logins
  BY DEF LoginInv
<1>2. /\ trade'[p] = <<q, session[q]>> /\ trade'[q] = <<p, session[p]>>
      /\ trade' = [r \in Players |-> trade'[r]]
      /\ \A r \in Players \ {p, q} : trade'[r] = trade[r]
  BY DEF Opens, LoginInv
<1>3. ASSUME NEW r \in Players, trade'[r] # None
      PROVE  \E o \in Players \ {r}, n \in 1..logins : trade'[r] = <<o, n>>
  <2>1. CASE r = p
    BY <1>1, <1>2, <2>1
  <2>2. CASE r = q
    BY <1>1, <1>2, <2>2
  <2>3. CASE r \notin {p, q}
    <3>1. trade'[r] = trade[r] /\ trade[r] # None
      BY <1>2, <1>3, <2>3
    <3>2. \E o \in Players \ {r}, n \in 1..logins : trade[r] = <<o, n>>
      BY <3>1 DEF LoginInv
    <3> QED
      BY <3>1, <3>2
  <2> QED
    BY <2>1, <2>2, <2>3
<1> QED
  BY <1>2, <1>3 DEF LoginInv

\* Two players may close their windows and take back what they offered.
LEMMA EndsKeeps ==
    ASSUME LoginInv, BookInv, NEW p \in Players, NEW q \in Players,
           Ends(p, q), UNCHANGED <<session, logins>>
    PROVE  /\ LoginInv' /\ money' \in [Players -> Nat]
           /\ \A r \in Players : money'[r] = IF r \in {p, q} THEN 0 ELSE money[r]
<1>1. Calm
  BY DEF Calm, Ends, LoginInv
<1>2. money \in [Players -> Nat]
  BY DEF BookInv
<1> QED
  BY <1>1, <1>2, CalmKeeps DEF Ends

\* While somebody can play, the books are right.
LEMMA Playing ==
    ASSUME Setting, BookInv, ~Over
    PROVE  /\ Settled /\ mem \in Books(FALSE) /\ mem \in Books(Late)
           /\ mem.credits \in [Players -> Nat] /\ TotalOf(mem.credits) = Total
           /\ \A p \in Players : money[p] \in Nat /\ money[p] <= mem.credits[p]
           /\ mem.offer \in [Players -> SUBSET Items]
<1>1. Settled /\ mem \in Books(TRUE) /\ money \in [Players -> Nat]
  BY DEF BookInv
<1>2. TotalOf(mem.credits) = Total /\ \A p \in Players : money[p] <= mem.credits[p]
  BY <1>1 DEF Settled
<1>3. mem \in Holdings /\ Fitting(mem)
  BY <1>1 DEF Books
<1>4. mem \in Books(FALSE) /\ mem \in Books(Late)
  BY <1>2, <1>3 DEF Books
<1>5. mem.credits \in [Players -> 0..Total] /\ mem.offer \in [Players -> SUBSET Items]
  BY <1>3 DEF Holdings
<1>6. mem.credits \in [Players -> Nat]
  BY <1>5 DEF Setting
<1> QED
  BY <1>1, <1>2, <1>4, <1>5, <1>6

\* Where neither the goods nor the saves change.
Untouched ==
    /\ UNCHANGED <<mem, db, saves, loose>> /\ money' \in [Players -> Nat]
    /\ Late => Late'
    /\ \/ Settled /\ \A p \in Players : money'[p] <= mem.credits[p]
       \/ ~Settled /\ Over'

\* What leaves goods and saves alone keeps the books.
LEMMA UntouchedKeeps ==
    ASSUME Setting, BookInv, SaveInv, Untouched
    PROVE  BookInv' /\ SaveInv'
<1>1. PICK S, T, U : S = Books(Late) /\ T = Books(Late') /\ U = Books(TRUE)
  OBVIOUS
<1>2. S \subseteq T
  BY <1>1, LateMeans DEF Untouched, Books
<1>3. Books(Late)' = T /\ Books(TRUE)' = U
  BY <1>1 DEF Books, Holdings, Fitting, TotalOf
<1>4. mem' \in U /\ db' \in T /\ saves' \in Seq(T)
  <2>1. mem \in U /\ db \in S /\ saves \in Seq(S)
    BY <1>1 DEF BookInv
  <2>2. saves \in Seq(T)
    BY <1>2, <2>1
  <2> QED
    BY <1>2, <2>1, <2>2 DEF Untouched
<1>5. Settled => Settled'
  <2>1. TotalOf(mem.credits)' = TotalOf(mem.credits)
    BY DEF Untouched, TotalOf
  <2> QED
    BY <2>1 DEF Settled, Untouched
<1>6. Settled' \/ Over'
  BY <1>5 DEF Untouched
<1>7. BookInv'
  BY <1>3, <1>4, <1>6 DEF BookInv, Untouched
<1>8. SaveInv'
  <2>1. Single(mem)' <=> Single(mem)
    BY DEF Single, Untouched
  <2> QED
    BY <1>5, <2>1 DEF SaveInv, Untouched
<1> QED
  BY <1>7, <1>8

\* A confirmation changes no goods.
LEMMA RestStep ==
    ASSUME Setting, GoodsInv, Rests
    PROVE  GoodsInv'
<1>1. LoginInv /\ BookInv /\ SaveInv
  BY DEF GoodsInv
<1>2. Calm
  BY <1>1 DEF Calm, Rests, LoginInv
<1>3. Untouched
  <2>1. (Late <=> Late') /\ (Over <=> Over')
    BY DEF Rests, Late, Over
  <2> QED
    BY <1>1, <2>1 DEF Untouched, Rests, BookInv, Settled
<1> QED
  BY <1>1, <1>2, <1>3, CalmKeeps, UntouchedKeeps DEF GoodsInv

\* Nor does a window that is opened (HandleAction, case 20).
LEMMA OpensUpStep ==
    ASSUME Setting, GoodsInv, NEW p \in Players, NEW q \in Players, OpensUp(p, q)
    PROVE  GoodsInv'
<1>1. LoginInv /\ BookInv /\ SaveInv
  BY DEF GoodsInv
<1>2. LoginInv'
  BY <1>1, OpensKeeps DEF OpensUp
<1>3. Untouched
  <2>1. (Late <=> Late') /\ (Over <=> Over')
    BY DEF OpensUp, Late, Over
  <2> QED
    BY <1>1, <2>1 DEF Untouched, OpensUp, BookInv, Settled
<1> QED
  BY <1>1, <1>2, <1>3, UntouchedKeeps DEF GoodsInv

\* Money is offered within what there is (case 24).
LEMMA BidStep ==
    ASSUME Setting, GoodsInv, NEW p \in Players, NEW q \in Players, Bids(p, q)
    PROVE  GoodsInv'
<1>1. LoginInv /\ BookInv /\ SaveInv
  BY DEF GoodsInv
<1>2. ~Over
  BY <1>1, TradersOn DEF Bids
<1>3. PICK n \in 0..mem.credits[p] : money' = [money EXCEPT ![p] = n]
  BY DEF Bids
<1>4. Settled /\ mem.credits[p] \in Nat
  BY <1>1, <1>2, Playing
<1>5. money' \in [Players -> Nat]
  BY <1>1, <1>3, <1>4 DEF BookInv
<1>6. \A r \in Players : money'[r] <= mem.credits[r]
  BY <1>1, <1>3, <1>4 DEF BookInv, Settled
<1>7. Untouched
  <2>1. Late <=> Late'
    BY DEF Bids, Late
  <2> QED
    BY <1>4, <1>5, <1>6, <2>1 DEF Untouched, Bids
<1>8. Calm
  BY <1>1 DEF Calm, Bids, LoginInv
<1> QED
  BY <1>1, <1>7, <1>8, CalmKeeps, UntouchedKeeps DEF GoodsInv

\* A login makes it later.
LEMMA LogInStep ==
    ASSUME Setting, GoodsInv, NEW p \in Players, LogsIn(p)
    PROVE  GoodsInv'
<1>1. LoginInv /\ BookInv /\ SaveInv
  BY DEF GoodsInv
<1>2. ~Over /\ logins \in Nat /\ MaxLogins \in Nat
  BY <1>1 DEF LogsIn, Over, LoginInv, Setting
<1>3. Settled
  BY <1>1, <1>2, Playing
<1>4. Untouched
  BY <1>1, <1>2, <1>3 DEF Untouched, LogsIn, Late, BookInv, Settled
<1>5. LoginInv'
  <2>1. logins' = logins + 1 /\ session' = [session EXCEPT ![p] = logins + 1] /\ trade' = trade
    BY DEF LogsIn
  <2>2. session \in [Players -> 0..logins] /\ logins < MaxLogins
    BY <1>1 DEF LoginInv, LogsIn
  <2>3. logins' \in 0..MaxLogins /\ session' \in [Players -> 0..logins']
    BY <1>2, <2>1, <2>2
  <2>4. ASSUME NEW x \in Players, NEW y \in Players, x # y, session'[x] = session'[y]
        PROVE  session'[x] = 0
    <3>1. /\ session'[x] = IF x = p THEN logins + 1 ELSE session[x]
          /\ session'[y] = IF y = p THEN logins + 1 ELSE session[y]
          /\ session[x] \in 0..logins /\ session[y] \in 0..logins
      BY <2>1, <2>2
    <3>2. x # p /\ y # p
      <4>1. PICK i, j : i = session[x] /\ j = session[y]
        OBVIOUS
      <4>2. i < logins + 1 /\ j < logins + 1
        BY <1>2, <3>1, <4>1
      <4>3. i # logins + 1 /\ j # logins + 1
        BY <1>2, <3>1, <4>1, <4>2
      <4> QED
        BY <2>4, <3>1, <4>1, <4>3, Zenon
    <3>3. session[x] = session[y] => session[x] = 0
      BY <1>1, <2>4 DEF LoginInv
    <3> QED
      BY <2>4, <3>1, <3>2, <3>3
  <2>5. ASSUME NEW r \in Players, trade'[r] # None
        PROVE  \E q \in Players \ {r}, n \in 1..logins' : trade'[r] = <<q, n>>
    <3>1. PICK q \in Players \ {r}, n \in 1..logins : trade[r] = <<q, n>>
      BY <1>1, <2>1, <2>5 DEF LoginInv
    <3>2. n \in 1..logins'
      BY <1>2, <2>1
    <3> QED
      BY <2>1, <3>1, <3>2
  <2>6. trade' = [r \in Players |-> trade'[r]]
    BY <1>1, <2>1 DEF LoginInv
  <2> QED
    BY <2>3, <2>4, <2>5, <2>6 DEF LoginInv
<1> QED
  BY <1>1, <1>4, <1>5, UntouchedKeeps DEF GoodsInv

\* A logoff takes the offered money back.
LEMMA LogOffStep ==
    ASSUME Setting, GoodsInv, NEW p \in Players, LogsOff(p)
    PROVE  GoodsInv'
<1>1. LoginInv /\ BookInv /\ SaveInv
  BY DEF GoodsInv
<1>2. /\ logins' = logins /\ session' = [session EXCEPT ![p] = 0]
      /\ trade' = [trade EXCEPT ![p] = None] /\ money' = [money EXCEPT ![p] = 0]
  BY DEF LogsOff
<1>3. session \in [Players -> 0..logins] /\ logins \in Nat /\ money \in [Players -> Nat]
  BY <1>1 DEF LoginInv, BookInv
<1>4. money' \in [Players -> Nat] /\ session' \in [Players -> 0..logins]
      /\ \A r \in Players : /\ money'[r] = IF r = p THEN 0 ELSE money[r]
                            /\ session'[r] = IF r = p THEN 0 ELSE session[r]
  BY <1>2, <1>3
<1>5. Untouched
  <2>1. Late <=> Late'
    BY DEF LogsOff, Late
  <2>2. Over => Over'
    BY <1>2, <1>4 DEF Over
  <2>3. ASSUME Settled, NEW r \in Players
        PROVE  money'[r] <= mem.credits[r]
    <3>1. mem.credits \in [Players -> 0..Total] /\ Total \in Nat
      BY <1>1 DEF BookInv, Books, Holdings, Setting
    <3>2. mem.credits[r] \in Nat /\ money[r] <= mem.credits[r]
      BY <2>3, <3>1 DEF Settled
    <3> QED
      BY <1>4, <3>2
  <2> QED
    BY <1>1, <1>4, <2>1, <2>2, <2>3 DEF Untouched, LogsOff, BookInv
<1>6. LoginInv'
  <2>1. logins' \in 0..MaxLogins /\ session' \in [Players -> 0..logins']
    BY <1>1, <1>2, <1>4 DEF LoginInv
  <2>2. \A x, y \in Players : x # y /\ session'[x] = session'[y] => session'[x] = 0
    BY <1>1, <1>4 DEF LoginInv
  <2>3. /\ trade' = [r \in Players |-> trade'[r]]
        /\ \A r \in Players : trade'[r] = IF r = p THEN None ELSE trade[r]
    BY <1>1, <1>2 DEF LoginInv
  <2>4. ASSUME NEW r \in Players, trade'[r] # None
        PROVE  \E q \in Players \ {r}, n \in 1..logins' : trade'[r] = <<q, n>>
    <3>1. trade[r] # None /\ trade'[r] = trade[r]
      BY <2>3, <2>4
    <3>2. \E q \in Players \ {r}, n \in 1..logins : trade[r] = <<q, n>>
      BY <1>1, <3>1 DEF LoginInv
    <3> QED
      BY <1>2, <3>1, <3>2
  <2> QED
    BY <2>1, <2>2, <2>3, <2>4 DEF LoginInv
<1> QED
  BY <1>1, <1>5, <1>6, UntouchedKeeps DEF GoodsInv

\* p gets K and q gets L, of what was in their windows.
HandsOver(m, n, p, q, K, L) ==
    /\ p \in Players /\ q \in Players /\ p # q /\ Single(m) /\ K \cap L = {}
    /\ K \subseteq m.offer[p] \cup m.offer[q] /\ L \subseteq m.offer[p] \cup m.offer[q]
    /\ \A r \in Players :
          /\ n.cargo[r] = m.cargo[r] \cup (IF r = p THEN K ELSE IF r = q THEN L ELSE {})
          /\ n.offer[r] = IF r \in {p, q} THEN {} ELSE m.offer[r]

\* What two players may hand over ends up in one place.
LEMMA HandOver ==
    ASSUME NEW m, NEW n, NEW p, NEW q, NEW K, NEW L, HandsOver(m, n, p, q, K, L)
    PROVE  Single(n)
<1>0. /\ p \in Players /\ q \in Players /\ p # q /\ Single(m) /\ K \cap L = {}
      /\ K \subseteq m.offer[p] \cup m.offer[q] /\ L \subseteq m.offer[p] \cup m.offer[q]
      /\ \A r \in Players :
             /\ n.cargo[r] = m.cargo[r] \cup (IF r = p THEN K ELSE IF r = q THEN L ELSE {})
             /\ n.offer[r] = IF r \in {p, q} THEN {} ELSE m.offer[r]
  BY DEF HandsOver
<1> SUFFICES ASSUME NEW x \in Players, NEW y \in Players
             PROVE  /\ n.cargo[x] \cap n.offer[y] = {}
                    /\ x # y => n.cargo[x] \cap n.cargo[y] = {} /\ n.offer[x] \cap n.offer[y] = {}
  BY DEF Single
<1>1. \A u, v \in Players : /\ m.cargo[u] \cap m.offer[v] = {}
                            /\ u # v => m.cargo[u] \cap m.cargo[v] = {} /\ m.offer[u] \cap m.offer[v] = {}
  BY <1>0 DEF Single
<1> DEFINE X == IF x = p THEN K ELSE IF x = q THEN L ELSE {}
           Y == IF y = p THEN K ELSE IF y = q THEN L ELSE {}
<1>3. /\ n.cargo[x] = m.cargo[x] \cup X /\ n.cargo[y] = m.cargo[y] \cup Y
      /\ n.offer[x] = (IF x \in {p, q} THEN {} ELSE m.offer[x])
      /\ n.offer[y] = (IF y \in {p, q} THEN {} ELSE m.offer[y])
  BY <1>0
<1>4. X \subseteq m.offer[p] \cup m.offer[q] /\ Y \subseteq m.offer[p] \cup m.offer[q]
  BY <1>0
<1>5. x # y => X \cap Y = {}
  BY <1>0
<1> HIDE DEF X, Y
<1>6. n.cargo[x] \cap n.offer[y] = {}
  BY <1>0, <1>1, <1>3, <1>4
<1>7. x # y => n.cargo[x] \cap n.cargo[y] = {}
  BY <1>0, <1>1, <1>3, <1>4, <1>5
<1>8. x # y => n.offer[x] \cap n.offer[y] = {}
  BY <1>0, <1>1, <1>3
<1> QED
  BY <1>6, <1>7, <1>8

\* Both windows are closed, and nothing is offered any more.
EndsWell(p, q) ==
    /\ LoginInv' /\ money' \in [Players -> Nat]
    /\ \A r \in Players : money'[r] = IF r \in {p, q} THEN 0 ELSE money[r]

\* The /trade command empties both windows, and saves it.
LEMMA ClearStep ==
    ASSUME Setting, GoodsInv, NEW p \in Players, NEW q \in Players, Clears(p, q)
    PROVE  GoodsInv'
<1>1. LoginInv /\ BookInv /\ SaveInv
  BY DEF GoodsInv
<1>2. p # q /\ session[p] # 0 /\ session[q] # 0 /\ Opens(p, q) /\ UNCHANGED <<session, logins>>
  BY DEF Clears
<1>3. LoginInv'
  BY <1>1, <1>2, OpensKeeps
<1>4. ~Over
  BY <1>2 DEF Over
<1>6. PICK m : m = ClearTradeWindowForBoth(mem, p, q)
  OBVIOUS
<1>7. m \in Books(Late) /\ m.credits = mem.credits
  <2>1. Empties(Late, mem, p, q, m)
    BY <1>1, <1>4, <1>6, LateMeans, Playing DEF Empties
  <2> QED
    BY <2>1, EmptyBooks
<1>8. Queues(<<m>>) /\ mem' = m
  BY <1>6 DEF Clears, Queues
<1>9. Queued(<<m>>)
  <2>1. /\ <<m>> \in Seq(Books(Late)) /\ <<m>> # <<>>
    BY <1>7
  <2>2. TotalOf(mem'.credits) = Total /\ \A r \in Players : money[r] <= mem'.credits[r]
    BY <1>1, <1>4, <1>7, <1>8, Playing
  <2> QED
    BY <1>1, <1>8, <2>1, <2>2 DEF Queued, Clears, BookInv
<1> QED
  BY <1>1, <1>3, <1>9, QueuedKeeps DEF GoodsInv

\* Things are moved between hold and window (MoveItem).
LEMMA SwapStep ==
    ASSUME Setting, GoodsInv, NEW p \in Players, NEW q \in Players, Swaps(p, q)
    PROVE  GoodsInv'
<1>1. LoginInv /\ BookInv /\ SaveInv
  BY DEF GoodsInv
<1>2. ~Over
  BY <1>1, TradersOn DEF Swaps
<1>3. PICK out, in, k, n : Swap(mem, p, out, in, k, n) /\ Queues(<<k, n>>)
  BY DEF Swaps
<1>4. /\ k \in Books(Late) /\ n \in Books(Late) /\ n.credits = mem.credits
      /\ Single(mem) => Single(n)
  <2>1. Late \in BOOLEAN
    BY LateMeans
  <2>2. mem \in Books(Late)
    BY <1>1, <1>2, Playing
  <2> QED
    BY <1>3, <2>1, <2>2, SwapBooks
<1>5. mem' = n
  BY <1>3 DEF Queues
<1>6. Queued(<<k, n>>)
  <2>1. /\ <<k, n>> \in Seq(Books(Late)) /\ <<k, n>> # <<>>
    BY <1>4
  <2>2. TotalOf(mem'.credits) = Total /\ \A r \in Players : money[r] <= mem'.credits[r]
    BY <1>1, <1>2, <1>4, <1>5, Playing
  <2> QED
    BY <1>1, <1>3, <1>4, <1>5, <2>1, <2>2 DEF Queued, Swaps, BookInv
<1>7. Calm
  BY <1>1 DEF Calm, Swaps, LoginInv
<1> QED
  BY <1>1, <1>6, <1>7, CalmKeeps, QueuedKeeps DEF GoodsInv

\* Both take back what fits (CancelTrade).
LEMMA CancelStep ==
    ASSUME Setting, GoodsInv, NEW p \in Players, NEW q \in Players, Cancels(p, q)
    PROVE  GoodsInv'
<1>1. LoginInv /\ BookInv /\ SaveInv
  BY DEF GoodsInv
<1>2. ~Over /\ p # q
  BY <1>1, TradersOn DEF Cancels
<1>3. PICK S : S = Books(Late)
  OBVIOUS
<1>4. PICK m1, m2, m3 :
          /\ m1 \in CargoAddItems(mem, p, mem.offer[p]) /\ m2 \in CargoAddItems(m1, q, mem.offer[q])
          /\ m3 = ClearTradeWindowForBoth(m2, p, q) /\ Queues(<<m1, m2, m3>>)
  BY DEF Cancels
<1>5. Late \in BOOLEAN /\ mem \in Books(Late) /\ mem.offer \in [Players -> SUBSET Items]
  BY <1>1, <1>2, LateMeans, Playing
<1>6. PICK K \in SUBSET mem.offer[p] :
          /\ m1 \in Books(Late) /\ m1.offer = mem.offer /\ m1.credits = mem.credits
          /\ \A r \in Players : m1.cargo[r] = mem.cargo[r] \cup (IF r = p THEN K ELSE {})
  <2>1. Stows(Late, mem, p, mem.offer[p], m1)
    BY <1>4, <1>5 DEF Stows
  <2> QED
    BY <2>1, StowBooks
<1>7. PICK L \in SUBSET mem.offer[q] :
          /\ m2 \in Books(Late) /\ m2.offer = mem.offer /\ m2.credits = mem.credits
          /\ \A r \in Players : m2.cargo[r] = m1.cargo[r] \cup (IF r = q THEN L ELSE {})
  <2>1. Stows(Late, m1, q, mem.offer[q], m2)
    BY <1>4, <1>5, <1>6 DEF Stows
  <2> QED
    BY <1>6, <2>1, StowBooks
<1>8. /\ m3 \in Books(Late) /\ m3.cargo = m2.cargo /\ m3.credits = mem.credits
      /\ \A r \in Players : m3.offer[r] = IF r \in {p, q} THEN {} ELSE mem.offer[r]
  <2>1. Empties(Late, m2, p, q, m3)
    BY <1>2, <1>4, <1>5, <1>7 DEF Empties
  <2> QED
    BY <1>7, <2>1, EmptyBooks
<1>9. Single(mem) => Single(m3)
  <2> SUFFICES ASSUME Single(mem) PROVE Single(m3)
    OBVIOUS
  <2>1. \A r \in Players :
            /\ m3.cargo[r] = mem.cargo[r] \cup (IF r = p THEN K ELSE IF r = q THEN L ELSE {})
            /\ m3.offer[r] = IF r \in {p, q} THEN {} ELSE mem.offer[r]
    <3>1. mem.cargo \in [Players -> SUBSET Items]
      BY <1>5 DEF Books, Holdings
    <3> QED
      BY <1>2, <1>6, <1>7, <1>8, <3>1
  <2>2. K \cap L = {}
    BY <1>2, <1>6, <1>7 DEF Single
  <2>3. HandsOver(mem, m3, p, q, K, L)
    BY <1>2, <2>1, <2>2 DEF HandsOver
  <2> QED
    BY <2>3, HandOver
<1>10. EndsWell(p, q)
  BY <1>1, EndsKeeps DEF Cancels, EndsWell
<1>11. mem' = m3
  BY <1>4 DEF Queues
<1>12. Queued(<<m1, m2, m3>>)
  <2>1. /\ <<m1, m2, m3>> \in Seq(Books(Late)) /\ <<m1, m2, m3>> # <<>>
    BY <1>6, <1>7, <1>8
  <2>2. TotalOf(mem'.credits) = Total
    BY <1>1, <1>2, <1>8, <1>11, Playing
  <2>3. \A r \in Players : money'[r] <= mem'.credits[r]
    <3> TAKE r \in Players
    <3>1. mem.credits[r] \in Nat /\ money[r] \in Nat /\ money[r] <= mem.credits[r]
      BY <1>1, <1>2, Playing
    <3>2. money'[r] = IF r \in {p, q} THEN 0 ELSE money[r]
      BY <1>10 DEF EndsWell
    <3> QED
      BY <1>8, <1>11, <3>1, <3>2
  <2> QED
    BY <1>1, <1>4, <1>9, <1>10, <1>11, <2>1, <2>2, <2>3 DEF Queued, Cancels, BookInv, EndsWell
<1> QED
  BY <1>1, <1>10, <1>12, QueuedKeeps DEF GoodsInv, EndsWell

\* Money and things change hands; the payments pass through saved halves (case 21).
LEMMA ExchangeStep ==
    ASSUME Setting, GoodsInv, NEW p \in Players, NEW q \in Players, Exchanges(p, q)
    PROVE  GoodsInv'
<1>1. LoginInv /\ BookInv /\ SaveInv
  BY DEF GoodsInv
<1>2. ~Over /\ p # q /\ Late
  BY <1>1, TradersOn DEF Exchanges
<1>3. /\ mem \in Books(FALSE) /\ TotalOf(mem.credits) = Total
      /\ mem.offer \in [Players -> SUBSET Items]
      /\ \A r \in Players : mem.credits[r] \in Nat /\ money[r] \in Nat /\ money[r] <= mem.credits[r]
  BY <1>1, <1>2, Playing
<1>4. PICK k, n, m3, m4, m5 :
          /\ k = Pays(mem, p, money[q], money[p]) /\ n = Pays(k, q, money[p], money[q])
          /\ m3 \in CargoAddItems(n, p, mem.offer[q]) /\ m4 \in CargoAddItems(m3, q, mem.offer[p])
          /\ m5 = ClearTradeWindowForBoth(m4, p, q) /\ Queues(<<k, n, m3, m4, m5>>)
  BY DEF Exchanges
<1>0. PICK no : no = FALSE
  OBVIOUS
<1>5. /\ k \in Books(TRUE) /\ n \in Books(no)
      /\ n.cargo = mem.cargo /\ n.offer = mem.offer
      /\ \A r \in Players \ {p, q} : n.credits[r] = mem.credits[r]
  <2>1. PICK x, y : x = money[p] /\ y = money[q]
    OBVIOUS
  <2>2. Deals(mem, p, q, x, y, k, n)
    BY <1>2, <1>3, <1>4, <2>1 DEF Deals
  <2>3. k \in Books(TRUE) /\ n \in Books(FALSE) /\ AlikeBut(mem, n, {p, q})
    BY <2>2, PayBooks
  <2> QED
    BY <1>0, <2>3 DEF AlikeBut
<1>6. PICK K \in SUBSET mem.offer[q] :
          /\ m3 \in Books(no) /\ m3.offer = mem.offer /\ m3.credits = n.credits
          /\ \A r \in Players : m3.cargo[r] = mem.cargo[r] \cup (IF r = p THEN K ELSE {})
  <2>1. Stows(no, n, p, mem.offer[q], m3)
    BY <1>0, <1>3, <1>4, <1>5 DEF Stows
  <2> QED
    BY <1>5, <2>1, StowBooks
<1>7. PICK L \in SUBSET mem.offer[p] :
          /\ m4 \in Books(no) /\ m4.offer = mem.offer /\ m4.credits = n.credits
          /\ \A r \in Players : m4.cargo[r] = m3.cargo[r] \cup (IF r = q THEN L ELSE {})
  <2>1. Stows(no, m3, q, mem.offer[p], m4)
    BY <1>0, <1>3, <1>4, <1>6 DEF Stows
  <2> QED
    BY <1>6, <2>1, StowBooks
<1>8. /\ m5 \in Books(no) /\ m5.cargo = m4.cargo /\ m5.credits = n.credits
      /\ \A r \in Players : m5.offer[r] = IF r \in {p, q} THEN {} ELSE mem.offer[r]
  <2>1. Empties(no, m4, p, q, m5)
    BY <1>0, <1>4, <1>7 DEF Empties
  <2> QED
    BY <1>7, <2>1, EmptyBooks
<1>9. Single(mem) => Single(m5)
  <2> SUFFICES ASSUME Single(mem) PROVE Single(m5)
    OBVIOUS
  <2>1. \A r \in Players :
            /\ m5.cargo[r] = mem.cargo[r] \cup (IF r = p THEN K ELSE IF r = q THEN L ELSE {})
            /\ m5.offer[r] = IF r \in {p, q} THEN {} ELSE mem.offer[r]
    BY <1>2, <1>6, <1>7, <1>8
  <2>2. K \cap L = {}
    BY <1>2, <1>6, <1>7 DEF Single
  <2>3. HandsOver(mem, m5, p, q, K, L)
    BY <1>2, <2>1, <2>2 DEF HandsOver
  <2> QED
    BY <2>3, HandOver
<1>10. EndsWell(p, q)
  BY <1>1, EndsKeeps DEF Exchanges, EndsWell
<1>11. mem' = m5
  BY <1>4 DEF Queues
<1>12. Queued(<<k, n, m3, m4, m5>>)
  <2>1. <<k, n, m3, m4, m5>> \in Seq(Books(Late)) /\ <<k, n, m3, m4, m5>> # <<>>
    <3>1. PICK S : S = Books(Late)
      OBVIOUS
    <3>2. Books(TRUE) \subseteq S /\ Books(FALSE) \subseteq S
      BY <1>2, <3>1 DEF Books
    <3>3. k \in S /\ n \in S /\ m3 \in S /\ m4 \in S /\ m5 \in S
      BY <1>0, <1>5, <1>6, <1>7, <1>8, <3>2
    <3> QED
      BY <3>1, <3>3
  <2>2. TotalOf(mem'.credits) = Total /\ mem'.credits \in [Players -> 0..Total] /\ Total \in Nat
    BY <1>0, <1>8, <1>11 DEF Books, Holdings, Setting
  <2>3. \A r \in Players : money'[r] <= mem'.credits[r]
    <3> TAKE r \in Players
    <3>1. mem'.credits[r] \in Nat /\ mem'.credits[r] = n.credits[r]
      BY <1>8, <1>11, <2>2
    <3>2. money'[r] = IF r \in {p, q} THEN 0 ELSE money[r]
      BY <1>10 DEF EndsWell
    <3>3. CASE r \in {p, q}
      BY <3>1, <3>2, <3>3
    <3>4. CASE r \notin {p, q}
      BY <1>3, <1>5, <3>1, <3>2, <3>4
    <3> QED
      BY <3>3, <3>4
  <2> QED
    BY <1>1, <1>4, <1>9, <1>10, <1>11, <2>1, <2>2, <2>3 DEF Queued, Exchanges, BookInv, EndsWell
<1> QED
  BY <1>1, <1>10, <1>12, QueuedKeeps DEF GoodsInv, EndsWell

\* A thing is picked up and saved.
LEMMA PickUpStep ==
    ASSUME Setting, GoodsInv, NEW p \in Players, PicksUp(p)
    PROVE  GoodsInv'
<1>1. LoginInv /\ BookInv /\ SaveInv
  BY DEF GoodsInv
<1>2. ~Over /\ Keep
  BY DEF PicksUp, Over
<1>3. PICK i \in loose : /\ loose' = loose \ {i}
                        /\ Queues(<<[mem EXCEPT !.cargo[p] = mem.cargo[p] \cup {i}]>>)
  BY DEF PicksUp
<1>4. PICK m : m = [mem EXCEPT !.cargo[p] = mem.cargo[p] \cup {i}]
  OBVIOUS
<1>5. m \in Books(Late) /\ m.credits = mem.credits
  <2>1. mem \in Books(Late) /\ Late \in BOOLEAN /\ i \in Items
    BY <1>1, <1>2, LateMeans, Playing DEF BookInv
  <2>2. m \in CargoAddItems(mem, p, {i})
    <3>1. mem.cargo[p] \in SUBSET Items
      BY <2>1 DEF Books, Holdings
    <3>2. Cardinality({i}) = 1 /\ Cardinality(mem.cargo[p]) \in Nat /\ CargoSpace \in Nat
      BY <3>1, FS_Singleton, Finite DEF Setting
    <3>3. PICK room : room = CargoSpace - Cardinality(mem.cargo[p])
      OBVIOUS
    <3>4. room \in Int /\ 1 <= room
      BY <3>2, <3>3 DEF PicksUp
    <3>5. Min({1, room}) = 1
      BY <3>4, SmallestOfTwo
    <3> QED
      BY <1>4, <3>2, <3>3, <3>5 DEF CargoAddItems, CargoFreeSpace
  <2>3. Stows(Late, mem, p, {i}, m)
    BY <2>1, <2>2 DEF Stows
  <2> QED
    BY <2>3, StowBooks
<1>6. mem' = m
  BY <1>3, <1>4 DEF Queues
<1>7. Queued(<<m>>)
  <2>1. <<m>> \in Seq(Books(Late)) /\ <<m>> # <<>>
    BY <1>5
  <2>2. TotalOf(mem'.credits) = Total /\ \A r \in Players : money[r] <= mem'.credits[r]
    BY <1>1, <1>2, <1>5, <1>6, Playing
  <2> QED
    BY <1>1, <1>2, <1>3, <1>4, <2>1, <2>2 DEF Queued, PicksUp, BookInv
<1>8. Calm
  BY <1>1 DEF Calm, PicksUp, LoginInv
<1> QED
  BY <1>1, <1>7, <1>8, CalmKeeps, QueuedKeeps DEF GoodsInv

\* What is left of the saves when one is written.
LEMMA RestOf ==
    ASSUME NEW S, NEW s \in Seq(S), s # <<>>
    PROVE  /\ Head(s) \in S /\ Tail(s) \in Seq(S)
           /\ Tail(s) = <<>> => Head(s) = s[Len(s)]
           /\ Tail(s) # <<>> => Tail(s)[Len(Tail(s))] = s[Len(s)]
<1>1. Len(s) \in Nat \ {0} /\ Head(s) = s[1] /\ Head(s) \in S /\ Tail(s) \in Seq(S)
      /\ Len(Tail(s)) = Len(s) - 1
  OBVIOUS
<1>2. Tail(s) = <<>> => Len(s) = 1
  BY <1>1
<1>3. Tail(s) # <<>> => Tail(s)[Len(Tail(s))] = s[Len(s)]
  <2> SUFFICES ASSUME Tail(s) # <<>> PROVE Tail(s)[Len(Tail(s))] = s[Len(s)]
    OBVIOUS
  <2>1. Len(Tail(s)) \in 1..Len(Tail(s))
    BY <1>1
  <2>2. \A i \in 1..Len(Tail(s)) : Tail(s)[i] = s[i + 1]
    BY <1>1
  <2> QED
    BY <1>1, <2>1, <2>2
<1> QED
  BY <1>1, <1>2, <1>3

\* The save thread writes the oldest save.
LEMMA WriteStep ==
    ASSUME Setting, GoodsInv, Writes
    PROVE  GoodsInv'
<1>1. LoginInv /\ BookInv /\ SaveInv
  BY DEF GoodsInv
<1>2. saves # <<>> /\ Keep
  BY <1>1 DEF Writes, SaveInv
<1>3. saves[Len(saves)] = mem /\ UNCHANGED <<mem, money, session, logins, trade, loose>>
      /\ db' = Head(saves) /\ saves' = Tail(saves)
  BY <1>1, <1>2 DEF Writes, SaveInv
<1>4. PICK S, U : S = Books(Late) /\ U = Books(TRUE)
  OBVIOUS
<1>5. saves \in Seq(S) /\ mem \in U
  BY <1>1, <1>4 DEF BookInv
<1>6. db' \in S /\ saves' \in Seq(S) /\ mem' \in U
  BY <1>2, <1>3, <1>5, RestOf
<1>7. /\ saves' = <<>> => db' = mem'
      /\ saves' # <<>> => saves'[Len(saves')] = mem'
  BY <1>2, <1>3, <1>5, RestOf
<1>8. Books(Late)' = S /\ Books(TRUE)' = U
  BY <1>3, <1>4 DEF Books, Holdings, Fitting, TotalOf, Late
<1>9. (Settled <=> Settled') /\ (Over <=> Over')
  BY <1>3 DEF Settled, Over, TotalOf
<1>10. BookInv'
  BY <1>1, <1>3, <1>6, <1>8, <1>9 DEF BookInv
<1>11. SaveInv'
  BY <1>2, <1>7 DEF SaveInv
<1>12. Calm
  BY <1>1, <1>3 DEF Calm, LoginInv
<1> QED
  BY <1>1, <1>10, <1>11, <1>12, CalmKeeps DEF GoodsInv

\* A crash leaves what was written, by halves only when nobody can play any more.
LEMMA CrashStep ==
    ASSUME Setting, GoodsInv, Crashes
    PROVE  GoodsInv'
<1>1. LoginInv /\ BookInv /\ SaveInv
  BY DEF GoodsInv
<1>2. /\ Keep /\ mem' = db /\ db' = db /\ saves' = <<>> /\ logins' = logins /\ loose' = loose
      /\ session' = [p \in Players |-> 0] /\ trade' = [p \in Players |-> None]
      /\ money' = [p \in Players |-> 0]
  BY DEF Crashes
<1>3. PICK S, U : S = Books(Late) /\ U = Books(TRUE)
  OBVIOUS
<1>4. Books(Late)' = S /\ Books(TRUE)' = U /\ S \subseteq U
  <2>1. Books(Late)' = S /\ Books(TRUE)' = U
    BY <1>2, <1>3 DEF Books, Holdings, Fitting, TotalOf, Late
  <2>2. S \subseteq U
    BY <1>3, LateMeans
  <2> QED
    BY <2>1, <2>2
<1>5. mem' \in U /\ mem' \in S /\ db' \in S /\ saves' \in Seq(S)
  <2>1. db \in S
    BY <1>1, <1>3 DEF BookInv
  <2> QED
    BY <1>2, <1>4, <2>1
<1>6. Settled' \/ Over'
  <2>1. CASE Late
    BY <1>2, <2>1 DEF Late, Over
  <2>2. CASE ~Late
    <3>1. mem' \in Holdings /\ TotalOf(mem'.credits) = Total
      BY <1>3, <1>5, <2>2 DEF Books
    <3>2. \A p \in Players : mem'.credits[p] \in Nat
      BY <3>1 DEF Holdings, Setting
    <3>3. \A p \in Players : money'[p] <= mem'.credits[p]
      BY <1>2, <3>2
    <3>4. TotalOf(mem'.credits) = TotalOf(mem.credits)'
      BY DEF TotalOf
    <3> QED
      BY <3>1, <3>3, <3>4 DEF Settled
  <2> QED
    BY <2>1, <2>2
<1>7. BookInv'
  <2>1. money' \in [Players -> Nat]
    BY <1>2
  <2> QED
    BY <1>1, <1>2, <1>4, <1>5, <1>6, <2>1 DEF BookInv
<1>8. SaveInv'
  BY <1>2 DEF SaveInv
<1>9. LoginInv'
  <2>1. logins' \in 0..MaxLogins /\ session' \in [Players -> 0..logins']
    BY <1>1, <1>2 DEF LoginInv
  <2> QED
    BY <1>2, <2>1 DEF LoginInv
<1> QED
  BY <1>7, <1>8, <1>9 DEF GoodsInv

\* The goods are kept by every step.
LEMMA GoesStep ==
    ASSUME Setting, GoodsInv, Goes
    PROVE  GoodsInv'
BY RestStep, OpensUpStep, BidStep, LogInStep, LogOffStep, ClearStep, SwapStep, CancelStep,
   ExchangeStep, PickUpStep, WriteStep, CrashStep DEF Goes
-----------------------------------------------------------------------------
(***************************************************************************)
(* The steps of Trade are steps for the goods.                             *)
(***************************************************************************)

\* The helpers of the steps.
LEMMA Helpers ==
    ASSUME NEW m, NEW p, NEW q, NEW S
    PROVE  /\ Paid(m, p, q) = Pays(m, p, money[q], money[p])
           /\ CargoFreeSpace(m, p) = CargoSpace - Cardinality(m.cargo[p])
           /\ Queue(S) => Queues(S)
BY DEF Paid, Pays, CargoFreeSpace, Queue, Queues, Keep

\* What two players do in a trade, and a confirmation.
LEMMA TradeSteps ==
    ASSUME Setting, NEW p \in Players, NEW q \in Players
    PROVE  /\ Open(p, q) => OpensUp(p, q)
           /\ OpenSlash(p, q) => Clears(p, q)
           /\ \A i, back :
                 /\ back \in Ones(mem.offer[p]) /\ Offer(p, q, i, back) => Swaps(p, q)
                 /\ back \in Ones(mem.cargo[p]) /\ Withdraw(p, q, i, back) => Swaps(p, q)
           /\ \A n : OfferMoney(p, q, n) => Bids(p, q)
           /\ Confirm(p, q) => Rests
           /\ Exchange(p, q) => Exchanges(p, q)
           /\ CancelTrade(p, q) => Cancels(p, q)
<1>0. Online(p) /\ Partner(p, q) => Trading(p, q)
  BY DEF Online, Partner, Trading
<1>1. Open(p, q) => OpensUp(p, q)
  BY DEF Open, OpenWindows, Online, OpensUp, Opens
<1>2. OpenSlash(p, q) => Clears(p, q)
  <2>1. PICK m : m = ClearTradeWindowForBoth(mem, p, q)
    OBVIOUS
  <2>2. Queue(<<m>>) => Queues(<<m>>)
    BY Helpers
  <2>3. OpenSlash(p, q) => Keep
    BY DEF OpenSlash, Setting
  <2> QED
    BY <2>1, <2>2, <2>3 DEF OpenSlash, OpenWindows, Online, Clears, Opens
<1>3. ASSUME NEW i, NEW back, back \in Ones(mem.offer[p]), Offer(p, q, i, back)
      PROVE  Swaps(p, q)
  <2>1. PICK k, n : /\ k = [mem EXCEPT !.cargo[p] = (mem.cargo[p] \ {i}) \cup back]
                    /\ n = [k EXCEPT !.offer[p] = (k.offer[p] \ back) \cup {i}]
    OBVIOUS
  <2>2. Queue(<<k, n>>) /\ Trading(p, q)
    BY <1>0, <1>3, <2>1 DEF Offer
  <2>3. Swap(mem, p, {i}, back, k, n)
    <3>1. {i} \in Ones(mem.cargo[p])
      BY <1>3 DEF Offer, Ones
    <3>2. back = {} => Cardinality(mem.offer[p]) < Slots
      BY <1>3 DEF Offer
    <3> QED
      BY <1>3, <2>1, <3>1, <3>2 DEF Swap
  <2> QED
    BY <1>3, <2>2, <2>3, Helpers DEF Swaps, Offer
<1>4. ASSUME NEW i, NEW back, back \in Ones(mem.cargo[p]), Withdraw(p, q, i, back)
      PROVE  Swaps(p, q)
  <2>1. PICK k, n : /\ k = [mem EXCEPT !.cargo[p] = (mem.cargo[p] \ back) \cup {i}]
                    /\ n = [k EXCEPT !.offer[p] = (k.offer[p] \ {i}) \cup back]
    OBVIOUS
  <2>2. Queue(<<k, n>>) /\ Trading(p, q)
    BY <1>0, <1>4, <2>1 DEF Withdraw
  <2>3. Swap(mem, p, back, {i}, k, n)
    <3>1. {i} \in Ones(mem.offer[p])
      BY <1>4 DEF Withdraw, Ones
    <3>2. back = {} => CargoSpace - Cardinality(mem.cargo[p]) > 0
      BY <1>4, Helpers DEF Withdraw
    <3> QED
      BY <1>4, <2>1, <3>1, <3>2 DEF Swap
  <2> QED
    BY <1>4, <2>2, <2>3, Helpers DEF Swaps, Withdraw
<1>5. \A n : OfferMoney(p, q, n) => Bids(p, q)
  BY <1>0 DEF OfferMoney, Bids
<1>6. Confirm(p, q) => Rests
  BY DEF Confirm, Rests
<1>7. ASSUME Exchange(p, q) PROVE Exchanges(p, q)
  <2>1. PICK k, n : k = Pays(mem, p, money[q], money[p]) /\ n = Pays(k, q, money[p], money[q])
    OBVIOUS
  <2>2. Paid(mem, p, q) = k /\ Paid(k, q, p) = n
    BY <2>1, Helpers
  <2>3. PICK m3 \in CargoAddItems(n, p, mem.offer[q]) :
        \E m4 \in CargoAddItems(m3, q, mem.offer[p]) :
            Queue(<<k, n, m3, m4, ClearTradeWindowForBoth(m4, p, q)>>)
    BY <1>7, <2>2 DEF Exchange
  <2>4. PICK m4 \in CargoAddItems(m3, q, mem.offer[p]) :
            Queue(<<k, n, m3, m4, ClearTradeWindowForBoth(m4, p, q)>>)
    BY <2>3
  <2>5. /\ m3 \in CargoAddItems(n, p, mem.offer[q]) /\ m4 \in CargoAddItems(m3, q, mem.offer[p])
        /\ Queues(<<k, n, m3, m4, ClearTradeWindowForBoth(m4, p, q)>>)
    BY <2>4, Helpers
  <2>6. Trading(p, q) /\ Ends(p, q) /\ UNCHANGED <<db, session, logins, loose>>
    BY <1>0, <1>7 DEF Exchange, MayConfirm, Ends
  <2>7. confirm[q] # None /\ Cardinality(mem.offer[q]) <= CargoSpace - Cardinality(mem.cargo[p])
    BY <1>7, Helpers DEF Exchange, MayConfirm
  <2> QED
    BY <2>1, <2>5, <2>6, <2>7 DEF Exchanges
<1>8. ASSUME CancelTrade(p, q) PROVE Cancels(p, q)
  <2>1. PICK m1 \in CargoAddItems(mem, p, mem.offer[p]) :
        \E m2 \in CargoAddItems(m1, q, mem.offer[q]) :
            Queue(<<m1, m2, ClearTradeWindowForBoth(m2, p, q)>>)
    BY <1>8 DEF CancelTrade
  <2>2. PICK m2 \in CargoAddItems(m1, q, mem.offer[q]) :
            Queue(<<m1, m2, ClearTradeWindowForBoth(m2, p, q)>>)
    BY <2>1
  <2>3. /\ m1 \in CargoAddItems(mem, p, mem.offer[p]) /\ m2 \in CargoAddItems(m1, q, mem.offer[q])
        /\ Queues(<<m1, m2, ClearTradeWindowForBoth(m2, p, q)>>)
    BY <2>2, Helpers
  <2>4. Trading(p, q) /\ Ends(p, q) /\ UNCHANGED <<db, session, logins, loose>>
    BY <1>0, <1>8 DEF CancelTrade, Ends
  <2> QED
    BY <2>3, <2>4 DEF Cancels
<1> QED
  BY <1>1, <1>2, <1>3, <1>4, <1>5, <1>6, <1>7, <1>8

\* Logins, logoffs, things picked up, the save thread and crashes.
LEMMA OtherSteps ==
    ASSUME Setting, NEW p \in Players
    PROVE  /\ Login(p) => LogsIn(p)
           /\ Logoff(p) => LogsOff(p)
           /\ \A i \in Items : PickUp(p, i) => PicksUp(p)
           /\ WriteSave => Writes
           /\ Crash /\ crashes \in Nat => Crashes
<1>1. Login(p) => LogsIn(p)
  BY DEF Login, Online, LogsIn
<1>2. Logoff(p) => LogsOff(p)
  BY DEF Logoff, LogsOff
<1>3. ASSUME NEW i \in Items, PickUp(p, i)
      PROVE  PicksUp(p)
  <2>1. PICK m : m = [mem EXCEPT !.cargo[p] = mem.cargo[p] \cup {i}]
    OBVIOUS
  <2>2. Queue(<<m>>) /\ Queues(<<m>>)
    BY <1>3, <2>1, Helpers DEF PickUp
  <2>3. CargoSpace - Cardinality(mem.cargo[p]) > 0
    BY <1>3, Helpers DEF PickUp
  <2>4. /\ session[p] # 0 /\ i \in loose /\ loose' = loose \ {i}
        /\ UNCHANGED <<db, money, session, logins, trade>>
    BY <1>3 DEF PickUp, windowVars, Online
  <2>5. Keep
    BY <1>3 DEF PickUp, Setting
  <2> QED
    BY <2>1, <2>2, <2>3, <2>4, <2>5 DEF PicksUp
<1>4. WriteSave => Writes
  BY DEF WriteSave, windowVars, Writes
<1>5. Crash /\ crashes \in Nat => Crashes
  BY DEF Crash, Crashes, Setting, Keep
<1> QED
  BY <1>1, <1>2, <1>3, <1>4, <1>5

\* Every step of Trade is one of these.
LEMMA NextGoes ==
    ASSUME Setting, crashes \in Nat, [Next]_vars PROVE Goes
<1>1. CASE UNCHANGED vars
  BY <1>1 DEF vars, Goes, Rests
<1>2. CASE Next
  <2>3. CASE WriteSave \/ Crash
    <3>1. First \in Players
      BY DEF Setting
    <3> QED
      BY <2>3, <3>1, OtherSteps DEF Goes
  <2>4. CASE \E p \in Players :
                Login(p) \/ Logoff(p) \/ \E i \in Items : PickUp(p, i)
    BY <2>4, OtherSteps DEF Goes
  <2>5. ASSUME NEW p \in Players, NEW q \in Players,
               \/ Open(p, q) \/ OpenSlash(p, q)
               \/ \E i \in Items :
                    \/ \E back \in Ones(mem.offer[p]) : Offer(p, q, i, back)
                    \/ \E back \in Ones(mem.cargo[p]) : Withdraw(p, q, i, back)
               \/ \E n \in 0..mem.credits[p] : OfferMoney(p, q, n)
               \/ Confirm(p, q) \/ Exchange(p, q) \/ CancelTrade(p, q)
        PROVE  Goes
    BY <2>5, TradeSteps DEF Goes
  <2> QED
    BY <1>2, <2>3, <2>4, <2>5 DEF Next, Ones
<1> QED
  BY <1>1, <1>2

-----------------------------------------------------------------------------
(***************************************************************************)
(* The sum of all the credits, and the places of a thing.                  *)
(***************************************************************************)

\* What FoldSet does with the credits f of the players Q, up to three of them.
Tally(f, Q) ==
    LET iter[s \in SUBSET Q] ==
            IF s = {} THEN 0 ELSE LET x == CHOOSE x \in s : TRUE IN iter[s \ {x}] + f[x]
    IN  iter[Q]

\* g is such a sum over every set of players.
Tallies(f, Q, g) ==
    /\ f \in [Q -> Nat]
    /\ g = [s \in SUBSET Q |-> IF s = {} THEN 0
            ELSE g[s \ {CHOOSE x \in s : TRUE}] + f[CHOOSE x \in s : TRUE]]

\* A sum is that over all but one, and the one.
LEMMA TallyOne ==
    ASSUME NEW f, NEW Q, NEW g, Tallies(f, Q, g), NEW s \in SUBSET Q, s # {}
    PROVE  g[{}] = 0 /\ \E x \in s : g[s] = g[s \ {x}] + f[x]
<1>1. g = [u \in SUBSET Q |-> IF u = {} THEN 0
           ELSE g[u \ {CHOOSE x \in u : TRUE}] + f[CHOOSE x \in u : TRUE]]
  BY DEF Tallies
<1>2. g[{}] = 0
  BY <1>1
<1>3. g[s] = g[s \ {CHOOSE x \in s : TRUE}] + f[CHOOSE x \in s : TRUE]
  BY <1>1
<1>4. (CHOOSE x \in s : TRUE) \in s
  OBVIOUS
<1> QED
  BY <1>2, <1>3, <1>4

\* In whatever order they are counted.
Summing(f, Q, g) ==
    /\ \A x \in Q : g[{x}] = f[x]
    /\ \A x, y \in Q : x # y => g[{x, y}] = f[x] + f[y]
    /\ \A x, y, z \in Q : x # y /\ x # z /\ y # z => g[{x, y, z}] = f[x] + f[y] + f[z]

\* Up to three players may be counted in any order.
LEMMA TallyMeans ==
    ASSUME NEW f, NEW Q, NEW g, Tallies(f, Q, g)
    PROVE  Summing(f, Q, g)
<1>0. \A x \in Q : f[x] \in Nat
  BY DEF Tallies
<1>1. ASSUME NEW x \in Q PROVE g[{x}] = f[x]
  <2>1. PICK u \in {x} : g[{}] = 0 /\ g[{x}] = g[{x} \ {u}] + f[u]
    BY TallyOne
  <2>2. u = x /\ {x} \ {u} = {}
    OBVIOUS
  <2> QED
    BY <1>0, <2>1, <2>2
<1>2. ASSUME NEW x \in Q, NEW y \in Q, x # y PROVE g[{x, y}] = f[x] + f[y]
  <2>0. {x, y} \in SUBSET Q /\ {x, y} # {}
    OBVIOUS
  <2>1. PICK u \in {x, y} : g[{x, y}] = g[{x, y} \ {u}] + f[u]
    <3>1. PICK s : s = {x, y}
      OBVIOUS
    <3>2. \E u \in s : g[s] = g[s \ {u}] + f[u]
      BY <2>0, <3>1, TallyOne
    <3> QED
      BY <3>1, <3>2
  <2>2. CASE u = x
    <3>1. {x, y} \ {u} = {y}
      BY <1>2, <2>2
    <3>2. g[{x, y}] = f[y] + f[x]
      BY <1>1, <2>1, <2>2, <3>1
    <3>3. f[x] \in Nat /\ f[y] \in Nat
      BY <1>0
    <3> QED
      BY <3>2, <3>3
  <2>3. CASE u = y
    <3>1. {x, y} \ {u} = {x}
      BY <1>2, <2>3
    <3> QED
      BY <1>1, <2>1, <2>3, <3>1
  <2> QED
    BY <2>2, <2>3
<1>3. ASSUME NEW x \in Q, NEW y \in Q, NEW z \in Q, x # y, x # z, y # z
      PROVE  g[{x, y, z}] = f[x] + f[y] + f[z]
  <2>0. {x, y, z} \in SUBSET Q /\ {x, y, z} # {}
    OBVIOUS
  <2>1. PICK u \in {x, y, z} : g[{x, y, z}] = g[{x, y, z} \ {u}] + f[u]
    <3>1. PICK s : s = {x, y, z}
      OBVIOUS
    <3>2. \E u \in s : g[s] = g[s \ {u}] + f[u]
      BY <2>0, <3>1, TallyOne
    <3> QED
      BY <3>1, <3>2
  <2>2. CASE u = x
    <3>1. {x, y, z} \ {u} = {y, z}
      BY <1>3, <2>2
    <3>2. g[{x, y, z}] = f[y] + f[z] + f[x]
      BY <1>2, <1>3, <2>1, <2>2, <3>1
    <3> QED
      BY <1>0, <3>2
  <2>3. CASE u = y
    <3>1. {x, y, z} \ {u} = {x, z}
      BY <1>3, <2>3
    <3>2. g[{x, y, z}] = f[x] + f[z] + f[y]
      BY <1>2, <1>3, <2>1, <2>3, <3>1
    <3> QED
      BY <1>0, <3>2
  <2>4. CASE u = z
    <3>1. {x, y, z} \ {u} = {x, y}
      BY <1>3, <2>4
    <3>2. g[{x, y, z}] = f[x] + f[y] + f[z]
      BY <1>2, <1>3, <2>1, <2>4, <3>1
    <3> QED
      BY <3>2
  <2> QED
    BY <2>2, <2>3, <2>4
<1>4. \A x \in Q : g[{x}] = f[x]
  BY <1>1
<1>5. \A x, y \in Q : x # y => g[{x, y}] = f[x] + f[y]
  BY <1>2
<1>6. \A x, y, z \in Q : x # y /\ x # z /\ y # z => g[{x, y, z}] = f[x] + f[y] + f[z]
  BY <1>3
<1> QED
  BY <1>4, <1>5, <1>6 DEF Summing

\* There is such a function.
LEMMA TallyExists ==
    ASSUME NEW a, NEW b, NEW c, NEW Q, Q = {a, b, c}, NEW f \in [Q -> Nat]
    PROVE  \E g : Tallies(f, Q, g)
<1> DEFINE part1(s) == IF a \in s THEN f[a] ELSE 0
           part2(s) == IF b \in s /\ b # a THEN f[b] ELSE 0
           part3(s) == IF c \in s /\ c \notin {a, b} THEN f[c] ELSE 0
           g == [s \in SUBSET Q |-> part1(s) + part2(s) + part3(s)]
<1>1. f[a] \in Nat /\ f[b] \in Nat /\ f[c] \in Nat
  OBVIOUS
<1>2. ASSUME NEW s \in SUBSET Q, NEW x \in s
      PROVE  part1(s) + part2(s) + part3(s)
               = (part1(s \ {x}) + part2(s \ {x}) + part3(s \ {x})) + f[x]
  <2>1. CASE x = a
    <3>1. /\ part1(s) = f[a] /\ part1(s \ {x}) = 0
          /\ part2(s) = part2(s \ {x}) /\ part3(s) = part3(s \ {x})
          /\ part2(s) \in Nat /\ part3(s) \in Nat
      BY <1>1, <2>1
    <3> HIDE DEF part1, part2, part3
    <3> QED
      BY <1>1, <2>1, <3>1
  <2>2. CASE x = b /\ b # a
    <3>1. /\ part2(s) = f[b] /\ part2(s \ {x}) = 0
          /\ part1(s) = part1(s \ {x}) /\ part3(s) = part3(s \ {x})
          /\ part1(s) \in Nat /\ part3(s) \in Nat
      BY <1>1, <2>2
    <3> HIDE DEF part1, part2, part3
    <3> QED
      BY <1>1, <2>2, <3>1
  <2>3. CASE x = c /\ c \notin {a, b}
    <3>1. /\ part3(s) = f[c] /\ part3(s \ {x}) = 0
          /\ part1(s) = part1(s \ {x}) /\ part2(s) = part2(s \ {x})
          /\ part1(s) \in Nat /\ part2(s) \in Nat
      BY <1>1, <2>3
    <3> HIDE DEF part1, part2, part3
    <3> QED
      BY <1>1, <2>3, <3>1
  <2> QED
    BY <2>1, <2>2, <2>3
<1>3. part1({}) + part2({}) + part3({}) = 0
  OBVIOUS
<1> HIDE DEF part1, part2, part3
<1>4. \A s \in SUBSET Q : g[s] = part1(s) + part2(s) + part3(s)
  OBVIOUS
<1>5. g[{}] = 0
  BY <1>3, <1>4
<1>6. ASSUME NEW s \in SUBSET Q, s # {}
      PROVE  g[s] = g[s \ {CHOOSE x \in s : TRUE}] + f[CHOOSE x \in s : TRUE]
  <2>1. PICK x : x = CHOOSE y \in s : TRUE
    OBVIOUS
  <2>2. x \in s
    BY <1>6, <2>1
  <2>3. s \ {x} \in SUBSET Q
    OBVIOUS
  <2>4. g[s] = g[s \ {x}] + f[x]
    BY <1>2, <1>4, <2>2, <2>3
  <2> QED
    BY <2>1, <2>4
<1>7. g = [s \in SUBSET Q |-> IF s = {} THEN 0
           ELSE g[s \ {CHOOSE x \in s : TRUE}] + f[CHOOSE x \in s : TRUE]]
  <2>1. g = [s \in SUBSET Q |-> g[s]]
    OBVIOUS
  <2> HIDE DEF g
  <2> QED
    BY <1>5, <1>6, <2>1
<1> HIDE DEF g
<1>8. Tallies(f, Q, g)
  BY <1>7 DEF Tallies
<1> QED
  BY <1>8

\* The fold is the sum over the players.
LEMMA TallyIsTotal ==
    ASSUME Setting, NEW f \in [Players -> Nat]
    PROVE  Tally(f, Players) = TotalOf(f)
<1>1. PICK a, b, c, Q : a = First /\ b = Second /\ c = Third /\ Q = Players
  OBVIOUS
<1>2. Q = {a, b, c} /\ f \in [Q -> Nat]
  BY <1>1 DEF Setting
<1> DEFINE h == CHOOSE k : k = [s \in SUBSET Q |-> IF s = {} THEN 0
                                ELSE k[s \ {CHOOSE x \in s : TRUE}] + f[CHOOSE x \in s : TRUE]]
<1>3. Tallies(f, Q, h)
  <2>1. PICK g : Tallies(f, Q, g)
    BY <1>2, TallyExists
  <2> QED
    BY <2>1 DEF Tallies
<1>4. Tally(f, Q) = h[Q]
  BY DEF Tally
<1> HIDE DEF h
<1>5. /\ \A x \in Q : h[{x}] = f[x]
      /\ \A x, y \in Q : x # y => h[{x, y}] = f[x] + f[y]
      /\ \A x, y, z \in Q : x # y /\ x # z /\ y # z => h[{x, y, z}] = f[x] + f[y] + f[z]
  <2>1. Summing(f, Q, h)
    BY <1>3, TallyMeans
  <2> QED
    BY <2>1 DEF Summing
<1>6. f[a] \in Nat /\ f[b] \in Nat /\ f[c] \in Nat
  BY <1>2
<1>7. h[Q] = f[a] + (IF b = a THEN 0 ELSE f[b]) + (IF c \in {a, b} THEN 0 ELSE f[c])
  <2>1. CASE a = b /\ c \in {a, b}
    <3>1. Q = {a}
      BY <1>2, <2>1
    <3> QED
      BY <1>5, <1>6, <2>1, <3>1
  <2>2. CASE a = b /\ c \notin {a, b}
    <3>1. Q = {a, c} /\ a # c
      BY <1>2, <2>2
    <3>2. a \in Q /\ c \in Q
      BY <1>2
    <3>3. h[{a, c}] = f[a] + f[c]
      BY <1>5, <3>1, <3>2
    <3>4. h[Q] = f[a] + f[c]
      BY <3>1, <3>3
    <3> QED
      <4>1. (IF b = a THEN 0 ELSE f[b]) = 0 /\ (IF c \in {a, b} THEN 0 ELSE f[c]) = f[c]
        BY <2>2
      <4>2. f[a] + 0 + f[c] = f[a] + f[c]
        BY <1>6
      <4> QED
        BY <3>4, <4>1, <4>2
  <2>3. CASE a # b /\ c \in {a, b}
    <3>1. Q = {a, b}
      BY <1>2, <2>3
    <3>2. a \in Q /\ b \in Q
      BY <1>2
    <3>3. h[{a, b}] = f[a] + f[b]
      BY <1>5, <2>3, <3>2
    <3>4. h[Q] = f[a] + f[b]
      BY <3>1, <3>3
    <3> QED
      <4>1. (IF b = a THEN 0 ELSE f[b]) = f[b] /\ (IF c \in {a, b} THEN 0 ELSE f[c]) = 0
        BY <2>3
      <4>2. f[a] + f[b] + 0 = f[a] + f[b]
        BY <1>6
      <4> QED
        BY <3>4, <4>1, <4>2
  <2>4. CASE a # b /\ c \notin {a, b}
    <3>1. a \in Q /\ b \in Q /\ c \in Q /\ a # b /\ a # c /\ b # c
      BY <1>2, <2>4
    <3>2. h[{a, b, c}] = f[a] + f[b] + f[c]
      <4>1. \A x, y, z \in Q : x # y /\ x # z /\ y # z => h[{x, y, z}] = f[x] + f[y] + f[z]
        BY <1>5
      <4> HIDE <1>5
      <4> QED
        BY <3>1, <4>1
    <3>3. h[Q] = f[a] + f[b] + f[c]
      BY <1>2, <3>2
    <3>4. (IF b = a THEN 0 ELSE f[b]) = f[b] /\ (IF c \in {a, b} THEN 0 ELSE f[c]) = f[c]
      BY <2>4
    <3> QED
      BY <3>3, <3>4
  <2> QED
    BY <2>1, <2>2, <2>3, <2>4
<1> QED
  BY <1>1, <1>4, <1>7 DEF TotalOf

\* The players start with as much each.
LEMMA StartTotal ==
    ASSUME Setting, NEW n \in Nat, NEW f, f = [p \in Players |-> n]
    PROVE  TotalOf(f) = n * Cardinality(Players) /\ n * Cardinality(Players) \in Nat
           /\ f \in [Players -> 0..(n * Cardinality(Players))]
<1>1. PICK a, b, c, Q : a = First /\ b = Second /\ c = Third /\ Q = Players
  OBVIOUS
<1>2. Q = {a, b, c}
  BY <1>1 DEF Setting
<1>3. f[a] = n /\ f[b] = n /\ f[c] = n
  BY <1>1, <1>2
<1>4. Cardinality(Q) = 1 + (IF b = a THEN 0 ELSE 1) + (IF c \in {a, b} THEN 0 ELSE 1)
  <2>1. IsFiniteSet({a}) /\ Cardinality({a}) = 1
    BY FS_Singleton
  <2>2. IsFiniteSet({a} \cup {b}) /\ Cardinality({a} \cup {b}) = 1 + (IF b = a THEN 0 ELSE 1)
    BY <2>1, FS_AddElement
  <2>3. {a} \cup {b} = {a, b} /\ {a, b} \cup {c} = Q
    BY <1>2
  <2>4. PICK X : X = {a} \cup {b}
    OBVIOUS
  <2>5. Cardinality(X \cup {c}) = IF c \in X THEN Cardinality(X) ELSE Cardinality(X) + 1
    BY <2>2, <2>4, FS_AddElement
  <2>6. X \cup {c} = Q /\ (c \in X <=> c \in {a, b})
    BY <1>2, <2>4
  <2>7. Cardinality(X) = 1 + (IF b = a THEN 0 ELSE 1)
    BY <2>2, <2>4
  <2> QED
    BY <2>5, <2>6, <2>7
<1>5. TotalOf(f) = n + (IF b = a THEN 0 ELSE n) + (IF c \in {a, b} THEN 0 ELSE n)
  BY <1>1, <1>3 DEF TotalOf
<1>6. \E k \in {1, 2, 3} : Cardinality(Q) = k /\ TotalOf(f) = n * k
  <2>1. CASE a = b /\ c \in {a, b}
    BY <1>4, <1>5, <2>1
  <2>2. CASE a = b /\ c \notin {a, b}
    BY <1>4, <1>5, <2>2
  <2>3. CASE a # b /\ c \in {a, b}
    BY <1>4, <1>5, <2>3
  <2>4. CASE a # b /\ c \notin {a, b}
    BY <1>4, <1>5, <2>4
  <2> QED
    BY <2>1, <2>2, <2>3, <2>4
<1>7. n * Cardinality(Q) \in Nat /\ n \in 0..(n * Cardinality(Q)) /\ TotalOf(f) = n * Cardinality(Q)
  BY <1>6
<1> QED
  BY <1>1, <1>7

\* Of what is in one place it is in at most one.
LEMMA OnePlace ==
    ASSUME Setting, NEW m, Single(m), NEW i
    PROVE  Cardinality({p \in Players : i \in m.cargo[p]})
             + Cardinality({p \in Players : i \in m.offer[p]}) <= 1
<1> DEFINE C == {p \in Players : i \in m.cargo[p]}
           O == {p \in Players : i \in m.offer[p]}
<1>1. /\ \A p, q \in C : p = q
      /\ \A p, q \in O : p = q
      /\ C = {} \/ O = {}
  BY DEF Single
<1> HIDE DEF C, O
<1>2. (C = {} \/ \E p : C = {p}) /\ (O = {} \/ \E p : O = {p})
  BY <1>1
<1>3. Cardinality({}) = 0 /\ \A p : Cardinality({p}) = 1
  BY FS_EmptySet, FS_Singleton
<1>4. Cardinality(C) \in {0, 1} /\ Cardinality(O) \in {0, 1}
  BY <1>2, <1>3
<1>5. Cardinality(C) = 0 \/ Cardinality(O) = 0
  BY <1>1, <1>3
<1> QED
  BY <1>4, <1>5 DEF C, O

-----------------------------------------------------------------------------
(***************************************************************************)
(* What the invariant is for.                                              *)
(***************************************************************************)

\* The start of Trade: cargo are the goods everybody has, each has n credits.
Begins(cargo, n) ==
    /\ cargo \in [Players -> SUBSET Items]
    /\ \A p \in Players : Cardinality(cargo[p]) <= CargoSpace
    /\ \A p, q \in Players : p # q => cargo[p] \cap cargo[q] = {}
    /\ n \in Nat /\ Total = n * Cardinality(Players)
    /\ mem = [cargo |-> cargo, offer |-> [p \in Players |-> {}], credits |-> [p \in Players |-> n]]
    /\ db = mem /\ saves = <<>>
    /\ money = [p \in Players |-> 0] /\ session = [p \in Players |-> 0] /\ logins = 0
    /\ trade = [p \in Players |-> None] /\ loose \subseteq Items

\* The start is in the books.
LEMMA BeginsWell ==
    ASSUME Setting, NEW cargo, NEW n, Begins(cargo, n)
    PROVE  GoodsInv
<1>1. LoginInv
  BY DEF Begins, LoginInv, Setting
<1>2. PICK f : f = [p \in Players |-> n]
  OBVIOUS
<1>3. TotalOf(f) = Total /\ f \in [Players -> 0..Total] /\ n \in Nat
  BY <1>2, StartTotal DEF Begins
<1>4. /\ mem.cargo = cargo /\ mem.offer = [p \in Players |-> {}] /\ mem.credits = f
      /\ mem = [cargo |-> cargo, offer |-> [p \in Players |-> {}], credits |-> f]
  BY <1>2 DEF Begins
<1>5. mem \in Holdings
  <2>1. [p \in Players |-> {}] \in [Players -> SUBSET Items]
    OBVIOUS
  <2>2. cargo \in [Players -> SUBSET Items]
    BY DEF Begins
  <2> QED
    BY <1>3, <1>4, <2>1, <2>2 DEF Holdings
<1>6. Fitting(mem)
  <2>1. Cardinality({}) = 0
    BY FS_EmptySet
  <2> QED
    BY <1>4, <2>1 DEF Fitting, Begins, Setting
<1>7. mem \in Books(TRUE) /\ mem \in Books(FALSE)
  BY <1>3, <1>4, <1>5, <1>6 DEF Books
<1>8. Settled
  <2>1. \A p \in Players : money[p] = 0 /\ mem.credits[p] = n
    BY <1>2, <1>4 DEF Begins
  <2> QED
    BY <1>3, <1>4, <2>1 DEF Settled
<1>9. Single(mem)
  BY <1>4 DEF Single, Begins
<1>10. BookInv
  <2>1. db \in Books(Late) /\ saves \in Seq(Books(Late))
    <3>1. db \in Books(Late)
      BY <1>7, LateMeans DEF Begins
    <3>2. saves = <<>>
      BY DEF Begins
    <3> QED
      BY <3>1, <3>2
  <2> QED
    BY <1>7, <1>8, <2>1 DEF BookInv, Begins
<1>11. SaveInv
  BY <1>8, <1>9 DEF SaveInv, Begins
<1> QED
  BY <1>1, <1>10, <1>11 DEF GoodsInv

\* What the books mean for TypeOK.
LEMMA BooksMean ==
    ASSUME Setting, GoodsInv
    PROVE  /\ mem \in Holdings /\ db \in Holdings /\ Fitting(mem)
           /\ session \in [Players -> 0..MaxLogins] /\ loose \subseteq Items
           /\ \A p \in Players : trade[p] # None => trade[p] \in Players \X (1..MaxLogins)
<1>1. LoginInv /\ BookInv
  BY DEF GoodsInv
<1>2. mem \in Books(TRUE) /\ db \in Books(TRUE) /\ loose \subseteq Items
  <2>1. Late \in BOOLEAN /\ Books(Late) \subseteq Books(TRUE)
    BY LateMeans
  <2> QED
    BY <1>1, <2>1 DEF BookInv
<1>3. logins \in Nat /\ logins <= MaxLogins /\ session \in [Players -> 0..logins] /\ MaxLogins \in Nat
  BY <1>1 DEF LoginInv, Setting
<1>4. session \in [Players -> 0..MaxLogins]
  BY <1>3
<1>5. ASSUME NEW p \in Players, trade[p] # None
      PROVE  trade[p] \in Players \X (1..MaxLogins)
  <2>1. PICK q \in Players \ {p}, n \in 1..logins : trade[p] = <<q, n>>
    BY <1>1, <1>5 DEF LoginInv
  <2>2. n \in 1..MaxLogins
    BY <1>3
  <2> QED
    BY <2>1, <2>2
<1> QED
  BY <1>2, <1>4, <1>5 DEF Books

\* The invariant of any instance.
TradeInv == GoodsInv /\ crashes \in Nat

\* So it is with Init.
LEMMA TradeBegins ==
    ASSUME Given, Init PROVE TradeInv
<1>1. Setting
  BY GivenSets
<1>2. Begins(StartCargo, StartCredits)
  <2>1. /\ StartCargo \in [Players -> SUBSET Items] /\ StartCredits \in Nat
        /\ \A p \in Players : Cardinality(StartCargo[p]) <= CargoSpace
        /\ \A p, q \in Players : p # q => StartCargo[p] \cap StartCargo[q] = {}
    BY DEF Given, TradeAssumption
  <2>2. loose \subseteq Items
    BY DEF Init
  <2> QED
    BY <2>1, <2>2 DEF Begins, Init, Total
<1>3. crashes \in Nat
  BY DEF Init
<1> QED
  BY <1>1, <1>2, <1>3, BeginsWell DEF TradeInv

\* Crashes are counted.
LEMMA CrashesCount ==
    ASSUME crashes \in Nat, [Next]_vars PROVE crashes' \in Nat
<1>1. UNCHANGED vars => crashes' = crashes
  BY DEF vars
<1>2. Crash => crashes' = crashes + 1
  BY DEF Crash
<1>3. \A p, q : Open(p, q) \/ OpenSlash(p, q) \/ Confirm(p, q) \/ Exchange(p, q) \/ CancelTrade(p, q)
                => crashes' = crashes
  BY DEF Open, OpenSlash, Confirm, Exchange, CancelTrade
<1>4. \A p, q, i, back : OfferMoney(p, q, i) \/ Offer(p, q, i, back) \/ Withdraw(p, q, i, back)
                => crashes' = crashes
  BY DEF OfferMoney, Offer, Withdraw
<1>5. \A p, i : Login(p) \/ Logoff(p) \/ PickUp(p, i) \/ WriteSave => crashes' = crashes
  BY DEF Login, Logoff, PickUp, WriteSave, windowVars
<1> QED
  BY <1>1, <1>2, <1>3, <1>4, <1>5 DEF Next

\* Every step keeps the invariant.
LEMMA TradeGoesOn ==
    ASSUME Given, TradeInv, [Next]_vars PROVE TradeInv'
<1>1. Setting /\ GoodsInv /\ crashes \in Nat
  BY GivenSets DEF TradeInv
<1>2. Goes
  BY <1>1, NextGoes
<1>3. GoodsInv'
  BY <1>1, <1>2, GoesStep
<1>4. crashes' \in Nat
  BY <1>1, CrashesCount
<1> QED
  BY <1>3, <1>4 DEF TradeInv

\* What the invariant says of the properties.
LEMMA TradeMeans ==
    ASSUME Given, TradeInv PROVE TypeOK /\ AllSaved /\ (~Keep => Ledger)
<1>1. Setting /\ GoodsInv
  BY GivenSets DEF TradeInv
<1>2. /\ mem \in Holdings /\ db \in Holdings /\ Fitting(mem)
      /\ session \in [Players -> 0..MaxLogins] /\ loose \subseteq Items
      /\ \A p \in Players : trade[p] # None => trade[p] \in Players \X (1..MaxLogins)
  BY <1>1, BooksMean
<1>3. TypeOK
  <2>1. Holdings = Avatars
    BY DEF Holdings, Avatars, Total
  <2> QED
    BY <1>2, <2>1 DEF TypeOK, Fitting
<1>4. AllSaved
  BY <1>1 DEF GoodsInv, SaveInv, AllSaved, Keep
<1>5. ASSUME ~Keep PROVE Ledger
  <2>1. Settled /\ Single(mem)
    BY <1>1, <1>5 DEF GoodsInv, SaveInv
  <2>2. mem.credits \in [Players -> Nat]
    <3>1. mem.credits \in [Players -> 0..Total] /\ Total \in Nat
      BY <1>1, <1>2 DEF Holdings, Setting
    <3> QED
      BY <3>1
  <2>3. ASSUME NEW i PROVE Places(mem, i) <= 1
    <3>1. PICK C, O : /\ C = {p \in Players : i \in mem.cargo[p]}
                      /\ O = {p \in Players : i \in mem.offer[p]}
      OBVIOUS
    <3>2. Cardinality(C) + Cardinality(O) <= 1
      BY <1>1, <2>1, <3>1, OnePlace
    <3> QED
      BY <3>1, <3>2 DEF Places
  <2>4. FoldSet(LAMBDA p, s : s + mem.credits[p], 0, Players) = StartCredits * Cardinality(Players)
    <3>1. Tally(mem.credits, Players) = TotalOf(mem.credits)
      BY <1>1, <2>2, TallyIsTotal
    <3>2. TotalOf(mem.credits) = StartCredits * Cardinality(Players)
      BY <2>1 DEF Settled, Total
    <3>3. Tally(mem.credits, Players) = StartCredits * Cardinality(Players)
      BY <3>1, <3>2
    <3> QED
      BY <3>3 DEF FoldSet, MapThenFoldSet, Tally
  <2> QED
    BY <2>3, <2>4 DEF Ledger
<1> QED
  BY <1>3, <1>4, <1>5

-----------------------------------------------------------------------------
(***************************************************************************)
(* Two players agree.                                                      *)
(***************************************************************************)

\* Two players, who open their windows by request and have all they will trade.
Couple == (\E a, b : Players = {a, b}) /\ ~Slash /\ ~Loot

\* A trade is with the other player, in a login that there has been.
PartnersInv ==
    /\ logins \in Nat
    /\ session \in [Players -> 0..logins]
    /\ trade = [p \in Players |-> trade[p]]
    /\ \A p \in Players : trade[p] # None =>
          \E q \in Players \ {p}, n \in 1..logins : trade[p] = <<q, n>>

\* A confirmation that the other player's window can still see is of the offers as
\* they are.
AgreedInv ==
    /\ confirm = [p \in Players |-> confirm[p]] /\ money = [p \in Players |-> money[p]]
    /\ \A p, q \in Players :
          p # q /\ Partner(p, q) /\ confirm[q] # None =>
            /\ confirm[q] = Terms(q, p)
            /\ Cardinality(mem.offer[p]) <= CargoSpace - Cardinality(mem.cargo[q])

\* The agreement of two.
AgreeInv == PartnersInv /\ AgreedInv

\* At the start there are no windows.
LEMMA AgreedBegins ==
    ASSUME Init PROVE AgreeInv
<1>1. PartnersInv
  BY DEF Init, PartnersInv
<1>2. AgreedInv
  BY DEF Init, AgreedInv
<1> QED
  BY <1>1, <1>2 DEF AgreeInv

\* A player trades with the other one.
LEMMA PartnerIsOther ==
    ASSUME Couple, PartnersInv, NEW p \in Players, NEW q \in Players, Partner(p, q)
    PROVE  p # q /\ Players = {p, q}
<1>1. PICK r \in Players \ {p}, n \in 1..logins : trade[p] = <<r, n>>
  BY DEF PartnersInv, Partner
<1>2. trade[p] = <<q, session[q]>>
  BY DEF Partner
<1>3. q = r
  BY <1>1, <1>2
<1>4. PICK a, b : Players = {a, b}
  BY DEF Couple
<1> QED
  BY <1>1, <1>3, <1>4

\* A change of an offer takes both confirmations back.
LEMMA OfferTakesBack ==
    ASSUME Couple, AgreeInv, NEW p \in Players, NEW q \in Players, Partner(p, q), Unconfirm(p, q),
           UNCHANGED <<session, logins, trade>>,
           money' = [r \in Players |-> money'[r]]
    PROVE  AgreeInv'
<1>1. Players = {p, q}
  BY PartnerIsOther DEF AgreeInv
<1>2. confirm' = [r \in Players |-> None]
  BY <1>1 DEF Unconfirm, AgreeInv, AgreedInv
<1>3. PartnersInv'
  BY DEF AgreeInv, PartnersInv
<1>4. AgreedInv'
  BY <1>2 DEF AgreedInv
<1> QED
  BY <1>3, <1>4 DEF AgreeInv

\* The windows of both are opened for each other: nobody has confirmed.
LEMMA AgreedOpen ==
    ASSUME Couple, AgreeInv, NEW p \in Players, NEW q \in Players, Open(p, q)
    PROVE  AgreeInv'
<1>1. Players = {p, q} /\ p # q
  <2>1. PICK a, b : Players = {a, b}
    BY DEF Couple
  <2> QED
    BY <2>1 DEF Open
<1>2. /\ confirm' = [r \in Players |-> None]
      /\ trade' = [trade EXCEPT ![p] = <<q, session[q]>>, ![q] = <<p, session[p]>>]
      /\ UNCHANGED <<session, logins, money>>
  BY <1>1 DEF Open, OpenWindows, AgreeInv, AgreedInv
<1>3. /\ trade'[p] = <<q, session[q]>> /\ trade'[q] = <<p, session[p]>>
      /\ trade' = [r \in Players |-> trade'[r]]
  BY <1>1, <1>2 DEF AgreeInv, PartnersInv
<1>4. session[p] \in 1..logins /\ session[q] \in 1..logins
  BY DEF Open, Online, AgreeInv, PartnersInv
<1>5. PartnersInv'
  <2>1. ASSUME NEW r \in Players
        PROVE  \E o \in Players \ {r}, n \in 1..logins' : trade'[r] = <<o, n>>
    BY <1>1, <1>2, <1>3, <1>4
  <2>2. logins' \in Nat /\ session' \in [Players -> 0..logins']
    BY <1>2 DEF AgreeInv, PartnersInv
  <2> QED
    BY <2>1, <2>2, <1>3 DEF PartnersInv
<1>6. AgreedInv'
  BY <1>2 DEF AgreeInv, AgreedInv
<1> QED
  BY <1>5, <1>6 DEF AgreeInv

\* A player who confirms agrees to the offers as they are.
LEMMA AgreedConfirm ==
    ASSUME Couple, AgreeInv, NEW p \in Players, NEW q \in Players, Confirm(p, q)
    PROVE  AgreeInv'
<1>1. Players = {p, q} /\ p # q
  BY PartnerIsOther DEF AgreeInv, Confirm, MayConfirm
<1>2. /\ confirm' = [confirm EXCEPT ![p] = Terms(p, q)] /\ confirm[q] = None
      /\ UNCHANGED <<session, logins, trade, money, mem>>
  BY DEF Confirm
<1>3. /\ confirm'[p] = Terms(p, q) /\ confirm'[q] = None
      /\ confirm' = [r \in Players |-> confirm'[r]]
  BY <1>1, <1>2 DEF AgreeInv, AgreedInv
<1>4. Terms(p, q)' = Terms(p, q)
  BY <1>2 DEF Terms
<1>5. AgreedInv'
  <2> SUFFICES ASSUME NEW r \in Players, NEW o \in Players, r # o, confirm'[o] # None
               PROVE  /\ confirm'[o] = Terms(o, r)'
                      /\ Cardinality(mem'.offer[r]) <= CargoSpace - Cardinality(mem'.cargo[o])
    BY <1>2, <1>3 DEF AgreeInv, AgreedInv
  <2>1. o = p /\ r = q
    BY <1>1, <1>3
  <2>2. Cardinality(mem.offer[q]) <= CargoSpace - Cardinality(mem.cargo[p])
    BY DEF Confirm, MayConfirm, CargoFreeSpace
  <2> QED
    BY <2>1, <2>2, <1>2, <1>3, <1>4
<1>6. PartnersInv'
  BY <1>2 DEF AgreeInv, PartnersInv
<1> QED
  BY <1>5, <1>6 DEF AgreeInv

\* A trade that ends leaves no partner.
LEMMA AgreedEnd ==
    ASSUME Couple, AgreeInv, NEW p \in Players, NEW q \in Players, Exchange(p, q) \/ CancelTrade(p, q)
    PROVE  AgreeInv'
<1>1. Players = {p, q} /\ p # q
  BY PartnerIsOther DEF AgreeInv, Exchange, MayConfirm, CancelTrade
<1>2. /\ trade' = [trade EXCEPT ![p] = None, ![q] = None]
      /\ money' = [money EXCEPT ![p] = 0, ![q] = 0]
      /\ UNCHANGED <<session, logins>>
  BY DEF Exchange, CancelTrade
<1>3. \/ confirm' = [confirm EXCEPT ![p] = Fulfilled, ![q] = Fulfilled]
      \/ confirm' = [confirm EXCEPT ![p] = None, ![q] = None]
  BY DEF Exchange, CancelTrade
<1>4. trade' = [r \in Players |-> None]
  BY <1>1, <1>2 DEF AgreeInv, PartnersInv
<1>5. money' = [r \in Players |-> money'[r]]
  BY <1>2 DEF AgreeInv, AgreedInv
<1>6. confirm' = [r \in Players |-> confirm'[r]]
  BY <1>3 DEF AgreeInv, AgreedInv
<1>7. PartnersInv'
  BY <1>2, <1>4 DEF AgreeInv, PartnersInv
<1>8. AgreedInv'
  BY <1>4, <1>5, <1>6 DEF AgreedInv, Partner
<1> QED
  BY <1>7, <1>8 DEF AgreeInv

\* A login is one that no window knows.
LEMMA AgreedLogin ==
    ASSUME Couple, AgreeInv, NEW p \in Players, Login(p)
    PROVE  AgreeInv'
<1>1. /\ logins' = logins + 1 /\ session' = [session EXCEPT ![p] = logins + 1]
      /\ UNCHANGED <<mem, money, trade, confirm>>
  BY DEF Login
<1>2. logins \in Nat /\ session \in [Players -> 0..logins]
  BY DEF AgreeInv, PartnersInv
<1>3. PartnersInv'
  <2>1. logins' \in Nat /\ session' \in [Players -> 0..logins']
    BY <1>1, <1>2
  <2>2. \A n \in 1..logins : n \in 1..logins'
    BY <1>1, <1>2
  <2> QED
    BY <1>1, <2>1, <2>2 DEF AgreeInv, PartnersInv
<1>4. ASSUME NEW r \in Players, NEW o \in Players, Partner(r, o)'
      PROVE  Partner(r, o)
  <2>1. trade[r] # None /\ trade[r] = <<o, session'[o]>>
    BY <1>1, <1>4 DEF Partner
  <2>2. PICK x \in Players, n \in 1..logins : trade[r] = <<x, n>>
    BY <2>1 DEF AgreeInv, PartnersInv
  <2>3. session'[o] \in 1..logins
    BY <2>1, <2>2
  <2>4. session'[o] = session[o]
    BY <2>3, <1>1, <1>2
  <2> QED
    BY <2>1, <2>4 DEF Partner
<1>5. AgreedInv'
  <2>1. \A r, o \in Players : Terms(r, o)' = Terms(r, o)
    BY <1>1 DEF Terms
  <2> QED
    BY <1>1, <1>4, <2>1 DEF AgreeInv, AgreedInv
<1> QED
  BY <1>3, <1>5 DEF AgreeInv

\* A player who logs off is nobody's partner, and has no window.
LEMMA AgreedLogoff ==
    ASSUME Couple, AgreeInv, NEW p \in Players, Logoff(p)
    PROVE  AgreeInv'
<1>1. /\ session' = [session EXCEPT ![p] = 0] /\ trade' = [trade EXCEPT ![p] = None]
      /\ confirm' = [confirm EXCEPT ![p] = None] /\ money' = [money EXCEPT ![p] = 0]
      /\ UNCHANGED <<mem, logins>>
  BY DEF Logoff
<1>2. logins \in Nat /\ session \in [Players -> 0..logins]
  BY DEF AgreeInv, PartnersInv
<1>3. /\ trade' = [r \in Players |-> trade'[r]] /\ trade'[p] = None
      /\ \A r \in Players \ {p} : trade'[r] = trade[r]
      /\ confirm' = [r \in Players |-> confirm'[r]] /\ money' = [r \in Players |-> money'[r]]
  BY <1>1 DEF AgreeInv, PartnersInv, AgreedInv
<1>4. PartnersInv'
  <2>1. logins' \in Nat /\ session' \in [Players -> 0..logins']
    BY <1>1, <1>2
  <2>2. ASSUME NEW r \in Players, trade'[r] # None
        PROVE  \E q \in Players \ {r}, n \in 1..logins' : trade'[r] = <<q, n>>
    <3>1. r # p /\ trade'[r] = trade[r]
      BY <1>3, <2>2
    <3> QED
      BY <3>1, <2>2, <1>1 DEF AgreeInv, PartnersInv
  <2> QED
    BY <1>3, <2>1, <2>2 DEF PartnersInv
<1>5. ASSUME NEW r \in Players, NEW o \in Players, r # o
      PROVE  ~Partner(r, o)'
  <2> SUFFICES ASSUME trade'[r] # None, trade'[r] = <<o, session'[o]>> PROVE FALSE
    BY DEF Partner
  <2>1. o = p
    <3>1. PICK a, b : Players = {a, b}
      BY DEF Couple
    <3> QED
      BY <1>3, <1>5, <3>1
  <2>2. PICK x \in Players, n \in 1..logins' : trade'[r] = <<x, n>>
    BY <1>4 DEF PartnersInv
  <2>3. session'[o] = 0
    BY <2>1, <1>1, <1>2
  <2> QED
    BY <2>2, <2>3, <1>1, <1>2
<1>6. AgreedInv'
  BY <1>3, <1>5 DEF AgreedInv
<1> QED
  BY <1>4, <1>6 DEF AgreeInv

\* After a crash nobody is logged in.
LEMMA AgreedCrash ==
    ASSUME Couple, AgreeInv, Crash
    PROVE  AgreeInv'
<1>1. /\ session' = [p \in Players |-> 0] /\ trade' = [p \in Players |-> None]
      /\ confirm' = [p \in Players |-> None] /\ money' = [p \in Players |-> 0]
      /\ logins' = logins
  BY DEF Crash
<1>2. PartnersInv'
  BY <1>1 DEF AgreeInv, PartnersInv
<1>3. AgreedInv'
  BY <1>1 DEF AgreedInv
<1> QED
  BY <1>2, <1>3 DEF AgreeInv

\* A step of the pair is one of these.
LEMMA AgreedSplit ==
    ASSUME Couple, [Next]_(vars)
    PROVE  \/ UNCHANGED <<session, logins, trade, confirm, money, mem>>
           \/ Crash
           \/ \E p \in Players : Login(p) \/ Logoff(p)
           \/ \E p, q \in Players :
                \/ Open(p, q) \/ Confirm(p, q)
                \/ Exchange(p, q) \/ CancelTrade(p, q)
                \/ \E n \in 0..mem.credits[p] : OfferMoney(p, q, n)
                \/ \E i \in Items :
                     \/ \E back \in {{}} \cup {{j} : j \in mem.offer[p]} :
                            Offer(p, q, i, back)
                     \/ \E back \in {{}} \cup {{j} : j \in mem.cargo[p]} :
                            Withdraw(p, q, i, back)
<1>1. WriteSave => UNCHANGED <<session, logins, trade, confirm, money, mem>>
  BY DEF WriteSave, windowVars
<1>2. UNCHANGED vars => UNCHANGED <<session, logins, trade, confirm, money, mem>>
  BY DEF vars
<1>3. \A p, q, i : ~OpenSlash(p, q) /\ ~PickUp(p, i)
  BY DEF Couple, OpenSlash, PickUp
<1> QED
  BY <1>1, <1>2, <1>3, Zenon DEF Next

\* Every step keeps it.
LEMMA AgreedGoesOn ==
    ASSUME Couple, AgreeInv, [Next]_(vars)
    PROVE  AgreeInv'
<1>1. CASE UNCHANGED <<session, logins, trade, confirm, money, mem>>
  BY <1>1 DEF AgreeInv, PartnersInv, AgreedInv, Partner, Terms
<1>2. ASSUME NEW p \in Players, NEW q \in Players, NEW n, OfferMoney(p, q, n)
      PROVE  AgreeInv'
  <2>1. money' = [r \in Players |-> money'[r]]
    BY <1>2 DEF OfferMoney, AgreeInv, AgreedInv
  <2> QED
    BY <1>2, <2>1, OfferTakesBack DEF OfferMoney
<1>3. ASSUME NEW p \in Players, NEW q \in Players, NEW i, NEW back,
             Offer(p, q, i, back) \/ Withdraw(p, q, i, back)
      PROVE  AgreeInv'
  <2>1. Partner(p, q) /\ Unconfirm(p, q) /\ UNCHANGED <<session, logins, trade, money>>
    BY <1>3 DEF Offer, Withdraw
  <2>2. money' = [r \in Players |-> money'[r]]
    BY <2>1 DEF AgreeInv, AgreedInv
  <2> QED
    BY <2>1, <2>2, OfferTakesBack
<1> QED
  BY <1>1, <1>2, <1>3, AgreedOpen, AgreedConfirm, AgreedEnd, AgreedLogin, AgreedLogoff,
     AgreedCrash, AgreedSplit

\* Whoever has confirmed has room for what comes.
RoomToCome ==
    \A p, q \in Players : Trading(p, q) /\ confirm[q] # None =>
        Cardinality(mem.offer[p]) <= CargoSpace - Cardinality(mem.cargo[q])

\* Who has confirmed has room: the confirmation was checked, and is taken back at every
\* change.
LEMMA AgreedRoom ==
    ASSUME Couple, AgreeInv PROVE RoomToCome
<1> SUFFICES ASSUME NEW p \in Players, NEW q \in Players, Trading(p, q), confirm[q] # None
             PROVE  Cardinality(mem.offer[p]) <= CargoSpace - Cardinality(mem.cargo[q])
  BY DEF RoomToCome
<1>1. Partner(p, q)
  BY DEF Trading, Partner
<1>2. p # q
  BY <1>1, PartnerIsOther DEF AgreeInv
<1> QED
  BY <1>1, <1>2 DEF AgreeInv, AgreedInv

\* Things change hands on the terms both have confirmed.
LEMMA AgreedTerms ==
    ASSUME Couple, AgreeInv PROVE OnTerms
<1> SUFFICES ASSUME NEW p \in Players, NEW q \in Players, Exchange(p, q)
             PROVE  confirm[q] = Terms(q, p)
  BY DEF OnTerms
<1>1. Partner(p, q) /\ confirm[q] # None
  BY DEF Exchange, MayConfirm
<1>2. p # q
  BY <1>1, PartnerIsOther DEF AgreeInv
<1> QED
  BY <1>1, <1>2 DEF AgreeInv, AgreedInv

-----------------------------------------------------------------------------
(***************************************************************************)
(* Nothing is lost.                                                        *)
(***************************************************************************)

\* Every thing is in a hold, in a window or lies about, and a player has room for
\* what is in the own window.
Whole ==
    /\ NothingLost
    /\ \A p \in Players : Cardinality(mem.cargo[p] \cup mem.offer[p]) <= CargoSpace

\* Things that fit are all stowed.
LEMMA StowAll ==
    ASSUME NEW halves, NEW m, NEW p, NEW things, NEW n, Stows(halves, m, p, things, n),
           Cardinality(things) <= CargoSpace - Cardinality(m.cargo[p])
    PROVE  /\ n.offer = m.offer
           /\ \A r \in Players : n.cargo[r] = m.cargo[r] \cup (IF r = p THEN things ELSE {})
           /\ Cardinality(n.cargo[p]) <= CargoSpace
<1>1. /\ Setting /\ halves \in BOOLEAN /\ m \in Books(halves) /\ p \in Players
      /\ things \subseteq Items /\ n \in CargoAddItems(m, p, things)
  BY DEF Stows
<1>2. n \in Books(halves) /\ n.offer = m.offer
  BY StowBooks
<1>3. PICK kept \in SUBSET things :
          /\ Cardinality(kept) = Min({Cardinality(things), CargoSpace - Cardinality(m.cargo[p])})
          /\ n = [m EXCEPT !.cargo[p] = m.cargo[p] \cup kept]
  BY <1>1 DEF CargoAddItems, CargoFreeSpace
<1>4. m.cargo \in [Players -> SUBSET Items] /\ m \in Holdings
  BY <1>1 DEF Books, Holdings
<1>5. /\ Cardinality(things) \in Nat /\ Cardinality(m.cargo[p]) \in Nat /\ CargoSpace \in Nat
      /\ IsFiniteSet(things)
  BY <1>1, <1>4, Finite DEF Setting
<1>6. Cardinality(kept) = Cardinality(things)
  <2>1. PICK i, j : i = Cardinality(things) /\ j = CargoSpace - Cardinality(m.cargo[p])
    OBVIOUS
  <2>2. i \in Int /\ j \in Int /\ i <= j /\ Cardinality(kept) = Min({i, j})
    BY <1>3, <1>5, <2>1
  <2> QED
    BY <2>1, <2>2, SmallestOfTwo
<1>7. kept = things
  BY <1>5, <1>6, FS_Subset
<1>8. n.cargo = [m.cargo EXCEPT ![p] = m.cargo[p] \cup things]
  BY <1>3, <1>4, <1>7 DEF Holdings
<1>9. \A r \in Players : n.cargo[r] = m.cargo[r] \cup (IF r = p THEN things ELSE {})
  BY <1>1, <1>4, <1>8
<1>10. Cardinality(n.cargo[p]) <= CargoSpace
  BY <1>1, <1>2 DEF Books, Fitting
<1> QED
  BY <1>2, <1>9, <1>10

\* What a player has in the own window is apart from the hold.
LEMMA OwnApart ==
    ASSUME Setting, NEW m \in Holdings, Single(m), NEW p \in Players,
           Cardinality(m.cargo[p] \cup m.offer[p]) <= CargoSpace
    PROVE  Cardinality(m.offer[p]) <= CargoSpace - Cardinality(m.cargo[p])
<1>1. m.cargo[p] \in SUBSET Items /\ m.offer[p] \in SUBSET Items /\ m.cargo[p] \cap m.offer[p] = {}
  BY DEF Holdings, Single
<1>2. /\ IsFiniteSet(m.cargo[p]) /\ IsFiniteSet(m.offer[p])
      /\ Cardinality(m.cargo[p]) \in Nat /\ Cardinality(m.offer[p]) \in Nat /\ CargoSpace \in Nat
  BY <1>1, Finite DEF Setting
<1>3. Cardinality(m.cargo[p] \cup m.offer[p]) =
          Cardinality(m.cargo[p]) + Cardinality(m.offer[p]) - Cardinality(m.cargo[p] \cap m.offer[p])
  BY <1>2, FS_Union
<1>4. Cardinality(m.cargo[p] \cap m.offer[p]) = 0
  BY <1>1, FS_EmptySet
<1>5. PICK i, j, k : i = Cardinality(m.cargo[p]) /\ j = Cardinality(m.offer[p]) /\ k = CargoSpace
  OBVIOUS
<1>6. i \in Nat /\ j \in Nat /\ k \in Nat /\ i + j - 0 <= k
  BY <1>2, <1>3, <1>4, <1>5
<1>7. j <= k - i
  BY <1>6
<1> QED
  BY <1>5, <1>7

\* Two players have changed what they have among them.
Among(p, q) ==
    /\ p \in Players /\ q \in Players
    /\ \A r \in Players \ {p, q} : mem'.cargo[r] = mem.cargo[r] /\ mem'.offer[r] = mem.offer[r]
    /\ mem'.cargo[p] \cup mem'.offer[p] \cup mem'.cargo[q] \cup mem'.offer[q]
         = mem.cargo[p] \cup mem.offer[p] \cup mem.cargo[q] \cup mem.offer[q]
    /\ Cardinality(mem'.cargo[p] \cup mem'.offer[p]) <= CargoSpace
    /\ Cardinality(mem'.cargo[q] \cup mem'.offer[q]) <= CargoSpace
    /\ loose' = loose

\* What goes on between two players loses nothing.
LEMMA AmongKeeps ==
    ASSUME Whole, NEW p, NEW q, Among(p, q)
    PROVE  Whole'
<1> DEFINE Has(r) == mem.cargo[r] \cup mem.offer[r]
           Now(r) == mem'.cargo[r] \cup mem'.offer[r]
<1>1. /\ p \in Players /\ q \in Players /\ loose' = loose
      /\ \A r \in Players \ {p, q} : Now(r) = Has(r)
      /\ Now(p) \cup Now(q) = Has(p) \cup Has(q)
      /\ Cardinality(Now(p)) <= CargoSpace /\ Cardinality(Now(q)) <= CargoSpace
  <2>1. Now(p) \cup Now(q) = Has(p) \cup Has(q)
    BY DEF Among
  <2> QED
    BY <2>1 DEF Among
<1>2. \A r \in Players : Cardinality(Has(r)) <= CargoSpace
  BY DEF Whole
<1> HIDE DEF Has, Now
<1>3. UNION {Now(r) : r \in Players} = UNION {Has(r) : r \in Players}
  BY <1>1
<1>4. \A r \in Players : Cardinality(Now(r)) <= CargoSpace
  <2> TAKE r \in Players
  <2>1. CASE r \in {p, q}
    BY <1>1, <2>1
  <2>2. CASE r \notin {p, q}
    BY <1>1, <1>2, <2>2
  <2> QED
    BY <2>1, <2>2
<1> QED
  BY <1>1, <1>3, <1>4 DEF Whole, NothingLost, Held, Has, Now

\* Where nobody keeps saves, every thing is in one place.
Sound == Setting /\ GoodsInv /\ ~Keep /\ RoomToCome /\ Whole

\* What is sound is settled, and single.
LEMMA SoundMeans ==
    ASSUME Sound
    PROVE  /\ Setting /\ LoginInv /\ BookInv /\ ~Keep /\ Whole
           /\ Settled /\ Single(mem)
BY DEF Sound, GoodsInv, SaveInv

\* A swap loses nothing.
LEMMA SwapWhole ==
    ASSUME Sound, NEW p, NEW q, Swaps(p, q)
    PROVE  Whole'
<1>1. /\ Setting /\ LoginInv /\ BookInv /\ Whole
      /\ p \in Players /\ loose' = loose
  BY SoundMeans DEF Swaps, Trading
<1>2. PICK out, in, k, n : Swap(mem, p, out, in, k, n) /\ Queues(<<k, n>>)
  BY DEF Swaps
<1>3. mem' = n
  BY <1>2 DEF Queues
<1>4. mem \in Holdings /\ out \subseteq mem.cargo[p] /\ in \subseteq mem.offer[p]
  BY <1>1, <1>2 DEF BookInv, Books, Swap, Ones
<1>5. PICK c, o : c = (mem.cargo[p] \ out) \cup in /\ o = (mem.offer[p] \ in) \cup out
  OBVIOUS
<1>6. n = [k EXCEPT !.offer[p] = (k.offer[p] \ in) \cup out] /\ k = [mem EXCEPT !.cargo[p] = c]
  BY <1>2, <1>5 DEF Swap
<1>7. k.offer = mem.offer /\ k.cargo = [mem.cargo EXCEPT ![p] = c]
  BY <1>4, <1>6 DEF Holdings
<1>8. n = [k EXCEPT !.offer[p] = o]
  BY <1>5, <1>6, <1>7
<1>9. n.cargo = [mem.cargo EXCEPT ![p] = c] /\ n.offer = [mem.offer EXCEPT ![p] = o]
  BY <1>4, <1>6, <1>7, <1>8 DEF Holdings
<1>10. /\ n.cargo[p] = c /\ n.offer[p] = o
       /\ \A r \in Players \ {p} : n.cargo[r] = mem.cargo[r] /\ n.offer[r] = mem.offer[r]
  BY <1>1, <1>4, <1>9 DEF Holdings
<1>11. c \cup o = mem.cargo[p] \cup mem.offer[p]
  BY <1>4, <1>5
<1>12. Among(p, p)
  <2>1. Cardinality(mem.cargo[p] \cup mem.offer[p]) <= CargoSpace
    BY <1>1 DEF Whole
  <2>2. n.cargo[p] \cup n.offer[p] = mem.cargo[p] \cup mem.offer[p]
    BY <1>10, <1>11
  <2> QED
    BY <1>1, <1>3, <1>10, <2>1, <2>2 DEF Among
<1> QED
  BY <1>1, <1>12, AmongKeeps

\* All that p and q have among them ends up in their holds.
AllIn(p, q, n) ==
    /\ p \in Players /\ q \in Players /\ p # q
    /\ \A r \in Players \ {p, q} : n.cargo[r] = mem.cargo[r] /\ n.offer[r] = mem.offer[r]
    /\ n.cargo[p] \cup n.cargo[q] = mem.cargo[p] \cup mem.offer[p] \cup mem.cargo[q] \cup mem.offer[q]
    /\ n.offer[p] = {} /\ n.offer[q] = {}
    /\ Cardinality(n.cargo[p]) <= CargoSpace /\ Cardinality(n.cargo[q]) <= CargoSpace
    /\ mem' = n /\ loose' = loose

\* What ends up in two holds is not lost.
LEMMA AllInKeeps ==
    ASSUME Whole, NEW p, NEW q, NEW n, AllIn(p, q, n)
    PROVE  Whole'
<1>1. n.cargo[p] \cup n.offer[p] = n.cargo[p] /\ n.cargo[q] \cup n.offer[q] = n.cargo[q]
  BY DEF AllIn
<1>2. Among(p, q)
  <2>1. mem'.cargo[p] \cup mem'.offer[p] \cup mem'.cargo[q] \cup mem'.offer[q]
          = mem.cargo[p] \cup mem.offer[p] \cup mem.cargo[q] \cup mem.offer[q]
    BY DEF AllIn
  <2> QED
    BY <1>1, <2>1 DEF Among, AllIn
<1> QED
  BY <1>2, AmongKeeps

\* A cancelled trade loses nothing: what one has offered, one has room for.
LEMMA CancelWhole ==
    ASSUME Sound, NEW p, NEW q, Cancels(p, q)
    PROVE  Whole'
<1>1. /\ Setting /\ LoginInv /\ BookInv /\ Whole /\ Single(mem)
      /\ Trading(p, q) /\ loose' = loose
  BY SoundMeans DEF Cancels
<1>2. p \in Players /\ q \in Players /\ p # q /\ ~Over
  BY <1>1, TradersOn
<1>3. PICK no : no = FALSE
  OBVIOUS
<1>4. PICK m1, m2, m3 :
          /\ m1 \in CargoAddItems(mem, p, mem.offer[p]) /\ m2 \in CargoAddItems(m1, q, mem.offer[q])
          /\ m3 = ClearTradeWindowForBoth(m2, p, q) /\ Queues(<<m1, m2, m3>>)
  BY DEF Cancels
<1>5. mem \in Books(no) /\ mem \in Holdings /\ mem.offer \in [Players -> SUBSET Items]
  BY <1>1, <1>2, <1>3, Playing DEF Books
<1>6. \A r \in Players : Cardinality(mem.offer[r]) <= CargoSpace - Cardinality(mem.cargo[r])
  BY <1>1, <1>5, OwnApart DEF Whole
<1>7. /\ m1 \in Books(no) /\ m1.offer = mem.offer /\ Cardinality(m1.cargo[p]) <= CargoSpace
      /\ \A r \in Players : m1.cargo[r] = mem.cargo[r] \cup (IF r = p THEN mem.offer[p] ELSE {})
  <2>1. Stows(no, mem, p, mem.offer[p], m1)
    BY <1>1, <1>2, <1>3, <1>4, <1>5 DEF Stows
  <2> QED
    BY <1>2, <1>6, <2>1, StowAll, StowBooks
<1>8. /\ m2 \in Books(no) /\ m2.offer = mem.offer /\ Cardinality(m2.cargo[q]) <= CargoSpace
      /\ \A r \in Players : m2.cargo[r] = m1.cargo[r] \cup (IF r = q THEN mem.offer[q] ELSE {})
  <2>1. Stows(no, m1, q, mem.offer[q], m2)
    BY <1>1, <1>2, <1>3, <1>4, <1>5, <1>7 DEF Stows
  <2>2. m1.cargo[q] = mem.cargo[q]
    BY <1>2, <1>7
  <2>3. Cardinality(mem.offer[q]) <= CargoSpace - Cardinality(m1.cargo[q])
    BY <1>2, <1>6, <2>2
  <2> QED
    BY <1>7, <2>1, <2>3, StowAll, StowBooks
<1>9. /\ m3.cargo = m2.cargo
      /\ \A r \in Players : m3.offer[r] = IF r \in {p, q} THEN {} ELSE mem.offer[r]
  <2>1. Empties(no, m2, p, q, m3)
    BY <1>1, <1>2, <1>3, <1>4, <1>8 DEF Empties
  <2> QED
    BY <1>8, <2>1, EmptyBooks
<1>10. AllIn(p, q, m3)
  <2>1. /\ m3.cargo[p] = mem.cargo[p] \cup mem.offer[p] /\ m3.cargo[q] = mem.cargo[q] \cup mem.offer[q]
        /\ \A r \in Players \ {p, q} : m3.cargo[r] = mem.cargo[r] /\ m3.offer[r] = mem.offer[r]
        /\ m3.offer[p] = {} /\ m3.offer[q] = {}
    <3>1. \A r \in Players :
              m3.cargo[r] = mem.cargo[r] \cup (IF r = p THEN mem.offer[p] ELSE IF r = q THEN mem.offer[q] ELSE {})
      BY <1>2, <1>7, <1>8, <1>9
    <3>2. m3.offer[p] = {} /\ m3.offer[q] = {} /\ \A r \in Players \ {p, q} : m3.offer[r] = mem.offer[r]
      BY <1>2, <1>9
    <3>3. \A r \in Players \ {p, q} : m3.cargo[r] = mem.cargo[r]
      BY <3>1
    <3> QED
      BY <1>2, <3>1, <3>2, <3>3
  <2>2. Cardinality(m3.cargo[p]) <= CargoSpace /\ Cardinality(m3.cargo[q]) <= CargoSpace
    <3>1. m2.cargo[p] = m1.cargo[p]
      BY <1>2, <1>8
    <3> QED
      BY <1>7, <1>8, <1>9, <3>1
  <2>3. mem' = m3
    BY <1>4 DEF Queues
  <2> QED
    BY <1>1, <1>2, <2>1, <2>2, <2>3 DEF AllIn
<1> QED
  BY <1>1, <1>10, AllInKeeps

\* Nor does an exchange: both have room for what comes.
LEMMA ExchangeWhole ==
    ASSUME Sound, NEW p, NEW q, Exchanges(p, q)
    PROVE  Whole'
<1>1. /\ Setting /\ LoginInv /\ BookInv /\ Whole /\ Single(mem)
      /\ Trading(p, q) /\ loose' = loose
  BY SoundMeans DEF Exchanges
<1>2. p \in Players /\ q \in Players /\ p # q /\ ~Over
  BY <1>1, TradersOn
<1>3. PICK no : no = FALSE
  OBVIOUS
<1>4. PICK k, n, m3, m4, m5 :
          /\ k = Pays(mem, p, money[q], money[p]) /\ n = Pays(k, q, money[p], money[q])
          /\ m3 \in CargoAddItems(n, p, mem.offer[q]) /\ m4 \in CargoAddItems(m3, q, mem.offer[p])
          /\ m5 = ClearTradeWindowForBoth(m4, p, q) /\ Queues(<<k, n, m3, m4, m5>>)
  BY DEF Exchanges
<1>5. /\ mem \in Books(FALSE) /\ mem.offer \in [Players -> SUBSET Items]
      /\ \A r \in Players : money[r] \in Nat /\ money[r] <= mem.credits[r]
  BY <1>1, <1>2, Playing
<1>6. n \in Books(no) /\ n.cargo = mem.cargo /\ n.offer = mem.offer
  <2>1. PICK x, y : x = money[p] /\ y = money[q]
    OBVIOUS
  <2>2. Deals(mem, p, q, x, y, k, n)
    BY <1>1, <1>2, <1>4, <1>5, <2>1 DEF Deals
  <2>3. n \in Books(FALSE) /\ AlikeBut(mem, n, {p, q})
    BY <2>2, PayBooks
  <2> QED
    BY <1>3, <2>3 DEF AlikeBut
<1>7. /\ Cardinality(mem.offer[q]) <= CargoSpace - Cardinality(mem.cargo[p])
      /\ Cardinality(mem.offer[p]) <= CargoSpace - Cardinality(mem.cargo[q])
  <2>1. Cardinality(mem.offer[q]) <= CargoSpace - Cardinality(mem.cargo[p]) /\ confirm[q] # None
    BY DEF Exchanges
  <2>2. RoomToCome
    BY DEF Sound
  <2> QED
    BY <1>1, <1>2, <2>1, <2>2 DEF RoomToCome
<1>8. /\ m3 \in Books(no) /\ m3.offer = mem.offer /\ Cardinality(m3.cargo[p]) <= CargoSpace
      /\ \A r \in Players : m3.cargo[r] = mem.cargo[r] \cup (IF r = p THEN mem.offer[q] ELSE {})
  <2>1. Stows(no, n, p, mem.offer[q], m3)
    BY <1>1, <1>2, <1>3, <1>4, <1>5, <1>6 DEF Stows
  <2> QED
    BY <1>6, <1>7, <2>1, StowAll, StowBooks
<1>9. /\ m4 \in Books(no) /\ m4.offer = mem.offer /\ Cardinality(m4.cargo[q]) <= CargoSpace
      /\ \A r \in Players : m4.cargo[r] = m3.cargo[r] \cup (IF r = q THEN mem.offer[p] ELSE {})
  <2>1. Stows(no, m3, q, mem.offer[p], m4)
    BY <1>1, <1>2, <1>3, <1>4, <1>5, <1>8 DEF Stows
  <2>2. m3.cargo[q] = mem.cargo[q]
    BY <1>2, <1>8
  <2>3. Cardinality(mem.offer[p]) <= CargoSpace - Cardinality(m3.cargo[q])
    BY <1>7, <2>2
  <2> QED
    BY <1>8, <2>1, <2>3, StowAll, StowBooks
<1>10. /\ m5.cargo = m4.cargo
       /\ \A r \in Players : m5.offer[r] = IF r \in {p, q} THEN {} ELSE mem.offer[r]
  <2>1. Empties(no, m4, p, q, m5)
    BY <1>1, <1>2, <1>3, <1>4, <1>9 DEF Empties
  <2> QED
    BY <1>9, <2>1, EmptyBooks
<1>11. AllIn(p, q, m5)
  <2>1. /\ m5.cargo[p] = mem.cargo[p] \cup mem.offer[q] /\ m5.cargo[q] = mem.cargo[q] \cup mem.offer[p]
        /\ \A r \in Players \ {p, q} : m5.cargo[r] = mem.cargo[r] /\ m5.offer[r] = mem.offer[r]
        /\ m5.offer[p] = {} /\ m5.offer[q] = {}
    <3>1. \A r \in Players :
              m5.cargo[r] = mem.cargo[r] \cup (IF r = p THEN mem.offer[q] ELSE IF r = q THEN mem.offer[p] ELSE {})
      BY <1>2, <1>8, <1>9, <1>10
    <3>2. m5.offer[p] = {} /\ m5.offer[q] = {} /\ \A r \in Players \ {p, q} : m5.offer[r] = mem.offer[r]
      BY <1>2, <1>10
    <3>3. \A r \in Players \ {p, q} : m5.cargo[r] = mem.cargo[r]
      BY <3>1
    <3> QED
      BY <1>2, <3>1, <3>2, <3>3
  <2>2. Cardinality(m5.cargo[p]) <= CargoSpace /\ Cardinality(m5.cargo[q]) <= CargoSpace
    <3>1. m4.cargo[p] = m3.cargo[p]
      BY <1>2, <1>9
    <3> QED
      BY <1>8, <1>9, <1>10, <3>1
  <2>3. mem' = m5
    BY <1>4 DEF Queues
  <2> QED
    BY <1>1, <1>2, <2>1, <2>2, <2>3 DEF AllIn
<1> QED
  BY <1>1, <1>11, AllInKeeps

\* Whatever is done, nothing disappears.
LEMMA GoesWhole ==
    ASSUME Sound, Goes
    PROVE  Whole'
<1>1. Whole /\ ~Keep /\ saves = <<>>
  BY DEF Sound, GoodsInv, SaveInv
<1>2. ASSUME UNCHANGED <<mem, loose>> PROVE Whole'
  BY <1>1, <1>2 DEF Whole, NothingLost, Held
<1>3. CASE Rests
  BY <1>2, <1>3 DEF Rests
<1>4. ~Writes /\ ~Crashes
  BY <1>1 DEF Writes, Crashes
<1>5. ASSUME NEW p \in Players, LogsIn(p) \/ LogsOff(p) \/ PicksUp(p)
      PROVE  Whole'
  BY <1>1, <1>2, <1>5 DEF LogsIn, LogsOff, PicksUp
<1>6. ASSUME NEW p \in Players, NEW q \in Players, OpensUp(p, q) \/ Clears(p, q) \/ Bids(p, q)
      PROVE  Whole'
  BY <1>1, <1>2, <1>6 DEF OpensUp, Clears, Bids
<1>7. ASSUME NEW p \in Players, NEW q \in Players, Swaps(p, q) \/ Exchanges(p, q) \/ Cancels(p, q)
      PROVE  Whole'
  BY <1>7, SwapWhole, ExchangeWhole, CancelWhole
<1> QED
  BY <1>3, <1>4, <1>5, <1>6, <1>7 DEF Goes

\* At first nothing is lost.
LEMMA WholeBegins ==
    ASSUME Given, Init PROVE Whole
<1>1. /\ StartCargo \in [Players -> SUBSET Items]
      /\ \A p \in Players : Cardinality(StartCargo[p]) <= CargoSpace
  BY DEF Given, TradeAssumption
<1>2. /\ mem.cargo = StartCargo /\ mem.offer = [p \in Players |-> {}]
      /\ loose = Items \ UNION {StartCargo[p] : p \in Players}
  BY DEF Init
<1>3. \A p \in Players : mem.cargo[p] \cup mem.offer[p] = StartCargo[p]
  BY <1>2
<1>4. Held(mem) = UNION {StartCargo[p] : p \in Players}
  BY <1>3 DEF Held
<1>5. UNION {StartCargo[p] : p \in Players} \subseteq Items
  BY <1>1
<1>6. NothingLost
  BY <1>2, <1>4, <1>5 DEF NothingLost
<1>7. \A p \in Players : Cardinality(mem.cargo[p] \cup mem.offer[p]) <= CargoSpace
  BY <1>1, <1>3
<1> QED
  BY <1>6, <1>7 DEF Whole

\* And afterwards neither.
LEMMA WholeGoesOn ==
    ASSUME Given, TradeInv, ~Keep, RoomToCome, Whole, [Next]_vars PROVE Whole'
<1>1. Setting /\ GoodsInv /\ crashes \in Nat
  BY GivenSets DEF TradeInv
<1>2. Goes
  BY <1>1, NextGoes
<1>3. Sound
  BY <1>1 DEF Sound
<1> QED
  BY <1>2, <1>3, GoesWhole

=============================================================================
