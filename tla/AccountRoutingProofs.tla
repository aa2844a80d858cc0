------------------------ MODULE AccountRoutingProofs ------------------------
(***************************************************************************)
(* Proofs about AccountRouting, for any accounts, sessions, calls, knobs   *)
(* and gauges.                                                             *)
(***************************************************************************)
EXTENDS AccountRouting, FiniteSetTheorems, SequenceTheorems, TLAPS

Pins == [of : Sessions, to : Accounts]

\* A session has one pin at most, and there are no more pins than fit.
Tidy(q) ==
  /\ q \in Seq(Pins) /\ Len(q) <= MaxPins
  /\ \A i, j \in 1..Len(q) : q[i].of = q[j].of => i = j

Sent(b) == {q \in On(b) : pc[q] = "sent"}

\* Whoever is sent owns a slot.
IInv ==
  /\ setup \in Setups /\ gauge \in [Bearers -> setup.gauges]
  /\ cap \in [Bearers -> setup.caps] /\ busy \in [Bearers -> Nat]
  /\ pc \in [Calls -> {"idle", "slot", "sent"}] /\ at \in [Calls -> Bearers \cup {Metered}]
  /\ lapsed \subseteq Sessions
  /\ Tidy(pins)
  /\ \A r \in Calls : pc[r] = "sent" => at[r] # Metered
  /\ \A b \in Bearers : Cardinality(Sent(b)) <= busy[b]

USE RoutingAssumption

-----------------------------------------------------------------------------
(* Calls, loads and prices. *)

LEMMA CallsTyped ==
  ASSUME NEW a
  PROVE  /\ Cardinality(Calls) \in Nat
         /\ IsFiniteSet(On(a)) /\ Cardinality(On(a)) \in Nat /\ Cardinality(On(a)) <= Cardinality(Calls)
         /\ IsFiniteSet(Sent(a)) /\ Cardinality(Sent(a)) \in Nat /\ Cardinality(Sent(a)) <= Cardinality(On(a))
<1>1. On(a) \subseteq Calls /\ Sent(a) \subseteq On(a)
  BY DEF On, Sent
<1>2. IsFiniteSet(On(a)) /\ Cardinality(On(a)) <= Cardinality(Calls)
  BY <1>1, FS_Subset
<1>3. IsFiniteSet(Sent(a)) /\ Cardinality(Sent(a)) <= Cardinality(On(a))
  BY <1>1, <1>2, FS_Subset
<1> QED BY <1>2, <1>3, FS_CardinalityType

\* A load that is whole in k-ths is over the threshold where its calls are.
LEMMA ScaledAlike ==
  ASSUME NEW y \in Nat, NEW c \in Nat, NEW k \in Nat \ {0}
  PROVE  100 * (y * k) >= 1000 * (c * k) <=> y >= 10 * c
<1>1. ASSUME NEW m \in Nat, NEW n \in Nat, m <= n
      PROVE  m * k <= n * k
  <2>1. (n - m) * k \in Nat
    BY <1>1
  <2>2. n * k = m * k + (n - m) * k
    BY <1>1
  <2> QED BY <2>1, <2>2
<1> DEFINE z == 10 * c
<1>2. z \in Nat /\ z * k = 10 * (c * k) /\ y * k \in Nat /\ z * k \in Nat /\ c * k \in Nat
  OBVIOUS
<1>3. CASE y >= z
  <2>1. z * k <= y * k
    BY <1>1, <1>2, <1>3
  <2> HIDE DEF z
  <2>2. 100 * (y * k) >= 1000 * (c * k)
    BY <1>2, <2>1
  <2> QED BY <1>3, <2>2 DEF z
<1>4. CASE ~(y >= z)
  <2>1. (y + 1) * k <= z * k
    BY <1>1, <1>2, <1>4
  <2>2. (y + 1) * k = y * k + k
    OBVIOUS
  <2> HIDE DEF z
  <2>3. ~(100 * (y * k) >= 1000 * (c * k))
    BY <1>2, <2>1, <2>2
  <2> QED BY <1>4, <2>3 DEF z
<1> QED BY <1>3, <1>4

LEMMA LoadTyped ==
  ASSUME IInv, NEW b \in Bearers
  PROVE  /\ Queued(b) \in Nat /\ Load(b) \in Nat /\ Full \in Nat
         /\ Load(b) >= Full <=> Saturated(b)
<1> DEFINE Q == Queued(b)
           B == busy[b]
           R == setup.slots + setup.reserve
           c == cap[b] + setup.reserve
           k == Scale \div c
           x == 10 * Q + B
<1>1. Cardinality(On(b)) \in Nat /\ B \in Nat
  BY CallsTyped DEF IInv
<1>2. Q \in Nat
  BY <1>1 DEF Queued
<1>3. setup \in Setups /\ cap[b] \in setup.caps
  BY DEF IInv
<1>4. R \in Nat /\ c \in Nat \ {0} /\ c * k = Scale /\ Scale \in Nat \ {0}
  BY <1>3
<1>5. k \in Nat \ {0}
  <2>1. k \in Nat
    BY <1>4
  <2>2. k # 0
    <3> HIDE DEF k
    <3> QED BY <1>4, <2>1
  <2> QED BY <2>1, <2>2
<1>6. Load(b) = (1000 * Q + 100 * B) * R * k
  BY DEF Load
<1>7. Saturated(b) <=> x * R >= 10 * c
  BY DEF Saturated
<1> HIDE DEF Q, B, R, c, k
<1>8. x \in Nat /\ x * R \in Nat /\ (x * R) * k \in Nat
  BY <1>1, <1>2, <1>4, <1>5
<1>9. Load(b) = 100 * ((x * R) * k)
  <2>1. 1000 * Q + 100 * B = 100 * x
    BY <1>1, <1>2
  <2> HIDE DEF x
  <2>2. (100 * x) * R = 100 * (x * R) /\ (100 * (x * R)) * k = 100 * ((x * R) * k)
    BY <1>4, <1>5, <1>8
  <2> QED BY <1>6, <2>1, <2>2
<1>10. Full = 1000 * (c * k)
  BY <1>4 DEF Full
<1> HIDE DEF x
<1>11. 100 * ((x * R) * k) >= 1000 * (c * k) <=> x * R >= 10 * c
  BY <1>4, <1>5, <1>8, ScaledAlike
<1>12. Load(b) \in Nat /\ Full \in Nat
  BY <1>4, <1>8, <1>9 DEF Full
<1> QED BY <1>2, <1>7, <1>9, <1>10, <1>11, <1>12 DEF Q

LEMMA PriceTyped ==
  ASSUME IInv, NEW b \in Bearers, NEW incoming
  PROVE  Price(b, incoming) \in Int /\ Price(b, incoming) + 1 \in Nat
<1>1. Load(b) \in Nat /\ Scale \in Nat
  BY LoadTyped
<1> DEFINE w == IF Has(b, "warn") THEN 800 ELSE 0
           c == IF Crossed(b) THEN 1000 ELSE 0
           h == IF Has(b, "held") THEN 300 ELSE 0
           o == IF b = incoming /\ ~Has(b, "held") THEN 1 ELSE 0
<1>2. Price(b, incoming) = 10 * (Load(b) + Scale * (w + c + h)) - o
  BY DEF Price
<1>3. w \in {0, 800} /\ c \in {0, 1000} /\ h \in {0, 300} /\ o \in {0, 1}
  OBVIOUS
<1> HIDE DEF w, c, h, o
<1>4. w + c + h \in Nat
  BY <1>3
<1> DEFINE t == Scale * (w + c + h)
<1>5. t \in Nat
  BY <1>1, <1>4
<1> HIDE DEF t
<1>6. Price(b, incoming) = 10 * (Load(b) + t) - o
  BY <1>2 DEF t
<1> QED BY <1>1, <1>3, <1>5, <1>6

LEMMA LeastOf ==
  ASSUME NEW T, T \subseteq Nat, T # {}
  PROVE  \E x \in T : \A y \in T : x <= y
<1> DEFINE R == {p \in Nat \X Nat : p[1] < p[2]}
<1>1. IsWellFoundedOn(R, Nat)
  BY NatLessThanWellFounded, Zenon DEF OpToRel
<1>2. PICK x \in T : \A y \in T : ~(<<y, x>> \in R)
  <2> HIDE DEF R
  <2> QED BY <1>1, WFMin
<1>3. ASSUME NEW y \in T
      PROVE  x <= y
  <2>1. x \in Nat /\ y \in Nat /\ ~(<<y, x>> \in R)
    BY <1>2
  <2> QED BY <2>1
<1> QED BY <1>3

\* However many accounts there are, one of them is cheapest.
LEMMA SomeoneIsCheapest ==
  ASSUME IInv, NEW S, S \subseteq Bearers, S # {}, NEW incoming
  PROVE  Cheapest(S, incoming) # {}
<1> DEFINE T == {Price(b, incoming) + 1 : b \in S}
<1>1. T \subseteq Nat /\ T # {}
  BY PriceTyped
<1>2. PICK x \in T : \A y \in T : x <= y
  <2> HIDE DEF T
  <2> QED BY <1>1, LeastOf
<1>3. PICK b \in S : x = Price(b, incoming) + 1
  OBVIOUS
<1>4. ASSUME NEW c \in S
      PROVE  Price(b, incoming) <= Price(c, incoming)
  <2>1. x <= Price(c, incoming) + 1
    BY <1>2
  <2>2. Price(b, incoming) \in Int /\ Price(c, incoming) \in Int
    BY PriceTyped
  <2> QED BY <1>3, <2>1, <2>2
<1> QED BY <1>4 DEF Cheapest

-----------------------------------------------------------------------------
(* The ladder. *)

\* The accounts that may be picked: those past their soft target only when every
\* clean one is full or nothing else is open.
Open(routable) == {b \in routable : ~Closed(b)}
Below(routable) == {b \in Open(routable) : ~Crossed(b)}
Clean(routable) == {b \in Below(routable) : ~Has(b, "warn")}
Pickable(routable) ==
  IF Below(routable) = {} \/ (Clean(routable) # {} /\ \A b \in Clean(routable) : Saturated(b))
  THEN Open(routable) ELSE Below(routable)

\* Among those that may be picked, no one is cheaper than the ladder's choice.
LEMMA LadderIsCheapest ==
  ASSUME IInv, NEW routable, routable \subseteq Bearers, NEW incoming
  PROVE  /\ Ladder(routable, incoming) \subseteq Cheapest(Pickable(routable), incoming)
         /\ Pickable(routable) # {} => Ladder(routable, incoming) # {}
<1> DEFINE open == Open(routable)
           below == Below(routable)
           clean == Clean(routable)
           pickable == Pickable(routable)
           strict == {b \in routable : Strict(b)}
           spill == strict # {} /\ \A b \in strict : Load(b) >= Full
           pressured == {b \in routable : Priced(b, TRUE, spill)}
           spilled == {b \in routable : Priced(b, TRUE, TRUE)}
           cheaper == \E p \in pressured : \A s \in strict : Price(p, incoming) < Price(s, incoming)
<1>0. Ladder(routable, incoming) =
        IF strict # {} /\ ~cheaper THEN Cheapest(strict, incoming)
        ELSE IF pressured # {} THEN Cheapest(pressured, incoming)
        ELSE Cheapest(spilled, incoming)
  BY DEF Ladder
<1>1. strict = clean /\ spilled = open
  BY DEF Strict, Priced, Open, Below, Clean
<1>2. spill <=> (clean # {} /\ \A b \in clean : Saturated(b))
  <2>1. strict \subseteq Bearers
    OBVIOUS
  <2>2. \A b \in strict : Load(b) >= Full <=> Saturated(b)
    <3> HIDE DEF strict
    <3> QED BY <2>1, LoadTyped
  <2> HIDE DEF strict, clean
  <2> QED BY <1>1, <2>2
<1>2a. strict \subseteq Bearers /\ pressured \subseteq Bearers /\ spilled \subseteq Bearers
  OBVIOUS
<1>3. pressured = IF spill THEN open ELSE below
  BY DEF Priced, Open, Below
<1>4. CASE pressured = {}
  <2>0. clean \subseteq below /\ below \subseteq open
    BY DEF Open, Below, Clean
  <2>1. strict = {} /\ below = {}
    BY <1>1, <1>2, <1>3, <1>4, <2>0
  <2>2. pickable = open /\ pickable = spilled
    BY <1>1, <2>1 DEF Pickable
  <2> HIDE DEF strict, spill, pressured, spilled, cheaper
  <2> QED BY <1>0, <1>2a, <1>4, <2>1, <2>2, SomeoneIsCheapest
<1>5. CASE pressured # {}
  <2>1. pickable = pressured /\ strict \subseteq pressured
    BY <1>1, <1>2, <1>3, <1>5 DEF Pickable, Open, Below, Clean
  <2>2. CASE strict # {} /\ ~cheaper
    <3>1. Ladder(routable, incoming) = Cheapest(strict, incoming)
      BY <1>0, <2>2
    <3>2. \A p \in pressured : \E s \in strict : Price(s, incoming) <= Price(p, incoming)
      <4> SUFFICES ASSUME NEW p \in pressured
                   PROVE  \E s \in strict : Price(s, incoming) <= Price(p, incoming)
        OBVIOUS
      <4>1. PICK s \in strict : ~(Price(p, incoming) < Price(s, incoming))
        BY <2>2
      <4>2. Price(p, incoming) \in Int /\ Price(s, incoming) \in Int
        BY <1>2a, PriceTyped
      <4> HIDE DEF strict, spill, pressured, spilled, cheaper
      <4> QED BY <4>1, <4>2
    <3> HIDE DEF strict, spill, pressured, spilled, cheaper
    <3>3. Cheapest(strict, incoming) \subseteq Cheapest(pressured, incoming)
      BY <1>2a, <2>1, <3>2, PriceTyped DEF Cheapest
    <3> QED BY <1>2a, <2>1, <2>2, <3>1, <3>3, SomeoneIsCheapest
  <2>3. CASE strict = {} \/ cheaper
    <3>1. Ladder(routable, incoming) = Cheapest(pressured, incoming)
      BY <1>0, <1>5, <2>3
    <3> HIDE DEF strict, spill, pressured, spilled, cheaper
    <3> QED BY <1>2a, <1>5, <2>1, <3>1, SomeoneIsCheapest
  <2> QED BY <2>2, <2>3
<1> QED BY <1>4, <1>5

-----------------------------------------------------------------------------
(* Pins. *)

LEMMA PinsTyped ==
  ASSUME Tidy(pins)
  PROVE  /\ Len(pins) \in Nat /\ DOMAIN pins = 1..Len(pins)
         /\ \A i \in 1..Len(pins) : /\ pins[i] \in Pins /\ pins[i].of \in Sessions /\ pins[i].to \in Accounts
                                    /\ pins[i] = [of |-> pins[i].of, to |-> pins[i].to]
<1>1. pins \in Seq(Pins)
  BY DEF Tidy
<1>2. Len(pins) \in Nat /\ DOMAIN pins = 1..Len(pins) /\ \A i \in 1..Len(pins) : pins[i] \in Pins
  BY <1>1
<1>3. \A p \in Pins : p.of \in Sessions /\ p.to \in Accounts /\ p = [of |-> p.of, to |-> p.to]
  BY DEF Pins
<1> QED BY <1>2, <1>3

\* What is left when the pin of s goes.
LEMMA WithoutIs ==
  ASSUME Tidy(pins), NEW s \in Sessions
  PROVE  LET w == Without(s) IN
         /\ Tidy(w) /\ Len(w) <= Len(pins)
         /\ \A i \in 1..Len(w) : w[i].of # s
         /\ \A i \in 1..Len(pins) : pins[i].of # s => \E j \in 1..Len(w) : w[j] = pins[i] /\ j <= i
         /\ Len(w) = Len(pins) => w = pins
<1> DEFINE w == Without(s)
<1>1. CASE \A i \in DOMAIN pins : pins[i].of # s
  <2>1. w = pins
    BY <1>1 DEF Without
  <2> QED BY <1>1, <2>1, PinsTyped DEF Tidy
<1>2. CASE \E i \in DOMAIN pins : pins[i].of = s
  <2> DEFINE n == CHOOSE i \in DOMAIN pins : pins[i].of = s
  <2>1. n \in 1..Len(pins) /\ pins[n].of = s
    BY <1>2, PinsTyped
  <2>2. w = RemoveAt(pins, n)
    BY <1>2 DEF Without
  <2> HIDE DEF n
  <2> DEFINE a == SubSeq(pins, 1, n - 1)
             b == SubSeq(pins, n + 1, Len(pins))
  <2>3. w = a \o b
    BY <2>2 DEF RemoveAt
  <2>4. a \in Seq(Pins) /\ Len(a) = n - 1 /\ \A i \in 1..(n - 1) : a[i] = pins[i]
    BY <2>1, PinsTyped DEF Tidy
  <2>5. b \in Seq(Pins) /\ Len(b) = Len(pins) - n /\ \A i \in 1..(Len(pins) - n) : b[i] = pins[n + i]
    BY <2>1, PinsTyped DEF Tidy
  <2>6. /\ w \in Seq(Pins) /\ Len(w) = Len(pins) - 1
        /\ \A i \in 1..Len(w) : w[i] = IF i < n THEN pins[i] ELSE pins[i + 1]
    <3> HIDE DEF a, b, w
    <3>1. w \in Seq(Pins) /\ Len(w) = Len(a) + Len(b)
          /\ \A i \in 1..Len(w) : w[i] = IF i <= Len(a) THEN a[i] ELSE b[i - Len(a)]
      BY ONLY <2>3, <2>4, <2>5, ConcatProperties
    <3>2. Len(w) = Len(pins) - 1
      BY <2>1, <2>4, <2>5, <3>1, PinsTyped
    <3>3. ASSUME NEW i \in 1..Len(w)
          PROVE  w[i] = IF i < n THEN pins[i] ELSE pins[i + 1]
      <4>1. CASE i < n
        BY <2>1, <2>4, <3>1, <4>1, PinsTyped
      <4>2. CASE i >= n
        <5>1. i - Len(a) \in 1..(Len(pins) - n) /\ n + (i - Len(a)) = i + 1 /\ ~(i <= Len(a))
          BY <2>1, <2>4, <3>2, <4>2, PinsTyped
        <5>2. w[i] = b[i - Len(a)]
          BY <3>1, <5>1
        <5>3. b[i - Len(a)] = pins[n + (i - Len(a))]
          BY <2>5, <5>1
        <5>4. ~(i < n)
          BY <2>1, <4>2
        <5> QED BY <5>1, <5>2, <5>3, <5>4
      <4> QED BY <2>1, <4>1, <4>2, PinsTyped
    <3> QED BY <3>1, <3>2, <3>3
  <2> HIDE DEF w
  <2>7. ASSUME NEW i \in 1..Len(w), NEW j \in 1..Len(w), w[i].of = w[j].of
        PROVE  i = j
    <3> DEFINE x == IF i < n THEN i ELSE i + 1
               y == IF j < n THEN j ELSE j + 1
    <3>1. x \in 1..Len(pins) /\ y \in 1..Len(pins)
      BY <2>1, <2>6, PinsTyped
    <3>2. w[i] = pins[x] /\ w[j] = pins[y]
      BY <2>6
    <3>3. x = y
      <4> HIDE DEF x, y
      <4> QED BY <2>7, <3>1, <3>2, PinsTyped DEF Tidy
    <3> QED BY <2>1, <3>3, PinsTyped
  <2>8. \A i \in 1..Len(w) : w[i].of # s
    BY <2>1, <2>6, PinsTyped DEF Tidy
  <2>9. ASSUME NEW i \in 1..Len(pins), pins[i].of # s
        PROVE  \E j \in 1..Len(w) : w[j] = pins[i] /\ j <= i
    <3>1. CASE i < n
      <4>1. i \in 1..Len(w) /\ w[i] = pins[i]
        BY <2>1, <2>6, <3>1, PinsTyped
      <4> QED BY <4>1
    <3>2. CASE i > n
      <4>1. i - 1 \in 1..Len(w) /\ w[i - 1] = pins[i]
        BY <2>1, <2>6, <3>2, PinsTyped
      <4> QED BY <4>1
    <3>3. i # n
      BY <2>1, <2>9
    <3> QED BY <2>1, <3>1, <3>2, <3>3, PinsTyped
  <2>10. Len(w) <= Len(pins) /\ Len(w) # Len(pins)
    BY <2>6, PinsTyped
  <2>11. Tidy(w)
    BY <2>6, <2>7, <2>10, PinsTyped DEF Tidy
  <2> QED BY <2>8, <2>9, <2>10, <2>11 DEF w
<1> QED BY <1>1, <1>2

\* m is pins with the pin of s, to b, at its end; over the limit the first goes.
Remembered(m, s, b) ==
  /\ Tidy(m) /\ Len(m) >= 1
  /\ m[Len(m)] = [of |-> s, to |-> b]
  /\ \A i \in 1..Len(pins) : pins[i].of # s =>
       \/ \E j \in 1..Len(m) : m[j] = pins[i]
       \/ /\ i = 1 /\ Len(pins) = MaxPins /\ Len(m) = MaxPins
          /\ \A k \in 1..Len(pins) : pins[k].of # s

LEMMA RememberIs ==
  ASSUME Tidy(pins), NEW s \in Sessions, NEW b \in Accounts
  PROVE  Remembered(Remember(s, b), s, b)
<1> DEFINE w == Without(s)
           p == [of |-> s, to |-> b]
           kept == Append(w, p)
           m == Remember(s, b)
<1>1. /\ Tidy(w) /\ Len(w) <= Len(pins)
      /\ \A i \in 1..Len(w) : w[i].of # s
      /\ \A i \in 1..Len(pins) : pins[i].of # s => \E j \in 1..Len(w) : w[j] = pins[i] /\ j <= i
      /\ Len(w) = Len(pins) => w = pins
  BY WithoutIs
<1>2. p \in Pins /\ p.of = s
  BY DEF Pins
<1>3. m = IF Len(kept) > MaxPins THEN Tail(kept) ELSE kept
  BY DEF Remember
<1> HIDE DEF w, p, m
<1>4. w \in Seq(Pins) /\ Len(w) \in Nat /\ \A i \in 1..Len(w) : w[i] \in Pins
  BY <1>1 DEF Tidy
<1>5. /\ kept \in Seq(Pins) /\ Len(kept) = Len(w) + 1 /\ kept[Len(w) + 1] = p
      /\ \A i \in 1..Len(w) : kept[i] = w[i]
  BY <1>2, <1>4
<1>6. \A i, j \in 1..Len(kept) : kept[i].of = kept[j].of => i = j
  <2> SUFFICES ASSUME NEW i \in 1..Len(kept), NEW j \in 1..Len(kept), kept[i].of = kept[j].of
               PROVE  i = j
    OBVIOUS
  <2>1. CASE i \in 1..Len(w) /\ j \in 1..Len(w)
    BY <1>1, <1>5, <2>1 DEF Tidy
  <2>2. CASE i = Len(w) + 1 /\ j \in 1..Len(w)
    BY <1>1, <1>2, <1>5, <2>2
  <2>3. CASE i \in 1..Len(w) /\ j = Len(w) + 1
    BY <1>1, <1>2, <1>5, <2>3
  <2> QED BY <1>4, <1>5, <2>1, <2>2, <2>3
<1> HIDE DEF kept
<1>7. Len(w) <= MaxPins /\ MaxPins \in Nat \ {0} /\ Len(pins) \in Nat /\ Len(pins) <= MaxPins
  BY <1>1, PinsTyped DEF Tidy
<1>8. CASE Len(w) < MaxPins
  <2>1. m = kept
    BY <1>3, <1>4, <1>5, <1>7, <1>8
  <2>2. Tidy(m)
    BY <1>4, <1>5, <1>6, <1>7, <1>8, <2>1 DEF Tidy
  <2>3. \A i \in 1..Len(pins) : pins[i].of # s => \E j \in 1..Len(m) : m[j] = pins[i]
    <3> SUFFICES ASSUME NEW i \in 1..Len(pins), pins[i].of # s
                 PROVE  \E j \in 1..Len(m) : m[j] = pins[i]
      OBVIOUS
    <3>1. PICK j \in 1..Len(w) : w[j] = pins[i]
      BY <1>1
    <3>2. j \in 1..Len(m) /\ m[j] = pins[i]
      BY <1>4, <1>5, <2>1, <3>1
    <3> QED BY <3>2
  <2>4. Len(m) >= 1 /\ m[Len(m)] = p
    BY <1>4, <1>5, <2>1
  <2> QED BY <2>2, <2>3, <2>4 DEF m, p, Remembered
<1>9. CASE Len(w) = MaxPins
  <2>1. m = Tail(kept) /\ w = pins /\ Len(pins) = MaxPins
    BY <1>1, <1>3, <1>4, <1>5, <1>7, <1>9
  <2>2. m \in Seq(Pins) /\ Len(m) = MaxPins /\ \A i \in 1..Len(m) : m[i] = kept[i + 1]
    BY <1>4, <1>5, <1>7, <1>9, <2>1
  <2>3. \A i, j \in 1..Len(m) : m[i].of = m[j].of => i = j
    <3> SUFFICES ASSUME NEW i \in 1..Len(m), NEW j \in 1..Len(m), m[i].of = m[j].of
                 PROVE  i = j
      OBVIOUS
    <3>1. i + 1 \in 1..Len(kept) /\ j + 1 \in 1..Len(kept)
      BY <1>5, <1>7, <1>9, <2>2
    <3>2. kept[i + 1].of = kept[j + 1].of
      BY <2>2
    <3>3. i + 1 = j + 1
      BY <1>6, <3>1, <3>2
    <3> QED BY <3>3
  <2>4. Tidy(m)
    BY <1>7, <2>2, <2>3 DEF Tidy
  <2>5. ASSUME NEW i \in 1..Len(pins), pins[i].of # s
        PROVE  (\E j \in 1..Len(m) : m[j] = pins[i]) \/ i = 1
    <3> SUFFICES ASSUME i # 1
                 PROVE  \E j \in 1..Len(m) : m[j] = pins[i]
      OBVIOUS
    <3>1. i - 1 \in 1..Len(m) /\ (i - 1) + 1 = i /\ i \in 1..Len(w)
      BY <1>7, <1>9, <2>1, <2>2
    <3>2. m[i - 1] = kept[(i - 1) + 1]
      BY <2>2, <3>1
    <3>3. kept[i] = pins[i]
      BY <1>5, <2>1, <3>1
    <3> QED BY <3>1, <3>2, <3>3
  <2>6. Len(m) >= 1 /\ m[Len(m)] = p
    BY <1>5, <1>7, <1>9, <2>2
  <2>7. \A k \in 1..Len(pins) : pins[k].of # s
    BY <1>1, <2>1
  <2> QED BY <2>1, <2>2, <2>4, <2>5, <2>6, <2>7 DEF m, p, Remembered
<1> QED BY <1>4, <1>7, <1>8, <1>9

-----------------------------------------------------------------------------
(* What routing decides. *)

LEMMA SnapshotTyped == Snapshot \subseteq Accounts
BY DEF Snapshot

LEMMA ChosenAreOpen ==
  ASSUME NEW routable, NEW incoming, NEW b \in Choice(routable, incoming)
  PROVE  b \in routable /\ ~Closed(b)
<1>1. CASE setup.mode = "round_robin"
  BY <1>1 DEF Choice, FirstInTurn, Candidates
<1>2. CASE setup.mode # "round_robin"
  <2>1. b \in Ladder(routable, incoming)
    BY <1>2 DEF Choice
  <2> QED BY <2>1 DEF Ladder, Cheapest, Strict, Priced
<1> QED BY <1>1, <1>2

\* A decision names an account on schedule that is alive, the API key's lane,
\* or what the call brought: that is alive too, or nobody on schedule is.
LEMMA DecisionIs ==
  ASSUME NEW s, NEW incoming, NEW b \in Decision(s, incoming)
  PROVE  \/ b \in Snapshot /\ ~Has(b, "dead")
         \/ b = Metered
         \/ b = Own /\ (~Has(incoming, "dead") \/ \A c \in Snapshot : Has(c, "dead"))
<1> DEFINE kept == {c \in PinOf(s) : setup.affinity /\ PinHolds(c, Snapshot)}
           chosen == Choice(Snapshot, incoming)
<1>1. CASE b \in kept
  BY <1>1 DEF PinHolds, Strict, Priced, Closed
<1>2. CASE CallerStays(incoming, Snapshot) /\ b = Own
  BY <1>2 DEF CallerStays, Has
<1>3. CASE b \in chosen
  BY <1>3, ChosenAreOpen DEF Closed
<1>4. CASE b \in Fallback(incoming, Snapshot)
  BY <1>4 DEF Fallback
<1> QED BY <1>1, <1>2, <1>3, <1>4 DEF Decision

\* A session's pin that holds decides, unless all calls go to the API key.
LEMMA PinDecides ==
  ASSUME Tidy(pins), NEW i \in 1..Len(pins), pins[i].of \notin lapsed,
         setup.affinity, PinHolds(pins[i].to, Snapshot),
         NEW incoming, NEW b \in Decision(pins[i].of, incoming)
  PROVE  b = Metered \/ b = pins[i].to
<1>1. PinOf(pins[i].of) = {pins[i].to}
  BY PinsTyped DEF PinOf, Tidy
<1> DEFINE s == pins[i].of
           kept == {c \in PinOf(s) : setup.affinity /\ PinHolds(c, Snapshot)}
<1>2. kept = {pins[i].to}
  BY <1>1
<1>3. kept # {}
  BY <1>2
<1>4. b = Metered \/ b \in kept
  <2>1. CASE setup.apiKey = "prefer"
    BY <2>1 DEF Decision
  <2>2. CASE setup.apiKey # "prefer"
    BY <2>2, <1>3 DEF Decision
  <2> QED BY <2>1, <2>2
<1> QED BY <1>2, <1>4

-----------------------------------------------------------------------------
(* The invariant. *)

\* What one routing does, decision in hand.
Routed(r, s, incoming, b) ==
  /\ pc[r] = "idle" /\ pc' = [pc EXCEPT ![r] = "slot"]
  /\ at' = [at EXCEPT ![r] = IF b = Own THEN incoming ELSE b]
  /\ pins' = IF b \in Snapshot /\ setup.affinity THEN Remember(s, b) ELSE LookedUp(s)
  /\ lapsed' \subseteq lapsed
  /\ UNCHANGED <<setup, gauge>>

LEMMA RouteIs ==
  ASSUME NEW r \in Calls, NEW s \in Sessions, NEW incoming \in Bearers, Route(r, s, incoming)
  PROVE  \E b \in Decision(s, incoming) : Routed(r, s, incoming, b)
BY DEF Route, Routed

LEMMA PinsStayTidy ==
  ASSUME Tidy(pins), NEW s \in Sessions, NEW b
  PROVE  Tidy(IF b \in Snapshot /\ setup.affinity THEN Remember(s, b) ELSE LookedUp(s))
<1>1. CASE b \in Snapshot /\ setup.affinity
  <2>1. b \in Accounts
    BY <1>1, SnapshotTyped
  <2> QED BY <1>1, <2>1, RememberIs DEF Remembered
<1>2. CASE ~(b \in Snapshot /\ setup.affinity)
  <2>1. Tidy(Without(s))
    BY WithoutIs
  <2> QED BY <1>2, <2>1 DEF LookedUp
<1> QED BY <1>1, <1>2

\* What a routing does to the calls of a bearer.
LEMMA RouteAdds ==
  ASSUME pc \in [Calls -> {"idle", "slot", "sent"}], at \in [Calls -> Bearers \cup {Metered}],
         NEW r \in Calls, NEW s, NEW incoming, NEW b, Routed(r, s, incoming, b), NEW a
  PROVE  /\ Sent(a)' = Sent(a)
         /\ at'[r] # a => On(a)' = On(a)
         /\ at'[r] = a => Cardinality(On(a)') = Cardinality(On(a)) + 1
<1>1. /\ pc[r] = "idle" /\ pc'[r] = "slot"
      /\ \A q \in Calls \ {r} : pc'[q] = pc[q] /\ at'[q] = at[q]
  BY DEF Routed
<1>2. Sent(a)' = Sent(a)
  BY <1>1 DEF Sent, On
<1>3. CASE at'[r] # a
  BY <1>1, <1>2, <1>3 DEF On
<1>4. CASE at'[r] = a
  <2>1. On(a)' = On(a) \cup {r} /\ r \notin On(a)
    BY <1>1, <1>4 DEF On
  <2>2. Cardinality(On(a) \cup {r}) = Cardinality(On(a)) + 1
    BY <2>1, CallsTyped, FS_AddElement
  <2> QED BY <1>2, <1>4, <2>1, <2>2
<1> QED BY <1>3, <1>4

\* A call that ends is on its bearer no more, and no bearer has a call more.
LEMMA EndFrees ==
  ASSUME pc \in [Calls -> {"idle", "slot", "sent"}], at \in [Calls -> Bearers \cup {Metered}],
         NEW r \in Calls, pc' = [pc EXCEPT ![r] = "idle"], at' = [at EXCEPT ![r] = Caller],
         NEW a
  PROVE  /\ On(a)' = On(a) \ {r}
         /\ Cardinality(On(a)') <= Cardinality(On(a)) /\ Cardinality(On(a)') \in Nat
         /\ r \in On(a) => Cardinality(On(a)) = Cardinality(On(a)') + 1
         /\ Cardinality(Sent(a)') <= Cardinality(Sent(a)) /\ Cardinality(Sent(a)') \in Nat
         /\ r \in Sent(a) => Cardinality(Sent(a)) = Cardinality(Sent(a)') + 1
<1>1. pc'[r] = "idle" /\ \A q \in Calls \ {r} : pc'[q] = pc[q] /\ at'[q] = at[q]
  OBVIOUS
<1>2. On(a)' = On(a) \ {r} /\ Sent(a)' \subseteq Sent(a)
  BY <1>1 DEF On, Sent
<1>3. IsFiniteSet(On(a)) /\ IsFiniteSet(Sent(a)) /\ Cardinality(On(a)) \in Nat
  BY CallsTyped
<1>4. /\ IsFiniteSet(On(a) \ {r})
      /\ Cardinality(On(a) \ {r}) = IF r \in On(a) THEN Cardinality(On(a)) - 1 ELSE Cardinality(On(a))
  BY <1>3, FS_RemoveElement
<1>5. Cardinality(On(a) \ {r}) \in Nat
  BY <1>4, FS_CardinalityType
<1>6. IsFiniteSet(Sent(a)') /\ Cardinality(Sent(a)') <= Cardinality(Sent(a))
  BY <1>2, <1>3, FS_Subset
<1>7. Cardinality(Sent(a)') \in Nat
  BY <1>6, FS_CardinalityType
<1>8. ASSUME r \in Sent(a)
      PROVE  Cardinality(Sent(a)) = Cardinality(Sent(a)') + 1
  <2>1. Sent(a)' = Sent(a) \ {r}
    BY <1>1 DEF On, Sent
  <2>2. Cardinality(Sent(a) \ {r}) = Cardinality(Sent(a)) - 1 /\ Cardinality(Sent(a)) \in Nat
    BY <1>3, <1>8, FS_RemoveElement, FS_CardinalityType
  <2> QED BY <2>1, <2>2
<1> QED BY <1>2, <1>3, <1>4, <1>5, <1>6, <1>7, <1>8

\* Granting slots takes none away.
LEMMA GrantedIs ==
  ASSUME NEW n \in Int, NEW o \in Int, NEW c, NEW k \in Granted(n, o, c)
  PROVE  k \in Int /\ o <= k
BY DEF Granted

LEMMA RouteGrants ==
  ASSUME IInv, NEW r \in Calls, NEW s \in Sessions, NEW incoming \in Bearers, Route(r, s, incoming)
  PROVE  cap' = cap /\ busy' \in [Bearers -> Nat] /\ \A b \in Bearers : busy[b] <= busy'[b]
<1>1. cap' = cap /\ busy \in [Bearers -> Nat]
  BY DEF Route, IInv
<1>2. CASE busy' = busy
  BY <1>1, <1>2
<1>3. CASE at'[r] \in Bearers
  <2>0. PICK b \in Bearers : b = at'[r]
    BY <1>3
  <2>1. PICK k \in Granted(Cardinality(On(b)) + 1, busy[b], cap[b]) : busy' = [busy EXCEPT ![b] = k]
    BY <1>3, <2>0 DEF Route
  <2>2. Cardinality(On(b)) + 1 \in Int /\ busy[b] \in Nat
    BY <1>1, <1>3, CallsTyped
  <2>3. k \in Int /\ busy[b] <= k
    BY <2>1, <2>2, GrantedIs
  <2>4. k \in Nat
    BY <2>2, <2>3
  <2> QED BY <1>1, <2>1, <2>2, <2>3, <2>4
<1> QED BY <1>2, <1>3 DEF Route

\* A slot that is given back is one less.
LEMMA FreedIs ==
  ASSUME IInv, NEW b \in Bearers, busy[b] >= 1, Freed(b)
  PROVE  busy' \in [Bearers -> Nat] /\ \A c \in Bearers : busy'[c] >= IF c = b THEN busy[b] - 1 ELSE busy[c]
<1>1. PICK k \in Granted(Cardinality(On(b)) - 1, busy[b] - 1, cap[b]) : busy' = [busy EXCEPT ![b] = k]
  BY DEF Freed
<1>2. busy \in [Bearers -> Nat] /\ Cardinality(On(b)) - 1 \in Int /\ busy[b] - 1 \in Nat
  BY CallsTyped DEF IInv
<1>3. k \in Int /\ busy[b] - 1 <= k
  BY <1>1, <1>2, GrantedIs
<1>4. k \in Nat
  BY <1>2, <1>3
<1> QED BY <1>1, <1>2, <1>3, <1>4

LEMMA InitKept == Init => IInv
<1> SUFFICES ASSUME Init
             PROVE  IInv
  OBVIOUS
<1>1. Len(<<>>) = 0 /\ <<>> \in Seq(Pins) /\ MaxPins \in Nat
  OBVIOUS
<1>2. Tidy(<<>>)
  BY <1>1 DEF Tidy
<1>3. ASSUME NEW b \in Bearers
      PROVE  Cardinality(Sent(b)) <= busy[b]
  <2>1. Sent(b) = {}
    BY DEF Init, Sent, On
  <2> QED BY <2>1, FS_EmptySet DEF Init
<1> QED BY <1>2, <1>3 DEF Init, IInv, Bearers

\* Slots change hands, and nobody who is sent is left without one.
LEMMA HoldersKept ==
  ASSUME IInv, NEW r \in Calls, Send(r) \/ Finish(r) \/ Leave(r)
  PROVE  /\ busy' \in [Bearers -> Nat]
         /\ \A q \in Calls : pc'[q] = "sent" => at'[q] # Metered
         /\ \A b \in Bearers : Cardinality(Sent(b)') <= busy'[b]
<1>1. /\ pc \in [Calls -> {"idle", "slot", "sent"}] /\ at \in [Calls -> Bearers \cup {Metered}]
      /\ busy \in [Bearers -> Nat]
      /\ \A q \in Calls : pc[q] = "sent" => at[q] # Metered
      /\ \A b \in Bearers : Cardinality(Sent(b)) <= busy[b]
  BY DEF IInv
<1>2. \A b : Cardinality(Sent(b)) \in Nat /\ IsFiniteSet(Sent(b))
  BY CallsTyped
<1>3. CASE Send(r)
  <2>1. /\ pc[r] = "slot" /\ at[r] # Metered /\ at' = at /\ busy' = busy
        /\ pc'[r] = "sent" /\ \A q \in Calls \ {r} : pc'[q] = pc[q]
    BY <1>1, <1>3 DEF Send
  <2>2. ASSUME NEW b \in Bearers
        PROVE  Cardinality(Sent(b)') <= busy'[b]
    <3>1. CASE b # at[r]
      <4>1. Sent(b)' = Sent(b)
        BY <2>1, <3>1 DEF Sent, On
      <4> QED BY <1>1, <2>1, <4>1
    <3>2. CASE b = at[r]
      <4>1. Sent(b)' = Sent(b) \cup {r} /\ r \notin Sent(b)
        BY <2>1, <3>2 DEF Sent, On
      <4>2. Cardinality(Sent(b)) < busy[b]
        BY <1>3, <3>2 DEF Send, Sent
      <4>3. Cardinality(Sent(b) \cup {r}) = Cardinality(Sent(b)) + 1
        BY <1>2, <4>1, FS_AddElement
      <4> QED BY <1>1, <1>2, <2>1, <4>1, <4>2, <4>3
    <3> QED BY <3>1, <3>2
  <2> QED BY <1>1, <2>1, <2>2
<1>4. CASE Finish(r) \/ Leave(r)
  <2>1. pc' = [pc EXCEPT ![r] = "idle"] /\ at' = [at EXCEPT ![r] = Caller]
    BY <1>4 DEF Finish, Leave
  <2>2. \A b : /\ Cardinality(Sent(b)') <= Cardinality(Sent(b)) /\ Cardinality(Sent(b)') \in Nat
               /\ r \in Sent(b) => Cardinality(Sent(b)) = Cardinality(Sent(b)') + 1
    BY <1>1, <2>1, EndFrees
  <2>3. \A q \in Calls : pc'[q] = "sent" => at'[q] # Metered
    BY <1>1, <2>1
  <2>4. CASE busy' = busy
    <3>1. ASSUME NEW b \in Bearers
          PROVE  Cardinality(Sent(b)') <= busy'[b]
      BY <1>1, <1>2, <2>2, <2>4
    <3> QED BY <1>1, <2>3, <2>4, <3>1
  <2>5. CASE at[r] \in Bearers /\ Freed(at[r]) /\ (r \in Sent(at[r]) \/ Cardinality(Sent(at[r])) < busy[at[r]])
    <3>0. PICK c \in Bearers : c = at[r]
      BY <2>5
    <3>1. Cardinality(Sent(c)') + 1 <= busy[c] /\ busy[c] \in Nat
      BY <1>1, <1>2, <2>2, <2>5, <3>0
    <3>2. busy[c] >= 1
      BY <2>2, <3>1
    <3>3. busy' \in [Bearers -> Nat] /\ \A b \in Bearers : busy'[b] >= IF b = c THEN busy[c] - 1 ELSE busy[b]
      BY <2>5, <3>0, <3>2, FreedIs
    <3>4. ASSUME NEW b \in Bearers
          PROVE  Cardinality(Sent(b)') <= busy'[b]
      <4>1. /\ busy'[b] \in Nat /\ busy[b] \in Nat /\ Cardinality(Sent(b)') \in Nat /\ Cardinality(Sent(b)) \in Nat
            /\ Cardinality(Sent(b)') <= Cardinality(Sent(b)) /\ Cardinality(Sent(b)) <= busy[b]
        BY <1>1, <1>2, <2>2, <3>3
      <4>2. CASE b = c
        BY <3>1, <3>3, <4>1, <4>2
      <4>3. CASE b # c
        <5>1. busy'[b] >= busy[b]
          BY <3>3, <4>3
        <5> QED BY <4>1, <5>1
      <4> QED BY <4>2, <4>3
    <3> QED BY <2>3, <3>3, <3>4
  <2>6. CASE Finish(r)
    <3>1. CASE pc[r] = "sent"
      <4>1. at[r] \in Bearers /\ r \in Sent(at[r]) /\ Freed(at[r])
        BY <1>1, <2>6, <3>1 DEF Finish, Sent, On
      <4> QED BY <2>5, <4>1
    <3>2. CASE pc[r] # "sent"
      BY <2>4, <2>6, <3>2 DEF Finish
    <3> QED BY <3>1, <3>2
  <2>7. CASE Leave(r)
    <3>1. CASE busy' = busy
      BY <2>4, <3>1
    <3>2. CASE busy' # busy
      <4>1. at[r] # Metered /\ Freed(at[r]) /\ Cardinality(Sent(at[r])) < busy[at[r]]
        BY <2>7, <3>2 DEF Leave, Sent
      <4> QED BY <1>1, <2>5, <4>1
    <3> QED BY <3>1, <3>2
  <2> QED BY <1>4, <2>6, <2>7
<1> QED BY <1>3, <1>4

LEMMA StepKept == IInv /\ [Next]_vars => IInv'
<1> SUFFICES ASSUME IInv, [Next]_vars
             PROVE  IInv'
  OBVIOUS
<1>0. /\ pc \in [Calls -> {"idle", "slot", "sent"}] /\ at \in [Calls -> Bearers \cup {Metered}]
      /\ busy \in [Bearers -> Nat] /\ cap \in [Bearers -> setup.caps]
      /\ \A b \in Bearers : Cardinality(Sent(b)) <= busy[b]
      /\ \A b : Cardinality(Sent(b)) \in Nat
  BY CallsTyped DEF IInv
<1>1. ASSUME NEW r \in Calls, NEW s \in Sessions, NEW incoming \in Bearers, Route(r, s, incoming)
      PROVE  IInv'
  <2>1. PICK b \in Decision(s, incoming) : Routed(r, s, incoming, b)
    BY <1>1, RouteIs
  <2>2. b \in Accounts \cup {Metered, Own}
    BY DecisionIs, SnapshotTyped
  <2>3. at' \in [Calls -> Bearers \cup {Metered}] /\ pc' \in [Calls -> {"idle", "slot", "sent"}]
    BY <2>1, <2>2 DEF Routed, IInv, Bearers
  <2>4. Tidy(pins')
    BY <2>1, PinsStayTidy DEF Routed, IInv
  <2>5. lapsed' \subseteq Sessions /\ setup' \in Setups /\ gauge' \in [Bearers -> setup'.gauges]
    BY <2>1 DEF Routed, IInv
  <2>6. cap' = cap /\ setup' = setup /\ busy' \in [Bearers -> Nat] /\ \A a \in Bearers : busy[a] <= busy'[a]
    BY <1>1, <2>1, RouteGrants DEF Routed
  <2>7. \A q \in Calls : pc'[q] = "sent" => at'[q] # Metered
    BY <1>0, <2>1 DEF Routed, IInv
  <2>8. ASSUME NEW a \in Bearers
        PROVE  Cardinality(Sent(a)') <= busy'[a]
    <3>1. Sent(a)' = Sent(a)
      BY <1>0, <2>1, RouteAdds
    <3> QED BY <1>0, <2>6, <3>1
  <2> QED BY <1>0, <2>3, <2>4, <2>5, <2>6, <2>7, <2>8 DEF IInv, Tidy
<1>2. ASSUME NEW r \in Calls, Send(r) \/ Finish(r) \/ Leave(r)
      PROVE  IInv'
  <2>1. /\ UNCHANGED <<setup, gauge, cap, pins, lapsed>>
        /\ pc' \in [Calls -> {"idle", "slot", "sent"}] /\ at' \in [Calls -> Bearers \cup {Metered}]
    BY <1>2 DEF Send, Finish, Leave, IInv, Bearers
  <2>2. /\ busy' \in [Bearers -> Nat]
        /\ \A q \in Calls : pc'[q] = "sent" => at'[q] # Metered
        /\ \A b \in Bearers : Cardinality(Sent(b)') <= busy'[b]
    BY <1>2, HoldersKept
  <2> QED BY <2>1, <2>2 DEF IInv, Tidy
<1>3. ASSUME NEW b \in Bearers, Adapt(b)
      PROVE  IInv'
  <2>1. PICK c \in setup.caps :
          /\ cap' = [cap EXCEPT ![b] = c]
          /\ IF c < cap[b] THEN busy' = busy
             ELSE \E k \in Granted(Cardinality(On(b)), busy[b], c) : busy' = [busy EXCEPT ![b] = k]
    BY <1>3 DEF Adapt
  <2>2. UNCHANGED <<setup, gauge, pins, lapsed, pc, at>> /\ \A a : Sent(a)' = Sent(a)
    BY <1>3 DEF Adapt, Sent, On
  <2>3. busy' \in [Bearers -> Nat] /\ \A a \in Bearers : busy[a] <= busy'[a]
    <3>1. CASE busy' = busy
      BY <1>0, <3>1
    <3>2. CASE busy' # busy
      <4>1. PICK k \in Granted(Cardinality(On(b)), busy[b], c) : busy' = [busy EXCEPT ![b] = k]
        BY <2>1, <3>2
      <4>2. Cardinality(On(b)) \in Int /\ busy[b] \in Nat
        BY <1>0, CallsTyped
      <4>3. k \in Int /\ busy[b] <= k
        BY <4>1, <4>2, GrantedIs
      <4>4. k \in Nat
        BY <4>2, <4>3
      <4> QED BY <1>0, <4>1, <4>3, <4>4
    <3> QED BY <3>1, <3>2
  <2>4. cap' \in [Bearers -> setup.caps]
    BY <1>0, <2>1
  <2>5. ASSUME NEW a \in Bearers
        PROVE  Cardinality(Sent(a)') <= busy'[a]
    BY <1>0, <2>2, <2>3
  <2> QED BY <2>2, <2>3, <2>4, <2>5 DEF IInv, Tidy
<1>4. ASSUME UNCHANGED <<setup, cap, busy, pins, pc, at>>, gauge' \in [Bearers -> setup.gauges], lapsed' \subseteq Sessions
      PROVE  IInv'
  BY <1>4 DEF IInv, Tidy, Sent, On
<1>5. ASSUME NEW b \in Bearers, Learn(b)
      PROVE  IInv'
  <2>1. gauge' \in [Bearers -> setup.gauges]
    BY <1>5 DEF Learn, IInv
  <2> QED BY <1>4, <1>5, <2>1 DEF Learn, IInv
<1>6. ASSUME NEW s \in Sessions, Lapse(s)
      PROVE  IInv'
  BY <1>4, <1>6 DEF Lapse, IInv
<1>7. CASE UNCHANGED vars
  BY <1>4, <1>7 DEF vars, IInv
<1> QED BY <1>1, <1>2, <1>3, <1>5, <1>6, <1>7 DEF Next

\* The knobs, gauges, caps and pins keep their types and the pins their bound,
\* and whoever is sent owns a slot.
THEOREM RoutingInvariant == Spec => []IInv
BY InitKept, StepKept, PTL DEF Spec

-----------------------------------------------------------------------------
(* What the runs check. *)

\* Whatever the accounts and what is known of them, the ladder of pools and
\* passes (_account_selection) finds the cheapest account that may be picked.
THEOREM ChoiceIsCheapestHolds == Spec => []ChoiceIsCheapest
<1>1. IInv => ChoiceIsCheapest
  <2> SUFFICES ASSUME IInv
               PROVE  ChoiceIsCheapest
    OBVIOUS
  <2>0. Snapshot \subseteq Bearers
    BY SnapshotTyped DEF Bearers
  <2>1. \A incoming : /\ Ladder(Snapshot, incoming) \subseteq Cheapest(Pickable(Snapshot), incoming)
                      /\ Pickable(Snapshot) # {} => Ladder(Snapshot, incoming) # {}
    BY <2>0, LadderIsCheapest
  <2> QED BY <2>1, Zenon DEF ChoiceIsCheapest, Pickable, Open, Below, Clean
<1> QED BY <1>1, RoutingInvariant, PTL

\* No way through routing (_account_route_decision) sends a call with a refused
\* credential while a configured one on schedule is alive.
THEOREM DeadServesNobodyHolds == Spec => DeadServesNobody
<1> DEFINE Alive == \A r \in Calls : pc[r] = "idle" /\ pc'[r] = "slot" /\ at'[r] # Metered =>
                      ~Has(at'[r], "dead") \/ \A b \in Snapshot : Has(b, "dead")
<1>1. IInv /\ [Next]_vars => Alive
  <2> SUFFICES ASSUME IInv, [Next]_vars, NEW q \in Calls,
                      pc[q] = "idle", pc'[q] = "slot", at'[q] # Metered
               PROVE  ~Has(at'[q], "dead") \/ \A b \in Snapshot : Has(b, "dead")
    OBVIOUS
  <2>1. PICK r \in Calls, s \in Sessions, incoming \in Bearers : Route(r, s, incoming)
    BY DEF Next, Send, Finish, Leave, Adapt, Learn, Lapse, vars, IInv
  <2>2. PICK b \in Decision(s, incoming) : Routed(r, s, incoming, b)
    BY <2>1, RouteIs
  <2>3. r = q /\ at'[q] = IF b = Own THEN incoming ELSE b
    BY <2>2 DEF Routed, IInv
  <2>4. Snapshot \subseteq Accounts
    BY SnapshotTyped
  <2> QED BY <2>3, <2>4, DecisionIs
<1>2. IInv /\ [Next]_vars => [Alive]_vars
  BY <1>1
<1> QED BY <1>2, RoutingInvariant, PTL DEF Spec, DeadServesNobody

\* Room elsewhere, seen from an account.
Roomier(b) == Saturated(b) /\ \E c \in Snapshot : Strict(c) /\ ~Saturated(c)

\* A live pin that does not hold, or is not on schedule, has its reason in the
\* gauges, or in being full where another is not.
LEMMA PinsBreakForReasons ==
  ASSUME IInv, NEW b \in Accounts, gauge[b] = {}, ~Roomier(b)
  PROVE  b \in Snapshot /\ PinHolds(b, Snapshot)
<1>1. \A word : ~Has(b, word)
  BY DEF Has
<1>2. b \in Snapshot
  BY <1>1 DEF Snapshot
<1>3. Strict(b)
  BY <1>1 DEF Strict, Priced, Closed, Crossed
<1>4. ASSUME Load(b) >= Full, NEW c \in Snapshot, Strict(c), Load(c) < Full
      PROVE  FALSE
  <2>1. b \in Bearers /\ c \in Bearers
    BY SnapshotTyped DEF Bearers
  <2>2. Load(c) \in Nat /\ Full \in Nat /\ ~(Load(c) >= Full)
    BY <1>4, <2>1, LoadTyped
  <2>3. Saturated(b) /\ ~Saturated(c)
    BY <1>4, <2>1, <2>2, LoadTyped
  <2> QED BY <1>4, <2>3 DEF Roomier
<1> QED BY <1>1, <1>2, <1>3, <1>4 DEF PinHolds

\* Affinity (_pinned_account, SessionAffinity.pin) gives a session's account up
\* for a reason only, or to make room for a new session.
THEOREM SessionsStayHolds == Spec => SessionsStay
<1> DEFINE Stay(i) ==
      \/ \E j \in DOMAIN pins' : pins'[j] = pins[i]
      \/ gauge[pins[i].to] # {}
      \/ Saturated(pins[i].to) /\ \E c \in Snapshot : Strict(c) /\ ~Saturated(c)
      \/ /\ i = 1 /\ Len(pins) = MaxPins
         /\ \A k \in DOMAIN pins : pins[k].of # pins'[MaxPins].of
           Stays == \A i \in DOMAIN pins : pins[i].of \notin lapsed => Stay(i)
<1>1. IInv /\ [Next]_vars => Stays
  <2> SUFFICES ASSUME IInv, [Next]_vars, NEW i \in DOMAIN pins, pins[i].of \notin lapsed
               PROVE  Stay(i)
    OBVIOUS
  <2>0. Tidy(pins) /\ i \in 1..Len(pins) /\ DOMAIN pins = 1..Len(pins)
    BY PinsTyped DEF IInv
  <2>1. CASE pins' = pins
    BY <2>1
  <2>2. ASSUME NEW r \in Calls, NEW s \in Sessions, NEW incoming \in Bearers, Route(r, s, incoming)
        PROVE  Stay(i)
    <3>1. PICK b \in Decision(s, incoming) : Routed(r, s, incoming, b)
      BY <2>2, RouteIs
    <3>2. CASE b \in Snapshot /\ setup.affinity
      <4> DEFINE m == Remember(s, b)
      <4>1. b \in Accounts
        BY <3>2, SnapshotTyped
      <4>2. /\ pins' = m /\ Tidy(m) /\ Len(m) >= 1 /\ m[Len(m)] = [of |-> s, to |-> b]
            /\ pins[i].of # s =>
                 \/ \E j \in 1..Len(m) : m[j] = pins[i]
                 \/ /\ i = 1 /\ Len(pins) = MaxPins /\ Len(m) = MaxPins
                    /\ \A k \in 1..Len(pins) : pins[k].of # s
        <5>1. pins' = m
          BY <3>1, <3>2 DEF Routed
        <5>2. Remembered(m, s, b)
          BY <2>0, <4>1, RememberIs
        <5> HIDE DEF m
        <5> QED BY <2>0, <5>1, <5>2 DEF Remembered
      <4> HIDE DEF m
      <4>3. m \in Seq(Pins) /\ DOMAIN m = 1..Len(m) /\ Len(m) \in 1..Len(m)
        BY <4>2 DEF Tidy
      <4>4. CASE pins[i].of # s
        <5>1. CASE \E j \in 1..Len(m) : m[j] = pins[i]
          BY <4>2, <4>3, <5>1
        <5>2. CASE /\ i = 1 /\ Len(pins) = MaxPins /\ Len(m) = MaxPins
                   /\ \A k \in 1..Len(pins) : pins[k].of # s
          <6>1. pins'[MaxPins].of = s
            BY <4>2, <5>2
          <6> QED BY <2>0, <5>2, <6>1
        <5> QED BY <4>2, <4>4, <5>1, <5>2
      <4>5. CASE pins[i].of = s
        <5>1. pins[i] = [of |-> s, to |-> pins[i].to] /\ pins[i].to \in Accounts
          BY <2>0, <4>5, PinsTyped
        <5>2. CASE PinHolds(pins[i].to, Snapshot)
          <6>1. b # Metered
            BY <4>1
          <6>2. b = pins[i].to
            BY <2>0, <3>1, <3>2, <4>5, <5>2, <6>1, PinDecides
          <6> QED BY <4>2, <4>3, <5>1, <6>2
        <5>3. CASE ~PinHolds(pins[i].to, Snapshot)
          BY <5>1, <5>3, PinsBreakForReasons DEF Roomier
        <5> QED BY <5>2, <5>3
      <4> QED BY <4>4, <4>5
    <3>3. CASE ~(b \in Snapshot /\ setup.affinity)
      <4>1. pins' = LookedUp(s)
        BY <3>1, <3>3 DEF Routed
      <4>2. CASE pins' = pins
        BY <4>2
      <4>3. CASE pins' = Without(s) /\ s \in lapsed
        <5> DEFINE w == Without(s)
        <5>1. pins[i].of # s
          BY <4>3
        <5>2. w \in Seq(Pins) /\ \E j \in 1..Len(w) : w[j] = pins[i]
          BY <2>0, <5>1, WithoutIs DEF Tidy
        <5> HIDE DEF w
        <5>3. DOMAIN w = 1..Len(w)
          BY <5>2
        <5> QED BY <4>3, <5>2, <5>3 DEF w
      <4> QED BY <4>1, <4>2, <4>3 DEF LookedUp
    <3> QED BY <3>2, <3>3
  <2> HIDE DEF Stay
  <2> QED BY <2>1, <2>2 DEF Next, Send, Finish, Leave, Adapt, Learn, Lapse, vars
<1>2. IInv /\ [Next]_vars => [Stays]_vars
  BY <1>1
<1> QED BY <1>2, RoutingInvariant, PTL DEF Spec, SessionsStay

-----------------------------------------------------------------------------
(* The balancer's operators. *)

\* What no estimate and no count of tokens exceeds.
Bound == IF DefaultQuantum > MaxTokens THEN DefaultQuantum ELSE MaxTokens

Ledger ==
  [work : [Accounts -> Nat], pending : [Accounts -> Int], turn : [Accounts -> Nat],
   members : SUBSET Accounts, turns : Nat, measured : Nat, tokens : Nat, floor : Nat]
Tickets == [of : Accounts, estimate : 1..Bound]

USE PoolAssumption

LEMMA BoundTyped == Bound \in Nat \ {0} /\ MaxTokens <= Bound /\ DefaultQuantum <= Bound
BY DEF Bound

LEMMA MeanBounded ==
  ASSUME NEW t \in Nat, NEW n \in Nat \ {0}, t <= MaxTokens * n
  PROVE  t \div n \in Nat /\ t \div n <= MaxTokens
<1>1. t \div n \in Nat /\ n * (t \div n) <= t
  OBVIOUS
<1>2. MaxTokens \in Nat
  OBVIOUS
<1> DEFINE d == t \div n
<1> HIDE DEF d
<1>3. ~(d > MaxTokens)
  <2> SUFFICES ASSUME d >= MaxTokens + 1
               PROVE  FALSE
    BY <1>1, <1>2 DEF d
  <2>1. d \in Nat /\ n * d <= t
    BY <1>1 DEF d
  <2>2. n * (MaxTokens + 1) <= n * d
    BY <2>1
  <2>3. n * (MaxTokens + 1) = MaxTokens * n + n
    OBVIOUS
  <2> QED BY <1>2, <2>1, <2>2, <2>3
<1> QED BY <1>1, <1>2, <1>3 DEF d

LEMMA QuantumTyped ==
  ASSUME NEW p \in Ledger, p.tokens <= MaxTokens * p.measured
  PROVE  Quantum(p) \in 1..Bound
<1>1. p.tokens \in Nat /\ p.measured \in Nat
  BY DEF Ledger
<1>2. CASE p.measured = 0
  BY <1>2, BoundTyped DEF Quantum
<1>3. CASE p.measured # 0
  <2>1. p.tokens \div p.measured \in Nat /\ p.tokens \div p.measured <= MaxTokens
    BY <1>1, <1>3, MeanBounded
  <2> QED BY <1>3, <2>1, BoundTyped DEF Quantum
<1> QED BY <1>2, <1>3

LEMMA FloorTyped ==
  ASSUME NEW p \in Ledger, NEW C
  PROVE  /\ Floor(p, C) \in Nat
         /\ p.members \cap C = {} => Floor(p, C) = p.floor
         /\ p.members \cap C # {} => \E s \in p.members \cap C : Floor(p, C) = p.work[s]
         /\ \A s \in p.members \cap C : Floor(p, C) <= p.work[s]
<1> DEFINE T == {p.work[m] : m \in p.members \cap C}
<1>1. p.members \subseteq Accounts /\ p.floor \in Nat /\ \A a \in Accounts : p.work[a] \in Nat
  BY DEF Ledger
<1>2. CASE p.members \cap C = {}
  BY <1>1, <1>2 DEF Floor
<1>3. CASE p.members \cap C # {}
  <2>1. T \subseteq Nat /\ T # {}
    BY <1>1, <1>3
  <2>2. \E x \in T : \A y \in T : x <= y
    BY <2>1, LeastOf
  <2>3. Floor(p, C) = Min(T)
    BY <1>3 DEF Floor
  <2>4. Min(T) \in T /\ \A y \in T : Min(T) <= y
    <3> HIDE DEF T
    <3> QED BY <2>2 DEF Min
  <2>5. PICK s \in p.members \cap C : Min(T) = p.work[s]
    <3> HIDE DEF Min
    <3> QED BY <2>4
  <2>6. \A m \in p.members \cap C : p.work[m] \in T
    OBVIOUS
  <2> HIDE DEF T
  <2> QED BY <1>3, <2>1, <2>3, <2>4, <2>5, <2>6
<1> QED BY <1>2, <1>3

\* What Selected does, field by field.
LEMMA SelectedIs ==
  ASSUME NEW p \in Ledger, NEW b \in Accounts, NEW C \in SUBSET Accounts
  PROVE  Selected(p, b, C) \in Ledger
<1>1. Floor(p, C) \in Nat
  BY FloorTyped
<1>2. [p.turn EXCEPT ![b] = p.turns + 1] \in [Accounts -> Nat] /\ p.turns + 1 \in Nat
  BY DEF Ledger
<1> HIDE DEF Floor
<1> QED BY <1>1, <1>2 DEF Ledger, Selected

\* A ticket that is opened pends with its estimate.
LEMMA BegunIs ==
  ASSUME NEW p \in Ledger, NEW t \in Tickets
  PROVE  /\ Begun(p, t) \in Ledger
         /\ Begun(p, t) = [p EXCEPT !.pending = Begun(p, t).pending]
         /\ \A a \in Accounts : Begun(p, t).pending[a] = p.pending[a] + IF a = t.of THEN t.estimate ELSE 0
<1>1. t # NoTicket /\ t.of \in Accounts /\ t.estimate \in Nat
  BY BoundTyped DEF Tickets
<1> DEFINE P == [p.pending EXCEPT ![t.of] = p.pending[t.of] + t.estimate]
<1>2. Begun(p, t) = [p EXCEPT !.pending = P]
  BY <1>1 DEF Begun, Ledger
<1>3. P \in [Accounts -> Int] /\ \A a \in Accounts : P[a] = p.pending[a] + IF a = t.of THEN t.estimate ELSE 0
  BY <1>1 DEF Ledger
<1> HIDE DEF P
<1> QED BY <1>2, <1>3 DEF Ledger

\* A ticket that is settled pends no more, and its account has worked for it.
Settled(p, q, t) ==
  /\ q \in Ledger
  /\ q.members = p.members /\ q.floor = p.floor
  /\ q.tokens <= MaxTokens * q.measured
  /\ \A a \in Accounts : q.pending[a] = p.pending[a] - IF a = t.of THEN t.estimate ELSE 0
  /\ \E n \in 1..Bound : \A a \in Accounts : q.work[a] = p.work[a] + IF a = t.of THEN n ELSE 0

LEMMA FinishedIs ==
  ASSUME NEW p \in Ledger, p.tokens <= MaxTokens * p.measured, NEW t \in Tickets, NEW n \in 0..MaxTokens
  PROVE  Settled(p, Finished(p, t, n), t)
<1>1. t # NoTicket /\ t.of \in Accounts /\ t.estimate \in 1..Bound
  BY BoundTyped DEF Tickets
<1> DEFINE w == IF n > 0 THEN n ELSE t.estimate
           P == [p.pending EXCEPT ![t.of] = p.pending[t.of] - t.estimate]
           W == [p.work EXCEPT ![t.of] = p.work[t.of] + w]
           M == IF n > 0 THEN p.measured + 1 ELSE p.measured
           q == [p EXCEPT !.pending = P, !.work = W, !.tokens = p.tokens + n, !.measured = M]
<1>2. Finished(p, t, n) = q
  BY <1>1 DEF Finished, Ledger
<1>3. w \in 1..Bound /\ w \in Nat
  BY <1>1, BoundTyped
<1>4. P \in [Accounts -> Int] /\ \A a \in Accounts : P[a] = p.pending[a] - IF a = t.of THEN t.estimate ELSE 0
  BY <1>1, BoundTyped DEF Ledger
<1>5. W \in [Accounts -> Nat] /\ \A a \in Accounts : W[a] = p.work[a] + IF a = t.of THEN w ELSE 0
  <2> HIDE DEF w
  <2> QED BY <1>1, <1>3 DEF Ledger
<1>6. M \in Nat /\ p.tokens + n \in Nat /\ p.tokens + n <= MaxTokens * M
  <2>1. p.tokens \in Nat /\ p.measured \in Nat /\ MaxTokens \in Nat
    BY DEF Ledger
  <2>2. MaxTokens * (p.measured + 1) = MaxTokens * p.measured + MaxTokens
    BY <2>1
  <2> QED BY <2>1, <2>2
<1> HIDE DEF w, P, W, M
<1>7. /\ q \in Ledger /\ q.members = p.members /\ q.floor = p.floor
      /\ q.pending = P /\ q.work = W /\ q.tokens = p.tokens + n /\ q.measured = M
  BY <1>4, <1>5, <1>6 DEF Ledger
<1> HIDE DEF q
<1> QED BY <1>2, <1>3, <1>4, <1>5, <1>6, <1>7 DEF Settled

-----------------------------------------------------------------------------
(* What is pending. *)

Units(f, a) == UNION {{r} \X (1..f[r].estimate) : r \in {q \in Calls : f[q] # NoTicket /\ f[q].of = a}}

LEMMA UnitsFinite ==
  ASSUME NEW f \in [Calls -> Tickets \cup {NoTicket}], NEW a
  PROVE  IsFiniteSet(Units(f, a)) /\ Cardinality(Units(f, a)) \in Nat
<1>1. IsFiniteSet(1..Bound)
  BY BoundTyped, FS_Interval
<1>2. IsFiniteSet(Calls \X (1..Bound))
  BY <1>1, FS_Product
<1>3. Units(f, a) \subseteq Calls \X (1..Bound)
  BY BoundTyped DEF Units, Tickets
<1> QED BY <1>2, <1>3, FS_Subset, FS_CardinalityType

\* A ticket that is opened adds as many units as it is estimated at.
Opened(f, g, t, a) ==
  Cardinality(Units(g, a)) = Cardinality(Units(f, a)) + IF a = t.of THEN t.estimate ELSE 0

LEMMA UnitsMove ==
  ASSUME NEW f \in [Calls -> Tickets \cup {NoTicket}], NEW r \in Calls, f[r] = NoTicket,
         NEW t \in Tickets, NEW g, g = [f EXCEPT ![r] = t], NEW a
  PROVE  Opened(f, g, t, a)
<1> DEFINE new == {r} \X (1..t.estimate)
<1>1. t # NoTicket /\ t.of \in Accounts /\ t.estimate \in Nat
  BY BoundTyped DEF Tickets
<1>2. IsFiniteSet(Units(f, a)) /\ Cardinality(Units(f, a)) \in Nat
  BY UnitsFinite
<1>3. g[r] = t /\ \A q \in Calls \ {r} : g[q] = f[q]
  OBVIOUS
<1>4. CASE a # t.of
  <2>1. {q \in Calls : g[q] # NoTicket /\ g[q].of = a} = {q \in Calls : f[q] # NoTicket /\ f[q].of = a}
    BY <1>3, <1>4
  <2>2. \A q \in {q \in Calls : f[q] # NoTicket /\ f[q].of = a} : g[q] = f[q]
    BY <1>3
  <2>3. Units(g, a) = Units(f, a)
    BY <2>1, <2>2 DEF Units
  <2> QED BY <1>2, <1>4, <2>3 DEF Opened
<1>5. CASE a = t.of
  <2>1. \A u : u \in Units(g, a) <=> u \in Units(f, a) \cup new
    BY <1>1, <1>3, <1>5 DEF Units
  <2>2. Units(g, a) = Units(f, a) \cup new
    BY <2>1
  <2>3. Units(f, a) \cap new = {}
    BY DEF Units
  <2>4. IsFiniteSet(new) /\ Cardinality(new) = t.estimate
    <3>1. IsFiniteSet(1..t.estimate) /\ Cardinality(1..t.estimate) = t.estimate
      BY <1>1, FS_Interval
    <3>2. IsFiniteSet({r}) /\ Cardinality({r}) = 1
      BY FS_Singleton
    <3>3. IsFiniteSet(new) /\ Cardinality(new) = Cardinality({r}) * Cardinality(1..t.estimate)
      BY <3>1, <3>2, FS_Product
    <3>4. 1 * t.estimate = t.estimate
      BY <1>1
    <3> HIDE DEF new
    <3> QED BY <3>1, <3>2, <3>3, <3>4
  <2>5. Cardinality(Units(f, a) \cup new) = Cardinality(Units(f, a)) + Cardinality(new) - Cardinality({})
    BY <1>2, <2>3, <2>4, FS_Union
  <2> HIDE DEF new
  <2>6. Cardinality({}) = 0
    BY FS_EmptySet
  <2>7. Cardinality(Units(g, a)) = Cardinality(Units(f, a)) + t.estimate
    BY ONLY <1>1, <1>2, <2>2, <2>4, <2>5, <2>6
  <2> QED BY <1>5, <2>7 DEF Opened
<1> QED BY <1>4, <1>5

-----------------------------------------------------------------------------
(* The balancer's books. *)

PInv ==
  /\ IInv
  /\ pool \in Ledger /\ joined \in [Accounts -> Nat]
  /\ pool.tokens <= MaxTokens * pool.measured
  /\ ticket \in [Calls -> Tickets \cup {NoTicket}]
  /\ \A r \in Calls : ticket[r] # NoTicket => pc[r] = "sent" /\ at[r] = ticket[r].of
  /\ PendingIsOwed

\* What a routing does to the balancer, decision in hand.
Weighed(b) ==
  /\ pool' = IF setup.mode = "round_robin" /\ b \in Candidates(Snapshot)
             THEN Selected(pool, b, Candidates(Snapshot)) ELSE pool
  /\ joined' = [a \in Accounts |-> IF a \in pool'.members \ pool.members
                                   THEN pool'.work[a] ELSE joined[a]]
  /\ ticket' = ticket

LEMMA RouteWeighs ==
  ASSUME NEW r \in Calls, NEW s \in Sessions, NEW incoming \in Bearers, Route(r, s, incoming)
  PROVE  \E b \in Decision(s, incoming) : Routed(r, s, incoming, b) /\ Weighed(b)
BY DEF Route, Routed, Weighed

LEMMA CandidatesTyped == Candidates(Snapshot) \in SUBSET Accounts
BY SnapshotTyped DEF Candidates

LEMMA TicketsAreNone == NoTicket \notin Tickets
BY BoundTyped DEF Tickets

LEMMA TicketForTyped ==
  ASSUME NEW p \in Ledger, p.tokens <= MaxTokens * p.measured, NEW a
  PROVE  \/ TicketFor(p, a) = NoTicket
         \/ a \in p.members /\ TicketFor(p, a) \in Tickets /\ TicketFor(p, a).of = a
<1>1. CASE a \in p.members
  <2>1. a \in Accounts /\ Quantum(p) \in 1..Bound
    BY <1>1, QuantumTyped DEF Ledger
  <2> QED BY <1>1, <2>1 DEF TicketFor, Tickets
<1>2. CASE a \notin p.members
  BY <1>2 DEF TicketFor
<1> QED BY <1>1, <1>2

LEMMA OwedIs ==
  /\ PendingIsOwed <=> \A a \in Accounts : pool.pending[a] = Cardinality(Units(ticket, a))
  /\ PendingIsOwed' <=> \A a \in Accounts : pool'.pending[a] = Cardinality(Units(ticket', a))
BY DEF PendingIsOwed, Owed, Units

\* The balancer's state is the same, and what is owed is.
LEMMA PendingStays ==
  ASSUME PendingIsOwed, pool'.pending = pool.pending, ticket' = ticket
  PROVE  PendingIsOwed'
BY OwedIs

\* What Send does to the balancer: a ticket, if the bearer is a member.
LEMMA SendPends ==
  ASSUME PInv, NEW r \in Calls, Send(r)
  PROVE  /\ pool' \in Ledger /\ pool'.tokens <= MaxTokens * pool'.measured
         /\ pool' = [pool EXCEPT !.pending = pool'.pending]
         /\ ticket' \in [Calls -> Tickets \cup {NoTicket}]
         /\ ticket'[r] # NoTicket => ticket'[r].of = at[r]
         /\ PendingIsOwed'
<1> DEFINE t == IF setup.mode = "round_robin" THEN TicketFor(pool, at[r]) ELSE NoTicket
<1>1. /\ ticket \in [Calls -> Tickets \cup {NoTicket}] /\ ticket[r] = NoTicket
      /\ pool \in Ledger /\ pool.tokens <= MaxTokens * pool.measured /\ PendingIsOwed
  BY DEF PInv, Send
<1>2. ticket' = [ticket EXCEPT ![r] = t] /\ pool' = Begun(pool, ticket'[r])
  BY DEF Send
<1>3. ticket'[r] = t /\ ticket' = [ticket EXCEPT ![r] = t] /\ pool' = Begun(pool, t)
  <2> HIDE DEF t
  <2> QED BY <1>1, <1>2
<1>4. t = NoTicket \/ (t \in Tickets /\ t.of = at[r])
  BY <1>1, TicketForTyped
<1> HIDE DEF t
<1>5. CASE t = NoTicket
  <2>1. ticket' = ticket /\ pool' = pool
    BY <1>1, <1>2, <1>3, <1>5 DEF Begun
  <2>2. PendingIsOwed'
    BY <1>1, <2>1, PendingStays
  <2>3. pool' = [pool EXCEPT !.pending = pool'.pending]
    BY <1>1, <2>1 DEF Ledger
  <2> QED BY <1>1, <2>1, <2>2, <2>3
<1>6. CASE t \in Tickets /\ t.of = at[r]
  <2>1. /\ pool' \in Ledger /\ pool' = [pool EXCEPT !.pending = pool'.pending]
        /\ \A a \in Accounts : pool'.pending[a] = pool.pending[a] + IF a = t.of THEN t.estimate ELSE 0
    BY <1>1, <1>3, <1>6, BegunIs
  <2>2. pool'.tokens = pool.tokens /\ pool'.measured = pool.measured
    BY <1>1, <2>1 DEF Ledger
  <2>3. ASSUME NEW a \in Accounts
        PROVE  pool'.pending[a] = Cardinality(Units(ticket', a))
    <3>1. Opened(ticket, ticket', t, a)
      BY <1>1, <1>3, <1>6, UnitsMove
    <3>2. pool.pending[a] = Cardinality(Units(ticket, a))
      BY <1>1, OwedIs
    <3> QED BY <2>1, <3>1, <3>2 DEF Opened
  <2>4. PendingIsOwed'
    BY <2>3, OwedIs
  <2>5. ticket' \in [Calls -> Tickets \cup {NoTicket}]
    BY <1>1, <1>2, <1>6
  <2> QED BY <1>1, <1>3, <1>6, <2>1, <2>2, <2>4, <2>5
<1> QED BY <1>4, <1>5, <1>6

\* What Finish does to it: the call's ticket is settled, if it has one.
LEMMA FinishSettles ==
  ASSUME PInv, NEW r \in Calls, Finish(r)
  PROVE  /\ pool' \in Ledger /\ pool'.tokens <= MaxTokens * pool'.measured
         /\ \/ ticket[r] = NoTicket /\ pool' = pool
            \/ ticket[r] \in Tickets /\ Settled(pool, pool', ticket[r])
         /\ ticket' \in [Calls -> Tickets \cup {NoTicket}]
         /\ PendingIsOwed'
<1>1. /\ ticket \in [Calls -> Tickets \cup {NoTicket}]
      /\ pool \in Ledger /\ pool.tokens <= MaxTokens * pool.measured /\ PendingIsOwed
  BY DEF PInv
<1>2. ticket' = [ticket EXCEPT ![r] = NoTicket]
  BY DEF Finish
<1>3. PICK n \in 0..(IF ticket[r] = NoTicket THEN 0 ELSE MaxTokens) : pool' = Finished(pool, ticket[r], n)
  BY DEF Finish
<1>4. CASE ticket[r] = NoTicket
  <2>1. ticket' = ticket /\ pool' = pool
    BY <1>1, <1>2, <1>3, <1>4 DEF Finished
  <2>2. PendingIsOwed'
    BY <1>1, <2>1, PendingStays
  <2> QED BY <1>1, <1>4, <2>1, <2>2
<1>5. CASE ticket[r] \in Tickets
  <2> DEFINE t == ticket[r]
  <2>1. t # NoTicket /\ n \in 0..MaxTokens
    BY <1>3, <1>5, TicketsAreNone
  <2>2. Settled(pool, pool', t)
    BY <1>1, <1>3, <1>5, <2>1, FinishedIs
  <2>3. ticket'[r] = NoTicket /\ ticket' \in [Calls -> Tickets \cup {NoTicket}] /\ ticket = [ticket' EXCEPT ![r] = t]
    BY <1>1, <1>2
  <2>4. ASSUME NEW a \in Accounts
        PROVE  pool'.pending[a] = Cardinality(Units(ticket', a))
    <3>1. Opened(ticket', ticket, t, a)
      BY <1>5, <2>3, UnitsMove
    <3>2. pool.pending[a] = Cardinality(Units(ticket, a))
      BY <1>1, OwedIs
    <3>3. Cardinality(Units(ticket', a)) \in Nat /\ t.estimate \in Nat
      BY <1>5, <2>3, UnitsFinite, BoundTyped DEF Tickets
    <3>4. pool'.pending[a] = pool.pending[a] - IF a = t.of THEN t.estimate ELSE 0
      BY <2>2 DEF Settled
    <3>5. Cardinality(Units(ticket, a)) = Cardinality(Units(ticket', a)) + IF a = t.of THEN t.estimate ELSE 0
      BY <3>1 DEF Opened
    <3> HIDE DEF t
    <3> QED BY <3>2, <3>3, <3>4, <3>5
  <2>5. PendingIsOwed'
    BY <2>4, OwedIs
  <2>6. pool' \in Ledger /\ pool'.tokens <= MaxTokens * pool'.measured
    BY <2>2 DEF Settled
  <2> QED BY <1>5, <2>2, <2>3, <2>5, <2>6
<1> QED BY <1>1, <1>4, <1>5

LEMMA InitBalanced == Init => PInv
<1> SUFFICES ASSUME Init
             PROVE  PInv
  OBVIOUS
<1>1. IInv
  BY InitKept
<1>2. pool = EmptyPool /\ joined = [a \in Accounts |-> 0] /\ ticket = [r \in Calls |-> NoTicket]
  BY DEF Init
<1>3. EmptyPool \in Ledger /\ EmptyPool.tokens <= MaxTokens * EmptyPool.measured
  BY DEF EmptyPool, Ledger
<1>4. ASSUME NEW a \in Accounts
      PROVE  pool.pending[a] = Cardinality(Units(ticket, a))
  <2>1. Units(ticket, a) = {}
    BY <1>2 DEF Units
  <2>2. pool.pending[a] = 0
    BY <1>2 DEF EmptyPool
  <2> QED BY <2>1, <2>2, FS_EmptySet
<1>5. PendingIsOwed
  BY <1>4, OwedIs
<1> QED BY <1>1, <1>2, <1>3, <1>5 DEF PInv

\* What a routing leaves of the books.
LEMMA RouteBalances ==
  ASSUME PInv, NEW b, Weighed(b)
  PROVE  /\ pool' \in Ledger /\ joined' \in [Accounts -> Nat]
         /\ pool'.tokens <= MaxTokens * pool'.measured
         /\ PendingIsOwed'
<1>1. pool \in Ledger /\ joined \in [Accounts -> Nat] /\ PendingIsOwed /\ pool.tokens <= MaxTokens * pool.measured
  BY DEF PInv
<1>2. CASE pool' = pool
  <2>1. joined' = [a \in Accounts |-> joined[a]]
    BY <1>2 DEF Weighed
  <2>2. PendingIsOwed'
    BY <1>1, <1>2, PendingStays DEF Weighed
  <2> QED BY <1>1, <1>2, <2>1, <2>2
<1>3. CASE b \in Candidates(Snapshot) /\ pool' = Selected(pool, b, Candidates(Snapshot))
  <2>1. b \in Accounts /\ Candidates(Snapshot) \in SUBSET Accounts
    BY <1>3, CandidatesTyped
  <2>2. pool' \in Ledger
    BY <1>1, <1>3, <2>1, SelectedIs
  <2>3. pool'.pending = pool.pending /\ pool'.tokens = pool.tokens /\ pool'.measured = pool.measured
    BY <1>3 DEF Selected
  <2>4. joined' \in [Accounts -> Nat]
    BY <1>1, <2>2 DEF Weighed, Ledger
  <2>5. PendingIsOwed'
    BY <1>1, <2>3, PendingStays DEF Weighed
  <2> QED BY <1>1, <2>2, <2>3, <2>4, <2>5
<1> QED BY <1>2, <1>3 DEF Weighed

LEMMA StepBalanced == PInv /\ [Next]_vars => PInv'
<1> SUFFICES ASSUME PInv, [Next]_vars
             PROVE  PInv'
  OBVIOUS
<1>1. IInv' /\ IInv
  BY StepKept DEF PInv
<1>2. /\ pool \in Ledger /\ joined \in [Accounts -> Nat] /\ PendingIsOwed
      /\ pool.tokens <= MaxTokens * pool.measured
      /\ ticket \in [Calls -> Tickets \cup {NoTicket}]
      /\ \A q \in Calls : ticket[q] # NoTicket => pc[q] = "sent" /\ at[q] = ticket[q].of
      /\ pc \in [Calls -> {"idle", "slot", "sent"}] /\ at \in [Calls -> Bearers \cup {Metered}]
  BY <1>1 DEF PInv, IInv
<1>3. ASSUME NEW r \in Calls, NEW s \in Sessions, NEW incoming \in Bearers, Route(r, s, incoming)
      PROVE  PInv'
  <2>1. PICK b \in Decision(s, incoming) : Routed(r, s, incoming, b) /\ Weighed(b)
    BY <1>3, RouteWeighs
  <2>2. ticket' = ticket /\ pc[r] = "idle" /\ ticket[r] = NoTicket
    BY <1>2, <2>1 DEF Routed, Weighed
  <2>3. \A q \in Calls \ {r} : pc'[q] = pc[q] /\ at'[q] = at[q]
    BY <1>2, <2>1 DEF Routed
  <2>4. /\ pool' \in Ledger /\ joined' \in [Accounts -> Nat]
        /\ pool'.tokens <= MaxTokens * pool'.measured
        /\ PendingIsOwed'
    BY <2>1, RouteBalances
  <2> QED BY <1>1, <1>2, <2>2, <2>3, <2>4 DEF PInv
<1>4. ASSUME NEW r \in Calls, Send(r)
      PROVE  PInv'
  <2>1. /\ pool' \in Ledger /\ pool'.tokens <= MaxTokens * pool'.measured
        /\ ticket' \in [Calls -> Tickets \cup {NoTicket}]
        /\ ticket'[r] # NoTicket => ticket'[r].of = at[r]
        /\ PendingIsOwed'
    BY <1>4, SendPends
  <2>2. /\ joined' = joined /\ at' = at /\ pc'[r] = "sent"
        /\ \A q \in Calls \ {r} : pc'[q] = pc[q] /\ ticket'[q] = ticket[q]
    BY <1>2, <1>4 DEF Send
  <2> QED BY <1>1, <1>2, <2>1, <2>2 DEF PInv
<1>5. ASSUME NEW r \in Calls, Finish(r)
      PROVE  PInv'
  <2>1. /\ pool' \in Ledger /\ pool'.tokens <= MaxTokens * pool'.measured
        /\ ticket' \in [Calls -> Tickets \cup {NoTicket}]
        /\ PendingIsOwed'
    BY <1>5, FinishSettles
  <2>2. /\ joined' = joined /\ ticket'[r] = NoTicket
        /\ \A q \in Calls \ {r} : pc'[q] = pc[q] /\ at'[q] = at[q] /\ ticket'[q] = ticket[q]
    BY <1>2, <1>5 DEF Finish
  <2> QED BY <1>1, <1>2, <2>1, <2>2 DEF PInv
<1>6. ASSUME NEW r \in Calls, Leave(r)
      PROVE  PInv'
  <2>1. /\ UNCHANGED <<ticket, pool, joined>> /\ ticket[r] = NoTicket
        /\ \A q \in Calls \ {r} : pc'[q] = pc[q] /\ at'[q] = at[q]
    BY <1>2, <1>6 DEF Leave
  <2>2. PendingIsOwed'
    BY <1>2, <2>1, PendingStays
  <2> QED BY <1>1, <1>2, <2>1, <2>2 DEF PInv
<1>7. CASE UNCHANGED <<pc, at, ticket, pool, joined>>
  <2>1. PendingIsOwed'
    BY <1>2, <1>7, PendingStays
  <2> QED BY <1>1, <1>2, <1>7, <2>1 DEF PInv
<1> QED BY <1>3, <1>4, <1>5, <1>6, <1>7 DEF Next, Adapt, Learn, Lapse, vars

\* What is pending on an account (BalancedRoundRobin.begin, finish) is what its
\* open tickets were estimated at, whatever members came and went meanwhile.
THEOREM PendingIsOwedHolds == Spec => []PendingIsOwed
<1>1. PInv => PendingIsOwed
  BY DEF PInv
<1> QED BY <1>1, InitBalanced, StepBalanced, PTL DEF Spec

-----------------------------------------------------------------------------
(* Nobody runs ahead. *)

\* Where the balancer alone decides: no session is pinned to an account and no
\* weekly schedule takes accounts out of its sight.
BalancerDecides ==
  \A s \in Setups : s.mode = "round_robin" /\ s.apiKey = "overflow" =>
    ~s.affinity /\ \A words \in s.gauges : "ahead" \notin words

\* What n calls can amount to.
Worth(n) == n * MaxTokens

\* An account that is given a call has the others' calls under way to make good
\* for; each call it has itself counts for as much as it may turn out to be.
Even(a, c) ==
  \/ pool.work[a] + Worth(Cardinality(On(a))) <= pool.work[c] + Worth(Cardinality(Calls))
  \/ pool.work[a] + Worth(Cardinality(On(a))) <= joined[a] + Worth(Cardinality(Calls))

FInv ==
  /\ setup.mode # "round_robin" => pool.members = {}
  /\ setup.mode = "round_robin" /\ setup.apiKey = "overflow" =>
       /\ \A a \in pool.members : pool.floor <= pool.work[a]
       /\ \A a, c \in pool.members : Even(a, c)

LEMMA WorthIs ==
  /\ \A n \in Nat : Worth(n) \in Nat /\ Worth(n + 1) = Worth(n) + MaxTokens
  /\ \A m, n \in Nat : m <= n => Worth(m) <= Worth(n)
  /\ \A m, n \in Nat : Worth(m + n) = Worth(m) + Worth(n)
<1>1. MaxTokens \in Nat
  OBVIOUS
<1>2. ASSUME NEW m \in Nat, NEW n \in Nat, m <= n
      PROVE  m * MaxTokens <= n * MaxTokens
  <2>1. (n - m) * MaxTokens \in Nat
    BY <1>1, <1>2
  <2>2. n * MaxTokens = m * MaxTokens + (n - m) * MaxTokens
    BY <1>1, <1>2
  <2> QED BY <1>1, <2>1, <2>2
<1>3. ASSUME NEW m \in Nat, NEW n \in Nat
      PROVE  (m + n) * MaxTokens = m * MaxTokens + n * MaxTokens
  BY <1>1
<1>4. ASSUME NEW n \in Nat
      PROVE  n * MaxTokens \in Nat /\ (n + 1) * MaxTokens = n * MaxTokens + MaxTokens
  BY <1>1
<1> QED BY <1>2, <1>3, <1>4 DEF Worth

\* A call that is idle is on neither of two accounts.
LEMMA RoomForOne ==
  ASSUME NEW r \in Calls, pc[r] = "idle", NEW a, NEW c, a # c
  PROVE  Cardinality(On(a)) + 1 + Cardinality(On(c)) <= Cardinality(Calls)
<1> DEFINE A == On(a) \cup {r}
<1>1. IsFiniteSet(On(a)) /\ IsFiniteSet(On(c)) /\ Cardinality(On(a)) \in Nat /\ Cardinality(On(c)) \in Nat
  BY CallsTyped
<1>2. r \notin On(a) /\ r \notin On(c) /\ On(a) \cap On(c) = {}
  BY DEF On
<1>3. IsFiniteSet(A) /\ Cardinality(A) = Cardinality(On(a)) + 1
  BY <1>1, <1>2, FS_AddElement
<1>4. A \cap On(c) = {} /\ A \cup On(c) \subseteq Calls
  BY <1>2 DEF On
<1> HIDE DEF A
<1>5. Cardinality(A \cup On(c)) = Cardinality(A) + Cardinality(On(c)) - Cardinality(A \cap On(c))
  BY <1>1, <1>3, FS_Union
<1>6. Cardinality(A \cap On(c)) = 0
  BY <1>4, FS_EmptySet
<1>7. Cardinality(A \cup On(c)) <= Cardinality(Calls)
  BY <1>4, FS_Subset
<1> QED BY ONLY <1>1, <1>3, <1>5, <1>6, <1>7

\* Pending and queued work of an account is no more than its calls can amount to.
LEMMA LoadIsWorth ==
  ASSUME PInv, Bound = MaxTokens, NEW c \in Accounts
  PROVE  /\ pool.pending[c] \in Nat /\ Queued(c) * Quantum(pool) \in Nat
         /\ pool.pending[c] + Queued(c) * Quantum(pool) <= Worth(Cardinality(On(c)))
<1>1. /\ pool \in Ledger /\ pool.tokens <= MaxTokens * pool.measured /\ PendingIsOwed
      /\ ticket \in [Calls -> Tickets \cup {NoTicket}]
      /\ \A q \in Calls : ticket[q] # NoTicket => pc[q] = "sent" /\ at[q] = ticket[q].of
  BY DEF PInv
<1>2. pool.pending[c] = Cardinality(Units(ticket, c))
  BY <1>1, OwedIs
<1>3. Units(ticket, c) \subseteq Sent(c) \X (1..MaxTokens)
  BY <1>1 DEF Units, Sent, On, Tickets
<1>4. IsFiniteSet(Sent(c)) /\ Cardinality(Sent(c)) \in Nat /\ Cardinality(On(c)) \in Nat
      /\ Cardinality(Sent(c)) <= Cardinality(On(c))
  BY CallsTyped
<1>5. IsFiniteSet(1..MaxTokens) /\ Cardinality(1..MaxTokens) = MaxTokens
  BY FS_Interval
<1>6. /\ IsFiniteSet(Sent(c) \X (1..MaxTokens))
      /\ Cardinality(Sent(c) \X (1..MaxTokens)) = Cardinality(Sent(c)) * Cardinality(1..MaxTokens)
  BY <1>4, <1>5, FS_Product
<1>7. Cardinality(Units(ticket, c)) \in Nat /\ Cardinality(Units(ticket, c)) <= Worth(Cardinality(Sent(c)))
  <2>1. Cardinality(Units(ticket, c)) <= Cardinality(Sent(c) \X (1..MaxTokens))
    BY <1>3, <1>6, FS_Subset
  <2>2. Cardinality(Units(ticket, c)) \in Nat
    BY <1>1, UnitsFinite
  <2> QED BY <1>5, <1>6, <2>1, <2>2 DEF Worth
<1>8. Quantum(pool) \in 1..MaxTokens
  BY <1>1, QuantumTyped
<1>9. Queued(c) \in Nat /\ Queued(c) + Cardinality(Sent(c)) <= Cardinality(On(c))
  <2>1. busy[c] \in Nat /\ Cardinality(Sent(c)) <= busy[c]
    BY DEF PInv, IInv, Bearers
  <2> QED BY <1>4, <2>1 DEF Queued
<1>10. Queued(c) * Quantum(pool) \in Nat /\ Queued(c) * Quantum(pool) <= Worth(Queued(c))
  <2> DEFINE k == Queued(c)
             n == Quantum(pool)
  <2>1. k \in Nat /\ n \in Nat /\ MaxTokens - n \in Nat
    BY <1>8, <1>9
  <2> HIDE DEF k, n
  <2>2. k * (MaxTokens - n) \in Nat /\ k * MaxTokens = k * n + k * (MaxTokens - n) /\ k * n \in Nat
    BY <2>1
  <2> QED BY <2>2 DEF k, n, Worth
<1>11. Worth(Queued(c)) + Worth(Cardinality(Sent(c))) <= Worth(Cardinality(On(c)))
  BY <1>4, <1>9, WorthIs
<1>12. Worth(Queued(c)) \in Nat /\ Worth(Cardinality(Sent(c))) \in Nat /\ Worth(Cardinality(On(c))) \in Nat
  BY <1>4, <1>9, WorthIs
<1> QED BY ONLY <1>2, <1>7, <1>10, <1>11, <1>12

\* Where the balancer alone decides, whoever gets a call was first in turn.
LEMMA BalancerChooses ==
  ASSUME BalancerDecides, IInv, setup.mode = "round_robin", setup.apiKey = "overflow",
         NEW s, NEW incoming \in Bearers, NEW b \in Decision(s, incoming)
  PROVE  \/ b \in FirstInTurn(Candidates(Snapshot)) /\ b \in Candidates(Snapshot) /\ b # Own
         \/ b = Metered
         \/ b = Own /\ incoming = Caller
<1>1. setup \in Setups /\ ~setup.affinity /\ \A a \in Accounts : "ahead" \notin gauge[a]
  BY DEF BalancerDecides, IInv, Bearers
<1>2. Snapshot = Accounts
  BY <1>1 DEF Snapshot, Has
<1>3. Choice(Snapshot, incoming) = FirstInTurn(Candidates(Snapshot))
  BY DEF Choice
<1>4. FirstInTurn(Candidates(Snapshot)) \subseteq Candidates(Snapshot) /\ Own \notin Candidates(Snapshot)
  BY CandidatesTyped DEF FirstInTurn
<1>5. CallerStays(incoming, Snapshot) => incoming = Caller
  BY <1>2 DEF CallerStays, Bearers
<1>6. Fallback(incoming, Snapshot) = {Metered}
  BY DEF Fallback
<1> QED BY <1>1, <1>3, <1>4, <1>5, <1>6 DEF Decision

\* The floor never falls below what a member that stays had over it, and all
\* members are at the floor at least once the others are lifted to it.
LEMMA FloorHolds ==
  ASSUME NEW p \in Ledger, \A a \in p.members : p.floor <= p.work[a], NEW b \in Accounts, NEW C \in SUBSET Accounts
  PROVE  \A a \in C : Floor(p, C) <= Selected(p, b, C).work[a]
<1> DEFINE F == Floor(p, C)
<1>1. F \in Nat /\ \A s \in p.members \cap C : F <= p.work[s]
  BY FloorTyped
<1>2. \A a \in Accounts : p.work[a] \in Nat
  BY DEF Ledger
<1>3. \A a \in Accounts : Selected(p, b, C).work[a] = IF a \in C \ p.members /\ p.work[a] < F THEN F ELSE p.work[a]
  BY DEF Selected
<1> HIDE DEF F
<1> SUFFICES ASSUME NEW a \in C
             PROVE  F <= Selected(p, b, C).work[a]
  BY DEF F
<1>4. a \in Accounts /\ p.work[a] \in Nat
  BY <1>2
<1> QED BY <1>1, <1>3, <1>4

\* A member that is first in turn has no more work than another will have when
\* that one's calls under way come to all they can.
LEMMA ChosenIsBehind ==
  ASSUME PInv, Bound = MaxTokens, NEW C, C \in SUBSET Accounts,
         \A a \in pool.members : pool.floor <= pool.work[a],
         NEW b \in C, b \in FirstInTurn(C), b \in pool.members, NEW c \in C
  PROVE  pool.work[b] <= Selected(pool, b, C).work[c] + Worth(Cardinality(On(c)))
<1> DEFINE W == Selected(pool, b, C).work
           F == Floor(pool, C)
<1>1. pool \in Ledger /\ b \in Accounts /\ c \in Accounts
  BY DEF PInv
<1>2. /\ pool.work[b] \in Nat /\ pool.work[c] \in Nat /\ pool.floor \in Nat
  BY <1>1 DEF Ledger
<1>3. /\ pool.pending[b] \in Nat /\ Queued(b) * Quantum(pool) \in Nat
      /\ pool.pending[c] \in Nat /\ Queued(c) * Quantum(pool) \in Nat
      /\ pool.pending[c] + Queued(c) * Quantum(pool) <= Worth(Cardinality(On(c)))
  BY <1>1, LoadIsWorth
<1>4. WorkOf(pool, b) = pool.work[b]
  BY DEF WorkOf
<1>5. W[c] = IF c \in C \ pool.members /\ pool.work[c] < F THEN F ELSE pool.work[c]
  BY <1>1 DEF Selected
<1>6. F \in Nat /\ pool.floor <= F
  <2>1. /\ F \in Nat
        /\ pool.members \cap C # {} => \E s \in pool.members \cap C : F = pool.work[s]
    BY <1>1, FloorTyped
  <2> HIDE DEF F
  <2> QED BY <2>1
<1> HIDE DEF F, W
<1>7. WorkOf(pool, c) \in Nat /\ W[c] \in Nat /\ WorkOf(pool, c) <= W[c]
  BY <1>2, <1>5, <1>6 DEF WorkOf, Lifted
<1>8. Before(Key(pool, b, Queued(b)), Key(pool, c, Queued(c)))
  BY DEF FirstInTurn
<1> DEFINE kb == WorkOf(pool, b) + pool.pending[b] + Queued(b) * Quantum(pool)
           kc == WorkOf(pool, c) + pool.pending[c] + Queued(c) * Quantum(pool)
<1>9. kb < kc \/ kb = kc
  BY <1>8 DEF Before, Key
<1>10. Worth(Cardinality(On(c))) \in Nat
  BY CallsTyped, WorthIs
<1> DEFINE qb == Queued(b) * Quantum(pool)
           qc == Queued(c) * Quantum(pool)
<1>11. pool.work[b] + pool.pending[b] + qb <= WorkOf(pool, c) + pool.pending[c] + qc
  BY <1>2, <1>3, <1>4, <1>7, <1>9
<1>12. qb \in Nat /\ qc \in Nat /\ pool.pending[c] + qc <= Worth(Cardinality(On(c)))
  BY <1>3
<1> HIDE DEF kb, kc, qb, qc
<1>13. pool.work[b] <= W[c] + Worth(Cardinality(On(c)))
  BY ONLY <1>2, <1>3, <1>7, <1>10, <1>11, <1>12
<1> QED BY <1>13 DEF W

\* The members that stay set a floor that is one of them.
LEMMA FloorIsAMembers ==
  ASSUME NEW p \in Ledger, NEW b \in Accounts, NEW C \in SUBSET Accounts, NEW c \in C, NEW a \in C \cap p.members
  PROVE  \E d \in C \cap p.members : p.work[d] <= Selected(p, b, C).work[c]
<1>1. CASE c \in p.members
  <2>1. Selected(p, b, C).work[c] = p.work[c] /\ p.work[c] \in Nat
    BY <1>1 DEF Selected, Ledger
  <2> QED BY <1>1, <2>1
<1>2. CASE c \notin p.members
  <2>1. PICK d \in p.members \cap C : Floor(p, C) = p.work[d]
    BY FloorTyped
  <2>2. p.work[d] \in Nat /\ p.work[c] \in Nat
    BY DEF Ledger
  <2>3. Selected(p, b, C).work[c] = IF c \in C \ p.members /\ p.work[c] < Floor(p, C) THEN Floor(p, C) ELSE p.work[c]
    BY DEF Selected
  <2> QED BY <1>2, <2>1, <2>2, <2>3
<1> QED BY <1>1, <1>2

LEMMA RouteEven ==
  ASSUME PInv, FInv, BalancerDecides, Bound = MaxTokens,
         NEW r \in Calls, NEW s, NEW incoming \in Bearers, NEW b \in Decision(s, incoming),
         Routed(r, s, incoming, b), Weighed(b)
  PROVE  FInv'
<1> DEFINE C == Candidates(Snapshot)
<1>1. /\ IInv /\ setup' = setup /\ pool \in Ledger /\ joined \in [Accounts -> Nat]
      /\ pc \in [Calls -> {"idle", "slot", "sent"}] /\ at \in [Calls -> Bearers \cup {Metered}]
  BY DEF PInv, IInv, Routed
<1>2. CASE setup.mode # "round_robin"
  BY <1>1, <1>2 DEF FInv, Weighed
<1>3. CASE setup.mode = "round_robin" /\ setup.apiKey # "overflow"
  BY <1>1, <1>3 DEF FInv
<1>4. CASE setup.mode = "round_robin" /\ setup.apiKey = "overflow"
  <2>1. /\ \A a \in pool.members : pool.floor <= pool.work[a]
        /\ \A a, c \in pool.members : Even(a, c)
    BY <1>4 DEF FInv
  <2>3. at'[r] = IF b = Own THEN incoming ELSE b
    BY <1>1 DEF IInv, Routed
  <2>4. CASE b \in FirstInTurn(C) /\ b \in C /\ b # Own
    <3>1. C \in SUBSET Accounts /\ b \in Accounts
      BY <2>4, CandidatesTyped
    <3>2. pool' = Selected(pool, b, C) /\ pool' \in Ledger /\ at'[r] = b
      BY <1>1, <1>4, <2>3, <2>4, <3>1, SelectedIs DEF Weighed
    <3>3. pool'.members = C /\ pool'.floor = Floor(pool, C)
      BY <3>2 DEF Selected
    <3> HIDE DEF C
    <3>4. \A a \in pool'.members : pool'.floor <= pool'.work[a]
      BY <1>1, <2>1, <3>1, <3>2, <3>3, FloorHolds
    <3>5. ASSUME NEW a \in C, NEW c \in C
          PROVE  Even(a, c)'
      <4> DEFINE n == Cardinality(On(a))
                 m == Cardinality(On(a)')
                 N == Cardinality(Calls)
      <4>1. /\ pool.work[a] \in Nat /\ pool'.work[a] \in Nat /\ pool'.work[c] \in Nat /\ joined[a] \in Nat
            /\ a \in Accounts /\ c \in Accounts
        BY <1>1, <3>1, <3>2 DEF Ledger
      <4>2. n \in Nat /\ N \in Nat /\ m \in Nat /\ m <= N
        <5>1. On(a)' \subseteq Calls
          BY DEF On
        <5>2. IsFiniteSet(On(a)') /\ Cardinality(On(a)') <= Cardinality(Calls)
          BY <5>1, FS_Subset
        <5> QED BY <5>2, CallsTyped, FS_CardinalityType
      <4>3. Worth(n) \in Nat /\ Worth(m) \in Nat /\ Worth(N) \in Nat /\ Worth(m) <= Worth(N)
        BY <4>2, WorthIs
      <4>4. CASE a \notin pool.members
        <5>1. joined'[a] = pool'.work[a]
          BY <3>3, <4>1, <4>4 DEF Weighed
        <5> QED BY <4>1, <4>3, <5>1 DEF Even
      <4>5. CASE a \in pool.members /\ a # b
        <5>1. pool'.work[a] = pool.work[a] /\ joined'[a] = joined[a] /\ m = n
          BY <1>1, <3>2, <3>3, <4>1, <4>5, RouteAdds DEF Selected, Weighed
        <5>2. PICK d \in C \cap pool.members : pool.work[d] <= pool'.work[c]
          BY <1>1, <3>1, <3>2, <4>5, FloorIsAMembers
        <5>3. Even(a, d) /\ pool.work[d] \in Nat
          BY <1>1, <2>1, <3>1, <4>5 DEF Ledger
        <5>4. \/ pool.work[a] + Worth(n) <= pool.work[d] + Worth(N)
              \/ pool.work[a] + Worth(n) <= joined[a] + Worth(N)
          BY <5>3 DEF Even
        <5> HIDE DEF n, m, N
        <5>5. \/ pool'.work[a] + Worth(m) <= pool'.work[c] + Worth(N)
              \/ pool'.work[a] + Worth(m) <= joined'[a] + Worth(N)
          BY <4>1, <4>3, <5>1, <5>2, <5>3, <5>4
        <5> QED BY <5>5 DEF Even, m, N
      <4>6. CASE a \in pool.members /\ a = b /\ c = b
        BY <4>1, <4>3, <4>6 DEF Even
      <4>7. CASE a \in pool.members /\ a = b /\ c # b
        <5> DEFINE k == Cardinality(On(c))
        <5>1. pool'.work[a] = pool.work[a] /\ m = n + 1
          BY <1>1, <3>2, <4>1, <4>7, RouteAdds DEF Selected
        <5>2. pool.work[a] <= pool'.work[c] + Worth(k)
          BY <2>1, <2>4, <3>1, <3>2, <4>7, ChosenIsBehind
        <5>3. k \in Nat /\ n + 1 + k <= N
          BY <4>7, CallsTyped, RoomForOne DEF Routed
        <5> HIDE DEF n, m, N, k
        <5>4. Worth(m) + Worth(k) <= Worth(N) /\ Worth(k) \in Nat
          <6>1. m + k \in Nat /\ m + k <= N /\ m \in Nat /\ k \in Nat /\ N \in Nat
            BY <4>2, <5>1, <5>3
          <6>2. Worth(m + k) = Worth(m) + Worth(k) /\ Worth(m + k) <= Worth(N) /\ Worth(k) \in Nat
            BY <6>1, WorthIs
          <6> QED BY <6>2
        <5>5. pool'.work[a] + Worth(m) <= pool'.work[c] + Worth(N)
          BY <4>1, <4>3, <5>1, <5>2, <5>4
        <5> QED BY <5>5 DEF Even, m, N
      <4> QED BY <4>4, <4>5, <4>6, <4>7
    <3>6. \A a, c \in pool'.members : Even(a, c)'
      BY <3>3, <3>5
    <3> QED BY <1>1, <1>4, <3>4, <3>6 DEF FInv
  <2>5. CASE b = Metered \/ (b = Own /\ incoming = Caller)
    <3>1. at'[r] \notin Accounts /\ b \notin Accounts
      BY <2>3, <2>5
    <3>2. pool' = pool /\ b \notin C
      BY <3>1, CandidatesTyped DEF Weighed
    <3>3. joined' = [a \in Accounts |-> joined[a]] /\ \A a \in Accounts : joined'[a] = joined[a]
      BY <3>2 DEF Weighed
    <3>4. \A a \in Accounts : On(a)' = On(a)
      BY <1>1, <3>1, RouteAdds
    <3>5. pool.members \subseteq Accounts
      BY <1>1 DEF Ledger
    <3>6. ASSUME NEW a \in pool.members, NEW c \in pool.members
          PROVE  Even(a, c)'
      <4>1. Even(a, c) /\ a \in Accounts
        BY <2>1, <3>5
      <4> QED BY <3>2, <3>3, <3>4, <4>1 DEF Even
    <3> QED BY <1>1, <1>4, <2>1, <3>2, <3>6 DEF FInv
  <2> QED BY <1>1, <1>4, <2>4, <2>5, BalancerChooses
<1> QED BY <1>2, <1>3, <1>4

\* Steps that do no more work on an account than its calls were counted for.
LEMMA EvenStays ==
  ASSUME PInv, FInv, pool' \in Ledger, setup' = setup, joined' = joined,
         pool'.members = pool.members, pool'.floor = pool.floor,
         \A a \in Accounts :
           /\ pool.work[a] <= pool'.work[a]
           /\ pool'.work[a] + Worth(Cardinality(On(a)')) <= pool.work[a] + Worth(Cardinality(On(a)))
  PROVE  FInv'
<1>1. pool \in Ledger /\ joined \in [Accounts -> Nat] /\ pool.members \subseteq Accounts
  BY DEF PInv, Ledger
<1>2. CASE ~(setup.mode = "round_robin" /\ setup.apiKey = "overflow")
  BY <1>2 DEF FInv
<1>3. CASE setup.mode = "round_robin" /\ setup.apiKey = "overflow"
  <2>1. /\ \A a \in pool.members : pool.floor <= pool.work[a]
        /\ \A a, c \in pool.members : Even(a, c)
    BY <1>3 DEF FInv
  <2>2. \A a \in Accounts : pool.work[a] \in Nat /\ pool'.work[a] \in Nat /\ joined[a] \in Nat
    BY <1>1 DEF Ledger
  <2>3. pool.floor \in Nat
    BY <1>1 DEF Ledger
  <2>4. ASSUME NEW a \in pool.members
        PROVE  pool.floor <= pool'.work[a]
    <3>1. pool.work[a] \in Nat /\ pool'.work[a] \in Nat /\ pool.floor <= pool.work[a] /\ pool.work[a] <= pool'.work[a]
      BY <1>1, <2>1, <2>2
    <3> QED BY ONLY <2>3, <3>1
  <2>5. ASSUME NEW a \in pool.members, NEW c \in pool.members
        PROVE  Even(a, c)'
    <3> DEFINE n == Worth(Cardinality(On(a)))
               m == Worth(Cardinality(On(a)'))
               N == Worth(Cardinality(Calls))
    <3>1. a \in Accounts /\ c \in Accounts
      BY <1>1
    <3>2. n \in Nat /\ N \in Nat /\ m \in Nat
      <4>1. On(a)' \subseteq Calls
        BY DEF On
      <4>2. Cardinality(On(a)') \in Nat
        BY <4>1, FS_Subset, FS_CardinalityType
      <4> QED BY <4>2, CallsTyped, WorthIs
    <3>3. /\ pool.work[a] \in Nat /\ pool'.work[a] \in Nat /\ joined[a] \in Nat
          /\ pool.work[c] \in Nat /\ pool'.work[c] \in Nat
          /\ pool'.work[a] + m <= pool.work[a] + n
          /\ pool.work[c] <= pool'.work[c]
      BY <2>2, <3>1
    <3>4. \/ pool.work[a] + n <= pool.work[c] + N
          \/ pool.work[a] + n <= joined[a] + N
      BY <2>1 DEF Even
    <3> HIDE DEF n, m, N
    <3>5. \/ pool'.work[a] + m <= pool'.work[c] + N
          \/ pool'.work[a] + m <= joined[a] + N
      BY ONLY <3>2, <3>3, <3>4
    <3> QED BY <3>5 DEF Even, m, N
  <2> QED BY <1>3, <2>1, <2>4, <2>5 DEF FInv
<1> QED BY <1>2, <1>3

LEMMA InitEven == Init => FInv
<1> SUFFICES ASSUME Init
             PROVE  FInv
  OBVIOUS
<1>1. pool.members = {}
  BY DEF Init, EmptyPool
<1> QED BY <1>1 DEF FInv

LEMMA StepEven ==
  ASSUME BalancerDecides, Bound = MaxTokens, PInv, FInv, [Next]_vars
  PROVE  FInv'
<1>1. /\ IInv /\ pool \in Ledger /\ PInv'
      /\ pc \in [Calls -> {"idle", "slot", "sent"}] /\ at \in [Calls -> Bearers \cup {Metered}]
  BY StepBalanced DEF PInv, IInv
<1>2. /\ pool' \in Ledger
      /\ \A a \in Accounts : pool.work[a] \in Nat /\ pool'.work[a] \in Nat
  BY <1>1 DEF PInv, Ledger
<1>3. \A a : /\ Cardinality(On(a)) \in Nat /\ Worth(Cardinality(On(a))) \in Nat
            /\ Cardinality(Sent(a)) \in Nat
  BY CallsTyped, WorthIs
<1>4. ASSUME NEW r \in Calls, NEW s \in Sessions, NEW incoming \in Bearers, Route(r, s, incoming)
      PROVE  FInv'
  BY <1>4, RouteWeighs, RouteEven
<1>5. ASSUME NEW r \in Calls, Send(r)
      PROVE  FInv'
  <2>1. /\ pool' = [pool EXCEPT !.pending = pool'.pending]
        /\ UNCHANGED <<setup, joined, at>>
    BY <1>5, SendPends DEF Send
  <2>2. /\ pool'.members = pool.members /\ pool'.floor = pool.floor /\ pool'.work = pool.work
    BY <1>1, <2>1 DEF Ledger
  <2>3. pc[r] = "slot" /\ pc'[r] = "sent" /\ \A q \in Calls \ {r} : pc'[q] = pc[q]
    BY <1>1, <1>5 DEF Send, IInv
  <2>4. ASSUME NEW a
        PROVE  On(a)' = On(a)
    BY <2>1, <2>3 DEF On
  <2> QED BY <1>2, <1>3, <2>1, <2>2, <2>4, EvenStays
<1>6. ASSUME NEW r \in Calls, Finish(r)
      PROVE  FInv'
  <2>1. pc' = [pc EXCEPT ![r] = "idle"] /\ at' = [at EXCEPT ![r] = Caller] /\ setup' = setup /\ joined' = joined
    BY <1>6 DEF Finish
  <2>2. \A a : /\ Cardinality(On(a)') <= Cardinality(On(a)) /\ Cardinality(On(a)') \in Nat
               /\ r \in On(a) => Cardinality(On(a)) = Cardinality(On(a)') + 1
               /\ Cardinality(Sent(a)') <= Cardinality(Sent(a)) /\ Cardinality(Sent(a)') \in Nat
    BY <1>1, <2>1, EndFrees
  <2>3. \A a : /\ Worth(Cardinality(On(a)')) <= Worth(Cardinality(On(a))) /\ Worth(Cardinality(On(a)')) \in Nat
               /\ r \in On(a) => Worth(Cardinality(On(a))) = Worth(Cardinality(On(a)')) + MaxTokens
    BY <1>3, <2>2, WorthIs
  <2>5. CASE pool' = pool
    <3>1. \A a \in Accounts :
            /\ pool.work[a] <= pool'.work[a]
            /\ pool'.work[a] + Worth(Cardinality(On(a)')) <= pool.work[a] + Worth(Cardinality(On(a)))
      BY <1>2, <1>3, <2>3, <2>5
    <3> QED BY <1>2, <2>1, <2>5, <3>1, EvenStays
  <2>6. CASE ticket[r] \in Tickets /\ Settled(pool, pool', ticket[r])
    <3> DEFINE t == ticket[r]
    <3>1. PICK n \in 1..Bound : \A a \in Accounts : pool'.work[a] = pool.work[a] + IF a = t.of THEN n ELSE 0
      BY <2>6 DEF Settled
    <3>2. t # NoTicket /\ r \in On(t.of)
      BY <2>6, TicketsAreNone DEF PInv, On
    <3>3. n \in Nat /\ n <= MaxTokens
      BY <3>1
    <3>4. ASSUME NEW a \in Accounts
          PROVE  /\ pool.work[a] <= pool'.work[a]
                 /\ pool'.work[a] + Worth(Cardinality(On(a)')) <= pool.work[a] + Worth(Cardinality(On(a)))
      <4>1. CASE a = t.of
        <5>1. pool'.work[a] = pool.work[a] + n /\ Worth(Cardinality(On(a))) = Worth(Cardinality(On(a)')) + MaxTokens
          BY <2>3, <3>1, <3>2, <4>1
        <5> QED BY <1>2, <1>3, <2>3, <3>3, <5>1
      <4>2. CASE a # t.of
        BY <1>2, <1>3, <2>3, <3>1, <4>2
      <4> QED BY <4>1, <4>2
    <3>5. pool'.members = pool.members /\ pool'.floor = pool.floor
      BY <2>6 DEF Settled
    <3> QED BY <1>2, <2>1, <3>4, <3>5, EvenStays
  <2> QED BY <1>6, <2>5, <2>6, FinishSettles
<1>7. ASSUME NEW r \in Calls, Leave(r)
      PROVE  FInv'
  <2>1. /\ pc' = [pc EXCEPT ![r] = "idle"] /\ at' = [at EXCEPT ![r] = Caller]
        /\ setup' = setup /\ joined' = joined /\ pool' = pool
    BY <1>7 DEF Leave
  <2>2. \A a : /\ Cardinality(On(a)') <= Cardinality(On(a)) /\ Cardinality(On(a)') \in Nat
               /\ Cardinality(Sent(a)') <= Cardinality(Sent(a)) /\ Cardinality(Sent(a)') \in Nat
    BY <1>1, <2>1, EndFrees
  <2>3. \A a : Worth(Cardinality(On(a)')) <= Worth(Cardinality(On(a))) /\ Worth(Cardinality(On(a)')) \in Nat
    BY <1>3, <2>2, WorthIs
  <2> QED BY <1>2, <1>3, <2>1, <2>3, EvenStays
<1>8. CASE UNCHANGED <<setup, pc, at, ticket, pool, joined>>
  <2>1. \A a : On(a)' = On(a) /\ Sent(a)' = Sent(a)
    BY <1>8 DEF On, Sent
  <2> QED BY <1>2, <1>3, <1>8, <2>1, EvenStays
<1> QED BY <1>4, <1>5, <1>6, <1>7, <1>8 DEF Next, Adapt, Learn, Lapse, vars

\* The balancer's books (account_pool.py) are kept: what is owed is pending, and
\* no account works ahead of another member by more than all calls can come to,
\* unless by what it had when it joined.  The default estimate must be no more
\* than a call can come to, and the balancer alone must decide.
THEOREM BooksAreKeptHolds ==
  ASSUME BalancerDecides, DefaultQuantum <= MaxTokens
  PROVE  Spec => []BooksAreKept
<1>1. Bound = MaxTokens
  BY DEF Bound
<1>2. PInv /\ FInv /\ [Next]_vars => (PInv /\ FInv)'
  BY <1>1, StepBalanced, StepEven
<1>3. Init => PInv /\ FInv
  BY InitBalanced, InitEven
<1>4. PInv /\ FInv => BooksAreKept
  <2> SUFFICES ASSUME PInv, FInv, setup.apiKey = "overflow", NEW a \in pool.members, NEW c \in pool.members
               PROVE  \/ pool.work[a] <= pool.work[c] + Cardinality(Calls) * MaxTokens
                      \/ pool.work[a] <= joined[a] + Cardinality(Calls) * MaxTokens
    BY DEF PInv, BooksAreKept, NobodyRunsAhead
  <2>1. Even(a, c)
    BY DEF FInv
  <2>2. /\ pool.work[a] \in Nat /\ pool.work[c] \in Nat /\ joined[a] \in Nat
        /\ Worth(Cardinality(On(a))) \in Nat /\ Worth(Cardinality(Calls)) \in Nat
    BY CallsTyped, WorthIs DEF PInv, Ledger
  <2>3. \/ pool.work[a] <= pool.work[c] + Worth(Cardinality(Calls))
        \/ pool.work[a] <= joined[a] + Worth(Cardinality(Calls))
    BY <2>1, <2>2 DEF Even
  <2> QED BY <2>3 DEF Worth
<1> QED BY <1>2, <1>3, <1>4, PTL DEF Spec
=============================================================================
