--------------------------- MODULE EquipmentProofs ---------------------------
(***************************************************************************)
(* What holds of stock, selections, shields, money and credit for every    *)
(* catalogue, every number of players and every scoring.                   *)
(***************************************************************************)
EXTENDS Equipment, TLAPS, WellFoundedInduction, NaturalsInduction, FiniteSetTheorems

Shield == {NoShield} \union [info : Accessory, life : Nat]

Stock == [Item -> 0 .. MaxItems]

\* The record of a player, and one that player p may have.
Tank ==
    [money : Int, inventory : Stock, ac_state : SUBSET StateBit, life : Nat,
     dead : BOOLEAN, armed : BOOLEAN, killedby : -1 .. N - 1, fuel : Nat,
     contacttriggers : BOOLEAN, selweapon : Weapon, selshield : Accessory, shield : Shield,
     kills : Nat, suicides : Nat, numwins : Nat]

SoundShield(s) == s = NoShield \/ (Is(s.info, "SHIELD") /\ s.life \in 1 .. Info[s.info].shield)

\* There is no end of the weapons that are free.
Endless(t) == \A w \in Weapon : Infinite(w) => t.inventory[w] = MaxItems

TankOf(p) == {t \in Tank : t.life <= FullLife(p) /\ SoundShield(t.shield) /\ Endless(t)}

Ready(t) == Stocked(t, t.selweapon)

\* What a player does with shields, triggers, batteries and fuel leaves
\* money, credit and weapons alone, and does not hurt.
Outfits(p, t, u) ==
    /\ u \in TankOf(p)
    /\ u.money = t.money /\ u.kills = t.kills /\ u.suicides = t.suicides
    /\ u.selweapon = t.selweapon /\ t.life <= u.life
    /\ \A w \in Weapon : u.inventory[w] = t.inventory[w]

-----------------------------------------------------------------------------
(* The catalogue.                                                          *)

\* The catalogue's items are items, and there is a first of each kind.
LEMMA Catalogue ==
    /\ Len(Weapons) \in Nat \ {0} /\ Len(Accessories) \in Nat \ {0}
    /\ \A k \in 1 .. Len(Weapons) : Weapons[k] \in Weapon
    /\ \A k \in 1 .. Len(Accessories) : Accessories[k] \in Accessory
    /\ DefaultWeapon \in Weapon /\ DefaultAccessory \in Accessory
    /\ Infinite(DefaultWeapon) /\ ~Is(DefaultAccessory, "SHIELD")
    /\ Weapon \subseteq Item /\ Accessory \subseteq Item
    /\ \A item \in Item : /\ Info[item].price \in Nat /\ Info[item].bundle \in Nat
                          /\ Info[item].shield \in Nat /\ Info[item].fuel \in Nat
                          /\ Info[item].state \in SUBSET StateBit
<1>1. /\ Len(Weapons) \in Nat \ {0} /\ Len(Accessories) \in Nat \ {0}
      /\ \A k \in 1 .. Len(Weapons) : Weapons[k] \in Weapon
      /\ \A k \in 1 .. Len(Accessories) : Accessories[k] \in Accessory
  <2>1. Weapons \in Seq(Weapon) /\ Len(Weapons) >= 1
        /\ Accessories \in Seq(Accessory) /\ Len(Accessories) >= 1
    BY CatalogueAssumption
  <2> QED
    BY <2>1
<1>2. Weapon \subseteq Item /\ Accessory \subseteq Item
  BY DEF Item
<1>3. /\ DefaultWeapon \in Weapon /\ DefaultAccessory \in Accessory
      /\ Infinite(DefaultWeapon) /\ ~Is(DefaultAccessory, "SHIELD")
  BY <1>1, DefaultsAssumption DEF DefaultWeapon, DefaultAccessory, Is
<1>4. \A item \in Item : /\ Info[item].price \in Nat /\ Info[item].bundle \in Nat
                          /\ Info[item].shield \in Nat /\ Info[item].fuel \in Nat
                          /\ Info[item].state \in SUBSET StateBit
  BY CatalogueAssumption
<1> QED
  BY <1>1, <1>2, <1>3, <1>4

-----------------------------------------------------------------------------
(* The loops of the program.                                               *)

\* Induction over the numbers of a set.
LEMMA Induction ==
    ASSUME NEW S, 0 \in S, \A n \in Nat : n \in S => n + 1 \in S
    PROVE  Nat \subseteq S
<1> DEFINE R == OpToRel(<, Nat)
<1>1. \A i, j \in Nat : i < j => <<i, j>> \in R
  BY DEF OpToRel
<1>2. IsWellFoundedOn(R, Nat)
  BY NatLessThanWellFounded
<1> HIDE DEF R
<1> SUFFICES ASSUME Nat \ S # {} PROVE FALSE
  OBVIOUS
<1>3. PICK x \in Nat \ S : \A y \in Nat \ S : ~ (<<y, x>> \in R)
  BY <1>2, WFMin
<1>4. x - 1 \in Nat /\ x - 1 < x
  BY <1>3
<1>5. x - 1 \in S
  BY <1>1, <1>3, <1>4
<1> QED
  BY <1>3, <1>4, <1>5

\* Step k of each of the loops, for the lists and the tank in d.
Step(loop, x, k, d) ==
    CASE loop = "Placed" -> Compared(x, k, d[1], d[2])
      [] loop = "ExchangeSort" -> Placed(x, k, d)
      [] loop = "BuyOne" -> Tried(x, d[1][k], d[2])
      [] loop = "OnePass" -> Taken(x, d[1][k], d[2], d[3], d[4])
      [] loop = "BuyAll" -> OnePass(x, d[1], d[2], d[3], k)
      [] loop = "BestShield" -> Better(x, Accessories[Len(Accessories) + 1 - k], d)
      [] loop = "ByScore" -> Rated(x, Weapons[Len(Weapons) + 1 - k], d)
      [] loop = "Refuelled" -> Opened(d, x, Accessories[k])
      [] loop = "Prepared" -> RechargedOnce(d, x)
      [] loop = "DamageAll" -> Damaged(x, N - k, d[1], d[2][N - k], d[3])
      [] loop = "Resale" -> x + ResaleOf(d[1][k], d[2][d[1][k]])
      [] loop = "Credits" -> x + d[k - 1].kills + d[k - 1].suicides

IsRun(loop, w, d, n, f) ==
    f = [k \in 0 .. n |-> IF k = 0 THEN w ELSE Step(loop, f[k - 1], k, d)]

\* The recursive functions they are written with exist.
LEMMA Loops ==
    ASSUME NEW loop, NEW w, NEW d, NEW n \in Nat
    PROVE  \E f : IsRun(loop, w, d, n, f)
<1> DEFINE R(i, f) == f = [k \in 0 .. i |-> IF k = 0 THEN w ELSE Step(loop, f[k - 1], k, d)]
           S == {i \in Nat : \E f : R(i, f)}
<1>1. 0 \in S
  <2> DEFINE f == [k \in 0 .. 0 |-> w]
  <2>1. R(0, f)
    OBVIOUS
  <2> QED
    BY <2>1
<1>2. ASSUME NEW i \in Nat, i \in S PROVE i + 1 \in S
  <2>1. PICK f : R(i, f)
    BY <1>2
  <2> DEFINE g == [k \in 0 .. i + 1 |-> IF k = i + 1 THEN Step(loop, f[i], k, d) ELSE f[k]]
             h == [k \in 0 .. i + 1 |-> IF k = 0 THEN w ELSE Step(loop, g[k - 1], k, d)]
  <2>2. ASSUME NEW k \in 0 .. i + 1 PROVE g[k] = h[k]
    <3>1. CASE k = 0
      BY <2>1, <3>1
    <3>2. CASE k = i + 1
      <4>1. g[k] = Step(loop, f[i], k, d) /\ k # 0
        BY <3>2
      <4>2. k - 1 \in 0 .. i + 1 /\ k - 1 # i + 1 /\ k - 1 = i
        BY <3>2
      <4> QED
        BY <4>1, <4>2
    <3>3. CASE k \in 1 .. i
      <4>1. f[k] = Step(loop, f[k - 1], k, d) /\ g[k] = f[k]
        BY <2>1, <3>3
      <4>2. k - 1 \in 0 .. i + 1 /\ k - 1 # i + 1
        BY <3>3
      <4>3. g[k - 1] = f[k - 1] /\ k # 0
        BY <4>2, <3>3
      <4> QED
        BY <4>1, <4>3
    <3> QED
      BY <3>1, <3>2, <3>3
  <2>3. g = h
    BY <2>2
  <2>4. R(i + 1, g)
    BY <2>3
  <2> HIDE DEF g
  <2> QED
    BY <2>4
<1>3. Nat \subseteq S
  <2> HIDE DEF S
  <2> QED
    BY <1>1, <1>2, Induction
<1> QED
  BY <1>3 DEF IsRun

\* What holds at the start of a loop and is kept by its steps holds after each.
LEMMA LoopKeeps ==
    ASSUME NEW loop, NEW w, NEW d, NEW n \in Nat, NEW f, IsRun(loop, w, d, n, f),
           NEW I, w \in I, \A x \in I, k \in 1 .. n : Step(loop, x, k, d) \in I
    PROVE  \A k \in 0 .. n : f[k] \in I
<1> DEFINE S == {k \in Nat : k \in 0 .. n => f[k] \in I}
<1>1. 0 \in S
  BY DEF IsRun
<1>2. ASSUME NEW k \in Nat, k \in S PROVE k + 1 \in S
  <2> SUFFICES ASSUME k + 1 \in 0 .. n PROVE f[k + 1] \in I
    OBVIOUS
  <2>1. f[k] \in I /\ k + 1 \in 1 .. n /\ k + 1 # 0 /\ (k + 1) - 1 = k
    BY <1>2
  <2>2. f[k + 1] = Step(loop, f[k], k + 1, d)
    BY <2>1 DEF IsRun
  <2> QED
    BY <2>1, <2>2
<1>3. Nat \subseteq S
  <2> HIDE DEF S
  <2> QED
    BY <1>1, <1>2, Induction
<1> QED
  BY <1>3
\* The same for what holds of a result and of the number of steps made.
LEMMA LoopCounts ==
    ASSUME NEW loop, NEW w, NEW d, NEW n \in Nat, NEW f, IsRun(loop, w, d, n, f),
           NEW I, <<0, w>> \in I,
           \A k \in 1 .. n : \A x : <<k - 1, x>> \in I => <<k, Step(loop, x, k, d)>> \in I
    PROVE  \A k \in 0 .. n : <<k, f[k]>> \in I
<1> DEFINE S == {k \in Nat : k \in 0 .. n => <<k, f[k]>> \in I}
<1>1. 0 \in S
  BY DEF IsRun
<1>2. ASSUME NEW k \in Nat, k \in S PROVE k + 1 \in S
  <2> SUFFICES ASSUME k + 1 \in 0 .. n PROVE <<k + 1, f[k + 1]>> \in I
    OBVIOUS
  <2>1. <<k, f[k]>> \in I /\ k + 1 \in 1 .. n /\ k + 1 # 0 /\ (k + 1) - 1 = k
    BY <1>2
  <2>2. f[k + 1] = Step(loop, f[k], k + 1, d)
    BY <2>1 DEF IsRun
  <2> QED
    BY <2>1, <2>2
<1>3. Nat \subseteq S
  <2> HIDE DEF S
  <2> QED
    BY <1>1, <1>2, Induction
<1> QED
  BY <1>3

-----------------------------------------------------------------------------
(* Arithmetic.                                                             *)

\* Quotient and remainder, and that there is only one such pair.
LEMMA DivMod ==
    ASSUME NEW L \in Nat \ {0}, NEW a \in Int
    PROVE  a % L \in 0 .. L - 1 /\ a \div L \in Int /\ a = L * (a \div L) + (a % L)
  OBVIOUS

\* The pair is found by any decomposition with a remainder in range.
LEMMA Unique ==
    ASSUME NEW L \in Nat \ {0}, NEW q \in Int, NEW r \in 0 .. L - 1, NEW a \in Int, a = L * q + r
    PROVE  a % L = r /\ a \div L = q
<1>1. a % L \in 0 .. L - 1 /\ a \div L \in Int /\ a = L * (a \div L) + (a % L)
  BY DivMod
<1> DEFINE x == a \div L
           y == a % L
<1>2. L * (x - q) = r - y
  BY <1>1
<1>3. r - y < L /\ r - y > -L
  BY <1>1
<1>4. x - q < 1
  <2> SUFFICES ASSUME x - q >= 1 PROVE FALSE
    BY <1>1
  <2>1. L * (x - q) >= L * 1
    BY <1>1
  <2> QED
    BY <2>1, <1>2, <1>3
<1>5. x - q > -1
  <2> SUFFICES ASSUME q - x >= 1 PROVE FALSE
    BY <1>1
  <2>1. L * (q - x) >= L * 1
    BY <1>1
  <2>2. L * (q - x) = - (L * (x - q))
    BY <1>1
  <2> QED
    BY <2>1, <2>2, <1>2, <1>3
<1>6. x = q
  BY <1>4, <1>5, <1>1
<1> QED
  BY <1>6, <1>1

-----------------------------------------------------------------------------
(* Searches.                                                               *)

\* A set of numbers has a least one.
LEMMA Leasts ==
    ASSUME NEW S \in SUBSET Nat, S # {}
    PROVE  Least(S) \in S /\ \A j \in S : Least(S) <= j
<1> DEFINE R == OpToRel(<, Nat)
<1>1. \A i, j \in Nat : i < j => <<i, j>> \in R
  BY DEF OpToRel
<1>2. IsWellFoundedOn(R, Nat)
  BY NatLessThanWellFounded
<1> HIDE DEF R
<1>3. PICK x \in S : \A y \in S : ~ (<<y, x>> \in R)
  BY <1>2, WFMin
<1>4. \A j \in S : x <= j
  <2> SUFFICES ASSUME NEW j \in S PROVE x <= j
    OBVIOUS
  <2>1. x \in Nat /\ j \in Nat /\ ~ (j < x)
    BY <1>1, <1>3
  <2> QED
    BY <2>1
<1> QED
  BY <1>3, <1>4 DEF Least

\* A set of numbers up to n has a greatest one.
LEMMA Greatests ==
    ASSUME NEW n \in Nat, NEW S \in SUBSET (0 .. n), S # {}
    PROVE  Greatest(S) \in S /\ \A j \in S : Greatest(S) >= j
<1> DEFINE T == {n - k : k \in S}
<1>1. T \in SUBSET Nat /\ T # {}
  <2>1. \A k \in S : k \in Int /\ n - k >= 0
    OBVIOUS
  <2>2. \A k \in S : n - k \in Nat
    BY <2>1
  <2> QED
    BY <2>2
<1>2. Least(T) \in T /\ \A j \in T : Least(T) <= j
  <2> HIDE DEF T
  <2> QED
    BY <1>1, Leasts
<1>3. PICK x \in S : Least(T) = n - x
  BY <1>2
<1>4. \A j \in S : x >= j
  <2> SUFFICES ASSUME NEW j \in S PROVE x >= j
    OBVIOUS
  <2>1. n - j \in T
    OBVIOUS
  <2>2. n - x <= n - j
    BY <2>1, <1>2, <1>3
  <2>3. x \in Nat /\ j \in Nat
    OBVIOUS
  <2> QED
    BY <2>2, <2>3
<1> QED
  BY <1>4 DEF Greatest

\* The first and the last accessory of a kind are of that kind.
LEMMA Firsts ==
    ASSUME NEW S \in SUBSET Accessory, S # {}
    PROVE  FirstOf(Accessories, S) \in S /\ LastOf(Accessories, S) \in S
<1> DEFINE K == {k \in 1 .. Len(Accessories) : Accessories[k] \in S}
<1>1. Len(Accessories) \in Nat
  BY Catalogue
<1>2. K # {}
  BY DEF Accessory, ElementsOf
<1>3. K \in SUBSET Nat /\ K \in SUBSET (0 .. Len(Accessories))
  BY <1>1
<1>4. Least(K) \in K /\ Greatest(K) \in K
  <2> HIDE DEF K
  <2> QED
    BY <1>1, <1>2, <1>3, Leasts, Greatests
<1> QED
  BY <1>4 DEF FirstOf, LastOf

\* A walk around the catalogue stays in it, and starts where one is.
LEMMA Walks ==
    ASSUME NEW seq, Len(seq) \in Nat \ {0}, NEW item \in ElementsOf(seq), NEW k \in Int
    PROVE  Further(seq, item, k) \in ElementsOf(seq) /\ Further(seq, item, 0) = item
<1> DEFINE i == IndexOf(seq, item)
<1>1. i \in 1 .. Len(seq) /\ seq[i] = item
  BY DEF IndexOf, ElementsOf
<1> HIDE DEF i
<1>2. (i - 1 + k) % Len(seq) \in 0 .. Len(seq) - 1
  <2>1. i - 1 + k \in Int
    BY <1>1
  <2> QED
    BY <2>1, DivMod
<1>3. seq[((i - 1 + k) % Len(seq)) + 1] \in ElementsOf(seq)
  <2> DEFINE j == (i - 1 + k) % Len(seq)
  <2>1. j \in 0 .. Len(seq) - 1
    BY <1>2
  <2> HIDE DEF j
  <2>2. j + 1 \in 1 .. Len(seq)
    BY <2>1
  <2> QED
    BY <2>2 DEF ElementsOf, j
<1>4. (i - 1 + 0) % Len(seq) = i - 1
  <2>1. i - 1 \in 0 .. Len(seq) - 1 /\ i - 1 + 0 = Len(seq) * 0 + (i - 1) /\ i - 1 + 0 \in Int
    BY <1>1
  <2> QED
    BY <2>1, Unique
<1> QED
  BY <1>1, <1>3, <1>4 DEF Further, i
-----------------------------------------------------------------------------
(* The equipment of one tank.                                              *)

\* The constants of a tank are numbers.
LEMMA Numbers ==
    /\ MaxItems \in Nat \ {0} /\ MaxLife \in Nat /\ BatteryPercent \in Nat
    /\ AbsorbHit \in Nat /\ SapperRate \in Nat /\ RechargeRate \in Nat
    /\ NormalHardness \in Nat /\ NormalEfficiency \in Nat /\ InitialCash \in Int
    /\ N \in Nat \ {0, 1}
    /\ \A p \in Player : Efficiency[p] \in Nat /\ FullLife(p) \in Nat
<1>1. MaxLife \in Nat /\ \A p \in Player : Hardness[p] \in Nat /\ Efficiency[p] \in Nat
  BY EquipmentAssumption
<1>2. \A p \in Player : FullLife(p) \in Nat
  BY <1>1 DEF FullLife
<1>3. MaxItems \in Nat \ {0}
  BY CatalogueAssumption
<1>4. /\ BatteryPercent \in Nat
      /\ AbsorbHit \in Nat /\ SapperRate \in Nat /\ RechargeRate \in Nat
      /\ NormalHardness \in Nat /\ NormalEfficiency \in Nat /\ InitialCash \in Int
      /\ N \in Nat \ {0, 1}
  BY EquipmentAssumption
<1> QED
  BY <1>1, <1>2, <1>3, <1>4

\* Nothing changes what a player has by nothing; two changes make one.
LEMMA OutfitsTwice ==
    ASSUME NEW p \in Player, NEW t \in TankOf(p)
    PROVE  /\ Outfits(p, t, t)
           /\ \A u, v : Outfits(p, t, u) /\ Outfits(p, u, v) => Outfits(p, t, v)
<1>1. t.life \in Nat
  BY DEF TankOf, Tank
<1>2. Outfits(p, t, t)
  BY <1>1 DEF Outfits
<1>3. ASSUME NEW u, NEW v, Outfits(p, t, u), Outfits(p, u, v) PROVE Outfits(p, t, v)
  <2>1. u.life \in Nat /\ v.life \in Nat
    BY <1>3 DEF Outfits, TankOf, Tank
  <2> QED
    BY <1>1, <1>3, <2>1 DEF Outfits
<1> QED
  BY <1>2, <1>3

\* Only the selection of the shield is another one.
Turned(t, u) == u.shield = t.shield /\ u.inventory = t.inventory /\ u.ac_state = t.ac_state

\* Selecting a shield changes the selection only.
LEMMA SettingShield ==
    ASSUME NEW p \in Player, NEW t \in TankOf(p), NEW item \in Accessory \cup {None}
    PROVE  /\ Outfits(p, t, SetShield(t, item)) /\ Turned(t, SetShield(t, item))
           /\ item # None /\ Stocked(t, item) /\ Is(item, "SHIELD")
                  => SetShield(t, item).selshield = item
<1>1. CASE item # None /\ Stocked(t, item) /\ Is(item, "SHIELD")
  <2> DEFINE u == [t EXCEPT !.selshield = item]
  <2>1. item \in Accessory /\ t.life \in Nat
    BY <1>1 DEF TankOf, Tank
  <2>2. u \in TankOf(p)
    BY <2>1, SMT DEF TankOf, Tank, Endless
  <2>3. /\ u.money = t.money /\ u.kills = t.kills /\ u.suicides = t.suicides
        /\ u.selweapon = t.selweapon /\ u.life = t.life /\ u.inventory = t.inventory
        /\ u.shield = t.shield /\ u.ac_state = t.ac_state /\ u.selshield = item
    BY DEF TankOf, Tank
  <2>4. SetShield(t, item) = u
    BY <1>1 DEF SetShield
  <2> HIDE DEF u
  <2> QED
    BY <2>1, <2>2, <2>3, <2>4 DEF Outfits, Turned
<1>2. CASE ~(item # None /\ Stocked(t, item) /\ Is(item, "SHIELD"))
  <2>1. SetShield(t, item) = t
    BY <1>2 DEF SetShield
  <2> QED
    BY <1>2, <2>1, OutfitsTwice DEF Turned
<1> QED
  BY <1>1, <1>2

\* Looking for the next shield changes the selection only.
LEMMA Advancing ==
    ASSUME NEW p \in Player, NEW t \in TankOf(p), NEW first \in Accessory
    PROVE  Outfits(p, t, AdvanceFrom(t, first)) /\ Turned(t, AdvanceFrom(t, first))
<1> DEFINE places == {k \in 0 .. Len(Accessories) - 1 :
                         LET a == Further(Accessories, first, k)
                         IN  Is(a, "SHIELD") /\ Stocked(t, a)}
<1>1. AdvanceFrom(t, first)
          = IF places = {} THEN SetShield(t, DefaultAccessory)
            ELSE SetShield(t, Further(Accessories, first, Least(places)))
  BY DEF AdvanceFrom
<1>2. places # {} => Least(places) \in places
  <2>1. places \in SUBSET Nat
    BY Catalogue
  <2> HIDE DEF places
  <2> QED
    BY <2>1, Leasts
<1>3. \A k \in Int : Further(Accessories, first, k) \in Accessory
  BY Catalogue, Walks DEF Accessory
<1>4. places # {} => Further(Accessories, first, Least(places)) \in Accessory
  BY <1>2, <1>3
<1>5. DefaultAccessory \in Accessory
  BY Catalogue
<1> HIDE DEF places
<1> QED
  BY <1>1, <1>4, <1>5, SettingShield

\* A shield that can be raised is raised.
LEMMA Raising ==
    ASSUME NEW p \in Player, NEW t \in TankOf(p)
    PROVE  /\ Outfits(p, t, ActivateShield(t))
           /\ CanActivate(t) => ActivateShield(t).shield # NoShield
           /\ ~CanActivate(t) => ActivateShield(t) = t
<1>1. CASE ~CanActivate(t)
  BY <1>1, OutfitsTwice DEF ActivateShield
<1>2. CASE CanActivate(t)
  <2> DEFINE a == t.selshield
             s == [info |-> a, life |-> Info[a].shield]
             stock == [t.inventory EXCEPT ![a] = @ - 1]
             u == [t EXCEPT !.shield = s, !.inventory = stock]
  <2>1. a \in Accessory /\ a \in Item /\ Is(a, "SHIELD") /\ t.inventory[a] > 0
        /\ t.inventory \in Stock
    BY <1>2, Catalogue DEF CanActivate, Stocked, TankOf, Tank
  <2>2. stock \in Stock /\ \A w \in Weapon : stock[w] = t.inventory[w]
    <3>1. t.inventory[a] - 1 \in 0 .. MaxItems
      BY <2>1, Numbers DEF Stock
    <3>2. stock \in Stock
      BY <2>1, <3>1 DEF Stock
    <3>3. \A w \in Weapon : w # a /\ w \in Item
      <4>1. Weapon \cap Accessory = {}
        BY CatalogueAssumption
      <4> QED
        BY <2>1, <4>1 DEF Item
    <3>4. \A w \in Weapon : stock[w] = t.inventory[w]
      BY <2>1, <3>3 DEF Stock
    <3> QED
      BY <3>2, <3>4
  <2>3. s \in Shield /\ SoundShield(s) /\ s # NoShield
    <3>1. Info[a].shield \in Nat /\ Info[a].shield > 0
      BY <2>1, Catalogue, ShieldsAssumption
    <3>2. a # None
      BY <2>1, EquipmentAssumption
    <3>3. s.info = a /\ s.life = Info[a].shield /\ NoShield.info = None
      BY DEF NoShield
    <3> QED
      BY <2>1, <3>1, <3>2, <3>3 DEF Shield, SoundShield
  <2> HIDE DEF s, stock
  <2>4. u \in TankOf(p)
    <3>1. u \in Tank
      <4>1. t \in Tank
        BY DEF TankOf
      <4> DEFINE v == [t EXCEPT !.shield = s]
      <4>2. v \in Tank
        BY <2>3, <4>1, SMT DEF Tank
      <4>3. u = [v EXCEPT !.inventory = stock]
        BY <4>1, SMT DEF Tank
      <4> HIDE DEF u, v
      <4> QED
        BY <2>2, <4>2, <4>3, SMT DEF Tank
    <3>2. u.life = t.life /\ u.shield = s /\ u.inventory = stock
      BY SMT DEF TankOf, Tank
    <3>3. t.life <= FullLife(p) /\ Endless(t)
      BY DEF TankOf
    <3>4. Endless(u)
      BY <2>2, <3>2, <3>3 DEF Endless
    <3> QED
      BY <2>3, <3>1, <3>2, <3>3, <3>4 DEF TankOf
  <2>5. /\ u.money = t.money /\ u.kills = t.kills /\ u.suicides = t.suicides
        /\ u.selweapon = t.selweapon /\ u.life = t.life /\ u.inventory = stock
        /\ u.shield = s /\ u.selshield = a
    BY DEF TankOf, Tank
  <2>6. t.life \in Nat
    BY DEF TankOf, Tank
  <2>7. ActivateShield(t) = AdvanceFrom(u, u.selshield)
    BY <1>2 DEF ActivateShield, s, stock
  <2> HIDE DEF u, a
  <2>8. Outfits(p, t, u)
    BY <2>2, <2>4, <2>5, <2>6 DEF Outfits
  <2>9. Outfits(p, u, ActivateShield(t)) /\ ActivateShield(t).shield = s
    BY <2>1, <2>4, <2>5, <2>7, Advancing DEF Turned
  <2> QED
    BY <1>2, <2>3, <2>8, <2>9, OutfitsTwice
<1> QED
  BY <1>1, <1>2
\* Every loop over a catalogue is one of the loops above.
LEMMA BestShieldLoop ==
    ASSUME NEW t
    PROVE  \E f : IsRun("BestShield", None, t, Len(Accessories), f)
                  /\ BestShield(t) = f[Len(Accessories)]
<1> DEFINE n == Len(Accessories)
           R(f) == f = [k \in 0 .. n |-> IF k = 0 THEN None
                                        ELSE Better(f[k - 1], Accessories[n + 1 - k], t)]
           f == CHOOSE f : R(f)
<1>1. PICK g : IsRun("BestShield", None, t, n, g)
  BY Catalogue, Loops
<1>2. \A h : R(h) <=> IsRun("BestShield", None, t, n, h)
  BY DEF IsRun, Step
<1>3. R(f)
  BY <1>1, <1>2
<1>4. BestShield(t) = f[n]
  BY DEF BestShield
<1> QED
  BY <1>2, <1>3, <1>4
InStock(t) == {a \in ShieldItems : Stocked(t, a)}

\* The best shield is one that is in stock, if there is any.
LEMMA Best ==
    ASSUME NEW t
    PROVE  /\ BestShield(t) \in InStock(t) \cup {None}
           /\ InStock(t) # {} => BestShield(t) # None
<1> DEFINE n == Len(Accessories)
           V == InStock(t) \cup {None}
           I == {q \in (0 .. n) \X V :
                    (\E j \in n + 1 - q[1] .. n : Accessories[j] \in InStock(t)) => q[2] # None}
<1>1. n \in Nat /\ None \notin InStock(t)
  BY Catalogue, EquipmentAssumption DEF InStock, ShieldItems
<1>2. PICK f : IsRun("BestShield", None, t, n, f) /\ BestShield(t) = f[n]
  BY BestShieldLoop
<1>3. <<0, None>> \in I
  BY <1>1
<1>4. ASSUME NEW k \in 1 .. n, NEW x, <<k - 1, x>> \in I
      PROVE  <<k, Step("BestShield", x, k, t)>> \in I
  <2> DEFINE a == Accessories[n + 1 - k]
  <2>1. x \in V /\ k - 1 \in 0 .. n /\ k \in 0 .. n /\ n + 1 - k \in 1 .. n
    BY <1>1, <1>4
  <2>2. (\E j \in n + 2 - k .. n : Accessories[j] \in InStock(t)) => x # None
    <3>1. n + 1 - (k - 1) = n + 2 - k
      BY <1>1
    <3> QED
      BY <1>4, <3>1
  <2>3. Step("BestShield", x, k, t) = Better(x, a, t)
    BY DEF Step
  <2>4. a \in Accessory /\ (a \in InStock(t) <=> Is(a, "SHIELD") /\ Stocked(t, a))
    BY <2>1, Catalogue DEF InStock, ShieldItems
  <2>5. Better(x, a, t) \in V
    BY <2>1, <2>4 DEF Better
  <2>6. a \in InStock(t) \/ x # None => Better(x, a, t) # None
    BY <1>1, <2>4 DEF Better
  <2>7. ASSUME NEW j \in n + 1 - k .. n, Accessories[j] \in InStock(t)
        PROVE  Better(x, a, t) # None
    <3>1. CASE j = n + 1 - k
      BY <2>6, <2>7, <3>1
    <3>2. CASE j # n + 1 - k
      <4>1. j \in n + 2 - k .. n
        BY <1>1, <3>2
      <4> QED
        BY <4>1, <2>2, <2>6, <2>7
    <3> QED
      BY <3>1, <3>2
  <2> QED
    BY <2>1, <2>3, <2>5, <2>7
<1>5. \A k \in 0 .. n : <<k, f[k]>> \in I
  <2> HIDE DEF I
  <2> QED
    BY <1>1, <1>2, <1>3, <1>4, LoopCounts
<1>6. <<n, BestShield(t)>> \in I
  BY <1>1, <1>2, <1>5
<1>7. InStock(t) # {} => \E j \in n + 1 - n .. n : Accessories[j] \in InStock(t)
  <2> SUFFICES ASSUME NEW a \in InStock(t)
               PROVE  \E j \in n + 1 - n .. n : Accessories[j] \in InStock(t)
    OBVIOUS
  <2>1. PICK j \in 1 .. n : Accessories[j] = a
    BY DEF InStock, ShieldItems, Accessory, ElementsOf
  <2>2. j \in n + 1 - n .. n
    BY <1>1
  <2> QED
    BY <2>1, <2>2
<1> QED
  BY <1>6, <1>7

\* The best shield can be raised.
LEMMA RaisingBest ==
    ASSUME NEW p \in Player, NEW t \in TankOf(p)
    PROVE  /\ Outfits(p, t, ActivateBestShield(t))
           /\ InStock(t) # {} => ActivateBestShield(t).shield # NoShield
<1> DEFINE a == BestShield(t)
           u == SetShield(t, a)
<1>1. CASE a = None
  BY <1>1, Best, OutfitsTwice DEF ActivateBestShield
<1>2. CASE a # None
  <2>1. a \in Accessory /\ Is(a, "SHIELD") /\ Stocked(t, a)
    BY <1>2, Best DEF InStock, ShieldItems
  <2>2. Outfits(p, t, u) /\ Turned(t, u) /\ u.selshield = a
    BY <1>2, <2>1, SettingShield
  <2>3. CanActivate(u)
    BY <2>1, <2>2 DEF CanActivate, Stocked, Turned
  <2>4. u \in TankOf(p)
    BY <2>2 DEF Outfits
  <2>5. Outfits(p, u, ActivateShield(u)) /\ ActivateShield(u).shield # NoShield
    BY <2>3, <2>4, Raising
  <2>6. ActivateBestShield(t) = ActivateShield(u)
    BY <1>2 DEF ActivateBestShield
  <2> HIDE DEF u
  <2> QED
    BY <2>2, <2>5, <2>6, OutfitsTwice
<1> QED
  BY <1>1, <1>2

\* Auto defense raises a shield if there is any.
LEMMA RaisingAuto ==
    ASSUME NEW p \in Player, NEW t \in TankOf(p)
    PROVE  /\ Outfits(p, t, ActivateAutoShield(t))
           /\ "AUTO_DEF" \in t.ac_state /\ InStock(t) # {}
                  => ActivateAutoShield(t).shield # NoShield
  BY Raising, RaisingBest, OutfitsTwice DEF ActivateAutoShield
\* Pressing the key for the next shield.
LEMMA Selecting ==
    ASSUME NEW p \in Player, NEW t \in TankOf(p)
    PROVE  Outfits(p, t, AdvanceShield(t))
<1>1. t.selshield \in Accessory
  BY DEF TankOf, Tank
<1>2. Further(Accessories, t.selshield, 1) \in Accessory
  BY <1>1, Catalogue, Walks DEF Accessory
<1>3. BestShield(t) # None => BestShield(t) \in Accessory
  BY Best DEF InStock, ShieldItems
<1> QED
  BY <1>2, <1>3, Advancing, OutfitsTwice DEF AdvanceShield

\* Contact triggers are a switch.
LEMMA Triggering ==
    ASSUME NEW p \in Player, NEW t \in TankOf(p), NEW flag
    PROVE  Outfits(p, t, SetContactTriggers(t, flag))
<1> DEFINE u == SetContactTriggers(t, flag)
           b == flag /\ "TRIGGER" \in t.ac_state
<1>1. b \in BOOLEAN
  OBVIOUS
<1>2. u = [t EXCEPT !.contacttriggers = b]
  BY DEF SetContactTriggers
<1> HIDE DEF b
<1>3. u \in TankOf(p)
  BY <1>1, <1>2, SMT DEF TankOf, Tank, Endless
<1>4. /\ u.money = t.money /\ u.kills = t.kills /\ u.suicides = t.suicides
      /\ u.selweapon = t.selweapon /\ u.life = t.life /\ u.inventory = t.inventory
  BY <1>2 DEF TankOf, Tank
<1>5. t.life \in Nat
  BY DEF TankOf, Tank
<1> QED
  BY <1>3, <1>4, <1>5 DEF Outfits

Spent(t, a, n) == [t EXCEPT !.inventory = [t.inventory EXCEPT ![a] = @ - n]]

\* Using up some of an accessory.
LEMMA Spending ==
    ASSUME NEW p \in Player, NEW t \in TankOf(p), NEW a \in Accessory, NEW n \in 0 .. t.inventory[a]
    PROVE  /\ Outfits(p, t, Spent(t, a, n))
           /\ Spent(t, a, n).life = t.life /\ Spent(t, a, n).fuel = t.fuel
           /\ Spent(t, a, n).ac_state = t.ac_state
<1> DEFINE stock == [t.inventory EXCEPT ![a] = @ - n]
           u == Spent(t, a, n)
<1>1. t \in Tank /\ t.inventory \in Stock /\ a \in Item /\ t.life \in Nat
  BY Catalogue DEF TankOf, Tank
<1>2. t.inventory[a] - n \in 0 .. MaxItems
  BY <1>1, Numbers DEF Stock
<1>3. stock \in Stock
  BY <1>1, <1>2 DEF Stock
<1>4. \A w \in Weapon : w # a /\ w \in Item
  BY CatalogueAssumption, Catalogue
<1>5. \A w \in Weapon : stock[w] = t.inventory[w]
  BY <1>1, <1>4 DEF Stock
<1>6. u = [t EXCEPT !.inventory = stock]
  BY DEF Spent
<1> HIDE DEF stock, u
<1>7. u \in Tank
  BY <1>1, <1>3, <1>6, SMT DEF Tank
<1>8. /\ u.money = t.money /\ u.kills = t.kills /\ u.suicides = t.suicides
      /\ u.selweapon = t.selweapon /\ u.life = t.life /\ u.inventory = stock
      /\ u.shield = t.shield /\ u.fuel = t.fuel /\ u.ac_state = t.ac_state
  BY <1>1, <1>6 DEF Tank
<1>9. Endless(u)
  <2>1. Endless(t)
    BY DEF TankOf
  <2> QED
    BY <2>1, <1>5, <1>8 DEF Endless
<1>10. u \in TankOf(p)
  BY <1>7, <1>8, <1>9 DEF TankOf
<1> QED
  BY <1>1, <1>5, <1>8, <1>10 DEF Outfits, u

\* A share of a number is a number.
LEMMA Share ==
    ASSUME NEW a \in Nat, NEW L \in Nat \ {0}
    PROVE  a \div L \in Nat
<1>1. a % L \in 0 .. L - 1 /\ a \div L \in Int /\ a = L * (a \div L) + (a % L)
  BY DivMod
<1> DEFINE x == a \div L
<1>2. x >= 0
  <2> SUFFICES ASSUME x <= -1 PROVE FALSE
    BY <1>1
  <2>1. L * x <= L * (-1)
    BY <1>1
  <2> QED
    BY <1>1, <2>1
<1> QED
  BY <1>1, <1>2

\* A battery gives life, at most what the tank can have.
LEMMA Recharging ==
    ASSUME NEW p \in Player, NEW t \in TankOf(p), CanRecharge(p, t)
    PROVE  Outfits(p, t, Recharged(p, t))
<1> DEFINE a == FirstOf(Accessories, BatteriesIn(t))
           u == Spent(t, a, 1)
           gain == (BatteryPercent * FullLife(p)) \div 100
           life == IF t.life + gain > FullLife(p) THEN FullLife(p) ELSE t.life + gain
           v == [u EXCEPT !.life = life]
<1>1. a \in Accessory /\ t.inventory[a] > 0
  <2>1. BatteriesIn(t) \in SUBSET Accessory /\ BatteriesIn(t) # {}
    BY DEF CanRecharge, BatteriesIn, Having
  <2>2. a \in BatteriesIn(t)
    BY <2>1, Firsts
  <2> QED
    BY <2>1, <2>2 DEF BatteriesIn, Stocked
<1>2. t \in Tank /\ t.life \in Nat /\ t.life <= FullLife(p) /\ t.inventory[a] \in Nat
  <2>1. t \in Tank /\ t.life <= FullLife(p)
    BY DEF TankOf
  <2>2. t.life \in Nat /\ t.inventory \in Stock
    BY <2>1 DEF Tank
  <2>3. t.inventory[a] \in 0 .. MaxItems
    BY <1>1, <2>2, Catalogue DEF Stock
  <2> QED
    BY <2>1, <2>2, <2>3
<1>3. gain \in Nat
  <2>1. BatteryPercent * FullLife(p) \in Nat
    BY Numbers
  <2> QED
    BY <2>1, Share
<1>4. life \in Nat /\ life <= FullLife(p) /\ t.life <= life
  <2>1. FullLife(p) \in Nat
    BY Numbers
  <2> HIDE DEF gain
  <2> QED
    BY <2>1, <1>2, <1>3
<1>5. Recharged(p, t) = v
  <2>1. Recharged(p, t) = [t EXCEPT !.inventory[a] = @ - 1, !.life = life]
    BY DEF Recharged
  <2> HIDE DEF a, life
  <2> QED
    BY <1>2, <2>1 DEF Spent, Tank
<1> HIDE DEF a, u, life
<1>6. 1 \in 0 .. t.inventory[a]
  BY <1>1, <1>2
<1>7. Outfits(p, t, u) /\ u.life = t.life
  BY <1>1, <1>6, Spending DEF u
<1>8. u \in TankOf(p)
  BY <1>7 DEF Outfits
<1>9. v \in Tank
  BY <1>4, <1>8, SMT DEF TankOf, Tank
<1>10. /\ v.money = u.money /\ v.kills = u.kills /\ v.suicides = u.suicides
       /\ v.selweapon = u.selweapon /\ v.life = life /\ v.inventory = u.inventory
       /\ v.shield = u.shield
  BY <1>8 DEF TankOf, Tank
<1>11. v \in TankOf(p)
  BY <1>4, <1>8, <1>9, <1>10 DEF TankOf, Endless
<1>12. Outfits(p, u, v)
  BY <1>4, <1>7, <1>10, <1>11 DEF Outfits
<1> QED
  BY <1>5, <1>7, <1>12, OutfitsTwice
\* The loops of recharging and of opening cans.
LEMMA PreparedLoop ==
    ASSUME NEW p, NEW t
    PROVE  LET shielded == IF t.shield = NoShield THEN ActivateBestShield(t) ELSE t
           IN  \E f : IsRun("Prepared", SetContactTriggers(shielded, TRUE), p, MaxItems, f)
                      /\ Prepared(p, t) = f[MaxItems]
<1> DEFINE shielded == IF t.shield = NoShield THEN ActivateBestShield(t) ELSE t
           w == SetContactTriggers(shielded, TRUE)
           R(f) == f = [k \in 0 .. MaxItems |-> IF k = 0 THEN w ELSE RechargedOnce(p, f[k - 1])]
           f == CHOOSE f : R(f)
<1>0. MaxItems \in Nat
  BY Numbers
<1>1. PICK g : IsRun("Prepared", w, p, MaxItems, g)
  BY <1>0, Loops
<1>2. \A h : R(h) <=> IsRun("Prepared", w, p, MaxItems, h)
  BY DEF IsRun, Step
<1>3. R(f)
  BY <1>1, <1>2
<1>4. Prepared(p, t) = f[MaxItems]
  BY DEF Prepared
<1> QED
  BY <1>2, <1>3, <1>4

\* The loop over the cans.
LEMMA RefuelledLoop ==
    ASSUME NEW p, NEW t
    PROVE  \E f : IsRun("Refuelled", t, p, Len(Accessories), f)
                  /\ Refuelled(p, t) = f[Len(Accessories)]
<1> DEFINE n == Len(Accessories)
           R(f) == f = [k \in 0 .. n |-> IF k = 0 THEN t ELSE Opened(p, f[k - 1], Accessories[k])]
           f == CHOOSE f : R(f)
<1>1. PICK g : IsRun("Refuelled", t, p, n, g)
  BY Catalogue, Loops
<1>2. \A h : R(h) <=> IsRun("Refuelled", t, p, n, h)
  BY DEF IsRun, Step
<1>3. R(f)
  BY <1>1, <1>2
<1>4. Refuelled(p, t) = f[n]
  BY DEF Refuelled
<1> QED
  BY <1>2, <1>3, <1>4

\* A computer player's preparations.
LEMMA Preparing ==
    ASSUME NEW p \in Player, NEW t \in TankOf(p)
    PROVE  Outfits(p, t, Prepared(p, t))
<1> DEFINE shielded == IF t.shield = NoShield THEN ActivateBestShield(t) ELSE t
           w == SetContactTriggers(shielded, TRUE)
           I == {u \in TankOf(p) : Outfits(p, t, u)}
<1>1. PICK f : IsRun("Prepared", w, p, MaxItems, f) /\ Prepared(p, t) = f[MaxItems]
  BY PreparedLoop
<1>2. Outfits(p, t, shielded) /\ shielded \in TankOf(p)
  BY RaisingBest, OutfitsTwice DEF Outfits
<1>3. w \in I
  <2> HIDE DEF shielded
  <2>1. Outfits(p, shielded, w)
    BY <1>2, Triggering
  <2> HIDE DEF w
  <2> QED
    BY <2>1, <1>2, OutfitsTwice DEF Outfits
<1>4. ASSUME NEW x \in I, NEW k \in 1 .. MaxItems PROVE Step("Prepared", x, k, p) \in I
  <2>1. Step("Prepared", x, k, p) = RechargedOnce(p, x)
    BY DEF Step
  <2>2. Outfits(p, x, RechargedOnce(p, x))
    BY Recharging, OutfitsTwice DEF RechargedOnce
  <2> QED
    BY <2>1, <2>2, OutfitsTwice DEF Outfits
<1>5. \A k \in 0 .. MaxItems : f[k] \in I
  <2> HIDE DEF I, w
  <2> QED
    BY <1>1, <1>3, <1>4, Numbers, LoopKeeps
<1> QED
  BY <1>1, <1>5, Numbers

\* A product of numbers is one.
LEMMA Product == ASSUME NEW a \in Nat, NEW b \in Nat PROVE a * b \in Nat
  OBVIOUS

\* Opening cans turns fuel in stock into fuel in the tank.
LEMMA Opening ==
    ASSUME NEW p \in Player, NEW t \in TankOf(p), NEW can \in Accessory
    PROVE  Outfits(p, t, Opened(p, t, can))
<1> DEFINE wanted == {n \in 0 .. t.inventory[can] :
                         t.fuel + n * Info[can].fuel * Efficiency[p] >= NormalEfficiency}
           n == IF wanted = {} THEN t.inventory[can] ELSE Least(wanted)
           u == Spent(t, can, n)
           fuel == t.fuel + n * Info[can].fuel * Efficiency[p]
           v == [u EXCEPT !.fuel = fuel]
<1>1. t \in Tank /\ t.life \in Nat /\ t.inventory[can] \in Nat /\ t.fuel \in Nat
  <2>1. t \in Tank
    BY DEF TankOf
  <2>2. t.life \in Nat /\ t.fuel \in Nat /\ t.inventory \in Stock
    BY <2>1 DEF Tank
  <2>3. t.inventory[can] \in 0 .. MaxItems
    BY <2>2, Catalogue DEF Stock
  <2> QED
    BY <2>1, <2>2, <2>3
<1>2. n \in 0 .. t.inventory[can]
  <2>1. CASE wanted = {}
    BY <1>1, <2>1
  <2>2. CASE wanted # {}
    <3>1. wanted \in SUBSET Nat /\ wanted \in SUBSET (0 .. t.inventory[can])
      BY <1>1
    <3>2. Least(wanted) \in wanted
      <4> HIDE DEF wanted
      <4> QED
        BY <3>1, <2>2, Leasts
    <3> HIDE DEF wanted
    <3> QED
      BY <2>2, <3>1, <3>2
  <2> QED
    BY <2>1, <2>2
<1>3. Opened(p, t, can) = IF Is(can, "FUEL") THEN v ELSE t
  <2>1. Opened(p, t, can) = IF ~Is(can, "FUEL") THEN t
                            ELSE [t EXCEPT !.fuel = @ + n * Info[can].fuel * Efficiency[p],
                                           !.inventory[can] = @ - n]
    BY DEF Opened
  <2>2. [t EXCEPT !.fuel = @ + n * Info[can].fuel * Efficiency[p], !.inventory[can] = @ - n]
            = [t EXCEPT !.fuel = fuel, !.inventory[can] = @ - n]
    <3> HIDE DEF n
    <3> QED
      BY <1>1 DEF Tank
  <2> HIDE DEF n, fuel
  <2>3. [t EXCEPT !.fuel = fuel, !.inventory[can] = @ - n] = v
    BY <1>1 DEF Spent, Tank
  <2> QED
    BY <2>1, <2>2, <2>3
<1> HIDE DEF n
<1>4. fuel \in Nat
  <2>1. n \in Nat /\ Info[can].fuel \in Nat /\ Efficiency[p] \in Nat
    BY <1>1, <1>2, Catalogue, Numbers
  <2>2. n * Info[can].fuel \in Nat
    BY <2>1, Product
  <2>3. n * Info[can].fuel * Efficiency[p] \in Nat
    BY <2>1, <2>2, Product
  <2> QED
    BY <1>1, <2>3
<1> HIDE DEF u, fuel
<1>5. Outfits(p, t, u) /\ u.life = t.life
  BY <1>2, Spending DEF u
<1>6. u \in TankOf(p)
  BY <1>5 DEF Outfits
<1>7. v \in Tank
  BY <1>4, <1>6, SMT DEF TankOf, Tank
<1>8. /\ v.money = u.money /\ v.kills = u.kills /\ v.suicides = u.suicides
      /\ v.selweapon = u.selweapon /\ v.life = u.life /\ v.inventory = u.inventory
      /\ v.shield = u.shield
  BY <1>6 DEF TankOf, Tank
<1>9. v \in TankOf(p)
  BY <1>6, <1>7, <1>8 DEF TankOf, Endless
<1>10. Outfits(p, u, v)
  BY <1>1, <1>5, <1>8, <1>9 DEF Outfits
<1> HIDE DEF v
<1> QED
  BY <1>3, <1>5, <1>10, OutfitsTwice

\* Moving opens the cans it needs.
LEMMA Refuelling ==
    ASSUME NEW p \in Player, NEW t \in TankOf(p)
    PROVE  LET u == Refuelled(p, t)
           IN  Outfits(p, t, IF u.fuel < NormalEfficiency THEN u
                             ELSE [u EXCEPT !.fuel = @ - NormalEfficiency])
<1> DEFINE I == {u \in TankOf(p) : Outfits(p, t, u)}
           u == Refuelled(p, t)
           v == [u EXCEPT !.fuel = @ - NormalEfficiency]
<1>1. PICK f : IsRun("Refuelled", t, p, Len(Accessories), f) /\ u = f[Len(Accessories)]
  BY RefuelledLoop
<1>2. t \in I
  BY OutfitsTwice
<1>3. ASSUME NEW x \in I, NEW k \in 1 .. Len(Accessories)
      PROVE  Step("Refuelled", x, k, p) \in I
  <2>1. Step("Refuelled", x, k, p) = Opened(p, x, Accessories[k])
    BY DEF Step
  <2>2. Accessories[k] \in Accessory
    BY Catalogue
  <2>3. Outfits(p, x, Opened(p, x, Accessories[k]))
    BY <2>2, Opening
  <2> QED
    BY <2>1, <2>3, OutfitsTwice DEF Outfits
<1>4. \A k \in 0 .. Len(Accessories) : f[k] \in I
  <2> HIDE DEF I
  <2> QED
    BY <1>1, <1>2, <1>3, Catalogue, LoopKeeps
<1>5. Outfits(p, t, u) /\ u \in TankOf(p)
  BY <1>1, <1>4, Catalogue
<1> SUFFICES Outfits(p, t, IF u.fuel < NormalEfficiency THEN u ELSE v)
  OBVIOUS
<1> HIDE DEF u
<1>6. CASE u.fuel >= NormalEfficiency
  <2> DEFINE fuel == u.fuel - NormalEfficiency
  <2>1. u \in Tank /\ u.life \in Nat /\ u.fuel \in Nat
    BY <1>5 DEF TankOf, Tank
  <2>2. fuel \in Nat
    BY <1>6, <2>1, Numbers
  <2>3. v = [u EXCEPT !.fuel = fuel]
    BY <2>1 DEF Tank
  <2> HIDE DEF fuel, v
  <2>4. v \in Tank
    BY <2>1, <2>2, <2>3, SMT DEF Tank
  <2>5. /\ v.money = u.money /\ v.kills = u.kills /\ v.suicides = u.suicides
        /\ v.selweapon = u.selweapon /\ v.life = u.life /\ v.inventory = u.inventory
        /\ v.shield = u.shield
    BY <2>1, <2>3 DEF Tank
  <2>6. v \in TankOf(p)
    BY <1>5, <2>4, <2>5 DEF TankOf, Endless
  <2>7. Outfits(p, u, v)
    BY <2>1, <2>5, <2>6 DEF Outfits
  <2>8. ~ (u.fuel < NormalEfficiency)
    BY <1>6, <2>1, Numbers
  <2>9. Outfits(p, t, v)
    BY <1>5, <2>7, OutfitsTwice
  <2> QED
    BY <2>8, <2>9
<1>7. CASE ~ (u.fuel >= NormalEfficiency)
  <2>1. u.fuel < NormalEfficiency
    <3>1. u.fuel \in Nat
      BY <1>5 DEF TankOf, Tank
    <3> QED
      BY <1>7, <3>1, Numbers
  <2> QED
    BY <1>5, <2>1
<1> QED
  BY <1>6, <1>7

\* What the auto defense window, or the computer player's rule, does.
LEMMA Defending ==
    ASSUME NEW p \in Player, NEW t \in TankOf(p), NEW shield \in Accessory \cup {None}, NEW flag
    PROVE  Outfits(p, t, Defended(t, shield, flag))
<1> DEFINE u == SetShield(t, shield)
           v == ActivateShield(u)
<1>1. Outfits(p, t, u) /\ u \in TankOf(p)
  BY SettingShield DEF Outfits
<1> HIDE DEF u
<1>2. Outfits(p, u, v) /\ v \in TankOf(p)
  BY <1>1, Raising DEF Outfits
<1> HIDE DEF v
<1>3. Outfits(p, v, SetContactTriggers(v, flag))
  BY <1>2, Triggering
<1>4. Outfits(p, t, v)
  BY <1>1, <1>2, OutfitsTwice
<1>5. Outfits(p, t, SetContactTriggers(v, flag))
  BY <1>3, <1>4, OutfitsTwice
<1> QED
  BY <1>5 DEF Defended, u, v
-----------------------------------------------------------------------------
(* The weapons of one tank.                                                *)

\* What a player does in a turn leaves money and credit alone, and a weapon
\* that is in stock selected.
Acts(p, t, u) ==
    /\ u \in TankOf(p)
    /\ u.money = t.money /\ u.kills = t.kills /\ u.suicides = t.suicides
    /\ Ready(t) => Ready(u)

\* Equipping the tank is part of a turn; two parts make one.
LEMMA ActsTwice ==
    ASSUME NEW p \in Player, NEW t \in TankOf(p)
    PROVE  /\ \A u : Outfits(p, t, u) => Acts(p, t, u)
           /\ \A u, v : Acts(p, t, u) /\ Acts(p, u, v) => Acts(p, t, v)
<1>1. t.selweapon \in Weapon
  BY DEF TankOf, Tank
<1>2. ASSUME NEW u, Outfits(p, t, u) PROVE Acts(p, t, u)
  BY <1>1, <1>2 DEF Outfits, Acts, Ready, Stocked
<1> QED
  BY <1>2 DEF Acts

\* Selecting a weapon changes the selection only.
LEMMA SettingWeapon ==
    ASSUME NEW p \in Player, NEW t \in TankOf(p), NEW w \in Weapon
    PROVE  Acts(p, t, SetWeapon(t, w)) /\ SetWeapon(t, w).inventory = t.inventory
<1>1. CASE Stocked(t, w)
  <2> DEFINE u == [t EXCEPT !.selweapon = w]
  <2>1. u \in TankOf(p)
    BY SMT DEF TankOf, Tank, Endless
  <2>2. /\ u.money = t.money /\ u.kills = t.kills /\ u.suicides = t.suicides
        /\ u.selweapon = w /\ u.inventory = t.inventory
    BY DEF TankOf, Tank
  <2>3. SetWeapon(t, w) = u
    BY <1>1 DEF SetWeapon
  <2> HIDE DEF u
  <2> QED
    BY <1>1, <2>1, <2>2, <2>3 DEF Acts, Ready, Stocked
<1>2. CASE ~Stocked(t, w)
  BY <1>2 DEF SetWeapon, Acts
<1> QED
  BY <1>1, <1>2

\* Shooting through the ground may use up a contact trigger.
LEMMA UsingTrigger ==
    ASSUME NEW p \in Player, NEW t \in TankOf(p)
    PROVE  Outfits(p, t, UseContactTrigger(t))
<1> DEFINE consumable == {a \in Having("TRIGGER") : Stocked(t, a)} \cap Having("CONSUMABLE")
           a == LastOf(Accessories, consumable)
           u == Spent(t, a, 1)
           v == [u EXCEPT !.ac_state = @ \ {"TRIGGER"}]
<1>1. /\ consumable = {} => UseContactTrigger(t) = t
      /\ UseContactTrigger(t) \in {t, u, SetContactTriggers(v, FALSE)}
  <2> DEFINE used == [t EXCEPT !.inventory[a] = @ - 1]
  <2>1. used = u
    <3> HIDE DEF a
    <3> QED
      BY DEF Spent, TankOf, Tank
  <2>2. /\ consumable = {} => UseContactTrigger(t) = t
        /\ UseContactTrigger(t) \in {t, used, SetContactTriggers([used EXCEPT !.ac_state = @ \ {"TRIGGER"}], FALSE)}
    BY DEF UseContactTrigger
  <2> HIDE DEF used, u, a
  <2> QED
    BY <2>1, <2>2
<1> SUFFICES ASSUME consumable # {} PROVE Outfits(p, t, UseContactTrigger(t))
  BY <1>1, OutfitsTwice
<1>2. a \in Accessory /\ 1 \in 0 .. t.inventory[a]
  <2>1. consumable \in SUBSET Accessory
    BY DEF Having
  <2>2. a \in consumable
    BY <2>1, Firsts
  <2>3. a \in Accessory /\ a \in Item /\ t.inventory[a] > 0
    BY <2>2, Catalogue DEF Having, Stocked
  <2>4. t.inventory[a] \in Nat
    BY <2>3, Numbers DEF TankOf, Tank, Stock
  <2> QED
    BY <2>3, <2>4
<1> HIDE DEF a, consumable
<1>3. Outfits(p, t, u) /\ u \in TankOf(p) /\ u.life = t.life
  BY <1>2, Spending DEF Outfits
<1> HIDE DEF u
<1>4. Outfits(p, u, v) /\ v \in TankOf(p)
  <2> DEFINE bits == u.ac_state \ {"TRIGGER"}
  <2>1. u \in Tank /\ u.life \in Nat /\ bits \in SUBSET StateBit /\ v = [u EXCEPT !.ac_state = bits]
    BY <1>3 DEF TankOf, Tank
  <2> HIDE DEF bits, v
  <2>2. v \in Tank
    BY <2>1, SMT DEF Tank
  <2>3. /\ v.money = u.money /\ v.kills = u.kills /\ v.suicides = u.suicides
        /\ v.selweapon = u.selweapon /\ v.life = u.life /\ v.inventory = u.inventory
        /\ v.shield = u.shield
    BY <2>1 DEF Tank
  <2>4. v \in TankOf(p)
    BY <1>3, <2>2, <2>3 DEF TankOf, Endless
  <2> QED
    BY <2>1, <2>3, <2>4 DEF Outfits
<1> HIDE DEF v
<1>5. Outfits(p, v, SetContactTriggers(v, FALSE))
  BY <1>4, Triggering
<1>6. Outfits(p, t, SetContactTriggers(v, FALSE))
  <2>1. Outfits(p, t, v)
    BY <1>3, <1>4, OutfitsTwice
  <2> HIDE DEF SetContactTriggers
  <2> QED
    BY <1>5, <2>1, OutfitsTwice
<1> QED
  BY <1>1, <1>3, <1>6, OutfitsTwice

\* The default weapon is always in stock.
LEMMA DefaultStocked ==
    ASSUME NEW p \in Player, NEW t \in TankOf(p)
    PROVE  Stocked(t, DefaultWeapon)
<1>1. t.inventory[DefaultWeapon] = MaxItems
  BY Catalogue DEF TankOf, Endless
<1> QED
  BY <1>1, Numbers DEF Stocked

\* A weapon in stock is fired, and one in stock is selected afterwards.
LEMMA Firing ==
    ASSUME NEW p \in Player, NEW t \in TankOf(p), Ready(t)
    PROVE  /\ Acts(p, t, Fired(t)) /\ Ready(Fired(t))
<1> DEFINE w == t.selweapon
           u == UseContactTrigger(t)
           stock == [u.inventory EXCEPT ![w] = @ - 1]
           v == IF Infinite(w) THEN u ELSE [u EXCEPT !.inventory = stock]
           x == [v EXCEPT !.selweapon = DefaultWeapon]
<1>1. Outfits(p, t, u) /\ u \in TankOf(p) /\ Acts(p, t, u)
  BY UsingTrigger, ActsTwice DEF Outfits
<1>2. w \in Weapon /\ w \in Item /\ u.selweapon = w /\ u.inventory[w] = t.inventory[w]
  BY <1>1, Catalogue DEF TankOf, Tank, Outfits
<1>3. Fired(t) = IF Stocked(v, w) THEN v ELSE x
  <2> DEFINE spent == IF Infinite(w) THEN u ELSE [u EXCEPT !.inventory[w] = @ - 1]
  <2>1. spent = v
    <3> HIDE DEF u, w
    <3> QED
      BY <1>1 DEF TankOf, Tank
  <2>2. Fired(t) = IF Stocked(spent, w) THEN spent ELSE [spent EXCEPT !.selweapon = DefaultWeapon]
    BY DEF Fired
  <2> HIDE DEF spent, v
  <2> QED
    BY <2>1, <2>2
<1> HIDE DEF u, w
<1>4. v \in TankOf(p) /\ v.selweapon = w
      /\ v.money = u.money /\ v.kills = u.kills /\ v.suicides = u.suicides
  <2>1. CASE Infinite(w)
    BY <2>1, <1>1, <1>2
  <2>2. CASE ~Infinite(w)
    <3>1. u \in Tank /\ u.inventory \in Stock /\ u.inventory[w] > 0
      BY <1>1, <1>2 DEF TankOf, Tank, Ready, Stocked, w
    <3>2. u.inventory[w] - 1 \in 0 .. MaxItems
      BY <1>2, <3>1, Numbers DEF Stock
    <3>3. stock \in Stock
      BY <1>2, <3>1, <3>2 DEF Stock
    <3>4. \A i \in Weapon : Infinite(i) => stock[i] = u.inventory[i]
      BY <2>2, <3>1, Catalogue DEF Stock
    <3>5. v = [u EXCEPT !.inventory = stock]
      BY <2>2
    <3> HIDE DEF v, stock
    <3>6. v \in Tank
      BY <3>1, <3>3, <3>5, SMT DEF Tank
    <3>7. /\ v.money = u.money /\ v.kills = u.kills /\ v.suicides = u.suicides
          /\ v.selweapon = u.selweapon /\ v.life = u.life /\ v.inventory = stock
          /\ v.shield = u.shield
      BY <3>1, <3>5 DEF Tank
    <3>8. Endless(v)
      BY <1>1, <3>4, <3>7 DEF TankOf, Endless
    <3> QED
      BY <1>1, <1>2, <3>6, <3>7, <3>8 DEF TankOf
  <2> QED
    BY <2>1, <2>2
<1> HIDE DEF v
<1>5. CASE Stocked(v, w)
  BY <1>1, <1>3, <1>4, <1>5 DEF Acts, Ready
<1>6. CASE ~Stocked(v, w)
  <2>1. x \in TankOf(p)
    <3>1. DefaultWeapon \in Weapon
      BY Catalogue
    <3> QED
      BY <1>4, <3>1, SMT DEF TankOf, Tank, Endless
  <2>2. /\ x.money = v.money /\ x.kills = v.kills /\ x.suicides = v.suicides
        /\ x.selweapon = DefaultWeapon
    BY <1>4 DEF TankOf, Tank
  <2>3. Fired(t) = x
    BY <1>3, <1>6
  <2> HIDE DEF x
  <2>4. Ready(x)
    BY <2>1, <2>2, DefaultStocked DEF Ready
  <2> QED
    BY <1>1, <1>4, <2>1, <2>2, <2>3, <2>4 DEF Acts
<1> QED
  BY <1>5, <1>6
\* The loop over the weapons, from the last to the first.
LEMMA ByScoreLoop ==
    ASSUME NEW t
    PROVE  LET start == [first |-> None, second |-> None, max |-> 0, next |-> -1]
           IN  \E f : /\ IsRun("ByScore", start, t, Len(Weapons), f)
                      /\ ByScore(t) = {IF w = None THEN t ELSE SetWeapon(t, w) :
                                          w \in {f[Len(Weapons)].first} \cup
                                                (IF f[Len(Weapons)].next > 0
                                                 THEN {f[Len(Weapons)].second} ELSE {})}
<1> DEFINE n == Len(Weapons)
           start == [first |-> None, second |-> None, max |-> 0, next |-> -1]
           R(f) == f = [k \in 0 .. n |-> IF k = 0 THEN start
                                        ELSE Rated(f[k - 1], Weapons[n + 1 - k], t)]
           f == CHOOSE f : R(f)
<1>1. PICK g : IsRun("ByScore", start, t, n, g)
  BY Catalogue, Loops
<1>2. \A h : R(h) <=> IsRun("ByScore", start, t, n, h)
  BY DEF IsRun, Step
<1>3. R(f)
  BY <1>1, <1>2
<1>4. ByScore(t) = {IF w = None THEN t ELSE SetWeapon(t, w) :
                       w \in {f[n].first} \cup (IF f[n].next > 0 THEN {f[n].second} ELSE {})}
  BY DEF ByScore
<1> QED
  BY <1>2, <1>3, <1>4

\* A computer player selects weapons.
LEMMA Choosing ==
    ASSUME NEW p \in Player, NEW t \in TankOf(p), NEW u \in ByScore(t) \cup LastWeapon(t)
    PROVE  Acts(p, t, u)
<1>1. CASE u \in LastWeapon(t)
  <2>1. Weapons[Len(Weapons)] \in Weapon
    BY Catalogue
  <2> QED
    BY <1>1, <2>1, SettingWeapon DEF LastWeapon
<1>2. CASE u \in ByScore(t)
  <2> DEFINE n == Len(Weapons)
             W == Weapon \cup {None}
             start == [first |-> None, second |-> None, max |-> 0, next |-> -1]
             I == [first : W, second : W, max : Nat, next : Int]
  <2>1. PICK f : /\ IsRun("ByScore", start, t, n, f)
                 /\ ByScore(t) = {IF w = None THEN t ELSE SetWeapon(t, w) :
                                     w \in {f[n].first} \cup
                                           (IF f[n].next > 0 THEN {f[n].second} ELSE {})}
    BY ByScoreLoop
  <2>2. start \in I
    OBVIOUS
  <2>3. ASSUME NEW s \in I, NEW k \in 1 .. n PROVE Step("ByScore", s, k, t) \in I
    <3> DEFINE w == Weapons[n + 1 - k]
    <3>1. Step("ByScore", s, k, t) = Rated(s, w, t)
      BY DEF Step
    <3>2. n + 1 - k \in 1 .. n
      BY Catalogue
    <3>3. w \in Weapon
      BY <3>2, Catalogue
    <3>4. Yield[w].yield \in Nat
      BY <3>3, AiAssumption
    <3> HIDE DEF w
    <3>5. Rated(s, w, t) \in I
      <4> DEFINE y == Yield[w].yield
                 s1 == [first |-> w, second |-> s.first, max |-> y, next |-> s.max]
                 s2 == [s EXCEPT !.second = w, !.next = y]
      <4>1. s1 \in I /\ s2 \in I
        <5>1. y \in Nat /\ y \in Int /\ s.max \in Nat /\ s.max \in Int /\ s.first \in W /\ w \in W
          BY <3>3, <3>4, <2>3
        <5> HIDE DEF y
        <5>2. s1 \in I
          BY <5>1
        <5>3. s2 \in I
          <6> DEFINE v == [s EXCEPT !.second = w]
          <6>1. v \in I
            BY <5>1, <2>3, SMT
          <6>2. s2 = [v EXCEPT !.next = y]
            BY <2>3, SMT
          <6> HIDE DEF v, s2
          <6> QED
            BY <5>1, <6>1, <6>2, SMT
        <5> QED
          BY <5>2, <5>3
      <4>2. Rated(s, w, t) \in {s, s1, s2}
        <5> HIDE DEF s1, s2
        <5>1. Rated(s, w, t) = IF ~Stocked(t, w) THEN s
                               ELSE IF y > s.max THEN s1 ELSE IF y > s.next THEN s2 ELSE s
          BY DEF Rated, s1, s2
        <5> QED
          BY <5>1
      <4> HIDE DEF s1, s2, I
      <4> QED
        BY <4>1, <4>2, <2>3
    <3> QED
      BY <3>1, <3>5 DEF w
  <2>4. \A k \in 0 .. n : f[k] \in I
    <3> HIDE DEF I, start
    <3> QED
      BY <2>1, <2>2, <2>3, Catalogue, LoopKeeps
  <2>5. f[n].first \in W /\ f[n].second \in W
    BY <2>4, Catalogue
  <2>6. PICK w \in W : u = IF w = None THEN t ELSE SetWeapon(t, w)
    BY <1>2, <2>1, <2>5
  <2>7. Acts(p, t, t)
    BY DEF Acts
  <2> QED
    BY <2>6, <2>7, SettingWeapon
<1> QED
  BY <1>1, <1>2
-----------------------------------------------------------------------------
(* Prices.                                                                 *)

\* What the program's percentages come to.
LEMMA Percentages ==
    ASSUME NEW n \in Nat
    PROVE  /\ (n * 50) \div 100 \in Nat /\ 2 * ((n * 50) \div 100) <= n
           /\ n <= 2 * ((n * 50) \div 100) + 1
           /\ (n * 130) \div 100 \in Nat /\ n <= (n * 130) \div 100
  OBVIOUS

\* The price of one item, and what a bundle costs more than its items.
LEMMA Units ==
    ASSUME NEW item \in Item, ~Infinite(item)
    PROVE  /\ Info[item].bundle \in Nat \ {0} /\ Info[item].price \in Nat \ {0}
           /\ UnitPrice(item) \in Nat
           /\ \E rest \in 0 .. Info[item].bundle - 1 :
                  Info[item].price = UnitPrice(item) * Info[item].bundle + rest
<1> DEFINE b == Info[item].bundle
           c == Info[item].price
           u == UnitPrice(item)
<1>1. b \in Nat \ {0} /\ c \in Nat \ {0}
  BY Catalogue DEF Infinite
<1>2. u = c \div b
  BY DEF UnitPrice
<1> HIDE DEF b, c, u
<1>3. u \in Nat /\ c = b * u + (c % b) /\ c % b \in 0 .. b - 1
  <2>1. c % b \in 0 .. b - 1 /\ c \div b \in Int /\ c = b * (c \div b) + (c % b)
    <3>1. c \in Int
      BY <1>1
    <3> QED
      BY <1>1, <3>1, DivMod
  <2>2. c \div b \in Nat
    BY <1>1, Share
  <2> QED
    BY <1>2, <2>1, <2>2
<1>4. b * u = u * b
  BY <1>1, <1>3
<1> QED
  BY <1>1, <1>3, <1>4 DEF b, c, u

\* What a number of items brings: whole bundles, and the rest by the piece.
LEMMA Resold ==
    ASSUME NEW item \in Item, ~Infinite(item), NEW a \in Nat, NEW r \in 0 .. Info[item].bundle - 1
    PROVE  ResaleOf(item, Info[item].bundle * a + r)
               = a * ((Info[item].price * 50) \div 100) + ((UnitPrice(item) * r * 50) \div 100)
<1> DEFINE b == Info[item].bundle
           h == b * a + r
<1>1. b \in Nat \ {0} /\ r \in 0 .. b - 1 /\ r < b
  BY Units
<1>2. h \in Int
  <2> HIDE DEF b
  <2>1. b * a \in Nat
    BY <1>1, Product
  <2> QED
    BY <1>1, <2>1
<1>3. h % b = r /\ h \div b = a
  <2> HIDE DEF b
  <2>1. h = b * a + r
    OBVIOUS
  <2> HIDE DEF h
  <2> QED
    BY <1>1, <1>2, <2>1, Unique
<1>4. ResaleOf(item, h) = (h \div b) * SalePrice(item, b) + SalePrice(item, h % b)
  BY DEF ResaleOf
<1>5. SalePrice(item, b) = (Info[item].price * 50) \div 100
  <2>1. ~ (b < b)
    BY <1>1
  <2> QED
    BY <2>1 DEF SalePrice
<1>6. SalePrice(item, r) = (UnitPrice(item) * r * 50) \div 100
  BY <1>1 DEF SalePrice
<1> HIDE DEF h, b
<1> QED
  BY <1>3, <1>4, <1>5, <1>6 DEF h, b
\* Any stock is so many bundles and a rest.
LEMMA Bundles ==
    ASSUME NEW item \in Item, ~Infinite(item), NEW have \in Nat
    PROVE  \E a \in Nat, r \in 0 .. Info[item].bundle - 1 : have = Info[item].bundle * a + r
<1> DEFINE b == Info[item].bundle
<1>1. b \in Nat \ {0}
  BY Units
<1> HIDE DEF b
<1>2. have % b \in 0 .. b - 1 /\ have \div b \in Nat /\ have = b * (have \div b) + (have % b)
  <2>1. have \in Int
    OBVIOUS
  <2>2. have % b \in 0 .. b - 1 /\ have = b * (have \div b) + (have % b)
    BY <1>1, <2>1, DivMod
  <2> QED
    BY <1>1, <2>2, Share
<1>3. \E a \in Nat, r \in 0 .. b - 1 : have = b * a + r
  BY <1>2
<1> QED
  BY <1>3 DEF b

\* What is in stock brings whole dollars.
LEMMA ResaleNat ==
    ASSUME NEW item \in Item, NEW have \in Nat
    PROVE  ResaleOf(item, have) \in Nat
<1>1. CASE Infinite(item)
  BY <1>1 DEF ResaleOf
<1>2. CASE ~Infinite(item)
  <2>1. PICK a \in Nat, r \in 0 .. Info[item].bundle - 1 : have = Info[item].bundle * a + r
    BY <1>2, Bundles
  <2> DEFINE s == (Info[item].price * 50) \div 100
             x == (UnitPrice(item) * r * 50) \div 100
  <2>2. ResaleOf(item, have) = a * s + x
    BY <1>2, <2>1, Resold
  <2>3. s \in Nat
    <3>1. Info[item].price \in Nat
      BY Catalogue
    <3> QED
      BY <3>1, Percentages
  <2>4. x \in Nat
    <3>1. UnitPrice(item) \in Nat /\ r \in Nat
      BY <1>2, Units
    <3>2. UnitPrice(item) * r \in Nat
      BY <3>1, Product
    <3> QED
      BY <3>2, Percentages
  <2> HIDE DEF s, x
  <2>5. a * s \in Nat
    BY <2>3, Product
  <2> QED
    BY <2>2, <2>4, <2>5
<1> QED
  BY <1>1, <1>2

\* A sale brings what the stock is worth less afterwards, neither more nor less.
LEMMA SellsFairly ==
    ASSUME NEW item \in Item, ~Infinite(item), NEW have \in Nat, have > 0,
           NEW q, q = IF have > Info[item].bundle THEN Info[item].bundle ELSE have
    PROVE  /\ q \in 0 .. have /\ SalePrice(item, q) \in Nat
           /\ ResaleOf(item, have) = ResaleOf(item, have - q) + SalePrice(item, q)
<1> DEFINE b == Info[item].bundle
           s == (Info[item].price * 50) \div 100
           P(r) == (UnitPrice(item) * r * 50) \div 100
<1>1. b \in Nat \ {0} /\ UnitPrice(item) \in Nat /\ Info[item].price \in Nat
  BY Units
<1>2. s \in Nat
  BY <1>1, Percentages
<1>3. \A r \in Nat : P(r) \in Nat
  <2> TAKE r \in Nat
  <2>1. UnitPrice(item) * r \in Nat
    BY <1>1, Product
  <2> QED
    BY <2>1, Percentages
<1>4. P(0) = 0
  BY <1>1
<1>5. \A a \in Nat, r \in 0 .. b - 1 : ResaleOf(item, b * a + r) = a * s + P(r)
  BY Resold
<1>6. /\ \A r \in Nat : r < b => SalePrice(item, r) = P(r)
      /\ SalePrice(item, b) = s
  BY <1>1 DEF SalePrice
<1> HIDE DEF b, s, P
<1>7. CASE have > b
  <2>1. PICK a \in Nat, r \in 0 .. b - 1 : have = b * a + r
    BY Bundles DEF b
  <2>2. a >= 1
    <3> SUFFICES ASSUME a = 0 PROVE FALSE
      OBVIOUS
    <3>1. b * a = 0
      BY <1>1
    <3> QED
      BY <1>1, <1>7, <2>1, <3>1
  <2>3. q = b
    BY <1>7 DEF b
  <2>4. a - 1 \in Nat /\ b * a - b = b * (a - 1)
    BY <1>1, <2>2
  <2>5. have - q = b * (a - 1) + r
    BY <1>1, <2>1, <2>3, <2>4
  <2>6. ResaleOf(item, have) = a * s + P(r) /\ ResaleOf(item, have - q) = (a - 1) * s + P(r)
    BY <1>5, <2>1, <2>4, <2>5
  <2>7. a * s = (a - 1) * s + s
    BY <1>2, <2>2
  <2>8. P(r) \in Nat /\ (a - 1) * s \in Nat
    BY <1>2, <1>3, <2>4, Product
  <2>9. q \in 0 .. have /\ SalePrice(item, q) = s
    BY <1>1, <1>6, <1>7, <2>3
  <2> QED
    BY <1>2, <2>6, <2>7, <2>8, <2>9
<1>8. CASE have = b
  <2>1. q = b /\ q \in 0 .. have /\ SalePrice(item, q) = s
    BY <1>1, <1>6, <1>8 DEF b
  <2>2. have = b * 1 + 0 /\ have - q = b * 0 + 0 /\ 0 \in 0 .. b - 1
    BY <1>1, <1>8, <2>1
  <2>3. ResaleOf(item, have) = 1 * s + P(0) /\ ResaleOf(item, have - q) = 0 * s + P(0)
    BY <1>5, <2>2
  <2> QED
    BY <1>2, <1>4, <2>1, <2>3
<1>9. CASE have < b
  <2>1. q = have /\ q \in 0 .. have /\ SalePrice(item, q) = P(have)
    BY <1>1, <1>6, <1>9 DEF b
  <2>2. have = b * 0 + have /\ have - q = b * 0 + 0 /\ 0 \in 0 .. b - 1 /\ have \in 0 .. b - 1
    BY <1>1, <1>9, <2>1
  <2>3. ResaleOf(item, have) = 0 * s + P(have) /\ ResaleOf(item, have - q) = 0 * s + P(0)
    BY <1>5, <2>2
  <2>4. P(have) \in Nat
    BY <1>3
  <2> QED
    BY <1>2, <1>4, <2>1, <2>3, <2>4
<1> QED
  BY <1>1, <1>7, <1>8, <1>9
\* A purchase costs at least what the stock is worth more afterwards, a
\* bundle split by the limit of the inventory included.
LEMMA BuysDear ==
    ASSUME NEW item \in Item, ~Infinite(item), NEW have \in 0 .. MaxItems,
           NEW q, q = Quantity(have, Info[item].bundle), q # 0
    PROVE  /\ q \in Nat /\ have + q <= MaxItems /\ PurchasePrice(item, q) \in Nat
           /\ ResaleOf(item, have + q) <= ResaleOf(item, have) + PurchasePrice(item, q)
<1> DEFINE b == Info[item].bundle
           c == Info[item].price
           u == UnitPrice(item)
           s == (c * 50) \div 100
           P(r) == (u * r * 50) \div 100
           M == MaxItems
<1>1. b \in Nat \ {0} /\ u \in Nat /\ c \in Nat /\ M \in Nat /\ have \in Nat
  BY Units, Numbers
<1>2. PICK rest \in 0 .. b - 1 : c = u * b + rest
  BY Units
<1>3. s \in Nat /\ 2 * s <= c /\ s <= c
  BY <1>1, Percentages
<1>4. \A r \in Nat : u * r \in Nat /\ P(r) \in Nat /\ 2 * P(r) <= u * r /\ u * r <= 2 * P(r) + 1
  <2> TAKE r \in Nat
  <2>1. u * r \in Nat
    BY <1>1, Product
  <2> QED
    BY <2>1, Percentages
<1>5. \A a \in Nat, r \in 0 .. b - 1 : ResaleOf(item, b * a + r) = a * s + P(r)
  BY Resold
<1>6. PICK a \in Nat, r \in 0 .. b - 1 : have = b * a + r
  BY <1>1, Bundles
<1>8. PurchasePrice(item, q) = IF q < b THEN (u * q * 130) \div 100 ELSE c
  BY DEF PurchasePrice
<1>9. q = IF have + b <= M THEN b ELSE M - have
  BY DEF Quantity
<1>11. (M + 1) % b = 0 \/ b <= u
  BY PricesAssumption
<1> HIDE DEF b, c, u, s, P, M
<1>7. ResaleOf(item, have) = a * s + P(r) /\ a * s \in Nat /\ r \in Nat /\ P(r) \in Nat
  <2>1. r \in Nat
    BY <1>1, <1>6
  <2>2. a * s \in Nat
    BY <1>3, Product
  <2> QED
    BY <1>4, <1>5, <1>6, <2>1, <2>2
<1>10. b * (a + 1) = b * a + b /\ (a + 1) * s = a * s + s /\ a + 1 \in Nat
  BY <1>1, <1>3
<1>12. CASE have + b <= M
  <2>1. q = b /\ PurchasePrice(item, q) = c
    BY <1>1, <1>8, <1>9, <1>12
  <2>2. have + q = b * (a + 1) + r
    BY <1>1, <1>6, <1>10, <2>1
  <2>3. ResaleOf(item, have + q) = (a + 1) * s + P(r)
    BY <1>5, <1>10, <2>2
  <2>4. ResaleOf(item, have + q) <= ResaleOf(item, have) + PurchasePrice(item, q)
    BY <1>1, <1>3, <1>7, <1>10, <2>1, <2>3
  <2> QED
    BY <1>1, <1>12, <2>1, <2>4 DEF M
<1>13. CASE ~ (have + b <= M)
  <2>1. q = M - have /\ q \in Nat /\ q >= 1 /\ q < b /\ have + q = M
    <3>1. have <= M
      BY DEF M
    <3> QED
      BY <1>1, <1>9, <1>13, <3>1
  <2> DEFINE m == u * q
             d == (m * 130) \div 100
  <2>2. m \in Nat /\ d \in Nat /\ m <= d /\ PurchasePrice(item, q) = d
    <3>1. m \in Nat
      BY <1>4, <2>1
    <3>2. PurchasePrice(item, q) = d
      BY <1>8, <2>1
    <3> HIDE DEF m
    <3> QED
      BY <3>1, <3>2, Percentages
  <2> HIDE DEF d
  <2>3. CASE r + q < b
    <3>1. r + q \in 0 .. b - 1 /\ r + q \in Nat /\ have + q = b * a + (r + q)
      <4>1. b * a \in Nat
        BY <1>1, Product
      <4> QED
        BY <1>1, <1>6, <1>7, <2>1, <2>3, <4>1
    <3>2. ResaleOf(item, have + q) = a * s + P(r + q)
      BY <1>5, <3>1
    <3>3. u * (r + q) = u * r + m
      BY <1>1, <1>7, <2>1
    <3>4. /\ 2 * P(r + q) <= u * r + m /\ u * r <= 2 * P(r) + 1
          /\ P(r + q) \in Nat /\ P(r) \in Nat /\ u * r \in Nat
      BY <1>4, <1>7, <3>1, <3>3
    <3>5. CASE m = 0
      <4>1. u = 0
        <5> SUFFICES ASSUME u >= 1 PROVE FALSE
          BY <1>1
        <5>1. u * q >= 1 * q
          BY <1>1, <2>1
        <5> QED
          BY <2>1, <3>5, <5>1
      <4>2. u * r = 0
        BY <1>7, <4>1
      <4>3. P(r + q) = 0
        BY <3>4, <3>5, <4>2
      <4> QED
        BY <1>7, <2>1, <2>2, <3>2, <4>3 DEF M
    <3>6. CASE m >= 1
      <4> HIDE DEF m
      <4>1. P(r + q) <= P(r) + m
        BY <2>2, <3>4, <3>6
      <4> QED
        BY <1>7, <2>1, <2>2, <3>2, <3>4, <4>1 DEF M
    <3> QED
      BY <2>2, <3>5, <3>6
  <2>4. CASE ~ (r + q < b)
    <3> DEFINE x == r + q - b
    <3>1. x \in 0 .. b - 1 /\ x \in Nat /\ have + q = b * (a + 1) + x /\ x < b - 1
      <4>1. b * a \in Nat
        BY <1>1, Product
      <4> QED
        BY <1>1, <1>6, <1>7, <1>10, <2>1, <2>4, <4>1
    <3>2. b <= u
      <4> SUFFICES ASSUME (M + 1) % b = 0 PROVE FALSE
        BY <1>11
      <4>1. M + 1 = b * (a + 1) + (x + 1)
        <5>1. b * (a + 1) \in Nat
          BY <1>1, <1>10, Product
        <5> QED
          BY <2>1, <3>1, <5>1
      <4>2. x + 1 \in 0 .. b - 1
        BY <1>1, <3>1
      <4> HIDE DEF x
      <4>3. (M + 1) % b = x + 1
        <5> DEFINE y == M + 1
                   z == a + 1
                   v == x + 1
        <5>1. y \in Int /\ z \in Int /\ v \in 0 .. b - 1 /\ y = b * z + v
          BY <1>1, <1>10, <4>1, <4>2
        <5> HIDE DEF y, z, v
        <5>2. y % b = v
          BY <1>1, <5>1, Unique
        <5> QED
          BY <5>2 DEF y, v
      <4> QED
        BY <3>1, <4>3
    <3>3. ResaleOf(item, have + q) = (a + 1) * s + P(x)
      BY <1>5, <1>10, <3>1
    <3>4. u * x = u * r + m - u * b
      BY <1>1, <1>7, <2>1
    <3>5. u <= m
      <4>1. u * q >= u * 1
        BY <1>1, <2>1
      <4> QED
        BY <1>1, <4>1
    <3> HIDE DEF x, m
    <3>6. /\ 2 * P(x) <= u * r + m - u * b /\ u * r <= 2 * P(r) + 1
          /\ P(x) \in Nat /\ P(r) \in Nat /\ u * r \in Nat /\ u * b \in Nat
      BY <1>1, <1>4, <1>7, <3>1, <3>4
    <3>7. 2 * s <= u * b + b - 1
      BY <1>1, <1>2, <1>3, <3>6
    <3>8. s + P(x) <= P(r) + m
      BY <1>1, <1>3, <2>2, <3>2, <3>5, <3>6, <3>7
    <3> QED
      BY <1>3, <1>7, <1>10, <2>1, <2>2, <3>3, <3>6, <3>8 DEF M
  <2> QED
    BY <2>3, <2>4
<1> QED
  BY <1>12, <1>13
\* The sum over a list of items.
LEMMA ResaleLoop ==
    ASSUME NEW items, Len(items) \in Nat, NEW inv
    PROVE  \E f : IsRun("Resale", 0, <<items, inv>>, Len(items), f)
                  /\ Resale(items, inv) = f[Len(items)]
<1> DEFINE n == Len(items)
           R(f) == f = [k \in 0 .. n |-> IF k = 0 THEN 0
                                        ELSE f[k - 1] + ResaleOf(items[k], inv[items[k]])]
           f == CHOOSE f : R(f)
<1>1. PICK g : IsRun("Resale", 0, <<items, inv>>, n, g)
  BY Loops
<1>2. \A h : R(h) <=> IsRun("Resale", 0, <<items, inv>>, n, h)
  BY DEF IsRun, Step
<1>3. R(f)
  BY <1>1, <1>2
<1>4. Resale(items, inv) = f[n]
  BY DEF Resale
<1> QED
  BY <1>2, <1>3, <1>4

\* When the stock of one item changes, so does the sum, by as much.
LEMMA ResaleChange ==
    ASSUME NEW items, Len(items) \in Nat,
           \A k \in 1 .. Len(items) : items[k] \in Item,
           \A j, k \in 1 .. Len(items) : items[j] = items[k] => j = k,
           NEW item \in Item, NEW old \in Stock, NEW new \in Stock,
           \A i \in Item : i # item => new[i] = old[i]
    PROVE  /\ Resale(items, old) \in Nat
           /\ Resale(items, new) = Resale(items, old)
                  + IF item \in ElementsOf(items)
                    THEN ResaleOf(item, new[item]) - ResaleOf(item, old[item]) ELSE 0
<1> DEFINE n == Len(items)
           gain == ResaleOf(item, new[item]) - ResaleOf(item, old[item])
           Met(k) == \E j \in 1 .. k : items[j] = item
<1>1. PICK f : IsRun("Resale", 0, <<items, old>>, n, f) /\ Resale(items, old) = f[n]
  BY ResaleLoop
<1>2. PICK g : IsRun("Resale", 0, <<items, new>>, n, g) /\ Resale(items, new) = g[n]
  BY ResaleLoop
<1>3. \A i \in Item : ResaleOf(i, old[i]) \in Nat /\ ResaleOf(i, new[i]) \in Nat
  BY ResaleNat, Numbers DEF Stock
<1>4. f[0] = 0 /\ g[0] = 0
  BY <1>1, <1>2 DEF IsRun
<1>5. \A k \in 1 .. n : /\ f[k] = f[k - 1] + ResaleOf(items[k], old[items[k]])
                        /\ g[k] = g[k - 1] + ResaleOf(items[k], new[items[k]])
  <2> TAKE k \in 1 .. n
  <2>1. f[k] = Step("Resale", f[k - 1], k, <<items, old>>)
        /\ g[k] = Step("Resale", g[k - 1], k, <<items, new>>)
    <3>1. k \in 0 .. n /\ k # 0
      OBVIOUS
    <3> QED
      BY <1>1, <1>2, <3>1 DEF IsRun
  <2> QED
    BY <2>1 DEF Step
<1> HIDE DEF gain
<1> DEFINE S == {k \in Nat : k \in 0 .. n => /\ f[k] \in Nat /\ g[k] \in Nat
                                             /\ Met(k) => g[k] = f[k] + gain
                                             /\ ~Met(k) => g[k] = f[k]}
<1>6. 0 \in S
  BY <1>4
<1>7. ASSUME NEW k \in Nat, k \in S PROVE k + 1 \in S
  <2> SUFFICES ASSUME k + 1 \in 0 .. n
               PROVE  /\ f[k + 1] \in Nat /\ g[k + 1] \in Nat
                      /\ Met(k + 1) => g[k + 1] = f[k + 1] + gain
                      /\ ~Met(k + 1) => g[k + 1] = f[k + 1]
    OBVIOUS
  <2> DEFINE i == items[k + 1]
  <2>1. /\ k + 1 \in 1 .. n /\ (k + 1) - 1 = k
        /\ f[k] \in Nat /\ g[k] \in Nat
        /\ Met(k) => g[k] = f[k] + gain
        /\ ~Met(k) => g[k] = f[k]
    BY <1>7
  <2>2. f[k + 1] = f[k] + ResaleOf(i, old[i]) /\ g[k + 1] = g[k] + ResaleOf(i, new[i])
    BY <1>5, <2>1
  <2>3. i \in Item /\ ResaleOf(i, old[i]) \in Nat /\ ResaleOf(i, new[i]) \in Nat
    BY <1>3, <2>1
  <2>4. Met(k + 1) <=> Met(k) \/ i = item
    <3>1. \A j \in 1 .. k + 1 : j \in 1 .. k \/ j = k + 1
      OBVIOUS
    <3>2. k + 1 \in 1 .. k + 1 /\ \A j \in 1 .. k : j \in 1 .. k + 1
      OBVIOUS
    <3> QED
      BY <3>1, <3>2
  <2>5. i = item => ~Met(k)
    <3> SUFFICES ASSUME NEW j \in 1 .. k, items[j] = i PROVE FALSE
      OBVIOUS
    <3>1. j \in 1 .. n /\ j # k + 1
      BY <2>1
    <3> QED
      BY <2>1, <3>1
  <2>6. i # item => ResaleOf(i, new[i]) = ResaleOf(i, old[i])
    BY <2>3
  <2>7. i = item => ResaleOf(i, new[i]) = ResaleOf(i, old[i]) + gain
    BY <2>3 DEF gain
  <2>8. gain \in Int
    BY <1>3 DEF gain
  <2> HIDE DEF i, Met
  <2>9. CASE i = item
    BY <2>1, <2>2, <2>3, <2>4, <2>5, <2>7, <2>8, <2>9
  <2>10. CASE i # item
    BY <2>1, <2>2, <2>3, <2>4, <2>6, <2>8, <2>10
  <2> QED
    BY <2>9, <2>10
<1>8. Nat \subseteq S
  <2> HIDE DEF S
  <2> QED
    BY <1>6, <1>7, Induction
<1>9. n \in S /\ n \in 0 .. n
  BY <1>8
<1>10. item \in ElementsOf(items) <=> Met(n)
  BY DEF ElementsOf
<1>11. f[n] \in Nat /\ g[n] = f[n] + IF Met(n) THEN gain ELSE 0
  BY <1>9
<1> QED
  BY <1>1, <1>2, <1>10, <1>11 DEF gain

\* The same for all a player owns.
LEMMA WorthChange ==
    ASSUME NEW p \in Player, NEW t \in TankOf(p), NEW u \in TankOf(p), NEW item \in Item,
           \A i \in Item : i # item => u.inventory[i] = t.inventory[i]
    PROVE  /\ Worth(t) \in Int
           /\ Worth(u) = Worth(t) + (u.money - t.money)
                  + (ResaleOf(item, u.inventory[item]) - ResaleOf(item, t.inventory[item]))
<1> DEFINE gain == ResaleOf(item, u.inventory[item]) - ResaleOf(item, t.inventory[item])
<1>1. /\ t.inventory \in Stock /\ u.inventory \in Stock /\ t.money \in Int /\ u.money \in Int
  BY DEF TankOf, Tank
<1>2. gain \in Int
  BY <1>1, ResaleNat, Numbers DEF Stock
<1>3. /\ Resale(Weapons, t.inventory) \in Nat
      /\ Resale(Weapons, u.inventory) = Resale(Weapons, t.inventory)
             + IF item \in ElementsOf(Weapons) THEN gain ELSE 0
  <2>1. \A k \in 1 .. Len(Weapons) : Weapons[k] \in Item
    BY Catalogue
  <2>2. \A j, k \in 1 .. Len(Weapons) : Weapons[j] = Weapons[k] => j = k
    BY CatalogueAssumption
  <2>3. Len(Weapons) \in Nat
    BY Catalogue
  <2> QED
    BY <1>1, <2>1, <2>2, <2>3, ResaleChange
<1>4. /\ Resale(Accessories, t.inventory) \in Nat
      /\ Resale(Accessories, u.inventory) = Resale(Accessories, t.inventory)
             + IF item \in ElementsOf(Accessories) THEN gain ELSE 0
  <2>1. \A k \in 1 .. Len(Accessories) : Accessories[k] \in Item
    BY Catalogue
  <2>2. \A j, k \in 1 .. Len(Accessories) : Accessories[j] = Accessories[k] => j = k
    BY CatalogueAssumption
  <2>3. Len(Accessories) \in Nat
    BY Catalogue
  <2> QED
    BY <1>1, <2>1, <2>2, <2>3, ResaleChange
<1>5. (item \in ElementsOf(Weapons)) <=> ~ (item \in ElementsOf(Accessories))
  BY CatalogueAssumption DEF Item, Weapon, Accessory
<1> HIDE DEF gain
<1> QED
  BY <1>1, <1>2, <1>3, <1>4, <1>5 DEF Worth, gain
-----------------------------------------------------------------------------
(* Shopping.                                                               *)

\* What a player's shopping does: credit stays, and no money is made.
Shops(p, t, u) ==
    /\ u \in TankOf(p)
    /\ u.kills = t.kills /\ u.suicides = t.suicides
    /\ Worth(u) <= Worth(t)

\* What a player owns is worth whole dollars; two purchases make one.
LEMMA ShopsTwice ==
    ASSUME NEW p \in Player, NEW t \in TankOf(p)
    PROVE  /\ Worth(t) \in Int /\ Shops(p, t, t)
           /\ \A u, v : Shops(p, t, u) /\ Shops(p, u, v) => Shops(p, t, v)
<1>1. \A v \in TankOf(p) : Worth(v) \in Int
  BY WorthChange, Catalogue
<1>2. Shops(p, t, t)
  BY <1>1 DEF Shops
<1>3. ASSUME NEW u, NEW v, Shops(p, t, u), Shops(p, u, v) PROVE Shops(p, t, v)
  <2>1. Worth(t) \in Int /\ Worth(u) \in Int /\ Worth(v) \in Int
    BY <1>1, <1>3 DEF Shops
  <2> QED
    BY <1>3, <2>1 DEF Shops
<1> QED
  BY <1>1, <1>2, <1>3

\* A tank with another stock of one item, other money and other benefits.
Traded(t, item, have, money, bits) ==
    [t EXCEPT !.inventory = [t.inventory EXCEPT ![item] = have], !.money = money,
              !.ac_state = bits]

\* It is a tank like any other.
LEMMA Trading ==
    ASSUME NEW p \in Player, NEW t \in TankOf(p), NEW item \in Item, NEW have \in 0 .. MaxItems,
           item \in Weapon /\ Infinite(item) => have = MaxItems,
           NEW money \in Int, NEW bits \in SUBSET StateBit,
           NEW u, u = Traded(t, item, have, money, bits)
    PROVE  /\ u \in TankOf(p) /\ u.money = money /\ u.kills = t.kills /\ u.suicides = t.suicides
           /\ u.inventory[item] = have /\ u.selweapon = t.selweapon /\ u.life = t.life
           /\ \A i \in Item : i # item => u.inventory[i] = t.inventory[i]
<1> DEFINE stock == [t.inventory EXCEPT ![item] = have]
           v == [t EXCEPT !.inventory = stock]
           x == [v EXCEPT !.money = money]
<1>1. t \in Tank /\ t.inventory \in Stock
  BY DEF TankOf, Tank
<1>2. stock \in Stock /\ stock[item] = have /\ \A i \in Item : i # item => stock[i] = t.inventory[i]
  BY <1>1 DEF Stock
<1>3. u = [x EXCEPT !.ac_state = bits]
  <2> HIDE DEF stock
  <2>1. u = [t EXCEPT !.inventory = stock, !.money = money, !.ac_state = bits]
    BY DEF stock, Traded
  <2> QED
    BY <1>1, <2>1, SMT DEF Tank
<1> HIDE DEF stock
<1>4. v \in Tank
  BY <1>1, <1>2, SMT DEF Tank
<1>5. v.inventory = stock /\ v.life = t.life /\ v.shield = t.shield /\ v.kills = t.kills
      /\ v.suicides = t.suicides /\ v.selweapon = t.selweapon
  BY <1>1 DEF Tank
<1> HIDE DEF v
<1>6. x \in Tank
  BY <1>4, SMT DEF Tank
<1>7. x.inventory = stock /\ x.life = t.life /\ x.shield = t.shield /\ x.kills = t.kills
      /\ x.suicides = t.suicides /\ x.selweapon = t.selweapon /\ x.money = money
  BY <1>4, <1>5 DEF Tank
<1> HIDE DEF x
<1>8. u \in Tank
  BY <1>3, <1>6, SMT DEF Tank
<1>9. u.inventory = stock /\ u.life = t.life /\ u.shield = t.shield /\ u.kills = t.kills
      /\ u.suicides = t.suicides /\ u.selweapon = t.selweapon /\ u.money = money
  BY <1>3, <1>6, <1>7 DEF Tank
<1>10. Endless(u)
  <2>1. Endless(t)
    BY DEF TankOf
  <2> QED
    BY <1>2, <1>9, <2>1, Catalogue DEF Endless
<1>11. u \in TankOf(p)
  <2>1. t.life <= FullLife(p) /\ SoundShield(t.shield)
    BY DEF TankOf
  <2> QED
    BY <1>8, <1>9, <1>10, <2>1 DEF TankOf
<1> QED
  BY <1>2, <1>9, <1>11
\* What fits into the inventory, and that a price is one.
LEMMA Purchases ==
    ASSUME NEW item \in Item, NEW have \in 0 .. MaxItems, NEW q,
           q = Quantity(have, Info[item].bundle)
    PROVE  /\ q \in Nat /\ have + q \in 0 .. MaxItems /\ PurchasePrice(item, q) \in Nat
           /\ item \in Weapon /\ Infinite(item) /\ have = MaxItems => q = 0
<1> DEFINE b == Info[item].bundle
           c == Info[item].price
<1>1. b \in Nat /\ c \in Nat /\ MaxItems \in Nat /\ have \in Nat
  BY Catalogue, Numbers
<1>2. q = IF have + b <= MaxItems THEN b ELSE MaxItems - have
  BY DEF Quantity
<1>3. q \in Nat /\ have + q \in 0 .. MaxItems
  <2> HIDE DEF b
  <2> QED
    BY <1>1, <1>2
<1>4. PurchasePrice(item, q) \in Nat
  <2>1. CASE q < b
    <3>1. b \in Nat \ {0}
      BY <1>1, <1>3, <2>1
    <3>2. UnitPrice(item) \in Nat
      BY <1>1, <3>1, Share DEF UnitPrice
    <3>3. UnitPrice(item) * q \in Nat
      BY <1>3, <3>2, Product
    <3> QED
      BY <2>1, <3>3, Percentages DEF PurchasePrice
  <2>2. CASE ~ (q < b)
    BY <1>1, <2>2 DEF PurchasePrice
  <2> QED
    BY <2>1, <2>2
<1>5. have = MaxItems => q = 0
  <2> HIDE DEF b
  <2> QED
    BY <1>1, <1>2
<1> QED
  BY <1>3, <1>4, <1>5

\* A purchase makes no money.
LEMMA Buying ==
    ASSUME NEW p \in Player, NEW t \in TankOf(p), NEW item \in Item, NEW budget,
           CanBuy(t, item, budget)
    PROVE  Shops(p, t, Buy(t, item))
<1> DEFINE have == t.inventory[item]
           q == Quantity(have, Info[item].bundle)
           cost == PurchasePrice(item, q)
           u == Buy(t, item)
           bits == t.ac_state \cup Info[item].state
<1>1. q # 0
  BY DEF CanBuy
<1>2. t \in Tank /\ t.inventory \in Stock /\ have \in 0 .. MaxItems /\ t.money \in Int
  BY DEF TankOf, Tank, Stock
<1>3. /\ q \in Nat /\ have + q \in 0 .. MaxItems /\ cost \in Nat
      /\ item \in Weapon /\ Infinite(item) /\ have = MaxItems => q = 0
  <2> HIDE DEF have
  <2> QED
    BY <1>2, Purchases
<1>4. ~ (item \in Weapon /\ Infinite(item))
  <2>1. item \in Weapon /\ Infinite(item) => have = MaxItems
    BY DEF TankOf, Endless
  <2> QED
    BY <1>1, <1>3, <2>1
<1>5. bits \in SUBSET StateBit
  BY <1>2, Catalogue DEF Tank
<1>6. u = Traded(t, item, have + q, t.money - cost, bits)
  <2>1. u = [t EXCEPT !.inventory[item] = @ + q, !.money = @ - cost,
                      !.ac_state = @ \cup Info[item].state]
    BY DEF Buy
  <2> HIDE DEF u, q, cost
  <2> QED
    BY <1>2, <2>1 DEF Tank, Traded
<1>7. t.money - cost \in Int
  BY <1>2, <1>3
<1> HIDE DEF bits, u, cost
<1>8. /\ u \in TankOf(p) /\ u.money = t.money - cost /\ u.kills = t.kills /\ u.suicides = t.suicides
      /\ u.inventory[item] = have + q
      /\ \A i \in Item : i # item => u.inventory[i] = t.inventory[i]
  <2> HIDE DEF q, have
  <2> DEFINE h == have + q
             m == t.money - cost
  <2>1. h \in 0 .. MaxItems /\ m \in Int /\ bits \in SUBSET StateBit
        /\ (item \in Weapon /\ Infinite(item) => h = MaxItems)
    BY <1>3, <1>4, <1>5, <1>7
  <2>2. u = Traded(t, item, h, m, bits)
    BY <1>6
  <2> HIDE DEF h, m
  <2>3. /\ u \in TankOf(p) /\ u.money = m /\ u.kills = t.kills /\ u.suicides = t.suicides
        /\ u.inventory[item] = h
        /\ \A i \in Item : i # item => u.inventory[i] = t.inventory[i]
    BY <2>1, <2>2, Trading
  <2> QED
    BY <2>3 DEF h, m
<1>9. ResaleOf(item, have + q) <= ResaleOf(item, have) + cost
  <2>1. CASE Infinite(item)
    <3>1. ResaleOf(item, have + q) = 0 /\ ResaleOf(item, have) = 0
      BY <2>1 DEF ResaleOf
    <3> QED
      BY <1>3, <3>1
  <2>2. CASE ~Infinite(item)
    <3> HIDE DEF have
    <3> QED
      BY <1>1, <1>2, <2>2, BuysDear DEF cost
  <2> QED
    BY <2>1, <2>2
<1>10. /\ Worth(t) \in Int
       /\ Worth(u) = Worth(t) + (u.money - t.money)
              + (ResaleOf(item, u.inventory[item]) - ResaleOf(item, t.inventory[item]))
  BY <1>8, WorthChange
<1>11. ResaleOf(item, have + q) \in Nat /\ ResaleOf(item, have) \in Nat
  BY <1>2, <1>3, Numbers, ResaleNat
<1>12. Worth(u) = Worth(t) + ((t.money - cost) - t.money)
              + (ResaleOf(item, have + q) - ResaleOf(item, have))
  BY <1>8, <1>10
<1> HIDE DEF have, q
<1>13. Worth(u) <= Worth(t)
  BY <1>2, <1>3, <1>9, <1>10, <1>11, <1>12
<1> QED
  BY <1>8, <1>13 DEF Shops, u

\* A sale makes no money.
LEMMA Selling ==
    ASSUME NEW p \in Player, NEW t \in TankOf(p), NEW item \in Item, CanSell(t, item)
    PROVE  Shops(p, t, Sell(t, item))
<1> DEFINE have == t.inventory[item]
           q == SaleQuantity(t, item)
           gain == SalePrice(item, q)
           u == Sell(t, item)
           bits == t.ac_state \ Info[item].state
<1>1. have > 0 /\ ~Infinite(item)
  BY DEF CanSell
<1>2. t \in Tank /\ t.inventory \in Stock /\ have \in 0 .. MaxItems /\ t.money \in Int
  BY DEF TankOf, Tank, Stock
<1>3. /\ q \in 0 .. have /\ gain \in Nat
      /\ ResaleOf(item, have) = ResaleOf(item, have - q) + gain
  <2>1. q = IF have > Info[item].bundle THEN Info[item].bundle ELSE have
    BY DEF SaleQuantity
  <2>2. have \in Nat
    BY <1>2, Numbers
  <2> HIDE DEF have, q
  <2> QED
    BY <1>1, <2>1, <2>2, SellsFairly
<1>5. bits \in SUBSET StateBit
  BY <1>2 DEF Tank
<1>6. u = Traded(t, item, have - q, t.money + gain, bits)
  <2>1. u = [t EXCEPT !.inventory[item] = @ - q, !.money = @ + gain,
                      !.ac_state = @ \ Info[item].state]
    BY DEF Sell
  <2> HIDE DEF u, q, gain
  <2> QED
    BY <1>2, <2>1 DEF Tank, Traded
<1> HIDE DEF bits, u, gain
<1>8. /\ u \in TankOf(p) /\ u.money = t.money + gain /\ u.kills = t.kills /\ u.suicides = t.suicides
      /\ u.inventory[item] = have - q
      /\ \A i \in Item : i # item => u.inventory[i] = t.inventory[i]
  <2> HIDE DEF q, have
  <2> DEFINE h == have - q
             m == t.money + gain
  <2>1. h \in 0 .. MaxItems /\ m \in Int /\ bits \in SUBSET StateBit
        /\ (item \in Weapon /\ Infinite(item) => h = MaxItems)
    BY <1>1, <1>2, <1>3, <1>5, Numbers
  <2>2. u = Traded(t, item, h, m, bits)
    BY <1>6
  <2> HIDE DEF h, m
  <2>3. /\ u \in TankOf(p) /\ u.money = m /\ u.kills = t.kills /\ u.suicides = t.suicides
        /\ u.inventory[item] = h
        /\ \A i \in Item : i # item => u.inventory[i] = t.inventory[i]
    BY <2>1, <2>2, Trading
  <2> QED
    BY <2>3 DEF h, m
<1>10. /\ Worth(t) \in Int
       /\ Worth(u) = Worth(t) + (u.money - t.money)
              + (ResaleOf(item, u.inventory[item]) - ResaleOf(item, t.inventory[item]))
  BY <1>8, WorthChange
<1>11. ResaleOf(item, have - q) \in Nat /\ ResaleOf(item, have) \in Nat
  <2>1. have - q \in Nat /\ have \in Nat
    <3> HIDE DEF have, q
    <3> QED
      BY <1>2, <1>3, Numbers
  <2> QED
    BY <2>1, ResaleNat
<1>12. Worth(u) = Worth(t) + ((t.money + gain) - t.money)
              + (ResaleOf(item, have - q) - ResaleOf(item, have))
  BY <1>8, <1>10
<1> HIDE DEF have, q
<1>13. Worth(u) <= Worth(t)
  BY <1>2, <1>3, <1>10, <1>11, <1>12
<1> QED
  BY <1>8, <1>13 DEF Shops, u

\* The stake of the lottery is added as far as it fits.
LEMMA Awarding ==
    ASSUME NEW p \in Player, NEW t \in TankOf(p), NEW w \in Weapon
    PROVE  Award(t, w) \in TankOf(p) /\ Award(t, w).kills = t.kills
           /\ Award(t, w).suicides = t.suicides /\ (Ready(t) => Ready(Award(t, w)))
<1> DEFINE have == t.inventory[w]
           q == Quantity(have, Info[w].bundle)
           u == Award(t, w)
<1>1. t \in Tank /\ t.inventory \in Stock /\ w \in Item /\ have \in 0 .. MaxItems
      /\ t.money \in Int /\ t.ac_state \in SUBSET StateBit /\ t.selweapon \in Item
  BY Catalogue DEF TankOf, Tank, Stock
<1>2. /\ q \in Nat /\ have + q \in 0 .. MaxItems
      /\ Infinite(w) /\ have = MaxItems => q = 0
  <2> HIDE DEF have
  <2> QED
    BY <1>1, Purchases
<1>3. Infinite(w) => have = MaxItems
  BY DEF TankOf, Endless
<1>4. u = Traded(t, w, have + q, t.money, t.ac_state)
  <2> DEFINE stock == [t.inventory EXCEPT ![w] = have + q]
  <2>1. u = [t EXCEPT !.inventory = stock]
    BY <1>1 DEF Award, Tank
  <2>2. Traded(t, w, have + q, t.money, t.ac_state)
            = [t EXCEPT !.inventory = stock, !.money = t.money, !.ac_state = t.ac_state]
    BY DEF Traded
  <2> HIDE DEF u, q, have, stock
  <2>3. u.money = t.money /\ u.ac_state = t.ac_state
    BY <1>1, <2>1 DEF Tank
  <2>4. Traded(t, w, have + q, t.money, t.ac_state)
            = [u EXCEPT !.money = t.money, !.ac_state = t.ac_state]
    BY <1>1, <2>1, <2>2, SMT DEF Tank
  <2>5. [u EXCEPT !.money = u.money, !.ac_state = u.ac_state] = u
    <3>1. u = [i \in DOMAIN u |-> u[i]]
      BY <1>1, <2>1 DEF Tank
    <3> QED
      BY <3>1
  <2> QED
    BY <2>3, <2>4, <2>5
<1> HIDE DEF u, q
<1>5. Infinite(w) => have + q = MaxItems
  BY <1>1, <1>2, <1>3, Numbers
<1>6. /\ u \in TankOf(p) /\ u.kills = t.kills /\ u.suicides = t.suicides
      /\ u.inventory[w] = have + q /\ u.selweapon = t.selweapon
      /\ \A i \in Item : i # w => u.inventory[i] = t.inventory[i]
  <2> HIDE DEF have
  <2> DEFINE h == have + q
             m == t.money
             bits == t.ac_state
  <2>1. h \in 0 .. MaxItems /\ m \in Int /\ bits \in SUBSET StateBit
        /\ (w \in Weapon /\ Infinite(w) => h = MaxItems)
    BY <1>1, <1>2, <1>5
  <2>2. u = Traded(t, w, h, m, bits)
    BY <1>4
  <2> HIDE DEF h, m, bits
  <2>3. /\ u \in TankOf(p) /\ u.kills = t.kills /\ u.suicides = t.suicides
        /\ u.inventory[w] = h /\ u.selweapon = t.selweapon
        /\ \A i \in Item : i # w => u.inventory[i] = t.inventory[i]
    BY <1>1, <2>1, <2>2, Trading
  <2> QED
    BY <2>3 DEF h
<1>7. Ready(t) => Ready(u)
  <2> SUFFICES ASSUME Ready(t) PROVE u.inventory[u.selweapon] > 0
    BY DEF Ready, Stocked
  <2>1. CASE t.selweapon = w
    BY <1>1, <1>2, <1>6, <2>1, Numbers DEF Ready, Stocked
  <2>2. CASE t.selweapon # w
    BY <1>1, <1>6, <2>2 DEF Ready, Stocked
  <2> QED
    BY <2>1, <2>2
<1> QED
  BY <1>6, <1>7 DEF u
\* A list is a function of its places.
LEMMA Lists ==
    ASSUME NEW n \in Nat, NEW V
    PROVE  /\ \A f \in [1 .. n -> V] : Len(f) = n
           /\ \A s \in Seq(V) : s \in [1 .. Len(s) -> V] /\ Len(s) \in Nat
  OBVIOUS

Places(n, V) == [1 .. n -> V]

\* Exchanging two places loses nothing.
LEMMA Exchanging ==
    ASSUME NEW n \in Nat, NEW V, NEW f \in Places(n, V), NEW i \in 1 .. n, NEW j \in 1 .. n
    PROVE  Exchanged(f, i, j) \in Places(n, V)
           /\ ElementsOf(Exchanged(f, i, j)) = ElementsOf(f)
<1> USE DEF Places
<1> DEFINE g == Exchanged(f, i, j)
<1>1. g \in [1 .. n -> V]
  BY DEF Exchanged
<1>2. \A k \in 1 .. n : g[k] = IF k = j THEN f[i] ELSE IF k = i THEN f[j] ELSE f[k]
  BY DEF Exchanged
<1>3. Len(f) = n /\ Len(g) = n
  <2> HIDE DEF g
  <2> QED
    BY <1>1, Lists
<1> HIDE DEF g
<1>4. ElementsOf(f) \subseteq ElementsOf(g)
  <2> SUFFICES ASSUME NEW k \in 1 .. n PROVE \E l \in 1 .. n : g[l] = f[k]
    BY <1>3 DEF ElementsOf
  <2>1. g[j] = f[i]
    BY <1>2
  <2>2. g[i] = f[j]
    BY <1>2
  <2>3. k # i /\ k # j => g[k] = f[k]
    BY <1>2
  <2> QED
    BY <2>1, <2>2, <2>3
<1>5. ElementsOf(g) \subseteq ElementsOf(f)
  <2> SUFFICES ASSUME NEW k \in 1 .. n PROVE \E l \in 1 .. n : f[l] = g[k]
    BY <1>3 DEF ElementsOf
  <2> QED
    BY <1>2
<1> QED
  BY <1>1, <1>4, <1>5 DEF g

\* The two loops of the sort.
LEMMA SortLoops ==
    ASSUME NEW seq, Len(seq) \in Nat, NEW outer \in Nat \ {0}, NEW score
    PROVE  /\ \E f : IsRun("Placed", seq, <<outer, score>>, outer - 1, f)
                     /\ Placed(seq, outer, score) = f[outer - 1]
           /\ \E f : IsRun("ExchangeSort", seq, score, Len(seq), f)
                     /\ ExchangeSort(seq, score) = f[Len(seq)]
<1> DEFINE R(f) == f = [k \in 0 .. outer - 1 |-> IF k = 0 THEN seq
                                                 ELSE Compared(f[k - 1], k, outer, score)]
           f == CHOOSE f : R(f)
           Q(h) == h = [k \in 0 .. Len(seq) |-> IF k = 0 THEN seq ELSE Placed(h[k - 1], k, score)]
           h == CHOOSE h : Q(h)
<1>1. \E g : IsRun("Placed", seq, <<outer, score>>, outer - 1, g)
  <2>1. outer - 1 \in Nat
    OBVIOUS
  <2> QED
    BY <2>1, Loops
<1>2. \E g : IsRun("ExchangeSort", seq, score, Len(seq), g)
  BY Loops
<1>3. \A g : R(g) <=> IsRun("Placed", seq, <<outer, score>>, outer - 1, g)
  BY DEF IsRun, Step
<1>4. \A g : Q(g) <=> IsRun("ExchangeSort", seq, score, Len(seq), g)
  BY DEF IsRun, Step
<1>5. R(f) /\ Q(h)
  BY <1>1, <1>2, <1>3, <1>4
<1>6. Placed(seq, outer, score) = f[outer - 1]
  BY DEF Placed
<1>7. ExchangeSort(seq, score) = h[Len(seq)]
  BY DEF ExchangeSort
<1> QED
  BY <1>3, <1>4, <1>5, <1>6, <1>7

\* Sorting loses nothing.
LEMMA Sorting ==
    ASSUME NEW n \in Nat, NEW V, NEW seq \in [1 .. n -> V], NEW score
    PROVE  /\ ExchangeSort(seq, score) \in [1 .. n -> V]
           /\ ElementsOf(ExchangeSort(seq, score)) = ElementsOf(seq)
<1> DEFINE I == {s \in [1 .. n -> V] : ElementsOf(s) = ElementsOf(seq)}
<1>0. \A g \in Places(n, V) : \A i \in 1 .. n : \A j \in 1 .. n :
          /\ Exchanged(g, i, j) \in Places(n, V)
          /\ ElementsOf(Exchanged(g, i, j)) = ElementsOf(g)
  BY Exchanging
<1>1. Len(seq) = n
  BY Lists
<1>2. ASSUME NEW s \in I, NEW outer \in 1 .. n PROVE Placed(s, outer, score) \in I
  <2>1. Len(s) = n
    BY Lists
  <2>2. outer \in Nat \ {0} /\ outer - 1 \in Nat
    OBVIOUS
  <2>3. PICK f : IsRun("Placed", s, <<outer, score>>, outer - 1, f)
                 /\ Placed(s, outer, score) = f[outer - 1]
    BY <2>1, <2>2, SortLoops
  <2>4. ASSUME NEW x \in I, NEW k \in 1 .. outer - 1
        PROVE  Step("Placed", x, k, <<outer, score>>) \in I
    <3>1. Step("Placed", x, k, <<outer, score>>) = Compared(x, k, outer, score)
      BY DEF Step
    <3>2. k \in 1 .. n
      OBVIOUS
    <3>3. Exchanged(x, k, outer) \in I
      <4>1. x \in [1 .. n -> V] /\ ElementsOf(x) = ElementsOf(seq)
        OBVIOUS
      <4>2. /\ Exchanged(x, k, outer) \in [1 .. n -> V]
            /\ ElementsOf(Exchanged(x, k, outer)) = ElementsOf(x)
        <5>1. outer \in 1 .. n
          OBVIOUS
        <5> HIDE DEF I
        <5> QED
          BY <1>0, <3>2, <4>1, <5>1 DEF Places
      <4> QED
        BY <4>1, <4>2
    <3> HIDE DEF I
    <3> QED
      BY <3>1, <3>3 DEF Compared
  <2>5. \A k \in 0 .. outer - 1 : f[k] \in I
    <3> HIDE DEF I
    <3> QED
      BY <2>2, <2>3, <2>4, LoopKeeps
  <2> QED
    BY <2>2, <2>3, <2>5
<1>3. PICK f : IsRun("ExchangeSort", seq, score, n, f) /\ ExchangeSort(seq, score) = f[n]
  <2>1. Len(seq) \in Nat /\ 1 \in Nat \ {0}
    BY <1>1
  <2> QED
    BY <1>1, <2>1, SortLoops
<1>4. ASSUME NEW x \in I, NEW k \in 1 .. n PROVE Step("ExchangeSort", x, k, score) \in I
  <2>1. Step("ExchangeSort", x, k, score) = Placed(x, k, score)
    BY DEF Step
  <2> QED
    BY <1>2, <2>1
<1>5. \A k \in 0 .. n : f[k] \in I
  <2>1. seq \in I
    OBVIOUS
  <2> HIDE DEF I
  <2> QED
    BY <1>3, <1>4, <2>1, LoopKeeps
<1> QED
  BY <1>3, <1>5

\* The lists the computer players go through are as long as the catalogue.
LEMMA ListLengths ==
    /\ Len(Weapons) \in Nat /\ Len(Accessories) \in Nat
    /\ Len(Reverse(Weapons)) \in Nat /\ Len(Reverse(Accessories)) \in Nat
    /\ \A score : Len(BestFirst(Weapons, score)) \in Nat
    /\ \A score : Len(BestFirst(Accessories, score)) \in Nat
<1>1. ASSUME NEW seq, Len(seq) \in Nat PROVE Len(Reverse(seq)) \in Nat
  <2>1. Reverse(seq) = [i \in 1 .. Len(seq) |-> seq[(Len(seq) - i) + 1]]
    BY DEF Reverse
  <2> QED
    BY <1>1, <2>1
<1>2. ASSUME NEW n \in Nat, NEW V, NEW seq \in [1 .. n -> V], NEW score
      PROVE  Len(BestFirst(seq, score)) \in Nat
  <2>1. Len(ExchangeSort(seq, score)) = n
    BY Sorting, Lists
  <2> QED
    BY <1>1, <2>1 DEF BestFirst
<1>3. Weapons \in Seq(Weapon) /\ Accessories \in Seq(Accessory)
  BY CatalogueAssumption
<1>4. /\ Weapons \in [1 .. Len(Weapons) -> Weapon] /\ Len(Weapons) \in Nat
      /\ Accessories \in [1 .. Len(Accessories) -> Accessory] /\ Len(Accessories) \in Nat
  BY <1>3, Lists
<1>5. \A score : Len(BestFirst(Weapons, score)) \in Nat
  BY <1>2, <1>4
<1>6. \A score : Len(BestFirst(Accessories, score)) \in Nat
  BY <1>2, <1>4
<1> QED
  BY <1>1, <1>4, <1>5, <1>6
\* A trip of a computer player with that tank.
Shopped(p, t) == {u \in TankOf(p) : Shops(p, t, u)}
Trips(p, t) == [pl : Shopped(p, t), budget : Int, done : BOOLEAN]

\* A purchase is made with the money there is.
LEMMA Purchasing ==
    ASSUME NEW p \in Player, NEW t \in TankOf(p), NEW x \in Trips(p, t), NEW item \in Item,
           CanBuy(x.pl, item, x.budget)
    PROVE  Purchase(x, item) \in Trips(p, t)
<1> DEFINE u == x.pl
<1>1. u \in TankOf(p) /\ Shops(p, t, u) /\ x.budget \in Int
  BY DEF Trips, Shopped
<1>2. Shops(p, u, Buy(u, item))
  BY <1>1, Buying
<1>3. Buy(u, item) \in Shopped(p, t)
  BY <1>1, <1>2, ShopsTwice DEF Shopped, Shops
<1>4. x.budget - Info[item].price \in Int
  BY <1>1, Catalogue
<1> QED
  BY <1>3, <1>4 DEF Purchase, Trips

\* The loop over the items of a list.
LEMMA BuyOneLoop ==
    ASSUME NEW x, NEW items, Len(items) \in Nat, NEW wanted
    PROVE  \E f : IsRun("BuyOne", [x EXCEPT !.done = FALSE], <<items, wanted>>, Len(items), f)
                  /\ BuyOne(x, items, wanted) = f[Len(items)]
<1> DEFINE n == Len(items)
           w == [x EXCEPT !.done = FALSE]
           R(f) == f = [k \in 0 .. n |-> IF k = 0 THEN w ELSE Tried(f[k - 1], items[k], wanted)]
           f == CHOOSE f : R(f)
<1>1. PICK g : IsRun("BuyOne", w, <<items, wanted>>, n, g)
  BY Loops
<1>2. \A h : R(h) <=> IsRun("BuyOne", w, <<items, wanted>>, n, h)
  BY DEF IsRun, Step
<1>3. R(f)
  BY <1>1, <1>2
<1>4. BuyOne(x, items, wanted) = f[n]
  BY DEF BuyOne
<1> QED
  BY <1>2, <1>3, <1>4

\* Buying one of what is wanted.
LEMMA BuyingOne ==
    ASSUME NEW p \in Player, NEW t \in TankOf(p), NEW x \in Trips(p, t),
           NEW items, Len(items) \in Nat, NEW wanted \in SUBSET Item
    PROVE  BuyOne(x, items, wanted) \in Trips(p, t)
<1> DEFINE n == Len(items)
           w == [x EXCEPT !.done = FALSE]
           T == Trips(p, t)
<1>1. PICK f : IsRun("BuyOne", w, <<items, wanted>>, n, f)
               /\ BuyOne(x, items, wanted) = f[n]
  BY BuyOneLoop
<1>2. w \in T
  BY DEF Trips
<1>3. ASSUME NEW y \in T, NEW k \in 1 .. n PROVE Step("BuyOne", y, k, <<items, wanted>>) \in T
  <2>1. Step("BuyOne", y, k, <<items, wanted>>) = Tried(y, items[k], wanted)
    BY DEF Step
  <2> DEFINE i == items[k]
  <2>2. i \in Item /\ CanBuy(y.pl, i, y.budget) => Purchase(y, i) \in T
    BY Purchasing
  <2>3. Tried(y, i, wanted) \in T
    BY <2>2 DEF Tried
  <2> QED
    BY <2>1, <2>3
<1>4. \A k \in 0 .. n : f[k] \in T
  <2> HIDE DEF w, T
  <2> QED
    BY <1>1, <1>2, <1>3, LoopKeeps
<1> QED
  BY <1>1, <1>4

\* The loop of one pass.
LEMMA OnePassLoop ==
    ASSUME NEW x, NEW items, Len(items) \in Nat, NEW wanted, NEW few, NEW pass
    PROVE  \E f : IsRun("OnePass", x, <<items, wanted, few, pass>>, Len(items), f)
                  /\ OnePass(x, items, wanted, few, pass) = f[Len(items)]
<1> DEFINE n == Len(items)
           d == <<items, wanted, few, pass>>
           R(f) == f = [k \in 0 .. n |-> IF k = 0 THEN x
                                        ELSE Taken(f[k - 1], items[k], wanted, few, pass)]
           f == CHOOSE f : R(f)
<1>1. PICK g : IsRun("OnePass", x, d, n, g)
  BY Loops
<1>2. \A h : R(h) <=> IsRun("OnePass", x, d, n, h)
  BY DEF IsRun, Step
<1>3. R(f)
  BY <1>1, <1>2
<1>4. OnePass(x, items, wanted, few, pass) = f[n]
  BY DEF OnePass
<1> QED
  BY <1>2, <1>3, <1>4

\* The loop over the passes.
LEMMA BuyAllLoop ==
    ASSUME NEW x, NEW items, NEW wanted, NEW few
    PROVE  \E f : IsRun("BuyAll", x, <<items, wanted, few>>, MaxOfWeapon, f)
                  /\ BuyAll(x, items, wanted, few) = f[MaxOfWeapon]
<1> DEFINE n == MaxOfWeapon
           d == <<items, wanted, few>>
           R(f) == f = [k \in 0 .. n |-> IF k = 0 THEN x
                                        ELSE OnePass(f[k - 1], items, wanted, few, k)]
           f == CHOOSE f : R(f)
<1>0. n \in Nat
  BY AiAssumption
<1>1. PICK g : IsRun("BuyAll", x, d, n, g)
  BY <1>0, Loops
<1>2. \A h : R(h) <=> IsRun("BuyAll", x, d, n, h)
  BY DEF IsRun, Step
<1>3. R(f)
  BY <1>1, <1>2
<1>4. BuyAll(x, items, wanted, few) = f[n]
  BY DEF BuyAll
<1> QED
  BY <1>2, <1>3, <1>4

\* Buying all of what is wanted, in several passes.
LEMMA BuyingAll ==
    ASSUME NEW p \in Player, NEW t \in TankOf(p), NEW x \in Trips(p, t),
           NEW items, Len(items) \in Nat, NEW wanted \in SUBSET Item, NEW few
    PROVE  BuyAll(x, items, wanted, few) \in Trips(p, t)
<1> DEFINE T == Trips(p, t)
           d == <<items, wanted, few>>
<1>1. ASSUME NEW y \in T, NEW pass PROVE OnePass(y, items, wanted, few, pass) \in T
  <2> DEFINE n == Len(items)
             e == <<items, wanted, few, pass>>
  <2>1. PICK f : IsRun("OnePass", y, e, n, f) /\ OnePass(y, items, wanted, few, pass) = f[n]
    BY OnePassLoop
  <2>2. ASSUME NEW z \in T, NEW k \in 1 .. n PROVE Step("OnePass", z, k, e) \in T
    <3>1. Step("OnePass", z, k, e) = Taken(z, items[k], wanted, few, pass)
      BY DEF Step
    <3> DEFINE i == items[k]
    <3>2. i \in Item /\ CanBuy(z.pl, i, z.budget) => Purchase(z, i) \in T
      BY Purchasing
    <3>3. Taken(z, i, wanted, few, pass) \in T
      BY <3>2 DEF Taken
    <3> QED
      BY <3>1, <3>3
  <2>3. \A k \in 0 .. n : f[k] \in T
    <3> HIDE DEF e, T
    <3> QED
      BY <1>1, <2>1, <2>2, LoopKeeps
  <2> QED
    BY <2>1, <2>3
<1>2. PICK f : IsRun("BuyAll", x, d, MaxOfWeapon, f)
               /\ BuyAll(x, items, wanted, few) = f[MaxOfWeapon]
  BY BuyAllLoop
<1>3. ASSUME NEW y \in T, NEW k \in 1 .. MaxOfWeapon PROVE Step("BuyAll", y, k, d) \in T
  <2>1. Step("BuyAll", y, k, d) = OnePass(y, items, wanted, few, k)
    BY DEF Step
  <2> QED
    BY <1>1, <2>1
<1>4. MaxOfWeapon \in Nat
  BY AiAssumption
<1>5. \A k \in 0 .. MaxOfWeapon : f[k] \in T
  <2> HIDE DEF d, T
  <2>1. x \in T
    BY DEF T
  <2> QED
    BY <1>2, <1>3, <1>4, <2>1, LoopKeeps
<1> QED
  BY <1>2, <1>4, <1>5
\* Amounts that are cut off are whole dollars.
LEMMA Quotients == ASSUME NEW a \in Int PROVE Quotient(a, 100) \in Int
  BY DEF Quotient

\* The budget of a round is an amount.
LEMMA Budgets ==
    ASSUME NEW t, t.money \in Int, NEW r \in Int, NEW i \in Nat
    PROVE  AiBudget(t, r, i) \in Int
<1> DEFINE rate == IF InterestRate > AiPercent THEN i ELSE AiPercent
           share == ((r + 1) * (100 - rate)) \div NumRounds
           percent == AtMostAll(rate + share)
<1>1. InterestRate \in Nat /\ AiPercent \in Nat /\ NumRounds \in Nat \ {0}
      /\ NoBudget \in BOOLEAN /\ ComputersBuy \in BOOLEAN
  BY AiAssumption
<1>2. rate \in Int
  BY <1>1
<1> HIDE DEF rate
<1>3. share \in Int
  <2>1. (r + 1) * (100 - rate) \in Int
    BY <1>2
  <2> QED
    BY <1>1, <2>1, DivMod
<1> HIDE DEF share
<1>4. percent \in Int
  BY <1>2, <1>3 DEF AtMostAll
<1> HIDE DEF percent
<1>5. t.money * percent \in Int /\ t.money * 75 \in Int
  BY <1>4
<1>6. AiBudget(t, r, i) = CASE NoBudget -> Quotient(t.money * 75, 100)
                            [] ~NoBudget /\ ComputersBuy -> Quotient(t.money * percent, 100)
                            [] OTHER -> 0
  BY DEF AiBudget, percent, share, rate
<1>7. Quotient(t.money * percent, 100) \in Int /\ Quotient(t.money * 75, 100) \in Int
  BY <1>5, Quotients
<1> QED
  BY <1>1, <1>6, <1>7

\* However a computer player shops, it makes no money.
LEMMA ComputersShopping ==
    ASSUME NEW p \in Player, NEW t \in TankOf(p), NEW type \in AiType, NEW r \in Int, NEW i \in Nat
    PROVE  Shops(p, t, AiShops(type, t, r, i))
<1> DEFINE T == Trips(p, t)
           trip == Trip(t, AiBudget(t, r, i))
           defended == BuyAutoDefense(BuyContactTriggers(trip))
           rich == WithBudget(trip, Quotient(t.money * 85, 100))
           ruthless == BuyWeaponsByScore(BuyContactTriggers(rich))
           last == BuyAutoDefense(WithBudget(ruthless, ruthless.pl.money))
<1>1. t.money \in Int
  BY DEF TankOf, Tank
<1>2. trip \in T
  <2>1. AiBudget(t, r, i) \in Int /\ t \in Shopped(p, t)
    BY <1>1, Budgets, ShopsTwice DEF Shopped
  <2> QED
    BY <2>1 DEF Trip, Trips
<1>3. \A state : Having(state) \in SUBSET Item
  BY Catalogue DEF Having
<1>4. \A x \in T : BuyAutoDefense(x) \in T
  BY <1>3, ListLengths, BuyingOne DEF BuyAutoDefense
<1>5. \A x \in T : BuyContactTriggers(x) \in T
  BY <1>3, ListLengths, BuyingOne DEF BuyContactTriggers
<1>6. \A x \in T : BuyLastShields(x) \in T
  BY <1>3, ListLengths, BuyingOne DEF BuyLastShields
<1>7. \A x \in T : BuyBestShields(x) \in T
  BY <1>3, ListLengths, BuyingOne DEF BuyBestShields
<1>8. \A x \in T : BuyBatteries(x) \in T
  BY <1>3, ListLengths, BuyingOne DEF BuyBatteries
<1>9. \A x \in T : BuyLastWeapons(x) \in T
  <2>1. {w \in Weapon : Yield[w].yield > 0} \in SUBSET Item
    BY Catalogue
  <2> QED
    BY <2>1, ListLengths, BuyingAll DEF BuyLastWeapons
<1>10. \A x \in T : \A items : Len(items) \in Nat => BuyWeaponsFrom(x, items) \in T
  <2>1. {w \in Weapon : Yield[w].yield # 0} \in SUBSET Item
    BY Catalogue
  <2> QED
    BY <2>1, BuyingAll DEF BuyWeaponsFrom
<1>11. \A x \in T : /\ BuyWeaponsByScore(x) \in T /\ BuyWeaponsByWeightedScore(x) \in T
                    /\ BuyPrecisionWeapons(x) \in T
  BY <1>10, ListLengths
     DEF BuyWeaponsByScore, BuyWeaponsByWeightedScore, BuyPrecisionWeapons
<1>12. \A x \in T, budget \in Int : WithBudget(x, budget) \in T
  BY DEF WithBudget, Trips
<1>13. \A x \in T : x.pl.money \in Int /\ Shops(p, t, x.pl)
  BY DEF Trips, Shopped, TankOf, Tank
<1> HIDE DEF T, trip
<1>14. defended \in T
  BY <1>2, <1>4, <1>5
<1>15. rich \in T
  <2>1. t.money * 85 \in Int
    BY <1>1
  <2>2. Quotient(t.money * 85, 100) \in Int
    BY <2>1, Quotients
  <2> QED
    BY <1>2, <1>12, <2>2
<1>16. ruthless \in T
  BY <1>5, <1>11, <1>15
<1> HIDE DEF defended, rich, ruthless
<1>17. last \in T
  BY <1>4, <1>12, <1>13, <1>16
<1> HIDE DEF last
<1>18. /\ BuyLastWeapons(BuyLastShields(defended)) \in T
       /\ BuyWeaponsByWeightedScore(BuyBestShields(defended)) \in T
       /\ BuyWeaponsByScore(BuyBestShields(defended)) \in T
       /\ BuyBatteries(BuyPrecisionWeapons(BuyBestShields(defended))) \in T
       /\ BuyBatteries(BuyBestShields(last)) \in T
  BY <1>6, <1>7, <1>8, <1>9, <1>11, <1>14, <1>17
<1>19. Shops(p, t, t)
  BY ShopsTwice
<1>20. AiShops(type, t, r, i)
           = CASE type \in {"RANDOM", "NETWORK"} -> t
               [] type = "MORON" -> BuyLastWeapons(BuyLastShields(defended)).pl
               [] type = "SHOOTER" -> BuyWeaponsByWeightedScore(BuyBestShields(defended)).pl
               [] type = "SPREADER" -> BuyWeaponsByScore(BuyBestShields(defended)).pl
               [] type \in {"CHOOSER", "CALCULATER"} ->
                      BuyBatteries(BuyPrecisionWeapons(BuyBestShields(defended))).pl
               [] type \in {"ANNIHILATER", "INSANITY"} -> BuyBatteries(BuyBestShields(last)).pl
  BY DEF AiShops, defended, rich, ruthless, last, trip
<1>21. CASE type \in {"RANDOM", "NETWORK"}
  BY <1>19, <1>20, <1>21
<1>22. CASE type = "MORON"
  BY <1>13, <1>18, <1>20, <1>22
<1>23. CASE type = "SHOOTER"
  BY <1>13, <1>18, <1>20, <1>23
<1>24. CASE type = "SPREADER"
  BY <1>13, <1>18, <1>20, <1>24
<1>25. CASE type \in {"CHOOSER", "CALCULATER"}
  BY <1>13, <1>18, <1>20, <1>25
<1>26. CASE type \in {"ANNIHILATER", "INSANITY"}
  BY <1>13, <1>18, <1>20, <1>26
<1> QED
  BY <1>21, <1>22, <1>23, <1>24, <1>25, <1>26 DEF AiType
-----------------------------------------------------------------------------
(* Hits and explosions.                                                    *)

Tanks == {f \in [Player -> Tank] : \A p \in Player : f[p] \in TankOf(p)}

\* The sum over the players.
LEMMA CreditsLoop ==
    ASSUME NEW tanks
    PROVE  \E f : IsRun("Credits", 0, tanks, N, f) /\ Credits(tanks) = f[N]
<1> DEFINE R(f) == f = [k \in 0 .. N |-> IF k = 0 THEN 0
                                        ELSE f[k - 1] + tanks[k - 1].kills + tanks[k - 1].suicides]
           f == CHOOSE f : R(f)
<1>1. PICK g : IsRun("Credits", 0, tanks, N, g)
  BY Numbers, Loops
<1>2. \A h : R(h) <=> IsRun("Credits", 0, tanks, N, h)
  BY DEF IsRun, Step
<1>3. R(f)
  BY <1>1, <1>2
<1>4. Credits(tanks) = f[N]
  BY DEF Credits
<1> QED
  BY <1>2, <1>3, <1>4

\* When the credit of one player changes, so does the sum, by as much.
LEMMA CreditsChange ==
    ASSUME NEW old \in Tanks, NEW new \in Tanks, NEW p \in Player, NEW n \in Nat,
           \A q \in Player : q # p => /\ new[q].kills = old[q].kills
                                      /\ new[q].suicides = old[q].suicides,
           new[p].kills + new[p].suicides = old[p].kills + old[p].suicides + n
    PROVE  Credits(old) \in Nat /\ Credits(new) = Credits(old) + n
<1>1. PICK f : IsRun("Credits", 0, old, N, f) /\ Credits(old) = f[N]
  BY CreditsLoop
<1>2. PICK g : IsRun("Credits", 0, new, N, g) /\ Credits(new) = g[N]
  BY CreditsLoop
<1>3. \A q \in Player : /\ old[q].kills \in Nat /\ old[q].suicides \in Nat
                        /\ new[q].kills \in Nat /\ new[q].suicides \in Nat
  BY DEF Tanks, TankOf, Tank
<1>4. f[0] = 0 /\ g[0] = 0
  BY <1>1, <1>2, Numbers DEF IsRun
<1>5. \A k \in 1 .. N : /\ f[k] = f[k - 1] + old[k - 1].kills + old[k - 1].suicides
                        /\ g[k] = g[k - 1] + new[k - 1].kills + new[k - 1].suicides
  <2> TAKE k \in 1 .. N
  <2>1. f[k] = Step("Credits", f[k - 1], k, old) /\ g[k] = Step("Credits", g[k - 1], k, new)
    <3>1. k \in 0 .. N /\ k # 0
      BY Numbers
    <3> QED
      BY <1>1, <1>2, <3>1 DEF IsRun
  <2> QED
    BY <2>1 DEF Step
<1> DEFINE S == {k \in Nat : k \in 0 .. N => /\ f[k] \in Nat /\ g[k] \in Nat
                                             /\ g[k] = f[k] + IF k > p THEN n ELSE 0}
<1>6. 0 \in S
  BY <1>4, Numbers DEF Player
<1>7. ASSUME NEW k \in Nat, k \in S PROVE k + 1 \in S
  <2> SUFFICES ASSUME k + 1 \in 0 .. N
               PROVE  /\ f[k + 1] \in Nat /\ g[k + 1] \in Nat
                      /\ g[k + 1] = f[k + 1] + IF k + 1 > p THEN n ELSE 0
    OBVIOUS
  <2>1. /\ k + 1 \in 1 .. N /\ (k + 1) - 1 = k /\ k \in Player /\ p \in Nat
        /\ f[k] \in Nat /\ g[k] \in Nat
        /\ g[k] = f[k] + IF k > p THEN n ELSE 0
    BY <1>7, Numbers DEF Player
  <2>2. /\ f[k + 1] = f[k] + old[k].kills + old[k].suicides
        /\ g[k + 1] = g[k] + new[k].kills + new[k].suicides
    BY <1>5, <2>1
  <2>3. /\ old[k].kills \in Nat /\ old[k].suicides \in Nat
        /\ new[k].kills \in Nat /\ new[k].suicides \in Nat
    BY <1>3, <2>1
  <2>4. new[k].kills + new[k].suicides
            = old[k].kills + old[k].suicides + IF k = p THEN n ELSE 0
    BY <2>1, <2>3
  <2>5. (k + 1 > p <=> k > p \/ k = p) /\ (k = p => ~ (k > p))
    BY <2>1
  <2>6. CASE k = p
    <3>1. new[k].kills + new[k].suicides = old[k].kills + old[k].suicides + n /\ g[k] = f[k]
      BY <2>1, <2>4, <2>5, <2>6
    <3>2. g[k + 1] = f[k + 1] + n
      BY <2>1, <2>2, <2>3, <3>1
    <3> QED
      BY <2>1, <2>2, <2>3, <2>5, <2>6, <3>2
  <2>7. CASE k # p
    <3>1. new[k].kills + new[k].suicides = old[k].kills + old[k].suicides
      BY <2>3, <2>4, <2>7
    <3>2. CASE k > p
      BY <2>1, <2>2, <2>3, <2>5, <3>1, <3>2
    <3>3. CASE ~ (k > p)
      BY <2>1, <2>2, <2>3, <2>5, <2>7, <3>1, <3>3
    <3> QED
      BY <3>2, <3>3
  <2> QED
    BY <2>6, <2>7
<1>8. Nat \subseteq S
  <2> HIDE DEF S
  <2> QED
    BY <1>6, <1>7, Induction
<1>9. N \in S /\ N \in 0 .. N /\ N > p
  BY <1>8, Numbers DEF Player
<1> QED
  BY <1>1, <1>2, <1>9

Bystander(t, u) ==
    /\ u.life = t.life /\ u.shield = t.shield /\ u.inventory = t.inventory
    /\ u.ac_state = t.ac_state /\ u.selweapon = t.selweapon

\* What hits player p costs others no life, and adds n to the credit.
Touches(p, n, x, y) ==
    /\ y \in Tanks
    /\ \A q \in Player \ {p} : Bystander(x[q], y[q])
    /\ \A q \in Player : Ready(x[q]) => Ready(y[q])
    /\ Credits(x) \in Nat /\ Credits(y) = Credits(x) + n

\* One hit and another make one; one of player p, or of a bystander, is one.
LEMMA Touching ==
    ASSUME NEW p \in Player, NEW x \in Tanks
    PROVE  /\ Touches(p, 0, x, x)
           /\ \A m, n \in Nat : \A y, z : Touches(p, m, x, y) /\ Touches(p, n, y, z)
                                             => Touches(p, m + n, x, z)
           /\ \A n \in Nat : \A o \in Player : \A u \in TankOf(o) :
                  /\ o = p \/ Bystander(x[o], u)
                  /\ Ready(x[o]) => Ready(u)
                  /\ u.kills + u.suicides = x[o].kills + x[o].suicides + n
                  => Touches(p, n, x, [x EXCEPT ![o] = u])
<1>1. Touches(p, 0, x, x)
  <2>1. x[p].kills + x[p].suicides = x[p].kills + x[p].suicides + 0
    BY DEF Tanks, TankOf, Tank
  <2>2. Credits(x) \in Nat /\ Credits(x) = Credits(x) + 0
    BY <2>1, CreditsChange
  <2> QED
    BY <2>2 DEF Touches, Bystander
<1>2. ASSUME NEW m \in Nat, NEW n \in Nat, NEW y, NEW z, Touches(p, m, x, y), Touches(p, n, y, z)
      PROVE  Touches(p, m + n, x, z)
  BY <1>2 DEF Touches, Bystander
<1>3. ASSUME NEW n \in Nat, NEW o \in Player, NEW u \in TankOf(o),
             o = p \/ Bystander(x[o], u), Ready(x[o]) => Ready(u),
             u.kills + u.suicides = x[o].kills + x[o].suicides + n
      PROVE  Touches(p, n, x, [x EXCEPT ![o] = u])
  <2> DEFINE y == [x EXCEPT ![o] = u]
  <2>1. x \in [Player -> Tank] /\ u \in Tank /\ \A q \in Player : x[q] \in TankOf(q)
    BY DEF Tanks, TankOf
  <2>2. y[o] = u /\ \A q \in Player : q # o => y[q] = x[q]
    BY <2>1
  <2>3. y \in Tanks
    BY <2>1, <2>2 DEF Tanks
  <2> HIDE DEF y
  <2>4. Credits(x) \in Nat /\ Credits(y) = Credits(x) + n
    <3>1. \A q \in Player : q # o => y[q].kills = x[q].kills /\ y[q].suicides = x[q].suicides
      BY <2>2
    <3>2. y[o].kills + y[o].suicides = x[o].kills + x[o].suicides + n
      BY <1>3, <2>2
    <3> QED
      BY <2>3, <3>1, <3>2, CreditsChange
  <2>5. \A q \in Player \ {p} : Bystander(x[q], y[q])
    BY <1>3, <2>2 DEF Bystander
  <2>6. \A q \in Player : Ready(x[q]) => Ready(y[q])
    BY <1>3, <2>2
  <2>7. Touches(p, n, x, y)
    BY <2>3, <2>4, <2>5, <2>6 DEF Touches
  <2> QED
    BY <2>7 DEF y
<1> QED
  BY <1>1, <1>2, <1>3
\* Scores are numbers.
LEMMA Scores ==
    /\ Scoring.damagebonus \in Nat /\ Scoring.damageloss \in Nat /\ Scoring.deathloss \in Nat
    /\ Scoring.killbonus \in Nat /\ Scoring.suicideloss \in Nat /\ Scoring.survivalbonus \in Nat
  BY EquipmentAssumption

\* Money changes hands and nothing else.
LEMMA Paying ==
    ASSUME NEW p \in Player, NEW t \in TankOf(p), NEW n \in Nat, NEW u \in {Charged(t, n), Paid(t, n)}
    PROVE  /\ u \in TankOf(p) /\ Bystander(t, u) /\ u.kills = t.kills /\ u.suicides = t.suicides
           /\ (Ready(t) => Ready(u))
<1>1. t \in Tank /\ t.money \in Int
  BY DEF TankOf, Tank
<1>2. PICK money \in Int : u = [t EXCEPT !.money = money]
  <2>1. t.money - n \in Int /\ t.money + n \in Int
    BY <1>1
  <2>2. Charged(t, n) = [t EXCEPT !.money = t.money - n] /\ Paid(t, n) = [t EXCEPT !.money = t.money + n]
    BY <1>1 DEF Charged, Paid, Tank
  <2> QED
    BY <2>1, <2>2
<1>3. u \in Tank
  BY <1>1, <1>2, SMT DEF Tank
<1>4. Bystander(t, u) /\ u.kills = t.kills /\ u.suicides = t.suicides
  BY <1>1, <1>2 DEF Bystander, Tank
<1>5. u \in TankOf(p)
  BY <1>3, <1>4 DEF TankOf, Endless, Bystander
<1> QED
  BY <1>4, <1>5 DEF Bystander, Ready, Stocked

\* A shield takes what it can and falls.
LEMMA Draining ==
    ASSUME NEW p \in Player, NEW t \in TankOf(p), NEW drain \in Nat
    PROVE  LET u == Drained(t, drain)
           IN  /\ u \in TankOf(p) /\ u.kills = t.kills /\ u.suicides = t.suicides
               /\ u.life = t.life /\ u.inventory = t.inventory /\ u.ac_state = t.ac_state
               /\ u.selweapon = t.selweapon /\ (Ready(t) => Ready(u))
<1> DEFINE u == Drained(t, drain)
<1>1. t \in Tank /\ t.shield \in Shield /\ SoundShield(t.shield)
  BY DEF TankOf, Tank
<1>2. PICK s \in Shield : SoundShield(s) /\ u = [t EXCEPT !.shield = s]
  <2>1. CASE t.shield.life > drain
    <3> DEFINE s == [t.shield EXCEPT !.life = @ - drain]
    <3>1. t.shield # NoShield
      BY <2>1 DEF NoShield
    <3>2. t.shield \in [info : Accessory, life : Nat] /\ Is(t.shield.info, "SHIELD")
          /\ t.shield.life \in 1 .. Info[t.shield.info].shield
      BY <1>1, <3>1 DEF Shield, SoundShield
    <3>3. t.shield.life - drain \in Nat /\ Info[t.shield.info].shield \in Nat
      BY <2>1, <3>2, Catalogue
    <3>4. s \in [info : Accessory, life : Nat] /\ s.info = t.shield.info
          /\ s.life = t.shield.life - drain
      BY <3>2, <3>3
    <3>5. s \in Shield /\ SoundShield(s)
      BY <2>1, <3>2, <3>3, <3>4 DEF Shield, SoundShield
    <3>6. u = [t EXCEPT !.shield = s]
      BY <1>1, <2>1 DEF Drained, Tank
    <3> HIDE DEF s, u
    <3> QED
      BY <3>5, <3>6
  <2>2. CASE ~ (t.shield.life > drain)
    <3>1. u = [t EXCEPT !.shield = NoShield]
      BY <2>2 DEF Drained
    <3>2. NoShield \in Shield /\ SoundShield(NoShield)
      BY DEF Shield, SoundShield
    <3> HIDE DEF u
    <3> QED
      BY <3>1, <3>2
  <2> QED
    BY <2>1, <2>2
<1> HIDE DEF u
<1>3. u \in Tank
  BY <1>1, <1>2, SMT DEF Tank
<1>4. /\ u.kills = t.kills /\ u.suicides = t.suicides /\ u.shield = s
      /\ u.life = t.life /\ u.inventory = t.inventory /\ u.ac_state = t.ac_state
      /\ u.selweapon = t.selweapon
  BY <1>1, <1>2 DEF Tank
<1>5. u \in TankOf(p)
  BY <1>2, <1>3, <1>4 DEF TankOf, Endless
<1>6. Ready(t) => Ready(u)
  BY <1>4 DEF Ready, Stocked
<1> QED
  BY <1>4, <1>5, <1>6 DEF u

\* A tank that is out of life.
LEMMA Falling ==
    ASSUME NEW p \in Player, NEW t \in TankOf(p), NEW owner \in Player, NEW life \in Int,
           NEW loss \in Nat
    PROVE  LET u == Fallen(Charged([t EXCEPT !.life = life], loss), owner)
           IN  /\ u \in TankOf(p) /\ u.life = 0 /\ u.kills = t.kills /\ u.suicides = t.suicides
               /\ u.inventory = t.inventory /\ u.selweapon = t.selweapon
               /\ (Ready(t) => Ready(u))
<1> DEFINE money == t.money - loss
           v == [t EXCEPT !.money = money]
           x == [v EXCEPT !.life = 0]
           u == Fallen(Charged([t EXCEPT !.life = life], loss), owner)
<1>1. t \in Tank /\ money \in Int
  BY DEF TankOf, Tank
<1>2. u = [x EXCEPT !.killedby = owner]
  <2>1. Charged([t EXCEPT !.life = life], loss) = [t EXCEPT !.life = life, !.money = money]
    BY <1>1, SMT DEF Charged, Tank
  <2>2. u = [[t EXCEPT !.life = life, !.money = money] EXCEPT !.life = 0, !.killedby = owner]
    BY <2>1 DEF Fallen
  <2> HIDE DEF money, u
  <2>3. t = [i \in DOMAIN t |-> t[i]]
    BY <1>1 DEF Tank
  <2>4. [[t EXCEPT !.life = life, !.money = money] EXCEPT !.life = 0, !.killedby = owner]
            = [[[t EXCEPT !.money = money] EXCEPT !.life = 0] EXCEPT !.killedby = owner]
    BY <2>3
  <2> QED
    BY <2>2, <2>4
<1> HIDE DEF u, money
<1>3. v \in Tank
  BY <1>1, SMT DEF Tank
<1>4. /\ v.kills = t.kills /\ v.suicides = t.suicides /\ v.inventory = t.inventory
      /\ v.selweapon = t.selweapon /\ v.shield = t.shield
  BY <1>1 DEF Tank
<1> HIDE DEF v
<1>5. x \in Tank
  BY <1>3, SMT DEF Tank
<1>6. /\ x.kills = t.kills /\ x.suicides = t.suicides /\ x.inventory = t.inventory
      /\ x.selweapon = t.selweapon /\ x.shield = t.shield /\ x.life = 0
  BY <1>3, <1>4 DEF Tank
<1> HIDE DEF x
<1>7. u \in Tank
  <2>1. owner \in -1 .. N - 1
    BY Numbers DEF Player
  <2> QED
    BY <1>2, <1>5, <2>1, SMT DEF Tank
<1>8. /\ u.kills = t.kills /\ u.suicides = t.suicides /\ u.inventory = t.inventory
      /\ u.selweapon = t.selweapon /\ u.shield = t.shield /\ u.life = 0
  BY <1>2, <1>5, <1>6 DEF Tank
<1>9. u \in TankOf(p)
  BY <1>7, <1>8, Numbers DEF TankOf, Endless
<1>10. Ready(t) => Ready(u)
  BY <1>8 DEF Ready, Stocked
<1> QED
  BY <1>8, <1>9, <1>10 DEF u

\* Credit for a kill, or for a suicide.
LEMMA Crediting ==
    ASSUME NEW p \in Player, NEW t \in TankOf(p), NEW n \in Nat,
           NEW u \in {Blamed(t, n), Credited(t, n)}
    PROVE  /\ u \in TankOf(p) /\ Bystander(t, u) /\ (Ready(t) => Ready(u))
           /\ u.kills + u.suicides = t.kills + t.suicides + 1
<1> USE DEF Blamed, Credited
<1>1. CASE u = [Charged(t, n) EXCEPT !.suicides = @ + 1]
  <2> DEFINE v == Charged(t, n)
             credit == v.suicides + 1
  <2>1. v \in TankOf(p) /\ Bystander(t, v) /\ v.kills = t.kills /\ v.suicides = t.suicides
    BY Paying
  <2> HIDE DEF v
  <2>2. v \in Tank /\ v.kills \in Nat /\ v.suicides \in Nat /\ credit \in Nat
    BY <2>1 DEF TankOf, Tank
  <2>3. u = [v EXCEPT !.suicides = credit]
    BY <1>1, <2>2 DEF v, Tank
  <2> HIDE DEF credit
  <2>4. u \in Tank
    BY <2>2, <2>3, SMT DEF Tank
  <2>5. Bystander(v, u) /\ u.kills = v.kills /\ u.suicides = credit
    BY <2>2, <2>3 DEF Tank, Bystander
  <2>6. u \in TankOf(p)
    BY <2>1, <2>4, <2>5 DEF TankOf, Endless, Bystander
  <2> QED
    BY <2>1, <2>2, <2>5, <2>6 DEF Bystander, Ready, Stocked, credit
<1>2. CASE u = [Paid(t, n) EXCEPT !.kills = @ + 1]
  <2> DEFINE v == Paid(t, n)
             credit == v.kills + 1
  <2>1. v \in TankOf(p) /\ Bystander(t, v) /\ v.kills = t.kills /\ v.suicides = t.suicides
    BY Paying
  <2> HIDE DEF v
  <2>2. v \in Tank /\ v.kills \in Nat /\ v.suicides \in Nat /\ credit \in Nat
    BY <2>1 DEF TankOf, Tank
  <2>3. u = [v EXCEPT !.kills = credit]
    BY <1>2, <2>2 DEF v, Tank
  <2> HIDE DEF credit
  <2>4. u \in Tank
    BY <2>2, <2>3, SMT DEF Tank
  <2>5. Bystander(v, u) /\ u.kills = credit /\ u.suicides = v.suicides
    BY <2>2, <2>3 DEF Tank, Bystander
  <2>6. u \in TankOf(p)
    BY <2>1, <2>4, <2>5 DEF TankOf, Endless, Bystander
  <2> QED
    BY <2>1, <2>2, <2>5, <2>6 DEF Bystander, Ready, Stocked, credit
<1> QED
  BY <1>1, <1>2
\* One more death, or none.
Deaths01(x, y, p) == IF x[p].life > 0 /\ y[p].life = 0 THEN 1 ELSE 0

\* What a hit on a tank does: others lose no life, somebody is credited
\* with the death if there is one, and auto defense raises a shield.
Hits(p, x, y) ==
    /\ Touches(p, Deaths01(x, y, p), x, y)
    /\ /\ 0 < y[p].life /\ y[p].life < x[p].life
       /\ "AUTO_DEF" \in x[p].ac_state /\ InStock(x[p]) # {}
       => y[p].shield # NoShield

\* The owner of an explosion that hits somebody else is paid.
LEMMA Bonus ==
    ASSUME NEW p \in Player, NEW owner \in Player, NEW x \in Tanks, NEW n \in Nat
    PROVE  LET y == IF owner = p THEN x ELSE [x EXCEPT ![owner] = Paid(@, n)]
           IN  Touches(p, 0, x, y) /\ y[p] = x[p]
<1>1. CASE owner = p
  BY <1>1, Touching
<1>2. CASE owner # p
  <2> DEFINE u == Paid(x[owner], n)
             y == [x EXCEPT ![owner] = u]
  <2>1. x \in [Player -> Tank] /\ x[owner] \in TankOf(owner)
    BY DEF Tanks
  <2>2. /\ u \in TankOf(owner) /\ Bystander(x[owner], u) /\ (Ready(x[owner]) => Ready(u))
        /\ u.kills = x[owner].kills /\ u.suicides = x[owner].suicides
    BY <2>1, Paying
  <2>3. u.kills + u.suicides = x[owner].kills + x[owner].suicides + 0
    BY <2>1, <2>2 DEF TankOf, Tank
  <2> HIDE DEF u
  <2>4. Touches(p, 0, x, y)
    BY <2>2, <2>3, Touching
  <2>5. y[p] = x[p]
    BY <1>2, <2>1
  <2>6. y = [x EXCEPT ![owner] = Paid(@, n)]
    BY <2>1 DEF u
  <2> QED
    BY <1>2, <2>4, <2>5, <2>6
<1> QED
  BY <1>1, <1>2

\* A hit on the hull of a living tank.
LEMMA HittingHull ==
    ASSUME NEW p \in Player, NEW owner \in Player, NEW x \in Tanks, NEW rest \in Nat,
           x[p].life > 0
    PROVE  Hits(p, x, HullHit(x, p, owner, rest))
<1> DEFINE t == x[p]
           life == t.life - rest * NormalHardness
           hit == [t EXCEPT !.life = life]
           loss == Scoring.damageloss
           y == HullHit(x, p, owner, rest)
<1>1. /\ x \in [Player -> Tank] /\ t \in TankOf(p) /\ t \in Tank /\ t.life \in Nat
      /\ t.life <= FullLife(p) /\ FullLife(p) \in Nat
  BY Numbers DEF Tanks, TankOf, Tank
<1>2. life \in Int /\ life <= t.life
  <2>1. rest * NormalHardness \in Nat
    BY Numbers, Product
  <2> QED
    BY <1>1, <2>1
<1>3. hit = [t EXCEPT !.life = @ - rest * NormalHardness] /\ hit.life = life
  BY <1>1 DEF Tank
<1> HIDE DEF hit, life
<1>4. CASE life > 0
  <2> DEFINE hurt == ActivateAutoShield(hit)
             c == Charged(hurt, loss)
             z == [x EXCEPT ![p] = c]
  <2>1. hit \in TankOf(p) /\ hit.kills = t.kills /\ hit.suicides = t.suicides
        /\ hit.inventory = t.inventory /\ hit.ac_state = t.ac_state /\ hit.selweapon = t.selweapon
    <3>1. life \in Nat /\ life <= FullLife(p)
      BY <1>1, <1>2, <1>4
    <3>2. hit \in Tank
      BY <1>1, <3>1, SMT DEF hit, Tank
    <3>3. hit.kills = t.kills /\ hit.suicides = t.suicides /\ hit.shield = t.shield
          /\ hit.inventory = t.inventory /\ hit.ac_state = t.ac_state
          /\ hit.selweapon = t.selweapon
      BY <1>1 DEF hit, Tank
    <3> QED
      BY <1>1, <1>3, <3>1, <3>2, <3>3 DEF TankOf, Endless
  <2>2. /\ Outfits(p, hit, hurt) /\ hurt \in TankOf(p)
        /\ "AUTO_DEF" \in hit.ac_state /\ InStock(hit) # {} => hurt.shield # NoShield
    BY <2>1, RaisingAuto DEF Outfits
  <2>3. Acts(p, hit, hurt)
    BY <2>1, <2>2, ActsTwice
  <2> HIDE DEF hurt
  <2>4. /\ c \in TankOf(p) /\ Bystander(hurt, c) /\ c.kills = hurt.kills /\ c.suicides = hurt.suicides
        /\ (Ready(hurt) => Ready(c))
    BY <2>2, Scores, Paying
  <2> HIDE DEF c
  <2>5. c.life >= life /\ c.life > 0 /\ c.kills = t.kills /\ c.suicides = t.suicides
        /\ (Ready(t) => Ready(c))
    <3>1. c.life = hurt.life /\ hit.life <= hurt.life /\ hurt.life \in Nat
      BY <2>2, <2>4 DEF Outfits, Bystander, TankOf, Tank
    <3>2. c.kills = t.kills /\ c.suicides = t.suicides
      BY <2>1, <2>3, <2>4 DEF Acts
    <3>3. Ready(t) => Ready(hit)
      BY <2>1 DEF Ready, Stocked
    <3> QED
      BY <1>2, <1>3, <1>4, <2>3, <2>4, <3>1, <3>2, <3>3 DEF Acts
  <2>6. "AUTO_DEF" \in t.ac_state /\ InStock(t) # {} => c.shield # NoShield
    BY <2>1, <2>2, <2>4 DEF Bystander, InStock, Stocked
  <2>7. Touches(p, 0, x, z) /\ z \in Tanks
    <3>1. c.kills + c.suicides = t.kills + t.suicides + 0
      BY <1>1, <2>5 DEF Tank
    <3>2. Touches(p, 0, x, z)
      BY <2>4, <2>5, <3>1, Touching
    <3> QED
      BY <3>2 DEF Touches
  <2>8. z[p] = c
    BY <1>1
  <2>9. y = IF owner = p THEN z ELSE [z EXCEPT ![owner] = Paid(@, Scoring.damagebonus)]
    <3>1. hit.life > 0
      BY <1>3, <1>4
    <3> QED
      BY <1>3, <3>1 DEF HullHit, hurt, c
  <2> HIDE DEF z, y
  <2>10. Touches(p, 0, z, y) /\ y[p] = c
    BY <2>7, <2>8, <2>9, Scores, Bonus
  <2>11. Touches(p, 0, x, y)
    <3>1. Touches(p, 0 + 0, x, y)
      BY <2>7, <2>10, Touching
    <3> QED
      BY <3>1
  <2>12. Deaths01(x, y, p) = 0
    BY <2>5, <2>10, <1>2 DEF Deaths01
  <2> QED
    BY <2>6, <2>10, <2>11, <2>12 DEF Hits, y
<1>5. CASE ~ (life > 0)
  <2> DEFINE c == Charged(hit, loss)
             f == Fallen(c, owner)
             s == [x EXCEPT ![p] = f]
             bonus == Scoring.damagebonus
  <2>1. /\ f \in TankOf(p) /\ f.life = 0 /\ f.kills = t.kills /\ f.suicides = t.suicides
        /\ (Ready(t) => Ready(f))
    BY <1>1, <1>2, Scores, Falling DEF hit
  <2>2. y = LET d == Destroyed([x EXCEPT ![p] = c], p, owner)
            IN  IF owner = p THEN d ELSE [d EXCEPT ![owner] = Paid(@, bonus)]
    <3>1. ~ (hit.life > 0)
      BY <1>3, <1>5
    <3> QED
      BY <1>3, <3>1 DEF HullHit
  <2>3. s = [[x EXCEPT ![p] = c] EXCEPT ![p] = Fallen(@, owner)]
    <3> HIDE DEF c
    <3> QED
      BY <1>1
  <2> DEFINE d == IF owner = p
                  THEN [s EXCEPT ![p] = Blamed(@, Scoring.suicideloss)]
                  ELSE [s EXCEPT ![owner] = Credited(@, Scoring.killbonus)]
  <2>4. y = IF owner = p THEN d ELSE [d EXCEPT ![owner] = Paid(@, bonus)]
    <3> HIDE DEF y, s, c
    <3> QED
      BY <2>2, <2>3 DEF Destroyed
  <2> HIDE DEF y, f
  <2>5. Touches(p, 0, x, s) /\ s \in Tanks /\ s \in [Player -> Tank] /\ s[p] = f
    <3>1. f.kills + f.suicides = t.kills + t.suicides + 0
      BY <1>1, <2>1 DEF Tank
    <3>2. Touches(p, 0, x, s)
      BY <2>1, <3>1, Touching
    <3> QED
      BY <1>1, <3>2 DEF Touches, Tanks
  <2> HIDE DEF s
  <2>6. Touches(p, 1, s, d) /\ d \in Tanks /\ d[p].life = 0
    <3>1. CASE owner = p
      <4> DEFINE u == Blamed(s[p], Scoring.suicideloss)
      <4>1. /\ u \in TankOf(p) /\ Bystander(s[p], u) /\ (Ready(s[p]) => Ready(u))
            /\ u.kills + u.suicides = s[p].kills + s[p].suicides + 1
        BY <2>1, <2>5, Scores, Crediting
      <4>2. d = [s EXCEPT ![p] = u]
        BY <2>5, <3>1
      <4> HIDE DEF d, u
      <4>3. Touches(p, 1, s, d) /\ d[p] = u
        BY <2>5, <4>1, <4>2, Touching
      <4>4. u.life = 0
        BY <2>1, <2>5, <4>1 DEF Bystander
      <4> QED
        BY <4>3, <4>4 DEF Touches
    <3>2. CASE owner # p
      <4> DEFINE u == Credited(s[owner], Scoring.killbonus)
      <4>0. s[owner] \in TankOf(owner)
        BY <2>5 DEF Tanks
      <4>1. /\ u \in TankOf(owner) /\ Bystander(s[owner], u) /\ (Ready(s[owner]) => Ready(u))
            /\ u.kills + u.suicides = s[owner].kills + s[owner].suicides + 1
        BY <4>0, Scores, Crediting
      <4>2. d = [s EXCEPT ![owner] = u]
        BY <2>5, <3>2
      <4> HIDE DEF d, u
      <4>3. Touches(p, 1, s, d) /\ d[p] = f
        BY <2>5, <3>2, <4>1, <4>2, Touching
      <4> QED
        BY <2>1, <4>3 DEF Touches
    <3> QED
      BY <3>1, <3>2
  <2> HIDE DEF d
  <2>7. Touches(p, 0, d, y) /\ y[p] = d[p]
    BY <2>4, <2>6, Scores, Bonus
  <2>8. Touches(p, 1, x, y)
    <3>1. Touches(p, 0 + 1, x, d)
      BY <2>5, <2>6, Touching
    <3>2. Touches(p, (0 + 1) + 0, x, y)
      BY <2>7, <3>1, Touching
    <3> QED
      BY <3>2
  <2>9. Deaths01(x, y, p) = 1 /\ ~ (0 < y[p].life)
    BY <2>6, <2>7 DEF Deaths01
  <2> QED
    BY <2>8, <2>9 DEF Hits, y
<1> QED
  BY <1>4, <1>5

\* An explosion hits one tank: the shield first, the hull with what is left.
LEMMA Hitting ==
    ASSUME NEW p \in Player, NEW owner \in Player, NEW x \in Tanks, NEW damage \in Nat, NEW napalm
    PROVE  Hits(p, x, Damaged(x, p, owner, damage, napalm))
<1> DEFINE t == x[p]
           rest == Undealt(t, damage, napalm)
           z == AfterShield(x, p, damage)
           u == IF t.shield = NoShield THEN t ELSE Drained(t, damage)
           y == Damaged(x, p, owner, damage, napalm)
<1>1. /\ x \in [Player -> Tank] /\ t \in TankOf(p) /\ t \in Tank /\ t.life \in Nat
      /\ t.kills \in Nat /\ t.suicides \in Nat
  BY DEF Tanks, TankOf, Tank
<1>2. /\ u \in TankOf(p) /\ u.kills = t.kills /\ u.suicides = t.suicides
      /\ u.life = t.life /\ u.inventory = t.inventory /\ u.ac_state = t.ac_state
      /\ (Ready(t) => Ready(u))
  <2>1. CASE t.shield = NoShield
    BY <1>1, <2>1
  <2>2. CASE t.shield # NoShield
    <3> HIDE DEF t
    <3>1. u = Drained(t, damage)
      BY <2>2
    <3> HIDE DEF u
    <3> QED
      BY <1>1, <3>1, Draining
  <2> QED
    BY <2>1, <2>2
<1> HIDE DEF u
<1>3. z = [x EXCEPT ![p] = u]
  <2>1. CASE t.shield = NoShield
    <3>1. z = x /\ u = t
      BY <2>1 DEF AfterShield, u
    <3>2. x = [q \in Player |-> x[q]]
      BY <1>1
    <3> HIDE DEF z
    <3> QED
      BY <3>1, <3>2
  <2>2. CASE t.shield # NoShield
    BY <2>2 DEF AfterShield, u
  <2> QED
    BY <2>1, <2>2
<1> HIDE DEF z
<1>4. Touches(p, 0, x, z) /\ z \in Tanks /\ z[p] = u
  <2>1. u.kills + u.suicides = t.kills + t.suicides + 0
    BY <1>1, <1>2
  <2>2. Touches(p, 0, x, z)
    BY <1>2, <1>3, <2>1, Touching
  <2> QED
    BY <1>1, <1>3, <2>2 DEF Touches
<1>5. y = IF ~Alive(t) \/ damage = 0 THEN x
          ELSE IF rest = 0 THEN z ELSE HullHit(z, p, owner, rest)
  BY DEF Damaged, z
<1>6. rest \in Nat
  <2>1. CASE t.shield = NoShield
    BY <2>1 DEF Undealt
  <2>2. CASE t.shield # NoShield
    <3>1. t.shield.life \in Nat
      BY <1>1, <2>2 DEF Tank, Shield
    <3> QED
      BY <2>2, <3>1 DEF Undealt
  <2> QED
    BY <2>1, <2>2
<1> HIDE DEF y, rest
<1>7. CASE y = x
  <2>1. Touches(p, 0, x, y) /\ Deaths01(x, y, p) = 0 /\ ~ (y[p].life < x[p].life)
    BY <1>1, <1>7, Touching DEF Deaths01
  <2> QED
    BY <2>1 DEF Hits, y
<1>8. CASE y = z
  <2>1. Touches(p, 0, x, y) /\ Deaths01(x, y, p) = 0 /\ ~ (y[p].life < x[p].life)
    BY <1>1, <1>2, <1>4, <1>8 DEF Deaths01
  <2> QED
    BY <2>1 DEF Hits, y
<1>9. CASE y = HullHit(z, p, owner, rest) /\ Alive(t)
  <2>1. t.life > 0
    BY <1>9 DEF Alive
  <2>2. Hits(p, z, y)
    BY <1>2, <1>4, <1>6, <1>9, <2>1, HittingHull
  <2>3. Deaths01(z, y, p) = Deaths01(x, y, p) /\ Deaths01(x, y, p) \in Nat
    BY <1>2, <1>4 DEF Deaths01
  <2>4. Touches(p, Deaths01(x, y, p), x, y)
    <3> DEFINE n == Deaths01(x, y, p)
    <3>1. Touches(p, n, z, y) /\ n \in Nat
      BY <2>2, <2>3 DEF Hits
    <3> HIDE DEF n
    <3>2. Touches(p, 0 + n, x, y)
      BY <1>4, <3>1, Touching
    <3>3. Touches(p, n, x, y)
      BY <3>1, <3>2
    <3> QED
      BY <3>3 DEF n
  <2>5. InStock(x[p]) = InStock(z[p]) /\ x[p].ac_state = z[p].ac_state /\ x[p].life = z[p].life
    BY <1>2, <1>4 DEF InStock, Stocked
  <2> QED
    BY <2>2, <2>4, <2>5 DEF Hits, y
<1> QED
  BY <1>5, <1>7, <1>8, <1>9

\* The loop over the players, from the last to the first.
LEMMA DamageAllLoop ==
    ASSUME NEW owner, NEW damage, NEW napalm
    PROVE  \E f : IsRun("DamageAll", pl, <<owner, damage, napalm>>, N, f)
                  /\ DamageAll(owner, damage, napalm) = f[N]
<1> DEFINE d == <<owner, damage, napalm>>
           R(f) == f = [k \in 0 .. N |-> IF k = 0 THEN pl
                                        ELSE Damaged(f[k - 1], N - k, owner, damage[N - k], napalm)]
           f == CHOOSE f : R(f)
<1>1. PICK g : IsRun("DamageAll", pl, d, N, g)
  BY Numbers, Loops
<1>2. \A h : R(h) <=> IsRun("DamageAll", pl, d, N, h)
  BY DEF IsRun, Step
<1>3. R(f)
  BY <1>1, <1>2
<1>4. DamageAll(owner, damage, napalm) = f[N]
  BY DEF DamageAll
<1> QED
  BY <1>2, <1>3, <1>4
Died(x) == {q \in Player : pl[q].life > 0 /\ x[q].life = 0}

\* One explosion: somebody is credited with every death, and whoever has
\* auto defense and a shield in stock is left with one.
LEMMA Exploding ==
    ASSUME pl \in Tanks, NEW owner \in Player, NEW damage \in [Player -> Nat], NEW napalm
    PROVE  LET z == DamageAll(owner, damage, napalm)
           IN  /\ z \in Tanks
               /\ \A q \in Player : Ready(pl[q]) => Ready(z[q])
               /\ Credits(pl) \in Nat /\ Credits(z) - Credits(pl) = Cardinality(Died(z))
               /\ \A q \in Player :
                      /\ 0 < z[q].life /\ z[q].life < pl[q].life
                      /\ "AUTO_DEF" \in pl[q].ac_state /\ InStock(pl[q]) # {}
                      => z[q].shield # NoShield
<1> DEFINE z == DamageAll(owner, damage, napalm)
           d == <<owner, damage, napalm>>
           Kept(q, x) == /\ 0 < x[q].life /\ x[q].life < pl[q].life
                         /\ "AUTO_DEF" \in pl[q].ac_state /\ InStock(pl[q]) # {}
                         => x[q].shield # NoShield
           Good(k, x) == /\ x \in Tanks
                         /\ \A q \in Player : Ready(pl[q]) => Ready(x[q])
                         /\ \A q \in Player : q < N - k => Bystander(pl[q], x[q])
                         /\ \A q \in Player : q >= N - k => Kept(q, x)
                         /\ IsFiniteSet(Died(x)) /\ Cardinality(Died(x)) \in Nat
                         /\ Credits(pl) \in Nat
                         /\ Credits(x) = Credits(pl) + Cardinality(Died(x))
<1>1. PICK f : IsRun("DamageAll", pl, d, N, f) /\ z = f[N]
  BY DamageAllLoop
<1>3. Good(0, f[0])
  <2>1. f[0] = pl
    BY <1>1, Numbers DEF IsRun
  <2>2. Died(pl) = {}
    BY DEF Died
  <2>3. IsFiniteSet({}) /\ Cardinality({}) = 0
    BY FS_EmptySet
  <2>4. Credits(pl) \in Nat
    <3>1. 0 \in Player
      BY Numbers DEF Player
    <3> QED
      BY <3>1, Touching DEF Touches
  <2>5. \A q \in Player : q < N - 0
    BY Numbers DEF Player
  <2>6. \A q \in Player : Bystander(pl[q], pl[q])
    BY DEF Bystander
  <2>7. \A q \in Player : ~ (q >= N - 0)
    BY Numbers DEF Player
  <2>8. Good(0, pl)
    BY <2>2, <2>3, <2>4, <2>6, <2>7
  <2> QED
    BY <2>1, <2>8
<1>4. ASSUME NEW k \in Nat, k + 1 \in 0 .. N, Good(k, f[k]) PROVE Good(k + 1, f[k + 1])
  <2> DEFINE p == N - (k + 1)
             x == f[k]
             y == f[k + 1]
  <2>1. k + 1 # 0 /\ (k + 1) - 1 = k /\ p \in Player /\ p < N - k
        /\ \A q \in Player : q >= N - (k + 1) => q = p \/ q >= N - k
    BY <1>4, Numbers DEF Player
  <2>2. y = Damaged(x, p, owner, damage[p], napalm)
    <3>1. y = Step("DamageAll", x, k + 1, d)
      BY <1>1, <1>4, <2>1 DEF IsRun
    <3> QED
      BY <3>1 DEF Step
  <2> HIDE DEF y, x, p
  <2>3. Good(k, x)
    BY <1>4 DEF x
  <2> HIDE DEF Good
  <2>4. Hits(p, x, y)
    <3>1. damage[p] \in Nat /\ x \in Tanks
      BY <2>1, <2>3 DEF Good
    <3> QED
      BY <2>1, <2>2, <3>1, Hitting
  <2>5. Touches(p, Deaths01(x, y, p), x, y)
    BY <2>4 DEF Hits
  <2>6. Bystander(pl[p], x[p])
    BY <2>1, <2>3 DEF Good, p
  <2>7. Kept(p, y)
    <3>1. InStock(pl[p]) = InStock(x[p]) /\ pl[p].ac_state = x[p].ac_state /\ pl[p].life = x[p].life
      BY <2>6 DEF InStock, Stocked, Bystander
    <3> QED
      BY <2>4, <3>1 DEF Hits
  <2>8. \A q \in Player : q >= N - (k + 1) => Kept(q, y)
    <3> SUFFICES ASSUME NEW q \in Player, q >= N - k, q # p PROVE Kept(q, y)
      BY <2>1, <2>7
    <3>1. Kept(q, x)
      BY <2>3 DEF Good
    <3>2. Bystander(x[q], y[q])
      BY <2>5 DEF Touches
    <3> QED
      BY <3>1, <3>2 DEF Bystander
  <2>9. \A q \in Player : q < N - (k + 1) => Bystander(pl[q], y[q])
    <3> SUFFICES ASSUME NEW q \in Player, q < N - (k + 1) PROVE Bystander(pl[q], y[q])
      OBVIOUS
    <3>1. q < N - k /\ q # p
      BY <1>4, Numbers DEF p, Player
    <3>2. Bystander(pl[q], x[q]) /\ Bystander(x[q], y[q])
      BY <2>3, <2>5, <3>1 DEF Good, Touches
    <3> QED
      BY <3>2 DEF Bystander
  <2>10. /\ IsFiniteSet(Died(y)) /\ Cardinality(Died(y)) \in Nat
         /\ Cardinality(Died(y)) = Cardinality(Died(x)) + Deaths01(x, y, p)
    <3>1. p \notin Died(x)
      BY <2>6 DEF Died, Bystander
    <3>2. \A q \in Player \ {p} : x[q].life = y[q].life
      BY <2>5 DEF Touches, Bystander
    <3>3. x[p].life = pl[p].life
      BY <2>6 DEF Bystander
    <3>4. IsFiniteSet(Died(x)) /\ Cardinality(Died(x)) \in Nat
      BY <2>3 DEF Good
    <3>5. CASE pl[p].life > 0 /\ y[p].life = 0
      <4>1. Died(y) = Died(x) \cup {p}
        BY <2>1, <3>1, <3>2, <3>5 DEF Died
      <4>2. Deaths01(x, y, p) = 1
        BY <3>3, <3>5 DEF Deaths01
      <4>3. IsFiniteSet(Died(y)) /\ Cardinality(Died(y)) = Cardinality(Died(x)) + 1
        BY <3>1, <3>4, <4>1, FS_AddElement
      <4> QED
        BY <3>4, <4>2, <4>3
    <3>6. CASE ~ (pl[p].life > 0 /\ y[p].life = 0)
      <4>1. Died(y) = Died(x)
        BY <2>1, <3>1, <3>2, <3>6 DEF Died
      <4>2. Deaths01(x, y, p) = 0
        BY <3>3, <3>6 DEF Deaths01
      <4> QED
        BY <3>4, <4>1, <4>2
    <3> QED
      BY <3>5, <3>6
  <2>11. Credits(pl) \in Nat /\ Credits(y) = Credits(pl) + Cardinality(Died(y))
    <3>1. Credits(y) = Credits(x) + Deaths01(x, y, p)
      BY <2>5 DEF Touches
    <3>2. Credits(pl) \in Nat /\ Credits(x) = Credits(pl) + Cardinality(Died(x))
          /\ Cardinality(Died(x)) \in Nat
      BY <2>3 DEF Good
    <3>3. Deaths01(x, y, p) \in Nat
      BY DEF Deaths01
    <3> QED
      BY <2>10, <3>1, <3>2, <3>3
  <2>12. y \in Tanks /\ \A q \in Player : Ready(pl[q]) => Ready(y[q])
    BY <2>3, <2>5 DEF Good, Touches
  <2>13. Good(k + 1, y)
    BY <2>8, <2>9, <2>10, <2>11, <2>12 DEF Good
  <2> QED
    BY <2>13 DEF y
<1> DEFINE S == {k \in Nat : k \in 0 .. N => Good(k, f[k])}
<1>5. Nat \subseteq S
  <2> HIDE DEF Good
  <2>1. 0 \in S
    BY <1>3
  <2>2. ASSUME NEW k \in Nat, k \in S PROVE k + 1 \in S
    <3>1. k + 1 \in 0 .. N => k \in 0 .. N
      BY Numbers
    <3> QED
      BY <1>4, <2>2, <3>1
  <2> HIDE DEF S
  <2> QED
    BY <2>1, <2>2, Induction
<1>6. Good(N, z)
  <2>1. N \in S /\ N \in 0 .. N
    <3> HIDE DEF S
    <3> QED
      BY <1>5, Numbers
  <2> HIDE DEF Good
  <2> QED
    BY <1>1, <2>1
<1>7. \A q \in Player : q >= N - N
  BY Numbers DEF Player
<1>8. Credits(z) - Credits(pl) = Cardinality(Died(z))
  BY <1>6
<1> HIDE DEF z
<1>9. \A q \in Player : Kept(q, z)
  BY <1>6, <1>7
<1> QED
  BY <1>6, <1>8, <1>9 DEF z
-----------------------------------------------------------------------------
(* The invariant.                                                          *)

Armoury == {"AUTO_DEFENSE", "TURN_BEGIN", "ORDERS", "CREATION", "FLIGHT"}

\* Phase, turn, round and interest.
ClockOK ==
    /\ phase \in Phase /\ curplayer \in 0 .. N /\ round \in -1 .. NumRounds - 1
    /\ phase \in {"SHOP", "ROUND_BEGIN", "AUTO_DEFENSE"} => curplayer \in Player
    /\ phase \in {"SHOP", "ROUND_BEGIN"} => round < NumRounds - 1
    /\ plorder \in Permutation
    /\ interest \in Nat /\ (interest = InterestRate \/ interest <= MaxInterest)

\* Who is behind a player: a computer player has been given a real type.
TypesOK ==
    /\ aitype \in [Player -> AiType \cup {"HUMAN"}]
    /\ realaitype \in [Player -> AiType \cup {"HUMAN"}]
    /\ \A p \in Player : aitype[p] # "HUMAN" => realaitype[p] \in AiType

\* The inductive invariant: also in flight every selected weapon is in stock.
EquipmentInv ==
    /\ ClockOK
    /\ TypesOK
    /\ pl \in Tanks
    /\ phase \in Armoury => \A p \in Player : Ready(pl[p])

\* The three action properties of a step.
AutoStep ==
    \A p \in Player :
        /\ phase = "FLIGHT" /\ 0 < pl'[p].life /\ pl'[p].life < pl[p].life
        /\ "AUTO_DEF" \in pl[p].ac_state
        /\ \E a \in ShieldItems : Stocked(pl[p], a)
        => pl'[p].shield # NoShield
CreditStep ==
    Credits(pl') - Credits(pl)
        = Cardinality({p \in Player : phase = "FLIGHT" /\ pl[p].life > 0 /\ pl'[p].life = 0})
ShopStep == phase = "SHOP" => \A p \in Player : Worth(pl'[p]) <= Worth(pl[p])

\* A step that kills nobody, earns no credit and, in the shop, no money.
Gentle ==
    \A p \in Player :
        /\ pl'[p].kills = pl[p].kills /\ pl'[p].suicides = pl[p].suicides
        /\ phase = "FLIGHT" => pl'[p].life = pl[p].life
        /\ phase = "SHOP" => Worth(pl'[p]) <= Worth(pl[p])

\* Such a step has the three properties.
LEMMA Calm ==
    ASSUME pl \in Tanks, pl' \in Tanks, Gentle
    PROVE  AutoStep /\ CreditStep /\ ShopStep
<1>1. Credits(pl) \in Nat /\ Credits(pl') = Credits(pl) + 0
  <2>1. 0 \in Player /\ 0 \in Nat
    BY Numbers DEF Player
  <2>2. pl'[0].kills + pl'[0].suicides = pl[0].kills + pl[0].suicides + 0
    <3>1. pl[0].kills \in Nat /\ pl[0].suicides \in Nat
      BY <2>1 DEF Tanks, TankOf, Tank
    <3> QED
      BY <2>1, <3>1 DEF Gentle
  <2>3. \A q \in Player : pl'[q].kills = pl[q].kills /\ pl'[q].suicides = pl[q].suicides
    BY DEF Gentle
  <2> QED
    BY <2>1, <2>2, <2>3, CreditsChange
<1>2. {p \in Player : phase = "FLIGHT" /\ pl[p].life > 0 /\ pl'[p].life = 0} = {}
  BY DEF Gentle
<1>3. CreditStep
  BY <1>1, <1>2, FS_EmptySet DEF CreditStep
<1>4. AutoStep
  <2>1. \A p \in Player : pl[p].life \in Nat
    BY DEF Tanks, TankOf, Tank
  <2> QED
    BY <2>1 DEF AutoStep, Gentle
<1>5. ShopStep
  BY DEF ShopStep, Gentle
<1> QED
  BY <1>3, <1>4, <1>5

\* One tank is changed.
LEMMA OneTank ==
    ASSUME pl \in Tanks, NEW p \in Player, NEW u \in TankOf(p), pl' = [pl EXCEPT ![p] = u],
           u.kills = pl[p].kills, u.suicides = pl[p].suicides,
           phase = "FLIGHT" => u.life = pl[p].life,
           phase = "SHOP" => Worth(u) <= Worth(pl[p])
    PROVE  /\ pl' \in Tanks /\ AutoStep /\ CreditStep /\ ShopStep
           /\ (\A q \in Player : Ready(pl[q])) /\ (Ready(pl[p]) => Ready(u))
                  => \A q \in Player : Ready(pl'[q])
<1>1. pl \in [Player -> Tank] /\ u \in Tank /\ \A q \in Player : pl[q] \in TankOf(q)
  BY DEF Tanks, TankOf
<1>2. pl'[p] = u /\ \A q \in Player : q # p => pl'[q] = pl[q]
  BY <1>1
<1>3. pl' \in Tanks
  <2>1. pl' \in [Player -> Tank]
    BY <1>1
  <2> QED
    BY <1>1, <1>2, <2>1 DEF Tanks
<1>4. \A q \in Player : Worth(pl[q]) \in Int
  BY <1>1, ShopsTwice
<1>5. Gentle
  BY <1>2, <1>4 DEF Gentle
<1> QED
  BY <1>2, <1>3, <1>5, Calm

Correct == EquipmentInv' /\ AutoStep /\ CreditStep /\ ShopStep

-----------------------------------------------------------------------------
(* The steps.                                                              *)

\* A new game.
LEMMA Beginning == Init => EquipmentInv
<1> SUFFICES ASSUME Init PROVE EquipmentInv
  OBVIOUS
<1>1. ClockOK
  <2>1. plorder \in Permutation
    <3>1. plorder = [k \in 1 .. N |-> k - 1]
      BY DEF Init
    <3>2. plorder \in [1 .. N -> Player] /\ Len(plorder) = N
      BY <3>1, Numbers DEF Player
    <3>3. ElementsOf(plorder) = Player
      <4>1. \A q \in Player : q + 1 \in 1 .. N /\ plorder[q + 1] = q
        BY <3>1, Numbers DEF Player
      <4> QED
        BY <3>2, <4>1 DEF ElementsOf
    <3> QED
      BY <3>2, <3>3 DEF Permutation
  <2>2. InterestRate \in Nat /\ NumRounds \in Nat \ {0}
    BY AiAssumption
  <2> QED
    BY <2>1, <2>2, Numbers DEF Init, ClockOK, Phase, Player
<1>2. TypesOK
  <2>1. aitype \in [Player -> AiType \cup {"HUMAN"}] /\ realaitype \in RealTypes(aitype)
    BY EquipmentAssumption DEF Init
  <2> QED
    BY <2>1 DEF RealTypes, TypesOK
<1>3. \A p \in Player : NewTank(p) \in TankOf(p)
  <2> TAKE p \in Player
  <2>1. Cleared \in Stock
    BY Numbers DEF Cleared, Stock
  <2>2. NewTank(p) \in Tank
    BY <2>1, Numbers, Catalogue DEF NewTank, Tank, Shield, Player
  <2>3. Endless(NewTank(p))
    <3>1. NewTank(p).inventory = Cleared
      BY DEF NewTank
    <3> QED
      BY <3>1, Catalogue DEF Endless, Cleared
  <2>4. NewTank(p).life = FullLife(p) /\ NewTank(p).shield = NoShield
    BY DEF NewTank
  <2> QED
    BY <2>2, <2>3, <2>4, Numbers DEF TankOf, SoundShield
<1>4. pl \in Tanks
  BY <1>3 DEF Init, Tanks, TankOf
<1>5. phase \notin Armoury
  BY DEF Init, Armoury
<1> QED
  BY <1>1, <1>2, <1>4, <1>5 DEF EquipmentInv
\* Nothing happens to the tanks.
LEMMA Steady ==
    ASSUME EquipmentInv, pl' = pl
    PROVE  /\ pl' \in Tanks /\ AutoStep /\ CreditStep /\ ShopStep
           /\ (\A q \in Player : Ready(pl[q])) => \A q \in Player : Ready(pl'[q])
<1>1. pl \in Tanks
  BY DEF EquipmentInv
<1>2. Gentle
  <2>1. \A q \in Player : Worth(pl[q]) \in Int
    BY <1>1, ShopsTwice DEF Tanks
  <2> QED
    BY <2>1 DEF Gentle
<1> QED
  BY <1>1, <1>2, Calm

\* Who is behind a player does not change.
LEMMA Same == ASSUME EquipmentInv, UNCHANGED types PROVE TypesOK'
  BY DEF EquipmentInv, TypesOK, types

\* In the shop, for one player.
LEMMA OneShops ==
    ASSUME EquipmentInv, phase = "SHOP", UNCHANGED types, ClockOK', phase' \notin Armoury,
           NEW p \in Player, NEW u, Shops(p, pl[p], u), pl' = [pl EXCEPT ![p] = u]
    PROVE  Correct
<1>1. pl \in Tanks /\ u \in TankOf(p)
  BY DEF EquipmentInv, Shops
<1>2. pl' \in Tanks /\ AutoStep /\ CreditStep /\ ShopStep
  BY <1>1, OneTank DEF Shops
<1> QED
  BY <1>2, Same DEF Correct, EquipmentInv

\* In a round, for one player.
LEMMA OneActs ==
    ASSUME EquipmentInv, phase \in Armoury \ {"FLIGHT"}, UNCHANGED types, ClockOK',
           NEW p \in Player, NEW u, Acts(p, pl[p], u), pl' = [pl EXCEPT ![p] = u]
    PROVE  Correct
<1>1. pl \in Tanks /\ u \in TankOf(p) /\ \A q \in Player : Ready(pl[q])
  BY DEF EquipmentInv, Acts
<1>2. phase # "FLIGHT" /\ phase # "SHOP"
  BY DEF Armoury
<1>3. /\ pl' \in Tanks /\ AutoStep /\ CreditStep /\ ShopStep
      /\ \A q \in Player : Ready(pl'[q])
  BY <1>1, <1>2, OneTank DEF Acts
<1> QED
  BY <1>3, Same DEF Correct, EquipmentInv

\* After the last customer or defender comes the first again.
LEMMA Turning ==
    ASSUME EquipmentInv, UNCHANGED <<plorder, round, interest>>,
           \/ phase = "SHOP" /\ NextCustomer
           \/ phase = "AUTO_DEFENSE" /\ NextDefender
    PROVE  ClockOK' /\ (phase' \in Armoury <=> phase \in Armoury)
<1>1. ClockOK /\ curplayer \in Player
  BY DEF EquipmentInv, ClockOK
<1>2. curplayer' \in Player /\ curplayer' \in 0 .. N
  <2>1. curplayer' = 0 \/ (curplayer + 1 < N /\ curplayer' = curplayer + 1)
    BY <1>1, Numbers DEF NextCustomer, NextDefender, Player
  <2> QED
    BY <1>1, <2>1, Numbers DEF Player
<1>3. \/ phase = "SHOP" /\ phase' \in {"SHOP", "ROUND_BEGIN"}
      \/ phase = "AUTO_DEFENSE" /\ phase' \in {"AUTO_DEFENSE", "TURN_BEGIN"}
  BY DEF NextCustomer, NextDefender
<1>4. plorder' \in Permutation
  BY <1>1 DEF ClockOK
<1>5. phase' \in Phase /\ (phase' \in Armoury <=> phase \in Armoury)
  BY <1>3 DEF Phase, Armoury
<1> QED
  BY <1>1, <1>2, <1>3, <1>4, <1>5 DEF ClockOK

\* A computer player's shopping.
LEMMA ComputersShop == EquipmentInv /\ ComputerShops => Correct
<1> SUFFICES ASSUME EquipmentInv, ComputerShops PROVE Correct
  OBVIOUS
<1>1. /\ phase = "SHOP" /\ curplayer \in Player \ Human /\ round \in Int /\ interest \in Nat
      /\ realaitype[curplayer] \in AiType /\ pl \in Tanks
  BY DEF ComputerShops, EquipmentInv, ClockOK, TypesOK, Human
<1> DEFINE u == AiShops(realaitype[curplayer], pl[curplayer], round, interest)
<1>2. pl' = [pl EXCEPT ![curplayer] = u]
  BY DEF ComputerShops
<1>3. Shops(curplayer, pl[curplayer], u)
  BY <1>1, ComputersShopping DEF Tanks
<1>4. ClockOK' /\ phase' \notin Armoury /\ UNCHANGED types
  BY <1>1, Turning DEF ComputerShops, Armoury
<1> HIDE DEF u
<1> QED
  BY <1>1, <1>2, <1>3, <1>4, OneShops

\* A purchase.
LEMMA HumansBuy == EquipmentInv /\ HumanBuys => Correct
<1> SUFFICES ASSUME EquipmentInv, HumanBuys PROVE Correct
  OBVIOUS
<1>1. phase = "SHOP" /\ curplayer \in Player /\ pl \in Tanks /\ pl[curplayer] \in TankOf(curplayer)
  BY DEF HumanBuys, EquipmentInv, Human, Tanks
<1>2. PICK item \in Item : /\ CanBuy(pl[curplayer], item, Unlimited)
                           /\ pl' = [pl EXCEPT ![curplayer] = Buy(pl[curplayer], item)]
  BY DEF HumanBuys
<1>3. Shops(curplayer, pl[curplayer], Buy(pl[curplayer], item))
  BY <1>1, <1>2, Buying
<1>4. ClockOK' /\ phase' \notin Armoury /\ UNCHANGED types
  BY <1>1 DEF HumanBuys, clock, EquipmentInv, ClockOK, Armoury, Permutation
<1> QED
  BY <1>1, <1>2, <1>3, <1>4, OneShops

\* A sale.
LEMMA HumansSell == EquipmentInv /\ HumanSells => Correct
<1> SUFFICES ASSUME EquipmentInv, HumanSells PROVE Correct
  OBVIOUS
<1>1. phase = "SHOP" /\ curplayer \in Player /\ pl \in Tanks /\ pl[curplayer] \in TankOf(curplayer)
  BY DEF HumanSells, EquipmentInv, Human, Tanks
<1>2. PICK item \in Item : /\ CanSell(pl[curplayer], item)
                           /\ pl' = [pl EXCEPT ![curplayer] = Sell(pl[curplayer], item)]
  BY DEF HumanSells
<1>3. Shops(curplayer, pl[curplayer], Sell(pl[curplayer], item))
  BY <1>1, <1>2, Selling
<1>4. ClockOK' /\ phase' \notin Armoury /\ UNCHANGED types
  BY <1>1 DEF HumanSells, clock, EquipmentInv, ClockOK, Armoury, Permutation
<1> QED
  BY <1>1, <1>2, <1>3, <1>4, OneShops

\* The steps after which every tank is what it was.
LEMMA NothingDone ==
    ASSUME EquipmentInv, pl' = pl, UNCHANGED types, ClockOK', phase' \in Armoury => phase \in Armoury
    PROVE  Correct
<1>1. /\ pl' \in Tanks /\ AutoStep /\ CreditStep /\ ShopStep
      /\ (\A q \in Player : Ready(pl[q])) => \A q \in Player : Ready(pl'[q])
  BY Steady
<1> QED
  BY <1>1, Same DEF Correct, EquipmentInv

\* The next customer, the next defender, the next turn.
LEMMA OthersNext ==
    EquipmentInv /\ (HumanLeavesShop \/ NoDefense \/ PassDead \/ TurnEnds \/ FlightEnds) => Correct
<1>1. ASSUME EquipmentInv, HumanLeavesShop PROVE Correct
  <2>1. ClockOK' /\ pl' = pl /\ UNCHANGED types /\ phase' \notin Armoury
    BY <1>1, Turning DEF HumanLeavesShop, Armoury
  <2> QED
    BY <1>1, <2>1, NothingDone
<1>2. ASSUME EquipmentInv, NoDefense PROVE Correct
  <2>1. ClockOK' /\ pl' = pl /\ UNCHANGED types /\ phase \in Armoury
    BY <1>2, Turning DEF NoDefense, Armoury
  <2> QED
    BY <1>2, <2>1, NothingDone
<1>3. ASSUME EquipmentInv, PassDead PROVE Correct
  <2>1. ClockOK' /\ pl' = pl /\ UNCHANGED types /\ phase \in Armoury
    BY <1>3, Numbers DEF PassDead, EquipmentInv, ClockOK, Armoury, Phase, Permutation
  <2> QED
    BY <1>3, <2>1, NothingDone
<1>4. ASSUME EquipmentInv, TurnEnds PROVE Correct
  <2>1. ClockOK' /\ pl' = pl /\ UNCHANGED types /\ phase \in Armoury
    BY <1>4, Numbers DEF TurnEnds, EquipmentInv, ClockOK, Armoury, Phase, Permutation
  <2> QED
    BY <1>4, <2>1, NothingDone
<1>5. ASSUME EquipmentInv, FlightEnds PROVE Correct
  <2>1. ClockOK' /\ pl' = pl /\ UNCHANGED types /\ phase \in Armoury
    BY <1>5, Numbers DEF FlightEnds, EquipmentInv, ClockOK, Armoury, Phase, Permutation
  <2> QED
    BY <1>5, <2>1, NothingDone
<1> QED
  BY <1>1, <1>2, <1>3, <1>4, <1>5
\* Between the turns, for all players.
LEMMA AllAct ==
    ASSUME EquipmentInv, phase \notin {"SHOP", "FLIGHT"}, UNCHANGED types, ClockOK',
           pl' \in [Player -> Tank],
           \A q \in Player : /\ pl'[q] \in TankOf(q)
                             /\ pl'[q].kills = pl[q].kills /\ pl'[q].suicides = pl[q].suicides,
           phase' \in Armoury => \A q \in Player : Ready(pl'[q])
    PROVE  Correct
<1>1. pl \in Tanks /\ pl' \in Tanks /\ Gentle
  BY DEF EquipmentInv, Tanks, Gentle
<1>2. AutoStep /\ CreditStep /\ ShopStep
  BY <1>1, Calm
<1> QED
  BY <1>1, <1>2, Same DEF Correct, EquipmentInv

\* Auto defense before a round.
LEMMA OthersDefend == EquipmentInv /\ (ComputerDefends \/ HumanDefends) => Correct
<1> SUFFICES ASSUME EquipmentInv, ComputerDefends \/ HumanDefends PROVE Correct
  OBVIOUS
<1> DEFINE t == pl[curplayer]
<1>1. /\ phase = "AUTO_DEFENSE" /\ NextDefender /\ UNCHANGED <<plorder, round, interest, types>>
      /\ curplayer \in Player
  BY DEF ComputerDefends, HumanDefends, HasAutoDefense, EquipmentInv, ClockOK
<1>2. ClockOK' /\ UNCHANGED types /\ phase \in Armoury \ {"FLIGHT"}
  BY <1>1, Turning DEF Armoury
<1>3. t \in TankOf(curplayer)
  BY <1>1 DEF EquipmentInv, Tanks
<1>4. \A shield \in Accessory \cup {None} : \A flag :
          Acts(curplayer, t, Defended(t, shield, flag))
  BY <1>1, <1>3, Defending, ActsTwice
<1>5. Acts(curplayer, t, t)
  BY <1>1, <1>3, OutfitsTwice, ActsTwice
<1>6. BestShield(t) \in Accessory \cup {None}
  BY Best DEF InStock, ShieldItems
<1>7. \E u : Acts(curplayer, t, u) /\ pl' = [pl EXCEPT ![curplayer] = u]
  <2>1. ASSUME ComputerDefends
        PROVE  \E u : Acts(curplayer, t, u) /\ pl' = [pl EXCEPT ![curplayer] = u]
    BY <2>1, <1>4, <1>5, <1>6 DEF ComputerDefends
  <2>2. ASSUME HumanDefends
        PROVE  \E u : Acts(curplayer, t, u) /\ pl' = [pl EXCEPT ![curplayer] = u]
    <3>1. PICK shield \in {None} \cup {a \in ShieldItems : Stocked(t, a)},
               flag \in {t.contacttriggers} \cup {"TRIGGER" \in t.ac_state} :
               pl' = [pl EXCEPT ![curplayer] = Defended(t, shield, flag)]
      BY <2>2 DEF HumanDefends
    <3>2. shield \in Accessory \cup {None}
      BY DEF ShieldItems
    <3> QED
      BY <3>1, <3>2, <1>4
  <2> QED
    BY <2>1, <2>2
<1> HIDE DEF t
<1> QED
  BY <1>1, <1>2, <1>7, OneActs DEF t

\* A shield that recharges stays within its strength.
LEMMA Restoring ==
    ASSUME NEW p \in Player, NEW t \in TankOf(p)
    PROVE  LET u == ForTurn(t)
           IN  /\ u \in TankOf(p) /\ u.kills = t.kills /\ u.suicides = t.suicides
               /\ (Ready(t) => Ready(u))
<1>1. CASE ~Alive(t) \/ t.shield = NoShield \/ "RECHARGE" \notin t.ac_state
  BY <1>1 DEF ForTurn
<1>2. CASE ~(~Alive(t) \/ t.shield = NoShield \/ "RECHARGE" \notin t.ac_state)
  <2> DEFINE strength == Info[t.shield.info].shield
             life == Within(0, strength, t.shield.life + RechargeRate)
             s == [t.shield EXCEPT !.life = life]
  <2>1. t \in Tank /\ SoundShield(t.shield) /\ t.shield \in [info : Accessory, life : Nat]
    BY <1>2 DEF TankOf, Tank, Shield
  <2>2. Is(t.shield.info, "SHIELD") /\ t.shield.life \in 1 .. strength /\ strength \in Nat
    BY <1>2, <2>1, Catalogue DEF SoundShield
  <2>3. life \in 1 .. strength
    BY <2>2, Numbers DEF Within
  <2> HIDE DEF life
  <2>4. s \in [info : Accessory, life : Nat] /\ s.info = t.shield.info /\ s.life = life
    BY <2>1, <2>2, <2>3
  <2> HIDE DEF s
  <2>5. s \in Shield /\ SoundShield(s)
    BY <2>2, <2>3, <2>4 DEF Shield, SoundShield
  <2>6. ForTurn(t) = [t EXCEPT !.shield = s]
    BY <1>2 DEF ForTurn, s, life
  <2>7. [t EXCEPT !.shield = s] \in Tank
    BY <2>1, <2>5 DEF Tank
  <2> QED
    BY <2>1, <2>5, <2>6, <2>7 DEF TankOf, Tank, Endless, Ready, Stocked
<1> QED
  BY <1>1, <1>2

\* A turn begins, or the round is over.
LEMMA TurnsBegin == EquipmentInv /\ TurnBegins => Correct
<1> SUFFICES ASSUME EquipmentInv, TurnBegins PROVE Correct
  OBVIOUS
<1>1. phase = "TURN_BEGIN" /\ UNCHANGED types /\ pl' = [p \in Player |-> ForTurn(pl[p])]
  BY DEF TurnBegins
<1>2. ClockOK'
  BY Numbers DEF TurnBegins, EquipmentInv, ClockOK, Phase, Permutation, Player
<1>3. \A p \in Player : pl[p] \in TankOf(p) /\ Ready(pl[p])
  BY <1>1 DEF EquipmentInv, Tanks, Armoury
<1>4. \A p \in Player :
          /\ ForTurn(pl[p]) \in TankOf(p) /\ ForTurn(pl[p]).kills = pl[p].kills
          /\ ForTurn(pl[p]).suicides = pl[p].suicides /\ Ready(ForTurn(pl[p]))
  BY <1>3, Restoring
<1>5. \A p \in Player : pl'[p] = ForTurn(pl[p])
  BY <1>1
<1>6. pl' \in [Player -> Tank]
  BY <1>1, <1>4 DEF TankOf
<1> QED
  BY <1>1, <1>2, <1>4, <1>5, <1>6, AllAct

\* A tank at the start of a round.
LEMMA Renewing ==
    ASSUME NEW p \in Player, NEW t \in TankOf(p)
    PROVE  LET u == ForRound(p, t)
           IN  /\ u \in TankOf(p) /\ u.kills = t.kills /\ u.suicides = t.suicides /\ Ready(u)
<1> DEFINE a == [t EXCEPT !.life = FullLife(p)]
           b == [a EXCEPT !.dead = FALSE]
           c == [b EXCEPT !.armed = FALSE]
           d == [c EXCEPT !.killedby = -1]
           e == [d EXCEPT !.fuel = 0]
           f == [e EXCEPT !.contacttriggers = FALSE]
           g == [f EXCEPT !.selweapon = DefaultWeapon]
           h == [g EXCEPT !.selshield = DefaultAccessory]
           u == [h EXCEPT !.shield = NoShield]
<1>1. t \in Tank /\ Endless(t)
  BY DEF TankOf
<1>2. FullLife(p) \in Nat /\ DefaultWeapon \in Weapon /\ DefaultAccessory \in Accessory
      /\ NoShield \in Shield /\ -1 \in -1 .. N - 1 /\ 0 \in Nat /\ FALSE \in BOOLEAN
  BY Numbers, Catalogue DEF Shield
<1>3. ForRound(p, t) = u
  <2>1. t = [i \in DOMAIN t |-> t[i]]
    BY <1>1 DEF Tank
  <2> QED
    BY <2>1 DEF ForRound
<1>4. a \in Tank
  BY <1>1, <1>2 DEF Tank
<1>5. b \in Tank
  <2> HIDE DEF a
  <2> QED
    BY <1>4 DEF Tank
<1>6. c \in Tank
  <2> HIDE DEF b
  <2> QED
    BY <1>5 DEF Tank
<1>7. d \in Tank
  <2> HIDE DEF c
  <2> QED
    BY <1>6, <1>2 DEF Tank
<1>8. e \in Tank
  <2> HIDE DEF d
  <2> QED
    BY <1>7 DEF Tank
<1>9. f \in Tank
  <2> HIDE DEF e
  <2> QED
    BY <1>8 DEF Tank
<1>10. g \in Tank
  <2> HIDE DEF f
  <2> QED
    BY <1>9, <1>2 DEF Tank
<1>11. h \in Tank
  <2> HIDE DEF g
  <2> QED
    BY <1>10, <1>2 DEF Tank
<1>12. u \in Tank
  <2> HIDE DEF h
  <2> QED
    BY <1>11, <1>2 DEF Tank
<1>13. /\ u.inventory = t.inventory /\ u.selweapon = DefaultWeapon /\ u.life = FullLife(p)
       /\ u.shield = NoShield /\ u.kills = t.kills /\ u.suicides = t.suicides
  BY <1>1 DEF Tank
<1> HIDE DEF a, b, c, d, e, f, g, h, u
<1>14. u \in TankOf(p)
  BY <1>1, <1>2, <1>12, <1>13 DEF TankOf, Endless, SoundShield
<1>15. Ready(u)
  BY <1>13, <1>14, DefaultStocked DEF Ready
<1> QED
  BY <1>3, <1>13, <1>14, <1>15

\* The stake of the lottery is a weapon.
LEMMA Drawing == ASSUME NEW number \in Int PROVE Drawn(number) \in Weapon \cup {None}
<1> DEFINE start == Further(Weapons, Weapons[1], number + 1)
           Worthwhile(w) == ~Infinite(w) /\ ~Info[w].useless
           offers == {k \in 0 .. Len(Weapons) - 1 : Worthwhile(Further(Weapons, start, k))}
<1>1. Len(Weapons) \in Nat \ {0} /\ Weapons[1] \in ElementsOf(Weapons)
  BY Catalogue DEF ElementsOf
<1>2. start \in ElementsOf(Weapons)
  BY <1>1, Walks
<1>3. offers \in SUBSET Nat /\ \A k \in offers : k \in Int
  BY <1>1
<1>4. Drawn(number) = IF offers = {} THEN None ELSE Further(Weapons, start, Least(offers))
  BY DEF Drawn
<1> HIDE DEF offers, start
<1>5. ASSUME offers # {} PROVE Least(offers) \in Int
  <2>1. Least(offers) \in offers
    BY <1>3, <1>5, Leasts
  <2> QED
    BY <1>3, <2>1
<1> QED
  BY <1>1, <1>2, <1>4, <1>5, Walks DEF Weapon

\* Whatever the order is by, it is one of all players.
LEMMA Ordering == ASSUME plorder \in Permutation, NEW n PROVE OrdersFor(n) \subseteq Permutation
<1>1. \A s \in Permutation : \A score : ExchangeSort(s, score) \in Permutation
  <2> TAKE s \in Permutation
  <2> TAKE score
  <2>1. N \in Nat /\ s \in [1 .. N -> Player] /\ ElementsOf(s) = Player
    BY Numbers DEF Permutation
  <2>2. /\ ExchangeSort(s, score) \in [1 .. N -> Player]
        /\ ElementsOf(ExchangeSort(s, score)) = ElementsOf(s)
    BY <2>1, Sorting
  <2> QED
    BY <2>1, <2>2 DEF Permutation
<1>2. Rotated \in Permutation
  <2>1. N \in Nat \ {0, 1} /\ plorder \in [1 .. N -> Player] /\ ElementsOf(plorder) = Player
    BY Numbers DEF Permutation
  <2> DEFINE at(k) == IF k = N THEN 1 ELSE k + 1
  <2>2. \A k \in 1 .. N : at(k) \in 1 .. N
    BY <2>1
  <2>3. Rotated = [k \in 1 .. N |-> plorder[at(k)]]
    BY DEF Rotated
  <2>4. \A j \in 1 .. N : \E k \in 1 .. N : at(k) = j
    <3> TAKE j \in 1 .. N
    <3> DEFINE k == IF j = 1 THEN N ELSE j - 1
    <3>1. k \in 1 .. N /\ at(k) = j
      BY <2>1
    <3> HIDE DEF at, k
    <3> QED
      BY <3>1
  <2> HIDE DEF at
  <2>5. Rotated \in [1 .. N -> Player]
    BY <2>1, <2>2, <2>3
  <2>6. Len(Rotated) = N /\ Len(plorder) = N
    BY <2>1, <2>5
  <2>7. \A q : q \in ElementsOf(Rotated) <=> q \in ElementsOf(plorder)
    BY <2>2, <2>3, <2>4, <2>6 DEF ElementsOf
  <2> QED
    BY <2>1, <2>5, <2>7 DEF Permutation
<1>3. \A score : {ExchangeSort(s, score) : s \in Permutation} \subseteq Permutation
  BY <1>1
<1> HIDE DEF Permutation
<1> QED
  BY <1>2, <1>3, EquipmentAssumption DEF OrdersFor

\* A round begins, with the lottery.
LEMMA RoundsBegin == EquipmentInv /\ RoundBegins => Correct
<1> SUFFICES ASSUME EquipmentInv, RoundBegins PROVE Correct
  OBVIOUS
<1> DEFINE x == [p \in Player |-> ForRound(p, pl[p])]
<1>1. phase = "ROUND_BEGIN" /\ UNCHANGED types /\ Raffle(x)
  BY DEF RoundBegins
<1>2. ClockOK'
  <2>1. plorder' \in Permutation
    BY Ordering DEF RoundBegins, EquipmentInv, ClockOK
  <2>2. round + 1 \in -1 .. NumRounds - 1
    BY <1>1, AiAssumption DEF EquipmentInv, ClockOK
  <2> QED
    BY <2>1, <2>2 DEF RoundBegins, EquipmentInv, ClockOK, Phase
<1>3. \A p \in Player :
          /\ x[p] \in TankOf(p) /\ x[p].kills = pl[p].kills /\ x[p].suicides = pl[p].suicides
          /\ Ready(x[p])
  BY Renewing DEF EquipmentInv, Tanks
<1>4. x \in [Player -> Tank]
  BY <1>3 DEF TankOf
<1> HIDE DEF x
<1>5. CASE pl' = x
  BY <1>1, <1>2, <1>3, <1>4, <1>5, AllAct
<1>6. CASE \E winner \in Player, stake \in Weapon :
              pl' = [x EXCEPT ![winner] = Award(x[winner], stake)]
  <2>1. PICK winner \in Player, stake \in Weapon :
            pl' = [x EXCEPT ![winner] = Award(x[winner], stake)]
    BY <1>6
  <2> DEFINE u == Award(x[winner], stake)
  <2>2. u \in TankOf(winner) /\ u.kills = x[winner].kills /\ u.suicides = x[winner].suicides
        /\ Ready(u)
    BY <1>3, Awarding
  <2>3. pl' = [x EXCEPT ![winner] = u]
    BY <2>1
  <2> HIDE DEF u
  <2>4. pl'[winner] = u /\ \A q \in Player : q # winner => pl'[q] = x[q]
    BY <1>4, <2>3
  <2>5. pl' \in [Player -> Tank]
    BY <1>4, <2>2, <2>3 DEF TankOf
  <2>6. \A q \in Player : /\ pl'[q] \in TankOf(q) /\ Ready(pl'[q])
                          /\ pl'[q].kills = pl[q].kills /\ pl'[q].suicides = pl[q].suicides
    BY <1>3, <2>2, <2>4
  <2> QED
    BY <1>1, <1>2, <2>5, <2>6, AllAct
<1>7. pl' = x \/ \E winner \in Player, stake \in Weapon :
                     pl' = [x EXCEPT ![winner] = Award(x[winner], stake)]
  <2>1. ASSUME Lottery
        PROVE  pl' = x \/ \E winner \in Player, stake \in Weapon :
                              pl' = [x EXCEPT ![winner] = Award(x[winner], stake)]
    <3>1. PICK winner \in Player, number \in 0 .. Len(Weapons) - 1 :
              IF Drawn(number) = None THEN pl' = x
              ELSE pl' = [x EXCEPT ![winner] = Award(x[winner], Drawn(number))]
      BY <1>1, <2>1 DEF Raffle
    <3>2. Drawn(number) \in Weapon \cup {None}
      BY Drawing, Catalogue
    <3> QED
      BY <3>1, <3>2
  <2> QED
    BY <1>1, <2>1 DEF Raffle
<1> QED
  BY <1>5, <1>6, <1>7
\* An order, whatever it does to the tank.
LEMMA OneOrders ==
    ASSUME EquipmentInv, NEW p \in Player, NEW u, Acts(p, pl[p], u), Order(p, u)
    PROVE  Correct
<1>1. phase = "ORDERS" /\ UNCHANGED clock /\ UNCHANGED types /\ pl' = [pl EXCEPT ![p] = u]
  BY DEF Order, Orders
<1>2. ClockOK' /\ phase \in Armoury \ {"FLIGHT"}
  BY <1>1 DEF clock, EquipmentInv, ClockOK, Armoury, Permutation
<1> QED
  BY <1>1, <1>2, OneActs

\* The weapon keys select a weapon.
LEMMA Turnstile ==
    ASSUME NEW p \in Player, NEW t \in TankOf(p), Ready(t), NEW way \in {1, -1}
    PROVE  LET At(k) == Further(Weapons, t.selweapon, (way * k) % Len(Weapons))
               k == CHOOSE j \in 1 .. Len(Weapons) :
                       Stocked(t, At(j)) /\ \A i \in 1 .. j - 1 : ~Stocked(t, At(i))
           IN  At(k) \in Weapon
<1> DEFINE L == Len(Weapons)
           At(k) == Further(Weapons, t.selweapon, (way * k) % L)
           First(j) == Stocked(t, At(j)) /\ \A i \in 1 .. j - 1 : ~Stocked(t, At(i))
           S == {j \in 1 .. L : Stocked(t, At(j))}
           k == CHOOSE j \in 1 .. L : First(j)
<1>1. L \in Nat \ {0} /\ t.selweapon \in ElementsOf(Weapons) /\ Stocked(t, t.selweapon)
  BY Catalogue DEF TankOf, Tank, Ready, Weapon
<1>2. L \in S
  <2>1. (way * L) % L = 0
    <3> HIDE DEF L
    <3>1. 0 \in 0 .. L - 1 /\ way \in Int /\ way * L \in Int /\ way * L = L * way + 0
      BY <1>1
    <3> QED
      BY <1>1, <3>1, Unique
  <2>2. At(L) = t.selweapon
    BY <1>1, <2>1, Walks
  <2> HIDE DEF At
  <2> QED
    BY <1>1, <2>2
<1>3. \E j \in 1 .. L : First(j)
  <2> HIDE DEF At
  <2>1. S \in SUBSET Nat /\ S # {}
    <3>1. S # {}
      <4> HIDE DEF S
      <4> QED
        BY <1>2
    <3> QED
      BY <1>1, <3>1
  <2>2. Least(S) \in S /\ \A j \in S : Least(S) <= j
    <3> HIDE DEF S
    <3> QED
      BY <2>1, Leasts
  <2>3. Least(S) \in 1 .. L /\ Stocked(t, At(Least(S)))
    BY <2>2
  <2>4. \A i \in 1 .. Least(S) - 1 : ~Stocked(t, At(i))
    <3> TAKE i \in 1 .. Least(S) - 1
    <3>1. i \in 1 .. L /\ ~(Least(S) <= i)
      BY <1>1, <2>3
    <3> QED
      BY <2>2, <3>1
  <2> QED
    BY <2>3, <2>4
<1>4. k \in 1 .. L
  <2> HIDE DEF First
  <2> QED
    BY <1>3
<1> HIDE DEF k
<1>5. (way * k) % L \in Int
  <2>1. way * k \in Int
    BY <1>1, <1>4
  <2> HIDE DEF L
  <2> QED
    BY <1>1, <2>1, DivMod
<1>6. At(k) \in Weapon
  BY <1>1, <1>5, Walks DEF Weapon
<1> QED
  BY <1>6 DEF k

\* The orders of a human player.
LEMMA HumansOrder == EquipmentInv /\ HumanOrders => Correct
<1> SUFFICES ASSUME EquipmentInv, HumanOrders PROVE Correct
  OBVIOUS
<1>1. PICK p \in Human : \/ AdvanceWeapon(p) \/ SelectShield(p) \/ RaiseShield(p)
                        \/ ToggleTriggers(p) \/ UseBattery(p) \/ Move(p)
  BY DEF HumanOrders
<1>2. p \in Player /\ pl[p] \in TankOf(p)
  BY DEF Human, EquipmentInv, Tanks
<1>3. \A u : Outfits(p, pl[p], u) => Acts(p, pl[p], u)
  BY <1>2, ActsTwice
<1>4. ASSUME AdvanceWeapon(p) PROVE Correct
  <2>1. PICK way \in {1, -1} :
            LET At(k) == Further(Weapons, pl[p].selweapon, (way * k) % Len(Weapons))
                k == CHOOSE j \in 1 .. Len(Weapons) :
                        Stocked(pl[p], At(j)) /\ \A i \in 1 .. j - 1 : ~Stocked(pl[p], At(i))
            IN  Order(p, SetWeapon(pl[p], At(k)))
    BY <1>4 DEF AdvanceWeapon
  <2>2. Ready(pl[p])
    BY <1>2, <2>1 DEF Order, Orders, EquipmentInv, Armoury
  <2>3. \E w \in Weapon : Order(p, SetWeapon(pl[p], w))
    BY <1>2, <2>1, <2>2, Turnstile
  <2>4. PICK w \in Weapon : Order(p, SetWeapon(pl[p], w))
    BY <2>3
  <2>5. Acts(p, pl[p], SetWeapon(pl[p], w))
    BY <1>2, SettingWeapon
  <2> QED
    BY <1>2, <2>4, <2>5, OneOrders
<1>5. ASSUME SelectShield(p) PROVE Correct
  <2>1. Acts(p, pl[p], AdvanceShield(pl[p]))
    BY <1>2, <1>3, Selecting
  <2> QED
    BY <1>2, <1>5, <2>1, OneOrders DEF SelectShield
<1>6. ASSUME RaiseShield(p) PROVE Correct
  <2>1. Acts(p, pl[p], ActivateShield(pl[p]))
    BY <1>2, <1>3, Raising
  <2> QED
    BY <1>2, <1>6, <2>1, OneOrders DEF RaiseShield
<1>7. ASSUME ToggleTriggers(p) PROVE Correct
  <2>1. Acts(p, pl[p], SetContactTriggers(pl[p], ~pl[p].contacttriggers))
    BY <1>2, <1>3, Triggering
  <2> QED
    BY <1>2, <1>7, <2>1, OneOrders DEF ToggleTriggers
<1>8. ASSUME UseBattery(p) PROVE Correct
  <2>1. Acts(p, pl[p], Recharged(p, pl[p]))
    BY <1>2, <1>3, <1>8, Recharging DEF UseBattery
  <2> QED
    BY <1>2, <1>8, <2>1, OneOrders DEF UseBattery
<1>9. ASSUME Move(p) PROVE Correct
  <2> DEFINE u == Refuelled(p, pl[p])
             v == IF u.fuel < NormalEfficiency THEN u
                  ELSE [u EXCEPT !.fuel = @ - NormalEfficiency]
  <2>1. Acts(p, pl[p], v)
    BY <1>2, <1>3, Refuelling
  <2>2. Order(p, v)
    BY <1>9 DEF Move
  <2> HIDE DEF v
  <2> QED
    BY <1>2, <2>1, <2>2, OneOrders
<1> QED
  BY <1>1, <1>4, <1>5, <1>6, <1>7, <1>8, <1>9

\* A tank that is told to fire, or has.
LEMMA Arming ==
    ASSUME NEW p \in Player, NEW t \in TankOf(p), NEW flag \in BOOLEAN
    PROVE  Acts(p, t, [t EXCEPT !.armed = flag])
<1> DEFINE u == [t EXCEPT !.armed = flag]
<1>1. t \in Tank
  BY DEF TankOf
<1>2. u \in Tank
  BY <1>1 DEF Tank
<1>3. /\ u.money = t.money /\ u.kills = t.kills /\ u.suicides = t.suicides
      /\ u.inventory = t.inventory /\ u.selweapon = t.selweapon /\ u.life = t.life
      /\ u.shield = t.shield
  BY <1>1 DEF Tank
<1> HIDE DEF u
<1> QED
  BY <1>1, <1>2, <1>3 DEF Acts, TankOf, Endless, Ready, Stocked, u

\* The end of a player's turn.
LEMMA OneFires ==
    ASSUME EquipmentInv, NEW p \in Player, Orders(p), NEW u, Acts(p, pl[p], u), Armed(p, u)
    PROVE  Correct
<1>1. pl[p] \in TankOf(p) /\ u \in TankOf(p)
  BY DEF EquipmentInv, Tanks, Acts
<1> DEFINE v == [u EXCEPT !.armed = TRUE]
<1>2. Acts(p, pl[p], v)
  <2>1. Acts(p, u, v)
    BY <1>1, Arming
  <2> HIDE DEF v
  <2> QED
    BY <1>1, <2>1, ActsTwice
<1>3. pl' = [pl EXCEPT ![p] = v] /\ UNCHANGED types /\ phase \in Armoury \ {"FLIGHT"}
  BY DEF Armed, Orders, Armoury
<1>4. ClockOK'
  BY Numbers DEF Armed, Orders, EquipmentInv, ClockOK, Phase, Permutation
<1> HIDE DEF v
<1> QED
  BY <1>2, <1>3, <1>4, OneActs

\* Humans and computers end their turns.
LEMMA OthersFire == EquipmentInv /\ (HumanFires \/ ComputerFires) => Correct
<1>1. ASSUME EquipmentInv, HumanFires PROVE Correct
  <2>1. PICK p \in Player : Orders(p) /\ Armed(p, pl[p])
    BY <1>1 DEF HumanFires, Human
  <2>2. pl[p] \in TankOf(p)
    BY <1>1 DEF EquipmentInv, Tanks
  <2>3. Acts(p, pl[p], pl[p])
    BY <2>2, OutfitsTwice, ActsTwice
  <2> QED
    BY <1>1, <2>1, <2>3, OneFires
<1>2. ASSUME EquipmentInv, ComputerFires PROVE Correct
  <2>1. PICK p \in Player \ Human :
            /\ Orders(p)
            /\ \E tank \in CASE realaitype[p] \in {"RANDOM", "NETWORK"} -> {pl[p]}
                             [] realaitype[p] = "MORON" -> LastWeapon(Prepared(p, pl[p]))
                             [] OTHER -> ByScore(Prepared(p, pl[p])) :
                   Armed(p, tank)
    BY <1>2 DEF ComputerFires
  <2> DEFINE t == pl[p]
             prepared == Prepared(p, t)
  <2>2. t \in TankOf(p)
    BY <1>2 DEF EquipmentInv, Tanks
  <2>3. Acts(p, t, t) /\ Acts(p, t, prepared)
    BY <2>2, OutfitsTwice, Preparing, ActsTwice
  <2>4. prepared \in TankOf(p)
    BY <2>3 DEF Acts
  <2>5. \A u \in ByScore(prepared) \cup LastWeapon(prepared) : Acts(p, t, u)
    <3> HIDE DEF prepared, t
    <3>1. \A u \in ByScore(prepared) \cup LastWeapon(prepared) : Acts(p, prepared, u)
      BY <2>4, Choosing
    <3> QED
      BY <2>2, <2>3, <3>1, ActsTwice
  <2>6. PICK u : Armed(p, u) /\ u \in {t} \cup ByScore(prepared) \cup LastWeapon(prepared)
    <3> HIDE DEF prepared, t
    <3> QED
      BY <2>1 DEF prepared, t
  <2> HIDE DEF prepared
  <2>7. Acts(p, pl[p], u)
    BY <2>3, <2>5, <2>6
  <2> QED
    BY <1>2, <2>1, <2>6, <2>7, OneFires
<1> QED
  BY <1>1, <1>2
\* The volleys leave the tanks.
LEMMA Creations == EquipmentInv /\ Creation => Correct
<1> SUFFICES ASSUME EquipmentInv, Creation PROVE Correct
  OBVIOUS
<1>1. /\ phase = "CREATION" /\ UNCHANGED types
      /\ pl' = [p \in Player |-> IF pl[p].armed /\ ~pl[p].dead
                                THEN [Fired(pl[p]) EXCEPT !.armed = FALSE] ELSE pl[p]]
  BY DEF Creation
<1>2. ClockOK'
  BY DEF Creation, EquipmentInv, ClockOK, Phase, Permutation
<1>3. \A p \in Player : pl[p] \in TankOf(p) /\ Ready(pl[p])
  BY <1>1 DEF EquipmentInv, Tanks, Armoury
<1>4. \A p \in Player : Acts(p, pl[p], pl'[p])
  <2> TAKE p \in Player
  <2> DEFINE u == Fired(pl[p])
             v == [u EXCEPT !.armed = FALSE]
  <2>1. Acts(p, pl[p], pl[p])
    BY <1>3, OutfitsTwice, ActsTwice
  <2>2. Acts(p, pl[p], u)
    BY <1>3, Firing
  <2>3. Acts(p, u, v)
    <3>1. u \in TankOf(p)
      BY <2>2 DEF Acts
    <3> HIDE DEF u
    <3> QED
      BY <3>1, Arming
  <2>4. pl'[p] = v \/ pl'[p] = pl[p]
    BY <1>1
  <2> HIDE DEF u, v
  <2>5. Acts(p, pl[p], v)
    BY <1>3, <2>2, <2>3, ActsTwice
  <2> QED
    BY <2>1, <2>4, <2>5
<1>5. \A p \in Player : /\ pl'[p] \in TankOf(p) /\ Ready(pl'[p])
                        /\ pl'[p].kills = pl[p].kills /\ pl'[p].suicides = pl[p].suicides
  BY <1>3, <1>4 DEF Acts
<1>6. pl' \in [Player -> Tank]
  <2>1. pl' = [p \in Player |-> pl'[p]]
    BY <1>1
  <2> QED
    BY <1>5, <2>1 DEF TankOf
<1> QED
  BY <1>1, <1>2, <1>5, <1>6, AllAct

\* While the volleys fly, the clock stands.
LEMMA Flying ==
    ASSUME EquipmentInv, phase = "FLIGHT", UNCHANGED clock, UNCHANGED types,
           pl' \in Tanks, AutoStep, CreditStep, \A q \in Player : Ready(pl'[q])
    PROVE  Correct
<1>1. ClockOK' /\ phase' = "FLIGHT"
  BY DEF clock, EquipmentInv, ClockOK, Permutation
<1>2. ShopStep
  BY DEF ShopStep
<1> QED
  BY <1>1, <1>2, Same DEF Correct, EquipmentInv

\* While the volleys fly, one tank is changed but not hurt.
LEMMA OneFlies ==
    ASSUME EquipmentInv, phase = "FLIGHT", UNCHANGED clock, UNCHANGED types,
           NEW p \in Player, NEW u \in TankOf(p), pl' = [pl EXCEPT ![p] = u],
           u.kills = pl[p].kills, u.suicides = pl[p].suicides, u.life = pl[p].life,
           Ready(pl[p]) => Ready(u)
    PROVE  Correct
<1>1. pl \in Tanks /\ (\A q \in Player : Ready(pl[q])) /\ phase # "SHOP"
  BY DEF EquipmentInv, Armoury
<1>2. pl' \in Tanks /\ AutoStep /\ CreditStep /\ \A q \in Player : Ready(pl'[q])
  BY <1>1, OneTank
<1> QED
  BY <1>2, Flying

\* A hit on a shield.
LEMMA ShieldsHit == EquipmentInv /\ ShieldHit => Correct
<1> SUFFICES ASSUME EquipmentInv, ShieldHit PROVE Correct
  OBVIOUS
<1>1. phase = "FLIGHT" /\ UNCHANGED clock /\ UNCHANGED types
  BY DEF ShieldHit
<1>2. AbsorbHit * SapperRate \in Nat /\ AbsorbHit \in Nat /\ Sap \subseteq Nat
  BY Numbers, Product, EquipmentAssumption
<1>3. PICK p \in Player, drain \in Nat : pl' = [pl EXCEPT ![p] = Drained(pl[p], drain)]
  BY <1>2 DEF ShieldHit
<1> DEFINE u == Drained(pl[p], drain)
<1>4. pl[p] \in TankOf(p)
  BY DEF EquipmentInv, Tanks
<1>5. /\ u \in TankOf(p) /\ u.kills = pl[p].kills /\ u.suicides = pl[p].suicides
      /\ u.life = pl[p].life /\ (Ready(pl[p]) => Ready(u))
  BY <1>4, Draining
<1>6. pl' = [pl EXCEPT ![p] = u]
  BY <1>3
<1> HIDE DEF u
<1> QED
  BY <1>1, <1>5, <1>6, OneFlies

\* An explosion.
LEMMA Explodes == EquipmentInv /\ Explosion => Correct
<1> SUFFICES ASSUME EquipmentInv, Explosion PROVE Correct
  OBVIOUS
<1>1. phase = "FLIGHT" /\ UNCHANGED clock /\ UNCHANGED types
  BY DEF Explosion
<1>2. pl \in Tanks /\ \A q \in Player : Ready(pl[q])
  BY <1>1 DEF EquipmentInv, Armoury
<1>3. PICK owner \in Player, damage \in [Player -> Damage \cup {0}], napalm \in BOOLEAN :
          pl' = DamageAll(owner, damage, napalm)
  BY DEF Explosion
<1>4. damage \in [Player -> Nat]
  <2>1. Damage \cup {0} \subseteq Nat
    BY EquipmentAssumption
  <2> QED
    BY <2>1
<1> DEFINE z == DamageAll(owner, damage, napalm)
<1>5. /\ z \in Tanks
      /\ \A q \in Player : Ready(pl[q]) => Ready(z[q])
      /\ Credits(z) - Credits(pl) = Cardinality(Died(z))
      /\ \A q \in Player :
             /\ 0 < z[q].life /\ z[q].life < pl[q].life
             /\ "AUTO_DEF" \in pl[q].ac_state /\ InStock(pl[q]) # {}
             => z[q].shield # NoShield
  BY <1>2, <1>4, Exploding
<1>6. pl' = z
  BY <1>3
<1> HIDE DEF z
<1>7. AutoStep
  <2>1. \A q \in Player : (\E a \in ShieldItems : Stocked(pl[q], a)) => InStock(pl[q]) # {}
    BY DEF InStock
  <2> QED
    BY <1>5, <1>6, <2>1 DEF AutoStep
<1>8. CreditStep
  <2>1. Died(z) = {p \in Player : phase = "FLIGHT" /\ pl[p].life > 0 /\ pl'[p].life = 0}
    BY <1>1, <1>6 DEF Died
  <2> QED
    BY <1>5, <1>6, <2>1 DEF CreditStep
<1> QED
  BY <1>1, <1>2, <1>5, <1>6, <1>7, <1>8, Flying

\* A death is charged.
LEMMA Dies == EquipmentInv /\ Deaths => Correct
<1> SUFFICES ASSUME EquipmentInv, Deaths PROVE Correct
  OBVIOUS
<1>1. phase = "FLIGHT" /\ UNCHANGED clock /\ UNCHANGED types
  BY DEF Deaths
<1>2. PICK p \in Player :
          pl' = [pl EXCEPT ![p] = Charged([pl[p] EXCEPT !.dead = TRUE], Scoring.deathloss)]
  BY DEF Deaths, Dying
<1> DEFINE t == pl[p]
           s == [t EXCEPT !.dead = TRUE]
           u == Charged(s, Scoring.deathloss)
<1>3. t \in TankOf(p) /\ t \in Tank
  BY DEF EquipmentInv, Tanks, TankOf
<1>4. s \in Tank
  <2> HIDE DEF t
  <2> QED
    BY <1>3 DEF Tank
<1>5. /\ s.kills = t.kills /\ s.suicides = t.suicides /\ s.inventory = t.inventory
      /\ s.selweapon = t.selweapon /\ s.life = t.life /\ s.shield = t.shield
  <2> HIDE DEF t
  <2> QED
    BY <1>3 DEF Tank
<1>6. pl' = [pl EXCEPT ![p] = u]
  BY <1>2
<1> HIDE DEF s, t
<1>7. s \in TankOf(p) /\ (Ready(t) => Ready(s))
  BY <1>3, <1>4, <1>5 DEF TankOf, Endless, Ready, Stocked
<1>8. /\ u \in TankOf(p) /\ Bystander(s, u) /\ u.kills = s.kills /\ u.suicides = s.suicides
      /\ (Ready(s) => Ready(u))
  BY <1>7, Scores, Paying
<1> HIDE DEF u
<1>9. /\ u.kills = pl[p].kills /\ u.suicides = pl[p].suicides /\ u.life = pl[p].life
      /\ (Ready(pl[p]) => Ready(u))
  BY <1>5, <1>7, <1>8 DEF Bystander, t
<1> QED
  BY <1>1, <1>6, <1>8, <1>9, OneFlies

\* The winner's bonus and everybody's interest.
LEMMA Earning ==
    ASSUME NEW p \in Player, NEW t \in TankOf(p), interest \in Nat
    PROVE  LET u == Interest(Won(t))
           IN  u \in TankOf(p) /\ u.kills = t.kills /\ u.suicides = t.suicides
<1> DEFINE s == [t EXCEPT !.numwins = @ + 1]
           w == Won(t)
           m == Quotient(w.money * (100 + interest), 100)
           u == [w EXCEPT !.money = m]
<1>1. t \in Tank
  BY DEF TankOf
<1>2. s \in Tank
  <2>1. t.numwins + 1 \in Nat
    BY <1>1 DEF Tank
  <2> DEFINE n == t.numwins + 1
  <2>2. s = [t EXCEPT !.numwins = n]
    OBVIOUS
  <2> HIDE DEF n, s
  <2>3. n \in Nat
    BY <2>1 DEF n
  <2> QED
    BY <1>1, <2>2, <2>3 DEF Tank
<1>3. /\ s.kills = t.kills /\ s.suicides = t.suicides /\ s.inventory = t.inventory
      /\ s.life = t.life /\ s.shield = t.shield
  BY <1>1 DEF Tank
<1> HIDE DEF s
<1>4. s \in TankOf(p)
  BY <1>2, <1>3 DEF TankOf, Endless
<1>5. LET v == Paid(s, Scoring.survivalbonus)
      IN  v \in TankOf(p) /\ v.kills = s.kills /\ v.suicides = s.suicides
  BY <1>4, Scores, Paying
<1>6. w \in TankOf(p) /\ w.kills = t.kills /\ w.suicides = t.suicides
  BY <1>3, <1>5 DEF Won, s
<1> HIDE DEF w
<1>7. m \in Int
  <2>1. w.money \in Int
    BY <1>6 DEF TankOf, Tank
  <2>2. w.money * (100 + interest) \in Int
    BY <2>1
  <2> QED
    BY <2>2, Quotients
<1>8. Interest(w) = u
  BY DEF Interest
<1> HIDE DEF m
<1>9. u \in Tank /\ u.kills = w.kills /\ u.suicides = w.suicides
      /\ u.inventory = w.inventory /\ u.life = w.life /\ u.shield = w.shield
  <2>1. w \in Tank
    BY <1>6 DEF TankOf
  <2>2. u \in Tank
    BY <1>7, <2>1 DEF Tank
  <2> QED
    BY <2>1, <2>2 DEF Tank
<1> HIDE DEF u
<1>10. u \in TankOf(p)
  BY <1>6, <1>9 DEF TankOf, Endless
<1> QED
  BY <1>6, <1>8, <1>9, <1>10 DEF w

\* The end of a round.
LEMMA RoundsEnd == EquipmentInv /\ RoundEnds => Correct
<1> SUFFICES ASSUME EquipmentInv, RoundEnds PROVE Correct
  OBVIOUS
<1>1. /\ phase = "ROUND_END" /\ UNCHANGED types
      /\ pl' = [p \in Player |-> Interest(Won(pl[p]))]
  BY DEF RoundEnds
<1>2. ClockOK' /\ phase' \notin Armoury
  <2>1. phase' \in {"SHOP", "GAME_END"} /\ (phase' = "SHOP" => round < NumRounds - 1)
    BY AiAssumption DEF RoundEnds, EquipmentInv, ClockOK
  <2>2. interest' \in Nat /\ (interest' = InterestRate \/ interest' <= MaxInterest)
    <3>1. interest \in Nat /\ MaxInterest \in Nat
      BY EquipmentAssumption DEF EquipmentInv, ClockOK
    <3>2. \A change \in -3 .. 3 :
              /\ Within(0, MaxInterest, interest + change) \in Nat
              /\ Within(0, MaxInterest, interest + change) <= MaxInterest
      BY <3>1 DEF Within
    <3> QED
      BY <3>1, <3>2 DEF RoundEnds, EquipmentInv, ClockOK
  <2> QED
    BY <2>1, <2>2, Numbers
       DEF RoundEnds, EquipmentInv, ClockOK, Phase, Permutation, Armoury, Player
<1>3. \A p \in Player : pl[p] \in TankOf(p)
  BY DEF EquipmentInv, Tanks
<1>4. interest \in Nat
  BY DEF EquipmentInv, ClockOK
<1>5. \A p \in Player :
          /\ Interest(Won(pl[p])) \in TankOf(p) /\ Interest(Won(pl[p])).kills = pl[p].kills
          /\ Interest(Won(pl[p])).suicides = pl[p].suicides
  BY <1>3, <1>4, Earning
<1>6. \A p \in Player : pl'[p] = Interest(Won(pl[p]))
  BY <1>1
<1>7. pl' \in [Player -> Tank]
  BY <1>1, <1>5 DEF TankOf
<1> QED
  BY <1>1, <1>2, <1>5, <1>6, <1>7, AllAct

-----------------------------------------------------------------------------
(* The theorems.                                                           *)

\* Every step keeps the invariant and has the three properties.
LEMMA Steps == EquipmentInv /\ [Next]_vars => Correct
<1> SUFFICES ASSUME EquipmentInv, [Next]_vars PROVE Correct
  OBVIOUS
<1>1. CASE UNCHANGED vars
  <2>1. UNCHANGED clock /\ UNCHANGED types /\ pl' = pl
    BY <1>1 DEF vars
  <2>2. ClockOK' /\ (phase' \in Armoury => phase \in Armoury)
    BY <2>1 DEF clock, EquipmentInv, ClockOK, Permutation
  <2> QED
    BY <2>1, <2>2, NothingDone
<1> QED
  BY <1>1, ComputersShop, HumansBuy, HumansSell, OthersNext, OthersDefend, TurnsBegin,
     RoundsBegin, HumansOrder, OthersFire, Creations, ShieldsHit, Explodes, Dies, RoundsEnd
     DEF Next

\* The invariant holds of every reachable state.
LEMMA Invariance == Spec => []EquipmentInv
<1>1. EquipmentInv /\ [Next]_vars => EquipmentInv'
  BY Steps DEF Correct
<1> QED
  BY <1>1, Beginning, PTL DEF Spec

\* A tank of the invariant is one of the type invariant.
LEMMA Implied == EquipmentInv => SelectionInStock
<1> SUFFICES ASSUME EquipmentInv PROVE SelectionInStock
  OBVIOUS
<1>1. \A p \in Player :
          /\ pl[p].money \in Int /\ pl[p].fuel \in Nat
          /\ pl[p].life \in 0 .. FullLife(p)
          /\ pl[p].inventory \in [Item -> 0 .. MaxItems]
          /\ pl[p].ac_state \subseteq StateBit
          /\ pl[p].selweapon \in Weapon /\ pl[p].selshield \in Accessory
          /\ \/ pl[p].shield = NoShield
             \/ /\ pl[p].shield.info \in ShieldItems
                /\ pl[p].shield.life \in 1 .. Info[pl[p].shield.info].shield
  <2> TAKE p \in Player
  <2> DEFINE t == pl[p]
  <2>1. t \in Tank /\ t.life <= FullLife(p) /\ SoundShield(t.shield)
    BY DEF EquipmentInv, Tanks, TankOf
  <2> HIDE DEF t
  <2>2. /\ t.money \in Int /\ t.fuel \in Nat /\ t.life \in Nat /\ t.inventory \in Stock
        /\ t.ac_state \in SUBSET StateBit /\ t.selweapon \in Weapon /\ t.selshield \in Accessory
        /\ t.shield \in Shield
    BY <2>1 DEF Tank
  <2>3. t.life \in 0 .. FullLife(p)
    BY <2>1, <2>2, Numbers
  <2>4. \/ t.shield = NoShield
        \/ /\ t.shield.info \in ShieldItems
           /\ t.shield.life \in 1 .. Info[t.shield.info].shield
    BY <2>1, <2>2 DEF SoundShield, Shield, ShieldItems
  <2> QED
    BY <2>2, <2>3, <2>4 DEF Stock, t
<1>2. EqTypeOK
  BY <1>1 DEF EqTypeOK, EquipmentInv, ClockOK, TypesOK
<1>3. phase \in {"AUTO_DEFENSE", "TURN_BEGIN", "ORDERS", "CREATION"} =>
          \A p \in Player : Stocked(pl[p], pl[p].selweapon)
  BY DEF EquipmentInv, Armoury, Ready
<1> QED
  BY <1>2, <1>3 DEF SelectionInStock

\* The weapon a tank goes into a turn with is in stock, for every catalogue:
\* sc_weapon_create may count it down without a look at the stock.
THEOREM SelectionsStocked == Spec => []SelectionInStock
  BY Invariance, Implied, PTL

\* Auto defense leaves no tank that survives a hit without a shield it has.
THEOREM AutoDefended == Spec => AutoDefenseHolds
<1>1. EquipmentInv /\ [Next]_vars => [AutoStep]_vars
  BY Steps DEF Correct
<1>2. Spec => [][AutoStep]_vars
  BY <1>1, Invariance, PTL DEF Spec
<1> QED
  BY <1>2 DEF AutoDefenseHolds, AutoStep

\* Every death is credited, once, however many tanks an explosion kills.
THEOREM DeathsCredited == Spec => OneCreditPerDeath
<1>1. EquipmentInv /\ [Next]_vars =>
          [Credits(pl') - Credits(pl)
              = Cardinality({p \in Player :
                                phase = "FLIGHT" /\ pl[p].life > 0 /\ pl'[p].life = 0})]_vars
  BY Steps DEF Correct, CreditStep
<1> QED
  BY <1>1, Invariance, PTL DEF Spec, OneCreditPerDeath

\* No shopping makes money, whatever the prices and the bundles.
THEOREM ShoppingIsFair == Spec => ShoppingMakesNoMoney
<1>1. EquipmentInv /\ [Next]_vars => [ShopStep]_vars
  BY Steps DEF Correct
<1>2. Spec => [][ShopStep]_vars
  BY <1>1, Invariance, PTL DEF Spec
<1> QED
  BY <1>2 DEF ShoppingMakesNoMoney, ShopStep
=============================================================================
