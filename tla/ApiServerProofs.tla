--------------------------- MODULE ApiServerProofs ---------------------------
(***************************************************************************)
(* The access policy, the login limiter and the signing key of ApiServer,  *)
(* for any number of clients, addresses, rules, crashes and keys.          *)
(***************************************************************************)
EXTENDS ApiServer, TLAPS, FiniteSetTheorems, SequenceTheorems, WellFoundedInduction

PolicyTypeOK ==
    /\ api \in Boot \cup {"ready", "stopped"}
    /\ casbin_rule \subseteq PolicyFile /\ enforcer \subseteq PolicyFile
    /\ cut \in BOOLEAN

\* What each step of lifespan relies on: the rules in memory are the table from
\* the load on, and the table is whole once the seeding is over.
PolicyInv ==
    /\ PolicyTypeOK
    /\ PolicyIsWhole
    /\ api \in {"seed", "save", "redis", "ready"} => enforcer = casbin_rule
    /\ api = "save" => casbin_rule = PolicyFile
    /\ api \in {"redis", "ready"} => casbin_rule = PolicyFile \/ cut

LEMMA PolicyInvInit == Init => PolicyInv
BY DEF Init, PolicyInv, PolicyTypeOK, PolicyIsWhole, Boot

\* The line that completes the file leaves nothing out.
LEMMA LastLine ==
  ASSUME Rules \in Nat \ {0}, enforcer \subseteq PolicyFile, 1 .. Rules - 1 \subseteq enforcer
  PROVE  enforcer \cup {Rules} = PolicyFile
<1>1. \A line \in PolicyFile : line = Rules \/ line \in 1 .. Rules - 1
  BY DEF PolicyFile
<1>2. Rules \in PolicyFile
  BY DEF PolicyFile
<1> QED BY <1>1, <1>2

LEMMA FirstLine ==
  ASSUME Rules \in Nat \ {0}
  PROVE  PolicyFile # {}
<1>1. 1 \in 1 .. Rules
  OBVIOUS
<1> QED BY <1>1 DEF PolicyFile

LEMMA PolicyInvNext == PolicyInv /\ [Next]_vars => PolicyInv'
<1> SUFFICES ASSUME PolicyInv, [Next]_vars PROVE PolicyInv'
  OBVIOUS
<1> USE DEF PolicyInv, PolicyTypeOK, PolicyIsWhole, Boot
<1>r. Rules \in Nat \ {0}
  BY ServerAssumption
<1>n. PolicyFile # {}
  BY <1>r, FirstLine
<1>1. CASE VerifyModelIntegrity
  BY <1>1 DEF VerifyModelIntegrity, Passes
<1>2. CASE GetJwtSecret
  BY <1>2 DEF GetJwtSecret, Passes
<1>3. CASE CheckPolicyFile
  BY <1>3 DEF CheckPolicyFile, Passes
<1>4. CASE LoadPolicy
  BY <1>4, <1>n DEF LoadPolicy
<1>5. CASE AddPolicy
  <2>1. PICK line \in PolicyFile \ enforcer :
          /\ 1 .. line - 1 \subseteq enforcer
          /\ enforcer' = enforcer \cup {line}
          /\ casbin_rule' = casbin_rule \cup {line}
          /\ api' = IF line = Rules THEN "save" ELSE "seed"
    BY <1>5 DEF AddPolicy
  <2>2. enforcer' = casbin_rule' /\ enforcer' \subseteq PolicyFile /\ cut' = cut /\ api = "seed"
    BY <1>5, <2>1 DEF AddPolicy
  <2>3. CASE line = Rules
    <3>1. casbin_rule' = PolicyFile
      BY <1>r, <2>1, <2>2, <2>3, LastLine
    <3> QED BY <2>1, <2>2, <2>3, <3>1
  <2>4. CASE line # Rules
    BY <2>1, <2>2, <2>4
  <2> QED BY <2>3, <2>4
<1>6. CASE SavePolicy
  BY <1>6 DEF SavePolicy
<1>7. CASE InitCache
  BY <1>7 DEF InitCache
<1>8. CASE Start
  BY <1>8 DEF Start
<1>9. CASE Crash
  BY <1>9 DEF Crash
<1>10. CASE UNCHANGED bootVars
  BY <1>10 DEF bootVars
<1>11. VaultRestart \/ PutSecret \/ Tick \/ Receive
         \/ (\E b \in Browser : TokenExpires(b) \/ AccountGoes(b))
         \/ (\E b \in Browser : RefuseLogin(b) \/ Login(b) \/ \E rule \in PolicyFile : Request(b, rule))
         \/ UNCHANGED vars => UNCHANGED bootVars
  BY DEF VaultRestart, PutSecret, Tick, Receive, TokenExpires, AccountGoes, RefuseLogin, Login,
         Request, vars
<1> QED
  BY <1>1, <1>2, <1>3, <1>4, <1>5, <1>6, <1>7, <1>8, <1>9, <1>10, <1>11 DEF Next, BootStep

\* However often the container is stopped, and wherever in its startup: it serves
\* the whole policy, unless a seeding was interrupted after its first rule.
THEOREM PolicyTheorem == Spec => []PolicyIsWhole
<1>1. PolicyInv => PolicyIsWhole
  BY DEF PolicyInv
<1> QED BY PolicyInvInit, PolicyInvNext, <1>1, PTL DEF Spec

-----------------------------------------------------------------------------
(* The lists of the login limiter.                                         *)

InOrder(ages) == \A i, j \in 1 .. Len(ages) : i < j => ages[i] >= ages[j]

\* What is too old comes first: to cut the front off is to filter the list.
LEMMA OldestFirst ==
  ASSUME NEW ages \in Seq(Nat), InOrder(ages), NEW age \in Nat
  PROVE  \E m \in 0 .. Len(ages) :
            /\ Younger(ages, age) = SubSeq(ages, m + 1, Len(ages))
            /\ \A i \in 1 .. Len(ages) : ages[i] < age <=> i > m
<1> DEFINE n == Len(ages)
           young == {i \in 1 .. n : ages[i] < age}
           old == {i \in DOMAIN ages : ages[i] >= age}
<1>1. n \in Nat /\ DOMAIN ages = 1 .. n /\ \A i \in 1 .. n : ages[i] \in Nat
  OBVIOUS
<1>2. PICK m \in 0 .. n : \A i \in 1 .. n : ages[i] < age <=> i > m
  <2>1. CASE young = {}
    <3>1. \A i \in 1 .. n : ~(ages[i] < age) /\ ~(i > n)
      BY <1>1, <2>1
    <3>2. n \in 0 .. n
      BY <1>1
    <3> QED BY <3>1, <3>2
  <2>2. CASE young # {}
    <3> DEFINE Less == OpToRel(<, Nat)
    <3>1. young \subseteq Nat
      BY <1>1
    <3>2. PICK f \in young : \A i \in young : ~(<<i, f>> \in Less)
      <4> HIDE DEF young, Less
      <4>1. IsWellFoundedOn(Less, Nat)
        BY NatLessThanWellFounded DEF Less
      <4> QED BY <2>2, <3>1, <4>1, WFMin
    <3>3. \A i \in young : ~(i < f)
      BY <3>1, <3>2 DEF OpToRel
    <3>4. f \in 1 .. n /\ ages[f] < age
      OBVIOUS
    <3>5. f - 1 \in 0 .. n
      BY <1>1, <3>4
    <3>6. ASSUME NEW i \in 1 .. n PROVE ages[i] < age <=> i > f - 1
      <4>1. CASE i < f
        BY <1>1, <3>3, <3>4, <4>1
      <4>2. CASE i >= f
        <5>1. ages[i] <= ages[f]
          BY <1>1, <3>4, <4>2 DEF InOrder
        <5> QED BY <1>1, <3>4, <4>2, <5>1
      <4> QED BY <1>1, <3>4, <4>1, <4>2
    <3> QED BY <3>5, <3>6
  <2> QED BY <2>1, <2>2
<1>3. old = 1 .. m
  <2>1. \A i \in 1 .. n : ages[i] >= age <=> i <= m
    BY <1>1, <1>2
  <2> QED BY <1>1, <2>1
<1>4. Cardinality(old) = m
  <2>1. m \in Nat
    BY <1>1
  <2>2. Cardinality(1 .. m) = IF 1 > m THEN 0 ELSE m - 1 + 1
    BY <2>1, FS_Interval
  <2> HIDE DEF old
  <2> QED BY <1>3, <2>1, <2>2
<1>5. Younger(ages, age) = SubSeq(ages, m + 1, n)
  BY <1>4 DEF Younger
<1> QED BY <1>2, <1>5

\* The attempts that stay are the young ones, in their order.
LEMMA YoungerOnes ==
  ASSUME NEW ages \in Seq(Nat), InOrder(ages), NEW age \in Nat
  PROVE  \E m \in 0 .. Len(ages) :
            /\ \A i \in 1 .. Len(ages) : ages[i] < age <=> i > m
            /\ Younger(ages, age) \in Seq(Nat)
            /\ Len(Younger(ages, age)) = Len(ages) - m
            /\ \A i \in 1 .. Len(ages) - m :
                  Younger(ages, age)[i] = ages[m + i] /\ ages[m + i] < age
<1> DEFINE n == Len(ages)
<1>1. n \in Nat /\ \A i \in 1 .. n : ages[i] \in Nat
  OBVIOUS
<1>2. PICK m \in 0 .. n : /\ Younger(ages, age) = SubSeq(ages, m + 1, n)
                          /\ \A i \in 1 .. n : ages[i] < age <=> i > m
  BY OldestFirst
<1> HIDE DEF n
<1>3. m \in Nat /\ m <= n
  BY <1>1
<1>4. \A i \in m + 1 .. n : ages[i] \in Nat
  BY <1>1, <1>3
<1>5. /\ SubSeq(ages, m + 1, n) \in Seq(Nat)
      /\ Len(SubSeq(ages, m + 1, n)) = IF m + 1 <= n THEN n - (m + 1) + 1 ELSE 0
      /\ \A i \in 1 .. n - (m + 1) + 1 : SubSeq(ages, m + 1, n)[i] = ages[m + 1 + i - 1]
  <2>1. m + 1 \in Int /\ n \in Int
    BY <1>1, <1>3
  <2> QED BY <1>4, <2>1, SubSeqProperties
<1>6. Len(SubSeq(ages, m + 1, n)) = n - m
  <2>1. n \in Nat /\ (IF m + 1 <= n THEN n - (m + 1) + 1 ELSE 0) = n - m
    <3>1. n \in Nat
      BY <1>1
    <3> QED BY ONLY <1>3, <3>1
  <2> QED BY <1>1, <1>5, <2>1
<1>7. \A i \in 1 .. n - m : SubSeq(ages, m + 1, n)[i] = ages[m + i] /\ ages[m + i] < age
  <2>1. \A i \in 1 .. n - m : /\ i \in 1 .. n - (m + 1) + 1 /\ m + 1 + i - 1 = m + i
                              /\ m + i \in 1 .. n /\ m + i > m
    BY <1>1, <1>3
  <2> QED BY <1>2, <1>5, <2>1
<1> QED BY <1>2, <1>5, <1>6, <1>7 DEF n

\* A sequence is one of any set that all its elements are in.
LEMMA SeqOfLess ==
  ASSUME NEW S, NEW s \in Seq(S), NEW T, \A i \in 1 .. Len(s) : s[i] \in T
  PROVE  s \in Seq(T)
<1>1. SubSeq(s, 1, Len(s)) \in Seq(T)
  <2>1. 1 \in Int /\ Len(s) \in Int
    OBVIOUS
  <2> QED BY <2>1, SubSeqProperties
<1> QED BY <1>1, SubSeqFull

LEMMA YoungerInOrder ==
  ASSUME NEW ages \in Seq(Nat), InOrder(ages), NEW age \in Nat
  PROVE  /\ InOrder(Younger(ages, age))
         /\ Len(Younger(ages, age)) \in 0 .. Len(ages)
         /\ Younger(ages, age) \in Seq(0 .. age - 1)
<1> DEFINE new == Younger(ages, age)
<1>1. PICK m \in 0 .. Len(ages) :
            /\ new \in Seq(Nat) /\ Len(new) = Len(ages) - m
            /\ \A i \in 1 .. Len(ages) - m : new[i] = ages[m + i] /\ ages[m + i] < age
  BY YoungerOnes
<1>2. Len(ages) \in Nat /\ m \in Nat /\ \A i \in 1 .. Len(ages) : ages[i] \in Nat
  OBVIOUS
<1> HIDE DEF new
<1>3. \A i \in 1 .. Len(new) : new[i] \in Nat
  <2>1. new \in Seq(Nat)
    BY <1>1
  <2> QED BY <2>1, ElementOfSeq
<1>4. \A i \in 1 .. Len(new) : new[i] = ages[m + i] /\ new[i] \in 0 .. age - 1
  <2>1. ASSUME NEW i \in 1 .. Len(new) PROVE new[i] = ages[m + i] /\ new[i] \in 0 .. age - 1
    <3>1. new[i] = ages[m + i] /\ new[i] < age /\ new[i] \in Nat
      BY <1>1, <1>3, <2>1
    <3>2. new[i] \in 0 .. age - 1
      BY ONLY <3>1, age \in Nat
    <3> QED BY <3>1, <3>2
  <2> QED BY <2>1
<1>5. InOrder(new)
  <2>1. ASSUME NEW i \in 1 .. Len(new), NEW j \in 1 .. Len(new), i < j PROVE new[i] >= new[j]
    <3>1. m + i \in 1 .. Len(ages) /\ m + j \in 1 .. Len(ages) /\ m + i < m + j
      BY <1>1, <1>2, <2>1
    <3>2. ages[m + i] >= ages[m + j]
      BY <3>1 DEF InOrder
    <3> QED BY <1>4, <2>1, <3>2
  <2> QED BY <2>1 DEF InOrder
<1>6. new \in Seq(0 .. age - 1)
  BY <1>1, <1>4, SeqOfLess
<1>7. Len(new) \in 0 .. Len(ages)
  BY <1>1, <1>2
<1> QED BY <1>5, <1>6, <1>7 DEF new

LEMMA AllYoung ==
  ASSUME NEW ages \in Seq(Nat), InOrder(ages), NEW age \in Nat,
         \A i \in 1 .. Len(ages) : ages[i] < age
  PROVE  Younger(ages, age) = ages
<1>1. PICK m \in 0 .. Len(ages) : /\ Younger(ages, age) = SubSeq(ages, m + 1, Len(ages))
                                  /\ \A i \in 1 .. Len(ages) : ages[i] < age <=> i > m
  BY OldestFirst
<1>2. m = 0
  <2>1. Len(ages) \in Nat /\ m \in Nat /\ m <= Len(ages)
    OBVIOUS
  <2>2. m # 0 => m \in 1 .. Len(ages)
    BY <2>1
  <2> QED BY <1>1, <2>1, <2>2
<1> QED BY <1>1, <1>2, SubSeqFull

LEMMA OlderOnes ==
  ASSUME NEW ages \in Seq(0 .. Window), InOrder(ages)
  PROVE  /\ Older(ages) \in Seq(0 .. Window) /\ Len(Older(ages)) = Len(ages)
         /\ InOrder(Older(ages))
         /\ \A i \in 1 .. Len(ages) :
               Older(ages)[i] = IF ages[i] = Window THEN Window ELSE ages[i] + 1
<1>1. Window \in Nat \ {0} /\ Len(ages) \in Nat /\ DOMAIN ages = 1 .. Len(ages)
  BY ServerAssumption
<1>2. \A i \in 1 .. Len(ages) : ages[i] \in 0 .. Window
  BY ElementOfSeq
<1>3. DOMAIN Older(ages) = 1 .. Len(ages)
      /\ \A i \in 1 .. Len(ages) : Older(ages)[i] = IF ages[i] = Window THEN Window ELSE ages[i] + 1
  BY <1>1 DEF Older
<1>4. \A i \in 1 .. Len(ages) : Older(ages)[i] \in 0 .. Window
  <2>1. ASSUME NEW i \in 1 .. Len(ages) PROVE Older(ages)[i] \in 0 .. Window
    <3>1. Older(ages)[i] = (IF ages[i] = Window THEN Window ELSE ages[i] + 1) /\ ages[i] \in 0 .. Window
      BY <1>2, <1>3
    <3> QED BY ONLY <1>1, <3>1
  <2> QED BY <2>1
<1>5. Older(ages) \in Seq(0 .. Window) /\ Len(Older(ages)) = Len(ages)
  <2>1. Older(ages) \in [1 .. Len(ages) -> 0 .. Window]
    BY <1>1, <1>3, <1>4 DEF Older
  <2> HIDE DEF Older
  <2> QED BY <1>1, <2>1
<1>6. InOrder(Older(ages))
  <2>1. ASSUME NEW i \in 1 .. Len(ages), NEW j \in 1 .. Len(ages), i < j
        PROVE  Older(ages)[i] >= Older(ages)[j]
    <3>1. ages[i] >= ages[j] /\ ages[i] \in 0 .. Window /\ ages[j] \in 0 .. Window
      BY <1>2, <2>1 DEF InOrder
    <3> QED BY <1>1, <1>3, <3>1
  <2> QED BY <1>5, <2>1 DEF InOrder
<1> QED BY <1>3, <1>5, <1>6

\* What was dropped early would have been too old later anyway.
LEMMA DroppedStaysDropped ==
  ASSUME NEW ages \in Seq(0 .. Window), InOrder(ages)
  PROVE  Younger(Older(Younger(ages, Window)), Window) = Younger(Older(ages), Window)
<1> DEFINE n == Len(ages)
           kept == Younger(ages, Window)
           after == Older(ages)
           keptAfter == Older(kept)
<1>1. Window \in Nat \ {0} /\ n \in Nat /\ ages \in Seq(Nat)
  BY ServerAssumption
<1>2. PICK m \in 0 .. n :
         /\ \A i \in 1 .. n : ages[i] < Window <=> i > m
         /\ kept \in Seq(Nat) /\ Len(kept) = n - m
         /\ \A i \in 1 .. n - m : kept[i] = ages[m + i] /\ ages[m + i] < Window
  BY <1>1, YoungerOnes
<1>3. kept \in Seq(0 .. Window) /\ InOrder(kept)
  <2>1. kept \in Seq(0 .. Window - 1) /\ InOrder(kept)
    BY <1>1, YoungerInOrder
  <2> HIDE DEF kept
  <2>2. \A i \in 1 .. Len(kept) : kept[i] \in 0 .. Window - 1
    BY <2>1, ElementOfSeq
  <2>3. \A i \in 1 .. Len(kept) : kept[i] \in 0 .. Window
    BY <1>1, <2>2
  <2> QED BY <1>2, <2>1, <2>3, SeqOfLess
<1> HIDE DEF kept
<1>4. /\ after \in Seq(0 .. Window) /\ Len(after) = n /\ InOrder(after)
      /\ \A i \in 1 .. n : after[i] = IF ages[i] = Window THEN Window ELSE ages[i] + 1
  BY OlderOnes
<1>5. /\ keptAfter \in Seq(0 .. Window) /\ Len(keptAfter) = n - m /\ InOrder(keptAfter)
      /\ \A i \in 1 .. n - m : keptAfter[i] = IF kept[i] = Window THEN Window ELSE kept[i] + 1
  BY <1>2, <1>3, OlderOnes
<1> HIDE DEF after, keptAfter
<1>6. after \in Seq(Nat) /\ keptAfter \in Seq(Nat)
  BY <1>1, <1>4, <1>5
<1>7. PICK q \in 0 .. n :
         /\ \A i \in 1 .. n : after[i] < Window <=> i > q
         /\ Younger(after, Window) \in Seq(Nat) /\ Len(Younger(after, Window)) = n - q
         /\ \A i \in 1 .. n - q : Younger(after, Window)[i] = after[q + i]
  <2>1. \E q \in 0 .. Len(after) :
           /\ \A i \in 1 .. Len(after) : after[i] < Window <=> i > q
           /\ Younger(after, Window) \in Seq(Nat) /\ Len(Younger(after, Window)) = Len(after) - q
           /\ \A i \in 1 .. Len(after) - q :
                 Younger(after, Window)[i] = after[q + i] /\ after[q + i] < Window
    BY <1>1, <1>4, <1>6, YoungerOnes
  <2> QED BY <1>4, <2>1
<1>8. PICK p \in 0 .. n - m :
         /\ \A i \in 1 .. n - m : keptAfter[i] < Window <=> i > p
         /\ Younger(keptAfter, Window) \in Seq(Nat) /\ Len(Younger(keptAfter, Window)) = n - m - p
         /\ \A i \in 1 .. n - m - p : Younger(keptAfter, Window)[i] = keptAfter[p + i]
  <2>1. \E p \in 0 .. Len(keptAfter) :
           /\ \A i \in 1 .. Len(keptAfter) : keptAfter[i] < Window <=> i > p
           /\ Younger(keptAfter, Window) \in Seq(Nat) /\ Len(Younger(keptAfter, Window)) = Len(keptAfter) - p
           /\ \A i \in 1 .. Len(keptAfter) - p :
                 Younger(keptAfter, Window)[i] = keptAfter[p + i] /\ keptAfter[p + i] < Window
    BY <1>1, <1>5, <1>6, YoungerOnes
  <2> QED BY <1>5, <2>1
<1>9. m \in Nat /\ q \in Nat /\ p \in Nat /\ m <= n /\ q <= n /\ p <= n - m
  BY <1>1
<1>10. \A i \in 1 .. n - m : m + i \in 1 .. n /\ keptAfter[i] = after[m + i]
  <2>1. \A i \in 1 .. n - m : m + i \in 1 .. n
    BY <1>1, <1>9
  <2>2. ASSUME NEW i \in 1 .. n - m PROVE keptAfter[i] = after[m + i]
    <3>1. kept[i] = ages[m + i]
      BY <1>2, <2>2
    <3>2. keptAfter[i] = IF kept[i] = Window THEN Window ELSE kept[i] + 1
      BY <1>5, <2>2
    <3>3. after[m + i] = IF ages[m + i] = Window THEN Window ELSE ages[m + i] + 1
      BY <1>4, <2>1, <2>2
    <3> QED BY <3>1, <3>2, <3>3
  <2> QED BY <2>1, <2>2
<1>11. q >= m
  <2>1. ASSUME q < m PROVE FALSE
    <3>1. q + 1 \in 1 .. n /\ q + 1 > q /\ ~(q + 1 > m)
      BY <1>1, <1>9, <2>1
    <3>2. after[q + 1] < Window /\ ~(ages[q + 1] < Window)
      BY <1>2, <1>7, <3>1
    <3>3. ages[q + 1] \in 0 .. Window
      BY <3>1, ElementOfSeq
    <3>4. ages[q + 1] = Window
      BY ONLY <1>1, <3>2, <3>3
    <3> QED BY <1>1, <1>4, <3>1, <3>2, <3>4
  <2> QED BY <1>9, <2>1
<1>12. p = q - m
  <2>1. ASSUME p < q - m PROVE FALSE
    <3>1. p + 1 \in 1 .. n - m /\ p + 1 > p /\ ~(m + (p + 1) > q)
      BY <1>1, <1>9, <2>1
    <3> QED BY <1>7, <1>8, <1>10, <3>1
  <2>2. ASSUME p > q - m PROVE FALSE
    <3>1. q - m + 1 \in 1 .. n - m /\ ~(q - m + 1 > p) /\ m + (q - m + 1) > q
      BY <1>1, <1>9, <1>11, <2>2
    <3> QED BY <1>7, <1>8, <1>10, <3>1
  <2> QED BY <1>9, <2>1, <2>2
<1>13. Len(Younger(keptAfter, Window)) = n - q
  BY <1>1, <1>8, <1>9, <1>12
<1>14. \A i \in 1 .. n - q : Younger(keptAfter, Window)[i] = Younger(after, Window)[i]
  <2>1. \A i \in 1 .. n - q : i \in 1 .. n - m - p /\ p + i \in 1 .. n - m /\ m + (p + i) = q + i
    BY <1>1, <1>9, <1>11, <1>12
  <2> QED BY <1>7, <1>8, <1>10, <2>1
<1>15. Younger(keptAfter, Window) = Younger(after, Window)
  BY <1>7, <1>8, <1>13, <1>14, SeqEqual
<1> QED BY <1>15 DEF after, keptAfter, kept

-----------------------------------------------------------------------------
(* The limiter: it remembers exactly the attempts it let pass.             *)

LimiterInv ==
    /\ login_store \in [Host -> Seq(0 .. Window)] /\ admitted \in [Host -> Seq(0 .. Window - 1)]
    /\ \A h \in Host :
          /\ Len(login_store[h]) <= LoginMax
          /\ InOrder(login_store[h])
          /\ admitted[h] = Recent(login_store[h])

\* One list of the limiter, and what goes into it.
LEMMA PrunedList ==
  ASSUME NEW ages \in Seq(0 .. Window), InOrder(ages), Len(ages) <= LoginMax
  PROVE  LET new == Recent(ages) IN
         /\ new \in Seq(0 .. Window) /\ new \in Seq(0 .. Window - 1)
         /\ InOrder(new) /\ Len(new) <= LoginMax
         /\ Recent(new) = new
<1> DEFINE new == Recent(ages)
<1>1. Window \in Nat \ {0} /\ LoginMax \in Nat /\ ages \in Seq(Nat)
  BY ServerAssumption
<1>2. InOrder(new) /\ Len(new) \in 0 .. Len(ages) /\ new \in Seq(0 .. Window - 1)
  BY <1>1, YoungerInOrder DEF Recent
<1>3. Len(ages) \in Nat
  BY <1>1
<1> HIDE DEF new
<1>4. \A i \in 1 .. Len(new) : new[i] \in 0 .. Window - 1
  BY <1>2, ElementOfSeq
<1>5. 0 .. Window - 1 \subseteq 0 .. Window /\ 0 .. Window - 1 \subseteq Nat
  BY <1>1
<1>6. new \in Seq(Nat)
  BY <1>2, <1>4, <1>5, SeqOfLess
<1>7. \A i \in 1 .. Len(new) : new[i] < Window
  BY <1>1, <1>4
<1>8. new \in Seq(0 .. Window)
  BY <1>4, <1>5, <1>6, SeqOfLess
<1>9. Recent(new) = new
  BY <1>1, <1>2, <1>6, <1>7, AllYoung DEF Recent
<1>10. Len(new) <= LoginMax
  BY <1>1, <1>2, <1>3
<1> QED BY <1>2, <1>8, <1>9, <1>10 DEF new

LEMMA LengthenedList ==
  ASSUME NEW ages \in Seq(0 .. Window - 1), InOrder(ages), Len(ages) < LoginMax
  PROVE  LET new == Append(ages, 0) IN
         /\ new \in Seq(0 .. Window) /\ new \in Seq(0 .. Window - 1)
         /\ InOrder(new) /\ Len(new) <= LoginMax
         /\ Recent(new) = new
<1> DEFINE new == Append(ages, 0)
<1>1. Window \in Nat \ {0} /\ LoginMax \in Nat /\ Len(ages) \in Nat
  BY ServerAssumption
<1>2. 0 \in 0 .. Window - 1 /\ 0 .. Window - 1 \subseteq 0 .. Window /\ 0 .. Window - 1 \subseteq Nat
  BY <1>1
<1>3. \A i \in 1 .. Len(ages) : ages[i] \in 0 .. Window - 1
  BY ElementOfSeq
<1>4. /\ new \in Seq(0 .. Window - 1) /\ Len(new) = Len(ages) + 1
      /\ \A i \in 1 .. Len(ages) : new[i] = ages[i]
      /\ new[Len(ages) + 1] = 0
  BY <1>2, AppendProperties
<1> HIDE DEF new
<1>5. \A i \in 1 .. Len(new) : new[i] \in 0 .. Window - 1
  BY <1>4, ElementOfSeq
<1>6. new \in Seq(Nat)
  BY <1>2, <1>4, <1>5, SeqOfLess
<1>7. \A i \in 1 .. Len(new) : new[i] < Window
  BY <1>1, <1>5
<1>8. new \in Seq(0 .. Window)
  BY <1>2, <1>5, <1>6, SeqOfLess
<1>9. InOrder(new)
  <2>1. ASSUME NEW i \in 1 .. Len(new), NEW j \in 1 .. Len(new), i < j PROVE new[i] >= new[j]
    <3>1. i \in 1 .. Len(ages) /\ new[i] = ages[i] /\ ages[i] \in Nat
      <4>1. Len(new) = Len(ages) + 1 /\ Len(ages) \in Nat
        BY <1>1, <1>4
      <4>2. i \in 1 .. Len(ages)
        BY ONLY <2>1, <4>1
      <4>3. new[i] = ages[i]
        BY <1>4, <4>2
      <4> QED BY <1>2, <1>3, <4>2, <4>3
    <3>2. CASE j = Len(ages) + 1
      BY <1>4, <3>1, <3>2
    <3>3. CASE j # Len(ages) + 1
      <4>1. j \in 1 .. Len(ages)
        BY <1>1, <1>4, <3>3
      <4>2. new[j] = ages[j]
        BY <1>4, <4>1
      <4> QED BY <2>1, <3>1, <4>1, <4>2 DEF InOrder
    <3> QED BY <3>2, <3>3
  <2> QED BY <2>1 DEF InOrder
<1>10. Recent(new) = new
  BY <1>1, <1>6, <1>7, <1>9, AllYoung DEF Recent
<1>11. Len(new) <= LoginMax
  BY <1>1, <1>4
<1> QED BY <1>4, <1>8, <1>9, <1>10, <1>11 DEF new

LEMMA LaterList ==
  ASSUME NEW ages \in Seq(0 .. Window), InOrder(ages), Len(ages) <= LoginMax
  PROVE  LET new == Older(ages) IN
         /\ new \in Seq(0 .. Window) /\ InOrder(new) /\ Len(new) <= LoginMax
         /\ Younger(Older(Recent(ages)), Window) = Recent(new)
         /\ Recent(new) \in Seq(0 .. Window - 1)
<1>1. /\ Older(ages) \in Seq(0 .. Window) /\ InOrder(Older(ages))
      /\ Len(Older(ages)) = Len(ages)
  BY OlderOnes
<1> QED BY <1>1, DroppedStaysDropped, PrunedList DEF Recent

LEMMA NoAttempts ==
  /\ <<>> \in Seq(0 .. Window) /\ <<>> \in Seq(0 .. Window - 1) /\ Len(<<>>) <= LoginMax
  /\ InOrder(<<>>) /\ Recent(<<>>) = <<>>
<1>1. <<>> \in Seq(Nat) /\ Len(<<>>) = 0 /\ LoginMax \in Nat /\ Window \in Nat
  BY ServerAssumption
<1>2. InOrder(<<>>) /\ \A i \in 1 .. Len(<<>>) : FALSE
  BY <1>1 DEF InOrder
<1>3. Recent(<<>>) = <<>>
  BY <1>1, <1>2, AllYoung DEF Recent
<1> QED BY <1>1, <1>2, <1>3

LEMMA LimiterInit == Init => LimiterInv
BY NoAttempts DEF Init, LimiterInv

LEMMA LimiterNext ==
  ASSUME LimiterInv, [Next]_vars PROVE LimiterInv'
<1>1. \A h \in Host : /\ login_store[h] \in Seq(0 .. Window) /\ InOrder(login_store[h])
                      /\ Len(login_store[h]) <= LoginMax
                      /\ admitted[h] = Recent(login_store[h])
  BY DEF LimiterInv
<1>2. CASE Start
  BY <1>2, NoAttempts DEF Start, LimiterInv
<1>3. CASE Tick
  <2>1. /\ login_store' = [h \in Host |-> Older(login_store[h])]
        /\ admitted' = [h \in Host |-> Younger(Older(admitted[h]), Window)]
    BY <1>3 DEF Tick
  <2>2. ASSUME NEW h \in Host
        PROVE  /\ login_store'[h] \in Seq(0 .. Window) /\ InOrder(login_store'[h])
               /\ Len(login_store'[h]) <= LoginMax
               /\ admitted'[h] = Recent(login_store'[h])
               /\ admitted'[h] \in Seq(0 .. Window - 1)
    BY <1>1, <2>1, LaterList
  <2> QED BY <2>1, <2>2 DEF LimiterInv
<1>4. ASSUME NEW b \in Browser, RefuseLogin(b) PROVE LimiterInv'
  <2> DEFINE h == HostOf[b]
  <2>1. h \in Host /\ login_store' = [login_store EXCEPT ![h] = Recent(@)] /\ admitted' = admitted
    BY <1>4, ServerAssumption DEF RefuseLogin
  <2>2. /\ Recent(login_store[h]) \in Seq(0 .. Window) /\ InOrder(Recent(login_store[h]))
        /\ Len(Recent(login_store[h])) <= LoginMax
        /\ Recent(Recent(login_store[h])) = Recent(login_store[h])
    BY <1>1, <2>1, PrunedList
  <2> HIDE DEF h
  <2>3. /\ login_store \in [Host -> Seq(0 .. Window)] /\ admitted \in [Host -> Seq(0 .. Window - 1)]
    BY DEF LimiterInv
  <2>4. /\ login_store' \in [Host -> Seq(0 .. Window)] /\ login_store'[h] = Recent(login_store[h])
        /\ \A g \in Host \ {h} : login_store'[g] = login_store[g]
    BY <2>1, <2>2, <2>3
  <2>5. \A g \in Host : /\ Len(login_store'[g]) <= LoginMax /\ InOrder(login_store'[g])
                        /\ admitted'[g] = Recent(login_store'[g])
    BY <1>1, <2>1, <2>2, <2>4
  <2> QED BY <2>1, <2>3, <2>4, <2>5 DEF LimiterInv
<1>5. ASSUME NEW b \in Browser, Login(b) PROVE LimiterInv'
  <2> DEFINE h == HostOf[b]
             new == Append(Recent(login_store[h]), 0)
  <2>1. /\ h \in Host /\ ~(Len(Recent(login_store[h])) >= LoginMax)
        /\ login_store' = [login_store EXCEPT ![h] = new]
        /\ admitted' = [admitted EXCEPT ![h] = Append(@, 0)]
    BY <1>5, ServerAssumption DEF Login, Attempt, TooMany
  <2>2. Recent(login_store[h]) \in Seq(0 .. Window - 1) /\ InOrder(Recent(login_store[h]))
    BY <1>1, <2>1, PrunedList
  <2>3. Len(Recent(login_store[h])) < LoginMax
    <3>1. Len(Recent(login_store[h])) \in Nat /\ LoginMax \in Nat
      BY <2>2, ServerAssumption
    <3> QED BY <2>1, <3>1
  <2>4. /\ new \in Seq(0 .. Window) /\ new \in Seq(0 .. Window - 1)
        /\ InOrder(new) /\ Len(new) <= LoginMax /\ Recent(new) = new
    BY <2>2, <2>3, LengthenedList
  <2>5. /\ login_store \in [Host -> Seq(0 .. Window)] /\ admitted \in [Host -> Seq(0 .. Window - 1)]
        /\ admitted[h] = Recent(login_store[h])
    BY <1>1, <2>1 DEF LimiterInv
  <2>6. admitted' = [admitted EXCEPT ![h] = new]
    BY <2>1, <2>5
  <2> HIDE DEF h, new
  <2>7. /\ login_store' \in [Host -> Seq(0 .. Window)] /\ admitted' \in [Host -> Seq(0 .. Window - 1)]
        /\ login_store'[h] = new /\ admitted'[h] = new
        /\ \A g \in Host \ {h} : login_store'[g] = login_store[g] /\ admitted'[g] = admitted[g]
    BY <2>1, <2>4, <2>5, <2>6
  <2>8. \A g \in Host : /\ Len(login_store'[g]) <= LoginMax /\ InOrder(login_store'[g])
                        /\ admitted'[g] = Recent(login_store'[g])
    BY <1>1, <2>4, <2>7
  <2> QED BY <2>7, <2>8 DEF LimiterInv
<1>6. CASE UNCHANGED loginVars
  BY <1>6 DEF loginVars, LimiterInv
<1>7. VerifyModelIntegrity \/ GetJwtSecret \/ CheckPolicyFile \/ LoadPolicy \/ AddPolicy
        \/ SavePolicy \/ InitCache \/ Crash \/ VaultRestart \/ PutSecret \/ Receive
        \/ (\E b \in Browser : TokenExpires(b) \/ AccountGoes(b))
        \/ (\E b \in Browser, rule \in PolicyFile : Request(b, rule)) \/ UNCHANGED vars
      => UNCHANGED loginVars
  BY DEF VerifyModelIntegrity, GetJwtSecret, CheckPolicyFile, LoadPolicy, AddPolicy, SavePolicy,
         InitCache, Crash, VaultRestart, PutSecret, Receive, TokenExpires, AccountGoes, Request, vars
<1> QED BY <1>2, <1>3, <1>4, <1>5, <1>6, <1>7 DEF Next, BootStep

LEMMA LimiterTheorem == Spec => []LimiterInv
<1>1. LimiterInv /\ [Next]_vars => LimiterInv'
  BY LimiterNext
<1> QED BY <1>1, LimiterInit, PTL DEF Spec

LEMMA AdmittedBound == LimiterInv => LoginsPerWindow
<1> SUFFICES ASSUME LimiterInv, NEW h \in Host PROVE Len(admitted[h]) <= LoginMax
  BY DEF LoginsPerWindow
<1> QED BY PrunedList DEF LimiterInv

\* Whatever mix of addresses, refusals, restarts and waiting: in no window does
\* a process let more than LoginMax attempts from one address pass.
THEOREM LoginsTheorem == Spec => []LoginsPerWindow
BY LimiterTheorem, AdmittedBound, PTL

-----------------------------------------------------------------------------
(* The signing key, and the rest of the state.                             *)

\* Every token carries the key that was in Vault when it was issued.
KeyInv ==
    /\ keys \in 1 .. MaxKeys /\ secret \in {0, keys}
    /\ boot_secret \in 0 .. keys
    /\ token \in [Browser -> 0 .. keys]
    /\ issued = token

RestInv ==
    /\ image \in Images
    /\ crashes \in 0 .. MaxCrashes
    /\ expired \subseteq Browser /\ gone \subseteq Browser
    /\ answer \in (Browser \X Code) \cup {NoAnswer}

ServerInv == PolicyInv /\ LimiterInv /\ KeyInv /\ RestInv

LEMMA ServerInvTypes == ServerInv => ServerTypeOK
<1> SUFFICES ASSUME ServerInv PROVE ServerTypeOK
  OBVIOUS
<1>1. \A h \in Host : \A i, j \in DOMAIN login_store[h] :
         i < j => login_store[h][i] >= login_store[h][j]
  <2>1. ASSUME NEW h \in Host
        PROVE  \A i, j \in DOMAIN login_store[h] : i < j => login_store[h][i] >= login_store[h][j]
    <3>1. login_store[h] \in Seq(0 .. Window) /\ InOrder(login_store[h])
      BY DEF ServerInv, LimiterInv
    <3>2. DOMAIN login_store[h] = 1 .. Len(login_store[h])
      BY <3>1
    <3> QED BY <3>1, <3>2 DEF InOrder
  <2> QED BY <2>1
<1> QED BY <1>1 DEF ServerInv, PolicyInv, PolicyTypeOK, LimiterInv, KeyInv, RestInv, ServerTypeOK

LEMMA KeysGrow ==
  ASSUME KeyInv, keys' = keys + 1, keys < MaxKeys
  PROVE  keys' \in 1 .. MaxKeys /\ 0 .. keys \subseteq 0 .. keys'
<1>1. keys \in 1 .. MaxKeys /\ MaxKeys \in Nat
  BY ServerAssumption DEF KeyInv
<1> QED BY ONLY <1>1, keys' = keys + 1, keys < MaxKeys

LEMMA KeyInvInit == Init => KeyInv
<1>1. 1 \in 1 .. MaxKeys /\ 0 \in 0 .. 1
  BY ServerAssumption
<1> QED BY <1>1 DEF Init, KeyInv

LEMMA KeyInvNext ==
  ASSUME KeyInv, [Next]_vars PROVE KeyInv'
<1>0. 0 \in 0 .. keys /\ keys \in 0 .. keys
  <2>1. keys \in 1 .. MaxKeys /\ MaxKeys \in Nat
    BY ServerAssumption DEF KeyInv
  <2> QED BY ONLY <2>1
<1>1. CASE GetJwtSecret
  BY <1>0, <1>1 DEF GetJwtSecret, KeyInv, vaultVars, userVars
<1>2. CASE Start
  BY <1>0, <1>2 DEF Start, KeyInv, vaultVars, userVars
<1>3. CASE VaultRestart
  BY <1>3 DEF VaultRestart, KeyInv, bootVars, userVars
<1>4. CASE PutSecret
  <2>1. /\ keys < MaxKeys /\ keys' = keys + 1 /\ secret' = keys'
        /\ UNCHANGED <<boot_secret, token, issued>>
    BY <1>4 DEF PutSecret, bootVars, userVars
  <2> QED BY <2>1, KeysGrow DEF KeyInv
<1>5. ASSUME NEW b \in Browser, Login(b) PROVE KeyInv'
  <2>1. UNCHANGED <<boot_secret, keys, secret>>
    BY <1>5 DEF Login, bootVars, vaultVars
  <2>2. \/ UNCHANGED <<token, issued>>
        \/ token' = [token EXCEPT ![b] = secret] /\ issued' = [issued EXCEPT ![b] = secret]
    BY <1>5 DEF Login, userVars, IssueToken
  <2>3. secret \in 0 .. keys
    BY <1>0 DEF KeyInv
  <2> QED BY <2>1, <2>2, <2>3 DEF KeyInv
<1>6. CASE UNCHANGED <<boot_secret, keys, secret, token, issued>>
  BY <1>6 DEF KeyInv
<1>7. VerifyModelIntegrity \/ CheckPolicyFile \/ LoadPolicy \/ AddPolicy \/ SavePolicy \/ InitCache
        \/ Crash \/ Tick \/ Receive
        \/ (\E b \in Browser : TokenExpires(b) \/ AccountGoes(b))
        \/ (\E b \in Browser : RefuseLogin(b) \/ \E rule \in PolicyFile : Request(b, rule))
        \/ UNCHANGED vars
      => UNCHANGED <<boot_secret, keys, secret, token, issued>>
  BY DEF VerifyModelIntegrity, CheckPolicyFile, LoadPolicy, AddPolicy, SavePolicy, InitCache,
         Crash, Tick, Receive, TokenExpires, AccountGoes, RefuseLogin, Request, vars, bootVars,
         vaultVars, userVars
<1> QED BY <1>1, <1>2, <1>3, <1>4, <1>5, <1>6, <1>7 DEF Next, BootStep

LEMMA RestInvInit == Init => RestInv
<1>1. 0 \in 0 .. MaxCrashes
  BY ServerAssumption
<1> QED BY <1>1 DEF Init, RestInv

LEMMA RestInvNext ==
  ASSUME RestInv, [Next]_vars PROVE RestInv'
<1>1. CASE Crash
  <2>1. /\ crashes < MaxCrashes /\ crashes' = crashes + 1 /\ answer' = NoAnswer
        /\ UNCHANGED <<image, expired, gone>>
    BY <1>1 DEF Crash, userVars
  <2>2. crashes' \in 0 .. MaxCrashes
    <3>1. crashes \in 0 .. MaxCrashes /\ MaxCrashes \in Nat
      BY ServerAssumption DEF RestInv
    <3> QED BY ONLY <2>1, <3>1
  <2> QED BY <2>1, <2>2 DEF RestInv
<1>2. ASSUME NEW b \in Browser, RefuseLogin(b) \/ Login(b) \/ \E rule \in PolicyFile : Request(b, rule)
      PROVE  RestInv'
  <2>1. \E code \in Code : answer' = <<b, code>>
    BY <1>2 DEF RefuseLogin, Login, Request, Respond, Code
  <2>2. UNCHANGED <<image, crashes>>
    BY <1>2 DEF RefuseLogin, Login, Request, bootVars
  <2>3. expired' \in {expired, expired \ {b}} /\ gone' = gone
    BY <1>2 DEF RefuseLogin, Login, IssueToken, Request, userVars
  <2> QED BY <2>1, <2>2, <2>3 DEF RestInv
<1>3. ASSUME NEW b \in Browser, TokenExpires(b) \/ AccountGoes(b) PROVE RestInv'
  BY <1>3 DEF TokenExpires, AccountGoes, bootVars, RestInv
<1>4. CASE UNCHANGED <<image, crashes, expired, gone>> /\ answer' \in {answer, NoAnswer}
  BY <1>4 DEF RestInv
<1>5. BootStep \/ VaultRestart \/ PutSecret \/ Tick \/ Receive \/ UNCHANGED vars
      => UNCHANGED <<image, crashes, expired, gone>> /\ answer' \in {answer, NoAnswer}
  BY DEF BootStep, Start, VerifyModelIntegrity, GetJwtSecret, CheckPolicyFile, LoadPolicy, AddPolicy,
         SavePolicy, InitCache, VaultRestart, PutSecret, Tick, Receive, vars, bootVars, userVars
<1> QED BY <1>1, <1>2, <1>3, <1>4, <1>5 DEF Next

LEMMA ServerTheorem == Spec => []ServerInv
<1>1. Init => ServerInv
  BY PolicyInvInit, LimiterInit, KeyInvInit, RestInvInit DEF ServerInv
<1>2. ServerInv /\ [Next]_vars => ServerInv'
  BY PolicyInvNext, LimiterNext, KeyInvNext, RestInvNext DEF ServerInv
<1> QED BY <1>1, <1>2, PTL DEF Spec

\* Everything the container keeps has its type; the limiter never remembers
\* more than LoginMax attempts of an address, in the order of time.
THEOREM ServerTypeTheorem == Spec => []ServerTypeOK
BY ServerTheorem, ServerInvTypes, PTL

\* No client is locked out by refused attempts, logged out while its account,
\* its token's lifetime and the key it was signed with last, or refused a right
\* of its role, but for the reasons ErrorsHaveAReason names.
THEOREM ErrorsTheorem == Spec => ErrorsHaveAReason
<1> DEFINE Reason(b) == answer = NoAnswer =>
              /\ answer' = <<b, 429>> => Len(admitted[HostOf[b]]) = LoginMax
              /\ answer' = <<b, 401>> => issued[b] # keys \/ b \in expired \cup gone
              /\ answer' = <<b, 403>> => cut
           A == \A b \in Browser : Reason(b)
<1>1. ASSUME ServerInv, [Next]_vars, ~UNCHANGED vars, NEW b \in Browser PROVE Reason(b)
  <2>1. ASSUME answer = NoAnswer, NEW code \in {429, 401, 403}, answer' = <<b, code>>
        PROVE  \/ RefuseLogin(b) /\ code = 429
               \/ (\E rule \in PolicyFile : Request(b, rule)) /\ code # 429
    <3>1. answer' # NoAnswer
      BY <2>1 DEF NoAnswer
    <3>2. PICK c \in Browser : RefuseLogin(c) \/ Login(c) \/ \E rule \in PolicyFile : Request(c, rule)
      BY <1>1, <2>1, <3>1 DEF Next, BootStep, Start, VerifyModelIntegrity, GetJwtSecret,
             CheckPolicyFile, LoadPolicy, AddPolicy, SavePolicy, InitCache, Crash, VaultRestart,
             PutSecret, Tick, Receive, TokenExpires, AccountGoes
    <3>3. ~Login(c)
      BY <2>1 DEF Login, Respond
    <3>4. CASE RefuseLogin(c)
      <4>1. answer' = <<c, 429>>
        BY <3>4 DEF RefuseLogin, Respond
      <4>2. c = b /\ code = 429
        BY <2>1, <4>1
      <4> QED BY <3>4, <4>2
    <3>5. CASE \E rule \in PolicyFile : Request(c, rule)
      <4>1. PICK rule \in PolicyFile : Request(c, rule)
        BY <3>5
      <4>2. PICK d \in {500, 401, 403, 200} : answer' = <<c, d>>
        BY <4>1 DEF Request, Respond
      <4> QED BY <2>1, <4>1, <4>2
    <3> QED BY <3>2, <3>3, <3>4, <3>5
  <2>2. ASSUME RefuseLogin(b) PROVE Len(admitted[HostOf[b]]) = LoginMax
    <3>1. HostOf[b] \in Host /\ LoginMax \in Nat
      BY ServerAssumption
    <3>2. LimiterInv /\ Len(admitted[HostOf[b]]) <= LoginMax
      BY <1>1, <3>1, AdmittedBound DEF ServerInv, LoginsPerWindow
    <3>3. Len(admitted[HostOf[b]]) >= LoginMax
      BY <2>2, <3>1, <3>2 DEF RefuseLogin, TooMany, LimiterInv
    <3>4. Len(admitted[HostOf[b]]) \in Nat
      BY <3>1, <3>2 DEF LimiterInv
    <3> QED BY <3>1, <3>2, <3>3, <3>4
  <2>3. ASSUME NEW rule \in PolicyFile, Request(b, rule), answer' = <<b, 401>>
        PROVE  issued[b] # keys \/ b \in expired \cup gone
    <3>1. secret # 0 /\ (token[b] # secret \/ b \in expired \cup gone)
      BY <2>3 DEF Request, Respond, Authenticated
    <3> QED BY <1>1, <3>1 DEF ServerInv, KeyInv
  <2>4. ASSUME NEW rule \in PolicyFile, Request(b, rule), answer' = <<b, 403>>
        PROVE  cut
    <3>1. api = "ready" /\ rule \notin enforcer
      BY <2>4 DEF Request, Respond
    <3> QED BY <1>1, <2>4, <3>1 DEF ServerInv, PolicyInv, PolicyIsWhole
  <2> QED BY <2>1, <2>2, <2>3, <2>4
<1>2. ServerInv /\ [Next]_vars => [A]_vars
  BY <1>1
<1> HIDE DEF A
<1>3. Spec => [][A]_vars
  BY <1>2, ServerTheorem, PTL DEF Spec
<1> QED BY <1>3 DEF ErrorsHaveAReason, A
=============================================================================
