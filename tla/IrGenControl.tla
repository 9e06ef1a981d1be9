---------------------------- MODULE IrGenControl ----------------------------
(***************************************************************************)
(* Where control goes, for every program: the proof of ControlStaysInside   *)
(* from the account of the label ids.                                       *)
(***************************************************************************)
EXTENDS IrGenRefusals, IrGenLabels

-----------------------------------------------------------------------------
(* What the frames owe together                                             *)

\* The last of n debtors changes its debt, or shares it with one more.
LEMMA DebtSplit ==
  ASSUME NEW n \in Nat \ {0}, NEW S, NEW T, AllApart(S, n),
         \A k \in 1 .. n - 1 : T[k] = S[k],
         Apart(T[n], T[n + 1]),
         \A k \in 1 .. n - 1 : Apart(T[n], S[k]) /\ Apart(T[n + 1], S[k])
  PROVE  /\ AllApart(T, n + 1)
         /\ All(T, n + 1) = (All(S, n) \ S[n]) \cup (T[n] \cup T[n + 1])
<1>1. \A k \in 1 .. n + 1 : k \in 1 .. n - 1 \/ k = n \/ k = n + 1
  OBVIOUS
<1>2. n \in 1 .. n /\ n \in 1 .. n + 1 /\ n + 1 \in 1 .. n + 1
      /\ \A k \in 1 .. n - 1 : k \in 1 .. n /\ k \in 1 .. n + 1 /\ k # n
  OBVIOUS
<1>3. \A k \in 1 .. n - 1 : Apart(S[k], S[n])
  BY <1>2 DEF AllApart
<1>4. AllApart(T, n + 1)
  <2> SUFFICES ASSUME NEW j \in 1 .. n + 1, NEW k \in 1 .. n + 1, j # k
               PROVE  Apart(T[j], T[k])
    BY DEF AllApart
  <2>1. CASE j \in 1 .. n - 1 /\ k \in 1 .. n - 1
    BY <1>2, <2>1 DEF AllApart
  <2>2. CASE j \in 1 .. n - 1 /\ k \in {n, n + 1}
    BY <2>2 DEF Apart
  <2>3. CASE k \in 1 .. n - 1 /\ j \in {n, n + 1}
    BY <2>3 DEF Apart
  <2>4. CASE j \in {n, n + 1} /\ k \in {n, n + 1}
    BY <2>4 DEF Apart
  <2> QED
    BY <1>1, <2>1, <2>2, <2>3, <2>4
<1>5. \A x : x \in All(T, n + 1) <=> \/ x \in T[n] \cup T[n + 1]
                                \/ \E k \in 1 .. n - 1 : x \in S[k]
  BY <1>1, <1>2 DEF All
<1>6. \A x : x \in All(S, n) \ S[n] <=> \E k \in 1 .. n - 1 : x \in S[k]
  <2>1. \A k \in 1 .. n : k \in 1 .. n - 1 \/ k = n
    OBVIOUS
  <2> QED
    BY <1>2, <1>3, <2>1 DEF All, Apart
<1> QED
  BY <1>4, <1>5, <1>6

\* The last of n debtors leaves.
LEMMA DebtLeaves ==
  ASSUME NEW n \in Nat \ {0}, NEW S, NEW T, AllApart(S, n),
         \A k \in 1 .. n - 1 : T[k] = S[k]
  PROVE  /\ AllApart(T, n - 1)
         /\ All(T, n - 1) = All(S, n) \ S[n]
<1>1. n \in 1 .. n /\ \A k \in 1 .. n : k \in 1 .. n - 1 \/ k = n
  OBVIOUS
<1>2. \A k \in 1 .. n - 1 : k \in 1 .. n /\ k # n
  OBVIOUS
<1>3. \A k \in 1 .. n - 1 : Apart(S[k], S[n])
  BY <1>1, <1>2 DEF AllApart
<1>4. AllApart(T, n - 1)
  BY <1>2 DEF AllApart
<1>5. \A x : x \in All(T, n - 1) <=> \E k \in 1 .. n - 1 : x \in S[k]
  BY DEF All
<1>6. \A x : x \in All(S, n) \ S[n] <=> \E k \in 1 .. n - 1 : x \in S[k]
  BY <1>1, <1>2, <1>3 DEF All, Apart
<1> QED
  BY <1>4, <1>5, <1>6

-----------------------------------------------------------------------------
(* Emitting nodes                                                           *)

TargetsOf(a) ==
  IF a.op = "IR_BRANCH" THEN {a.id, a.id_f} ELSE IF a.op = "IR_JUMP" THEN {a.id} ELSE {}

\* A list of nodes.
Listed(c) == Len(c) \in Nat /\ DOMAIN c = 1 .. Len(c)

LEMMA Appended ==
  ASSUME NEW c, Listed(c), NEW a
  PROVE  /\ Listed(Append(c, a))
         /\ a.op # "IR_LABEL" => \A l : Placed(Append(c, a), l) = Placed(c, l)
         /\ a.op = "IR_LABEL" =>
              /\ \A l : l # a.id => Placed(Append(c, a), l) = Placed(c, l)
              /\ Placed(Append(c, a), a.id) = Placed(c, a.id) \cup {Len(c) + 1}
         /\ Targets(Append(c, a)) = Targets(c) \cup TargetsOf(a)
         /\ Len(c) + 1 \in DOMAIN Append(c, a) /\ Append(c, a)[Len(c) + 1] = a
         /\ \A k \in DOMAIN Append(c, a) : k \in DOMAIN c \/ k = Len(c) + 1
         /\ \A k \in DOMAIN c : k \in DOMAIN Append(c, a) /\ Append(c, a)[k] = c[k]
<1> DEFINE d == Append(c, a)
           n == Len(c) + 1
<1>1. /\ n \in DOMAIN d /\ d[n] = a /\ n \notin DOMAIN c
      /\ \A k \in DOMAIN d : k \in DOMAIN c \/ k = n
      /\ \A k \in DOMAIN c : k \in DOMAIN d /\ d[k] = c[k]
      /\ Listed(d)
  BY DEF Listed
<1> HIDE DEF d, n
<1>2. \A l : \A i : i \in Placed(d, l) <=>
                    \/ i \in Placed(c, l)
                    \/ i = n /\ a.op = "IR_LABEL" /\ a.id = l
  BY <1>1 DEF Placed
<1>3. /\ a.op # "IR_LABEL" => \A l : Placed(d, l) = Placed(c, l)
      /\ a.op = "IR_LABEL" =>
              /\ \A l : l # a.id => Placed(d, l) = Placed(c, l)
              /\ Placed(d, a.id) = Placed(c, a.id) \cup {n}
  <2>1. ASSUME NEW l, ~ (a.op = "IR_LABEL" /\ a.id = l) PROVE Placed(d, l) = Placed(c, l)
    <3>1. \A i : i \in Placed(d, l) <=> i \in Placed(c, l)
      BY <1>2, <2>1
    <3> QED
      BY <3>1
  <2>2. ASSUME a.op = "IR_LABEL" PROVE Placed(d, a.id) = Placed(c, a.id) \cup {n}
    <3>1. \A i : i \in Placed(d, a.id) <=> i \in Placed(c, a.id) \cup {n}
      BY <1>2, <2>2
    <3> QED
      BY <3>1
  <2> QED
    BY <2>1, <2>2
<1>4. ASSUME NEW e, NEW l
      PROVE  l \in Targets(e) <=> \E i \in DOMAIN e : l \in TargetsOf(e[i])
  <2>1. l \in Targets(e) <=>
          \E i \in DOMAIN e :
            \/ e[i].op \in {"IR_JUMP", "IR_BRANCH"} /\ l = e[i].id
            \/ e[i].op = "IR_BRANCH" /\ l = e[i].id_f
    BY ZenonT(30) DEF Targets
  <2>2. \A i \in DOMAIN e :
          l \in TargetsOf(e[i]) <=>
            \/ e[i].op \in {"IR_JUMP", "IR_BRANCH"} /\ l = e[i].id
            \/ e[i].op = "IR_BRANCH" /\ l = e[i].id_f
    BY DEF TargetsOf
  <2> QED
    BY <2>1, <2>2
<1>5. \A l : l \in Targets(d) <=> l \in Targets(c) \/ l \in TargetsOf(a)
  BY <1>1, <1>4
<1>6. Targets(d) = Targets(c) \cup TargetsOf(a)
  BY <1>5
<1> QED
  BY <1>1, <1>3, <1>6 DEF d, n

\* A node that is no label, whose targets are known.
LEMMA SettledPlain ==
  ASSUME NEW N, NEW R, NEW c, Listed(c), NEW tab, NEW m \in Nat, NEW a,
         Settled(N, R, c, tab, m), a.op # "IR_LABEL", TargetsOf(a) \subseteq 1 .. m
  PROVE  Settled(N, R, Append(c, a), tab, m)
<1> DEFINE d == Append(c, a)
<1>1. /\ \A l : Placed(d, l) = Placed(c, l)
      /\ Targets(d) \subseteq 1 .. m
      /\ \A i \in DOMAIN c : i \in DOMAIN d
      /\ \A i \in DOMAIN d : d[i].op = "IR_LABEL" => d[i].id \in 1 .. m
  <2>1. Targets(c) \subseteq 1 .. m
        /\ \A i \in DOMAIN c : c[i].op = "IR_LABEL" => c[i].id \in 1 .. m
    BY DEF Settled
  <2>2. /\ \A l : Placed(d, l) = Placed(c, l)
        /\ Targets(d) = Targets(c) \cup TargetsOf(a)
        /\ d[Len(c) + 1] = a
        /\ \A k \in DOMAIN d : k \in DOMAIN c \/ k = Len(c) + 1
        /\ \A k \in DOMAIN c : k \in DOMAIN d /\ d[k] = c[k]
    BY Appended
  <2> HIDE DEF d
  <2> QED
    BY <2>1, <2>2
<1> HIDE DEF d
<1>2. \A l \in 1 .. m : \/ l \in R
                        \/ \E x \in N : tab[x] = l
                        \/ \E i \in DOMAIN d : Placed(d, l) = {i}
  <2> TAKE l \in 1 .. m
  <2>1. \/ l \in R
        \/ \E x \in N : tab[x] = l
        \/ \E i \in DOMAIN c : Placed(c, l) = {i}
    BY DEF Settled
  <2>2. Placed(d, l) = Placed(c, l)
    BY <1>1
  <2> QED
    BY <1>1, <2>1, <2>2
<1>3. /\ \A l \in R : Placed(d, l) = {}
      /\ \A x \in N : tab[x] # 0 => Placed(d, tab[x]) = {}
  BY <1>1 DEF Settled
<1>4. Settled(N, R, d, tab, m)
  BY <1>1, <1>2, <1>3 DEF Settled
<1> QED
  BY <1>4 DEF d

\* A reserved label is placed.
LEMMA SettledPlace ==
  ASSUME NEW N, NEW R, NEW c, Listed(c), NEW tab, NEW m \in Nat, NEW l \in R,
         Settled(N, R, c, tab, m)
  PROVE  Settled(N, R \ {l}, Append(c, Label(l)), tab, m)
<1> DEFINE a == Label(l)
           d == Append(c, a)
           n == Len(c) + 1
<1>1. a.op = "IR_LABEL" /\ a.id = l /\ TargetsOf(a) = {} /\ l \in 1 .. m
  BY DEF Label, Node, TargetsOf, Settled
<1> HIDE DEF a
<1>2. /\ \A k : k # l => Placed(d, k) = Placed(c, k)
      /\ Placed(d, l) = {n}
      /\ Targets(d) \subseteq 1 .. m
      /\ n \in DOMAIN d
      /\ \A i \in DOMAIN c : i \in DOMAIN d
      /\ \A i \in DOMAIN d : d[i].op = "IR_LABEL" => d[i].id \in 1 .. m
  <2>1. Placed(c, l) = {} /\ Targets(c) \subseteq 1 .. m
        /\ \A i \in DOMAIN c : c[i].op = "IR_LABEL" => c[i].id \in 1 .. m
    BY DEF Settled
  <2>2. /\ \A k : k # a.id => Placed(d, k) = Placed(c, k)
        /\ Placed(d, a.id) = Placed(c, a.id) \cup {n}
        /\ Targets(d) = Targets(c) \cup TargetsOf(a)
        /\ n \in DOMAIN d /\ d[n] = a
        /\ \A k \in DOMAIN d : k \in DOMAIN c \/ k = n
        /\ \A k \in DOMAIN c : k \in DOMAIN d /\ d[k] = c[k]
    BY <1>1, Appended
  <2> HIDE DEF d, n
  <2> QED
    BY <1>1, <2>1, <2>2
<1> HIDE DEF d, n
<1>3. \A x \in DOMAIN tab : tab[x] # l
  BY DEF Settled
<1>4. \A k \in 1 .. m : \/ k \in R \ {l}
                        \/ \E x \in N : tab[x] = k
                        \/ \E i \in DOMAIN d : Placed(d, k) = {i}
  BY <1>2 DEF Settled
<1>5. \A x \in N : tab[x] # 0 => Placed(d, tab[x]) = {}
  BY <1>2, <1>3 DEF Settled
<1>6. \A k \in R \ {l} : Placed(d, k) = {}
  BY <1>2 DEF Settled
<1>7. Settled(N, R \ {l}, d, tab, m)
  BY <1>2, <1>4, <1>5, <1>6 DEF Settled
<1> QED
  BY <1>7 DEF d, a

\* Ids are reserved.
LEMMA SettledReserve ==
  ASSUME NEW N, NEW R, NEW c, Listed(c), NEW tab, NEW m \in Nat, NEW u \in Nat, m <= u,
         Settled(N, R, c, tab, m)
  PROVE  Settled(N, R \cup (m + 1 .. u), c, tab, u)
<1>1. /\ 1 .. m \subseteq 1 .. u /\ 0 .. m \subseteq 0 .. u
      /\ \A l \in 1 .. u : l \in 1 .. m \/ l \in m + 1 .. u
      /\ \A l \in m + 1 .. u : l \in 1 .. u /\ l \notin 0 .. m /\ l \notin 1 .. m
  OBVIOUS
<1>2. \A l \in m + 1 .. u : Placed(c, l) = {}
  BY <1>1 DEF Settled, Placed
<1> DEFINE F == m + 1 .. u
<1>3. \A l \in F : l \in 1 .. u /\ l \notin 0 .. m /\ Placed(c, l) = {}
  BY <1>1, <1>2
<1>4. \A l \in 1 .. u : l \in 1 .. m \/ l \in F
  BY <1>1
<1> HIDE DEF F
<1>5. Settled(N, R \cup F, c, tab, u)
  <2>1. R \cup F \subseteq 1 .. u
    BY <1>1, <1>3 DEF Settled
  <2>2. \A x \in DOMAIN tab : tab[x] \in 0 .. u /\ tab[x] \notin R \cup F /\ (tab[x] = 0 => x \in N)
    BY <1>1, <1>3 DEF Settled
  <2>3. \A l \in R \cup F : Placed(c, l) = {}
    BY <1>3 DEF Settled
  <2>4. \A l \in 1 .. u : \/ l \in R \cup F
                          \/ \E x \in N : tab[x] = l
                          \/ \E i \in DOMAIN c : Placed(c, l) = {i}
    BY <1>4 DEF Settled
  <2>5. /\ \A i \in DOMAIN c : c[i].op = "IR_LABEL" => c[i].id \in 1 .. u
        /\ Targets(c) \subseteq 1 .. u
    BY <1>1 DEF Settled
  <2> QED
    BY <2>1, <2>2, <2>3, <2>4, <2>5 DEF Settled
<1> QED
  BY <1>5 DEF F

\* A name gets its id when a goto or its label meets it first.
LEMMA SettledName ==
  ASSUME NEW N, NEW R, NEW c, Listed(c), NEW tab, NEW m \in Nat, NEW x \in DOMAIN tab,
         Settled(N, R, c, tab, m)
  PROVE  LET first == tab[x] = 0
             id == IF first THEN m + 1 ELSE tab[x]
             u == IF first THEN m + 1 ELSE m
         IN /\ Settled(N, R, c, [tab EXCEPT ![x] = id], u)
            /\ id \in 1 .. u
<1>1. CASE tab[x] # 0
  <2>1. [tab EXCEPT ![x] = tab[x]] = [y \in DOMAIN tab |-> tab[y]]
    OBVIOUS
  <2> DEFINE t == [tab EXCEPT ![x] = tab[x]]
  <2>2. DOMAIN t = DOMAIN tab /\ \A y \in DOMAIN tab : t[y] = tab[y]
    OBVIOUS
  <2> HIDE DEF t
  <2>3. Settled(N, R, c, t, m)
    BY <2>2 DEF Settled
  <2>4. tab[x] \in 1 .. m
    BY <1>1 DEF Settled
  <2> QED
    BY <1>1, <2>3, <2>4 DEF t
<1>2. CASE tab[x] = 0
  <2> DEFINE t == [tab EXCEPT ![x] = m + 1]
             i == m + 1
  <2>1. /\ DOMAIN t = DOMAIN tab /\ t[x] = i
        /\ \A y \in DOMAIN tab : y # x => t[y] = tab[y]
    OBVIOUS
  <2>2. /\ i \in 1 .. i /\ i # 0 /\ i \notin 0 .. m /\ i \notin 1 .. m /\ i \in 0 .. i
        /\ 1 .. m \subseteq 1 .. i /\ 0 .. m \subseteq 0 .. i
        /\ \A l \in 1 .. i : l \in 1 .. m \/ l = i
    OBVIOUS
  <2> HIDE DEF t, i
  <2>3. x \in N /\ i \notin R
    BY <1>2, <2>2 DEF Settled
  <2>4. Placed(c, i) = {}
    BY <2>2 DEF Settled, Placed
  <2>5. \A y \in DOMAIN t : t[y] \in 0 .. i /\ t[y] \notin R /\ (t[y] = 0 => y \in N)
    BY <2>1, <2>2, <2>3 DEF Settled
  <2>6. \A y, z \in DOMAIN t : t[y] = t[z] /\ t[y] # 0 => y = z
    BY <2>1, <2>2 DEF Settled
  <2>7. \A y \in N : t[y] # 0 => Placed(c, t[y]) = {}
    BY <2>1, <2>4 DEF Settled
  <2>8. \A l \in 1 .. i : \/ l \in R
                          \/ \E y \in N : t[y] = l
                          \/ \E j \in DOMAIN c : Placed(c, l) = {j}
    <3> TAKE l \in 1 .. i
    <3>1. CASE l = i
      BY <2>1, <2>3, <3>1
    <3>2. CASE l \in 1 .. m
      <4>1. CASE \E y \in N : tab[y] = l
        <5>1. PICK y \in N : tab[y] = l
          BY <4>1
        <5>2. y # x /\ y \in DOMAIN tab
          BY <1>2, <3>2, <5>1 DEF Settled
        <5> QED
          BY <2>1, <5>1, <5>2
      <4> QED
        BY <3>2, <4>1 DEF Settled
    <3> QED
      BY <2>2, <3>1, <3>2
  <2>9. /\ R \subseteq 1 .. i /\ Targets(c) \subseteq 1 .. i
        /\ \A j \in DOMAIN c : c[j].op = "IR_LABEL" => c[j].id \in 1 .. i
    BY <2>2 DEF Settled
  <2>10. Settled(N, R, c, t, i)
    BY <2>1, <2>5, <2>6, <2>7, <2>8, <2>9 DEF Settled
  <2> QED
    BY <1>2, <2>2, <2>10 DEF t, i
<1> QED
  BY <1>1, <1>2

\* The label of a name that has its id is placed.
LEMMA SettledDefine ==
  ASSUME NEW N, NEW R, NEW c, Listed(c), NEW tab, NEW m \in Nat, NEW x \in N,
         tab[x] # 0, Settled(N, R, c, tab, m)
  PROVE  Settled(N \ {x}, R, Append(c, Label(tab[x])), tab, m)
<1> DEFINE l == tab[x]
           a == Label(l)
           d == Append(c, a)
           n == Len(c) + 1
<1>1. a.op = "IR_LABEL" /\ a.id = l /\ TargetsOf(a) = {} /\ x \in DOMAIN tab /\ l \in 1 .. m
  BY DEF Label, Node, TargetsOf, Settled
<1>10. Placed(c, l) = {}
  BY DEF Settled
<1> HIDE DEF a, l
<1>2. /\ \A k : k # l => Placed(d, k) = Placed(c, k)
      /\ Placed(d, l) = {n}
      /\ Targets(d) \subseteq 1 .. m
      /\ n \in DOMAIN d
      /\ \A i \in DOMAIN c : i \in DOMAIN d
      /\ \A i \in DOMAIN d : d[i].op = "IR_LABEL" => d[i].id \in 1 .. m
  <2>1. Placed(c, l) = {} /\ Targets(c) \subseteq 1 .. m
        /\ \A i \in DOMAIN c : c[i].op = "IR_LABEL" => c[i].id \in 1 .. m
    BY <1>10 DEF Settled
  <2>2. /\ \A k : k # a.id => Placed(d, k) = Placed(c, k)
        /\ Placed(d, a.id) = Placed(c, a.id) \cup {n}
        /\ Targets(d) = Targets(c) \cup TargetsOf(a)
        /\ n \in DOMAIN d /\ d[n] = a
        /\ \A k \in DOMAIN d : k \in DOMAIN c \/ k = n
        /\ \A k \in DOMAIN c : k \in DOMAIN d /\ d[k] = c[k]
    BY <1>1, Appended
  <2> HIDE DEF d, n
  <2> QED
    BY <1>1, <2>1, <2>2
<1> HIDE DEF d, n
<1>3. \A y \in N \ {x} : tab[y] # l
  BY <1>1 DEF Settled, l
<1>4. l \notin R /\ l # 0
  BY <1>1 DEF Settled, l
<1>5. \A k \in 1 .. m : \/ k \in R
                        \/ \E y \in N \ {x} : tab[y] = k
                        \/ \E i \in DOMAIN d : Placed(d, k) = {i}
  BY <1>2 DEF Settled, l
<1>6. \A y \in N \ {x} : tab[y] # 0 => Placed(d, tab[y]) = {}
  BY <1>2, <1>3 DEF Settled
<1>7. \A k \in R : Placed(d, k) = {}
  BY <1>2, <1>4 DEF Settled
<1>8. \A y \in DOMAIN tab : tab[y] \in 0 .. m /\ tab[y] \notin R /\ (tab[y] = 0 => y \in N \ {x})
  BY DEF Settled
<1>9. Settled(N \ {x}, R, d, tab, m)
  BY <1>2, <1>5, <1>6, <1>7, <1>8 DEF Settled
<1> QED
  BY <1>9 DEF d, a, l

-----------------------------------------------------------------------------
(* The frames' debts across a call and a return                             *)

LEMMA SameDebts ==
  ASSUME NEW f, NEW g, g.fn = f.fn, g.node = f.node
  PROVE  /\ \A b : Ahead(g, b) = Ahead(f, b)
         /\ g.lab = f.lab => \A b : Reserved(g, b) = Reserved(f, b)
         /\ g.lab = f.lab /\ g.end = f.end =>
              \A b, m : Remembers(g, b, m) <=> Remembers(f, b, m)
<1>1. \A b : Ahead(g, b) = Ahead(f, b)
  BY DEF Ahead
<1>2. g.lab = f.lab => \A b : Reserved(g, b) = Reserved(f, b)
  BY DEF Reserved
<1>3. g.lab = f.lab /\ g.end = f.end => \A b, m : Remembers(g, b, m) <=> Remembers(f, b, m)
  BY DEF Remembers
<1> QED
  BY <1>1, <1>2, <1>3

\* What a frame remembers stays known as the counter grows.
LEMMA RemembersMore ==
  ASSUME NEW f, FrameOk(f), NEW b, NEW m \in Nat, NEW u \in Nat, m <= u, Remembers(f, b, m)
  PROVE  Remembers(f, b, u)
<1>1. f.lab \in Nat /\ f.end \in Nat
  BY DEF FrameOk
<1> QED
  BY <1>1 DEF Remembers

LEMMA DebtFacts ==
  ASSUME TypeInv, stack # <<>>
  PROVE  /\ Len(stack) \in Nat \ {0} /\ StackOk /\ lable_c \in Nat /\ code \in Seq(NodeSet)
         /\ Len(Top.got) \in Nat /\ Top = stack[Len(stack)] /\ FrameOk(Top)
         /\ \A k \in 1 .. Len(stack) : Len(stack[k].got) \in Nat /\ FrameOk(stack[k])
         /\ Names(stack)[Len(stack)] = Ahead(Top, Len(Top.got))
         /\ Ids(stack)[Len(stack)] = Reserved(Top, Len(Top.got))
         /\ Begun(stack, Len(stack)) = Len(Top.got)
<1>1. /\ Len(stack) \in Nat /\ Len(stack) \in 1 .. Len(stack) /\ StackOk /\ lable_c \in Nat
      /\ code \in Seq(NodeSet)
  BY TopOk DEF TypeInv, TypeOK, StackOk
<1>2. \A k \in 1 .. Len(stack) : Len(stack[k].got) \in Nat /\ FrameOk(stack[k])
  <2> TAKE k \in 1 .. Len(stack)
  <2>1. FrameOk(stack[k])
    BY <1>1 DEF StackOk
  <2> QED
    BY <2>1 DEF FrameOk
<1>3. Len(Top.got) \in Nat /\ Top = stack[Len(stack)] /\ FrameOk(Top)
  BY <1>1, <1>2 DEF Top
<1>4. Begun(stack, Len(stack)) = Len(Top.got)
  BY <1>3 DEF Begun
<1> QED
  BY <1>1, <1>2, <1>3, <1>4 DEF Names, Ids

LEMMA DebtsAfterCall ==
  ASSUME TypeInv, stack # <<>>, NEW f, FrameOk(f), f.got = <<>>,
         Call(f) \/ \E l \in Nat : CallFrom(l, f)
  PROVE  LET n == Len(stack)
             b == Len(Top.got)
         IN
         /\ Len(stack') = n + 1
         /\ \A k \in 1 .. n - 1 :
              /\ Names(stack')[k] = Names(stack)[k] /\ Ids(stack')[k] = Ids(stack)[k]
              /\ stack'[k] = stack[k] /\ Begun(stack', k) = Begun(stack, k)
         /\ Names(stack')[n] = Ahead(Top, b + 1) /\ Ids(stack')[n] = Reserved(stack'[n], b + 1)
         /\ Begun(stack', n) = b + 1 /\ SameCall(stack'[n], Top)
         /\ Names(stack')[n + 1] = Ahead(f, 0) /\ Ids(stack')[n + 1] = Reserved(f, 0)
         /\ Begun(stack', n + 1) = 0 /\ stack'[n + 1] = f
<1> DEFINE n == Len(stack)
           b == Len(Top.got)
<1>1. n \in Nat \ {0} /\ StackOk /\ b \in Nat /\ Top = stack[n]
      /\ \A k \in 1 .. n : Len(stack[k].got) \in Nat
  BY DebtFacts
<1>2. /\ Len(stack') = n + 1
      /\ \A k \in 1 .. n : SameCall(stack'[k], stack[k]) /\ stack'[k].got = stack[k].got
      /\ \A k \in 1 .. n - 1 : stack'[k] = stack[k]
      /\ stack'[n + 1] = f
  <2>1. CASE Call(f)
    <3>1. /\ Len(stack') = n + 1 /\ \A k \in 1 .. n : stack'[k] = stack[k]
          /\ stack'[n + 1] = f
      BY <1>1, <2>1, CallShape
    <3>2. \A k \in 1 .. n - 1 : k \in 1 .. n
      BY <1>1
    <3> QED
      BY <3>1, <3>2 DEF SameCall
  <2>2. CASE \E l \in Nat : CallFrom(l, f)
    BY <1>1, <2>2, CallFromShape
  <2> QED
    BY <2>1, <2>2
<1> HIDE DEF n
<1>3. n \in 1 .. n /\ n \in 1 .. n + 1 /\ n + 1 \in 1 .. n + 1 /\ n # n + 1
      /\ \A k \in 1 .. n - 1 : k \in 1 .. n /\ k \in 1 .. n + 1 /\ k # n /\ k # n + 1
  BY <1>1
<1>4. ASSUME NEW k \in 1 .. n - 1 PROVE Begun(stack', k) = Begun(stack, k)
  BY <1>2, <1>3 DEF Begun, n
<1>5. Begun(stack', n) = b + 1
  BY <1>1, <1>2, <1>3 DEF Begun
<1>6. Begun(stack', n + 1) = 0
  BY <1>1, <1>2 DEF Begun
<1>7. /\ \A k \in 1 .. n + 1 : Names(stack')[k] = Ahead(stack'[k], Begun(stack', k))
      /\ \A k \in 1 .. n + 1 : Ids(stack')[k] = Reserved(stack'[k], Begun(stack', k))
      /\ \A k \in 1 .. n : Names(stack)[k] = Ahead(stack[k], Begun(stack, k))
      /\ \A k \in 1 .. n : Ids(stack)[k] = Reserved(stack[k], Begun(stack, k))
  BY <1>2 DEF Names, Ids, n
<1>8. \A k \in 1 .. n - 1 : Names(stack')[k] = Names(stack)[k] /\ Ids(stack')[k] = Ids(stack)[k]
  BY <1>2, <1>3, <1>4, <1>7
<1>9. /\ Names(stack')[n] = Ahead(Top, b + 1) /\ Ids(stack')[n] = Reserved(stack'[n], b + 1)
      /\ SameCall(stack'[n], Top)
  <2>1. SameCall(stack'[n], Top)
    BY <1>1, <1>2, <1>3
  <2>2. \A c : Ahead(stack'[n], c) = Ahead(Top, c)
    BY <2>1, SameDebts DEF SameCall
  <2> QED
    BY <1>3, <1>5, <1>7, <2>1, <2>2
<1>10. Names(stack')[n + 1] = Ahead(f, 0) /\ Ids(stack')[n + 1] = Reserved(f, 0)
  BY <1>2, <1>3, <1>6, <1>7
<1> QED
  BY <1>2, <1>4, <1>5, <1>6, <1>8, <1>9, <1>10 DEF n

\* A handler that calls another hands on part of its names, and may have
\* reserved ids.
LEMMA LabelsAfterCall ==
  ASSUME TypeInv, LabelInv, stack # <<>>, lable_c' \in Nat, lable_c <= lable_c',
         NEW f, FrameOk(f), f.got = <<>>, Reserved(f, 0) = {}, Remembers(f, 0, lable_c'),
         Call(f) \/ \E l \in Nat : CallFrom(l, f),
         NEW b, b = Len(Top.got), NEW g, g = stack'[Len(stack)],
         Ahead(Top, b + 1) \cup Ahead(f, 0) = Ahead(Top, b),
         Apart(Ahead(Top, b + 1), Ahead(f, 0)),
         Reserved(g, b + 1) \subseteq Reserved(Top, b) \cup (lable_c + 1 .. lable_c'),
         Remembers(g, b + 1, lable_c'),
         Settled(All(Names(stack), Len(stack)),
                 (All(Ids(stack), Len(stack)) \ Reserved(Top, b)) \cup Reserved(g, b + 1),
                 code', lable_tab', lable_c')
  PROVE  LabelInv'
<1> DEFINE n == Len(stack)
<1>1. /\ n \in Nat \ {0} /\ lable_c \in Nat
      /\ \A k \in 1 .. n : FrameOk(stack[k])
      /\ Names(stack)[n] = Ahead(Top, b) /\ Ids(stack)[n] = Reserved(Top, b)
  BY DebtFacts
<1>2. /\ AllApart(Names(stack), n) /\ AllApart(Ids(stack), n)
      /\ All(Ids(stack), n) \subseteq 1 .. lable_c
      /\ \A k \in 1 .. n : Remembers(stack[k], Begun(stack, k), lable_c)
  BY DEF LabelInv, Settled
<1>3. /\ Len(stack') = n + 1
      /\ \A k \in 1 .. n - 1 :
           /\ Names(stack')[k] = Names(stack)[k] /\ Ids(stack')[k] = Ids(stack)[k]
           /\ stack'[k] = stack[k] /\ Begun(stack', k) = Begun(stack, k)
      /\ Names(stack')[n] = Ahead(Top, b + 1) /\ Ids(stack')[n] = Reserved(g, b + 1)
      /\ Begun(stack', n) = b + 1
      /\ Names(stack')[n + 1] = Ahead(f, 0) /\ Ids(stack')[n + 1] = {}
      /\ Begun(stack', n + 1) = 0 /\ stack'[n + 1] = f /\ stack'[n] = g
  BY DebtsAfterCall
<1>4. Settled(All(Names(stack), n), (All(Ids(stack), n) \ Ids(stack)[n]) \cup Ids(stack')[n],
              code', lable_tab', lable_c')
  BY <1>1, <1>3
<1> HIDE DEF n
<1>5. /\ n \in 1 .. n /\ \A k \in 1 .. n - 1 : k \in 1 .. n /\ k # n
      /\ \A k \in 1 .. n + 1 : k \in 1 .. n - 1 \/ k = n \/ k = n + 1
  BY <1>1
<1> DEFINE S == Names(stack)
           T == Names(stack')
           P == Ids(stack)
           Q == Ids(stack')
<1>6. AllApart(T, n + 1) /\ All(T, n + 1) = All(S, n)
  <2>1. AllApart(S, n) /\ \A k \in 1 .. n - 1 : T[k] = S[k]
    BY <1>2, <1>3
  <2>2. T[n] \cup T[n + 1] = S[n] /\ Apart(T[n], T[n + 1])
    BY <1>1, <1>3
  <2> HIDE DEF S, T
  <2>3. \A k \in 1 .. n - 1 : Apart(T[n], S[k]) /\ Apart(T[n + 1], S[k])
    <3>1. \A k \in 1 .. n - 1 : Apart(S[n], S[k])
      BY <1>5, <2>1 DEF AllApart
    <3> QED
      BY <2>2, <3>1 DEF Apart
  <2>4. /\ AllApart(T, n + 1)
        /\ All(T, n + 1) = (All(S, n) \ S[n]) \cup (T[n] \cup T[n + 1])
    BY <1>1, <2>1, <2>2, <2>3, DebtSplit
  <2>5. S[n] \subseteq All(S, n)
    BY <1>5 DEF All
  <2> QED
    BY <2>2, <2>4, <2>5
<1>7. AllApart(Q, n + 1) /\ All(Q, n + 1) = (All(P, n) \ P[n]) \cup Q[n]
  <2>1. /\ AllApart(P, n) /\ All(P, n) \subseteq 1 .. lable_c
        /\ \A k \in 1 .. n - 1 : Q[k] = P[k]
    BY <1>2, <1>3
  <2>2. Q[n + 1] = {} /\ Q[n] \subseteq P[n] \cup (lable_c + 1 .. lable_c')
    BY <1>1, <1>3
  <2> HIDE DEF P, Q
  <2>3. ASSUME NEW k \in 1 .. n - 1 PROVE Apart(Q[n], P[k])
    <3>1. Apart(P[n], P[k])
      BY <1>5, <2>1 DEF AllApart
    <3>2. P[k] \subseteq 1 .. lable_c
      BY <1>5, <2>1 DEF All
    <3>3. \A x \in 1 .. lable_c : x \notin lable_c + 1 .. lable_c'
      BY <1>1
    <3> QED
      BY <2>2, <3>1, <3>2, <3>3 DEF Apart
  <2>4. Apart(Q[n], Q[n + 1]) /\ \A k \in 1 .. n - 1 : Apart(Q[n + 1], P[k])
    BY <2>2 DEF Apart
  <2>5. /\ AllApart(Q, n + 1)
        /\ All(Q, n + 1) = (All(P, n) \ P[n]) \cup (Q[n] \cup Q[n + 1])
    BY <1>1, <2>1, <2>3, <2>4, DebtSplit
  <2> QED
    BY <2>2, <2>5
<1>8. ASSUME NEW k \in 1 .. n + 1
      PROVE  Remembers(stack'[k], Begun(stack', k), lable_c')
  <2>1. CASE k \in 1 .. n - 1
    BY <1>1, <1>2, <1>3, <1>5, <2>1, RemembersMore
  <2>2. CASE k = n
    BY <1>3, <2>2
  <2>3. CASE k = n + 1
    BY <1>3, <2>3
  <2> QED
    BY <1>5, <2>1, <2>2, <2>3
<1> QED
  BY <1>3, <1>4, <1>6, <1>7, <1>8 DEF LabelInv

\* The frame on top is gone, and its caller has one more result.
PoppedOne ==
  /\ Len(stack) > 1 /\ Len(stack') = Len(stack) - 1
  /\ \A k \in 1 .. Len(stack) - 1 :
       /\ stack'[k].fn = stack[k].fn /\ stack'[k].node = stack[k].node
       /\ stack'[k].lab = stack[k].lab /\ stack'[k].end = stack[k].end
       /\ Len(stack'[k].got) = Len(stack[k].got) + (IF k = Len(stack) - 1 THEN 1 ELSE 0)

LEMMA ReturnPops ==
  ASSUME TypeInv, stack # <<>>, Top.fn # "ir_function_s", NEW r, Return(r)
  PROVE  PoppedOne
<1> DEFINE n == Len(stack) - 1
           caller == [stack[n] EXCEPT !.got = Append(@, r)]
<1>1. Len(stack) > 1 /\ n \in Nat \ {0} /\ n + 1 = Len(stack) /\ StackOk
  <2>1. StackOk /\ Len(stack) \in Nat \ {0} /\ stack[Len(stack)].fn # "ir_function_s"
    BY DebtFacts
  <2>2. stack[1].fn = "ir_function_s"
    BY DEF TypeInv, Nesting
  <2> QED
    BY <2>1, <2>2
<1>2. \A k \in 1 .. Len(stack) : Len(stack[k].got) \in Nat /\ FrameOk(stack[k])
  BY DebtFacts
<1>3. /\ caller.fn = stack[n].fn /\ caller.node = stack[n].node
      /\ caller.lab = stack[n].lab /\ caller.end = stack[n].end
      /\ Len(caller.got) = Len(stack[n].got) + 1
  <2>1. FrameOk(stack[n])
    BY <1>1, <1>2
  <2> HIDE DEF n
  <2>2. /\ caller.fn = stack[n].fn /\ caller.node = stack[n].node
        /\ caller.lab = stack[n].lab /\ caller.end = stack[n].end
        /\ caller.got = Append(stack[n].got, r) /\ stack[n].got \in Seq(ResultSet)
    BY <2>1 DEF FrameOk
  <2> HIDE DEF caller
  <2> QED
    BY <2>2
<1>4. stack' = [k \in 1 .. n |-> IF k = n THEN caller ELSE stack[k]]
  BY <1>1 DEF Return, StackOk
<1>5. n = Len(stack) - 1 /\ \A k \in 1 .. n : k \in 1 .. Len(stack)
  BY <1>1
<1> HIDE DEF caller, n
<1>6. Len(stack') = n
  BY <1>1, <1>4
<1>7. ASSUME NEW k \in 1 .. n
      PROVE  /\ stack'[k].fn = stack[k].fn /\ stack'[k].node = stack[k].node
             /\ stack'[k].lab = stack[k].lab /\ stack'[k].end = stack[k].end
             /\ Len(stack'[k].got) = Len(stack[k].got) + (IF k = n THEN 1 ELSE 0)
  <2>1. CASE k = n
    BY <1>3, <1>4, <2>1
  <2>2. CASE k # n
    <3>1. stack'[k] = stack[k] /\ Len(stack[k].got) \in Nat
      BY <1>2, <1>4, <1>5, <2>2
    <3>2. \A x \in Nat : x = x + 0
      OBVIOUS
    <3> QED
      BY <2>2, <3>1, <3>2
  <2> QED
    BY <2>1, <2>2
<1>8. \A k \in 1 .. Len(stack) - 1 :
        /\ stack'[k].fn = stack[k].fn /\ stack'[k].node = stack[k].node
        /\ stack'[k].lab = stack[k].lab /\ stack'[k].end = stack[k].end
        /\ Len(stack'[k].got) = Len(stack[k].got) + (IF k = Len(stack) - 1 THEN 1 ELSE 0)
  BY <1>5, <1>7
<1>9. Len(stack) > 1 /\ Len(stack') = Len(stack) - 1
  BY <1>1, <1>5, <1>6
<1> QED
  BY <1>8, <1>9 DEF PoppedOne

LEMMA AutoPops ==
  ASSUME TypeInv, ir_auto_s
  PROVE  PoppedOne
<1> DEFINE n == Len(stack) - 1
<1>1. stack # <<>> /\ Top.fn = "ir_auto_s" /\ temp_c \in Nat
  <2>1. temp_c \in Nat
    BY DEF TypeInv, TypeOK
  <2>2. InCall("ir_auto_s")
    BY ZenonT(30) DEF ir_auto_s
  <2> QED
    BY <2>1, <2>2 DEF InCall
<1>2. Len(stack) > 1 /\ n \in Nat \ {0} /\ n + 1 = Len(stack) /\ StackOk
  BY <1>1 DEF TypeInv, TypeOK, StackOk, Nesting, Top
<1>3. /\ Len(stack') = n
      /\ \A k \in 1 .. n :
           /\ stack'[k].fn = stack[k].fn /\ stack'[k].node = stack[k].node
           /\ stack'[k].lab = stack[k].lab /\ stack'[k].end = stack[k].end
           /\ k # n => stack'[k].got = stack[k].got
      /\ stack'[n].got = Append(stack[n].got, NoTemp)
  BY <1>1, <1>2, AutoShape
<1>4. \A k \in 1 .. Len(stack) : Len(stack[k].got) \in Nat /\ FrameOk(stack[k])
  BY <1>1, DebtFacts
<1>5. Len(stack'[n].got) = Len(stack[n].got) + 1
  <2>1. stack[n].got \in Seq(ResultSet) /\ NoTemp \in ResultSet
    BY <1>2, <1>4, TempOk DEF FrameOk
  <2> QED
    BY <1>3, <2>1
<1> HIDE DEF n
<1>6. \A k \in 1 .. n : k \in 1 .. Len(stack)
  BY <1>2
<1>7. \A k \in 1 .. n :
        Len(stack'[k].got) = Len(stack[k].got) + (IF k = n THEN 1 ELSE 0)
  <2> TAKE k \in 1 .. n
  <2>1. CASE k = n
    BY <1>5, <2>1
  <2>2. CASE k # n
    <3>1. Len(stack'[k].got) = Len(stack[k].got) /\ Len(stack[k].got) \in Nat
      BY <1>3, <1>4, <1>6, <2>2
    <3>2. \A x \in Nat : x = x + 0
      OBVIOUS
    <3> QED
      BY <2>2, <3>1, <3>2
  <2> QED
    BY <2>1, <2>2
<1> QED
  BY <1>2, <1>3, <1>7 DEF PoppedOne, n

\* A handler that returns owes nothing more.
LEMMA LabelsAfterReturn ==
  ASSUME TypeInv, LabelInv, stack # <<>>, PoppedOne, lable_c' \in Nat, lable_c <= lable_c',
         NEW b, b = Len(Top.got),
         Settled(All(Names(stack), Len(stack)) \ Ahead(Top, b),
                 All(Ids(stack), Len(stack)) \ Reserved(Top, b), code', lable_tab', lable_c')
  PROVE  LabelInv'
<1> DEFINE n == Len(stack)
<1>1. /\ n \in Nat \ {0} /\ lable_c \in Nat
      /\ \A k \in 1 .. n : FrameOk(stack[k]) /\ Len(stack[k].got) \in Nat
      /\ Names(stack)[n] = Ahead(Top, b) /\ Ids(stack)[n] = Reserved(Top, b)
  BY DebtFacts
<1>2. /\ AllApart(Names(stack), n) /\ AllApart(Ids(stack), n)
      /\ \A k \in 1 .. n : Remembers(stack[k], Begun(stack, k), lable_c)
  BY DEF LabelInv
<1>3. Settled(All(Names(stack), n) \ Names(stack)[n], All(Ids(stack), n) \ Ids(stack)[n],
              code', lable_tab', lable_c')
  BY <1>1
<1>4. /\ Len(stack') = n - 1 /\ n > 1
      /\ \A k \in 1 .. n - 1 :
           /\ stack'[k].fn = stack[k].fn /\ stack'[k].node = stack[k].node
           /\ stack'[k].lab = stack[k].lab /\ stack'[k].end = stack[k].end
           /\ Len(stack'[k].got) = Len(stack[k].got) + (IF k = n - 1 THEN 1 ELSE 0)
  BY DEF PoppedOne
<1>5. \A k \in 1 .. n - 1 : k \in 1 .. n /\ k # n
  BY <1>1
<1>6. \A k \in 1 .. n - 1 : Begun(stack', k) = Begun(stack, k)
  <2> TAKE k \in 1 .. n - 1
  <2>1. Begun(stack, k) = Len(stack[k].got) + 1
    BY <1>5 DEF Begun
  <2>2. Begun(stack', k) = Len(stack'[k].got) + (IF k = n - 1 THEN 0 ELSE 1)
    BY <1>4 DEF Begun
  <2>3. Len(stack[k].got) \in Nat /\ k \in 1 .. n
    BY <1>1, <1>5
  <2>4. \A x \in Nat : (x + 1) + 0 = x + 1 /\ (x + 0) + 1 = x + 1
    OBVIOUS
  <2>5. CASE k = n - 1
    BY <1>4, <2>1, <2>2, <2>3, <2>4, <2>5
  <2>6. CASE k # n - 1
    BY <1>4, <2>1, <2>2, <2>3, <2>4, <2>6
  <2> QED
    BY <2>5, <2>6
<1>7. /\ \A k \in 1 .. n - 1 : Names(stack')[k] = Ahead(stack'[k], Begun(stack', k))
      /\ \A k \in 1 .. n - 1 : Ids(stack')[k] = Reserved(stack'[k], Begun(stack', k))
      /\ \A k \in 1 .. n : Names(stack)[k] = Ahead(stack[k], Begun(stack, k))
      /\ \A k \in 1 .. n : Ids(stack)[k] = Reserved(stack[k], Begun(stack, k))
  BY <1>4 DEF Names, Ids
<1> HIDE DEF n
<1>8. \A k \in 1 .. n - 1 :
        /\ \A b1 : Ahead(stack'[k], b1) = Ahead(stack[k], b1)
        /\ \A b1 : Reserved(stack'[k], b1) = Reserved(stack[k], b1)
        /\ \A b1, m : Remembers(stack'[k], b1, m) <=> Remembers(stack[k], b1, m)
  BY <1>4, SameDebts
<1>9. \A k \in 1 .. n - 1 : Names(stack')[k] = Names(stack)[k] /\ Ids(stack')[k] = Ids(stack)[k]
  BY <1>5, <1>6, <1>7, <1>8
<1>10. /\ AllApart(Names(stack'), n - 1)
       /\ All(Names(stack'), n - 1) = All(Names(stack), n) \ Names(stack)[n]
       /\ AllApart(Ids(stack'), n - 1)
       /\ All(Ids(stack'), n - 1) = All(Ids(stack), n) \ Ids(stack)[n]
  BY <1>1, <1>2, <1>9, DebtLeaves
<1>11. ASSUME NEW k \in 1 .. n - 1 PROVE Remembers(stack'[k], Begun(stack', k), lable_c')
  <2>1. Remembers(stack[k], Begun(stack, k), lable_c) /\ FrameOk(stack[k])
    BY <1>1, <1>2, <1>5
  <2>2. Remembers(stack[k], Begun(stack, k), lable_c')
    BY <1>1, <2>1, RemembersMore
  <2> QED
    BY <1>6, <1>8, <2>2
<1> QED
  BY <1>3, <1>4, <1>10, <1>11 DEF LabelInv

-----------------------------------------------------------------------------
(* Frames just pushed                                                       *)

LEMMA FreshOwesNothing ==
  ASSUME NEW fn, NEW n, NEW end
  PROVE  LET f == Frame(fn, n, end) IN
         /\ f.fn = fn /\ f.node = n /\ f.got = <<>> /\ f.lab = 0 /\ f.end = end
         /\ Reserved(f, 0) = {}
         /\ \A m \in Nat : end <= m /\ (fn = "ir_if_chain_s" => end >= 1) => Remembers(f, 0, m)
<1> DEFINE f == Frame(fn, n, end)
<1>1. f.fn = fn /\ f.node = n /\ f.got = <<>> /\ f.lab = 0 /\ f.end = end
  BY DEF Frame
<1> HIDE DEF f
<1>2. Reserved(f, 0) = {}
  BY DEF Reserved
<1>3. \A m \in Nat : end <= m /\ (fn = "ir_if_chain_s" => end >= 1) => Remembers(f, 0, m)
  BY <1>1 DEF Remembers
<1> QED
  BY <1>1, <1>2, <1>3 DEF f

LEMMA FreshNames ==
  /\ \A e : Ahead(Value(e), 0) = {} /\ Ahead(Place(e), 0) = {}
  /\ \A s \in Stmt : s.kind \in {"AST_SCOPE", "AST_ELSE"} =>
       Ahead(Frame("ir_scope", s, 0), 0) = LablesOf[s]
  /\ \A s \in Stmt : \A end : s.kind \in {"AST_IF", "AST_ELSE_IF", "AST_ELSE"} =>
       Ahead(Frame("ir_if_chain_s", s, end), 0) = LablesOf[s]
  /\ \A s \in Stmt : s.kind \notin {"AST_ELSE_IF", "AST_ELSE"} =>
       Ahead(ir_statements(s), 0) = LablesOf[s]
<1>1. ASSUME NEW e PROVE Ahead(Value(e), 0) = {} /\ Ahead(Place(e), 0) = {}
  BY FreshOwesNothing DEF Value, Place, Ahead
<1>2. ASSUME NEW s \in Stmt, s.kind \in {"AST_SCOPE", "AST_ELSE"}
      PROVE  Ahead(Frame("ir_scope", s, 0), 0) = LablesOf[s]
  <2> DEFINE f == Frame("ir_scope", s, 0)
  <2>1. f.fn = "ir_scope" /\ f.node = s
    BY FreshOwesNothing
  <2> HIDE DEF f
  <2>2. Ahead(f, 0) = UNION {LablesOf[s.body[i]] : i \in 0 + 1 .. Len(s.body)}
    BY <2>1 DEF Ahead
  <2>3. LablesOf[s] = UNION {LablesOf[s.body[i]] : i \in 1 .. Len(s.body)}
    BY <1>2, LablesAssumption
  <2> QED
    BY <2>2, <2>3 DEF f
<1>3. ASSUME NEW s \in Stmt, NEW end, s.kind \in {"AST_IF", "AST_ELSE_IF", "AST_ELSE"}
      PROVE  Ahead(Frame("ir_if_chain_s", s, end), 0) = LablesOf[s]
  <2> DEFINE f == Frame("ir_if_chain_s", s, end)
  <2>1. f.fn = "ir_if_chain_s" /\ f.node = s
    BY FreshOwesNothing
  <2> HIDE DEF f
  <2>2. CASE s.kind = "AST_ELSE"
    BY <2>1, <2>2 DEF Ahead, f
  <2>3. CASE s.kind # "AST_ELSE"
    <3>1. Ahead(f, 0) = LablesOf[s.body] \cup (IF s.chain # NULL THEN LablesOf[s.chain] ELSE {})
      BY <2>1, <2>3 DEF Ahead
    <3>2. IF s.chain = NULL THEN LablesOf[s] = LablesOf[s.body]
          ELSE LablesOf[s] = LablesOf[s.body] \cup LablesOf[s.chain]
      BY <1>3, <2>3, LablesAssumption
    <3> QED
      BY <3>1, <3>2 DEF f
  <2> QED
    BY <2>2, <2>3
<1>4. ASSUME NEW s \in Stmt, s.kind \notin {"AST_ELSE_IF", "AST_ELSE"}
      PROVE  Ahead(ir_statements(s), 0) = LablesOf[s]
  <2> DEFINE f == ir_statements(s)
  <2>1. CASE s.kind = "AST_EXPR"
    BY <1>1, <2>1, LablesAssumption DEF ir_statements
  <2>2. CASE s.kind = "AST_SCOPE"
    BY <1>2, <2>2 DEF ir_statements, HandlerOf
  <2>3. CASE s.kind \in DOMAIN HandlerOf \ {"AST_SCOPE"}
    <3>1. f = Frame(HandlerOf[s.kind], s, 0)
      BY <2>3 DEF ir_statements, HandlerOf
    <3>2. f.fn = HandlerOf[s.kind] /\ f.node = s
      BY <3>1, FreshOwesNothing
    <3> HIDE DEF f
    <3>3. CASE s.kind \in {"AST_RETURN", "AST_AUTO", "AST_EXTRN", "AST_GOTO"}
      BY <3>2, <3>3, LablesAssumption DEF Ahead, HandlerOf, f
    <3>4. CASE s.kind = "AST_IF"
      BY <3>2, <3>4 DEF Ahead, HandlerOf, f
    <3>5. CASE s.kind = "AST_WHILE"
      BY <3>2, <3>5, LablesAssumption DEF Ahead, HandlerOf, f
    <3>6. CASE s.kind = "AST_LABLE"
      BY <3>2, <3>6, LablesAssumption DEF Ahead, HandlerOf, f
    <3> QED
      BY <2>3, <3>3, <3>4, <3>5, <3>6 DEF HandlerOf
  <2> QED
    BY <1>4, <2>1, <2>2, <2>3, StmtAssumption DEF HandlerOf, StmtKind
<1> QED
  BY <1>1, <1>2, <1>3, <1>4

-----------------------------------------------------------------------------
(* The shapes of the handlers' steps                                        *)

\* What is owed, seen from the frame on top.
LEMMA Owed ==
  ASSUME TypeInv, LabelInv, stack # <<>>
  PROVE  /\ Settled(All(Names(stack), Len(stack)), All(Ids(stack), Len(stack)),
                    code, lable_tab, lable_c)
         /\ Ahead(Top, Len(Top.got)) \subseteq All(Names(stack), Len(stack))
         /\ Reserved(Top, Len(Top.got)) \subseteq All(Ids(stack), Len(stack))
         /\ Remembers(Top, Len(Top.got), lable_c)
         /\ Listed(code) /\ lable_c \in Nat /\ Len(Top.got) \in Nat
<1> DEFINE n == Len(stack)
<1>1. /\ n \in Nat \ {0} /\ code \in Seq(NodeSet) /\ Top = stack[n]
      /\ Names(stack)[n] = Ahead(Top, Len(Top.got))
      /\ Ids(stack)[n] = Reserved(Top, Len(Top.got))
      /\ Begun(stack, n) = Len(Top.got) /\ lable_c \in Nat /\ Len(Top.got) \in Nat
  BY DebtFacts
<1> HIDE DEF n
<1>2. n \in 1 .. n
  BY <1>1
<1>3. Names(stack)[n] \subseteq All(Names(stack), n) /\ Ids(stack)[n] \subseteq All(Ids(stack), n)
  BY <1>2 DEF All
<1>4. Settled(All(Names(stack), n), All(Ids(stack), n), code, lable_tab, lable_c)
      /\ Remembers(stack[n], Begun(stack, n), lable_c)
  BY <1>2 DEF LabelInv, n
<1>5. Listed(code)
  BY <1>1 DEF Listed
<1> QED
  BY <1>1, <1>3, <1>4, <1>5 DEF n

\* What a frame remembers after one more call.
LEMMA RemembersNext ==
  ASSUME NEW f, NEW b \in Nat, NEW m, Remembers(f, b, m),
         \/ b >= 1
         \/ f.fn \notin {"ir_if_s", "ir_while_s", "ir_if_chain_s"}
         \/ f.node.kind = "AST_ELSE" /\ f.fn = "ir_if_chain_s"
  PROVE  Remembers(f, b + 1, m)
  BY DEF Remembers

\* A call that reserves nothing.
LEMMA CallLabels ==
  ASSUME TypeInv, LabelInv, stack # <<>>, UNCHANGED <<lable_tab, lable_c>>,
         NEW f, FrameOk(f), f.got = <<>>, Reserved(f, 0) = {}, Remembers(f, 0, lable_c), Call(f),
         NEW b, b = Len(Top.got),
         Ahead(Top, b + 1) \cup Ahead(f, 0) = Ahead(Top, b),
         Apart(Ahead(Top, b + 1), Ahead(f, 0)),
         Reserved(Top, b + 1) \subseteq Reserved(Top, b), Remembers(Top, b + 1, lable_c),
         Settled(All(Names(stack), Len(stack)),
                 (All(Ids(stack), Len(stack)) \ Reserved(Top, b)) \cup Reserved(Top, b + 1),
                 code', lable_tab, lable_c)
  PROVE  LabelInv'
<1>1. StackOk /\ Len(stack) \in Nat \ {0} /\ lable_c \in Nat /\ Top = stack[Len(stack)]
  BY DebtFacts
<1>2. stack'[Len(stack)] = Top
  <2>1. Len(stack) \in 1 .. Len(stack)
    BY <1>1
  <2>2. \A k \in 1 .. Len(stack) : stack'[k] = stack[k]
    BY <1>1, CallShape
  <2> QED
    BY <1>1, <2>1, <2>2
<1>3. lable_c <= lable_c' /\ lable_c' \in Nat /\ lable_c' = lable_c /\ lable_tab' = lable_tab
  BY <1>1
<1>4. Reserved(Top, b + 1) \subseteq Reserved(Top, b) \cup (lable_c + 1 .. lable_c')
  OBVIOUS
<1> QED
  BY <1>2, <1>3, <1>4, LabelsAfterCall

\* A call that emits nothing either.
LEMMA QuietCall ==
  ASSUME TypeInv, LabelInv, stack # <<>>, UNCHANGED <<code, lable_tab, lable_c>>,
         NEW f, FrameOk(f), f.got = <<>>, Reserved(f, 0) = {}, Remembers(f, 0, lable_c), Call(f),
         Ahead(Top, Len(Top.got) + 1) \cup Ahead(f, 0) = Ahead(Top, Len(Top.got)),
         Apart(Ahead(Top, Len(Top.got) + 1), Ahead(f, 0)),
         Reserved(Top, Len(Top.got) + 1) = Reserved(Top, Len(Top.got)),
         Remembers(Top, Len(Top.got) + 1, lable_c)
  PROVE  LabelInv'
<1> DEFINE b == Len(Top.got)
           P == All(Ids(stack), Len(stack))
<1>1. /\ Settled(All(Names(stack), Len(stack)), P, code, lable_tab, lable_c)
      /\ Reserved(Top, b) \subseteq P
  BY Owed
<1>2. (P \ Reserved(Top, b)) \cup Reserved(Top, b + 1) = P
  BY <1>1
<1>3. code' = code
  OBVIOUS
<1>4. Settled(All(Names(stack), Len(stack)), (P \ Reserved(Top, b)) \cup Reserved(Top, b + 1),
              code', lable_tab, lable_c)
  BY ONLY <1>1, <1>2, <1>3
<1>5. b = Len(Top.got)
  OBVIOUS
<1> HIDE DEF b
<1> QED
  BY <1>4, <1>5, CallLabels

\* A return that emits the nodes its frame still owed.
LEMMA ReturnLabels ==
  ASSUME TypeInv, LabelInv, stack # <<>>, Top.fn # "ir_function_s",
         UNCHANGED <<lable_tab, lable_c>>, NEW r, Return(r),
         Ahead(Top, Len(Top.got)) = {},
         Settled(All(Names(stack), Len(stack)),
                 All(Ids(stack), Len(stack)) \ Reserved(Top, Len(Top.got)),
                 code', lable_tab, lable_c)
  PROVE  LabelInv'
<1> DEFINE b == Len(Top.got)
<1>1. PoppedOne
  BY ReturnPops
<1>2. lable_c \in Nat
  BY DebtFacts
<1>3. lable_c <= lable_c' /\ lable_c' \in Nat /\ lable_c' = lable_c /\ lable_tab' = lable_tab
  BY <1>2
<1>4. All(Names(stack), Len(stack)) \ Ahead(Top, b) = All(Names(stack), Len(stack))
  OBVIOUS
<1>5. Settled(All(Names(stack), Len(stack)) \ Ahead(Top, b),
              All(Ids(stack), Len(stack)) \ Reserved(Top, b), code', lable_tab', lable_c')
  BY <1>3, <1>4
<1>6. b = Len(Top.got)
  OBVIOUS
<1> HIDE DEF b
<1> QED
  BY <1>1, <1>3, <1>5, <1>6, LabelsAfterReturn

-----------------------------------------------------------------------------
(* Expressions: no handler of theirs places or names a label                *)

Quiet(a) == a.op \notin {"IR_LABEL", "IR_JUMP", "IR_BRANCH"}

LEMMA SettledQuiet ==
  ASSUME NEW N, NEW R, NEW c, Listed(c), NEW tab, NEW m \in Nat, NEW a, Quiet(a),
         Settled(N, R, c, tab, m)
  PROVE  Settled(N, R, Append(c, a), tab, m) /\ Listed(Append(c, a))
<1>1. a.op # "IR_LABEL" /\ TargetsOf(a) \subseteq 1 .. m
  BY DEF Quiet, TargetsOf
<1> QED
  BY <1>1, SettledPlain, Appended

LEMMA SettledEmits ==
  ASSUME NEW N, NEW R, NEW tab, NEW m \in Nat, Listed(code), Settled(N, R, code, tab, m)
  PROVE  /\ \A a : Quiet(a) => Settled(N, R, Emit1(a), tab, m)
         /\ \A a, b : Quiet(a) /\ Quiet(b) => Settled(N, R, Emit2(a, b), tab, m)
         /\ \A a, b, c : Quiet(a) /\ Quiet(b) /\ Quiet(c) => Settled(N, R, Emit3(a, b, c), tab, m)
         /\ \A a, b, c, d : Quiet(a) /\ Quiet(b) /\ Quiet(c) /\ Quiet(d) =>
              Settled(N, R, Emit4(a, b, c, d), tab, m)
<1>1. \A a : Quiet(a) =>
        Settled(N, R, Append(code, a), tab, m) /\ Listed(Append(code, a))
  BY SettledQuiet
<1>2. \A a, b : Quiet(a) /\ Quiet(b) =>
        /\ Settled(N, R, Append(Append(code, a), b), tab, m)
        /\ Listed(Append(Append(code, a), b))
  BY <1>1, SettledQuiet
<1>3. \A a, b, c : Quiet(a) /\ Quiet(b) /\ Quiet(c) =>
        /\ Settled(N, R, Append(Append(Append(code, a), b), c), tab, m)
        /\ Listed(Append(Append(Append(code, a), b), c))
  BY <1>2, SettledQuiet
<1>4. \A a, b, c, d : Quiet(a) /\ Quiet(b) /\ Quiet(c) /\ Quiet(d) =>
        Settled(N, R, Append(Append(Append(Append(code, a), b), c), d), tab, m)
  BY <1>3, SettledQuiet
<1> QED
  BY <1>1, <1>2, <1>3, <1>4 DEF Emit1, Emit2, Emit3, Emit4

LEMMA QuietNodes ==
  /\ \A op, d, u : op \notin {"IR_LABEL", "IR_JUMP", "IR_BRANCH"} => Quiet(Node(op, d, u))
  /\ \A op, d, x : op \notin {"IR_LABEL", "IR_JUMP", "IR_BRANCH"} => Quiet(Imm(op, d, x))
  /\ \A op, d, u, x : op \notin {"IR_LABEL", "IR_JUMP", "IR_BRANCH"} => Quiet(Named(op, d, u, x))
  /\ \A lv, t : /\ Quiet(ir_load_lvalue(lv, t)) /\ Quiet(ir_store_lvalue(t, lv))
                /\ Quiet(ir_addr_of_lvalue(lv, t))
  /\ \A tok : binop_to_irop(tok) \notin {"IR_LABEL", "IR_JUMP", "IR_BRANCH"}
<1>1. \A op, d, u : op \notin {"IR_LABEL", "IR_JUMP", "IR_BRANCH"} => Quiet(Node(op, d, u))
  BY DEF Node, Quiet
<1>2. \A op, d, x : op \notin {"IR_LABEL", "IR_JUMP", "IR_BRANCH"} => Quiet(Imm(op, d, x))
  BY DEF Node, Imm, Quiet
<1>3. \A op, d, u, x : op \notin {"IR_LABEL", "IR_JUMP", "IR_BRANCH"} => Quiet(Named(op, d, u, x))
  BY DEF Node, Named, Quiet
<1>4. \A lv, t : /\ Quiet(ir_load_lvalue(lv, t)) /\ Quiet(ir_store_lvalue(t, lv))
                 /\ Quiet(ir_addr_of_lvalue(lv, t))
  BY <1>1, <1>3 DEF ir_load_lvalue, ir_store_lvalue, ir_addr_of_lvalue
<1>5. \A tok : binop_to_irop(tok) \notin {"IR_LABEL", "IR_JUMP", "IR_BRANCH"}
  BY DEF binop_to_irop, IropOf, Unmapped
<1> QED
  BY <1>1, <1>2, <1>3, <1>4, <1>5

\* The handlers that neither define a name nor reserve an id.
LEMMA OwesNothing ==
  ASSUME NEW f, f.fn \in ExprFn \cup {"ir_return_s", "ir_extrn_s", "ir_auto_s"}
  PROVE  \A b : /\ Ahead(f, b) = {} /\ Reserved(f, b) = {}
                /\ \A m : Remembers(f, 0, m) => Remembers(f, b, m)
  BY DEF Ahead, Reserved, Remembers, ExprFn

LEMMA OperandIs ==
  ASSUME NEW f, f.fn \in ExprFn \cup {"ir_return_s"}, NEW i \in 1 .. Len(Operands(f))
  PROVE  \E e : Operands(f)[i] = Value(e) \/ Operands(f)[i] = Place(e)
  BY DEF Operands, ExprFn

LEMMA LabelsStay ==
  ASSUME LabelInv, UNCHANGED <<stack, code, lable_tab, lable_c>>
  PROVE  LabelInv'
  BY DEF LabelInv, Names, Ids, Begun

LEMMA YieldLabels ==
  ASSUME TypeInv, LabelInv, stack # <<>>,
         Top.fn \in ExprFn \cup {"ir_return_s"}, NEW nodes, NEW n, NEW r, Yield(nodes, n, r),
         \/ nodes = code
         \/ \E a : Quiet(a) /\ nodes = Emit1(a)
         \/ \E a, b : Quiet(a) /\ Quiet(b) /\ nodes = Emit2(a, b)
         \/ \E a, b, c, d : Quiet(a) /\ Quiet(b) /\ Quiet(c) /\ Quiet(d)
                            /\ nodes = Emit4(a, b, c, d)
  PROVE  LabelInv'
<1> DEFINE N == All(Names(stack), Len(stack))
           R == All(Ids(stack), Len(stack))
<1>1. Settled(N, R, code, lable_tab, lable_c) /\ Listed(code) /\ lable_c \in Nat
  BY Owed
<1>2. Settled(N, R, nodes, lable_tab, lable_c)
  <2> HIDE DEF N, R
  <2> QED
    BY <1>1, SettledEmits
<1>3. Ahead(Top, Len(Top.got)) = {} /\ Reserved(Top, Len(Top.got)) = {}
  BY OwesNothing
<1>4. code' = nodes /\ Return(r) /\ UNCHANGED <<lable_tab, lable_c>> /\ Top.fn # "ir_function_s"
  BY DEF Yield, ExprFn
<1>5. R \ Reserved(Top, Len(Top.got)) = R
  BY <1>3
<1>6. Settled(N, R \ Reserved(Top, Len(Top.got)), code', lable_tab, lable_c)
  BY ONLY <1>2, <1>4, <1>5
<1> QED
  BY <1>3, <1>4, <1>6, ReturnLabels

LEMMA ExprStepLabelled == TypeInv /\ LabelInv /\ ExprStep => LabelInv'
<1> SUFFICES ASSUME TypeInv, LabelInv, ExprStep PROVE LabelInv'
  OBVIOUS
<1>1. stack # <<>>
  BY DEF ExprStep, Fatal, EvaluateOperand, Literal, LoadVariable, AddressOf, DerefOrNegate,
         Not, IncDec, Assign, BinaryOp, EmitCall, LvalueName, LvalueDeref,
         ReadyUnary, Ready, InCall
<1>2. CASE Fatal
  BY <1>2, LabelsStay DEF Fatal
<1>3. CASE EvaluateOperand
  <2> DEFINE f == Operands(Top)[Len(Top.got) + 1]
             b == Len(Top.got)
  <2>1. /\ Top.fn \in ExprFn \cup {"ir_return_s"} /\ FrameOk(Top)
        /\ b < Len(Operands(Top)) /\ b \in Nat
        /\ Call(f) /\ UNCHANGED <<code, lable_tab, lable_c>>
    BY <1>1, <1>3, TopOk DEF EvaluateOperand, InCall, ExprFn
  <2>2. Len(Operands(Top)) \in Nat /\ b + 1 \in 1 .. Len(Operands(Top))
    BY <2>1, OperandOk
  <2>3. FrameOk(f) /\ \E e : f = Value(e) \/ f = Place(e)
    <3>1. FrameOk(f)
      BY <2>1, <2>2, OperandOk
    <3>2. \E e : f = Value(e) \/ f = Place(e)
      BY <2>1, <2>2, OperandIs
    <3> QED
      BY <3>1, <3>2
  <2> HIDE DEF f
  <2>4. /\ f.got = <<>> /\ Reserved(f, 0) = {} /\ Remembers(f, 0, lable_c)
        /\ Ahead(f, 0) = {}
    <3>1. \E fn \in ExprFn : \E e : f = Frame(fn, e, 0)
      BY <2>3 DEF Value, Place, ExprFn
    <3>2. lable_c \in Nat /\ 0 <= lable_c
      BY DEF TypeInv, TypeOK
    <3> QED
      BY <2>3, <3>1, <3>2, FreshOwesNothing, FreshNames DEF ExprFn
  <2>5. /\ Ahead(Top, b) = {} /\ Ahead(Top, b + 1) = {}
        /\ Reserved(Top, b) = {} /\ Reserved(Top, b + 1) = {}
    BY <2>1, OwesNothing
  <2>6. Remembers(Top, b + 1, lable_c)
    BY <1>1, <2>1, Owed, RemembersNext DEF ExprFn
  <2> QED
    BY <1>1, <2>1, <2>3, <2>4, <2>5, <2>6, QuietCall DEF Apart
<1>4. ASSUME NEW fn \in ExprFn, NEW kind, Ready(fn, kind)
      PROVE  Top.fn \in ExprFn \cup {"ir_return_s"}
  BY <1>4 DEF Ready, InCall
<1>5. ASSUME NEW ops, ReadyUnary(ops)
      PROVE  Top.fn \in ExprFn \cup {"ir_return_s"}
  BY <1>5 DEF ReadyUnary, Ready, InCall, ExprFn
<1>6. "ir_expr_f" \in ExprFn /\ "ir_lvalue" \in ExprFn
  BY DEF ExprFn
<1>7. ASSUME Top.fn \in ExprFn \cup {"ir_return_s"}, NEW n, NEW r
      PROVE  /\ Yield(code, n, r) => LabelInv'
             /\ \A a : Quiet(a) /\ Yield(Emit1(a), n, r) => LabelInv'
             /\ \A a, b : Quiet(a) /\ Quiet(b) /\ Yield(Emit2(a, b), n, r) => LabelInv'
             /\ \A a, b, c, d : Quiet(a) /\ Quiet(b) /\ Quiet(c) /\ Quiet(d)
                                /\ Yield(Emit4(a, b, c, d), n, r) => LabelInv'
  BY <1>1, <1>7, YieldLabels
<1>8. CASE Literal
  BY <1>4, <1>6, <1>7, <1>8, QuietNodes DEF Literal
<1>9. CASE LoadVariable
  BY <1>4, <1>6, <1>7, <1>9, QuietNodes DEF LoadVariable
<1>10. CASE AddressOf
  BY <1>5, <1>7, <1>10, QuietNodes DEF AddressOf
<1>11. CASE DerefOrNegate
  BY <1>5, <1>7, <1>11, QuietNodes DEF DerefOrNegate
<1>12. CASE Not
  BY <1>5, <1>7, <1>12, QuietNodes DEF Not
<1>13. CASE IncDec
  BY <1>5, <1>7, <1>13, QuietNodes DEF IncDec
<1>14. CASE Assign
  BY <1>4, <1>6, <1>7, <1>14, QuietNodes DEF Assign
<1>15. CASE BinaryOp
  BY <1>4, <1>6, <1>7, <1>15, QuietNodes DEF BinaryOp
<1>16. CASE EmitCall
  BY <1>4, <1>6, <1>7, <1>16, QuietNodes DEF EmitCall
<1>17. CASE LvalueName
  BY <1>4, <1>6, <1>7, <1>17 DEF LvalueName
<1>18. CASE LvalueDeref
  BY <1>4, <1>6, <1>7, <1>18 DEF LvalueDeref
<1> QED
  BY <1>2, <1>3, <1>8, <1>9, <1>10, <1>11, <1>12, <1>13, <1>14, <1>15, <1>16, <1>17, <1>18
     DEF ExprStep

-----------------------------------------------------------------------------
(* Statements                                                               *)

\* The control nodes.
LEMMA ControlNodes ==
  /\ \A l : Label(l).op = "IR_LABEL" /\ Label(l).id = l
  /\ \A l : Jump(l).op = "IR_JUMP" /\ TargetsOf(Jump(l)) = {l}
  /\ \A t, l, k : Branch(t, l, k).op = "IR_BRANCH" /\ TargetsOf(Branch(t, l, k)) = {l, k}
<1>1. \A l : Label(l).op = "IR_LABEL" /\ Label(l).id = l
  BY DEF Label, Node
<1>2. \A l : Jump(l).op = "IR_JUMP" /\ Jump(l).id = l
  BY DEF Jump, Node
<1>3. \A t, l, k : LET a == Branch(t, l, k) IN a.op = "IR_BRANCH" /\ a.id = l /\ a.id_f = k
  BY DEF Branch, Node
<1> QED
  BY <1>1, <1>2, <1>3 DEF TargetsOf

\* A jump or a branch to known labels, and then a reserved label.
LEMMA SettledJumpPlace ==
  ASSUME NEW N, NEW R, NEW c, Listed(c), NEW tab, NEW m \in Nat, NEW a, NEW l \in R,
         Settled(N, R, c, tab, m), a.op \in {"IR_JUMP", "IR_BRANCH"}, TargetsOf(a) \subseteq 1 .. m
  PROVE  Settled(N, R \ {l}, Append(Append(c, a), Label(l)), tab, m)
<1>1. Listed(Append(c, a)) /\ a.op # "IR_LABEL"
  BY Appended
<1>2. Settled(N, R, Append(c, a), tab, m)
  BY <1>1, SettledPlain
<1> QED
  BY <1>1, <1>2, SettledPlace

\* A handler's first call, for which it reserved k ids and stored the first.
LEMMA ReservingCall ==
  ASSUME TypeInv, LabelInv, stack # <<>>, Len(Top.got) = 0, NEW k \in Nat,
         lable_c' = lable_c + k,
         NEW f, FrameOk(f), f.got = <<>>, Reserved(f, 0) = {}, Remembers(f, 0, lable_c + k),
         CallFrom(lable_c + 1, f),
         Ahead(Top, 1) \cup Ahead(f, 0) = Ahead(Top, 0), Apart(Ahead(Top, 1), Ahead(f, 0)),
         Reserved(Top, 0) = {}, k >= 1,
         NEW F, F \subseteq lable_c + 1 .. lable_c + k,
         \A g : SameCall(g, Top) /\ g.lab = lable_c + 1 => Reserved(g, 1) = F,
         Settled(All(Names(stack), Len(stack)), All(Ids(stack), Len(stack)) \cup F,
                 code', lable_tab', lable_c + k)
  PROVE  LabelInv'
<1> DEFINE g == stack'[Len(stack)]
<1>1. /\ StackOk /\ Len(stack) \in Nat \ {0} /\ lable_c \in Nat /\ Top = stack[Len(stack)]
  BY DebtFacts
<1>2. SameCall(g, Top) /\ g.lab = lable_c + 1
  <2>1. lable_c + 1 \in Nat /\ Len(stack) \in 1 .. Len(stack)
    BY <1>1
  <2>2. /\ \A i \in 1 .. Len(stack) : SameCall(stack'[i], stack[i])
        /\ stack'[Len(stack)].lab = lable_c + 1
    BY <1>1, <2>1, CallFromShape
  <2> QED
    BY <1>1, <2>1, <2>2
<1>3. g = stack'[Len(stack)]
  OBVIOUS
<1> HIDE DEF g
<1>4. Reserved(g, 1) = F
  BY <1>2
<1>5. /\ lable_c' \in Nat /\ lable_c <= lable_c' /\ lable_c + 1 <= lable_c'
      /\ lable_c + 1 .. lable_c + k = lable_c + 1 .. lable_c'
  BY <1>1
<1>6. Remembers(g, 1, lable_c')
  <2>1. Remembers(Top, 0, lable_c) /\ FrameOk(Top)
    BY Owed, DebtFacts
  <2>2. Remembers(Top, 0, lable_c')
    BY <1>1, <1>5, <2>1, RemembersMore
  <2>3. g.fn = Top.fn /\ g.node = Top.node /\ g.end = Top.end
    BY <1>2 DEF SameCall
  <2>4. lable_c + 1 >= 1
    BY <1>1
  <2> QED
    BY <1>2, <1>5, <2>2, <2>3, <2>4 DEF Remembers
<1>7. Reserved(g, 0 + 1) \subseteq Reserved(Top, 0) \cup (lable_c + 1 .. lable_c')
  <2>1. F \subseteq lable_c + 1 .. lable_c'
    BY ONLY <1>5, F \subseteq lable_c + 1 .. lable_c + k
  <2>2. 0 + 1 = 1
    OBVIOUS
  <2> QED
    BY ONLY <1>4, <2>1, <2>2
<1>8. Settled(All(Names(stack), Len(stack)),
              (All(Ids(stack), Len(stack)) \ Reserved(Top, 0)) \cup Reserved(g, 0 + 1),
              code', lable_tab', lable_c')
  <2>1. (All(Ids(stack), Len(stack)) \ Reserved(Top, 0)) \cup Reserved(g, 0 + 1)
          = All(Ids(stack), Len(stack)) \cup F
    BY <1>4
  <2> QED
    BY <2>1
<1>9. \E l \in Nat : CallFrom(l, f)
  <2>1. lable_c + 1 \in Nat
    BY <1>1
  <2> QED
    BY <2>1
<1>10. Remembers(f, 0, lable_c') /\ Remembers(g, 0 + 1, lable_c')
       /\ Ahead(Top, 0 + 1) \cup Ahead(f, 0) = Ahead(Top, 0)
       /\ Apart(Ahead(Top, 0 + 1), Ahead(f, 0))
  BY <1>6
<1>11. PICK b : b = Len(Top.got) /\ b = 0
  OBVIOUS
<1>12. /\ Remembers(g, b + 1, lable_c')
       /\ Ahead(Top, b + 1) \cup Ahead(f, 0) = Ahead(Top, b)
       /\ Apart(Ahead(Top, b + 1), Ahead(f, 0))
       /\ Reserved(g, b + 1) \subseteq Reserved(Top, b) \cup (lable_c + 1 .. lable_c')
       /\ Settled(All(Names(stack), Len(stack)),
                  (All(Ids(stack), Len(stack)) \ Reserved(Top, b)) \cup Reserved(g, b + 1),
                  code', lable_tab', lable_c')
  BY ONLY <1>7, <1>8, <1>10, <1>11
<1> QED
  BY <1>3, <1>5, <1>9, <1>10, <1>11, <1>12, LabelsAfterCall

\* The ids a reserving handler gets are unknown so far.
LEMMA FreshIds ==
  ASSUME TypeInv, LabelInv, stack # <<>>, NEW k \in {1, 2, 3}
  PROVE  LET R == All(Ids(stack), Len(stack))
             F == {lable_c + i : i \in 1 .. k}
         IN /\ F = lable_c + 1 .. lable_c + k /\ R \cap F = {} /\ k \in Nat
            /\ Settled(All(Names(stack), Len(stack)), R \cup F, code, lable_tab, lable_c + k)
<1> DEFINE R == All(Ids(stack), Len(stack))
           F == {lable_c + i : i \in 1 .. k}
<1>1. /\ Settled(All(Names(stack), Len(stack)), R, code, lable_tab, lable_c)
      /\ Listed(code) /\ lable_c \in Nat
  BY Owed
<1>2. F = lable_c + 1 .. lable_c + k
  <2>1. \A x \in lable_c + 1 .. lable_c + k : x - lable_c \in 1 .. k /\ x = lable_c + (x - lable_c)
    BY <1>1
  <2>2. \A i \in 1 .. k : lable_c + i \in lable_c + 1 .. lable_c + k
    BY <1>1
  <2>3. \A x : x \in F <=> x \in lable_c + 1 .. lable_c + k
    BY <2>1, <2>2
  <2> QED
    BY <2>3
<1>3. R \cap F = {}
  <2>1. R \subseteq 1 .. lable_c
    BY <1>1 DEF Settled
  <2> QED
    BY <1>1, <1>2, <2>1
<1>4. lable_c + k \in Nat /\ lable_c <= lable_c + k
  BY <1>1
<1>5. Settled(All(Names(stack), Len(stack)), R \cup (lable_c + 1 .. lable_c + k), code,
              lable_tab, lable_c + k)
  <2> HIDE DEF R
  <2> QED
    BY <1>1, <1>4, SettledReserve
<1>6. k \in Nat
  OBVIOUS
<1> HIDE DEF R, F
<1>7. Settled(All(Names(stack), Len(stack)), R \cup F, code, lable_tab, lable_c + k)
  BY <1>2, <1>5
<1> QED
  BY <1>2, <1>3, <1>6, <1>7 DEF R, F

\* What the frames of the statement handlers owe, call by call.
LEMMA ScopeOwes ==
  ASSUME NEW f, FrameOk(f), f.fn = "ir_scope", NEW b \in Nat
  PROVE  /\ b = Len(f.node.body) => Ahead(f, b) = {}
         /\ b < Len(f.node.body) =>
              LET s == f.node.body[b + 1] IN
              /\ s \in Stmt /\ s.kind \notin {"AST_ELSE_IF", "AST_ELSE"}
              /\ Ahead(f, b + 1) \cup LablesOf[s] = Ahead(f, b)
              /\ Apart(Ahead(f, b + 1), LablesOf[s])
         /\ Reserved(f, b) = {} /\ Reserved(f, b + 1) = {}
<1> DEFINE body == f.node.body
           L == Len(body)
           A(c) == UNION {LablesOf[body[i]] : i \in c + 1 .. L}
<1>1. /\ f.node \in Stmt /\ f.node.kind \in {"AST_SCOPE", "AST_ELSE"}
  BY StmtFrame DEF ExprFn
<1>2. body \in Seq(Stmt) /\ L \in Nat
      /\ \A i \in 1 .. L : body[i].kind \notin {"AST_ELSE_IF", "AST_ELSE"}
  BY <1>1, StmtAssumption
<1>3. \A i, j \in 1 .. L : i # j => Apart(LablesOf[body[i]], LablesOf[body[j]])
  BY <1>1, LablesAssumption
<1>4. \A c : Ahead(f, c) = A(c)
  BY DEF Ahead
<1>5. Reserved(f, b) = {} /\ Reserved(f, b + 1) = {}
  BY DEF Reserved
<1>6. \A i \in 1 .. L : body[i] \in Stmt
  BY <1>2
<1> HIDE DEF body, L
<1>7. ASSUME b = L PROVE Ahead(f, b) = {}
  <2>1. \A i : i \notin b + 1 .. L
    BY <1>2, <1>7
  <2> QED
    BY <1>4, <2>1
<1>8. ASSUME b < L
      PROVE  /\ body[b + 1] \in Stmt /\ body[b + 1].kind \notin {"AST_ELSE_IF", "AST_ELSE"}
             /\ Ahead(f, b + 1) \cup LablesOf[body[b + 1]] = Ahead(f, b)
             /\ Apart(Ahead(f, b + 1), LablesOf[body[b + 1]])
  <2>1. /\ b + 1 \in 1 .. L /\ b + 1 \in b + 1 .. L
        /\ \A i \in (b + 1) + 1 .. L : i \in 1 .. L /\ i # b + 1 /\ i \in b + 1 .. L
        /\ \A i \in b + 1 .. L : i = b + 1 \/ i \in (b + 1) + 1 .. L
    BY <1>2, <1>8
  <2>2. body[b + 1] \in Stmt /\ body[b + 1].kind \notin {"AST_ELSE_IF", "AST_ELSE"}
    BY <1>2, <1>6, <2>1
  <2>3. \A x : x \in A(b + 1) \/ x \in LablesOf[body[b + 1]] <=> x \in A(b)
    BY <2>1
  <2>4. Apart(A(b + 1), LablesOf[body[b + 1]])
    <3>1. \A i \in (b + 1) + 1 .. L : Apart(LablesOf[body[i]], LablesOf[body[b + 1]])
      BY <1>3, <2>1
    <3> QED
      BY <3>1 DEF Apart
  <2> QED
    BY <1>4, <2>2, <2>3, <2>4
<1> QED
  BY <1>5, <1>7, <1>8 DEF body, L

LEMMA ChainOwes ==
  ASSUME NEW f, FrameOk(f), f.fn = "ir_if_chain_s"
  PROVE  LET s == f.node IN
         /\ s \in Stmt
         /\ s.kind = "AST_ELSE" =>
              /\ Ahead(f, 0) = LablesOf[s] /\ Ahead(f, 1) = {}
              /\ \A b : Reserved(f, b) = {}
         /\ s.kind # "AST_ELSE" =>
              /\ s.Condition \in Expr /\ s.body \in Stmt /\ s.body.kind = "AST_SCOPE"
              /\ Ahead(f, 1) = Ahead(f, 0)
              /\ Ahead(f, 2) \cup LablesOf[s.body] = Ahead(f, 1)
              /\ Apart(Ahead(f, 2), LablesOf[s.body])
              /\ IF s.chain = NULL THEN Ahead(f, 2) = {}
                 ELSE /\ s.chain \in Stmt /\ s.chain.kind \in {"AST_ELSE_IF", "AST_ELSE"}
                      /\ Ahead(f, 2) = LablesOf[s.chain]
              /\ Ahead(f, 3) = {}
              /\ Reserved(f, 0) = {} /\ Reserved(f, 1) = {f.lab, f.lab + 1}
              /\ Reserved(f, 2) = {f.lab + 1} /\ Reserved(f, 3) = {}
<1> DEFINE s == f.node
<1>1. s \in Stmt /\ s.kind \in {"AST_IF", "AST_ELSE_IF", "AST_ELSE"}
  BY StmtFrame DEF ExprFn
<1>2. ASSUME s.kind = "AST_ELSE"
      PROVE  /\ Ahead(f, 0) = LablesOf[s] /\ Ahead(f, 1) = {}
             /\ \A b : Reserved(f, b) = {}
  BY <1>2 DEF Ahead, Reserved
<1>3. ASSUME s.kind # "AST_ELSE"
      PROVE  /\ s.Condition \in Expr /\ s.body \in Stmt /\ s.body.kind = "AST_SCOPE"
             /\ s.chain # NULL =>
                  /\ s.chain \in Stmt /\ s.chain.kind \in {"AST_ELSE_IF", "AST_ELSE"}
                  /\ Apart(LablesOf[s.body], LablesOf[s.chain])
  <2>1. s.kind \in {"AST_IF", "AST_ELSE_IF"}
    BY <1>1, <1>3
  <2> HIDE DEF s
  <2>2. s.chain # NULL => Apart(LablesOf[s.body], LablesOf[s.chain])
    BY <1>1, <2>1, LablesAssumption
  <2> QED
    BY <1>1, <2>1, <2>2, StmtAssumption
<1>4. ASSUME s.kind # "AST_ELSE", NEW b \in Nat
      PROVE  Ahead(f, b) = (IF b <= 1 THEN LablesOf[s.body] ELSE {})
                             \cup (IF b <= 2 /\ s.chain # NULL THEN LablesOf[s.chain] ELSE {})
  BY <1>4 DEF Ahead
<1>5. ASSUME s.kind # "AST_ELSE"
      PROVE  /\ Reserved(f, 0) = {} /\ Reserved(f, 1) = {f.lab, f.lab + 1}
             /\ Reserved(f, 2) = {f.lab + 1} /\ Reserved(f, 3) = {}
  BY <1>5 DEF Reserved
<1> HIDE DEF s
<1>6. ASSUME s.kind # "AST_ELSE"
      PROVE  /\ Ahead(f, 1) = Ahead(f, 0)
             /\ Ahead(f, 2) \cup LablesOf[s.body] = Ahead(f, 1)
             /\ Apart(Ahead(f, 2), LablesOf[s.body])
             /\ IF s.chain = NULL THEN Ahead(f, 2) = {} ELSE Ahead(f, 2) = LablesOf[s.chain]
             /\ Ahead(f, 3) = {}
  <2> DEFINE B == LablesOf[s.body]
             C == IF s.chain # NULL THEN LablesOf[s.chain] ELSE {}
  <2>1. /\ Ahead(f, 0) = B \cup C /\ Ahead(f, 1) = B \cup C
        /\ Ahead(f, 2) = {} \cup C /\ Ahead(f, 3) = {} \cup {}
    BY <1>4, <1>6
  <2>2. Apart(C, B)
    BY <1>3, <1>6 DEF Apart
  <2>3. IF s.chain = NULL THEN C = {} ELSE C = LablesOf[s.chain]
    OBVIOUS
  <2> HIDE DEF C
  <2> QED
    BY <2>1, <2>2, <2>3
<1> QED
  BY <1>1, <1>2, <1>3, <1>5, <1>6 DEF s

LEMMA IfOwes ==
  ASSUME NEW f, FrameOk(f), f.fn = "ir_if_s"
  PROVE  /\ f.node \in Stmt /\ f.node.kind = "AST_IF"
         /\ Ahead(f, 0) = LablesOf[f.node] /\ Ahead(f, 1) = {}
         /\ Reserved(f, 0) = {} /\ Reserved(f, 1) = {f.lab}
<1>1. f.node \in Stmt /\ f.node.kind = "AST_IF"
  BY StmtFrame DEF ExprFn
<1> QED
  BY <1>1 DEF Ahead, Reserved

LEMMA WhileOwes ==
  ASSUME NEW f, FrameOk(f), f.fn = "ir_while_s"
  PROVE  /\ f.node \in Stmt /\ f.node.Condition \in Expr
         /\ f.node.body \in Stmt /\ f.node.body.kind = "AST_SCOPE"
         /\ Ahead(f, 0) = LablesOf[f.node.body] /\ Ahead(f, 1) = LablesOf[f.node.body]
         /\ Ahead(f, 2) = {}
         /\ Reserved(f, 0) = {} /\ Reserved(f, 1) = {f.lab + 1, f.lab + 2}
         /\ Reserved(f, 2) = {f.lab + 2}
<1>1. f.node \in Stmt /\ f.node.kind = "AST_WHILE"
  BY StmtFrame DEF ExprFn
<1>2. f.node.Condition \in Expr /\ f.node.body \in Stmt /\ f.node.body.kind = "AST_SCOPE"
  BY <1>1, StmtAssumption
<1> QED
  BY <1>1, <1>2 DEF Ahead, Reserved

LEMMA IfLabelled == TypeInv /\ LabelInv /\ (IfBegin \/ IfEnd) => LabelInv'
<1> SUFFICES ASSUME TypeInv, LabelInv, IfBegin \/ IfEnd PROVE LabelInv'
  OBVIOUS
<1> DEFINE N == All(Names(stack), Len(stack))
           R == All(Ids(stack), Len(stack))
<1>1. stack # <<>> /\ Top.fn = "ir_if_s"
  BY DEF IfBegin, IfEnd, InCall
<1>2. /\ Settled(N, R, code, lable_tab, lable_c) /\ Listed(code) /\ lable_c \in Nat
      /\ Len(Top.got) \in Nat /\ Remembers(Top, Len(Top.got), lable_c)
      /\ Reserved(Top, Len(Top.got)) \subseteq R
  BY <1>1, Owed
<1>3. /\ Top.node \in Stmt /\ Top.node.kind = "AST_IF"
      /\ Ahead(Top, 0) = LablesOf[Top.node] /\ Ahead(Top, 1) = {}
      /\ Reserved(Top, 0) = {} /\ Reserved(Top, 1) = {Top.lab}
  BY <1>1, DebtFacts, IfOwes
<1>4. CASE IfBegin
  <2> DEFINE f == Frame("ir_if_chain_s", Top.node, lable_c + 1)
             F == {lable_c + 1}
  <2>1. /\ Top.lab = 0 /\ lable_c' = lable_c + 1 /\ CallFrom(lable_c + 1, f)
        /\ UNCHANGED <<code, lable_tab>>
    BY <1>4 DEF IfBegin
  <2>2. Len(Top.got) = 0
    BY <1>1, <1>2, <2>1 DEF Remembers
  <2>3. FrameOk(f)
    <3>1. lable_c + 1 \in Nat
      BY <1>2
    <3> QED
      BY <1>3, <3>1, ChainOk
  <2>4. /\ f.got = <<>> /\ Reserved(f, 0) = {} /\ Remembers(f, 0, lable_c + 1)
        /\ Ahead(f, 0) = LablesOf[Top.node]
    <3>1. lable_c + 1 \in Nat /\ lable_c + 1 <= lable_c + 1 /\ lable_c + 1 >= 1
      BY <1>2
    <3> QED
      BY <1>3, <3>1, FreshOwesNothing, FreshNames
  <2>5. /\ F = lable_c + 1 .. lable_c + 1
        /\ Settled(N, R \cup F, code, lable_tab, lable_c + 1)
    <3>1. F = {lable_c + i : i \in 1 .. 1}
      OBVIOUS
    <3> HIDE DEF F
    <3> QED
      BY <1>1, <3>1, FreshIds
  <2>6. \A g : SameCall(g, Top) /\ g.lab = lable_c + 1 => Reserved(g, 1) = F
    BY <1>1 DEF SameCall, Reserved
  <2>7. Settled(N, R \cup F, code', lable_tab', lable_c + 1)
    BY <2>1, <2>5
  <2>8. /\ Ahead(Top, 1) \cup Ahead(f, 0) = Ahead(Top, 0) /\ Apart(Ahead(Top, 1), Ahead(f, 0))
        /\ 1 \in Nat /\ 1 >= 1 /\ F \subseteq lable_c + 1 .. lable_c + 1
    BY <1>3, <2>4, <2>5 DEF Apart
  <2> HIDE DEF f, F, N, R
  <2> QED
    BY <1>1, <1>3, <2>1, <2>2, <2>3, <2>4, <2>6, <2>7, <2>8, ReservingCall DEF N, R
<1>5. CASE IfEnd
  <2>1. /\ Len(Top.got) = 1 /\ code' = Append(code, Label(Top.lab)) /\ Return(NoTemp)
        /\ UNCHANGED <<lable_tab, lable_c>>
    BY <1>5 DEF IfEnd, Yield, Emit1
  <2>2. Top.lab \in R
    BY <1>2, <1>3, <2>1
  <2> HIDE DEF N, R
  <2>3. Settled(N, R \ {Top.lab}, code', lable_tab, lable_c)
    BY <1>2, <2>1, <2>2, SettledPlace
  <2> QED
    BY <1>1, <1>3, <2>1, <2>3, ReturnLabels DEF N, R
<1> QED
  BY <1>4, <1>5

LEMMA WhileLabelled ==
  TypeInv /\ LabelInv /\ (WhileCondition \/ WhileBody \/ WhileEnd) => LabelInv'
<1> SUFFICES ASSUME TypeInv, LabelInv, WhileCondition \/ WhileBody \/ WhileEnd PROVE LabelInv'
  OBVIOUS
<1> DEFINE N == All(Names(stack), Len(stack))
           R == All(Ids(stack), Len(stack))
           l == Top.lab
<1>1. stack # <<>> /\ Top.fn = "ir_while_s"
  BY DEF WhileCondition, WhileBody, WhileEnd, InCall
<1>2. /\ Settled(N, R, code, lable_tab, lable_c) /\ Listed(code) /\ lable_c \in Nat
      /\ Len(Top.got) \in Nat /\ Remembers(Top, Len(Top.got), lable_c)
      /\ Reserved(Top, Len(Top.got)) \subseteq R /\ R \subseteq 1 .. lable_c
  BY <1>1, Owed DEF Settled
<1>3. /\ Top.node \in Stmt /\ Top.node.Condition \in Expr
      /\ Top.node.body \in Stmt /\ Top.node.body.kind = "AST_SCOPE"
      /\ Ahead(Top, 0) = LablesOf[Top.node.body] /\ Ahead(Top, 1) = LablesOf[Top.node.body]
      /\ Ahead(Top, 2) = {} /\ Reserved(Top, 0) = {}
      /\ Reserved(Top, 1) = {l + 1, l + 2} /\ Reserved(Top, 2) = {l + 2} /\ l \in Nat
  BY <1>1, DebtFacts, TopOk, WhileOwes
<1> HIDE DEF l
<1>4. CASE WhileCondition
  <2> DEFINE f == Value(Top.node.Condition)
             F == {lable_c + 1, lable_c + 2, lable_c + 3}
             G == {lable_c + 2, lable_c + 3}
  <2>1. /\ l = 0 /\ lable_c' = lable_c + 3 /\ CallFrom(lable_c + 1, f)
        /\ code' = Append(code, Label(lable_c + 1)) /\ lable_tab' = lable_tab
    BY <1>4 DEF WhileCondition, Emit1, l
  <2>2. Len(Top.got) = 0
    BY <1>1, <1>2, <2>1 DEF Remembers, l
  <2>3. FrameOk(f) /\ f.got = <<>> /\ Reserved(f, 0) = {} /\ Ahead(f, 0) = {}
        /\ Remembers(f, 0, lable_c + 3)
    <3>1. lable_c + 3 \in Nat /\ 0 <= lable_c + 3
      BY <1>2
    <3> QED
      BY <1>3, <3>1, ValueOk, FreshOwesNothing, FreshNames DEF Value
  <2>4. /\ F = lable_c + 1 .. lable_c + 3 /\ R \cap F = {}
        /\ Settled(N, R \cup F, code, lable_tab, lable_c + 3)
    <3>1. F = {lable_c + i : i \in 1 .. 3}
      OBVIOUS
    <3> HIDE DEF F
    <3> QED
      BY <1>1, <3>1, FreshIds
  <2>5. (R \cup F) \ {lable_c + 1} = R \cup G /\ lable_c + 1 \in R \cup F /\ lable_c + 3 \in Nat
        /\ G \subseteq lable_c + 1 .. lable_c + 3
    BY <1>2, <2>4
  <2>6. \A g : SameCall(g, Top) /\ g.lab = lable_c + 1 => Reserved(g, 1) = G
    <3>1. \A g : SameCall(g, Top) /\ g.lab = lable_c + 1 =>
            Reserved(g, 1) = {(lable_c + 1) + 1, (lable_c + 1) + 2}
      BY <1>1 DEF SameCall, Reserved
    <3>2. (lable_c + 1) + 1 = lable_c + 2 /\ (lable_c + 1) + 2 = lable_c + 3
      BY <1>2
    <3> QED
      BY <3>1, <3>2
  <2> HIDE DEF f, F, G, N, R
  <2>7. Settled(N, R \cup G, code', lable_tab', lable_c + 3)
    BY <1>2, <2>1, <2>4, <2>5, SettledPlace
  <2>8. /\ Ahead(Top, 1) \cup Ahead(f, 0) = Ahead(Top, 0) /\ Apart(Ahead(Top, 1), Ahead(f, 0))
        /\ 3 \in Nat /\ 3 >= 1
    BY <1>3, <2>3 DEF Apart
  <2> QED
    BY <1>1, <1>3, <2>1, <2>2, <2>3, <2>5, <2>6, <2>7, <2>8, ReservingCall DEF N, R
<1>5. CASE WhileBody
  <2> DEFINE f == Frame("ir_scope", Top.node.body, 0)
             a == Branch(Got(1), l + 1, l + 2)
  <2>1. /\ Len(Top.got) = 1 /\ code' = Append(Append(code, a), Label(l + 1)) /\ Call(f)
        /\ UNCHANGED <<lable_tab, lable_c>>
    BY <1>5 DEF WhileBody, Emit2, l
  <2>2. /\ a.op = "IR_BRANCH" /\ TargetsOf(a) = {l + 1, l + 2}
        /\ l + 1 \in R /\ l + 2 \in R /\ l + 1 # l + 2
    BY <1>2, <1>3, <2>1, ControlNodes
  <2>3. FrameOk(f) /\ f.got = <<>> /\ Reserved(f, 0) = {} /\ Remembers(f, 0, lable_c)
        /\ Ahead(f, 0) = LablesOf[Top.node.body]
    BY <1>2, <1>3, ScopeOk, FreshOwesNothing, FreshNames
  <2>4. R \ {l + 1} = (R \ Reserved(Top, 1)) \cup Reserved(Top, 1 + 1)
    BY <1>3, <2>2
  <2>5. Remembers(Top, 1 + 1, lable_c)
    <3>1. Remembers(Top, 1, lable_c) /\ 1 \in Nat /\ 1 >= 1
      BY <1>2, <2>1
    <3> QED
      BY ONLY <3>1, RemembersNext
  <2> HIDE DEF f, a, N, R
  <2>6. Settled(N, R \ {l + 1}, code', lable_tab, lable_c)
    BY <1>2, <2>1, <2>2, SettledJumpPlace
  <2>7. Settled(N, (R \ Reserved(Top, 1)) \cup Reserved(Top, 1 + 1), code', lable_tab, lable_c)
    BY <2>4, <2>6
  <2>8. /\ Ahead(Top, 1 + 1) \cup Ahead(f, 0) = Ahead(Top, 1)
        /\ Apart(Ahead(Top, 1 + 1), Ahead(f, 0))
        /\ Reserved(Top, 1 + 1) \subseteq Reserved(Top, 1)
    BY <1>3, <2>3 DEF Apart
  <2> QED
    BY <1>1, <2>1, <2>3, <2>5, <2>7, <2>8, CallLabels DEF N, R
<1>6. CASE WhileEnd
  <2>1. /\ Len(Top.got) = 2 /\ code' = Append(Append(code, Jump(l)), Label(l + 2))
        /\ Return(NoTemp) /\ UNCHANGED <<lable_tab, lable_c>>
    BY <1>6 DEF WhileEnd, Yield, Emit2, l
  <2>2. l \in 1 .. lable_c /\ l + 2 \in R
    BY <1>1, <1>2, <1>3, <2>1 DEF Remembers, l
  <2>3. Jump(l).op = "IR_JUMP" /\ TargetsOf(Jump(l)) = {l}
    BY ControlNodes
  <2> HIDE DEF N, R
  <2>4. Settled(N, R \ {l + 2}, code', lable_tab, lable_c)
    BY <1>2, <2>1, <2>2, <2>3, SettledJumpPlace
  <2> QED
    BY <1>1, <1>3, <2>1, <2>4, ReturnLabels DEF N, R
<1> QED
  BY <1>4, <1>5, <1>6

LEMMA ChainLabelled ==
  TypeInv /\ LabelInv /\ (ChainCondition \/ ChainThen \/ ChainNext \/ ChainElse \/ ChainEnd)
    => LabelInv'
<1> SUFFICES ASSUME TypeInv, LabelInv,
                    ChainCondition \/ ChainThen \/ ChainNext \/ ChainElse \/ ChainEnd
             PROVE  LabelInv'
  OBVIOUS
<1> DEFINE N == All(Names(stack), Len(stack))
           R == All(Ids(stack), Len(stack))
           l == Top.lab
           s == Top.node
<1>1. stack # <<>> /\ Top.fn = "ir_if_chain_s"
  BY DEF ChainCondition, ChainThen, ChainNext, ChainElse, ChainEnd, InChain, InCall
<1>2. /\ Settled(N, R, code, lable_tab, lable_c) /\ Listed(code) /\ lable_c \in Nat
      /\ Len(Top.got) \in Nat /\ Remembers(Top, Len(Top.got), lable_c)
      /\ Reserved(Top, Len(Top.got)) \subseteq R /\ R \subseteq 1 .. lable_c
      /\ l \in Nat /\ Top.end \in 1 .. lable_c
  <2>1. Remembers(Top, Len(Top.got), lable_c) /\ lable_c \in Nat
    BY <1>1, Owed
  <2>2. Top.end \in Nat
    BY <1>1, TopOk
  <2>3. Top.end \in 1 .. lable_c
    BY <1>1, <2>1, <2>2 DEF Remembers
  <2> QED
    BY <1>1, <2>3, Owed, TopOk DEF Settled
<1>3. /\ s \in Stmt
      /\ s.kind = "AST_ELSE" =>
           /\ Ahead(Top, 0) = LablesOf[s] /\ Ahead(Top, 1) = {}
           /\ \A b : Reserved(Top, b) = {}
      /\ s.kind # "AST_ELSE" =>
           /\ s.Condition \in Expr /\ s.body \in Stmt /\ s.body.kind = "AST_SCOPE"
           /\ Ahead(Top, 1) = Ahead(Top, 0)
           /\ Ahead(Top, 2) \cup LablesOf[s.body] = Ahead(Top, 1)
           /\ Apart(Ahead(Top, 2), LablesOf[s.body])
           /\ IF s.chain = NULL THEN Ahead(Top, 2) = {}
              ELSE /\ s.chain \in Stmt /\ s.chain.kind \in {"AST_ELSE_IF", "AST_ELSE"}
                   /\ Ahead(Top, 2) = LablesOf[s.chain]
           /\ Ahead(Top, 3) = {}
           /\ Reserved(Top, 0) = {} /\ Reserved(Top, 1) = {l, l + 1}
           /\ Reserved(Top, 2) = {l + 1} /\ Reserved(Top, 3) = {}
  BY <1>1, DebtFacts, ChainOwes
<1> HIDE DEF l, s
<1>4. CASE ChainCondition
  <2> DEFINE f == Value(s.Condition)
             F == {lable_c + 1, lable_c + 2}
  <2>1. /\ l = 0 /\ lable_c' = lable_c + 2 /\ CallFrom(lable_c + 1, f)
        /\ UNCHANGED <<code, lable_tab>> /\ s.kind # "AST_ELSE"
    BY <1>4 DEF ChainCondition, InChain, l, s
  <2>2. Len(Top.got) = 0
    BY <1>1, <1>2, <2>1 DEF Remembers, l, s
  <2>3. FrameOk(f) /\ f.got = <<>> /\ Reserved(f, 0) = {} /\ Ahead(f, 0) = {}
        /\ Remembers(f, 0, lable_c + 2)
    <3>1. lable_c + 2 \in Nat /\ 0 <= lable_c + 2
      BY <1>2
    <3> QED
      BY <1>3, <2>1, <3>1, ValueOk, FreshOwesNothing, FreshNames DEF Value
  <2>4. /\ F = lable_c + 1 .. lable_c + 2
        /\ Settled(N, R \cup F, code, lable_tab, lable_c + 2)
    <3>1. F = {lable_c + i : i \in 1 .. 2}
      OBVIOUS
    <3> HIDE DEF F
    <3> QED
      BY <1>1, <3>1, FreshIds
  <2>5. \A g : SameCall(g, Top) /\ g.lab = lable_c + 1 => Reserved(g, 1) = F
    <3>1. \A g : SameCall(g, Top) /\ g.lab = lable_c + 1 =>
            Reserved(g, 1) = {lable_c + 1, (lable_c + 1) + 1}
      BY <1>1, <2>1 DEF SameCall, Reserved, s
    <3>2. (lable_c + 1) + 1 = lable_c + 2
      BY <1>2
    <3> QED
      BY <3>1, <3>2
  <2>6. Settled(N, R \cup F, code', lable_tab', lable_c + 2)
    BY <2>1, <2>4
  <2>7. /\ Ahead(Top, 1) \cup Ahead(f, 0) = Ahead(Top, 0) /\ Apart(Ahead(Top, 1), Ahead(f, 0))
        /\ Reserved(Top, 0) = {} /\ 2 \in Nat /\ 2 >= 1 /\ F \subseteq lable_c + 1 .. lable_c + 2
    BY <1>3, <2>1, <2>3, <2>4 DEF Apart
  <2> HIDE DEF f, F, N, R
  <2> QED
    BY <1>1, <2>1, <2>2, <2>3, <2>5, <2>6, <2>7, ReservingCall DEF N, R
<1>5. CASE ChainThen
  <2> DEFINE f == Frame("ir_scope", s.body, 0)
             a == Branch(Got(1), l, l + 1)
  <2>1. /\ Len(Top.got) = 1 /\ code' = Append(Append(code, a), Label(l)) /\ Call(f)
        /\ UNCHANGED <<lable_tab, lable_c>> /\ s.kind # "AST_ELSE"
    BY <1>5 DEF ChainThen, InChain, Emit2, l, s
  <2>2. /\ a.op = "IR_BRANCH" /\ TargetsOf(a) = {l, l + 1}
        /\ l \in R /\ l + 1 \in R /\ l + 1 # l
    BY <1>2, <1>3, <2>1, ControlNodes
  <2>3. FrameOk(f) /\ f.got = <<>> /\ Reserved(f, 0) = {} /\ Remembers(f, 0, lable_c)
        /\ Ahead(f, 0) = LablesOf[s.body]
    BY <1>2, <1>3, <2>1, ScopeOk, FreshOwesNothing, FreshNames
  <2>4. R \ {l} = (R \ Reserved(Top, 1)) \cup Reserved(Top, 1 + 1)
    BY <1>3, <2>1, <2>2
  <2>5. Remembers(Top, 1 + 1, lable_c)
    <3>1. Remembers(Top, 1, lable_c) /\ 1 \in Nat /\ 1 >= 1
      BY <1>2, <2>1
    <3> QED
      BY ONLY <3>1, RemembersNext
  <2> HIDE DEF f, a, N, R
  <2>6. Settled(N, R \ {l}, code', lable_tab, lable_c)
    BY <1>2, <2>1, <2>2, SettledJumpPlace
  <2>7. Settled(N, (R \ Reserved(Top, 1)) \cup Reserved(Top, 1 + 1), code', lable_tab, lable_c)
    BY <2>4, <2>6
  <2>8. /\ Ahead(Top, 1 + 1) \cup Ahead(f, 0) = Ahead(Top, 1)
        /\ Apart(Ahead(Top, 1 + 1), Ahead(f, 0))
        /\ Reserved(Top, 1 + 1) \subseteq Reserved(Top, 1)
    BY <1>3, <2>1, <2>3 DEF Apart
  <2> QED
    BY <1>1, <2>1, <2>3, <2>5, <2>7, <2>8, CallLabels DEF N, R
<1>6. CASE ChainNext
  <2>1. /\ Len(Top.got) = 2 /\ code' = Append(Append(code, Jump(Top.end)), Label(l + 1))
        /\ UNCHANGED <<lable_tab, lable_c>> /\ s.kind # "AST_ELSE"
        /\ IF s.chain = NULL THEN Return(NoTemp)
           ELSE Call(Frame("ir_if_chain_s", s.chain, Top.end))
    BY <1>6 DEF ChainNext, InChain, Emit2, l, s
  <2>2. l + 1 \in R
    BY <1>2, <1>3, <2>1
  <2>3. Jump(Top.end).op = "IR_JUMP" /\ TargetsOf(Jump(Top.end)) = {Top.end}
    BY ControlNodes
  <2>4. Settled(N, R \ {l + 1}, code', lable_tab, lable_c)
    <3> HIDE DEF N, R
    <3> QED
      BY <1>2, <2>1, <2>2, <2>3, SettledJumpPlace
  <2>5. CASE s.chain = NULL
    BY <1>1, <1>3, <2>1, <2>4, <2>5, ReturnLabels
  <2>6. CASE s.chain # NULL
    <3> DEFINE f == Frame("ir_if_chain_s", s.chain, Top.end)
    <3>1. FrameOk(f) /\ f.got = <<>> /\ Reserved(f, 0) = {} /\ Remembers(f, 0, lable_c)
          /\ Ahead(f, 0) = LablesOf[s.chain] /\ Call(f)
      <4>1. /\ s.chain \in Stmt /\ s.chain.kind \in {"AST_ELSE_IF", "AST_ELSE"}
            /\ Top.end \in Nat /\ Top.end <= lable_c /\ Top.end >= 1
        BY <1>2, <1>3, <2>1, <2>6
      <4> QED
        BY <1>2, <2>1, <2>6, <4>1, ChainOk, FreshOwesNothing, FreshNames
    <3>2. (R \ Reserved(Top, 2)) \cup Reserved(Top, 2 + 1) = R \ {l + 1}
      BY <1>3, <2>1
    <3>3. Remembers(Top, 2 + 1, lable_c)
      <4>1. Remembers(Top, 2, lable_c) /\ 2 \in Nat /\ 2 >= 1
        BY <1>2, <2>1
      <4> QED
        BY ONLY <4>1, RemembersNext
    <3> HIDE DEF f, N, R
    <3>4. Settled(N, (R \ Reserved(Top, 2)) \cup Reserved(Top, 2 + 1), code', lable_tab, lable_c)
      BY <2>4, <3>2
    <3>5. /\ Ahead(Top, 2 + 1) \cup Ahead(f, 0) = Ahead(Top, 2)
          /\ Apart(Ahead(Top, 2 + 1), Ahead(f, 0))
          /\ Reserved(Top, 2 + 1) \subseteq Reserved(Top, 2)
      BY <1>3, <2>1, <2>6, <3>1 DEF Apart
    <3> QED
      BY <1>1, <2>1, <3>1, <3>3, <3>4, <3>5, CallLabels DEF N, R
  <2> QED
    BY <2>5, <2>6
<1>7. CASE ChainElse
  <2> DEFINE f == Frame("ir_scope", s, 0)
  <2>1. /\ Len(Top.got) = 0 /\ Call(f) /\ UNCHANGED <<code, lable_tab, lable_c>>
        /\ s.kind = "AST_ELSE"
    BY <1>7 DEF ChainElse, InChain, s
  <2>2. FrameOk(f) /\ f.got = <<>> /\ Reserved(f, 0) = {} /\ Remembers(f, 0, lable_c)
        /\ Ahead(f, 0) = LablesOf[s]
    BY <1>2, <1>3, <2>1, ScopeOk, FreshOwesNothing, FreshNames
  <2>3. Remembers(Top, 0 + 1, lable_c)
    <3>1. Remembers(Top, 0, lable_c) /\ 0 \in Nat
      BY <1>2, <2>1
    <3> QED
      BY <1>1, <2>1, <3>1, RemembersNext DEF s
  <2>4. /\ Ahead(Top, 0 + 1) \cup Ahead(f, 0) = Ahead(Top, 0)
        /\ Apart(Ahead(Top, 0 + 1), Ahead(f, 0))
        /\ Reserved(Top, 0 + 1) = Reserved(Top, 0)
    <3>1. /\ Ahead(Top, 0) = LablesOf[s] /\ Ahead(Top, 1) = {}
          /\ Reserved(Top, 0) = {} /\ Reserved(Top, 1) = {} /\ 0 + 1 = 1
      BY <1>3, <2>1
    <3> QED
      BY ONLY <2>2, <3>1 DEF Apart
  <2> HIDE DEF f
  <2>5. /\ Remembers(Top, Len(Top.got) + 1, lable_c)
        /\ Ahead(Top, Len(Top.got) + 1) \cup Ahead(f, 0) = Ahead(Top, Len(Top.got))
        /\ Apart(Ahead(Top, Len(Top.got) + 1), Ahead(f, 0))
        /\ Reserved(Top, Len(Top.got) + 1) = Reserved(Top, Len(Top.got))
    BY ONLY <2>1, <2>3, <2>4
  <2> QED
    BY <1>1, <2>1, <2>2, <2>5, QuietCall
<1>8. CASE ChainEnd
  <2>1. /\ code' = code /\ Return(NoTemp) /\ UNCHANGED <<lable_tab, lable_c>>
        /\ \/ s.kind # "AST_ELSE" /\ Len(Top.got) = 3
           \/ s.kind = "AST_ELSE" /\ Len(Top.got) = 1
    BY <1>8 DEF ChainEnd, InChain, Yield, s
  <2>2. Ahead(Top, Len(Top.got)) = {} /\ Reserved(Top, Len(Top.got)) = {}
    BY <1>3, <2>1
  <2>3. Settled(N, R \ Reserved(Top, Len(Top.got)), code', lable_tab, lable_c)
    <3>1. R \ Reserved(Top, Len(Top.got)) = R
      BY <2>2
    <3> QED
      BY ONLY <1>2, <2>1, <3>1
  <2> QED
    BY <1>1, <2>1, <2>2, <2>3, ReturnLabels
<1> QED
  BY <1>4, <1>5, <1>6, <1>7, <1>8

LEMMA NameLabelled == TypeInv /\ LabelInv /\ LableOrGoto => LabelInv'
<1> SUFFICES ASSUME TypeInv, LabelInv, LableOrGoto PROVE LabelInv'
  OBVIOUS
<1> DEFINE N == All(Names(stack), Len(stack))
           R == All(Ids(stack), Len(stack))
           x == Top.node.name
           first == lable_tab[x] = 0
           id == IF first THEN lable_c + 1 ELSE lable_tab[x]
           u == IF first THEN lable_c + 1 ELSE lable_c
           a == IF Top.fn = "ir_lable_s" THEN Label(id) ELSE Jump(id)
           tab == [lable_tab EXCEPT ![x] = id]
<1>1. /\ stack # <<>> /\ Top.fn \in {"ir_lable_s", "ir_goto_s"}
      /\ x \in DOMAIN lable_tab
      /\ lable_tab' = tab /\ lable_c' = u /\ code' = Append(code, a) /\ Return(NoTemp)
  BY DEF LableOrGoto, InCall, Rejected, Emit1
<1>2. /\ Settled(N, R, code, lable_tab, lable_c) /\ Listed(code) /\ lable_c \in Nat
      /\ Ahead(Top, Len(Top.got)) \subseteq N
  BY <1>1, Owed
<1>3. u \in Nat /\ lable_c <= u
  BY <1>2
<1>4. Settled(N, R, code, tab, u) /\ id \in 1 .. u
  <2> HIDE DEF N, R, x
  <2> QED
    BY <1>1, <1>2, SettledName
<1>5. tab[x] = id /\ id # 0
  <2>1. tab[x] = id
    BY <1>1
  <2> HIDE DEF id, u
  <2> QED
    BY <1>3, <1>4, <2>1
<1>6. PoppedOne
  <2>1. Top.fn # "ir_function_s"
    BY <1>1
  <2> QED
    BY <1>1, <2>1, ReturnPops
<1>7. Reserved(Top, Len(Top.got)) = {}
  BY <1>1 DEF Reserved
<1> HIDE DEF N, R, id, u, tab
<1>8. Settled(N \ Ahead(Top, Len(Top.got)), R, Append(code, a), tab, u)
  <2>1. CASE Top.fn = "ir_lable_s"
    <3>1. Ahead(Top, Len(Top.got)) = {x} /\ a = Label(tab[x])
      BY <1>5, <2>1 DEF Ahead
    <3>2. x \in N
      BY <1>2, <3>1
    <3> HIDE DEF x, a
    <3>3. Settled(N \ {x}, R, Append(code, Label(tab[x])), tab, u)
      BY <1>2, <1>3, <1>4, <1>5, <3>2, SettledDefine
    <3> QED
      BY <3>1, <3>3
  <2>2. CASE Top.fn = "ir_goto_s"
    <3>1. Ahead(Top, Len(Top.got)) = {} /\ a = Jump(id)
      BY <2>2 DEF Ahead
    <3>2. a.op # "IR_LABEL" /\ TargetsOf(a) \subseteq 1 .. u
      BY <1>4, <3>1, ControlNodes
    <3>3. N \ Ahead(Top, Len(Top.got)) = N
      BY <3>1
    <3> HIDE DEF a
    <3>4. Settled(N, R, Append(code, a), tab, u)
      BY <1>2, <1>3, <1>4, <3>2, SettledPlain
    <3> QED
      BY <3>3, <3>4
  <2> QED
    BY <1>1, <2>1, <2>2
<1>9. R \ Reserved(Top, Len(Top.got)) = R
  BY <1>7
<1> HIDE DEF a
<1>10. Settled(N \ Ahead(Top, Len(Top.got)), R \ Reserved(Top, Len(Top.got)),
               code', lable_tab', lable_c')
  BY ONLY <1>1, <1>8, <1>9
<1>11. lable_c' \in Nat /\ lable_c <= lable_c'
  BY <1>1, <1>3
<1> QED
  BY <1>1, <1>6, <1>10, <1>11, LabelsAfterReturn DEF N, R

LEMMA PlainLabelled ==
  TypeInv /\ LabelInv /\ (ScopeStatement \/ EndScope \/ ir_auto_s \/ ir_extrn_s \/ ir_return_s)
    => LabelInv'
<1> SUFFICES ASSUME TypeInv, LabelInv,
                    ScopeStatement \/ EndScope \/ ir_auto_s \/ ir_extrn_s \/ ir_return_s
             PROVE  LabelInv'
  OBVIOUS
<1> DEFINE N == All(Names(stack), Len(stack))
           R == All(Ids(stack), Len(stack))
           b == Len(Top.got)
<1>1. stack # <<>>
  BY ZenonT(30) DEF ScopeStatement, EndScope, ir_auto_s, ir_extrn_s, ir_return_s, InCall
<1>2. /\ Settled(N, R, code, lable_tab, lable_c) /\ Listed(code) /\ lable_c \in Nat
      /\ b \in Nat /\ Remembers(Top, b, lable_c) /\ FrameOk(Top)
  BY <1>1, Owed, DebtFacts
<1>3. ASSUME Ahead(Top, b) = {}, Reserved(Top, b) = {}, Top.fn # "ir_function_s",
             UNCHANGED <<lable_tab, lable_c>>, NEW r, Return(r),
             Settled(N, R, code', lable_tab, lable_c)
      PROVE  LabelInv'
  <2>1. R \ Reserved(Top, b) = R
    BY <1>3
  <2>2. Settled(N, R \ Reserved(Top, b), code', lable_tab, lable_c)
    BY ONLY <1>3, <2>1
  <2> QED
    BY <1>1, <1>3, <2>2, ReturnLabels
<1>4. CASE ScopeStatement
  <2> DEFINE s == Top.node.body[b + 1]
             f == ir_statements(s)
  <2>1. /\ Top.fn = "ir_scope" /\ b < Len(Top.node.body) /\ Call(f)
        /\ UNCHANGED <<code, lable_tab, lable_c>>
    BY <1>4 DEF ScopeStatement, InCall
  <2>2. /\ s \in Stmt /\ s.kind \notin {"AST_ELSE_IF", "AST_ELSE"}
        /\ Ahead(Top, b + 1) \cup LablesOf[s] = Ahead(Top, b)
        /\ Apart(Ahead(Top, b + 1), LablesOf[s])
        /\ Reserved(Top, b) = {} /\ Reserved(Top, b + 1) = {}
    BY <1>2, <2>1, ScopeOwes
  <2> HIDE DEF s
  <2>3. /\ FrameOk(f) /\ Ahead(f, 0) = LablesOf[s]
        /\ f.got = <<>> /\ Reserved(f, 0) = {} /\ Remembers(f, 0, lable_c)
    <3>1. FrameOk(f) /\ Ahead(f, 0) = LablesOf[s]
      BY <2>2, StatementOk, FreshNames
    <3>2. PICK fn, n : f = Frame(fn, n, 0) /\ fn # "ir_if_chain_s"
      <4>1. CASE s.kind = "AST_EXPR"
        BY <4>1 DEF ir_statements, Value, f
      <4>2. CASE s.kind # "AST_EXPR"
        <5>1. HandlerOf[s.kind] # "ir_if_chain_s"
          BY <2>2, <4>2, StmtAssumption DEF HandlerOf, StmtKind
        <5> QED
          BY <4>2, <5>1 DEF ir_statements, f
      <4> QED
        BY <4>1, <4>2
    <3>3. 0 <= lable_c
      BY <1>2
    <3> QED
      BY <1>2, <3>1, <3>2, <3>3, FreshOwesNothing
  <2>4. Remembers(Top, b + 1, lable_c)
    BY <1>2, <2>1, RemembersNext
  <2> HIDE DEF f
  <2> QED
    BY <1>1, <2>1, <2>2, <2>3, <2>4, QuietCall
<1>5. CASE EndScope
  <2>1. /\ Top.fn = "ir_scope" /\ b = Len(Top.node.body) /\ code' = code /\ Return(NoTemp)
        /\ UNCHANGED <<lable_tab, lable_c>>
    BY <1>5 DEF EndScope, InCall, Yield
  <2> QED
    BY <1>2, <1>3, <2>1, ScopeOwes
<1>6. CASE ir_auto_s
  <2> DEFINE a == Node("OP_ALLOC", temp_c + 1, <<>>)
  <2>1. Top.fn = "ir_auto_s" /\ code' = Emit1(a) /\ UNCHANGED <<lable_tab, lable_c>>
    BY ZenonT(30), <1>6 DEF ir_auto_s, InCall
  <2>2. Ahead(Top, b) = {} /\ Reserved(Top, b) = {}
    BY <2>1, OwesNothing
  <2>3. Settled(N, R, code', lable_tab, lable_c)
    <3>1. Quiet(a)
      BY QuietNodes
    <3> HIDE DEF a, N, R
    <3> QED
      BY <1>2, <2>1, <3>1, SettledEmits
  <2>4. N \ Ahead(Top, b) = N /\ R \ Reserved(Top, b) = R
    BY <2>2
  <2>5. Settled(N \ Ahead(Top, b), R \ Reserved(Top, b), code', lable_tab', lable_c')
    BY ONLY <2>1, <2>3, <2>4
  <2>6. lable_c' \in Nat /\ lable_c <= lable_c'
    BY <1>2, <2>1
  <2>7. PoppedOne
    BY <1>6, AutoPops
  <2> QED
    BY <1>1, <2>5, <2>6, <2>7, LabelsAfterReturn
<1>7. CASE ir_extrn_s
  <2>1. /\ Top.fn = "ir_extrn_s" /\ code' = code /\ Return(NoTemp)
        /\ UNCHANGED <<lable_tab, lable_c>>
    BY <1>7 DEF ir_extrn_s, InCall
  <2> QED
    BY <1>2, <1>3, <2>1, OwesNothing
<1>8. CASE ir_return_s
  <2> DEFINE a == Node("IR_RETURN", 0, <<Got(1)>>)
  <2>1. Top.fn = "ir_return_s" /\ Yield(Emit1(a), 0, NoTemp)
    BY <1>8 DEF ir_return_s, InCall
  <2>2. Quiet(a)
    BY QuietNodes
  <2> HIDE DEF a
  <2> QED
    BY <1>1, <2>1, <2>2, YieldLabels
<1> QED
  BY <1>4, <1>5, <1>6, <1>7, <1>8

-----------------------------------------------------------------------------
(* Functions and the module                                                 *)

LEMMA OneDebtor ==
  ASSUME NEW S
  PROVE  All(S, 1) = S[1] /\ AllApart(S, 1)
<1>1. \A k \in 1 .. 1 : k = 1
  OBVIOUS
<1>2. \A x : x \in All(S, 1) <=> x \in S[1]
  BY <1>1 DEF All
<1> QED
  BY <1>1, <1>2 DEF AllApart

\* The account of a stack of one frame, with nothing reserved.
LEMMA OneFrame ==
  ASSUME Len(stack) = 1, NEW b, Len(stack[1].got) = b, b \in Nat,
         stack[1].fn = "ir_function_s"
  PROVE  /\ Len(Names(stack)) = 1 /\ All(Names(stack), Len(stack)) = Ahead(stack[1], b)
         /\ All(Ids(stack), Len(stack)) = {}
         /\ AllApart(Names(stack), Len(stack)) /\ AllApart(Ids(stack), Len(stack))
         /\ Begun(stack, 1) = b
<1>1. Begun(stack, 1) = b
  BY DEF Begun
<1>2. Names(stack)[1] = Ahead(stack[1], b) /\ Ids(stack)[1] = Reserved(stack[1], b)
      /\ Len(Names(stack)) = 1
  BY <1>1 DEF Names, Ids
<1>3. Reserved(stack[1], b) = {}
  BY DEF Reserved
<1> QED
  BY <1>1, <1>2, <1>3, OneDebtor

LEMMA FunctionOwes ==
  ASSUME NEW f, IsFunction(f.node), f.fn = "ir_function_s"
  PROVE  /\ Len(f.node.params) \in Nat
         /\ \A b \in Nat : Ahead(f, b) = IF b <= Len(f.node.params) THEN LablesOf[f.node.body] ELSE {}
         /\ \A b : Reserved(f, b) = {}
<1>1. Len(f.node.params) \in Nat
  BY DEF IsFunction
<1> QED
  BY <1>1 DEF Ahead, Reserved

LEMMA ControlGrows ==
  ASSUME ControlStaysInside, module \in Seq(ModuleNodeSet), NEW m, module' = Append(module, m),
         m.kind = "IR_FUNCTION" => Contained(m.nodes)
  PROVE  ControlStaysInside'
<1>1. /\ Len(module) \in Nat /\ DOMAIN module = 1 .. Len(module)
      /\ DOMAIN module' = 1 .. Len(module) + 1
      /\ module'[Len(module) + 1] = m /\ \A i \in 1 .. Len(module) : module'[i] = module[i]
  OBVIOUS
<1>2. \A n \in FunctionsDone : Contained(n.nodes)
  BY DEF ControlStaysInside
<1>3. SUFFICES ASSUME NEW n \in FunctionsDone' PROVE Contained(n.nodes)
  BY DEF ControlStaysInside
<1>4. PICK i \in DOMAIN module' : n = module'[i] /\ n.kind = "IR_FUNCTION"
  BY DEF FunctionsDone
<1>5. CASE i = Len(module) + 1
  BY <1>1, <1>4, <1>5
<1>6. CASE i \in 1 .. Len(module)
  BY <1>1, <1>2, <1>4, <1>6 DEF FunctionsDone
<1> QED
  BY <1>1, <1>5, <1>6

LEMMA ControlStands ==
  ASSUME ControlStaysInside, UNCHANGED module
  PROVE  ControlStaysInside'
  BY DEF ControlStaysInside, FunctionsDone

CtrlInv == TypeInv /\ LabelInv /\ ControlStaysInside

LEMMA FunctionStepLabelled == CtrlInv /\ FunctionStep => CtrlInv'
<1> SUFFICES ASSUME CtrlInv, FunctionStep PROVE CtrlInv'
  OBVIOUS
<1> DEFINE b == Len(Top.got)
           p == Len(Top.node.params)
           N == All(Names(stack), Len(stack))
           R == All(Ids(stack), Len(stack))
<1>1. stack # <<>> /\ Top.fn = "ir_function_s"
  BY DEF FunctionStep, SpillParam, FunctionBody, EndFunction, InCall
<1>2. TypeInv'
  BY FunctionStepTyped DEF CtrlInv
<1>3. /\ Len(stack) = 1 /\ Top = stack[1] /\ FrameOk(Top) /\ b \in Nat /\ IsFunction(Top.node)
      /\ DOMAIN stack = 1 .. 1 /\ lable_c \in Nat
  <2>1. /\ Len(stack) \in Nat \ {0} /\ Top = stack[Len(stack)] /\ FrameOk(Top) /\ b \in Nat
        /\ StackOk /\ lable_c \in Nat
    BY <1>1, DebtFacts DEF CtrlInv
  <2>2. \A k \in 2 .. Len(stack) : stack[k].fn # "ir_function_s"
    <3>1. Nesting
      BY DEF CtrlInv, TypeInv
    <3> QED
      BY <1>1, <3>1 DEF Nesting
  <2>3. Len(stack) = 1
    <3>1. Len(stack) \notin 2 .. Len(stack)
      BY <1>1, <2>1, <2>2
    <3>2. \A n \in Nat \ {0} : n \notin 2 .. n => n = 1
      OBVIOUS
    <3> QED
      BY ONLY <2>1, <3>1, <3>2
  <2> QED
    BY <1>1, <2>1, <2>3, FunctionFrame DEF StackOk
<1>4. /\ Settled(N, R, code, lable_tab, lable_c) /\ Listed(code)
      /\ Remembers(Top, b, lable_c) /\ N = Ahead(Top, b) /\ R = {}
  <2>1. N = Ahead(Top, b) /\ R = {}
    BY <1>1, <1>3, OneFrame
  <2> QED
    BY <1>1, <2>1, Owed DEF CtrlInv
<1>5. /\ p \in Nat
      /\ \A c \in Nat : Ahead(Top, c) = IF c <= p THEN LablesOf[Top.node.body] ELSE {}
      /\ \A c : Reserved(Top, c) = {}
  BY <1>1, <1>3, FunctionOwes
<1>6. CASE SpillParam
  <2> DEFINE x == Node("OP_ALLOC", temp_c + 1, <<>>)
             y == Node("OP_STORE", 0, <<temp_c + 1, b + 1>>)
             z == Node("OP_ADDRESS", b + 1, <<temp_c + 1>>)
  <2>1. /\ b < p /\ code' = Emit3(x, y, z) /\ UNCHANGED <<lable_tab, lable_c, module>>
        /\ stack' = [stack EXCEPT ![1].got = Append(@, NoTemp)]
    BY <1>3, <1>6 DEF SpillParam
  <2>2. Settled(N, R, code', lable_tab, lable_c)
    <3>1. Quiet(x) /\ Quiet(y) /\ Quiet(z)
      BY QuietNodes
    <3> HIDE DEF N, R, x, y, z
    <3> QED
      BY <1>3, <1>4, <2>1, <3>1, SettledEmits
  <2>3. /\ Len(stack') = 1 /\ stack'[1].fn = Top.fn /\ stack'[1].node = Top.node
        /\ stack'[1].lab = Top.lab /\ stack'[1].end = Top.end
        /\ Len(stack'[1].got) = b + 1
    <3>1. Top \in [fn : {Top.fn}, node : {Top.node}, got : Seq(ResultSet),
                   lab : Nat, end : Nat, symtab : {Top.symtab}]
      BY <1>3 DEF FrameOk
    <3>2. DOMAIN stack' = 1 .. 1
      BY <1>3, <2>1
    <3>3. Len(stack') = 1
      BY <3>2
    <3>4. /\ stack'[1] = [Top EXCEPT !.got = Append(@, NoTemp)]
      BY <1>3, <2>1
    <3>5. Top.got \in Seq(ResultSet)
      BY <3>1
    <3>6. /\ stack'[1].fn = Top.fn /\ stack'[1].node = Top.node
          /\ stack'[1].lab = Top.lab /\ stack'[1].end = Top.end
          /\ stack'[1].got = Append(Top.got, NoTemp)
      BY <3>1, <3>4
    <3> QED
      BY <3>3, <3>5, <3>6
  <2>4. /\ All(Names(stack'), 1) = Ahead(Top, b + 1) /\ All(Ids(stack'), 1) = {}
        /\ AllApart(Names(stack'), 1) /\ AllApart(Ids(stack'), 1)
        /\ Begun(stack', 1) = b + 1
    <3>1. Begun(stack', 1) = b + 1
      BY <1>3, <2>3 DEF Begun
    <3>2. Names(stack')[1] = Ahead(stack'[1], b + 1) /\ Ids(stack')[1] = Reserved(stack'[1], b + 1)
      BY <2>3, <3>1 DEF Names, Ids
    <3>3. Ahead(stack'[1], b + 1) = Ahead(Top, b + 1) /\ Reserved(stack'[1], b + 1) = {}
      BY <1>5, <2>3, SameDebts
    <3> QED
      BY <3>1, <3>2, <3>3, OneDebtor
  <2>5. Ahead(Top, b + 1) = Ahead(Top, b)
    BY <1>3, <1>5, <2>1
  <2>6. Remembers(stack'[1], b + 1, lable_c)
    <3>1. Remembers(Top, b + 1, lable_c)
      BY <1>1, <1>3, <1>4, RemembersNext
    <3> QED
      BY <2>3, <3>1, SameDebts
  <2>7. LabelInv'
    <3>1. Settled(All(Names(stack'), 1), All(Ids(stack'), 1), code', lable_tab', lable_c')
      BY <1>4, <2>1, <2>2, <2>4, <2>5
    <3>2. \A k \in 1 .. 1 : Remembers(stack'[k], Begun(stack', k), lable_c')
      BY <2>1, <2>4, <2>6
    <3> QED
      BY <2>3, <2>4, <3>1, <3>2 DEF LabelInv
  <2> QED
    BY <1>2, <2>1, <2>7, ControlStands DEF CtrlInv
<1>7. CASE FunctionBody
  <2> DEFINE f == Frame("ir_scope", Top.node.body, 0)
  <2>1. /\ b = p /\ Call(f) /\ UNCHANGED <<code, lable_tab, lable_c, module>>
    BY <1>7 DEF FunctionBody
  <2>2. Top.node.body \in Stmt /\ Top.node.body.kind = "AST_SCOPE"
    BY <1>3 DEF IsFunction
  <2>3. FrameOk(f) /\ f.got = <<>> /\ Reserved(f, 0) = {} /\ Remembers(f, 0, lable_c)
        /\ Ahead(f, 0) = LablesOf[Top.node.body]
    BY <1>3, <2>2, ScopeOk, FreshOwesNothing, FreshNames
  <2>4. Ahead(Top, b) = LablesOf[Top.node.body] /\ Ahead(Top, b + 1) = {}
    BY <1>3, <1>5, <2>1
  <2>5. Remembers(Top, b + 1, lable_c)
    BY <1>1, <1>3, <1>4, RemembersNext
  <2> HIDE DEF f
  <2>6. LabelInv'
    <3>1. TypeInv /\ LabelInv
      BY DEF CtrlInv
    <3>2. /\ Ahead(Top, b + 1) \cup Ahead(f, 0) = Ahead(Top, b)
          /\ Apart(Ahead(Top, b + 1), Ahead(f, 0))
          /\ Reserved(Top, b + 1) = Reserved(Top, b)
      BY <1>5, <2>3, <2>4 DEF Apart
    <3> QED
      BY <1>1, <2>1, <2>3, <2>5, <3>1, <3>2, QuietCall
  <2> QED
    BY <1>2, <2>1, <2>6, ControlStands DEF CtrlInv
<1>8. CASE EndFunction
  <2> DEFINE x == Imm("OP_CONST", temp_c + 1, 0)
             y == Node("IR_RETURN", 0, <<temp_c + 1>>)
             m == ModuleNode("IR_FUNCTION", Top.node.name, p, code')
  <2>1. /\ b = p + 1 /\ module' = Append(module, m) /\ stack' = <<>>
        /\ IF code[Len(code)].op = "IR_RETURN" THEN code' = code ELSE code' = Emit2(x, y)
    BY <1>8 DEF EndFunction
  <2>2. Settled({}, {}, code, lable_tab, lable_c)
    <3>1. Ahead(Top, b) = {}
      BY <1>3, <1>5, <2>1
    <3> QED
      BY <1>4, <3>1
  <2>3. Settled({}, {}, code', lable_tab, lable_c) /\ code'[Len(code')].op = "IR_RETURN"
    <3>1. CASE code[Len(code)].op = "IR_RETURN"
      BY <2>1, <2>2, <3>1
    <3>2. CASE code[Len(code)].op # "IR_RETURN"
      <4>1. Quiet(x) /\ Quiet(y) /\ y.op = "IR_RETURN"
        <5>1. Quiet(x) /\ Quiet(y)
          BY QuietNodes
        <5>2. y.op = "IR_RETURN"
          BY DEF Node
        <5> QED
          BY <5>1, <5>2
      <4> HIDE DEF x, y
      <4>2. code' = Append(Append(code, x), y)
        BY <2>1, <3>2 DEF Emit2
      <4>3. Listed(Append(code, x))
        BY <1>4, Appended
      <4>4. Settled({}, {}, code', lable_tab, lable_c)
        BY <1>3, <1>4, <2>1, <2>2, <3>2, <4>1, SettledEmits
      <4>5. Len(code') = Len(Append(code, x)) + 1 /\ code'[Len(code')] = y
        BY <4>2, <4>3 DEF Listed
      <4> QED
        BY <4>1, <4>4, <4>5
    <3> QED
      BY <3>1, <3>2
  <2>4. Contained(code')
    BY <2>3 DEF Contained, Settled
  <2>5. m.nodes = code' /\ m.kind = "IR_FUNCTION"
    BY DEF ModuleNode
  <2> HIDE DEF m
  <2>6. ControlStaysInside'
    BY <2>1, <2>4, <2>5, ControlGrows DEF CtrlInv, TypeInv, TypeOK
  <2>7. LabelInv'
    BY <2>1 DEF LabelInv
  <2> QED
    BY <1>2, <2>6, <2>7 DEF CtrlInv
<1> QED
  BY <1>6, <1>7, <1>8 DEF FunctionStep

LEMMA ModuleStepLabelled == CtrlInv /\ ModuleStep => CtrlInv'
<1> SUFFICES ASSUME CtrlInv, ModuleStep PROVE CtrlInv'
  OBVIOUS
<1>1. TypeInv'
  BY ModuleStepTyped DEF CtrlInv
<1>2. CASE GenDeclaration
  <2>1. /\ stack' = <<>>
        /\ \E m : module' = Append(module, m) /\ m.kind # "IR_FUNCTION"
    BY <1>2 DEF GenDeclaration, AtTopLevel, ModuleNode
  <2>2. ControlStaysInside'
    BY <2>1, ControlGrows DEF CtrlInv, TypeInv, TypeOK
  <2> QED
    BY <1>1, <2>1, <2>2 DEF CtrlInv, LabelInv
<1>3. CASE BeginFunction
  <2> DEFINE d == program[curr]
             f == Frame("ir_function_s", d, 0)
             c == <<Label(1)>>
             L == LablesOf[d.body]
             tab == [l \in d.lables |-> 0]
  <2>1. /\ code' = c /\ lable_tab' = tab /\ lable_c' = 1 /\ stack' = <<f>>
        /\ UNCHANGED <<program, curr, module>>
    BY <1>3 DEF BeginFunction
  <2>2. IsFunction(d) /\ d.lables = L
    <3>1. curr \in 1 .. Len(program) /\ d.kind = "AST_FUNCTION" /\ program \in Programs
      BY <1>3, ProgramAssumption DEF BeginFunction, CtrlInv, TypeInv, TypeOK
    <3>2. IsFunction(d)
      BY <3>1, ProgramAssumption DEF IsDeclaration
    <3> QED
      BY <3>1, <3>2, LablesAssumption
  <2>3. f.fn = "ir_function_s" /\ f.node = d /\ f.got = <<>> /\ f.lab = 0 /\ f.end = 0
    BY FreshOwesNothing
  <2>4. Len(d.params) \in Nat /\ Ahead(f, 0) = L
    <3> HIDE DEF f
    <3> QED
      BY <2>2, <2>3 DEF IsFunction, Ahead
  <2>5. Reserved(f, 0) = {} /\ Remembers(f, 0, 1)
    <3> HIDE DEF f
    <3> QED
      BY <2>3 DEF Reserved, Remembers
  <2> HIDE DEF f
  <2>6. /\ Len(stack') = 1 /\ stack'[1] = f /\ Begun(stack', 1) = 0
    BY <2>1, <2>3 DEF Begun
  <2>7. /\ All(Names(stack'), 1) = L /\ All(Ids(stack'), 1) = {}
        /\ AllApart(Names(stack'), 1) /\ AllApart(Ids(stack'), 1)
    <3>1. Names(stack')[1] = L /\ Ids(stack')[1] = {}
      BY <2>4, <2>5, <2>6 DEF Names, Ids
    <3> QED
      BY <3>1, OneDebtor
  <2>8. /\ DOMAIN c = {1} /\ c[1].op = "IR_LABEL" /\ c[1].id = 1
    BY ControlNodes
  <2> HIDE DEF c
  <2>9. Placed(c, 1) = {1} /\ Targets(c) = {}
    BY <2>8 DEF Placed, Targets
  <2>10. DOMAIN tab = L /\ \A x \in L : tab[x] = 0
    BY <2>2
  <2> HIDE DEF tab, L
  <2>11. Settled(L, {}, c, tab, 1)
    <3>1. \A l \in 1 .. 1 : l = 1
      OBVIOUS
    <3>2. 1 \in 1 .. 1 /\ 0 \in 0 .. 1
      OBVIOUS
    <3> QED
      BY <2>8, <2>9, <2>10, <3>1, <3>2 DEF Settled
  <2>12. LabelInv'
    <3>1. Settled(All(Names(stack'), 1), All(Ids(stack'), 1), code', lable_tab', lable_c')
      BY <2>1, <2>7, <2>11
    <3>2. \A k \in 1 .. 1 : Remembers(stack'[k], Begun(stack', k), lable_c')
      BY <2>1, <2>5, <2>6
    <3> QED
      BY <2>6, <2>7, <3>1, <3>2 DEF LabelInv
  <2> QED
    BY <1>1, <2>1, <2>12, ControlStands DEF CtrlInv
<1>4. CASE GenDone
  BY <1>1, <1>4, ControlStands DEF GenDone, AtTopLevel, CtrlInv, LabelInv
<1> QED
  BY <1>2, <1>3, <1>4 DEF ModuleStep

LEMMA LabelsKept == Spec => []CtrlInv
<1>1. Init => CtrlInv
  <2> SUFFICES ASSUME Init PROVE CtrlInv
    OBVIOUS
  <2>1. TypeInv
    BY InitTyped
  <2> QED
    BY <2>1 DEF Init, CtrlInv, LabelInv, ControlStaysInside, FunctionsDone
<1>2. CtrlInv /\ [Next]_vars => CtrlInv'
  <2> SUFFICES ASSUME CtrlInv, [Next]_vars PROVE CtrlInv'
    OBVIOUS
  <2>1. CASE UNCHANGED vars
    <3>1. TypeInv'
      BY <2>1, TypeInvStutters DEF CtrlInv
    <3> QED
      BY <2>1, <3>1, LabelsStay, ControlStands DEF CtrlInv, vars
  <2>2. CASE ExprStep
    <3>1. TypeInv' /\ LabelInv'
      BY <2>2, ExprStepTyped, ExprStepLabelled DEF CtrlInv
    <3>2. UNCHANGED module
      BY <2>2 DEF ExprStep, Fatal, EvaluateOperand, Literal, LoadVariable, AddressOf,
           DerefOrNegate, Not, IncDec, Assign, BinaryOp, EmitCall, LvalueName, LvalueDeref, Yield
    <3> QED
      BY <3>1, <3>2, ControlStands DEF CtrlInv
  <2>3. CASE StatementStep
    <3>1. TypeInv' /\ LabelInv'
      BY <2>3, StatementStepTyped, IfLabelled, WhileLabelled, ChainLabelled, NameLabelled,
         PlainLabelled DEF CtrlInv, StatementStep
    <3>2. ControlStaysInside'
      <4>1. CASE ir_extrn_s
        <5>1. \E m : module' = Append(module, m) /\ m.kind # "IR_FUNCTION"
          BY <4>1 DEF ir_extrn_s, ModuleNode
        <5> QED
          BY <5>1, ControlGrows DEF CtrlInv, TypeInv, TypeOK
      <4>2. CASE ~ ir_extrn_s
        <5>1. UNCHANGED module
          BY ZenonT(30), <2>3, <4>2 DEF StatementStep, ScopeStatement, EndScope, ir_auto_s,
             ir_return_s, LableOrGoto, IfBegin, IfEnd, ChainCondition, ChainThen, ChainNext,
             ChainElse, ChainEnd, WhileCondition, WhileBody, WhileEnd, Yield
        <5> QED
          BY <5>1, ControlStands DEF CtrlInv
      <4> QED
        BY <4>1, <4>2
    <3> QED
      BY <3>1, <3>2 DEF CtrlInv
  <2> QED
    BY <2>1, <2>2, <2>3, ModuleStepLabelled, FunctionStepLabelled DEF Next
<1> QED
  BY <1>1, <1>2, PTL DEF Spec

\* For every program the parser can build in which no function defines a label
\* twice, each id up to the counter is, while a function is generated, either
\* the number of one label of the code or owed by exactly one activation.
THEOREM LabelsAccounted == Spec => []LabelInv
<1>1. CtrlInv => LabelInv
  BY DEF CtrlInv
<1> QED
  BY <1>1, LabelsKept, PTL

\* For every such program, control never leaves a function of the module but
\* by a return: each jump and each branch leads to one label of the function,
\* and its last node returns.
THEOREM ControlKept == Spec => []ControlStaysInside
<1>1. CtrlInv => ControlStaysInside
  BY DEF CtrlInv
<1> QED
  BY <1>1, LabelsKept, PTL

-----------------------------------------------------------------------------
(* gen_ir implements Lowering                                               *)

\* What the refinement needs of a state.
Serves == DefBeforeUse /\ SingleAssignment /\ ControlStaysInside /\ RefusesIllFormed

\* A module node that was added is that of the module's last place.
LEMMA LastAdded ==
  ASSUME module \in Seq(ModuleNodeSet), NEW m, module' = Append(module, m)
  PROVE  /\ Len(module') = Len(module) + 1
         /\ module'[Len(module')] = m
         /\ m \in {module'[i] : i \in DOMAIN module'}
  OBVIOUS

\* Inside ir_function_s the program stands at a function.
LEMMA AtFunction ==
  ASSUME TypeInv, stack # <<>>
  PROVE  /\ curr <= Len(program) /\ program[curr].kind = "AST_FUNCTION"
         /\ stack[1].fn = "ir_function_s" /\ stack[1].node = program[curr]
<1>1. stack[1].fn = "ir_function_s" /\ stack[1].node = program[curr] /\ curr <= Len(program)
  BY DEF TypeInv, Nesting
<1>2. FrameOk(stack[1])
  BY StackFacts
<1>3. IsFunction(stack[1].node)
  BY <1>1, <1>2, FunctionFrame
<1> QED
  BY <1>1, <1>3 DEF IsFunction

LEMMA OnlyTop == TypeInv /\ InCall("ir_function_s") => Top = stack[1]
<1> SUFFICES ASSUME TypeInv, InCall("ir_function_s") PROVE Top = stack[1]
  OBVIOUS
<1>1. stack # <<>> /\ Top.fn = "ir_function_s"
  BY DEF InCall
<1>2. Len(stack) \in Nat \ {0} /\ Top = stack[Len(stack)]
  BY <1>1, StackFacts
<1>3. \A k \in 2 .. Len(stack) : stack[k].fn # "ir_function_s"
  BY <1>1 DEF TypeInv, Nesting
<1>4. Len(stack) \notin 2 .. Len(stack)
  BY <1>1, <1>2, <1>3
<1>5. \A n \in Nat \ {0} : n \notin 2 .. n => n = 1
  OBVIOUS
<1>6. Len(stack) = 1
  BY ONLY <1>2, <1>4, <1>5
<1> QED
  BY <1>2, <1>6

LEMMA DeclarationLowers == TypeInv /\ GenDeclaration => Lower!Next
<1> SUFFICES ASSUME TypeInv, GenDeclaration PROVE Lower!Next
  OBVIOUS
<1> DEFINE d == program[curr]
           m == IF d.kind = "AST_GLOBAL" THEN ModuleNode("IR_GLOBAL", d.name, d.size, <<>>)
                                         ELSE ModuleNode("IR_EXTRN", d.name, 0, <<>>)
<1>1. /\ status = "running" /\ curr <= Len(program) /\ d.kind \in {"AST_GLOBAL", "AST_EXTRN"}
      /\ module' = Append(module, m) /\ curr' = curr + 1 /\ UNCHANGED <<program, status>>
  BY DEF GenDeclaration, AtTopLevel
<1>2. /\ d.kind = "AST_GLOBAL" => m.kind = "IR_GLOBAL" /\ m.name = d.name /\ m.size = d.size
      /\ d.kind = "AST_EXTRN" => m.kind = "IR_EXTRN" /\ m.name = d.name
  BY DEF ModuleNode
<1> HIDE DEF m
<1>3. Len(module') = Len(module) + 1 /\ module'[Len(module')] = m
  BY <1>1, LastAdded DEF TypeInv, TypeOK
<1>4. CASE d.kind = "AST_GLOBAL"
  <2>1. Lower!AddGlobal
    BY <1>1, <1>2, <1>3, <1>4 DEF Lower!AddGlobal, Lower!At, Lower!Add, Lower!Added
  <2> QED
    BY <2>1 DEF Lower!Next
<1>5. CASE d.kind = "AST_EXTRN"
  <2>1. Lower!AddExtern
    BY <1>1, <1>2, <1>3, <1>5 DEF Lower!AddExtern, Lower!At, Lower!Add, Lower!Added
  <2> QED
    BY <2>1 DEF Lower!Next
<1> QED
  BY <1>1, <1>4, <1>5

LEMMA LocalExternLowers == TypeInv /\ ir_extrn_s => Lower!Next
<1> SUFFICES ASSUME TypeInv, ir_extrn_s PROVE Lower!Next
  OBVIOUS
<1> DEFINE m == ModuleNode("IR_EXTRN", Top.node.name, 0, <<>>)
<1>1. /\ status = "running" /\ stack # <<>>
      /\ module' = Append(module, m) /\ UNCHANGED <<program, curr, status>>
  BY DEF ir_extrn_s, InCall
<1>2. m.kind = "IR_EXTRN"
  BY DEF ModuleNode
<1> HIDE DEF m
<1>3. Len(module') = Len(module) + 1 /\ module'[Len(module')] = m
  BY <1>1, LastAdded DEF TypeInv, TypeOK
<1>4. Lower!AddLocalExtern
  BY <1>1, <1>2, <1>3, AtFunction DEF Lower!AddLocalExtern, Lower!At, Lower!Add, Lower!Added
<1> QED
  BY <1>4 DEF Lower!Next

\* The function that joins the module is one of those the invariants are about.
LEMMA FunctionLowers == TypeInv /\ Serves' /\ EndFunction => Lower!Next
<1> SUFFICES ASSUME TypeInv, Serves', EndFunction PROVE Lower!Next
  OBVIOUS
<1> DEFINE d == program[curr]
           m == ModuleNode("IR_FUNCTION", Top.node.name, Len(Top.node.params), code')
<1>1. /\ InCall("ir_function_s") /\ module' = Append(module, m) /\ curr' = curr + 1
      /\ UNCHANGED <<program, status>>
  BY DEF EndFunction
<1>2. status = "running" /\ stack # <<>>
  BY <1>1 DEF InCall
<1>3. Top.node = d
  BY <1>1, <1>2, OnlyTop, AtFunction
<1>4. m.kind = "IR_FUNCTION" /\ m.name = d.name /\ m.size = Len(d.params)
  BY <1>3 DEF ModuleNode
<1> HIDE DEF m
<1>5. /\ Len(module') = Len(module) + 1 /\ module'[Len(module')] = m
      /\ m \in {module'[i] : i \in DOMAIN module'}
  BY <1>1, LastAdded DEF TypeInv, TypeOK
<1>6. m \in FunctionsDone'
  BY <1>4, <1>5 DEF FunctionsDone
<1>7. UsesOk(m.nodes, m.size) /\ UniqueDests(m.nodes) /\ Contained(m.nodes)
  BY <1>6 DEF Serves, DefBeforeUse, SingleAssignment, ControlStaysInside
<1>8. /\ Lower!UsesOk(m.nodes, m.size) <=> UsesOk(m.nodes, m.size)
      /\ Lower!UniqueDests(m.nodes) <=> UniqueDests(m.nodes)
      /\ Lower!Contained(m.nodes) <=> Contained(m.nodes)
  BY DEF UsesOk, UniqueDests, Contained, Targets, Placed, Lower!UsesOk, Lower!UniqueDests,
     Lower!Contained, Lower!Targets, Lower!Placed
<1>9. Lower!AddFunction
  BY <1>1, <1>2, <1>4, <1>5, <1>7, <1>8, AtFunction
     DEF Lower!AddFunction, Lower!At, Lower!Add, Lower!Added
<1> QED
  BY <1>9 DEF Lower!Next

LEMMA FatalLowers == TypeInv /\ Serves' /\ Fatal => Lower!Next
<1> SUFFICES ASSUME TypeInv, Serves', Fatal PROVE Lower!Next
  OBVIOUS
<1>1. /\ status = "running" /\ stack # <<>> /\ status' = "fatal"
      /\ UNCHANGED <<program, curr, module>>
  BY DEF Fatal
<1>2. ~ WellFormed(program)
  BY <1>1 DEF Serves, RefusesIllFormed
<1>3. Lower!Refuse
  BY <1>1, <1>2, AtFunction DEF Lower!Refuse, Lower!At
<1> QED
  BY <1>3 DEF Lower!Next

LEMMA DoneLowers == TypeInv /\ Serves' /\ GenDone => Lower!Next
<1> SUFFICES ASSUME TypeInv, Serves', GenDone PROVE Lower!Next
  OBVIOUS
<1>1. /\ status = "running" /\ curr > Len(program) /\ status' = "done"
      /\ UNCHANGED <<program, curr, module>>
  BY DEF GenDone, AtTopLevel
<1>2. curr = Len(program) + 1
  <2>1. Len(program) \in Nat /\ curr \in 1 .. Len(program) + 1
    BY ProgramAssumption DEF TypeInv, TypeOK
  <2> QED
    BY <1>1, <2>1
<1>3. WellFormed(program)
  BY <1>1 DEF Serves, RefusesIllFormed
<1>4. Lower!Finish
  BY <1>1, <1>2, <1>3 DEF Lower!Finish
<1> QED
  BY <1>4 DEF Lower!Next

\* Every other step is the generator's own affair.
LEMMA InnerStepsHide ==
  ASSUME Next, ~ GenDeclaration, ~ ir_extrn_s, ~ EndFunction, ~ Fatal, ~ GenDone
  PROVE  UNCHANGED <<program, curr, module, status>>
<1>1. CASE ModuleStep
  BY <1>1 DEF ModuleStep, BeginFunction
<1>2. CASE FunctionStep
  BY <1>2 DEF FunctionStep, SpillParam, FunctionBody
<1>3. CASE ExprStep
  BY ZenonT(30), <1>3 DEF ExprStep, EvaluateOperand, Literal, LoadVariable, AddressOf,
     DerefOrNegate, Not, IncDec, Assign, BinaryOp, EmitCall, LvalueName, LvalueDeref, Yield
<1>4. CASE StatementStep
  BY ZenonT(30), <1>4 DEF StatementStep, ScopeStatement, EndScope, ir_auto_s, ir_return_s,
     LableOrGoto, IfBegin, IfEnd, ChainCondition, ChainThen, ChainNext, ChainElse, ChainEnd,
     WhileCondition, WhileBody, WhileEnd, Yield
<1> QED
  BY <1>1, <1>2, <1>3, <1>4 DEF Next

LEMMA StepLowers == TypeInv /\ Serves' /\ [Next]_vars => [Lower!Next]_(Lower!vars)
<1> SUFFICES ASSUME TypeInv, Serves', [Next]_vars PROVE Lower!Next \/ UNCHANGED Lower!vars
  OBVIOUS
<1>1. CASE UNCHANGED vars
  BY <1>1 DEF vars, Lower!vars
<1>2. CASE Next /\ ~ (GenDeclaration \/ ir_extrn_s \/ EndFunction \/ Fatal \/ GenDone)
  BY <1>2, InnerStepsHide DEF Lower!vars
<1>3. CASE GenDeclaration \/ ir_extrn_s \/ EndFunction \/ Fatal \/ GenDone
  BY <1>3, DeclarationLowers, LocalExternLowers, FunctionLowers, FatalLowers, DoneLowers
<1> QED
  BY <1>1, <1>2, <1>3

\* For every program that the parser can build and in which no function defines
\* a label twice, whatever way gen_ir takes through the trees, what compile_file
\* and a back end see is the module growing by the program's declarations and
\* functions in their order, each function with code that reads only what was
\* written, writes every temporary once and is left by a return only, until the
\* whole program is there or, if and only if it breaks the rules of B, ir_fatal.
THEOREM LoweringRefined == Spec => LoweringImplemented
<1>1. Init => Lower!Init
  BY DEF Init, Lower!Init
<1>2. Spec => [](TypeInv /\ Serves)
  <2>1. ValueInv /\ CtrlInv /\ TypeInv /\ RuleInv => TypeInv /\ Serves
    BY ValuesServe, RulesServe DEF CtrlInv, Serves
  <2> QED
    BY <2>1, ValuesKept, LabelsKept, RulesInvariant, PTL
<1>3. TypeInv /\ Serves /\ (TypeInv /\ Serves)' /\ [Next]_vars => [Lower!Next]_(Lower!vars)
  BY StepLowers
<1> QED
  BY <1>1, <1>2, <1>3, PTL DEF Spec, LoweringImplemented, Lower!Spec
=============================================================================
