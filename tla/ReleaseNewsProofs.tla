-------------------------- MODULE ReleaseNewsProofs --------------------------
(***************************************************************************)
(* What the NEWS files tell, for any modules, any number of releases and    *)
(* any order in which their archives are made, fail and are published.      *)
(***************************************************************************)
EXTENDS ReleaseNews, TLAPS

(* The releases before the j-th tag.                                        *)
Before(j) == DOMAIN Earlier \cup {plan[i] : i \in 1 .. j - 1}

ContentsTyped == \A x \in DOMAIN contents : contents[x] \in [Modules -> Nat]

(* A module never goes back: no release holds a newer version than the      *)
(* newest, and each release holds what the releases before it held, or a    *)
(* newer version, or nothing.                                               *)
Grows ==
  /\ \A x \in DOMAIN contents, m \in Modules : contents[x][m] <= newest[m]
  /\ \A k \in 1 .. tagged, m \in Modules :
       contents[plan[k]][m] # Absent => \A x \in Before(k) : contents[x][m] <= contents[plan[k]][m]

(* A module that was away comes back with a version nobody has seen.        *)
Regrown ==
  \A j \in 1 .. tagged, m \in Modules : contents[plan[j]][m] = Absent =>
    /\ tree[m] # Absent => \A x \in Before(j) : contents[x][m] < tree[m]
    /\ \A k \in j + 1 .. tagged : contents[plan[k]][m] # Absent =>
         \A x \in Before(j) : contents[x][m] < contents[plan[k]][m]

(* A NEWS file is the comparison with a release that was published.         *)
Compared ==
  \A v \in DOMAIN news :
    LET old == decrement_gnome_version(v)
    IN  old \in published /\ news[v] = NewsFile(contents[old], contents[v])

IInv == TypeOK /\ ContentsTyped /\ Grows /\ Regrown /\ Compared

------------------------------------------------------------------------------
(* A tag is made once, and after every release there was.                   *)
LEMMA Tagged ==
  ASSUME NEW p \in Plans
  PROVE  /\ \A i \in 1 .. Len(p) : p[i] \in Version /\ p[i] \notin DOMAIN Earlier
         /\ \A i, j \in 1 .. Len(p) : i < j => Precedes(p[i], p[j])
         /\ \A i, j \in 1 .. Len(p) : p[i] = p[j] => i = j
         /\ \A i \in 1 .. Len(p), v \in DOMAIN Earlier : Precedes(v, p[i])
         /\ Len(p) \in Nat
<1>1. p \in Seq(Version) /\ DOMAIN p = 1 .. Len(p) /\ Len(p) \in Nat BY PlansAssumption
<1>2. \A v \in Version : ~ Precedes(v, v) BY DEF Version, Precedes
<1>3. \A i \in 1 .. Len(p) : p[i] \in Version BY <1>1
<1>4. \A i, j \in 1 .. Len(p) : i < j => Precedes(p[i], p[j]) BY <1>1, PlansAssumption
<1>5. \A i \in 1 .. Len(p), v \in DOMAIN Earlier : Precedes(v, p[i]) BY <1>1, PlansAssumption
<1>6. ASSUME NEW i \in 1 .. Len(p), NEW j \in 1 .. Len(p), p[i] = p[j] PROVE i = j
  <2>1. ~ (i < j) /\ ~ (j < i) BY <1>2, <1>3, <1>4, <1>6
  <2> QED BY <1>1, <2>1
<1> QED BY <1>1, <1>2, <1>3, <1>4, <1>5, <1>6

(* The tag that is made next is neither a release nor tagged.               *)
LEMMA NextTag ==
  ASSUME TypeOK, tagged < Len(plan)
  PROVE  /\ tagged \in Nat /\ tagged + 1 \in 1 .. Len(plan)
         /\ plan[tagged + 1] \notin DOMAIN contents
         /\ \A i \in 1 .. tagged : plan[i] # plan[tagged + 1]
         /\ \A i \in 1 .. tagged : plan[i] \in DOMAIN at
<1>1. plan \in Plans /\ tagged \in Nat /\ tagged + 1 \in 1 .. Len(plan) BY Tagged DEF TypeOK
<1>2. \A i \in 1 .. tagged : i \in 1 .. Len(plan) /\ i # tagged + 1 BY <1>1, Tagged
<1> QED BY <1>1, <1>2, Tagged DEF TypeOK

(* What was released or tagged before a tag has contents.                   *)
LEMMA BeforeTag ==
  ASSUME TypeOK, NEW j \in 1 .. tagged + 1
  PROVE  Before(j) \subseteq DOMAIN contents
<1>1. tagged \in Nat BY Tagged DEF TypeOK
<1>2. 1 .. j - 1 \subseteq 1 .. tagged BY <1>1
<1> QED BY <1>2 DEF Before, TypeOK

------------------------------------------------------------------------------
LEMMA InitInv == Init => IInv
<1> SUFFICES ASSUME Init PROVE IInv OBVIOUS
<1>1. plan \in Plans /\ tagged = 0 /\ Len(plan) \in Nat BY Tagged DEF Init
<1>2. 1 .. tagged = {} BY <1>1
<1>3. tree \in [Modules -> Nat] /\ newest = tree BY EarlierAssumption DEF Init
<1>4. DOMAIN at = {} /\ DOMAIN news = {} /\ DOMAIN posted = {} BY DEF Init, Empty
<1>5. TypeOK BY <1>1, <1>2, <1>3, <1>4, BoundsAssumption DEF Init, TypeOK
<1>6. ContentsTyped BY EarlierAssumption DEF Init, ContentsTyped
<1>7. Grows /\ Regrown /\ Compared BY <1>2, <1>4 DEF Init, Grows, Regrown, Compared
<1> QED BY <1>5, <1>6, <1>7 DEF IInv

LEMMA TypeStep == TypeOK /\ [Next]_vars => TypeOK'
<1> SUFFICES ASSUME TypeOK, [Next]_vars PROVE TypeOK' OBVIOUS
<1> USE BoundsAssumption DEF TypeOK, branch
<1>0. tagged \in Nat /\ Len(plan) \in Nat BY Tagged
<1>1. ASSUME NEW m \in Modules, Bump(m) PROVE TypeOK'
  BY <1>1 DEF Bump
<1>2. ASSUME NEW m \in Modules, Drop(m) PROVE TypeOK'
  BY <1>2 DEF Drop, Absent
<1>3. CASE Tag
  <2> DEFINE v == plan[tagged + 1]
  <2>1. v \notin DOMAIN contents /\ v \notin DOMAIN at /\ v \notin DOMAIN Earlier
    BY <1>3, NextTag DEF Tag
  <2>2. tagged' = tagged + 1 /\ tagged' \in 0 .. Len(plan) BY <1>0, <1>3 DEF Tag
  <2>3. DOMAIN at' = DOMAIN at \cup {v} /\ at'[v] = "archive" /\ \A x \in DOMAIN at : at'[x] = at[x]
    BY <1>3, <2>1, <2>2 DEF Tag, Put
  <2>4. DOMAIN contents' = DOMAIN contents \cup {v} BY <1>3, <2>2 DEF Tag, Put
  <2>5. 1 .. tagged' = 1 .. tagged \cup {tagged + 1} BY <1>0, <2>2
  <2>6. DOMAIN at' = {plan'[i] : i \in 1 .. tagged'}
    <3>1. {plan[i] : i \in 1 .. tagged'} = {plan[i] : i \in 1 .. tagged} \cup {v} BY <2>5
    <3>2. plan' = plan BY <1>3 DEF Tag
    <3>3. DOMAIN at = {plan[i] : i \in 1 .. tagged} OBVIOUS
    <3> HIDE DEF TypeOK
    <3> QED BY ONLY <2>3, <3>1, <3>2, <3>3
  <2> HIDE DEF v
  <2>7. UNCHANGED <<plan, tree, newest, bumps, drops, news, published, posted>> BY <1>3 DEF Tag
  <2>8. DOMAIN news' = {x \in DOMAIN at' : at'[x] \notin {"archive", "failed"}} BY <2>1, <2>3, <2>7
  <2>9. published' = DOMAIN Earlier \cup {x \in DOMAIN at' : at'[x] \in {"announce", "done"}}
    BY <2>1, <2>3, <2>7
  <2> QED BY <2>2, <2>3, <2>4, <2>6, <2>7, <2>8, <2>9
<1>4. ASSUME NEW v \in DOMAIN at, Archive(v) PROVE TypeOK'
  BY <1>4 DEF Archive, Put
<1>5. ASSUME NEW v \in DOMAIN at, Fail(v) PROVE TypeOK'
  BY <1>5 DEF Fail
<1>6. ASSUME NEW v \in DOMAIN at, Retry(v) PROVE TypeOK'
  BY <1>6 DEF Retry
<1>7. ASSUME NEW v \in DOMAIN at, Release(v) PROVE TypeOK'
  BY <1>7 DEF Release
<1>8. ASSUME NEW v \in DOMAIN at, Announce(v) PROVE TypeOK'
  <2>1. posted' = posted \/ posted' = Put(posted, v, FinalNotice(Str(v.minor))) BY <1>8 DEF Announce
  <2>2. FinalNotice(Str(v.minor)) \in BOOLEAN BY DEF FinalNotice
  <2>3. DOMAIN posted' \subseteq DOMAIN at /\ \A x \in DOMAIN posted' : posted'[x] \in BOOLEAN
    BY <2>1, <2>2 DEF Put
  <2> QED BY <1>8, <2>3 DEF Announce
<1>9. CASE UNCHANGED vars
  BY <1>9 DEF vars
<1> QED BY <1>1, <1>2, <1>3, <1>4, <1>5, <1>6, <1>7, <1>8, <1>9 DEF Next, Pipeline

------------------------------------------------------------------------------
(* The branch moves, and a tag is made of it.                               *)
LEMMA BranchStep ==
  TypeOK /\ ContentsTyped /\ Grows /\ Regrown /\ [Next]_vars => (ContentsTyped /\ Grows /\ Regrown)'
<1> SUFFICES ASSUME TypeOK, ContentsTyped, Grows, Regrown, [Next]_vars
             PROVE (ContentsTyped /\ Grows /\ Regrown)'
  OBVIOUS
<1>0. tagged \in Nat BY Tagged DEF TypeOK
<1>t. \A x \in DOMAIN contents, m \in Modules : contents[x][m] \in Nat BY DEF ContentsTyped
<1>b. \A k \in 1 .. tagged : Before(k) \subseteq DOMAIN contents BY <1>0, BeforeTag
<1>p. \A k \in 1 .. tagged : plan[k] \in DOMAIN contents BY DEF TypeOK
<1>1. ASSUME NEW n \in Modules, Bump(n) PROVE (ContentsTyped /\ Grows /\ Regrown)'
  <2>1. UNCHANGED <<plan, tagged, contents>> BY <1>1 DEF Bump
  <2>2. \A m \in Modules : newest'[m] \in Nat /\ newest[m] <= newest'[m] BY <1>1 DEF Bump, TypeOK
  <2>3. newest'[n] = newest[n] + 1 /\ tree'[n] = newest'[n] /\ \A m \in Modules \ {n} : tree'[m] = tree[m]
    BY <1>1 DEF Bump, TypeOK
  <2>4. ContentsTyped' BY <2>1 DEF ContentsTyped
  <2>5. Grows'
    <3>1. \A x \in DOMAIN contents, m \in Modules : contents[x][m] <= newest'[m]
      BY <1>t, <2>2 DEF Grows, TypeOK
    <3> QED BY <2>1, <3>1 DEF Grows, Before
  <2>6. \A j \in 1 .. tagged : \A x \in Before(j) : contents[x][n] < tree'[n]
    BY <1>b, <1>t, <2>3 DEF Grows, TypeOK
  <2>7. Regrown' BY <2>1, <2>3, <2>6 DEF Regrown, Before
  <2> QED BY <2>4, <2>5, <2>7
<1>2. ASSUME NEW n \in Modules, Drop(n) PROVE (ContentsTyped /\ Grows /\ Regrown)'
  <2>1. UNCHANGED <<plan, tagged, contents, newest>> BY <1>2 DEF Drop
  <2>2. \A m \in Modules : tree'[m] # Absent => tree'[m] = tree[m] /\ tree[m] # Absent
    BY <1>2 DEF Drop, TypeOK
  <2> QED BY <2>1, <2>2 DEF ContentsTyped, Grows, Regrown, Before
<1>3. CASE Tag
  <2> DEFINE k == tagged + 1
  <2>1. /\ k \in Nat /\ tagged' = k /\ plan' = plan /\ contents' = Put(contents, plan[k], tree)
        /\ UNCHANGED <<tree, newest>>
        /\ plan[k] \notin DOMAIN contents
    BY <1>0, <1>3, NextTag DEF Tag, branch
  <2>2. /\ DOMAIN contents' = DOMAIN contents \cup {plan[k]}
        /\ contents'[plan[k]] = tree
        /\ \A x \in DOMAIN contents : contents'[x] = contents[x]
    BY <2>1 DEF Put
  <2>3. Before(k) \subseteq DOMAIN contents BY <1>0, BeforeTag
  <2>4. ContentsTyped' BY <2>2 DEF ContentsTyped, TypeOK
  <2>5. \A j \in 1 .. tagged' : j \in 1 .. tagged \/ j = k BY <1>0, <2>1
  <2>6. \A j \in 1 .. tagged' : Before(j)' = Before(j) BY <2>1 DEF Before
  <2>7. \A x \in DOMAIN contents, m \in Modules : tree[m] # Absent => contents[x][m] <= tree[m]
    BY DEF Grows, TypeOK
  <2>8. Grows'
    <3>1. \A x \in DOMAIN contents', m \in Modules : contents'[x][m] <= newest'[m]
      <4>1. \A m \in Modules : tree[m] <= newest[m] BY DEF TypeOK, Absent
      <4> QED BY <2>1, <2>2, <4>1 DEF Grows
    <3>2. ASSUME NEW j \in 1 .. tagged', NEW m \in Modules, contents'[plan[j]][m] # Absent, NEW x \in Before(j)
          PROVE contents'[x][m] <= contents'[plan[j]][m]
      <4>1. CASE j = k BY <2>1, <2>2, <2>3, <2>7, <3>2, <4>1
      <4>2. CASE j \in 1 .. tagged
        <5>1. x \in DOMAIN contents /\ plan[j] \in DOMAIN contents BY <1>b, <1>p, <3>2, <4>2
        <5> QED BY <2>2, <3>2, <4>2, <5>1 DEF Grows
      <4> QED BY <2>5, <4>1, <4>2
    <3> QED BY <2>1, <2>6, <3>1, <3>2 DEF Grows
  <2>9. Regrown'
    <3>1. ASSUME NEW j \in 1 .. tagged', NEW m \in Modules, contents'[plan[j]][m] = Absent, NEW x \in Before(j)
          PROVE /\ tree[m] # Absent => contents'[x][m] < tree[m]
                /\ \A i \in j + 1 .. tagged' : contents'[plan[i]][m] # Absent => contents'[x][m] < contents'[plan[i]][m]
      <4>1. CASE j = k BY <1>0, <2>1, <2>2, <3>1, <4>1
      <4>2. CASE j \in 1 .. tagged
        <5>1. x \in DOMAIN contents /\ plan[j] \in DOMAIN contents BY <1>b, <1>p, <3>1, <4>2
        <5>2. contents'[x] = contents[x] /\ contents[plan[j]][m] = Absent BY <2>2, <3>1, <5>1
        <5>3. tree[m] # Absent => contents[x][m] < tree[m] BY <3>1, <4>2, <5>2 DEF Regrown
        <5>4. ASSUME NEW i \in j + 1 .. tagged', contents'[plan[i]][m] # Absent
              PROVE contents[x][m] < contents'[plan[i]][m]
          <6>1. CASE i = k BY <2>1, <2>2, <5>3, <5>4, <6>1
          <6>2. CASE i # k
            <7>1. i \in j + 1 .. tagged /\ i \in 1 .. tagged BY <1>0, <2>1, <4>2, <6>2
            <7>2. contents'[plan[i]] = contents[plan[i]] BY <1>p, <2>2, <7>1
            <7> QED BY <3>1, <4>2, <5>2, <5>4, <7>1, <7>2 DEF Regrown
          <6> QED BY <6>1, <6>2
        <5> QED BY <5>2, <5>3, <5>4
      <4> QED BY <2>5, <4>1, <4>2
    <3> QED BY <2>1, <2>6, <3>1 DEF Regrown
  <2> QED BY <2>4, <2>8, <2>9
<1>4. ASSUME NEW v \in DOMAIN at, Pipeline(v) \/ Fail(v) PROVE (ContentsTyped /\ Grows /\ Regrown)'
  <2>1. UNCHANGED <<plan, tagged, contents, tree, newest>>
    BY <1>4 DEF Pipeline, Archive, Retry, Release, Announce, Fail, branch
  <2> QED BY <2>1 DEF ContentsTyped, Grows, Regrown, Before
<1>5. CASE UNCHANGED vars
  BY <1>5 DEF vars, ContentsTyped, Grows, Regrown, Before
<1> QED BY <1>1, <1>2, <1>3, <1>4, <1>5 DEF Next

(* Contents and releases stay what they are, and a NEWS file is made from   *)
(* them once.                                                               *)
LEMMA NewsStep == TypeOK /\ Compared /\ [Next]_vars => Compared'
<1> SUFFICES ASSUME TypeOK, Compared, [Next]_vars PROVE Compared' OBVIOUS
<1>1. published \subseteq DOMAIN contents /\ DOMAIN news \subseteq DOMAIN contents BY DEF TypeOK
<1>2. ASSUME UNCHANGED news, published \subseteq published', \A x \in DOMAIN contents : contents'[x] = contents[x]
      PROVE  Compared'
  BY <1>1, <1>2 DEF Compared
<1>3. CASE Tag
  <2>1. plan[tagged + 1] \notin DOMAIN contents BY <1>3, NextTag DEF Tag
  <2>2. \A x \in DOMAIN contents : contents'[x] = contents[x] BY <1>3, <2>1 DEF Tag, Put
  <2> QED BY <1>2, <1>3, <2>2 DEF Tag
<1>4. ASSUME NEW v \in DOMAIN at, Archive(v) PROVE Compared'
  <2> DEFINE old == decrement_gnome_version(v)
  <2> HIDE DEF old
  <2>1. old \in published /\ news' = Put(news, v, NewsFile(contents[old], contents[v]))
        /\ UNCHANGED <<contents, published>>
    BY <1>4 DEF Archive, old
  <2>2. news'[v] = NewsFile(contents[old], contents[v]) BY <2>1 DEF Put
  <2>3. \A w \in DOMAIN news' \ {v} : w \in DOMAIN news /\ news'[w] = news[w] BY <2>1 DEF Put
  <2> QED BY <2>1, <2>2, <2>3 DEF Compared, old
<1>5. ASSUME NEW v \in DOMAIN at, Fail(v) \/ Retry(v) \/ Release(v) \/ Announce(v) PROVE Compared'
  <2>1. UNCHANGED <<news, contents>> /\ published \subseteq published'
    BY <1>5 DEF Fail, Retry, Release, Announce
  <2> QED BY <1>2, <2>1
<1>6. ASSUME NEW m \in Modules, Bump(m) \/ Drop(m) PROVE Compared'
  BY <1>2, <1>6 DEF Bump, Drop
<1>7. CASE UNCHANGED vars
  BY <1>2, <1>7 DEF vars
<1> QED BY <1>3, <1>4, <1>5, <1>6, <1>7 DEF Next, Pipeline

LEMMA IInvAlways == Spec => []IInv
<1>1. IInv /\ [Next]_vars => IInv'
  BY TypeStep, BranchStep, NewsStep DEF IInv
<1> QED BY InitInv, <1>1, PTL DEF Spec

------------------------------------------------------------------------------
(* Every tag but a .0 is compared with the tag before it, if both belong to *)
(* one series; a .0 with a release before that tag.                         *)
LEMMA ComparedWith ==
  ASSUME IInv, NEW i \in 2 .. tagged, plan[i] \in published, Previous(i).major = plan[i].major
  PROVE  LET old == decrement_gnome_version(plan[i])
         IN  /\ old \in DOMAIN contents
             /\ news[plan[i]] = NewsFile(contents[old], contents[plan[i]])
             /\ old = Previous(i) \/ (plan[i].minor = 0 /\ old \in Before(i - 1))
<1> DEFINE v == plan[i]
           u == plan[i - 1]
           old == decrement_gnome_version(v)
<1>1. tagged \in Nat /\ plan \in Plans /\ tagged <= Len(plan) /\ Len(plan) \in Nat
  BY Tagged DEF IInv, TypeOK
<1>2. i \in 1 .. tagged /\ i - 1 \in 1 .. tagged /\ i \in 1 .. Len(plan) /\ i - 1 \in 1 .. Len(plan) /\ i - 1 < i
  BY <1>1
<1>3. u \in Version /\ v \in Version /\ Precedes(u, v) /\ u.major = v.major
  BY <1>1, <1>2, Tagged DEF Previous
<1>4. u.minor \in Int /\ v.minor \in Int /\ u.minor < v.minor /\ v.major \in Nat
  BY <1>3 DEF Version, Precedes
<1>5. v \in DOMAIN news BY <1>1, <1>2, Tagged DEF IInv, TypeOK
<1>6. old \in published /\ news[v] = NewsFile(contents[old], contents[v]) BY <1>5 DEF IInv, Compared
<1>7. old \in DOMAIN contents /\ old \in Version
  <2>1. \A x \in published : x \in DOMAIN contents /\ x \in Version
    <3>1. \A j \in 1 .. tagged : plan[j] \in Version BY <1>1, Tagged
    <3> QED BY <3>1, EarlierAssumption DEF IInv, TypeOK
  <2> QED BY <1>6, <2>1
<1>8. old \in DOMAIN Earlier \/ \E j \in 1 .. tagged : old = plan[j] BY <1>7 DEF IInv, TypeOK
<1>9. CASE v.minor = 0
  <2>1. old.major < u.major BY <1>3, <1>4, <1>7, <1>9 DEF decrement_gnome_version, Alpha
  <2>2. ASSUME NEW j \in 1 .. tagged, old = plan[j] PROVE j \in 1 .. i - 2
    <3>1. j \in 1 .. Len(plan) BY <1>1
    <3>2. ~ Precedes(u, old) /\ u # old BY <1>3, <1>7, <2>1 DEF Version, Precedes
    <3>3. ~ (i - 1 < j) /\ i - 1 # j BY <1>1, <1>2, <2>2, <3>1, <3>2, Tagged
    <3> QED BY <1>1, <3>3
  <2>3. old \in Before(i - 1) BY <1>1, <1>8, <2>2 DEF Before
  <2> QED BY <1>6, <1>7, <1>9, <2>3
<1>10. v.minor # Alpha BY <1>3, <1>4 DEF Version
<1>11. CASE v.minor # 0
  <2>1. old = [v EXCEPT !.minor = @ - 1] BY <1>10, <1>11 DEF decrement_gnome_version
  <2>2. old.major = v.major /\ old.minor = v.minor - 1 BY <1>3, <2>1 DEF Version
  <2>3. Precedes(old, v) /\ ~ Precedes(old, u) BY <1>3, <1>4, <2>2 DEF Precedes
  <2>4. old \notin DOMAIN Earlier BY <1>1, <1>2, <2>3, Tagged
  <2>5. PICK j \in 1 .. tagged : old = plan[j] BY <1>8, <2>4
  <2>6. j \in 1 .. Len(plan) /\ j # i /\ ~ (j < i - 1) BY <1>1, <1>2, <2>2, <2>3, <2>5, <1>4, Tagged
  <2>7. ~ Precedes(v, old) BY <1>4, <2>2 DEF Precedes
  <2>8. ~ (i < j) BY <1>1, <1>2, <2>5, <2>6, <2>7, Tagged
  <2>9. j = i - 1 BY <1>1, <2>6, <2>8
  <2> QED BY <1>6, <1>7, <2>5, <2>9 DEF Previous
<1> QED BY <1>9, <1>11

(* What a release before Previous(i) held of a module that the i-th tag     *)
(* holds is what both hold, or something older.                             *)
LEMMA OlderStill ==
  ASSUME IInv, NEW i \in 2 .. tagged, NEW x \in Before(i - 1), NEW m \in Modules,
         contents[plan[i]][m] # Absent
  PROVE  LET w == contents[x][m]  u == contents[Previous(i)][m]  v == contents[plan[i]][m]
         IN  /\ w \in Nat /\ u \in Nat /\ v \in Nat
             /\ u # Absent => w <= u /\ u <= v
             /\ u = Absent => w < v
<1> DEFINE j == i - 1
<1>1. tagged \in Nat BY Tagged DEF IInv, TypeOK
<1>2. j \in 1 .. tagged /\ i \in 1 .. tagged /\ i \in j + 1 .. tagged BY <1>1
<1>3. Before(j) \subseteq DOMAIN contents
  <2>1. j \in 1 .. tagged + 1 BY <1>1, <1>2
  <2> QED BY <2>1, BeforeTag DEF IInv
<1>4. plan[j] \in DOMAIN contents /\ plan[i] \in DOMAIN contents BY <1>2 DEF IInv, TypeOK
<1>5. contents[x][m] \in Nat /\ contents[plan[j]][m] \in Nat /\ contents[plan[i]][m] \in Nat
  BY <1>3, <1>4 DEF IInv, ContentsTyped
<1>6. plan[j] \in Before(i) BY <1>1 DEF Before
<1>7. contents[plan[j]][m] # Absent => contents[x][m] <= contents[plan[j]][m]
  BY <1>2 DEF IInv, Grows
<1>8. contents[plan[j]][m] <= contents[plan[i]][m] BY <1>2, <1>6 DEF IInv, Grows
<1>9. contents[plan[j]][m] = Absent => contents[x][m] < contents[plan[i]][m]
  BY <1>2 DEF IInv, Regrown
<1> QED BY <1>5, <1>7, <1>8, <1>9 DEF Previous

(* The variables keep their types, and the jobs of a tag leave a NEWS file, *)
(* an archive on the server and an announcement in this order               *)
(* (generate_archive.sh, .gitlab-ci.yml:453-492).                           *)
THEOREM NewsTypes == Spec => []TypeOK
<1>1. IInv => TypeOK BY DEF IInv
<1> QED BY <1>1, IInvAlways, PTL

(* The NEWS file of a release tells what changed since the release before   *)
(* it in the series, whatever release it was compared with (write_news.py), *)
(* except of the modules that came with the series, which a .0 only names.  *)
THEOREM NewsIsComplete == Spec => []NewsTells
<1>1. IInv => NewsTells
  <2> SUFFICES ASSUME IInv, NEW i \in 2 .. tagged, plan[i] \in published, Previous(i).major = plan[i].major
               PROVE  LET u == contents[Previous(i)]
                          v == contents[plan[i]]
                          n == news[plan[i]]
                      IN  /\ \A m \in Has(v) : u[m] # v[m] => m \in n.added \cup n.updated
                          /\ \A m \in Updates(u, v) \ CameWith(plan[i]) :
                               (\A w \in 0..v[m] : <<m, w>> \notin Silent) =>
                                 m \in n.updated /\ (u[m] + 1)..v[m] \subseteq n.notes[m]
                          /\ Has(u) \ Has(v) \subseteq n.removed \cup CameWith(plan[i])
    BY DEF NewsTells
  <2> DEFINE u == contents[Previous(i)]
             v == contents[plan[i]]
             old == contents[decrement_gnome_version(plan[i])]
             n == news[plan[i]]
  <2>1. /\ n = NewsFile(old, v)
        /\ old = u \/ (plan[i].minor = 0 /\ \E x \in Before(i - 1) : old = contents[x])
    BY ComparedWith
  <2>2. /\ n.added = Has(v) \ Has(old) /\ n.removed = Has(old) \ Has(v)
        /\ n.updated = Updates(old, v)
        /\ \A m \in n.updated : n.notes[m] = diff_news(m, old[m], v[m])
    BY <2>1 DEF NewsFile
  <2>3. ASSUME NEW m \in Has(v)
        PROVE  /\ u[m] # v[m] => old[m] # v[m]
               /\ old[m] \in Nat /\ v[m] \in Nat /\ u[m] \in Nat
               /\ u[m] # Absent => old[m] <= u[m] /\ u[m] <= v[m]
    <3>1. m \in Modules /\ v[m] # Absent BY DEF Has
    <3>2. CASE old = u
      <4>1. tagged \in Nat BY Tagged DEF IInv, TypeOK
      <4>2. i - 1 \in 1 .. tagged /\ i \in 1 .. tagged BY <4>1
      <4>3. plan[i - 1] \in DOMAIN contents /\ plan[i] \in DOMAIN contents /\ plan[i - 1] \in Before(i)
        BY <4>1, <4>2 DEF IInv, TypeOK, Before
      <4>4. u[m] \in Nat /\ v[m] \in Nat BY <3>1, <4>3 DEF IInv, ContentsTyped, Previous
      <4>5. u[m] <= v[m] BY <3>1, <4>2, <4>3 DEF IInv, Grows, Previous
      <4> QED BY <3>2, <4>4, <4>5
    <3>3. CASE \E x \in Before(i - 1) : old = contents[x]
      <4>1. PICK x \in Before(i - 1) : old = contents[x] BY <3>3
      <4> QED BY <3>1, <4>1, OlderStill
    <3> QED BY <2>1, <3>2, <3>3
  <2> HIDE DEF n, u, v, old
  <2>4. \A m \in Has(v) : u[m] # v[m] => m \in n.added \cup n.updated
    BY <2>2, <2>3 DEF Has, Updates
  <2>5. old = u \/ CameWith(plan[i]) = {m \in Modules : old[m] = Absent}
    BY <2>1 DEF CameWith, old
  <2>6. ASSUME NEW m \in Updates(u, v) \ CameWith(plan[i]), \A w \in 0..v[m] : <<m, w>> \notin Silent
        PROVE  m \in n.updated /\ (u[m] + 1)..v[m] \subseteq n.notes[m]
    <3>1. m \in Modules /\ m \in Has(v) /\ u[m] # Absent /\ u[m] # v[m] BY <2>6 DEF Updates, Has
    <3>2. old[m] \in Nat /\ v[m] \in Nat /\ u[m] \in Nat /\ old[m] <= u[m] /\ u[m] <= v[m] /\ old[m] # v[m]
      BY <2>3, <3>1
    <3>3. old[m] # Absent BY <2>5, <2>6, <3>1
    <3>4. m \in n.updated BY <2>2, <3>1, <3>2, <3>3 DEF Updates, Has
    <3>5. <<m, old[m]>> \notin Silent BY <2>6, <3>2
    <3>6. n.notes[m] = (old[m] + 1)..v[m] BY <2>2, <3>4, <3>5 DEF diff_news
    <3> QED BY <3>2, <3>4, <3>6
  <2>7. Has(u) \ Has(v) \subseteq n.removed \cup CameWith(plan[i])
    BY <2>2, <2>5 DEF Has
  <2> QED BY <2>4, <2>6, <2>7 DEF n, u, v
<1> QED BY <1>1, IInvAlways, PTL

=============================================================================
