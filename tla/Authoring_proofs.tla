-------------------------- MODULE Authoring_proofs --------------------------
(***************************************************************************)
(* What holds of the matcher for all JSON values and all rules, and then   *)
(* of the contents a consumer writes.  A value is a finite tree, so that   *)
(* what is said of its members first can be said of all values: objects    *)
(* and arrays are alike in that they have members, each at a step.         *)
(*                                                                         *)
(* In order: values, their members and their leaves; the four theorems     *)
(* about a comparison (module Matching); what the walks of the authoring   *)
(* make of a value; the rules of a template, and what a comparison by them *)
(* demands, first of a value, then of each operation; and the two theorems *)
(* about what is persisted (module Authoring).                             *)
(***************************************************************************)
EXTENDS Authoring, InductionLemmas, SequenceTheorems, FiniteSetTheorems

Compound(v) == IsObj(v) \/ IsArr(v)

Members(v) ==
  CASE IsObj(v) -> {Key(k) : k \in DOMAIN v.obj}
    [] IsArr(v) -> {Index(i) : i \in DOMAIN v.arr}
    [] OTHER    -> {}

-----------------------------------------------------------------------------
(* The forms of a value exclude each other. *)
LEMMA Forms ==
  /\ \A s : Kind(Str(s)) = {"str"} /\ Str(s).str = s
  /\ \A b : Kind(Bool(b)) = {"bool"} /\ Bool(b).bool = b
  /\ \A f : Kind(Obj(f)) = {"obj"} /\ Obj(f).obj = f
  /\ \A s : Kind(Arr(s)) = {"arr"} /\ Arr(s).arr = s
  /\ \A n : Kind(Num(n)) = {"num"} /\ Num(n).num = n
  /\ \A k, x : /\ Kind(Definition(k, x)) = {"matcher", "example"}
               /\ Definition(k, x).matcher = k /\ Definition(k, x).example = x
  /\ Kind(Null) = {"null"} /\ Kind(Absent) = {"absent"}
  /\ \A k : DOMAIN Key(k) = {"key"} /\ Key(k).key = k
  /\ \A i : DOMAIN Index(i) = {"index"} /\ Index(i).index = i
BY DEF Kind, Str, Bool, Obj, Arr, Null, Absent, Key, Index, Num, Definition

Types == {{"str"}, {"bool"}, {"null"}, {"num"}, {"arr"}, {"obj"}, {"matcher", "example"}}

(* What is known of a value. *)
LEMMA ValueFacts ==
  ASSUME NEW v \in Values
  PROVE  /\ Depth[v] \in Nat
         /\ Kind(v) \in Types
         /\ IsStr(v) => v = Str(v.str) /\ v.str \in STRING
         /\ Kind(v) = {"num"} => v = Num(v.num)
         /\ IsDefinition(v) => v = Definition(v.matcher, v.example)
         /\ IsObj(v) => /\ v = Obj(v.obj) /\ DOMAIN v.obj \subseteq STRING
                        /\ v.obj = [k \in DOMAIN v.obj |-> v.obj[k]]
                        /\ \A k \in DOMAIN v.obj :
                             v.obj[k] \in Values /\ Depth[v.obj[k]] < Depth[v]
         /\ IsArr(v) => /\ v = Arr(v.arr) /\ v.arr \in Seq(Values)
                        /\ \A i \in DOMAIN v.arr :
                             v.arr[i] \in Values /\ Depth[v.arr[i]] < Depth[v]
<1>1. Depth \in [Values -> Nat] /\ IsJson(v)
      /\ \A w \in Parts(v) : w \in Values /\ Depth[w] < Depth[v]
  BY DepthAssumption DEF Nesting, Values
<1>2. Depth[v] \in Nat  BY <1>1
<1>3. Kind(v) \in Types
  BY <1>1, Forms DEF IsJson, Kind, IsArr, IsObj, IsDefinition, Types
<1>4. ASSUME IsStr(v) PROVE v = Str(v.str) /\ v.str \in STRING
  <2>1. v \in [str : STRING]
    BY <1>1, <1>4, Forms DEF IsJson, Kind, IsArr, IsObj, IsStr, IsDefinition
  <2> QED  BY <2>1 DEF Str
<1>5. ASSUME IsObj(v)
      PROVE  /\ v = Obj(v.obj) /\ DOMAIN v.obj \subseteq STRING
             /\ v.obj = [k \in DOMAIN v.obj |-> v.obj[k]]
             /\ \A k \in DOMAIN v.obj : v.obj[k] \in Values /\ Depth[v.obj[k]] < Depth[v]
  <2>1. /\ v = Obj(v.obj) /\ DOMAIN v.obj \subseteq STRING
        /\ v.obj \in [DOMAIN v.obj -> Parts(v)]
    BY <1>1, <1>5, Forms DEF IsJson, Kind, IsArr, IsObj, IsDefinition
  <2>a. ~IsArr(v)  BY <1>5 DEF IsArr, IsObj
  <2>2. Parts(v) = {v.obj[k] : k \in DOMAIN v.obj}  BY <1>5, <2>a DEF Parts
  <2> QED  BY <1>1, <2>1, <2>2
<1>6. ASSUME IsArr(v)
      PROVE  /\ v = Arr(v.arr) /\ v.arr \in Seq(Values)
             /\ \A i \in DOMAIN v.arr : v.arr[i] \in Values /\ Depth[v.arr[i]] < Depth[v]
  <2>1. v = Arr(v.arr) /\ v.arr \in Seq(Parts(v))
    BY <1>1, <1>6, Forms DEF IsJson, Kind, IsArr, IsObj, IsDefinition
  <2>2. ~IsObj(v)  BY <1>6 DEF IsArr, IsObj
  <2>3. Parts(v) = {v.arr[i] : i \in DOMAIN v.arr}  BY <1>6, <2>2 DEF Parts
  <2>4. Parts(v) \subseteq Values  BY <1>1
  <2>5. v.arr \in Seq(Values)  BY <2>1, <2>4
  <2> QED  BY <1>1, <2>1, <2>3, <2>5
<1>7. ASSUME Kind(v) = {"num"} PROVE v = Num(v.num)
  BY <1>1, <1>7, Forms DEF IsJson, Kind, IsArr, IsObj, IsDefinition
<1>8. ASSUME IsDefinition(v) PROVE v = Definition(v.matcher, v.example)
  BY <1>1, <1>8, Forms DEF IsJson, Kind, IsArr, IsObj, IsDefinition
<1> QED  BY <1>2, <1>3, <1>4, <1>5, <1>6, <1>7, <1>8

LEMMA NullFacts == Null \in Values /\ ~IsObj(Null) /\ ~IsArr(Null) /\ ~IsStr(Null)
<1>1. Null \in Values  BY DepthAssumption DEF Nesting, Values
<1> QED  BY <1>1, Forms DEF IsObj, IsArr, IsStr

(* What is looked up in a value is a value. *)
LEMMA GetFacts ==
  ASSUME NEW v \in Values, NEW key
  PROVE  /\ Get(v, key) \in Values
         /\ Items(v, key) \in Seq(Values)
         /\ Text(v, key) \in STRING
         /\ Has(v, key) => IsObj(v) /\ key \in DOMAIN v.obj /\ Get(v, key) = v.obj[key]
<1>1. Get(v, key) \in Values  BY ValueFacts, NullFacts DEF Get, Has
<1>2. Items(v, key) \in Seq(Values)
  <2>1. IsArr(Get(v, key)) => Get(v, key).arr \in Seq(Values)  BY <1>1, ValueFacts
  <2> QED  BY <2>1 DEF Items
<1>3. Text(v, key) \in STRING
  <2>1. IsStr(Get(v, key)) => Get(v, key).str \in STRING  BY <1>1, ValueFacts
  <2> QED  BY <2>1, NamesAssumption DEF Text
<1> QED  BY <1>1, <1>2, <1>3 DEF Get, Has

-----------------------------------------------------------------------------
(* Members: where they are, and that they are less deep. *)
LEMMA MemberFacts ==
  ASSUME NEW v \in Values
  PROVE  /\ Members(v) \subseteq Steps
         /\ \A s \in Members(v) : StepInto(v, s) \in Values /\ Depth[StepInto(v, s)] < Depth[v]
         /\ \A s \in Steps : s \notin Members(v) => StepInto(v, s) = Absent
         /\ Absent \notin Values
<1>1. Absent \notin Values
  <2>1. \A w \in Values : Kind(w) # {"absent"}  BY ValueFacts DEF Types
  <2> QED  BY <2>1, Forms
<1>2. CASE IsObj(v)
  <2>a. ~IsArr(v)  BY <1>2 DEF IsArr, IsObj
  <2>1. Members(v) = {Key(k) : k \in DOMAIN v.obj}  BY <1>2, <2>a DEF Members
  <2>2. ASSUME NEW k \in DOMAIN v.obj PROVE Key(k) \in Steps
    <3>1. k \in STRING  BY <1>2, ValueFacts
    <3> QED  BY <3>1 DEF Steps, Key
  <2>3. ASSUME NEW k \in DOMAIN v.obj PROVE StepInto(v, Key(k)) = v.obj[k]
    BY <1>2, Forms DEF StepInto
  <2>4. ASSUME NEW s \in Steps, s \notin Members(v) PROVE StepInto(v, s) = Absent
    <3>1. CASE DOMAIN s = {"key"}
      <4>1. s = Key(s.key)  BY <3>1 DEF Steps, Key
      <4>2. s.key \notin DOMAIN v.obj  BY <4>1, <2>1, <2>4
      <4> QED  BY <3>1, <4>2, <1>2 DEF StepInto
    <3>2. CASE DOMAIN s # {"key"}
      BY <3>2, <2>a DEF StepInto
    <3> QED  BY <3>1, <3>2
  <2>5. \A k \in DOMAIN v.obj : v.obj[k] \in Values /\ Depth[v.obj[k]] < Depth[v]
    BY <1>2, ValueFacts
  <2> QED  BY <1>1, <2>1, <2>2, <2>3, <2>4, <2>5
<1>3. CASE IsArr(v)
  <2>a. ~IsObj(v)  BY <1>3 DEF IsArr, IsObj
  <2>1. Members(v) = {Index(i) : i \in DOMAIN v.arr}  BY <1>3, <2>a DEF Members
  <2>b. DOMAIN v.arr \subseteq Nat
    <3>1. v.arr \in Seq(Values)  BY <1>3, ValueFacts
    <3> QED  BY <3>1
  <2>2. Members(v) \subseteq Steps
    BY <2>1, <2>b DEF Steps, Index
  <2>5. \A i \in DOMAIN v.arr : v.arr[i] \in Values /\ Depth[v.arr[i]] < Depth[v]
    BY <1>3, ValueFacts
  <2>3. ASSUME NEW i \in DOMAIN v.arr PROVE StepInto(v, Index(i)) = v.arr[i]
    BY <1>3, <2>a, Forms DEF StepInto
  <2>4. ASSUME NEW s \in Steps, s \notin Members(v) PROVE StepInto(v, s) = Absent
    <3>1. CASE DOMAIN s = {"index"}
      <4>1. s = Index(s.index)  BY <3>1 DEF Steps, Index
      <4>2. s.index \notin DOMAIN v.arr  BY <4>1, <2>1, <2>4
      <4> QED  BY <3>1, <4>2, <1>3, <2>a DEF StepInto
    <3>2. CASE DOMAIN s # {"index"}
      BY <3>2, <2>a DEF StepInto
    <3> QED  BY <3>1, <3>2
  <2> QED  BY <1>1, <2>1, <2>2, <2>3, <2>4, <2>5
<1>4. CASE ~IsObj(v) /\ ~IsArr(v)
  BY <1>1, <1>4 DEF Members, StepInto
<1> QED  BY <1>2, <1>3, <1>4

(* Induction over values: what holds of a value if it holds of its members *)
(* holds of every value.                                                   *)
LEMMA ValueInduction ==
  ASSUME NEW S,
         \A v \in Values : (\A s \in Members(v) : StepInto(v, s) \in S) => v \in S
  PROVE  Values \subseteq S
<1> DEFINE T == {n \in Nat : \A v \in Values : Depth[v] < n => v \in S}
<1>1. 0 \in T
  <2>1. \A v \in Values : Depth[v] \in Nat  BY ValueFacts
  <2> QED  BY <2>1
<1>2. ASSUME NEW n \in Nat, n \in T PROVE n + 1 \in T
  <2> SUFFICES ASSUME NEW v \in Values, Depth[v] < n + 1 PROVE v \in S
    OBVIOUS
  <2>1. Depth[v] \in Nat  BY ValueFacts
  <2>2. ASSUME NEW s \in Members(v) PROVE StepInto(v, s) \in S
    <3>1. StepInto(v, s) \in Values /\ Depth[StepInto(v, s)] < Depth[v]
      BY MemberFacts
    <3>2. Depth[StepInto(v, s)] \in Nat  BY <3>1, ValueFacts
    <3>3. Depth[StepInto(v, s)] < n  BY <3>1, <3>2, <2>1
    <3> QED  BY <3>1, <3>3, <1>2
  <2> QED  BY <2>2
<1>3. \A n \in Nat : n \in T
  <2> HIDE DEF T
  <2> QED  BY <1>1, <1>2, NaturalInduction
<1> SUFFICES ASSUME NEW v \in Values PROVE v \in S  OBVIOUS
<1>4. Depth[v] \in Nat  BY ValueFacts
<1>5. Depth[v] + 1 \in Nat /\ Depth[v] < Depth[v] + 1  BY <1>4
<1> QED  BY <1>3, <1>5

-----------------------------------------------------------------------------
(* What compare_structured makes of one value, given what it makes of its  *)
(* members.                                                                *)
Compared(f, c, rules) ==
  LET e == c.expected
      a == c.actual
  IN CASE IsObj(e) ->
            UNION {LET child == Append(c.path, Key(k))
                   IN IF Has(a, k)
                      THEN f[Comparison(child, e.obj[k], a.obj[k])]
                      ELSE {child} : k \in DOMAIN e.obj}
       [] IsArr(e) ->
            UNION {LET child == Append(c.path, Index(i))
                   IN IF IsArr(a) /\ i \in DOMAIN a.arr
                      THEN f[Comparison(child, e.arr[i], a.arr[i])]
                      ELSE {child} : i \in DOMAIN e.arr}
       [] OTHER -> Miss(c.path, ValuesMatch(c.path, e, a, rules))

LEMMA ComparisonFacts ==
  ASSUME NEW path \in Paths, NEW e \in Values, NEW a \in Values
  PROVE  /\ Comparison(path, e, a) \in Comparisons
         /\ Comparison(path, e, a).path = path
         /\ Comparison(path, e, a).expected = e
         /\ Comparison(path, e, a).actual = a
BY DEF Comparison, Comparisons

LEMMA ChildPath ==
  ASSUME NEW path \in Paths, NEW s \in Steps
  PROVE  Append(path, s) \in Paths
BY DEF Paths

(* The same in terms of members. *)
ByMember(f, path, e, a, rules) ==
  IF Compound(e)
  THEN UNION {IF s \in Members(a)
              THEN f[Comparison(Append(path, s), StepInto(e, s), StepInto(a, s))]
              ELSE {Append(path, s)} : s \in Members(e)}
  ELSE Miss(path, ValuesMatch(path, e, a, rules))

LEMMA ComparedMembers ==
  ASSUME NEW f, NEW path \in Paths, NEW e \in Values, NEW a \in Values, NEW rules
  PROVE  Compared(f, Comparison(path, e, a), rules) = ByMember(f, path, e, a, rules)
<1> DEFINE M(s) == IF s \in Members(a)
                   THEN f[Comparison(Append(path, s), StepInto(e, s), StepInto(a, s))]
                   ELSE {Append(path, s)}
           c == Comparison(path, e, a)
<1>0. c.path = path /\ c.expected = e /\ c.actual = a  BY ComparisonFacts
<1>1. CASE IsObj(e)
  <2>a. ~IsArr(e)  BY <1>1 DEF IsArr, IsObj
  <2>1. Members(e) = {Key(k) : k \in DOMAIN e.obj}  BY <1>1, <2>a DEF Members
  <2> DEFINE O(k) == LET child == Append(path, Key(k))
                     IN IF Has(a, k) THEN f[Comparison(child, e.obj[k], a.obj[k])]
                        ELSE {child}
  <2>2. ASSUME NEW k \in DOMAIN e.obj PROVE O(k) = M(Key(k))
    <3>1. StepInto(e, Key(k)) = e.obj[k]  BY <1>1, Forms DEF StepInto
    <3>2. Key(k) \in Members(a) <=> Has(a, k)
      <4>1. CASE IsObj(a)
        <5>1. ~IsArr(a)  BY <4>1 DEF IsArr, IsObj
        <5>2. Members(a) = {Key(l) : l \in DOMAIN a.obj}  BY <4>1, <5>1 DEF Members
        <5> QED  BY <5>2, <4>1, Forms DEF Has
      <4>2. CASE IsArr(a)
        <5>1. ~IsObj(a)  BY <4>2 DEF IsArr, IsObj
        <5>2. Members(a) = {Index(l) : l \in DOMAIN a.arr}  BY <4>2, <5>1 DEF Members
        <5>3. \A l : Index(l) # Key(k)
          <6> TAKE l
          <6>1. DOMAIN Index(l) = {"index"} /\ DOMAIN Key(k) = {"key"}  BY Forms
          <6> QED  BY <6>1
        <5> QED  BY <5>1, <5>2, <5>3 DEF Has
      <4>3. CASE ~IsArr(a) /\ ~IsObj(a)
        BY <4>3 DEF Members, Has
      <4> QED  BY <4>1, <4>2, <4>3
    <3>3. Has(a, k) => StepInto(a, Key(k)) = a.obj[k]
      BY Forms DEF StepInto, Has
    <3> QED  BY <3>1, <3>2, <3>3
  <2>3. Compared(f, c, rules) = UNION {O(k) : k \in DOMAIN e.obj}
    <3> HIDE DEF c
    <3> QED  BY <1>0, <1>1, <2>a DEF Compared
  <2>4. UNION {O(k) : k \in DOMAIN e.obj} = UNION {M(s) : s \in Members(e)}
    <3> HIDE DEF O, M
    <3> QED  BY <2>1, <2>2
  <2> QED  BY <2>3, <2>4, <1>1 DEF Compound, ByMember
<1>2. CASE IsArr(e)
  <2>a. ~IsObj(e)  BY <1>2 DEF IsArr, IsObj
  <2>1. Members(e) = {Index(i) : i \in DOMAIN e.arr}  BY <1>2, <2>a DEF Members
  <2> DEFINE O(i) == LET child == Append(path, Index(i))
                     IN IF IsArr(a) /\ i \in DOMAIN a.arr
                        THEN f[Comparison(child, e.arr[i], a.arr[i])]
                        ELSE {child}
  <2>2. ASSUME NEW i \in DOMAIN e.arr PROVE O(i) = M(Index(i))
    <3>1. StepInto(e, Index(i)) = e.arr[i]  BY <1>2, <2>a, Forms DEF StepInto
    <3>2. Index(i) \in Members(a) <=> IsArr(a) /\ i \in DOMAIN a.arr
      <4>1. CASE IsArr(a)
        <5>1. ~IsObj(a)  BY <4>1 DEF IsArr, IsObj
        <5>2. Members(a) = {Index(l) : l \in DOMAIN a.arr}  BY <4>1, <5>1 DEF Members
        <5> QED  BY <5>2, <4>1, Forms
      <4>2. CASE IsObj(a)
        <5>1. ~IsArr(a)  BY <4>2 DEF IsArr, IsObj
        <5>2. Members(a) = {Key(l) : l \in DOMAIN a.obj}  BY <4>2, <5>1 DEF Members
        <5>3. \A l : Key(l) # Index(i)
          <6> TAKE l
          <6>1. DOMAIN Index(i) = {"index"} /\ DOMAIN Key(l) = {"key"}  BY Forms
          <6> QED  BY <6>1
        <5> QED  BY <5>1, <5>2, <5>3
      <4>3. CASE ~IsArr(a) /\ ~IsObj(a)
        BY <4>3 DEF Members
      <4> QED  BY <4>1, <4>2, <4>3
    <3>3. IsArr(a) /\ i \in DOMAIN a.arr => StepInto(a, Index(i)) = a.arr[i]
      <4> SUFFICES ASSUME IsArr(a), i \in DOMAIN a.arr PROVE StepInto(a, Index(i)) = a.arr[i]
        OBVIOUS
      <4>1. ~IsObj(a)  BY DEF IsArr, IsObj
      <4> QED  BY <4>1, Forms DEF StepInto
    <3> QED  BY <3>1, <3>2, <3>3
  <2>3. Compared(f, c, rules) = UNION {O(i) : i \in DOMAIN e.arr}
    <3> HIDE DEF c
    <3> QED  BY <1>0, <1>2, <2>a DEF Compared
  <2>4. UNION {O(i) : i \in DOMAIN e.arr} = UNION {M(s) : s \in Members(e)}
    <3> HIDE DEF O, M
    <3> QED  BY <2>1, <2>2
  <2> QED  BY <2>3, <2>4, <1>2 DEF Compound, ByMember
<1>3. CASE ~Compound(e)
  <2>1. ~IsObj(e) /\ ~IsArr(e)  BY <1>3 DEF Compound
  <2>2. Compared(f, c, rules) = Miss(path, ValuesMatch(path, e, a, rules))
    <3> HIDE DEF c
    <3> QED  BY <1>0, <2>1 DEF Compared
  <2> QED  BY <2>2, <1>3 DEF ByMember
<1> QED  BY <1>1, <1>2, <1>3 DEF Compound

(* compare_structured is defined on all values. *)
LEMMA StructuredExists ==
  ASSUME NEW rules
  PROVE  \E f \in [Comparisons -> SUBSET Paths] :
           f = [c \in Comparisons |-> Compared(f, c, rules)]
<1> DEFINE A == SUBSET Paths
           F == [Comparisons -> A]
           rank == [c \in Comparisons |-> Depth[c.expected]]
           G == [f \in F |-> [c \in Comparisons |-> Compared(f, c, rules)]]
<1>1. rank \in [Comparisons -> Nat]
  <2>1. \A c \in Comparisons : c.expected \in Values  BY DEF Comparisons
  <2> QED  BY <2>1, ValueFacts
<1>2. ASSUME NEW c \in Comparisons
      PROVE  /\ c.path \in Paths /\ c.expected \in Values /\ c.actual \in Values
             /\ c = Comparison(c.path, c.expected, c.actual)
  BY DEF Comparisons, Comparison
<1>3. ASSUME NEW f \in F, NEW c \in Comparisons PROVE Compared(f, c, rules) \in A
  <2> DEFINE M(s) == IF s \in Members(c.actual)
                     THEN f[Comparison(Append(c.path, s), StepInto(c.expected, s),
                                       StepInto(c.actual, s))]
                     ELSE {Append(c.path, s)}
  <2>1. ASSUME NEW s \in Members(c.expected) PROVE M(s) \subseteq Paths
    <3>1. s \in Steps /\ StepInto(c.expected, s) \in Values  BY <1>2, MemberFacts
    <3>2. Append(c.path, s) \in Paths  BY <1>2, <3>1, ChildPath
    <3>3. ASSUME s \in Members(c.actual)
          PROVE f[Comparison(Append(c.path, s), StepInto(c.expected, s),
                             StepInto(c.actual, s))] \in A
      <4>1. StepInto(c.actual, s) \in Values  BY <1>2, <3>3, MemberFacts
      <4> QED  BY <3>1, <3>2, <4>1, ComparisonFacts
    <3> QED  BY <3>2, <3>3
  <2>2. Miss(c.path, ValuesMatch(c.path, c.expected, c.actual, rules)) \subseteq Paths
    BY <1>2 DEF Miss
  <2>3. Compared(f, c, rules) =
          IF Compound(c.expected) THEN UNION {M(s) : s \in Members(c.expected)}
          ELSE Miss(c.path, ValuesMatch(c.path, c.expected, c.actual, rules))
    BY <1>2, ComparedMembers DEF ByMember
  <2> HIDE DEF M
  <2> QED  BY <2>1, <2>2, <2>3
<1>4. G \in [F -> F]
  <2>1. ASSUME NEW f \in F PROVE [c \in Comparisons |-> Compared(f, c, rules)] \in F
    BY <1>3
  <2> HIDE DEF F
  <2> QED  BY <2>1
<1>5. ASSUME NEW f \in F, NEW g \in F, NEW c \in Comparisons,
             \A d \in Comparisons : rank[d] < rank[c] => f[d] = g[d]
      PROVE  G[f][c] = G[g][c]
  <2> DEFINE at(s) == Comparison(Append(c.path, s), StepInto(c.expected, s),
                                 StepInto(c.actual, s))
  <2>1. ASSUME NEW s \in Members(c.expected), s \in Members(c.actual)
        PROVE  f[at(s)] = g[at(s)]
    <3>1. s \in Steps /\ StepInto(c.expected, s) \in Values
          /\ Depth[StepInto(c.expected, s)] < Depth[c.expected]
      BY <1>2, MemberFacts
    <3>2. StepInto(c.actual, s) \in Values  BY <1>2, <2>1, MemberFacts
    <3>3. Append(c.path, s) \in Paths  BY <1>2, <3>1, ChildPath
    <3>4. at(s) \in Comparisons /\ at(s).expected = StepInto(c.expected, s)
      BY <3>1, <3>2, <3>3, ComparisonFacts
    <3>5. rank[at(s)] < rank[c]  BY <3>1, <3>4
    <3> QED  BY <3>4, <3>5, <1>5
  <2>2. \A h \in F : G[h][c] =
          IF Compound(c.expected)
          THEN UNION {IF s \in Members(c.actual) THEN h[at(s)] ELSE {Append(c.path, s)} :
                        s \in Members(c.expected)}
          ELSE Miss(c.path, ValuesMatch(c.path, c.expected, c.actual, rules))
    <3> SUFFICES ASSUME NEW h \in F
                 PROVE  G[h][c] =
                          IF Compound(c.expected)
                          THEN UNION {IF s \in Members(c.actual) THEN h[at(s)]
                                      ELSE {Append(c.path, s)} : s \in Members(c.expected)}
                          ELSE Miss(c.path, ValuesMatch(c.path, c.expected, c.actual, rules))
      OBVIOUS
    <3>1. G[h][c] = Compared(h, c, rules)  OBVIOUS
    <3>2. Compared(h, c, rules) = ByMember(h, c.path, c.expected, c.actual, rules)
      BY <1>2, ComparedMembers
    <3> HIDE DEF G, F, rank
    <3> QED  BY <3>1, <3>2 DEF ByMember
  <2> HIDE DEF at, G, F
  <2>3. {IF s \in Members(c.actual) THEN f[at(s)] ELSE {Append(c.path, s)} :
            s \in Members(c.expected)}
          = {IF s \in Members(c.actual) THEN g[at(s)] ELSE {Append(c.path, s)} :
               s \in Members(c.expected)}
    BY <2>1
  <2> QED  BY <2>2, <2>3
<1>6. {} \in A  OBVIOUS
<1>7. \E f \in F : f = G[f]
  <2>1. \A f, g \in F : \A c \in Comparisons :
          (\A d \in Comparisons : rank[d] < rank[c] => f[d] = g[d]) => G[f][c] = G[g][c]
    <3> HIDE DEF F, G, rank
    <3> QED  BY <1>5
  <2>2. IsRanked(G, Comparisons, A, rank)
    <3> HIDE DEF A, G, rank
    <3> QED  BY <1>1, <1>4, <2>1 DEF IsRanked
  <2> HIDE DEF A, G, rank
  <2>3. \E f : IsFixpoint(f, G, Comparisons, A)  BY <2>2, <1>6, RankedRecursion
  <2> QED  BY <2>3 DEF IsFixpoint
<1> QED  BY <1>7

(* compare_structured, one level down. *)
LEMMA CompareFacts ==
  ASSUME NEW path \in Paths, NEW e \in Values, NEW a \in Values, NEW rules
  PROVE  CompareStructured(path, e, a, rules) =
           IF Compound(e)
           THEN UNION {IF s \in Members(a)
                       THEN CompareStructured(Append(path, s), StepInto(e, s),
                                              StepInto(a, s), rules)
                       ELSE {Append(path, s)} : s \in Members(e)}
           ELSE Miss(path, ValuesMatch(path, e, a, rules))
<1> DEFINE P(f) == f = [c \in Comparisons |-> Compared(f, c, rules)]
<1>1. Structured(rules) = CHOOSE f : P(f)
  BY DEF Structured, Compared
<1>2. \E f : P(f)  BY StructuredExists
<1>3. P(Structured(rules))
  <2> HIDE DEF P
  <2> QED  BY <1>1, <1>2
<1>4. Structured(rules)[Comparison(path, e, a)]
        = Compared(Structured(rules), Comparison(path, e, a), rules)
  <2>1. Comparison(path, e, a) \in Comparisons  BY ComparisonFacts
  <2> QED  BY <1>3, <2>1
<1>5. \A p \in Paths, d, b \in Values :
        CompareStructured(p, d, b, rules) = Structured(rules)[Comparison(p, d, b)]
  BY DEF CompareStructured
<1>6. ASSUME NEW s \in Members(e), s \in Members(a)
      PROVE  Structured(rules)[Comparison(Append(path, s), StepInto(e, s), StepInto(a, s))]
               = CompareStructured(Append(path, s), StepInto(e, s), StepInto(a, s), rules)
  BY DEF CompareStructured
<1> DEFINE F == Structured(rules)
<1>7. Compared(F, Comparison(path, e, a), rules) = ByMember(F, path, e, a, rules)
  BY ComparedMembers
<1>8. CompareStructured(path, e, a, rules) = ByMember(F, path, e, a, rules)
  BY <1>4, <1>5, <1>7
<1>9. \A s \in Members(e) :
        (IF s \in Members(a)
         THEN F[Comparison(Append(path, s), StepInto(e, s), StepInto(a, s))]
         ELSE {Append(path, s)})
        = (IF s \in Members(a)
           THEN CompareStructured(Append(path, s), StepInto(e, s), StepInto(a, s), rules)
           ELSE {Append(path, s)})
  BY <1>6
<1> HIDE DEF F
<1> QED  BY <1>8, <1>9 DEF ByMember

(* A path is reported where the member is missing, or by its comparison. *)
LEMMA ReportedPaths ==
  ASSUME NEW path \in Paths, NEW e \in Values, NEW a \in Values, NEW rules, Compound(e),
         NEW x
  PROVE  x \in CompareStructured(path, e, a, rules) <=>
           \E s \in Members(e) :
             \/ /\ s \in Members(a)
                /\ x \in CompareStructured(Append(path, s), StepInto(e, s),
                                           StepInto(a, s), rules)
             \/ s \notin Members(a) /\ x = Append(path, s)
<1> DEFINE M(s) == IF s \in Members(a)
                   THEN CompareStructured(Append(path, s), StepInto(e, s),
                                          StepInto(a, s), rules)
                   ELSE {Append(path, s)}
<1>1. CompareStructured(path, e, a, rules) = UNION {M(s) : s \in Members(e)}
  BY CompareFacts
<1>2. x \in CompareStructured(path, e, a, rules) <=> \E s \in Members(e) : x \in M(s)
  <2> HIDE DEF M
  <2> QED  BY <1>1
<1> QED  BY <1>2

LEMMA ScalarCompared ==
  ASSUME NEW path \in Paths, NEW e \in Values, NEW a \in Values, NEW rules, ~Compound(e)
  PROVE  CompareStructured(path, e, a, rules) = Miss(path, ValuesMatch(path, e, a, rules))
BY CompareFacts

(* Where the members of two values are compared. *)
LEMMA MembersCompared ==
  ASSUME NEW path \in Paths, NEW e \in Values, NEW s \in Members(e)
  PROVE  /\ s \in Steps /\ Append(path, s) \in Paths /\ StepInto(e, s) \in Values
         /\ \A a \in Values : s \in Members(a) => StepInto(a, s) \in Values
BY MemberFacts, ChildPath

-----------------------------------------------------------------------------
(* Rules only relax a structural comparison. *)
LEMMA UnruledIsEqual ==
  ASSUME NEW path, NEW e, NEW a
  PROVE  /\ ValuesMatch(path, e, a, NoRules) <=> e = a
         /\ MatchType(NoRules, path) = "none"
BY DEF ValuesMatch, MatchType, NoRules

LEMMA StructuredRelaxes ==
  ASSUME NEW rules, NEW path \in Paths, NEW e \in Values, NEW a \in Values
  PROVE  CompareStructured(path, e, a, rules) \subseteq CompareStructured(path, e, a, NoRules)
<1> DEFINE S == {v \in Values : \A p \in Paths, b \in Values :
                   CompareStructured(p, v, b, rules)
                     \subseteq CompareStructured(p, v, b, NoRules)}
<1>1. ASSUME NEW v \in Values, \A s \in Members(v) : StepInto(v, s) \in S
      PROVE  v \in S
  <2> SUFFICES ASSUME NEW p \in Paths, NEW b \in Values,
                      NEW x \in CompareStructured(p, v, b, rules)
               PROVE  x \in CompareStructured(p, v, b, NoRules)
    OBVIOUS
  <2>1. CASE Compound(v)
    <3>1. PICK s \in Members(v) :
             \/ /\ s \in Members(b)
                /\ x \in CompareStructured(Append(p, s), StepInto(v, s), StepInto(b, s), rules)
             \/ s \notin Members(b) /\ x = Append(p, s)
      BY <2>1, ReportedPaths
    <3>2. Append(p, s) \in Paths /\ (s \in Members(b) => StepInto(b, s) \in Values)
      BY MembersCompared
    <3>3. s \in Members(b) =>
            x \in CompareStructured(Append(p, s), StepInto(v, s), StepInto(b, s), NoRules)
      BY <3>1, <3>2, <1>1
    <3> QED  BY <3>1, <3>3, <2>1, ReportedPaths
  <2>2. CASE ~Compound(v)
    <3>1. CompareStructured(p, v, b, rules) = Miss(p, ValuesMatch(p, v, b, rules))
      BY <2>2, ScalarCompared
    <3>2. CompareStructured(p, v, b, NoRules) = Miss(p, v = b)
      BY <2>2, ScalarCompared, UnruledIsEqual DEF Miss
    <3>3. v = b => ValuesMatch(p, v, b, rules)  BY DEF ValuesMatch, SameJsonType
    <3> QED  BY <3>1, <3>2, <3>3 DEF Miss
  <2> QED  BY <2>1, <2>2
<1>2. Values \subseteq S
  <2> HIDE DEF S
  <2> QED  BY <1>1, ValueInduction
<1> QED  BY <1>2

-----------------------------------------------------------------------------
(* What extends a value is the value, or of its kind with its members      *)
(* extended and maybe more of them.                                        *)
Widens(f, p) ==
  LET a == p.more
      b == p.less
  IN \/ a = b
     \/ /\ IsObj(a) /\ IsObj(b)
        /\ \A k \in DOMAIN b.obj : Has(a, k) /\ f[Pair(a.obj[k], b.obj[k])]
     \/ /\ IsArr(a) /\ IsArr(b) /\ Len(b.arr) <= Len(a.arr)
        /\ \A i \in DOMAIN b.arr : f[Pair(a.arr[i], b.arr[i])]

Pairs == [more : Values, less : Values]

LEMMA ExtensionExists ==
  \E f : f = [p \in Pairs |-> Widens(f, p)]
<1> DEFINE A == BOOLEAN
           F == [Pairs -> A]
           rank == [p \in Pairs |-> Depth[p.less]]
           G == [f \in F |-> [p \in Pairs |-> Widens(f, p)]]
<1>1. rank \in [Pairs -> Nat]
  <2>1. \A p \in Pairs : p.less \in Values  BY DEF Pairs
  <2> QED  BY <2>1, ValueFacts
<1>2. ASSUME NEW p \in Pairs
      PROVE  p.more \in Values /\ p.less \in Values
  BY DEF Pairs
<1>3. \A f, p : Widens(f, p) \in BOOLEAN
  BY DEF Widens
<1>4. G \in [F -> F]
  <2>1. ASSUME NEW f \in F PROVE [p \in Pairs |-> Widens(f, p)] \in F
    BY <1>3
  <2> HIDE DEF F
  <2> QED  BY <2>1
<1>5. ASSUME NEW f \in F, NEW g \in F, NEW p \in Pairs,
             \A q \in Pairs : rank[q] < rank[p] => f[q] = g[q]
      PROVE  G[f][p] = G[g][p]
  <2> DEFINE a == p.more
             b == p.less
  <2>1. ASSUME IsObj(a), IsObj(b), NEW k \in DOMAIN b.obj, Has(a, k)
        PROVE  f[Pair(a.obj[k], b.obj[k])] = g[Pair(a.obj[k], b.obj[k])]
    <3>1. b.obj[k] \in Values /\ Depth[b.obj[k]] < Depth[b]  BY <1>2, <2>1, ValueFacts
    <3>2. a.obj[k] \in Values  BY <1>2, <2>1, ValueFacts DEF Has
    <3>3. Pair(a.obj[k], b.obj[k]) \in Pairs /\ Pair(a.obj[k], b.obj[k]).less = b.obj[k]
      BY <3>1, <3>2 DEF Pair, Pairs
    <3>4. rank[Pair(a.obj[k], b.obj[k])] < rank[p]  BY <3>1, <3>3
    <3> QED  BY <3>3, <3>4, <1>5
  <2>2. ASSUME IsArr(a), IsArr(b), Len(b.arr) <= Len(a.arr), NEW i \in DOMAIN b.arr
        PROVE  f[Pair(a.arr[i], b.arr[i])] = g[Pair(a.arr[i], b.arr[i])]
    <3>1. b.arr[i] \in Values /\ Depth[b.arr[i]] < Depth[b]  BY <1>2, <2>2, ValueFacts
    <3>2. a.arr[i] \in Values
      <4>1. a.arr \in Seq(Values) /\ b.arr \in Seq(Values)  BY <1>2, <2>2, ValueFacts
      <4>2. i \in DOMAIN a.arr  BY <4>1, <2>2
      <4> QED  BY <4>1, <4>2
    <3>3. Pair(a.arr[i], b.arr[i]) \in Pairs /\ Pair(a.arr[i], b.arr[i]).less = b.arr[i]
      BY <3>1, <3>2 DEF Pair, Pairs
    <3>4. rank[Pair(a.arr[i], b.arr[i])] < rank[p]  BY <3>1, <3>3
    <3> QED  BY <3>3, <3>4, <1>5
  <2>3. Widens(f, p) <=> Widens(g, p)
    BY <2>1, <2>2 DEF Widens
  <2>4. Widens(f, p) = Widens(g, p)  BY <2>3, <1>3
  <2> HIDE DEF a, b
  <2> QED  BY <2>4
<1>6. \A f, g \in F : \A p \in Pairs :
        (\A q \in Pairs : rank[q] < rank[p] => f[q] = g[q]) => G[f][p] = G[g][p]
  <2> HIDE DEF F, G, rank
  <2> QED  BY <1>5
<1>7. IsRanked(G, Pairs, A, rank)
  <2> HIDE DEF A, G, rank
  <2> QED  BY <1>1, <1>4, <1>6 DEF IsRanked
<1>8. \E f : IsFixpoint(f, G, Pairs, A)
  <2> HIDE DEF A, G, rank
  <2>1. TRUE \in A  BY DEF A
  <2> QED  BY <2>1, <1>7, RankedRecursion
<1> QED  BY <1>8 DEF IsFixpoint

LEMMA ExtendsFacts ==
  ASSUME NEW a \in Values, NEW b \in Values
  PROVE  Extends(a, b) <=>
           \/ a = b
           \/ /\ Compound(b) /\ Kind(a) = Kind(b)
              /\ \A s \in Members(b) :
                   s \in Members(a) /\ Extends(StepInto(a, s), StepInto(b, s))
<1> DEFINE P(f) == f = [p \in Pairs |-> Widens(f, p)]
<1>1. Extension = CHOOSE f : P(f)
  BY DEF Extension, Widens, Pairs
<1>2. P(Extension)
  <2>1. \E f : P(f)  BY ExtensionExists
  <2> HIDE DEF P
  <2> QED  BY <1>1, <2>1
<1>3. Pair(a, b) \in Pairs /\ Pair(a, b).more = a /\ Pair(a, b).less = b
  BY DEF Pair, Pairs
<1>4. Extends(a, b) <=> Widens(Extension, Pair(a, b))
  BY <1>2, <1>3 DEF Extends
<1>5. Extends(a, b) <=>
        \/ a = b
        \/ /\ IsObj(a) /\ IsObj(b)
           /\ \A k \in DOMAIN b.obj : Has(a, k) /\ Extends(a.obj[k], b.obj[k])
        \/ /\ IsArr(a) /\ IsArr(b) /\ Len(b.arr) <= Len(a.arr)
           /\ \A i \in DOMAIN b.arr : Extends(a.arr[i], b.arr[i])
  BY <1>3, <1>4 DEF Widens, Extends
<1>6. CASE IsObj(b) /\ IsObj(a)
  <2>1. ~IsArr(b) /\ ~IsArr(a)  BY <1>6 DEF IsObj, IsArr
  <2>2. Members(b) = {Key(k) : k \in DOMAIN b.obj} /\ Members(a) = {Key(k) : k \in DOMAIN a.obj}
    BY <1>6, <2>1 DEF Members
  <2>3. \A k \in DOMAIN b.obj : Key(k) \in Members(b) /\ StepInto(b, Key(k)) = b.obj[k]
    BY <1>6, <2>2, Forms DEF StepInto
  <2>4. \A k : Key(k) \in Members(a) <=> Has(a, k)
    BY <1>6, <2>2, Forms DEF Has
  <2>5. \A k : Has(a, k) => StepInto(a, Key(k)) = a.obj[k]
    BY <1>6, Forms DEF StepInto, Has
  <2> QED  BY <1>5, <1>6, <2>1, <2>2, <2>3, <2>4, <2>5 DEF Compound, IsObj
<1>7. CASE IsArr(b) /\ IsArr(a)
  <2>1. ~IsObj(b) /\ ~IsObj(a)  BY <1>7 DEF IsObj, IsArr
  <2>2. Members(b) = {Index(i) : i \in DOMAIN b.arr} /\ Members(a) = {Index(i) : i \in DOMAIN a.arr}
    BY <1>7, <2>1 DEF Members
  <2>3. \A i \in DOMAIN b.arr : Index(i) \in Members(b) /\ StepInto(b, Index(i)) = b.arr[i]
    BY <1>7, <2>1, <2>2, Forms DEF StepInto
  <2>4. \A i : Index(i) \in Members(a) <=> i \in DOMAIN a.arr
    BY <2>2, Forms
  <2>5. \A i \in DOMAIN a.arr : StepInto(a, Index(i)) = a.arr[i]
    BY <1>7, <2>1, Forms DEF StepInto
  <2>6. Len(b.arr) <= Len(a.arr) <=> \A i \in DOMAIN b.arr : i \in DOMAIN a.arr
    <3>1. a.arr \in Seq(Values) /\ b.arr \in Seq(Values)  BY <1>7, ValueFacts
    <3>2. Len(a.arr) \in Nat /\ Len(b.arr) \in Nat
          /\ DOMAIN a.arr = 1..Len(a.arr) /\ DOMAIN b.arr = 1..Len(b.arr)
      BY <3>1
    <3>3. ASSUME \A i \in DOMAIN b.arr : i \in DOMAIN a.arr PROVE Len(b.arr) <= Len(a.arr)
      <4>1. CASE Len(b.arr) = 0  BY <4>1, <3>2
      <4>2. CASE Len(b.arr) # 0
        <5>1. Len(b.arr) \in 1..Len(b.arr)  BY <4>2, <3>2
        <5> QED  BY <5>1, <3>2, <3>3
      <4> QED  BY <4>1, <4>2
    <3>4. ASSUME Len(b.arr) <= Len(a.arr) PROVE \A i \in DOMAIN b.arr : i \in DOMAIN a.arr
      BY <3>2, <3>4
    <3> QED  BY <3>3, <3>4
  <2> QED  BY <1>5, <1>7, <2>1, <2>2, <2>3, <2>4, <2>5, <2>6 DEF Compound, IsArr
<1>8. CASE ~(IsObj(b) /\ IsObj(a)) /\ ~(IsArr(b) /\ IsArr(a))
  <2>1. ~(Compound(b) /\ Kind(a) = Kind(b))  BY <1>8 DEF Compound, IsObj, IsArr
  <2> QED  BY <1>5, <1>8, <2>1
<1> QED  BY <1>6, <1>7, <1>8

-----------------------------------------------------------------------------
(* A structural comparison accepts what is expected itself, ...            *)
LEMMA StructuredAcceptsItself ==
  ASSUME NEW rules, NEW path \in Paths, NEW e \in Values
  PROVE  CompareStructured(path, e, e, rules) = {}
<1> DEFINE S == {v \in Values : \A p \in Paths : CompareStructured(p, v, v, rules) = {}}
<1>1. ASSUME NEW v \in Values, \A s \in Members(v) : StepInto(v, s) \in S
      PROVE  v \in S
  <2> SUFFICES ASSUME NEW p \in Paths PROVE CompareStructured(p, v, v, rules) = {}
    OBVIOUS
  <2>1. CASE Compound(v)
    <3>1. ASSUME NEW s \in Members(v)
          PROVE CompareStructured(Append(p, s), StepInto(v, s), StepInto(v, s), rules) = {}
      BY <1>1, MembersCompared
    <3> QED  BY <2>1, <3>1, ReportedPaths
  <2>2. CASE ~Compound(v)
    BY <2>2, ScalarCompared DEF Miss, ValuesMatch, SameJsonType
  <2> QED  BY <2>1, <2>2
<1>2. Values \subseteq S
  <2> HIDE DEF S
  <2> QED  BY <1>1, ValueInduction
<1> QED  BY <1>2

LEMMA ExtendsItself == \A v \in Values : Extends(v, v)
BY ExtendsFacts

(* ... and what extends something that it accepts.                         *)
LEMMA StructuredIgnoresExtras ==
  ASSUME NEW rules, NEW path \in Paths, NEW e \in Values, NEW a \in Values, NEW b \in Values,
         Extends(a, b), CompareStructured(path, e, b, rules) = {}
  PROVE  CompareStructured(path, e, a, rules) = {}
<1> DEFINE S == {v \in Values : \A p \in Paths, c, d \in Values :
                   Extends(c, d) /\ CompareStructured(p, v, d, rules) = {}
                     => CompareStructured(p, v, c, rules) = {}}
<1>1. ASSUME NEW v \in Values, \A s \in Members(v) : StepInto(v, s) \in S
      PROVE  v \in S
  <2> SUFFICES ASSUME NEW p \in Paths, NEW c \in Values, NEW d \in Values,
                      Extends(c, d), CompareStructured(p, v, d, rules) = {}
               PROVE  CompareStructured(p, v, c, rules) = {}
    OBVIOUS
  <2>1. CASE Compound(v)
    <3>1. SUFFICES ASSUME NEW s \in Members(v)
                   PROVE  /\ s \in Members(c)
                          /\ CompareStructured(Append(p, s), StepInto(v, s),
                                               StepInto(c, s), rules) = {}
      BY <2>1, ReportedPaths
    <3>2. /\ s \in Members(d)
          /\ CompareStructured(Append(p, s), StepInto(v, s), StepInto(d, s), rules) = {}
      BY <2>1, ReportedPaths
    <3>3. s \in Members(c) /\ (c = d \/ Extends(StepInto(c, s), StepInto(d, s)))
      BY <3>2, ExtendsFacts
    <3>4. Append(p, s) \in Paths /\ StepInto(c, s) \in Values /\ StepInto(d, s) \in Values
      BY <3>2, <3>3, MembersCompared
    <3> QED  BY <1>1, <3>2, <3>3, <3>4
  <2>2. CASE ~Compound(v)
    <3>1. ValuesMatch(p, v, d, rules)  BY <2>2, ScalarCompared DEF Miss
    <3>2. Kind(v) = Kind(d)  BY <3>1 DEF ValuesMatch, SameJsonType
    <3>3. ~Compound(d)  BY <2>2, <3>2 DEF Compound, IsObj, IsArr
    <3>4. c = d  BY <3>3, ExtendsFacts
    <3> QED  BY <3>4
  <2> QED  BY <2>1, <2>2
<1>2. Values \subseteq S
  <2> HIDE DEF S
  <2> QED  BY <1>1, ValueInduction
<1> QED  BY <1>2

(* An object that accepts null accepts everything: it is empty. *)
LEMMA EmptyAcceptsAll ==
  ASSUME NEW rules, NEW path \in Paths, NEW e \in Values, NEW a \in Values,
         IsObj(e), CompareStructured(path, e, Null, rules) = {}
  PROVE  CompareStructured(path, e, a, rules) = {}
<1>1. Members(Null) = {}  BY NullFacts DEF Members
<1>2. Members(e) = {}
  <2> SUFFICES ASSUME NEW s \in Members(e) PROVE FALSE  OBVIOUS
  <2>1. Compound(e)  BY DEF Compound
  <2>2. Append(path, s) \in CompareStructured(path, e, Null, rules)
    <3>1. Null \in Values /\ s \notin Members(Null)  BY <1>1, NullFacts
    <3> HIDE DEF Null
    <3> QED  BY <2>1, <3>1, ReportedPaths
  <2> QED  BY <2>2
<1> QED  BY <1>2, ReportedPaths DEF Compound

-----------------------------------------------------------------------------
(* What is read of a payload that extends another. *)
LEMMA ExtendedGet ==
  ASSUME NEW a \in Values, NEW b \in Values, Extends(a, b), NEW key
  PROVE  /\ Get(b, key) = Null \/ Extends(Get(a, key), Get(b, key))
         /\ Has(b, key) => Has(a, key) /\ Extends(Get(a, key), Get(b, key))
<1>1. CASE a = b
  <2>1. Get(b, key) \in Values  BY GetFacts
  <2> QED  BY <1>1, <2>1, ExtendsItself
<1>2. CASE a # b /\ Has(b, key)
  <2>1. IsObj(b) /\ key \in DOMAIN b.obj  BY <1>2 DEF Has
  <2>2. ~IsArr(b)  BY <2>1 DEF IsObj, IsArr
  <2>3. Key(key) \in Members(b)  BY <2>1, <2>2 DEF Members
  <2>4. /\ IsObj(a) /\ ~IsArr(a)
        /\ Key(key) \in Members(a)
        /\ Extends(StepInto(a, Key(key)), StepInto(b, Key(key)))
    BY <1>2, <2>1, <2>2, <2>3, ExtendsFacts DEF IsObj, IsArr
  <2>5. Has(a, key)
    <3>1. \E k \in DOMAIN a.obj : Key(k) = Key(key)  BY <2>4 DEF Members
    <3> QED  BY <3>1, <2>4, Forms DEF Has
  <2>6. StepInto(a, Key(key)) = Get(a, key) /\ StepInto(b, Key(key)) = Get(b, key)
    BY <2>1, <2>4, <2>5, <1>2, Forms DEF StepInto, Get, Has
  <2> QED  BY <2>4, <2>5, <2>6
<1>3. CASE ~Has(b, key)
  BY <1>3 DEF Get
<1> QED  BY <1>1, <1>2, <1>3

LEMMA ExtendedText ==
  ASSUME NEW a \in Values, NEW b \in Values, Extends(a, b), NEW key, IsStr(Get(b, key))
  PROVE  Get(a, key) = Get(b, key) /\ Text(a, key) = Text(b, key)
<1>1. Extends(Get(a, key), Get(b, key))  BY ExtendedGet, NullFacts
<1>2. ~Compound(Get(b, key))  BY DEF Compound, IsObj, IsArr, IsStr
<1>3. Get(a, key) = Get(b, key)  BY <1>1, <1>2, GetFacts, ExtendsFacts
<1> QED  BY <1>3 DEF Text

LEMMA ExtendedItems ==
  ASSUME NEW a \in Values, NEW b \in Values, Extends(a, b), NEW key
  PROVE  /\ Len(Items(b, key)) <= Len(Items(a, key))
         /\ \A i \in DOMAIN Items(b, key) :
              i \in DOMAIN Items(a, key) /\ Extends(Items(a, key)[i], Items(b, key)[i])
<1> DEFINE x == Get(a, key)
           y == Get(b, key)
<1>0. x \in Values /\ y \in Values
      /\ Items(a, key) \in Seq(Values) /\ Items(b, key) \in Seq(Values)
  BY GetFacts
<1>1. CASE IsArr(y)
  <2>1. Extends(x, y)  BY <1>1, ExtendedGet, NullFacts
  <2>2. CASE x = y
    <3>1. Items(a, key) = Items(b, key)  BY <2>2 DEF Items
    <3>2. Len(Items(b, key)) \in Nat  BY <1>0
    <3>3. \A i \in DOMAIN Items(b, key) : Items(b, key)[i] \in Values  BY <1>0
    <3> QED  BY <3>1, <3>2, <3>3, ExtendsItself
  <2>3. CASE x # y
    <3>1. /\ Kind(x) = Kind(y)
          /\ \A s \in Members(y) : s \in Members(x) /\ Extends(StepInto(x, s), StepInto(y, s))
      BY <1>0, <2>1, <2>3, ExtendsFacts
    <3>2. IsArr(x) /\ ~IsObj(x) /\ ~IsObj(y)  BY <3>1, <1>1 DEF IsArr, IsObj
    <3>3. Items(a, key) = x.arr /\ Items(b, key) = y.arr  BY <1>1, <3>2 DEF Items
    <3>4. ASSUME NEW i \in DOMAIN y.arr
          PROVE  i \in DOMAIN x.arr /\ Extends(x.arr[i], y.arr[i])
      <4>1. Index(i) \in Members(y)  BY <1>1, <3>2 DEF Members
      <4>2. Index(i) \in Members(x) /\ Extends(StepInto(x, Index(i)), StepInto(y, Index(i)))
        BY <4>1, <3>1
      <4>3. i \in DOMAIN x.arr
        <5>1. \E j \in DOMAIN x.arr : Index(j) = Index(i)  BY <4>2, <3>2 DEF Members
        <5> QED  BY <5>1, Forms
      <4>4. StepInto(x, Index(i)) = x.arr[i] /\ StepInto(y, Index(i)) = y.arr[i]
        BY <4>3, <1>1, <3>2, Forms DEF StepInto
      <4> QED  BY <4>2, <4>3, <4>4
    <3>5. Len(y.arr) <= Len(x.arr)
      <4>1. Len(x.arr) \in Nat /\ Len(y.arr) \in Nat
            /\ DOMAIN x.arr = 1..Len(x.arr) /\ DOMAIN y.arr = 1..Len(y.arr)
        BY <1>0, <3>3
      <4>2. CASE Len(y.arr) = 0  BY <4>1, <4>2
      <4>3. CASE Len(y.arr) # 0
        <5>1. Len(y.arr) \in DOMAIN y.arr  BY <4>1, <4>3
        <5>2. Len(y.arr) \in 1..Len(x.arr)  BY <5>1, <3>4, <4>1
        <5> QED  BY <5>2, <4>1
      <4> QED  BY <4>2, <4>3
    <3> QED  BY <3>3, <3>4, <3>5
  <2> QED  BY <2>2, <2>3
<1>2. CASE ~IsArr(y)
  <2>1. Items(b, key) = <<>>  BY <1>2 DEF Items
  <2>2. Len(<<>>) = 0 /\ DOMAIN <<>> = {} /\ Len(Items(a, key)) \in Nat  BY <1>0
  <2> QED  BY <2>1, <2>2
<1> QED  BY <1>1, <1>2

(* A member that is expected to be an object, where it is compared as null *)
(* when it is missing.                                                     *)
LEMMA ExtendedObject ==
  ASSUME NEW a \in Values, NEW b \in Values, Extends(a, b), NEW key,
         NEW rules, NEW path \in Paths, NEW e \in Values, IsObj(e),
         CompareStructured(path, e, Get(b, key), rules) = {}
  PROVE  CompareStructured(path, e, Get(a, key), rules) = {}
<1>0. Get(a, key) \in Values /\ Get(b, key) \in Values  BY GetFacts
<1>1. CASE Get(b, key) = Null  BY <1>0, <1>1, EmptyAcceptsAll
<1>2. CASE Extends(Get(a, key), Get(b, key))
  BY <1>0, <1>2, StructuredIgnoresExtras
<1> QED  BY <1>1, <1>2, ExtendedGet

-----------------------------------------------------------------------------
(* What is asked, and what is answered. *)
LEMMA QuestionFacts ==
  ASSUME NEW q \in Questions
  PROVE  /\ q.op \in Operations /\ q.side \in {"request", "response"}
         /\ q.expected \in Values /\ q.actual \in Values
         /\ q = [op |-> q.op, side |-> q.side, expected |-> q.expected,
                 actual |-> q.actual, rules |-> q.rules]
BY QuestionsAssumption

OutcomeOf(op, side, e, a, rules) ==
  IF side = "response" THEN CompareResponse(op, e, a, rules) ELSE MatchRequest(op, e, a, rules)

LEMMA AskFacts ==
  ASSUME NEW q \in Questions
  PROVE  /\ Outcome(q) = OutcomeOf(q.op, q.side, q.expected, q.actual, q.rules)
         /\ \A r : Ask(q, "rules", r) = OutcomeOf(q.op, q.side, q.expected, q.actual, r)
         /\ \A a : Ask(q, "actual", a) = OutcomeOf(q.op, q.side, q.expected, a, q.rules)
<1>1. \A r : [q EXCEPT !["rules"] = r]
               = [op |-> q.op, side |-> q.side, expected |-> q.expected,
                  actual |-> q.actual, rules |-> r]
  BY QuestionFacts
<1>2. \A a : [q EXCEPT !["actual"] = a]
               = [op |-> q.op, side |-> q.side, expected |-> q.expected,
                  actual |-> a, rules |-> q.rules]
  BY QuestionFacts
<1>3. \A r : Ask(q, "rules", r) = OutcomeOf(q.op, q.side, q.expected, q.actual, r)
  BY <1>1 DEF Ask, Outcome, OutcomeOf
<1>4. \A a : Ask(q, "actual", a) = OutcomeOf(q.op, q.side, q.expected, a, q.rules)
  BY <1>2 DEF Ask, Outcome, OutcomeOf
<1> QED  BY <1>3, <1>4 DEF Outcome, OutcomeOf

(* The paths of the parts of a result. *)
LEMMA KnownPaths ==
  /\ <<>> \in Paths
  /\ \A k \in {"error", "content", "structuredContent", "isError", "arguments", "name"} :
       <<Key(k)>> \in Paths
  /\ \A k \in {"code", "message", "data"} : <<Key("error"), Key(k)>> \in Paths
  /\ \A list \in {"tools", "resources", "prompts"}, field \in {"name", "uri"}, k \in STRING :
       /\ <<Item(list, field, k)>> \in Paths
       /\ Append(<<Item(list, field, k)>>, Key("inputSchema")) \in Paths
<1>1. \A k \in STRING : Key(k) \in Steps  BY DEF Key, Steps
<1>2. \A list \in STRING, field \in STRING, k \in STRING : Item(list, field, k) \in Steps
  BY DEF Item, Steps
<1>3. \A s \in Steps : <<s>> \in Paths  BY DEF Paths
<1>4. \A s, t \in Steps : <<s, t>> \in Paths /\ Append(<<s>>, t) \in Paths  BY DEF Paths
<1>5. <<>> \in Paths  BY DEF Paths
<1> HIDE DEF Key, Item
<1>6. \A k \in {"error", "content", "structuredContent", "isError", "arguments", "name"} :
        <<Key(k)>> \in Paths
  BY <1>1, <1>3, NamesAssumption
<1>7. \A k \in {"code", "message", "data"} : <<Key("error"), Key(k)>> \in Paths
  BY <1>1, <1>4, NamesAssumption
<1>8. \A list \in {"tools", "resources", "prompts"}, field \in {"name", "uri"}, k \in STRING :
       Item(list, field, k) \in Steps /\ Key("inputSchema") \in Steps
  BY <1>1, <1>2, NamesAssumption
<1> QED  BY <1>3, <1>4, <1>5, <1>6, <1>7, <1>8

(* A list operation: what it finds, and what it reports. *)
LEMMA ListFacts ==
  /\ \A op \in {"tools/list", "resources/list", "prompts/list"} : ListOf(op) # <<>>
  /\ ListOf("tools/list")[1] = "tools" /\ ListOf("tools/list")[2] = "name"
  /\ ListOf("resources/list")[1] = "resources" /\ ListOf("resources/list")[2] = "uri"
  /\ ListOf("prompts/list")[1] = "prompts" /\ ListOf("prompts/list")[2] = "name"
  /\ \A op \in Operations : ListOf(op) # <<>> =>
       op \in {"tools/list", "resources/list", "prompts/list"}
BY DEF ListOf, Operations

(* What is demanded of a listed item once it is found. *)
Tested(op, path, e, a, rules) ==
  IF op = "tools/list"
  THEN IF Has(e, "inputSchema")
       THEN CompareStructured(Append(path, Key("inputSchema")),
              e.obj["inputSchema"], Get(a, "inputSchema"), NoRules)
       ELSE {}
  ELSE CompareStructured(path, e, a, rules)

ListedAlike(op, es, xs, rules) ==
  UNION {LET k == Text(es[i], ListOf(op)[2])
             path == <<Item(ListOf(op)[1], ListOf(op)[2], k)>>
             found == Found(xs, ListOf(op)[2], k)
         IN IF found = {} THEN {path}
            ELSE UNION {Tested(op, path, es[i], xs[j], rules) : j \in found}
           : i \in DOMAIN es}

LEMMA ListOutcome ==
  ASSUME NEW op \in {"tools/list", "resources/list", "prompts/list"}, NEW e, NEW a, NEW rules
  PROVE  CompareResponse(op, e, a, rules)
           = ListedAlike(op, Items(e, ListOf(op)[1]), Items(a, ListOf(op)[1]), rules)
<1>1. CASE op = "tools/list"
  BY <1>1, ListFacts DEF CompareResponse, CompareToolsList, CompareItems, ListedAlike, Tested
<1>2. CASE op = "resources/list"
  BY <1>2, ListFacts DEF CompareResponse, CompareSubsetList, CompareItems, ListedAlike, Tested
<1>3. CASE op = "prompts/list"
  BY <1>3, ListFacts DEF CompareResponse, CompareSubsetList, CompareItems, ListedAlike, Tested
<1> QED  BY <1>1, <1>2, <1>3

(* The item that is found is the first of those that have the key. *)
LEMMA FoundFacts ==
  ASSUME NEW items \in Seq(Values), NEW field, NEW k
  PROVE  /\ \A j \in Found(items, field, k) : j \in DOMAIN items /\ items[j] \in Values
                                              /\ Get(items[j], field) = Str(k)
         /\ \A j \in DOMAIN items : Get(items[j], field) = Str(k) =>
              \E i \in Found(items, field, k) : i <= j
         /\ \A i, j \in Found(items, field, k) : i = j
<1> DEFINE same == {j \in DOMAIN items : Get(items[j], field) = Str(k)}
<1>1. same \in SUBSET Nat  OBVIOUS
<1>2. Found(items, field, k) = {j \in same : \A l \in same : j <= l}
  BY DEF Found
<1>3. ASSUME NEW j \in same PROVE \E i \in Found(items, field, k) : i <= j
  <2> HIDE DEF same
  <2>1. PICK i \in same : \A l \in same : i <= l
    BY <1>1, <1>3, LeastNatural
  <2> QED  BY <1>2, <2>1
<1>4. \A i, j \in Found(items, field, k) : i = j
  <2> HIDE DEF same
  <2>1. \A i, j \in Found(items, field, k) : i \in Nat /\ j \in Nat /\ i <= j /\ j <= i
    BY <1>1, <1>2
  <2> QED  BY <2>1
<1> QED  BY <1>2, <1>3, <1>4

ItemPath(op, k) == <<Item(ListOf(op)[1], ListOf(op)[2], k)>>

LEMMA ListedReports ==
  ASSUME NEW op, NEW es, NEW xs, NEW rules, NEW x
  PROVE  x \in ListedAlike(op, es, xs, rules) <=>
           \E i \in DOMAIN es :
             LET k == Text(es[i], ListOf(op)[2])
             IN \/ Found(xs, ListOf(op)[2], k) = {} /\ x = ItemPath(op, k)
                \/ \E j \in Found(xs, ListOf(op)[2], k) :
                     x \in Tested(op, ItemPath(op, k), es[i], xs[j], rules)
<1> DEFINE K(i) == Text(es[i], ListOf(op)[2])
           F(i) == Found(xs, ListOf(op)[2], K(i))
           M(i) == IF F(i) = {} THEN {ItemPath(op, K(i))}
                   ELSE UNION {Tested(op, ItemPath(op, K(i)), es[i], xs[j], rules) : j \in F(i)}
<1>1. ListedAlike(op, es, xs, rules) = UNION {M(i) : i \in DOMAIN es}
  BY DEF ListedAlike, ItemPath
<1>2. x \in UNION {M(i) : i \in DOMAIN es} <=> \E i \in DOMAIN es : x \in M(i)
  <2> HIDE DEF M
  <2> QED  OBVIOUS
<1>3. \A i \in DOMAIN es : x \in M(i) <=>
        \/ F(i) = {} /\ x = ItemPath(op, K(i))
        \/ \E j \in F(i) : x \in Tested(op, ItemPath(op, K(i)), es[i], xs[j], rules)
  <2> HIDE DEF F, K
  <2> QED  OBVIOUS
<1> HIDE DEF M
<1> QED  BY <1>1, <1>2, <1>3

LEMMA ItemPathFacts ==
  ASSUME NEW op \in {"tools/list", "resources/list", "prompts/list"}, NEW k \in STRING
  PROVE  ItemPath(op, k) \in Paths /\ Append(ItemPath(op, k), Key("inputSchema")) \in Paths
BY ListFacts, KnownPaths DEF ItemPath

-----------------------------------------------------------------------------
(* Rules by type only relax, part by part. *)
LEMMA ByTypeFacts ==
  ASSUME NEW rules, ByType(rules), NEW path, NEW e, NEW a
  PROVE  /\ RuledOrSameType(path, e, a, rules) <=> SameJsonType(e, a)
         /\ RuledOrSameType(path, e, a, NoRules) <=> SameJsonType(e, a)
         /\ ValuesMatch(path, e, a, NoRules) => ValuesMatch(path, e, a, rules)
<1>1. MatchType(rules, path) \in {"none", "type"}  BY DEF ByType, MatchType
<1>2. e = a => ValuesMatch(path, e, a, rules)  BY DEF ValuesMatch, SameJsonType
<1> QED  BY <1>1, <1>2, UnruledIsEqual DEF RuledOrSameType, ValuesMatch

LEMMA MissFacts == \A path, x, ok : x \in Miss(path, ok) <=> ~ok /\ x = path
BY DEF Miss

LEMMA ErrorRelaxes ==
  ASSUME NEW rules, ByType(rules), NEW e \in Values, NEW a \in Values
  PROVE  CompareError(e, a, rules) \subseteq CompareError(e, a, NoRules)
<1> DEFINE ee == Get(e, "error")
           ae == Get(a, "error")
           at == <<Key("error"), Key("message")>>
           to == <<Key("error"), Key("data")>>
<1>1. RuledOrSameType(at, Get(ee, "message"), Get(ae, "message"), rules)
        <=> RuledOrSameType(at, Get(ee, "message"), Get(ae, "message"), NoRules)
  BY ByTypeFacts
<1>2. Has(ee, "data") =>
        CompareStructured(to, ee.obj["data"], Get(ae, "data"), rules)
          \subseteq CompareStructured(to, ee.obj["data"], Get(ae, "data"), NoRules)
  <2>1. ee \in Values /\ ae \in Values  BY GetFacts
  <2>2. Has(ee, "data") => ee.obj["data"] \in Values  BY <2>1, GetFacts
  <2>3. Get(ae, "data") \in Values  BY <2>1, GetFacts
  <2>4. to \in Paths  BY KnownPaths
  <2> HIDE DEF ee, ae, to
  <2> QED  BY <2>2, <2>3, <2>4, StructuredRelaxes
<1> QED  BY <1>1, <1>2 DEF CompareError, Miss

LEMMA ShapedRelaxes ==
  ASSUME NEW rules, ByType(rules), NEW e \in Values, NEW a \in Values,
         NEW success, NEW unruled, success \subseteq unruled
  PROVE  Shaped(e, a, rules, success) \subseteq Shaped(e, a, NoRules, unruled)
BY ErrorRelaxes DEF Shaped

LEMMA BlockRelaxes ==
  ASSUME NEW rules, ByType(rules), NEW i, NEW e \in Values, NEW a \in Values
  PROVE  CompareContentBlock(i, e, a, rules) \subseteq CompareContentBlock(i, e, a, NoRules)
<1> DEFINE base == <<Key("content"), Index(i)>>
           at(k) == Append(base, Key(k))
           type == Text(e, "type")
           Alike(r) == ValuesMatch(at("type"), Str(type), Str(Text(a, "type")), r)
           Same(k, r) == Miss(at(k), ValuesMatch(at(k), Get(e, k), Get(a, k), r))
           uri == <<Key("content"), Index(i), Key("resource"), Key("uri")>>
<1>1. MatchType(rules, at("type")) = "none"
  <2>1. \A x, y, z : /\ Len(Append(<<x, y>>, z)) = 3
                     /\ Append(<<x, y>>, z)[1] = x /\ Append(<<x, y>>, z)[3] = z
    <3> TAKE x, y, z
    <3>1. <<x, y>> \in Seq({x, y, z}) /\ Len(<<x, y>>) = 2  OBVIOUS
    <3> QED  BY <3>1
  <2>2. at("type") \notin DOMAIN rules
    <3> HIDE DEF Key, Index
    <3>1. Len(at("type")) = 3 /\ at("type")[1] = Key("content") /\ at("type")[3] = Key("type")
      BY <2>1
    <3> QED  BY <3>1 DEF ByType
  <2> QED  BY <2>2 DEF MatchType
<1>2. Alike(rules) <=> Alike(NoRules)
  BY <1>1, UnruledIsEqual DEF ValuesMatch
<1>3. \A k : Same(k, rules) \subseteq Same(k, NoRules)
  BY ByTypeFacts DEF Miss
<1>4. RuledOrSameType(at("data"), Get(e, "data"), Get(a, "data"), rules)
        <=> RuledOrSameType(at("data"), Get(e, "data"), Get(a, "data"), NoRules)
  BY ByTypeFacts
<1>5. ValuesMatch(uri, Get(Get(e, "resource"), "uri"), Get(Get(a, "resource"), "uri"), NoRules)
        => ValuesMatch(uri, Get(Get(e, "resource"), "uri"), Get(Get(a, "resource"), "uri"), rules)
  BY ByTypeFacts
<1> DEFINE Block(r) ==
             IF ~Alike(r) THEN {at("type")}
             ELSE CASE type = "text" -> Same("text", r)
                    [] type = "image" ->
                         Same("mimeType", r)
                         \cup Miss(at("data"), RuledOrSameType(at("data"),
                                     Get(e, "data"), Get(a, "data"), r))
                    [] type = "resource" ->
                         Miss(uri, ValuesMatch(uri, Get(Get(e, "resource"), "uri"),
                                     Get(Get(a, "resource"), "uri"), r))
                    [] OTHER -> {at("type")}
<1>6. \A r : CompareContentBlock(i, e, a, r) = Block(r)
  BY DEF CompareContentBlock
<1>7. Block(rules) \subseteq Block(NoRules)
  <2> HIDE DEF Alike, Same, at, type, uri
  <2> QED  BY <1>2, <1>3, <1>4, <1>5 DEF Miss
<1> HIDE DEF Block
<1> QED  BY <1>6, <1>7

LEMMA Within ==
  ASSUME NEW s \in Seq(Values), NEW t \in Seq(Values), ~(Len(s) < Len(t))
  PROVE  \A i \in DOMAIN t : i \in DOMAIN s /\ s[i] \in Values /\ t[i] \in Values
OBVIOUS

LEMMA ContentRelaxes ==
  ASSUME NEW rules, ByType(rules), NEW e \in Values, NEW a \in Values
  PROVE  CompareContent(e, a, rules) \subseteq CompareContent(e, a, NoRules)
<1> DEFINE es == Items(e, "content")
           xs == Items(a, "content")
           B(i, r) == CompareContentBlock(i, es[i], xs[i], r)
<1>1. es \in Seq(Values) /\ xs \in Seq(Values)  BY GetFacts
<1>2. CASE Len(xs) < Len(es)
  BY <1>2 DEF CompareContent
<1>3. CASE ~(Len(xs) < Len(es))
  <2>1. ASSUME NEW i \in DOMAIN es PROVE B(i, rules) \subseteq B(i, NoRules)
    <3> HIDE DEF es, xs
    <3>1. es[i] \in Values /\ xs[i] \in Values  BY <1>1, <1>3, Within
    <3> QED  BY <3>1, BlockRelaxes
  <2>2. \A r : CompareContent(e, a, r) = UNION {B(i, r) : i \in DOMAIN es}
    BY <1>3 DEF CompareContent
  <2> HIDE DEF B, es
  <2> QED  BY <2>1, <2>2
<1> QED  BY <1>2, <1>3

LEMMA ToolsCallRelaxes ==
  ASSUME NEW rules, ByType(rules), NEW e \in Values, NEW a \in Values
  PROVE  CompareToolsCall(e, a, rules) \subseteq CompareToolsCall(e, a, NoRules)
<1> DEFINE sc == <<Key("structuredContent")>>
           S(r) == CompareStructured(sc, e.obj["structuredContent"],
                                     Get(a, "structuredContent"), r)
           Succeeded(r) ==
             CompareContent(e, a, r)
             \cup Miss(<<Key("isError")>>, Flag(e, "isError") = Flag(a, "isError"))
             \cup IF Has(e, "structuredContent") THEN S(r) ELSE {}
<1>1. Has(e, "structuredContent") => S(rules) \subseteq S(NoRules)
  <2>1. Has(e, "structuredContent") => e.obj["structuredContent"] \in Values  BY GetFacts
  <2>2. Get(a, "structuredContent") \in Values /\ sc \in Paths  BY GetFacts, KnownPaths
  <2> HIDE DEF sc
  <2> QED  BY <2>1, <2>2, StructuredRelaxes
<1>2. Succeeded(rules) \subseteq Succeeded(NoRules)
  <2> HIDE DEF S
  <2> QED  BY <1>1, ContentRelaxes
<1>3. \A r : CompareToolsCall(e, a, r) = Shaped(e, a, r, Succeeded(r))
  BY DEF CompareToolsCall
<1> HIDE DEF Succeeded
<1> QED  BY <1>2, <1>3, ShapedRelaxes

LEMMA TestedRelaxes ==
  ASSUME NEW rules, NEW op \in {"tools/list", "resources/list", "prompts/list"},
         NEW k \in STRING, NEW e \in Values, NEW a \in Values
  PROVE  Tested(op, ItemPath(op, k), e, a, rules)
           \subseteq Tested(op, ItemPath(op, k), e, a, NoRules)
<1>1. ItemPath(op, k) \in Paths  BY ItemPathFacts
<1> QED  BY <1>1, StructuredRelaxes DEF Tested

LEMMA ListRelaxes ==
  ASSUME NEW rules, NEW op \in {"tools/list", "resources/list", "prompts/list"},
         NEW e \in Values, NEW a \in Values
  PROVE  CompareResponse(op, e, a, rules) \subseteq CompareResponse(op, e, a, NoRules)
<1> DEFINE es == Items(e, ListOf(op)[1])
           xs == Items(a, ListOf(op)[1])
<1>1. es \in Seq(Values) /\ xs \in Seq(Values)  BY GetFacts
<1> SUFFICES ASSUME NEW x \in ListedAlike(op, es, xs, rules)
             PROVE  x \in ListedAlike(op, es, xs, NoRules)
  BY ListOutcome
<1> HIDE DEF es, xs
<1> DEFINE K(i) == Text(es[i], ListOf(op)[2])
           F(i) == Found(xs, ListOf(op)[2], K(i))
<1>2. PICK i \in DOMAIN es :
        \/ F(i) = {} /\ x = ItemPath(op, K(i))
        \/ \E j \in F(i) : x \in Tested(op, ItemPath(op, K(i)), es[i], xs[j], rules)
  BY ListedReports
<1>3. es[i] \in Values /\ K(i) \in STRING  BY <1>1, GetFacts
<1>4. ASSUME NEW j \in F(i), x \in Tested(op, ItemPath(op, K(i)), es[i], xs[j], rules)
      PROVE  x \in Tested(op, ItemPath(op, K(i)), es[i], xs[j], NoRules)
  <2>1. xs[j] \in Values  BY <1>1, FoundFacts
  <2> HIDE DEF K
  <2> QED  BY <1>3, <1>4, <2>1, TestedRelaxes
<1> QED  BY <1>2, <1>4, ListedReports

(* Rules by type only relax, whatever is compared. *)
LEMMA OutcomeRelaxes ==
  ASSUME NEW rules, ByType(rules), NEW op \in Operations, NEW side \in {"request", "response"},
         NEW e \in Values, NEW a \in Values
  PROVE  OutcomeOf(op, side, e, a, rules) \subseteq OutcomeOf(op, side, e, a, NoRules)
<1>1. CompareStructured(<<>>, e, a, rules) \subseteq CompareStructured(<<>>, e, a, NoRules)
  BY KnownPaths, StructuredRelaxes
<1>2. CASE side = "response"
  <2>1. CASE op = "tools/call"
    BY <1>2, <2>1, ToolsCallRelaxes DEF OutcomeOf, CompareResponse
  <2>2. CASE op \in {"resources/read", "prompts/get"}
    <3>1. \A r : OutcomeOf(op, side, e, a, r)
                   = Shaped(e, a, r, CompareStructured(<<>>, e, a, r))
      BY <1>2, <2>2 DEF OutcomeOf, CompareResponse, CompareStructuralResult
    <3> QED  BY <1>1, <3>1, ShapedRelaxes
  <2>3. CASE op \in {"tools/list", "resources/list", "prompts/list"}
    BY <1>2, <2>3, ListRelaxes DEF OutcomeOf
  <2> QED  BY <2>1, <2>2, <2>3 DEF Operations
<1>3. CASE side = "request"
  <2>1. CompareStructured(<<Key("arguments")>>, Get(e, "arguments"), Get(a, "arguments"), rules)
          \subseteq CompareStructured(<<Key("arguments")>>, Get(e, "arguments"),
                                      Get(a, "arguments"), NoRules)
    BY KnownPaths, GetFacts, StructuredRelaxes
  <2> QED  BY <1>1, <1>3, <2>1 DEF OutcomeOf, MatchRequest, MatchToolsCallRequest,
                                   MatchStructuralRequest
<1> QED  BY <1>2, <1>3

-----------------------------------------------------------------------------
(* What is answered is the outcome of what was asked. *)
Answered == question \in Questions /\ (answered => misses = Outcome(question))

LEMMA SpecAnswered == Spec => []Answered
<1>1. Init => Answered  BY DEF Init, Answered
<1>2. Answered /\ [Next]_vars => Answered'
  BY DEF Answered, Next, Answer, vars
<1> QED  BY <1>1, <1>2, PTL DEF Spec

(* Rules by type can only make the matcher accept more: whatever it        *)
(* reports with them, it reports without.                                  *)
THEOREM SpecTypeRulesRelax ==
  ASSUME \A q \in Questions : ByType(q.rules)
  PROVE  Spec => []TypeRulesRelax
<1>1. Answered => TypeRulesRelax
  BY QuestionFacts, AskFacts, OutcomeRelaxes DEF Answered, TypeRulesRelax
<1> QED  BY <1>1, SpecAnswered, PTL

-----------------------------------------------------------------------------
(* An example is accepted: first what all comparisons are made of, ...     *)
LEMMA MatchesItself ==
  ASSUME NEW path, NEW v, NEW rules
  PROVE  ValuesMatch(path, v, v, rules) /\ RuledOrSameType(path, v, v, rules)
BY DEF ValuesMatch, RuledOrSameType, SameJsonType

LEMMA ErrorAcceptsItself ==
  ASSUME NEW rules, NEW e \in Values
  PROVE  CompareError(e, e, rules) = {}
<1> DEFINE ee == Get(e, "error")
           to == <<Key("error"), Key("data")>>
<1>1. Has(ee, "data") => CompareStructured(to, ee.obj["data"], Get(ee, "data"), rules) = {}
  <2>1. ee \in Values  BY GetFacts
  <2> HIDE DEF ee
  <2>2. Has(ee, "data") => ee.obj["data"] \in Values /\ Get(ee, "data") = ee.obj["data"]
    BY <2>1, GetFacts
  <2>3. to \in Paths  BY KnownPaths
  <2> HIDE DEF to
  <2> QED  BY <2>2, <2>3, StructuredAcceptsItself
<1> QED  BY <1>1, MatchesItself DEF CompareError, Miss

LEMMA BlockAcceptsItself ==
  ASSUME NEW rules, NEW i, NEW e, FormedBlock(e)
  PROVE  CompareContentBlock(i, e, e, rules) = {}
<1>1. Text(e, "type") \in {"text", "image", "resource"}  BY DEF FormedBlock
<1> QED  BY <1>1, MatchesItself DEF CompareContentBlock, Miss

LEMMA ContentAcceptsItself ==
  ASSUME NEW rules, NEW e \in Values,
         \A i \in DOMAIN Items(e, "content") : FormedBlock(Items(e, "content")[i])
  PROVE  CompareContent(e, e, rules) = {}
<1>1. ~(Len(Items(e, "content")) < Len(Items(e, "content")))
  <2>1. Len(Items(e, "content")) \in Nat  BY GetFacts
  <2> QED  BY <2>1
<1> QED  BY <1>1, BlockAcceptsItself DEF CompareContent

LEMMA ListAcceptsItself ==
  ASSUME NEW rules, NEW op \in {"tools/list", "resources/list", "prompts/list"},
         NEW e \in Values, Formed(op, "response", e), Exemplary(op, "response", e)
  PROVE  CompareResponse(op, e, e, rules) = {}
<1> DEFINE es == Items(e, ListOf(op)[1])
           key == ListOf(op)[2]
<1>0. es \in Seq(Values) /\ ListOf(op) # <<>>  BY GetFacts, ListFacts
<1>1. \A i \in DOMAIN es : IsStr(Get(es[i], key))
  BY <1>0 DEF Formed, ListedIn
<1>2. \A i, j \in DOMAIN es : Get(es[i], key) = Get(es[j], key) => i = j
  BY <1>0 DEF Exemplary
<1> SUFFICES ASSUME NEW x \in ListedAlike(op, es, es, rules) PROVE FALSE
  BY ListOutcome
<1> HIDE DEF es
<1> DEFINE K(i) == Text(es[i], key)
<1>3. PICK i \in DOMAIN es :
        \/ Found(es, key, K(i)) = {} /\ x = ItemPath(op, K(i))
        \/ \E j \in Found(es, key, K(i)) :
             x \in Tested(op, ItemPath(op, K(i)), es[i], es[j], rules)
  BY ListedReports
<1>4. es[i] \in Values /\ Get(es[i], key) \in Values  BY <1>0, GetFacts
<1>5. Get(es[i], key) = Str(K(i))
  <2>1. Get(es[i], key) = Str(Get(es[i], key).str)  BY <1>1, <1>4, ValueFacts
  <2> QED  BY <1>1, <2>1 DEF Text
<1>6. K(i) \in STRING  BY <1>4, GetFacts
<1> HIDE DEF K, key
<1>7. Found(es, key, K(i)) # {}
  BY <1>0, <1>5, FoundFacts
<1>8. PICK j \in Found(es, key, K(i)) :
        x \in Tested(op, ItemPath(op, K(i)), es[i], es[j], rules)
  BY <1>3, <1>7
<1>9. j = i
  <2>1. j \in DOMAIN es /\ Get(es[j], key) = Str(K(i))  BY <1>0, FoundFacts
  <2> QED  BY <1>2, <1>5, <2>1
<1>10. Tested(op, ItemPath(op, K(i)), es[i], es[i], rules) = {}
  <2>1. ItemPath(op, K(i)) \in Paths
        /\ Append(ItemPath(op, K(i)), Key("inputSchema")) \in Paths
    BY <1>6, ItemPathFacts
  <2>2. Has(es[i], "inputSchema") =>
          /\ es[i].obj["inputSchema"] \in Values
          /\ Get(es[i], "inputSchema") = es[i].obj["inputSchema"]
    BY <1>4, GetFacts
  <2> QED  BY <1>4, <2>1, <2>2, StructuredAcceptsItself DEF Tested
<1> QED  BY <1>8, <1>9, <1>10

(* ... and then whatever is compared. *)
LEMMA AcceptsItself ==
  ASSUME NEW rules, NEW op \in Operations, NEW side \in {"request", "response"},
         NEW e \in Values, Formed(op, side, e), Exemplary(op, side, e)
  PROVE  OutcomeOf(op, side, e, e, rules) = {}
<1>1. CompareStructured(<<>>, e, e, rules) = {}
  BY KnownPaths, StructuredAcceptsItself
<1>2. CASE side = "response" /\ op = "tools/call"
  <2>1. CompareContent(e, e, rules) = {}
    BY <1>2, ContentAcceptsItself DEF Exemplary
  <2>2. Has(e, "structuredContent") =>
          CompareStructured(<<Key("structuredContent")>>, e.obj["structuredContent"],
                            Get(e, "structuredContent"), rules) = {}
    <3>1. Has(e, "structuredContent") =>
            /\ e.obj["structuredContent"] \in Values
            /\ Get(e, "structuredContent") = e.obj["structuredContent"]
      BY GetFacts
    <3> QED  BY <3>1, KnownPaths, StructuredAcceptsItself
  <2>3. CompareToolsCall(e, e, rules) = {}
    BY <2>1, <2>2, ErrorAcceptsItself DEF CompareToolsCall, Shaped, Miss
  <2> QED  BY <1>2, <2>3 DEF OutcomeOf, CompareResponse
<1>3. CASE side = "response" /\ op \in {"resources/read", "prompts/get"}
  <2>1. CompareStructuralResult(e, e, rules) = {}
    BY <1>1, ErrorAcceptsItself DEF CompareStructuralResult, Shaped
  <2> QED  BY <1>3, <2>1 DEF OutcomeOf, CompareResponse
<1>4. CASE side = "response" /\ op \in {"tools/list", "resources/list", "prompts/list"}
  BY <1>4, ListAcceptsItself DEF OutcomeOf
<1>5. CASE side = "request"
  <2>1. CompareStructured(<<Key("arguments")>>, Get(e, "arguments"), Get(e, "arguments"), rules)
          = {}
    BY KnownPaths, GetFacts, StructuredAcceptsItself
  <2> QED  BY <1>1, <1>5, <2>1 DEF OutcomeOf, MatchRequest, MatchToolsCallRequest,
                                   MatchStructuralRequest
<1> QED  BY <1>2, <1>3, <1>4, <1>5 DEF Operations

-----------------------------------------------------------------------------
(* What only adds to an accepted payload is accepted, part by part. *)
LEMMA MatchKeepsKind ==
  ASSUME NEW path, NEW e, NEW b, NEW rules, IsStr(e),
         ValuesMatch(path, e, b, rules) \/ RuledOrSameType(path, e, b, rules)
  PROVE  IsStr(b)
BY DEF ValuesMatch, RuledOrSameType, SameJsonType, IsStr

LEMMA BlockIgnoresExtras ==
  ASSUME NEW rules, NEW i, NEW e \in Values, NEW a \in Values, NEW b \in Values,
         FormedBlock(e), Extends(a, b), CompareContentBlock(i, e, b, rules) = {}
  PROVE  CompareContentBlock(i, e, a, rules) = {}
<1> DEFINE base == <<Key("content"), Index(i)>>
           at(k) == Append(base, Key(k))
           type == Text(e, "type")
           Typed(c) == ValuesMatch(at("type"), Str(type), Str(Text(c, "type")), rules)
           Alike(k, c) == ValuesMatch(at(k), Get(e, k), Get(c, k), rules)
           Data(c) == RuledOrSameType(at("data"), Get(e, "data"), Get(c, "data"), rules)
           path == <<Key("content"), Index(i), Key("resource"), Key("uri")>>
           Uri(c) == ValuesMatch(path, Get(Get(e, "resource"), "uri"),
                                 Get(Get(c, "resource"), "uri"), rules)
<1>0. type \in {"text", "image", "resource"}  BY DEF FormedBlock
<1>1. \A c : CompareContentBlock(i, e, c, rules) = {} <=>
               /\ Typed(c)
               /\ type = "text" => Alike("text", c)
               /\ type = "image" => Alike("mimeType", c) /\ Data(c)
               /\ type = "resource" => Uri(c)
  <2> TAKE c
  <2>1. CompareContentBlock(i, e, c, rules) =
          IF ~Typed(c) THEN {at("type")}
          ELSE CASE type = "text" -> Miss(at("text"), Alike("text", c))
                 [] type = "image" -> Miss(at("mimeType"), Alike("mimeType", c))
                                        \cup Miss(at("data"), Data(c))
                 [] type = "resource" -> Miss(path, Uri(c))
                 [] OTHER -> {at("type")}
    BY DEF CompareContentBlock
  <2> HIDE DEF Typed, Alike, Data, Uri, at, path, type
  <2> QED  BY <1>0, <2>1 DEF Miss
<1>2. Typed(b) => Typed(a)
  <2>1. CASE MatchType(rules, at("type")) = "type"
    BY <2>1, Forms DEF ValuesMatch, SameJsonType
  <2>2. CASE MatchType(rules, at("type")) # "type" /\ Typed(b)
    <3>1. Str(type) = Str(Text(b, "type"))  BY <2>2 DEF ValuesMatch
    <3>2. type = Text(b, "type")  BY <3>1, Forms
    <3>3. IsStr(Get(b, "type"))  BY <3>2, <1>0 DEF Text
    <3>4. Text(a, "type") = Text(b, "type")  BY <3>3, ExtendedText
    <3> QED  BY <2>2, <3>4
  <2> QED  BY <2>1, <2>2
<1>3. \A k : IsStr(Get(e, k)) /\ Alike(k, b) => Alike(k, a)
  BY MatchKeepsKind, ExtendedText
<1>4. IsStr(Get(e, "data")) /\ Data(b) => Data(a)
  BY MatchKeepsKind, ExtendedText
<1>5. IsStr(Get(Get(e, "resource"), "uri")) /\ Uri(b) => Uri(a)
  <2> SUFFICES ASSUME IsStr(Get(Get(e, "resource"), "uri")), Uri(b) PROVE Uri(a)  OBVIOUS
  <2> DEFINE x == Get(a, "resource")
             y == Get(b, "resource")
  <2>1. x \in Values /\ y \in Values  BY GetFacts
  <2>2. IsStr(Get(y, "uri"))  BY MatchKeepsKind
  <2>3. y # Null  BY <2>2, NullFacts DEF Get, Has
  <2>4. Extends(x, y)  BY <2>3, ExtendedGet
  <2>5. Get(x, "uri") = Get(y, "uri")
    <3> HIDE DEF x, y
    <3> QED  BY <2>1, <2>2, <2>4, ExtendedText
  <2> QED  BY <2>5
<1>6. /\ type = "text" => IsStr(Get(e, "text"))
      /\ type = "image" => IsStr(Get(e, "mimeType")) /\ IsStr(Get(e, "data"))
      /\ type = "resource" => IsStr(Get(Get(e, "resource"), "uri"))
  BY DEF FormedBlock
<1> HIDE DEF Typed, Alike, Data, Uri, at, path, type
<1> QED  BY <1>1, <1>2, <1>3, <1>4, <1>5, <1>6

LEMMA ContentIgnoresExtras ==
  ASSUME NEW rules, NEW e \in Values, NEW a \in Values, NEW b \in Values, Extends(a, b),
         \A i \in DOMAIN Items(e, "content") : FormedBlock(Items(e, "content")[i]),
         CompareContent(e, b, rules) = {}
  PROVE  CompareContent(e, a, rules) = {}
<1> DEFINE es == Items(e, "content")
           xs == Items(a, "content")
           bs == Items(b, "content")
<1>1. es \in Seq(Values) /\ xs \in Seq(Values) /\ bs \in Seq(Values)  BY GetFacts
<1>2. ~(Len(bs) < Len(es))
      /\ \A i \in DOMAIN es : CompareContentBlock(i, es[i], bs[i], rules) = {}
  BY DEF CompareContent
<1>3. /\ Len(bs) <= Len(xs)
      /\ \A i \in DOMAIN bs : i \in DOMAIN xs /\ Extends(xs[i], bs[i])
  BY ExtendedItems
<1>4. \A i \in DOMAIN es : FormedBlock(es[i])  OBVIOUS
<1>5. CompareContent(e, a, rules) =
        IF Len(xs) < Len(es) THEN {<<Key("content")>>}
        ELSE UNION {CompareContentBlock(i, es[i], xs[i], rules) : i \in DOMAIN es}
  BY DEF CompareContent
<1> HIDE DEF es, xs, bs
<1>6. ~(Len(xs) < Len(es))
  <2>1. Len(xs) \in Nat /\ Len(es) \in Nat /\ Len(bs) \in Nat  BY <1>1
  <2> QED  BY <1>2, <1>3, <2>1
<1>7. ASSUME NEW i \in DOMAIN es PROVE CompareContentBlock(i, es[i], xs[i], rules) = {}
  <2>1. i \in DOMAIN bs /\ es[i] \in Values /\ bs[i] \in Values  BY <1>1, <1>2, Within
  <2>2. xs[i] \in Values  BY <1>1, <1>3, <2>1
  <2> QED  BY <1>2, <1>3, <1>4, <2>1, <2>2, BlockIgnoresExtras
<1> QED  BY <1>5, <1>6, <1>7

LEMMA TestedIgnoresExtras ==
  ASSUME NEW rules, NEW op \in {"tools/list", "resources/list", "prompts/list"},
         NEW k \in STRING, NEW e \in Values, NEW a \in Values, NEW b \in Values,
         op = "tools/list" => Object(e, "inputSchema"), Extends(a, b),
         Tested(op, ItemPath(op, k), e, b, rules) = {}
  PROVE  Tested(op, ItemPath(op, k), e, a, rules) = {}
<1> DEFINE path == ItemPath(op, k)
           to == Append(path, Key("inputSchema"))
<1>1. path \in Paths /\ to \in Paths  BY ItemPathFacts
<1>2. CASE op # "tools/list"
  <2>1. CompareStructured(path, e, b, rules) = {}  BY <1>2 DEF Tested
  <2>2. CompareStructured(path, e, a, rules) = {}  BY <1>1, <2>1, StructuredIgnoresExtras
  <2> QED  BY <1>2, <2>2 DEF Tested
<1>3. CASE op = "tools/list" /\ Has(e, "inputSchema")
  <2>1. /\ e.obj["inputSchema"] \in Values /\ IsObj(e.obj["inputSchema"])
    BY <1>3, GetFacts DEF Object
  <2>2. CompareStructured(to, e.obj["inputSchema"], Get(b, "inputSchema"), NoRules) = {}
    BY <1>3 DEF Tested
  <2>3. CompareStructured(to, e.obj["inputSchema"], Get(a, "inputSchema"), NoRules) = {}
    <3> HIDE DEF to
    <3> QED  BY <1>1, <2>1, <2>2, ExtendedObject
  <2> QED  BY <1>3, <2>3 DEF Tested
<1>4. CASE op = "tools/list" /\ ~Has(e, "inputSchema")
  BY <1>4 DEF Tested
<1> QED  BY <1>2, <1>3, <1>4

(* Where an item is found in a list, it is found in a longer one. *)
LEMMA FoundInExtension ==
  ASSUME NEW xs \in Seq(Values), NEW bs \in Seq(Values), NEW key, NEW k,
         Len(bs) <= Len(xs),
         \A i \in DOMAIN bs : i \in DOMAIN xs /\ Extends(xs[i], bs[i]) /\ IsStr(Get(bs[i], key)),
         NEW j \in Found(bs, key, k)
  PROVE  Found(xs, key, k) = {j}
<1>1. \A i \in DOMAIN bs : Get(xs[i], key) = Get(bs[i], key)
  <2> SUFFICES ASSUME NEW i \in DOMAIN bs PROVE Get(xs[i], key) = Get(bs[i], key)  OBVIOUS
  <2>1. xs[i] \in Values /\ bs[i] \in Values  OBVIOUS
  <2> QED  BY <2>1, ExtendedText
<1>2. j \in DOMAIN bs /\ j \in DOMAIN xs /\ Get(xs[j], key) = Str(k)
      /\ \A l \in DOMAIN bs : Get(bs[l], key) = Str(k) => j <= l
  BY <1>1 DEF Found
<1>3. \A l \in DOMAIN xs : l <= j => l \in DOMAIN bs
  <2>1. DOMAIN bs = 1..Len(bs) /\ DOMAIN xs = 1..Len(xs) /\ Len(bs) \in Nat /\ Len(xs) \in Nat
    OBVIOUS
  <2> QED  BY <1>2, <2>1
<1>4. ASSUME NEW l \in DOMAIN xs, Get(xs[l], key) = Str(k) PROVE j <= l
  <2>1. l \in Int /\ j \in Int  BY <1>2
  <2>2. CASE l <= j  BY <1>1, <1>2, <1>3, <1>4, <2>2
  <2> QED  BY <2>1, <2>2
<1>5. \A l \in Found(xs, key, k) : l \in DOMAIN xs /\ l <= j /\ j <= l
  BY <1>2, <1>4 DEF Found
<1>6. j \in Found(xs, key, k)  BY <1>2, <1>4 DEF Found
<1> QED
  <2>1. \A l \in Found(xs, key, k) : l = j
    <3>1. \A l \in DOMAIN xs : l \in Int  OBVIOUS
    <3> QED  BY <1>2, <1>5, <3>1
  <2> QED  BY <1>6, <2>1

LEMMA ListIgnoresExtras ==
  ASSUME NEW rules, NEW op \in {"tools/list", "resources/list", "prompts/list"},
         NEW e \in Values, NEW a \in Values, NEW b \in Values, Extends(a, b),
         Exemplary(op, "response", e), Formed(op, "response", b),
         CompareResponse(op, e, b, rules) = {}
  PROVE  CompareResponse(op, e, a, rules) = {}
<1> DEFINE es == Items(e, ListOf(op)[1])
           xs == Items(a, ListOf(op)[1])
           bs == Items(b, ListOf(op)[1])
           key == ListOf(op)[2]
           K(i) == Text(es[i], key)
<1>1. es \in Seq(Values) /\ xs \in Seq(Values) /\ bs \in Seq(Values) /\ ListOf(op) # <<>>
  BY GetFacts, ListFacts
<1>2. \A i \in DOMAIN bs : IsStr(Get(bs[i], key))
  BY <1>1 DEF Formed, ListedIn
<1>3. op = "tools/list" => \A i \in DOMAIN es : Object(es[i], "inputSchema")
  BY <1>1 DEF Exemplary, ListedIn
<1>4. /\ Len(bs) <= Len(xs)
      /\ \A i \in DOMAIN bs : i \in DOMAIN xs /\ Extends(xs[i], bs[i])
  BY ExtendedItems
<1>5. ListedAlike(op, es, bs, rules) = {}  BY ListOutcome
<1> SUFFICES ASSUME NEW x \in ListedAlike(op, es, xs, rules) PROVE FALSE
  BY ListOutcome
<1> HIDE DEF es, xs, bs
<1>6. PICK i \in DOMAIN es :
        \/ Found(xs, key, K(i)) = {} /\ x = ItemPath(op, K(i))
        \/ \E j \in Found(xs, key, K(i)) :
             x \in Tested(op, ItemPath(op, K(i)), es[i], xs[j], rules)
  BY ListedReports
<1>7. es[i] \in Values /\ K(i) \in STRING  BY <1>1, GetFacts
<1>8. Found(bs, key, K(i)) # {}
      /\ \A j \in Found(bs, key, K(i)) :
           Tested(op, ItemPath(op, K(i)), es[i], bs[j], rules) = {}
  <2>1. \A y : y \notin ListedAlike(op, es, bs, rules)  BY <1>5
  <2> QED  BY <2>1, ListedReports
<1> HIDE DEF K, key
<1>9. PICK j \in Found(bs, key, K(i)) : TRUE  BY <1>8
<1>10. Found(xs, key, K(i)) = {j}
  BY <1>1, <1>2, <1>4, FoundInExtension
<1>11. x \in Tested(op, ItemPath(op, K(i)), es[i], xs[j], rules)  BY <1>6, <1>10
<1>12. j \in DOMAIN bs /\ bs[j] \in Values /\ xs[j] \in Values
  <2>1. j \in DOMAIN bs /\ bs[j] \in Values  BY <1>1, FoundFacts
  <2> QED  BY <1>1, <1>4, <2>1
<1>13. Tested(op, ItemPath(op, K(i)), es[i], xs[j], rules) = {}
  BY <1>3, <1>4, <1>7, <1>8, <1>12, TestedIgnoresExtras
<1> QED  BY <1>11, <1>13

(* What only adds to an accepted payload, and is an error or not as before, *)
(* is accepted, whatever is compared.                                       *)
LEMMA IgnoresExtras ==
  ASSUME NEW rules, NEW op \in Operations, NEW side \in {"request", "response"},
         NEW e \in Values, NEW a \in Values, NEW b \in Values,
         Exemplary(op, side, e), Formed(op, side, b),
         Has(a, "error") => IsObj(Get(a, "error")),
         Extends(a, b), \A k \in {"error", "isError"} : Get(b, k) = Get(a, k),
         OutcomeOf(op, side, e, b, rules) = {}
  PROVE  OutcomeOf(op, side, e, a, rules) = {}
<1>1. Shape(a) = Shape(b)
  <2>1. Has(b, "error") => IsObj(Get(b, "error"))  BY DEF Formed
  <2>2. ~Has(b, "error") => Get(b, "error") = Null  BY DEF Get
  <2>3. ~Has(a, "error") => Get(a, "error") = Null  BY DEF Get
  <2>4. Has(a, "error") <=> Has(b, "error")  BY <2>1, <2>2, <2>3, NullFacts
  <2> QED  BY <2>4 DEF Shape, Has
<1>2. CompareError(e, a, rules) = CompareError(e, b, rules)  BY DEF CompareError
<1>3. CompareStructured(<<>>, e, b, rules) = {} => CompareStructured(<<>>, e, a, rules) = {}
  BY KnownPaths, StructuredIgnoresExtras
<1>4. CASE side = "response" /\ op = "tools/call"
  <2> DEFINE sc == <<Key("structuredContent")>>
             S(c) == IF Has(e, "structuredContent")
                     THEN CompareStructured(sc, e.obj["structuredContent"],
                            Get(c, "structuredContent"), rules)
                     ELSE {}
             Succeeded(c) == CompareContent(e, c, rules)
                             \cup Miss(<<Key("isError")>>, Flag(e, "isError") = Flag(c, "isError"))
                             \cup S(c)
  <2>1. S(b) = {} => S(a) = {}
    <3>1. CASE Has(e, "structuredContent")
      <4>1. e.obj["structuredContent"] \in Values /\ IsObj(e.obj["structuredContent"])
        BY <1>4, <3>1, GetFacts DEF Exemplary, Object
      <4>2. sc \in Paths  BY KnownPaths
      <4> HIDE DEF sc
      <4> QED  BY <3>1, <4>1, <4>2, ExtendedObject
    <3>2. CASE ~Has(e, "structuredContent")  BY <3>2
    <3> QED  BY <3>1, <3>2
  <2>2. CompareContent(e, b, rules) = {} => CompareContent(e, a, rules) = {}
    BY <1>4, ContentIgnoresExtras DEF Exemplary
  <2>3. Flag(a, "isError") = Flag(b, "isError")  BY DEF Flag
  <2>4. Succeeded(b) = {} => Succeeded(a) = {}
    <3> HIDE DEF S
    <3> QED  BY <2>1, <2>2, <2>3
  <2>5. \A c : OutcomeOf(op, side, e, c, rules) = Shaped(e, c, rules, Succeeded(c))
    BY <1>4 DEF OutcomeOf, CompareResponse, CompareToolsCall
  <2> HIDE DEF Succeeded
  <2> QED  BY <1>1, <1>2, <2>4, <2>5 DEF Shaped
<1>5. CASE side = "response" /\ op \in {"resources/read", "prompts/get"}
  <2>1. \A c : OutcomeOf(op, side, e, c, rules)
                 = Shaped(e, c, rules, CompareStructured(<<>>, e, c, rules))
    BY <1>5 DEF OutcomeOf, CompareResponse, CompareStructuralResult
  <2> QED  BY <1>1, <1>2, <1>3, <2>1 DEF Shaped
<1>6. CASE side = "response" /\ op \in {"tools/list", "resources/list", "prompts/list"}
  BY <1>6, ListIgnoresExtras DEF OutcomeOf
<1>7. CASE side = "request" /\ op = "tools/call"
  <2>1. IsStr(Get(b, "name")) /\ IsObj(Get(e, "arguments"))  BY <1>7 DEF Formed, Exemplary
  <2>2. Text(a, "name") = Text(b, "name")  BY <2>1, ExtendedText
  <2> DEFINE path == <<Key("arguments")>>
             A(c) == CompareStructured(path, Get(e, "arguments"), Get(c, "arguments"), rules)
  <2>3. A(b) = {} => A(a) = {}
    <3>1. path \in Paths /\ Get(e, "arguments") \in Values  BY KnownPaths, GetFacts
    <3> HIDE DEF path
    <3> QED  BY <2>1, <3>1, ExtendedObject
  <2>4. \A c : OutcomeOf(op, side, e, c, rules)
                 = IF Text(e, "name") # Text(c, "name") THEN {<<Key("name")>>} ELSE A(c)
    BY <1>7 DEF OutcomeOf, MatchRequest, MatchToolsCallRequest
  <2> HIDE DEF A
  <2> QED  BY <2>2, <2>3, <2>4
<1>8. CASE side = "request" /\ op # "tools/call"
  BY <1>3, <1>8 DEF OutcomeOf, MatchRequest, MatchStructuralRequest
<1> QED  BY <1>4, <1>5, <1>6, <1>7, <1>8 DEF Operations

(* The example of an interaction is accepted under every set of rules, and *)
(* what only adds to the example or to another accepted payload is too.    *)
THEOREM SpecExtrasIgnored ==
  ASSUME \A q \in Questions : WellPosed(q)
  PROVE  Spec => []ExtrasIgnored
<1>1. ASSUME Answered, answered,
             NEW accepted \in {question.expected}
                                \cup (IF misses = {} THEN {question.actual} ELSE {}),
             NEW a \in Actuals \cup {question.expected},
             Extends(a, accepted),
             \A k \in {"error", "isError"} : Get(accepted, k) = Get(a, k)
      PROVE  Ask(question, "actual", a) = {}
  <2> DEFINE q == question
             To(b) == OutcomeOf(q.op, q.side, q.expected, b, q.rules)
  <2>1. q \in Questions /\ misses = Outcome(q)  BY <1>1 DEF Answered
  <2>2. WellPosed(q) /\ q.op \in Operations /\ q.side \in {"request", "response"}
        /\ q.expected \in Values /\ q.actual \in Values
    BY <2>1, QuestionFacts
  <2>3. Ask(q, "actual", a) = To(a) /\ misses = To(q.actual)
    BY <2>1, AskFacts
  <2>4. To(q.expected) = {}  BY <2>2, AcceptsItself DEF WellPosed
  <2>5. /\ accepted \in Values /\ To(accepted) = {}
        /\ Formed(q.op, q.side, accepted)
    BY <2>2, <2>3, <2>4 DEF WellPosed
  <2>6. a \in Values /\ (Has(a, "error") => IsObj(Get(a, "error")))
    <3>1. CASE a = q.expected  BY <3>1, <2>2 DEF WellPosed, Formed
    <3>2. CASE a \in Actuals
      <4>1. PICK p \in Questions : a = p.actual  BY <3>2 DEF Actuals
      <4>2. WellPosed(p) /\ p.actual \in Values  BY <4>1, QuestionFacts
      <4> QED  BY <4>1, <4>2 DEF WellPosed, Formed
    <3> QED  BY <3>1, <3>2
  <2>7. To(a) = {}
    BY <1>1, <2>2, <2>5, <2>6, IgnoresExtras DEF WellPosed
  <2> QED  BY <2>3, <2>7
<1>2. Answered => ExtrasIgnored
  BY <1>1 DEF ExtrasIgnored
<1> QED  BY <1>2, SpecAnswered, PTL

-----------------------------------------------------------------------------
(* A permutation lists the same items. *)
LEMMA SomewhereIn ==
  ASSUME NEW s \in Seq(Values), NEW x
  PROVE  LET at == {i \in DOMAIN s : s[i] = x}
         IN  Cardinality(at) = 0 <=> at = {}
<1> DEFINE at == {i \in DOMAIN s : s[i] = x}
<1>1. Len(s) \in Nat /\ DOMAIN s = 1..Len(s)  OBVIOUS
<1>2. at \subseteq 1..Len(s)  BY <1>1
<1>3. IsFiniteSet(1..Len(s))  BY <1>1, FS_Interval
<1>4. IsFiniteSet(at)
  <2> HIDE DEF at
  <2> QED  BY <1>2, <1>3, FS_Subset
<1> HIDE DEF at
<1>5. Cardinality(at) = 0 <=> at = {}  BY <1>4, FS_EmptySet
<1> QED  BY <1>5 DEF at

LEMMA PermutedRange ==
  ASSUME NEW s \in Seq(Values), NEW t \in Seq(Values), Permuted(s, t)
  PROVE  /\ \A i \in DOMAIN s : \E j \in DOMAIN t : t[j] = s[i]
         /\ \A j \in DOMAIN t : \E i \in DOMAIN s : s[i] = t[j]
<1> DEFINE In(u, x) == {i \in DOMAIN u : u[i] = x}
<1>1. \A x : (Cardinality(In(s, x)) = 0 <=> In(s, x) = {})
             /\ (Cardinality(In(t, x)) = 0 <=> In(t, x) = {})
  BY SomewhereIn
<1>2. \A x \in {s[i] : i \in DOMAIN s} \cup {t[i] : i \in DOMAIN t} :
        Cardinality(In(s, x)) = Cardinality(In(t, x))
  BY DEF Permuted
<1>3. \A x \in {s[i] : i \in DOMAIN s} \cup {t[i] : i \in DOMAIN t} :
        In(s, x) = {} <=> In(t, x) = {}
  <2> HIDE DEF In
  <2> QED  BY <1>1, <1>2
<1>4. ASSUME NEW i \in DOMAIN s PROVE \E j \in DOMAIN t : t[j] = s[i]
  <2>1. In(t, s[i]) # {}  BY <1>3
  <2> QED  BY <2>1
<1>5. ASSUME NEW j \in DOMAIN t PROVE \E i \in DOMAIN s : s[i] = t[j]
  <2>1. In(s, t[j]) # {}  BY <1>3
  <2> QED  BY <2>1
<1> QED  BY <1>4, <1>5

(* In a list that has each key once, and in each of its permutations, the  *)
(* same item is found.                                                     *)
LEMMA SameFound ==
  ASSUME NEW s \in Seq(Values), NEW t \in Seq(Values), Permuted(s, t), NEW key, NEW k,
         \A i, j \in DOMAIN s : Get(s[i], key) = Get(s[j], key) => i = j
  PROVE  /\ Found(s, key, k) = {} <=> Found(t, key, k) = {}
         /\ \A i \in Found(s, key, k), j \in Found(t, key, k) : s[i] = t[j]
<1>1. ASSUME NEW i \in Found(s, key, k), NEW j \in Found(t, key, k) PROVE s[i] = t[j]
  <2>1. i \in DOMAIN s /\ Get(s[i], key) = Str(k)  BY FoundFacts
  <2>2. j \in DOMAIN t /\ Get(t[j], key) = Str(k)  BY FoundFacts
  <2>3. PICK l \in DOMAIN s : s[l] = t[j]  BY <2>2, PermutedRange
  <2> QED  BY <2>1, <2>2, <2>3
<1>2. ASSUME NEW i \in Found(s, key, k) PROVE Found(t, key, k) # {}
  <2>1. i \in DOMAIN s /\ Get(s[i], key) = Str(k)  BY FoundFacts
  <2>2. PICK l \in DOMAIN t : t[l] = s[i]  BY <2>1, PermutedRange
  <2> QED  BY <2>1, <2>2, FoundFacts
<1>3. ASSUME NEW j \in Found(t, key, k) PROVE Found(s, key, k) # {}
  <2>1. j \in DOMAIN t /\ Get(t[j], key) = Str(k)  BY FoundFacts
  <2>2. PICK l \in DOMAIN s : s[l] = t[j]  BY <2>1, PermutedRange
  <2> QED  BY <2>1, <2>2, FoundFacts
<1> QED  BY <1>1, <1>2, <1>3

LEMMA ListPermuted ==
  ASSUME NEW op, NEW es, NEW rules, NEW s \in Seq(Values), NEW t \in Seq(Values), Permuted(s, t),
         \A i, j \in DOMAIN s : Get(s[i], ListOf(op)[2]) = Get(s[j], ListOf(op)[2]) => i = j
  PROVE  ListedAlike(op, es, s, rules) = ListedAlike(op, es, t, rules)
<1> DEFINE key == ListOf(op)[2]
           K(i) == Text(es[i], key)
           To(i, v) == Tested(op, ItemPath(op, K(i)), es[i], v, rules)
<1>1. \A i : /\ Found(s, key, K(i)) = {} <=> Found(t, key, K(i)) = {}
             /\ \A j \in Found(s, key, K(i)), l \in Found(t, key, K(i)) : s[j] = t[l]
  BY SameFound
<1>2. \A x : (\/ x \in ListedAlike(op, es, s, rules) /\ x \notin ListedAlike(op, es, t, rules)
              \/ x \in ListedAlike(op, es, t, rules) /\ x \notin ListedAlike(op, es, s, rules))
             => FALSE
  <2> TAKE x
  <2>1. x \in ListedAlike(op, es, s, rules) <=>
          \E i \in DOMAIN es : \/ Found(s, key, K(i)) = {} /\ x = ItemPath(op, K(i))
                               \/ \E j \in Found(s, key, K(i)) : x \in To(i, s[j])
    BY ListedReports
  <2>2. x \in ListedAlike(op, es, t, rules) <=>
          \E i \in DOMAIN es : \/ Found(t, key, K(i)) = {} /\ x = ItemPath(op, K(i))
                               \/ \E j \in Found(t, key, K(i)) : x \in To(i, t[j])
    BY ListedReports
  <2> HIDE DEF key, K, To
  <2>3. \A i : (\E j \in Found(s, key, K(i)) : x \in To(i, s[j]))
                 <=> (\E j \in Found(t, key, K(i)) : x \in To(i, t[j]))
    BY <1>1
  <2> QED  BY <1>1, <2>1, <2>2, <2>3
<1> QED  BY <1>2

(* A server may list its tools, resources or prompts in any order.         *)
THEOREM SpecListOrderIrrelevant == Spec => []ListOrderIrrelevant
<1>1. ASSUME Answered, answered, question.side = "response", ListOf(question.op) # <<>>,
             NEW a \in Actuals,
             Permuted(Items(question.actual, ListOf(question.op)[1]),
                      Items(a, ListOf(question.op)[1])),
             \A i, j \in DOMAIN Items(question.actual, ListOf(question.op)[1]) :
               Get(Items(question.actual, ListOf(question.op)[1])[i], ListOf(question.op)[2])
                 = Get(Items(question.actual, ListOf(question.op)[1])[j], ListOf(question.op)[2])
               => i = j
      PROVE  misses = Ask(question, "actual", a)
  <2> DEFINE q == question
  <2>1. q \in Questions /\ misses = Outcome(q)  BY <1>1 DEF Answered
  <2>2. q.op \in Operations /\ q.actual \in Values  BY <2>1, QuestionFacts
  <2>3. a \in Values
    <3>1. PICK p \in Questions : a = p.actual  BY <1>1 DEF Actuals
    <3> QED  BY <3>1, QuestionFacts
  <2>4. q.op \in {"tools/list", "resources/list", "prompts/list"}
    BY <1>1, <2>2, ListFacts
  <2>5. \A b : OutcomeOf(q.op, q.side, q.expected, b, q.rules)
                 = ListedAlike(q.op, Items(q.expected, ListOf(q.op)[1]),
                               Items(b, ListOf(q.op)[1]), q.rules)
    BY <1>1, <2>4, ListOutcome DEF OutcomeOf
  <2>6. Items(q.actual, ListOf(q.op)[1]) \in Seq(Values)
        /\ Items(a, ListOf(q.op)[1]) \in Seq(Values)
    BY <2>2, <2>3, GetFacts
  <2>7. misses = OutcomeOf(q.op, q.side, q.expected, q.actual, q.rules)
        /\ Ask(q, "actual", a) = OutcomeOf(q.op, q.side, q.expected, a, q.rules)
    BY <2>1, AskFacts
  <2> QED  BY <1>1, <2>5, <2>6, <2>7, ListPermuted
<1>2. Answered => ListOrderIrrelevant
  BY <1>1 DEF ListOrderIrrelevant
<1> QED  BY <1>2, SpecAnswered, PTL

-----------------------------------------------------------------------------
(* Paths below a step. *)
LEMMA PathsBelow ==
  ASSUME NEW start \in Paths, NEW q \in Paths, NEW s \in Steps
  PROVE  /\ <<s>> \o q \in Paths /\ Len(<<s>> \o q) = Len(q) + 1 /\ Len(q) \in Nat
         /\ (<<s>> \o q)[1] = s
         /\ \A n \in 1..Len(q) : (<<s>> \o q)[n + 1] = q[n] /\ q[n] \in Steps
         /\ start \o (<<s>> \o q) = Append(start, s) \o q
         /\ start \o SubSeq(<<s>> \o q, 1, 1) = Append(start, s)
         /\ \A n \in 1..Len(q) :
              start \o SubSeq(<<s>> \o q, 1, n + 1) = Append(start, s) \o SubSeq(q, 1, n)
<1>0. /\ start \in Seq(Steps) /\ q \in Seq(Steps) /\ <<s>> \in Seq(Steps)
      /\ Len(<<s>>) = 1 /\ <<s>>[1] = s /\ Len(q) \in Nat
  BY DEF Paths
<1> DEFINE p == <<s>> \o q
<1>1. /\ p \in Seq(Steps) /\ Len(p) = Len(q) + 1
      /\ \A i \in 1..(Len(q) + 1) : p[i] = IF i <= 1 THEN <<s>>[i] ELSE q[i - 1]
  <2>1. /\ p \in Seq(Steps) /\ Len(p) = Len(<<s>>) + Len(q)
        /\ \A i \in 1..(Len(<<s>>) + Len(q)) :
             p[i] = IF i <= Len(<<s>>) THEN <<s>>[i] ELSE q[i - Len(<<s>>)]
    BY <1>0, ConcatProperties
  <2> HIDE DEF p
  <2> QED  BY <1>0, <2>1
<1>2. p[1] = s /\ \A n \in 1..Len(q) : p[n + 1] = q[n] /\ q[n] \in Steps
  <2> HIDE DEF p
  <2>1. p[1] = s  BY <1>0, <1>1
  <2>2. ASSUME NEW n \in 1..Len(q) PROVE p[n + 1] = q[n] /\ q[n] \in Steps
    <3>1. n + 1 \in 1..(Len(q) + 1) /\ ~(n + 1 <= 1) /\ (n + 1) - 1 = n  BY <1>0
    <3>2. q[n] \in Steps  BY <1>0, ElementOfSeq
    <3> QED  BY <1>1, <3>1, <3>2
  <2> QED  BY <2>1, <2>2
<1>3. \A t \in Seq(Steps) : start \o (<<s>> \o t) = Append(start, s) \o t
  BY <1>0, AppendIsConcat, ConcatAssociative
<1>4. \A n \in 0..Len(q) : SubSeq(p, 1, n + 1) = <<s>> \o SubSeq(q, 1, n)
  <2> SUFFICES ASSUME NEW n \in 0..Len(q)
               PROVE  SubSeq(p, 1, n + 1) = <<s>> \o SubSeq(q, 1, n)
    OBVIOUS
  <2>1. 1 \in 1..Len(p) /\ n + 1 \in 1..Len(p)  BY <1>0, <1>1
  <2>2. SubSeq(p, 1, n + 1) = <<p[1]>> \o SubSeq(p, 1 + 1, n + 1)
    BY <1>1, <2>1, SubSeqRecursiveFirst
  <2>3. SubSeq(p, 2, n + 1) = SubSeq(q, 1, n)
    <3>1. CASE n = 0
      <4>1. SubSeq(q, 1, 0) = <<>> /\ SubSeq(p, 2, 1) = <<>>  BY SubSeqEmpty
      <4> QED  BY <3>1, <4>1
    <3>2. CASE n # 0
      <4>1. 2 \in (Len(<<s>>) + 1)..(Len(<<s>>) + Len(q))
            /\ n + 1 \in (Len(<<s>>) + 1)..(Len(<<s>>) + Len(q))
        BY <1>0, <3>2
      <4>2. SubSeq(p, 2, n + 1) = SubSeq(q, 2 - Len(<<s>>), (n + 1) - Len(<<s>>))
        BY <1>0, <4>1, SubSeqOfConcat2
      <4>3. 2 - Len(<<s>>) = 1 /\ (n + 1) - Len(<<s>>) = n  BY <1>0
      <4> HIDE DEF p
      <4> QED  BY <4>2, <4>3
    <3> QED  BY <3>1, <3>2
  <2> HIDE DEF p
  <2> QED  BY <1>2, <2>2, <2>3
<1>5. \A n \in 0..Len(q) : SubSeq(q, 1, n) \in Seq(Steps)
  BY <1>0, <1>2, SubSeqProperties
<1>6. \A n \in 0..Len(q) : start \o SubSeq(p, 1, n + 1) = Append(start, s) \o SubSeq(q, 1, n)
  <2> HIDE DEF p
  <2> QED  BY <1>3, <1>4, <1>5
<1>7. start \o SubSeq(p, 1, 1) = Append(start, s)
  <2>1. SubSeq(q, 1, 0) = <<>>  BY SubSeqEmpty
  <2>2. 0 \in 0..Len(q) /\ 0 + 1 = 1  BY <1>0
  <2>3. Append(start, s) \in Seq(Steps)  BY <1>0, AppendProperties
  <2>4. Append(start, s) \o <<>> = Append(start, s)  BY <2>3, ConcatEmptySeq
  <2> HIDE DEF p
  <2> QED  BY <1>6, <2>1, <2>2, <2>4
<1>8. start \o p = Append(start, s) \o q  BY <1>0, <1>3
<1>9. \A n \in 1..Len(q) : start \o SubSeq(p, 1, n + 1) = Append(start, s) \o SubSeq(q, 1, n)
  <2>1. \A n \in 1..Len(q) : n \in 0..Len(q)  BY <1>0
  <2> HIDE DEF p
  <2> QED  BY <1>6, <2>1
<1>10. p \in Paths  BY <1>1 DEF Paths
<1> HIDE DEF p
<1>11. /\ p \in Paths /\ Len(p) = Len(q) + 1 /\ Len(q) \in Nat /\ p[1] = s
       /\ \A n \in 1..Len(q) : p[n + 1] = q[n] /\ q[n] \in Steps
       /\ start \o p = Append(start, s) \o q
       /\ start \o SubSeq(p, 1, 1) = Append(start, s)
       /\ \A n \in 1..Len(q) :
            start \o SubSeq(p, 1, n + 1) = Append(start, s) \o SubSeq(q, 1, n)
  BY <1>0, <1>1, <1>2, <1>7, <1>8, <1>9, <1>10
<1> QED  BY <1>11 DEF p

-----------------------------------------------------------------------------
(* What is found along a path, step by step. *)
Places == Values \cup {Absent}

LEMMA StepFacts ==
  /\ \A v \in Places, s \in Steps : StepInto(v, s) \in Places
  /\ \A s : StepInto(Absent, s) = Absent
<1>1. \A s : StepInto(Absent, s) = Absent
  BY Forms DEF StepInto, IsObj, IsArr
<1>2. \A v \in Values, s \in Steps : StepInto(v, s) \in Places
  BY MemberFacts DEF Places
<1> QED  BY <1>1, <1>2 DEF Places

LEMMA AlongFacts ==
  ASSUME NEW v \in Places, NEW path \in Paths
  PROVE  /\ Len(path) \in Nat
         /\ Along(v, path) \in [0..Len(path) -> Places]
         /\ Along(v, path)[0] = v
         /\ \A n \in 1..Len(path) : Along(v, path)[n] = StepInto(Along(v, path)[n-1], path[n])
<1> DEFINE L == Len(path)
           P(g) == g = [n \in 0..L |-> IF n = 0 THEN v ELSE StepInto(g[n-1], path[n])]
           step == [n \in Nat |-> [w \in Places |-> IF n \in 1..L THEN StepInto(w, path[n]) ELSE w]]
<1>1. L \in Nat /\ \A n \in 1..L : path[n] \in Steps  BY DEF Paths
<1>2. step \in [Nat -> [Places -> Places]]
  <2>1. ASSUME NEW n \in Nat, NEW w \in Places
        PROVE  (IF n \in 1..L THEN StepInto(w, path[n]) ELSE w) \in Places
    BY <1>1, StepFacts
  <2> HIDE DEF L
  <2> QED  BY <2>1
<1>3. PICK g : IsPass(g, Places, v, step, L)
  <2> HIDE DEF step, L
  <2> QED  BY <1>1, <1>2, PassExists
<1>4. g \in [0..L -> Places] /\ g[0] = v
      /\ \A n \in 1..L : g[n] = step[n][g[n-1]]
  <2> HIDE DEF step, L
  <2> QED  BY <1>3 DEF IsPass
<1>5. \A n \in 1..L : g[n] = StepInto(g[n-1], path[n])
  <2> SUFFICES ASSUME NEW n \in 1..L PROVE g[n] = StepInto(g[n-1], path[n])  OBVIOUS
  <2>1. n \in Nat /\ n - 1 \in 0..L  BY <1>1
  <2>2. g[n-1] \in Places  BY <1>4, <2>1
  <2>3. g[n] = step[n][g[n-1]]  BY <1>4
  <2> HIDE DEF L
  <2> QED  BY <2>1, <2>2, <2>3
<1>6. P(g)
  <2>1. \A n \in 0..L : n = 0 \/ n \in 1..L  BY <1>1
  <2> HIDE DEF L, step
  <2> QED  BY <1>4, <1>5, <2>1
<1>7. Along(v, path) = CHOOSE h : P(h)
  BY DEF Along
<1> DEFINE h == Along(v, path)
<1>8. P(h)
  <2> HIDE DEF P
  <2> QED  BY <1>6, <1>7
<1> HIDE DEF h
<1>9. h[0] = v /\ \A n \in 1..L : h[n] = StepInto(h[n-1], path[n])
  <2>1. 0 \in 0..L /\ \A n \in 1..L : n \in 0..L /\ n # 0  BY <1>1
  <2> HIDE DEF L
  <2> QED  BY <1>8, <2>1
<1>10. 0..L \subseteq {n \in 0..L : h[n] \in Places}
  <2> DEFINE S == {n \in 0..L : h[n] \in Places}
  <2>1. 0 \in S  BY <1>1, <1>9
  <2>2. ASSUME NEW n \in 0..(L-1), n \in S PROVE n + 1 \in S
    <3>1. n + 1 \in 1..L /\ n + 1 \in 0..L /\ (n + 1) - 1 = n  BY <1>1
    <3>2. h[n+1] = StepInto(h[n], path[n+1])  BY <1>9, <3>1
    <3> QED  BY <1>1, <2>2, <3>1, <3>2, StepFacts
  <2> HIDE DEF S, L
  <2> QED  BY <1>1, <2>1, <2>2, InductionUpTo DEF S
<1>11. h \in [0..L -> Places]
  <2> HIDE DEF L
  <2> QED  BY <1>8, <1>10
<1> QED  BY <1>1, <1>9, <1>11 DEF h

(* Below a step the path goes on from what is found there. *)
LEMMA AlongBelow ==
  ASSUME NEW v \in Places, NEW s \in Steps, NEW q \in Paths
  PROVE  \A n \in 0..Len(q) : Along(v, <<s>> \o q)[n + 1] = Along(StepInto(v, s), q)[n]
<1> DEFINE p == <<s>> \o q
           w == StepInto(v, s)
           f == Along(v, p)
           g == Along(w, q)
           L == Len(q)
           S == {n \in 0..L : f[n + 1] = g[n]}
<1>1. /\ p \in Paths /\ Len(p) = L + 1 /\ L \in Nat /\ p[1] = s
      /\ \A n \in 1..L : p[n + 1] = q[n] /\ q[n] \in Steps
  <2>1. <<>> \in Paths  BY DEF Paths
  <2> QED  BY <2>1, PathsBelow
<1>2. w \in Places  BY StepFacts
<1> HIDE DEF p, w, f, g
<1>3. f[0] = v /\ \A n \in 1..Len(p) : f[n] = StepInto(f[n-1], p[n])
  BY <1>1, AlongFacts DEF f
<1>4. g[0] = w /\ \A n \in 1..L : g[n] = StepInto(g[n-1], q[n])
  BY <1>2, AlongFacts DEF g
<1> HIDE DEF L
<1>5. 0 \in S
  <2>1. 1 \in 1..Len(p) /\ 1 - 1 = 0 /\ 0 + 1 = 1 /\ 0 \in 0..L  BY <1>1
  <2>2. f[1] = StepInto(v, s)  BY <1>1, <1>3, <2>1
  <2> QED  BY <1>4, <2>1, <2>2 DEF w
<1>6. ASSUME NEW n \in 0..(L-1), n \in S PROVE n + 1 \in S
  <2>1. n + 1 \in 1..L /\ n + 1 \in 0..L /\ (n + 1) - 1 = n
        /\ (n + 1) + 1 \in 1..Len(p) /\ ((n + 1) + 1) - 1 = n + 1
    BY <1>1
  <2>2. f[(n + 1) + 1] = StepInto(f[n + 1], p[(n + 1) + 1])  BY <1>3, <2>1
  <2>3. g[n + 1] = StepInto(g[n], q[n + 1])  BY <1>4, <2>1
  <2>4. p[(n + 1) + 1] = q[n + 1]  BY <1>1, <2>1
  <2> QED  BY <1>6, <2>1, <2>2, <2>3, <2>4
<1>7. 0..L \subseteq S
  <2> HIDE DEF S
  <2> QED  BY <1>1, <1>5, <1>6, InductionUpTo
<1>8. \A n \in 0..L : f[n + 1] = g[n]  BY <1>7
<1> QED  BY <1>8 DEF f, g, p, w, L

(* What is absent stays absent. *)
LEMMA AbsentAlong ==
  ASSUME NEW q \in Paths
  PROVE  \A n \in 0..Len(q) : Along(Absent, q)[n] = Absent
<1> DEFINE g == Along(Absent, q)
           L == Len(q)
           S == {n \in 0..L : g[n] = Absent}
<1>1. L \in Nat /\ g[0] = Absent /\ \A n \in 1..L : g[n] = StepInto(g[n-1], q[n])
  BY AlongFacts DEF Places
<1> HIDE DEF g, L
<1>2. 0 \in S  BY <1>1
<1>3. ASSUME NEW n \in 0..(L-1), n \in S PROVE n + 1 \in S
  <2>1. n + 1 \in 1..L /\ n + 1 \in 0..L /\ (n + 1) - 1 = n  BY <1>1
  <2> QED  BY <1>1, <1>3, <2>1, StepFacts
<1>4. 0..L \subseteq S
  <2> HIDE DEF S
  <2> QED  BY <1>1, <1>2, <1>3, InductionUpTo
<1> QED  BY <1>4 DEF g, L

-----------------------------------------------------------------------------
(* The leaves of a value, given those of its members. *)
Leaf == [path : Paths, value : Values]

LeavesBelow(f, e) ==
  IF Compound(e) /\ Members(e) # {}
  THEN UNION {{Below(s, leaf) : leaf \in f[StepInto(e, s)]} : s \in Members(e)}
  ELSE {[path |-> <<>>, value |-> e]}

LeavesStep(f, e) ==
  CASE IsObj(e) /\ DOMAIN e.obj # {} ->
         UNION {{Below(Key(k), leaf) : leaf \in f[e.obj[k]]} : k \in DOMAIN e.obj}
    [] IsArr(e) /\ e.arr # <<>> ->
         UNION {{Below(Index(i), leaf) : leaf \in f[e.arr[i]]} : i \in DOMAIN e.arr}
    [] OTHER -> {[path |-> <<>>, value |-> e]}

LEMMA LeavesMembers ==
  ASSUME NEW f, NEW e \in Values
  PROVE  LeavesStep(f, e) = LeavesBelow(f, e)
<1> DEFINE M(s) == {Below(s, leaf) : leaf \in f[StepInto(e, s)]}
<1>1. CASE IsObj(e)
  <2>1. ~IsArr(e)  BY <1>1 DEF IsArr, IsObj
  <2>2. Members(e) = {Key(k) : k \in DOMAIN e.obj}  BY <1>1, <2>1 DEF Members
  <2> DEFINE O(k) == {Below(Key(k), leaf) : leaf \in f[e.obj[k]]}
  <2>3. \A k \in DOMAIN e.obj : O(k) = M(Key(k))
    BY <1>1, Forms DEF StepInto
  <2>4. UNION {O(k) : k \in DOMAIN e.obj} = UNION {M(s) : s \in Members(e)}
    <3> HIDE DEF O, M
    <3> QED  BY <2>2, <2>3
  <2>5. Members(e) = {} <=> DOMAIN e.obj = {}  BY <2>2
  <2>6. LeavesStep(f, e) = IF DOMAIN e.obj # {} THEN UNION {O(k) : k \in DOMAIN e.obj}
                           ELSE {[path |-> <<>>, value |-> e]}
    BY <1>1, <2>1 DEF LeavesStep
  <2> HIDE DEF O
  <2> QED  BY <1>1, <2>4, <2>5, <2>6 DEF LeavesBelow, Compound
<1>2. CASE IsArr(e)
  <2>1. ~IsObj(e)  BY <1>2 DEF IsArr, IsObj
  <2>2. Members(e) = {Index(i) : i \in DOMAIN e.arr}  BY <1>2, <2>1 DEF Members
  <2> DEFINE O(i) == {Below(Index(i), leaf) : leaf \in f[e.arr[i]]}
  <2>3. \A i \in DOMAIN e.arr : O(i) = M(Index(i))
    BY <1>2, <2>1, Forms DEF StepInto
  <2>4. UNION {O(i) : i \in DOMAIN e.arr} = UNION {M(s) : s \in Members(e)}
    <3> HIDE DEF O, M
    <3> QED  BY <2>2, <2>3
  <2>5. Members(e) = {} <=> e.arr = <<>>
    <3>1. e.arr \in Seq(Values)  BY <1>2, ValueFacts
    <3>2. DOMAIN e.arr = {} <=> e.arr = <<>>
      <4>1. DOMAIN e.arr = 1..Len(e.arr) /\ Len(e.arr) \in Nat  BY <3>1, LenProperties
      <4>2. e.arr # <<>> => Len(e.arr) \in Nat \ {0}  BY <3>1, EmptySeq
      <4>3. e.arr # <<>> => 1 \in DOMAIN e.arr  BY <4>1, <4>2
      <4>4. DOMAIN <<>> = {}  OBVIOUS
      <4> QED  BY <4>3, <4>4
    <3> QED  BY <2>2, <3>2
  <2>6. LeavesStep(f, e) = IF e.arr # <<>> THEN UNION {O(i) : i \in DOMAIN e.arr}
                           ELSE {[path |-> <<>>, value |-> e]}
    BY <1>2, <2>1 DEF LeavesStep
  <2> HIDE DEF O
  <2> QED  BY <1>2, <2>4, <2>5, <2>6 DEF LeavesBelow, Compound
<1>3. CASE ~Compound(e)
  BY <1>3 DEF LeavesBelow, LeavesStep, Compound
<1> QED  BY <1>1, <1>2, <1>3 DEF Compound

LEMMA BelowFacts ==
  ASSUME NEW s \in Steps, NEW leaf \in Leaf
  PROVE  /\ Below(s, leaf) \in Leaf
         /\ Below(s, leaf).path = <<s>> \o leaf.path /\ Below(s, leaf).value = leaf.value
<1>1. leaf.path \in Paths /\ leaf.value \in Values  BY DEF Leaf
<1>2. <<s>> \o leaf.path \in Paths
  <2>1. <<>> \in Paths  BY DEF Paths
  <2> QED  BY <1>1, <2>1, PathsBelow
<1> QED  BY <1>1, <1>2 DEF Below, Leaf

LEMMA LeavesExist ==
  \E f \in [Values -> SUBSET Leaf] : f = [e \in Values |-> LeavesStep(f, e)]
<1> DEFINE A == SUBSET Leaf
           F == [Values -> A]
           G == [f \in F |-> [e \in Values |-> LeavesStep(f, e)]]
<1>1. Depth \in [Values -> Nat]  BY DepthAssumption DEF Nesting, Values
<1>2. ASSUME NEW f \in F, NEW e \in Values PROVE LeavesStep(f, e) \in A
  <2>1. ASSUME NEW s \in Members(e)
        PROVE  {Below(s, leaf) : leaf \in f[StepInto(e, s)]} \subseteq Leaf
    <3>1. s \in Steps /\ StepInto(e, s) \in Values  BY MemberFacts
    <3>2. f[StepInto(e, s)] \subseteq Leaf  BY <3>1
    <3> QED  BY <3>1, <3>2, BelowFacts
  <2>2. [path |-> <<>>, value |-> e] \in Leaf
    <3>1. <<>> \in Paths  BY DEF Paths
    <3> QED  BY <3>1 DEF Leaf
  <2> QED  BY <2>1, <2>2, LeavesMembers DEF LeavesBelow
<1>3. G \in [F -> F]
  <2>1. ASSUME NEW f \in F PROVE [e \in Values |-> LeavesStep(f, e)] \in F  BY <1>2
  <2> HIDE DEF F
  <2> QED  BY <2>1
<1>4. ASSUME NEW f \in F, NEW g \in F, NEW e \in Values,
             \A d \in Values : Depth[d] < Depth[e] => f[d] = g[d]
      PROVE  G[f][e] = G[g][e]
  <2>1. \A s \in Members(e) : f[StepInto(e, s)] = g[StepInto(e, s)]
    BY <1>4, MemberFacts
  <2> DEFINE N(h, s) == {Below(s, leaf) : leaf \in h[StepInto(e, s)]}
  <2>2. LeavesBelow(f, e) = LeavesBelow(g, e)
    <3>1. \A s \in Members(e) : N(f, s) = N(g, s)  BY <2>1
    <3>2. \A h : LeavesBelow(h, e) = IF Compound(e) /\ Members(e) # {}
                                     THEN UNION {N(h, s) : s \in Members(e)}
                                     ELSE {[path |-> <<>>, value |-> e]}
      BY DEF LeavesBelow
    <3> HIDE DEF N
    <3>3. {N(f, s) : s \in Members(e)} = {N(g, s) : s \in Members(e)}  BY <3>1
    <3> QED  BY <3>2, <3>3
  <2> QED  BY <2>2, LeavesMembers
<1>5. \A f, g \in F : \A e \in Values :
        (\A d \in Values : Depth[d] < Depth[e] => f[d] = g[d]) => G[f][e] = G[g][e]
  <2> HIDE DEF F, G
  <2> QED  BY <1>4
<1>6. IsRanked(G, Values, A, Depth)
  <2> HIDE DEF A, G
  <2> QED  BY <1>1, <1>3, <1>5 DEF IsRanked
<1>7. \E f : IsFixpoint(f, G, Values, A)
  <2> HIDE DEF G
  <2>1. {} \in A  OBVIOUS
  <2> HIDE DEF A
  <2> QED  BY <1>6, <2>1, RankedRecursion
<1> QED  BY <1>7 DEF IsFixpoint

LEMMA LeavesFacts ==
  ASSUME NEW e \in Values
  PROVE  /\ Leaves[e] \subseteq Leaf
         /\ Leaves[e] = LeavesBelow(Leaves, e)
<1> DEFINE P(f) == f = [d \in Values |-> LeavesStep(f, d)]
<1>1. Leaves = CHOOSE f : P(f)
  BY DEF Leaves, LeavesStep
<1>2. P(Leaves)
  <2>1. \E f : P(f)  BY LeavesExist
  <2> HIDE DEF P
  <2> QED  BY <1>1, <2>1
<1>3. \A d \in Values : Leaves[d] = LeavesBelow(Leaves, d)
  BY <1>2, LeavesMembers
<1>4. Values \subseteq {d \in Values : Leaves[d] \subseteq Leaf}
  <2> DEFINE S == {d \in Values : Leaves[d] \subseteq Leaf}
  <2>1. ASSUME NEW d \in Values, \A s \in Members(d) : StepInto(d, s) \in S
        PROVE  d \in S
    <3>1. ASSUME NEW s \in Members(d)
          PROVE  {Below(s, leaf) : leaf \in Leaves[StepInto(d, s)]} \subseteq Leaf
      <4>1. s \in Steps  BY MemberFacts
      <4>2. Leaves[StepInto(d, s)] \subseteq Leaf  BY <2>1
      <4> QED  BY <4>1, <4>2, BelowFacts
    <3>2. [path |-> <<>>, value |-> d] \in Leaf
      <4>1. <<>> \in Paths  BY DEF Paths
      <4> QED  BY <4>1 DEF Leaf
    <3>3. LeavesBelow(Leaves, d) \subseteq Leaf
      BY <3>1, <3>2 DEF LeavesBelow
    <3> QED  BY <1>3, <3>3
  <2> HIDE DEF S
  <2> QED  BY <2>1, ValueInduction DEF S
<1> QED  BY <1>3, <1>4

(* Every value has a leaf. *)
LEMMA LeavesNotEmpty == \A e \in Values : Leaves[e] # {}
<1> DEFINE S == {d \in Values : Leaves[d] # {}}
<1>1. ASSUME NEW d \in Values, \A s \in Members(d) : StepInto(d, s) \in S
      PROVE  d \in S
  <2>1. CASE Compound(d) /\ Members(d) # {}
    <3>1. PICK s \in Members(d) : TRUE  BY <2>1
    <3>2. PICK leaf : leaf \in Leaves[StepInto(d, s)]  BY <1>1
    <3>3. Below(s, leaf) \in LeavesBelow(Leaves, d)
      BY <2>1, <3>1, <3>2 DEF LeavesBelow
    <3> QED  BY <3>3, LeavesFacts
  <2>2. CASE ~(Compound(d) /\ Members(d) # {})
    <3>1. LeavesBelow(Leaves, d) = {[path |-> <<>>, value |-> d]}
      BY <2>2 DEF LeavesBelow
    <3> QED  BY <3>1, LeavesFacts
  <2> QED  BY <2>1, <2>2
<1>2. Values \subseteq S
  <2> HIDE DEF S
  <2> QED  BY <1>1, ValueInduction
<1> QED  BY <1>2

-----------------------------------------------------------------------------
(* What is complained about, path by path. *)
Complains(x, start, path, value, found, rules) ==
  \/ \E n \in 1..Len(path) : /\ found[n] = Absent /\ found[n-1] # Absent
                             /\ x = start \o SubSeq(path, 1, n)
  \/ /\ ~Compound(value) /\ found[Len(path)] # Absent
     /\ ~ValuesMatch(start \o path, value, found[Len(path)], rules)
     /\ x = start \o path

LEMMA ComplaintFacts ==
  ASSUME NEW start, NEW leaf, NEW a, NEW rules, NEW x
  PROVE  x \in Complaint(start, leaf, a, rules) <=>
           Complains(x, start, leaf.path, leaf.value, Along(a, leaf.path), rules)
BY DEF Complaint, Complains, Compound, Miss

(* Below a member that is there: the complaint about the leaf of the member. *)
LEMMA ComplaintBelow ==
  ASSUME NEW start \in Paths, NEW a \in Values, NEW s \in Members(a), NEW leaf \in Leaf,
         NEW rules, NEW x
  PROVE  x \in Complaint(start, Below(s, leaf), a, rules)
           <=> x \in Complaint(Append(start, s), leaf, StepInto(a, s), rules)
<1> DEFINE q == leaf.path
           p == <<s>> \o q
           w == StepInto(a, s)
           f == Along(a, p)
           g == Along(w, q)
           L == Len(q)
           to == Append(start, s)
<1>0. s \in Steps /\ w \in Values /\ a \in Places /\ w \in Places /\ q \in Paths
      /\ w # Absent /\ a # Absent
  BY MemberFacts DEF Leaf, Places
<1>1. /\ Len(p) = L + 1 /\ L \in Nat
      /\ start \o p = to \o q
      /\ \A n \in 1..L : start \o SubSeq(p, 1, n + 1) = to \o SubSeq(q, 1, n)
  <2> HIDE DEF q
  <2> QED  BY <1>0, PathsBelow
<1>2. \A n \in 0..L : f[n + 1] = g[n]  BY <1>0, AlongBelow
<1>3. f[0] = a
  <2>1. p \in Paths  BY <1>0, PathsBelow
  <2> QED  BY <1>0, <2>1, AlongFacts
<1>4. g[0] = w  BY <1>0, AlongFacts
<1>5. x \in Complaint(start, Below(s, leaf), a, rules)
        <=> Complains(x, start, p, leaf.value, f, rules)
  <2>1. Below(s, leaf).path = p /\ Below(s, leaf).value = leaf.value  BY <1>0, BelowFacts
  <2> HIDE DEF p
  <2> QED  BY <2>1, ComplaintFacts
<1>6. x \in Complaint(to, leaf, w, rules) <=> Complains(x, to, q, leaf.value, g, rules)
  BY ComplaintFacts
<1> HIDE DEF p, f, g, q, to, w
<1>7. (\E n \in 1..(L + 1) : /\ f[n] = Absent /\ f[n-1] # Absent
                             /\ x = start \o SubSeq(p, 1, n))
        <=> \E n \in 1..L : /\ g[n] = Absent /\ g[n-1] # Absent
                            /\ x = to \o SubSeq(q, 1, n)
  <2>1. ASSUME NEW n \in 1..(L + 1), f[n] = Absent, f[n-1] # Absent,
               x = start \o SubSeq(p, 1, n)
        PROVE  \E m \in 1..L : g[m] = Absent /\ g[m-1] # Absent /\ x = to \o SubSeq(q, 1, m)
    <3>1. n # 1
      <4>1. 0 \in 0..L /\ 0 + 1 = 1  BY <1>1
      <4>2. f[1] = w  BY <1>2, <1>4, <4>1
      <4> QED  BY <1>0, <2>1, <4>2
    <3>2. n - 1 \in 1..L /\ (n - 1) + 1 = n /\ n - 1 \in 0..L
          /\ (n - 1) - 1 \in 0..L /\ ((n - 1) - 1) + 1 = n - 1
      BY <3>1, <1>1
    <3>3. f[n] = g[n - 1] /\ f[n - 1] = g[(n - 1) - 1]  BY <1>2, <3>2
    <3>4. start \o SubSeq(p, 1, n) = to \o SubSeq(q, 1, n - 1)  BY <1>1, <3>2
    <3> QED  BY <2>1, <3>2, <3>3, <3>4
  <2>2. ASSUME NEW n \in 1..L, g[n] = Absent, g[n-1] # Absent, x = to \o SubSeq(q, 1, n)
        PROVE  \E m \in 1..(L + 1) : f[m] = Absent /\ f[m-1] # Absent
                                     /\ x = start \o SubSeq(p, 1, m)
    <3>1. n + 1 \in 1..(L + 1) /\ (n + 1) - 1 = n /\ n \in 0..L
          /\ n - 1 \in 0..L /\ (n - 1) + 1 = n
      BY <1>1
    <3>2. f[n + 1] = g[n] /\ f[(n + 1) - 1] = g[n - 1]  BY <1>2, <3>1
    <3>3. start \o SubSeq(p, 1, n + 1) = to \o SubSeq(q, 1, n)  BY <1>1
    <3> QED  BY <2>2, <3>1, <3>2, <3>3
  <2> QED  BY <2>1, <2>2
<1>8. f[L + 1] = g[L]
  <2>1. L \in 0..L  BY <1>1
  <2> QED  BY <1>2, <2>1
<1>9. Complains(x, start, p, leaf.value, f, rules) <=> Complains(x, to, q, leaf.value, g, rules)
  BY <1>1, <1>7, <1>8 DEF Complains
<1>10. x \in Complaint(start, Below(s, leaf), a, rules)
        <=> x \in Complaint(to, leaf, w, rules)
  BY <1>5, <1>6, <1>9
<1> QED  BY <1>10 DEF to, w

(* Below a member that is missing: its own path, once. *)
LEMMA ComplaintMissing ==
  ASSUME NEW start \in Paths, NEW a \in Values, NEW s \in Steps, s \notin Members(a),
         NEW leaf \in Leaf, NEW rules, NEW x
  PROVE  x \in Complaint(start, Below(s, leaf), a, rules) <=> x = Append(start, s)
<1> DEFINE q == leaf.path
           p == <<s>> \o q
           f == Along(a, p)
           L == Len(q)
<1>0. StepInto(a, s) = Absent /\ a \in Places /\ q \in Paths /\ a # Absent
  BY MemberFacts DEF Leaf, Places
<1>1. Len(p) = L + 1 /\ L \in Nat /\ start \o SubSeq(p, 1, 1) = Append(start, s)
  BY <1>0, PathsBelow
<1>2. \A n \in 0..L : f[n + 1] = Absent
  <2>1. \A n \in 0..L : f[n + 1] = Along(Absent, q)[n]  BY <1>0, AlongBelow
  <2> HIDE DEF f, L, q
  <2>2. \A n \in 0..Len(q) : Along(Absent, q)[n] = Absent  BY <1>0, AbsentAlong
  <2> QED  BY <2>1, <2>2 DEF L
<1>3. f[0] = a
  <2>1. p \in Paths  BY <1>0, PathsBelow
  <2> QED  BY <1>0, <2>1, AlongFacts
<1>4. x \in Complaint(start, Below(s, leaf), a, rules)
        <=> Complains(x, start, p, leaf.value, f, rules)
  <2>1. Below(s, leaf).path = p /\ Below(s, leaf).value = leaf.value  BY <1>0, BelowFacts
  <2> HIDE DEF p
  <2> QED  BY <2>1, ComplaintFacts
<1> HIDE DEF p, f, L, q
<1>5. f[Len(p)] = Absent
  <2>1. L \in 0..L  BY <1>1
  <2> QED  BY <1>1, <1>2, <2>1
<1>6. \A n \in 1..Len(p) : f[n] = Absent /\ (f[n-1] # Absent <=> n = 1)
  <2> SUFFICES ASSUME NEW n \in 1..(L + 1)
               PROVE  f[n] = Absent /\ (f[n-1] # Absent <=> n = 1)
    BY <1>1
  <2>1. n - 1 \in 0..L /\ (n - 1) + 1 = n  BY <1>1
  <2>2. f[n] = Absent  BY <1>2, <2>1
  <2>3. CASE n = 1  BY <1>0, <1>3, <2>2, <2>3
  <2>4. CASE n # 1
    <3>1. (n - 1) - 1 \in 0..L /\ ((n - 1) - 1) + 1 = n - 1  BY <1>1, <2>4
    <3> QED  BY <1>2, <2>2, <2>4, <3>1
  <2> QED  BY <2>3, <2>4
<1>7. 1 \in 1..Len(p)  BY <1>1
<1>8. Complains(x, start, p, leaf.value, f, rules) <=> x = Append(start, s)
  BY <1>1, <1>5, <1>6, <1>7 DEF Complains
<1> QED  BY <1>4, <1>8

(* A comparison complains about the leaves of what is expected. *)
LEMMA StructuredComplaints ==
  ASSUME NEW rules, NEW path \in Paths, NEW e \in Values, NEW a \in Values
  PROVE  CompareStructured(path, e, a, rules) = Complaints(path, e, a, rules)
<1> DEFINE S == {v \in Values : \A p \in Paths, b \in Values :
                   CompareStructured(p, v, b, rules) = Complaints(p, v, b, rules)}
<1>1. \A p, v, b, x : x \in Complaints(p, v, b, rules) <=>
                        \E leaf \in Leaves[v] : x \in Complaint(p, leaf, b, rules)
  BY DEF Complaints
<1>2. ASSUME NEW v \in Values, \A s \in Members(v) : StepInto(v, s) \in S
      PROVE  v \in S
  <2> SUFFICES ASSUME NEW p \in Paths, NEW b \in Values
               PROVE  \A x : x \in CompareStructured(p, v, b, rules)
                               <=> x \in Complaints(p, v, b, rules)
    OBVIOUS
  <2> TAKE x
  <2>1. CASE Compound(v) /\ Members(v) # {}
    <3>1. \A y : y \in Leaves[v] <=>
                   \E s \in Members(v) : \E leaf \in Leaves[StepInto(v, s)] : y = Below(s, leaf)
      <4> DEFINE N(s) == {Below(s, leaf) : leaf \in Leaves[StepInto(v, s)]}
      <4>1. Leaves[v] = UNION {N(s) : s \in Members(v)}
        <5>1. LeavesBelow(Leaves, v) = UNION {N(s) : s \in Members(v)}
          BY <2>1 DEF LeavesBelow
        <5> HIDE DEF N
        <5> QED  BY <5>1, LeavesFacts
      <4>2. \A y, s : y \in N(s) <=> \E leaf \in Leaves[StepInto(v, s)] : y = Below(s, leaf)
        OBVIOUS
      <4>3. \A y : y \in Leaves[v] <=> \E s \in Members(v) : y \in N(s)
        <5> HIDE DEF N
        <5> QED  BY <4>1
      <4> HIDE DEF N
      <4> QED  BY <4>2, <4>3
    <3>2. x \in Complaints(p, v, b, rules) <=>
            \E s \in Members(v) : \E leaf \in Leaves[StepInto(v, s)] :
              x \in Complaint(p, Below(s, leaf), b, rules)
      BY <1>1, <3>1
    <3>3. ASSUME NEW s \in Members(v)
          PROVE  (\E leaf \in Leaves[StepInto(v, s)] : x \in Complaint(p, Below(s, leaf), b, rules))
                   <=> \/ /\ s \in Members(b)
                          /\ x \in CompareStructured(Append(p, s), StepInto(v, s),
                                                     StepInto(b, s), rules)
                       \/ s \notin Members(b) /\ x = Append(p, s)
      <4>1. s \in Steps /\ StepInto(v, s) \in Values /\ Append(p, s) \in Paths
        BY MembersCompared
      <4>2. \A leaf \in Leaves[StepInto(v, s)] : leaf \in Leaf  BY <4>1, LeavesFacts
      <4>3. CASE s \in Members(b)
        <5>1. StepInto(b, s) \in Values  BY <4>3, MemberFacts
        <5>2. CompareStructured(Append(p, s), StepInto(v, s), StepInto(b, s), rules)
                = Complaints(Append(p, s), StepInto(v, s), StepInto(b, s), rules)
          BY <1>2, <4>1, <5>1
        <5>3. \A leaf \in Leaves[StepInto(v, s)] :
                x \in Complaint(p, Below(s, leaf), b, rules)
                  <=> x \in Complaint(Append(p, s), leaf, StepInto(b, s), rules)
          BY <4>2, <4>3, ComplaintBelow
        <5> QED  BY <1>1, <4>3, <5>2, <5>3
      <4>4. CASE s \notin Members(b)
        <5>1. \A leaf \in Leaves[StepInto(v, s)] :
                x \in Complaint(p, Below(s, leaf), b, rules) <=> x = Append(p, s)
          BY <4>1, <4>2, <4>4, ComplaintMissing
        <5>2. Leaves[StepInto(v, s)] # {}  BY <4>1, LeavesNotEmpty
        <5> QED  BY <4>4, <5>1, <5>2
      <4> QED  BY <4>3, <4>4
    <3>4. x \in CompareStructured(p, v, b, rules) <=>
            \E s \in Members(v) :
              \/ /\ s \in Members(b)
                 /\ x \in CompareStructured(Append(p, s), StepInto(v, s), StepInto(b, s), rules)
              \/ s \notin Members(b) /\ x = Append(p, s)
      BY <2>1, ReportedPaths
    <3> QED  BY <3>2, <3>3, <3>4
  <2>2. CASE ~(Compound(v) /\ Members(v) # {})
    <3> DEFINE leaf == [path |-> <<>>, value |-> v]
    <3>1. Leaves[v] = {leaf}  BY <2>2, LeavesFacts DEF LeavesBelow
    <3>2. x \in Complaints(p, v, b, rules)
            <=> Complains(x, p, <<>>, v, Along(b, <<>>), rules)
      <4>1. leaf.path = <<>> /\ leaf.value = v  OBVIOUS
      <4> HIDE DEF leaf
      <4> QED  BY <1>1, <3>1, <4>1, ComplaintFacts
    <3>3. <<>> \in Paths /\ Len(<<>>) = 0 /\ p \o <<>> = p
      <4>1. p \in Seq(Steps)  BY DEF Paths
      <4> QED  BY <4>1, ConcatEmptySeq DEF Paths
    <3>4. Along(b, <<>>)[0] = b /\ b # Absent
      <4>1. b \in Places /\ b # Absent  BY MemberFacts DEF Places
      <4> QED  BY <3>3, <4>1, AlongFacts
    <3>5. Complains(x, p, <<>>, v, Along(b, <<>>), rules)
            <=> ~Compound(v) /\ ~ValuesMatch(p, v, b, rules) /\ x = p
      BY <3>3, <3>4 DEF Complains
    <3>6. CASE Compound(v)
      BY <2>2, <3>2, <3>5, <3>6, ReportedPaths
    <3>7. CASE ~Compound(v)
      BY <3>2, <3>5, <3>7, ScalarCompared DEF Miss
    <3> QED  BY <3>6, <3>7
  <2> QED  BY <2>1, <2>2
<1>3. Values \subseteq S
  <2> HIDE DEF S
  <2> QED  BY <1>2, ValueInduction
<1> QED  BY <1>3

(* A structural comparison reports exactly the leaves of what is expected  *)
(* that are absent or different, and reports each at its own path.         *)
THEOREM SpecStructuredIsLeafwise == Spec => []StructuredIsLeafwise
<1>1. ASSUME Answered, answered, Structural(question)
      PROVE  misses = Complaints(<<>>, question.expected, question.actual, question.rules)
  <2> DEFINE q == question
  <2>1. q \in Questions /\ misses = Outcome(q)  BY <1>1 DEF Answered
  <2>2. q.expected \in Values /\ q.actual \in Values  BY <2>1, QuestionFacts
  <2>3. Outcome(q) = CompareStructured(<<>>, q.expected, q.actual, q.rules)
    <3>1. CASE q.side = "request" /\ q.op # "tools/call"
      BY <3>1 DEF Outcome, MatchRequest, MatchStructuralRequest
    <3>2. CASE /\ q.side = "response" /\ q.op \in {"resources/read", "prompts/get"}
               /\ ~Shape(q.expected) /\ ~Shape(q.actual)
      <4>1. Outcome(q) = Shaped(q.expected, q.actual, q.rules,
                           CompareStructured(<<>>, q.expected, q.actual, q.rules))
        BY <3>2 DEF Outcome, CompareResponse, CompareStructuralResult
      <4>2. Shape(q.expected) = Shape(q.actual)  BY <3>2 DEF Shape, Has
      <4> QED  BY <3>2, <4>1, <4>2 DEF Shaped
    <3> QED  BY <1>1, <3>1, <3>2 DEF Structural
  <2> QED  BY <2>1, <2>2, <2>3, KnownPaths, StructuredComplaints
<1>2. Answered => StructuredIsLeafwise
  BY <1>1 DEF StructuredIsLeafwise
<1> QED  BY <1>2, SpecAnswered, PTL

-----------------------------------------------------------------------------
(* What a walk makes of t, given what it makes of the members of t.        *)
WalkStep(w, t, how) ==
  CASE IsObj(t) -> Obj([k \in DOMAIN t.obj |-> w[t.obj[k]]])
    [] IsArr(t) -> Arr([i \in DOMAIN t.arr |-> w[t.arr[i]]])
    [] OTHER -> Walked(t, how)

LEMMA WalkStepLocal ==
  ASSUME NEW v, NEW w, NEW t \in Values, NEW how,
         \A s \in Values : Depth[s] < Depth[t] => v[s] = w[s]
  PROVE  WalkStep(v, t, how) = WalkStep(w, t, how)
<1>1. CASE IsObj(t)
  <2>1. \A k \in DOMAIN t.obj : v[t.obj[k]] = w[t.obj[k]]  BY <1>1, ValueFacts
  <2>2. [k \in DOMAIN t.obj |-> v[t.obj[k]]] = [k \in DOMAIN t.obj |-> w[t.obj[k]]]
    BY <2>1
  <2>3. \A x : WalkStep(x, t, how) = Obj([k \in DOMAIN t.obj |-> x[t.obj[k]]])
    <3>1. ~IsArr(t)  BY <1>1 DEF IsArr, IsObj
    <3> QED  BY <1>1, <3>1 DEF WalkStep
  <2> QED  BY <2>2, <2>3
<1>2. CASE IsArr(t)
  <2>1. \A i \in DOMAIN t.arr : v[t.arr[i]] = w[t.arr[i]]  BY <1>2, ValueFacts
  <2>2. [i \in DOMAIN t.arr |-> v[t.arr[i]]] = [i \in DOMAIN t.arr |-> w[t.arr[i]]]
    BY <2>1
  <2>3. \A x : WalkStep(x, t, how) = Arr([i \in DOMAIN t.arr |-> x[t.arr[i]]])
    <3>1. ~IsObj(t)  BY <1>2 DEF IsArr, IsObj
    <3> QED  BY <1>2, <3>1 DEF WalkStep
  <2> QED  BY <2>2, <2>3
<1>3. CASE ~IsObj(t) /\ ~IsArr(t)
  BY <1>3 DEF WalkStep
<1> QED  BY <1>1, <1>2, <1>3

(* There is such a walk: one of the values below every depth, which agree. *)
LEMMA WalkExists ==
  ASSUME NEW how
  PROVE  \E w : w = [t \in Values |-> WalkStep(w, t, how)]
<1> DEFINE Upto(n) == {t \in Values : Depth[t] < n}
           Approx(w, n) == w = [t \in Upto(n) |-> WalkStep(w, t, how)]
<1>0. \A t \in Values : Depth[t] \in Nat  BY ValueFacts
<1>1. ASSUME NEW v, NEW w, NEW m \in Nat, NEW n \in Nat, Approx(v, m), Approx(w, n)
      PROVE  \A t \in Upto(m) \cap Upto(n) : v[t] = w[t]
  <2> DEFINE S == {d \in Nat : \A t \in Upto(m) \cap Upto(n) : Depth[t] < d => v[t] = w[t]}
  <2>1. 0 \in S  BY <1>0
  <2>2. ASSUME NEW d \in Nat, d \in S PROVE d + 1 \in S
    <3> SUFFICES ASSUME NEW t \in Upto(m) \cap Upto(n), Depth[t] < d + 1
                 PROVE  v[t] = w[t]
      OBVIOUS
    <3>1. \A s \in Values : Depth[s] < Depth[t] => v[s] = w[s]
      <4> TAKE s \in Values
      <4> HAVE Depth[s] < Depth[t]
      <4>1. s \in Upto(m) \cap Upto(n) /\ Depth[s] < d  BY <1>0
      <4> QED  BY <4>1, <2>2
    <3>2. WalkStep(v, t, how) = WalkStep(w, t, how)  BY <3>1, WalkStepLocal
    <3>3. v[t] = WalkStep(v, t, how)  BY <1>1
    <3>4. w[t] = WalkStep(w, t, how)  BY <1>1
    <3> QED  BY <3>2, <3>3, <3>4
  <2>3. Nat \subseteq S
    <3> HIDE DEF S
    <3> QED  BY <2>1, <2>2, NaturalInduction
  <2> QED
    <3> TAKE t \in Upto(m) \cap Upto(n)
    <3>1. Depth[t] + 1 \in S /\ Depth[t] < Depth[t] + 1  BY <2>3, <1>0
    <3> QED  BY <3>1
<1>2. \A n \in Nat : \E w : Approx(w, n)
  <2> DEFINE S == {n \in Nat : \E w : Approx(w, n)}
  <2>1. 0 \in S
    <3> DEFINE w == [t \in Upto(0) |-> WalkStep(Null, t, how)]
    <3>1. Upto(0) = {}  BY <1>0
    <3>2. w = [t \in Upto(0) |-> WalkStep(w, t, how)]  BY <3>1
    <3> QED  BY <3>2
  <2>2. ASSUME NEW n \in Nat, n \in S PROVE n + 1 \in S
    <3>1. PICK v : Approx(v, n)  BY <2>2
    <3> DEFINE w == [t \in Upto(n+1) |-> WalkStep(v, t, how)]
    <3>2. ASSUME NEW t \in Upto(n+1), NEW s \in Values, Depth[s] < Depth[t]
          PROVE  v[s] = w[s]
      <4>1. s \in Upto(n) /\ s \in Upto(n+1)  BY <3>2, <1>0
      <4>2. v[s] = WalkStep(v, s, how)  BY <3>1, <4>1
      <4> QED  BY <4>1, <4>2
    <3>3. \A t \in Upto(n+1) : WalkStep(v, t, how) = WalkStep(w, t, how)
      <4> HIDE DEF w
      <4> QED  BY <3>2, WalkStepLocal
    <3>4. Approx(w, n+1)
      <4> DEFINE u == [t \in Upto(n+1) |-> WalkStep(w, t, how)]
      <4>1. w = u  BY <3>3
      <4> QED  BY <4>1
    <3> HIDE DEF w, Approx
    <3> QED  BY <3>4
  <2> HIDE DEF S
  <2>3. Nat \subseteq S  BY <2>1, <2>2, NaturalInduction
  <2> QED  BY <2>3 DEF S
<1> DEFINE G(t) == CHOOSE w : Approx(w, Depth[t] + 1)
           f == [t \in Values |-> G(t)[t]]
<1>3. \A t \in Values : Approx(G(t), Depth[t] + 1)
  <2> TAKE t \in Values
  <2> DEFINE A(w) == Approx(w, Depth[t] + 1)
  <2>1. \E w : A(w)  BY <1>0, <1>2
  <2>2. G(t) = CHOOSE w : A(w)  OBVIOUS
  <2> HIDE DEF A, G
  <2>3. A(G(t))  BY <2>1, <2>2
  <2> QED  BY <2>3 DEF A
<1>4. ASSUME NEW t \in Values PROVE f[t] = WalkStep(f, t, how)
  <2>1. f[t] = WalkStep(G(t), t, how)
    <3>1. t \in Upto(Depth[t] + 1)  BY <1>0
    <3> HIDE DEF G, Upto
    <3>2. G(t)[t] = WalkStep(G(t), t, how)  BY <3>1, <1>3
    <3> QED  BY <3>2
  <2>2. \A s \in Values : Depth[s] < Depth[t] => G(t)[s] = f[s]
    <3> TAKE s \in Values
    <3> HAVE Depth[s] < Depth[t]
    <3>1. s \in Upto(Depth[t] + 1) \cap Upto(Depth[s] + 1)  BY <1>0
    <3>2. Depth[t] + 1 \in Nat /\ Depth[s] + 1 \in Nat  BY <1>0
    <3> HIDE DEF G, Upto
    <3>3. G(t)[s] = G(s)[s]
      <4>1. Approx(G(t), Depth[t] + 1) /\ Approx(G(s), Depth[s] + 1)  BY <1>3
      <4> HIDE DEF Approx
      <4> QED  BY <4>1, <3>1, <3>2, <1>1
    <3> QED  BY <3>3
  <2> HIDE DEF f, G
  <2>3. WalkStep(G(t), t, how) = WalkStep(f, t, how)  BY <2>2, WalkStepLocal
  <2> QED  BY <2>1, <2>3
<1>5. f = [t \in Values |-> WalkStep(f, t, how)]
  <2> DEFINE g == [t \in Values |-> WalkStep(f, t, how)]
  <2>1. DOMAIN f = Values /\ DOMAIN g = Values  OBVIOUS
  <2>2. \A t \in Values : f[t] = g[t]
    <3> HIDE DEF f
    <3> QED  BY <1>4
  <2>3. f = [t \in Values |-> f[t]]  OBVIOUS
  <2>4. g = [t \in Values |-> g[t]]  OBVIOUS
  <2> HIDE DEF f, g
  <2>5. f = g  BY <2>2, <2>3, <2>4
  <2> QED  BY <2>5 DEF g
<1> QED  BY <1>5

LEMMA WalkFacts ==
  ASSUME NEW how, NEW t \in Values
  PROVE  /\ IsObj(t) => Walk(how)[t] = Obj([k \in DOMAIN t.obj |-> Walk(how)[t.obj[k]]])
         /\ IsArr(t) => Walk(how)[t] = Arr([i \in DOMAIN t.arr |-> Walk(how)[t.arr[i]]])
         /\ ~Compound(t) => Walk(how)[t] = Walked(t, how)
<1> DEFINE P(w) == w = [s \in Values |-> WalkStep(w, s, how)]
<1>1. Walk(how) = CHOOSE w : P(w)  BY DEF Walk, WalkStep
<1>2. P(Walk(how))
  <2>1. \E w : P(w)  BY WalkExists
  <2> HIDE DEF P
  <2> QED  BY <1>1, <2>1
<1>3. Walk(how)[t] = WalkStep(Walk(how), t, how)  BY <1>2
<1>4. ~(IsObj(t) /\ IsArr(t))  BY DEF IsObj, IsArr
<1> QED  BY <1>3, <1>4 DEF WalkStep, Compound

(* A walk keeps the form of a value, and walks each of its members.        *)
LEMMA WalkMembers ==
  ASSUME NEW how, NEW t \in Values, Compound(t), Walk(how)[t] \in Values
  PROVE  /\ Compound(Walk(how)[t]) /\ Kind(Walk(how)[t]) = Kind(t)
         /\ Members(Walk(how)[t]) = Members(t)
         /\ \A s \in Members(t) :
              /\ StepInto(Walk(how)[t], s) = Walk(how)[StepInto(t, s)]
              /\ Walk(how)[StepInto(t, s)] \in Values /\ StepInto(t, s) \in Values
<1> DEFINE w == Walk(how)[t]
<1>1. CASE IsObj(t)
  <2>1. w = Obj([k \in DOMAIN t.obj |-> Walk(how)[t.obj[k]]])  BY <1>1, WalkFacts
  <2>2. Kind(w) = {"obj"} /\ w.obj = [k \in DOMAIN t.obj |-> Walk(how)[t.obj[k]]]
    BY <2>1, Forms
  <2> HIDE DEF w
  <2>3. IsObj(w) /\ ~IsArr(w) /\ ~IsArr(t) /\ Kind(t) = {"obj"}
    BY <1>1, <2>2 DEF IsObj, IsArr
  <2>4. DOMAIN w.obj = DOMAIN t.obj /\ \A k \in DOMAIN t.obj : w.obj[k] = Walk(how)[t.obj[k]]
    BY <2>2
  <2>5. Members(w) = Members(t) /\ Members(t) = {Key(k) : k \in DOMAIN t.obj}
    BY <1>1, <2>3, <2>4 DEF Members
  <2>6. \A k \in DOMAIN t.obj : StepInto(t, Key(k)) = t.obj[k] /\ StepInto(w, Key(k)) = w.obj[k]
    BY <1>1, <2>3, <2>4, Forms DEF StepInto
  <2>7. \A s \in Members(t) : StepInto(w, s) = Walk(how)[StepInto(t, s)]
    BY <2>4, <2>5, <2>6
  <2>8. \A s \in Members(t) : StepInto(w, s) \in Values /\ StepInto(t, s) \in Values
    BY <2>5, MemberFacts DEF w
  <2> QED  BY <2>2, <2>3, <2>5, <2>7, <2>8 DEF w, Compound
<1>2. CASE IsArr(t)
  <2>1. w = Arr([i \in DOMAIN t.arr |-> Walk(how)[t.arr[i]]])  BY <1>2, WalkFacts
  <2>2. Kind(w) = {"arr"} /\ w.arr = [i \in DOMAIN t.arr |-> Walk(how)[t.arr[i]]]
    BY <2>1, Forms
  <2> HIDE DEF w
  <2>3. IsArr(w) /\ ~IsObj(w) /\ ~IsObj(t) /\ Kind(t) = {"arr"}
    BY <1>2, <2>2 DEF IsObj, IsArr
  <2>4. DOMAIN w.arr = DOMAIN t.arr /\ \A i \in DOMAIN t.arr : w.arr[i] = Walk(how)[t.arr[i]]
    BY <2>2
  <2>5. Members(w) = Members(t) /\ Members(t) = {Index(i) : i \in DOMAIN t.arr}
    BY <1>2, <2>3, <2>4 DEF Members
  <2>6. \A i \in DOMAIN t.arr : StepInto(t, Index(i)) = t.arr[i]
                                /\ StepInto(w, Index(i)) = w.arr[i]
    BY <1>2, <2>3, <2>4, Forms DEF StepInto
  <2>7. \A s \in Members(t) : StepInto(w, s) = Walk(how)[StepInto(t, s)]
    BY <2>4, <2>5, <2>6
  <2>8. \A s \in Members(t) : StepInto(w, s) \in Values /\ StepInto(t, s) \in Values
    BY <2>5, MemberFacts DEF w
  <2> QED  BY <2>2, <2>3, <2>5, <2>7, <2>8 DEF w, Compound
<1> QED  BY <1>1, <1>2 DEF Compound

(* What is not an object or an array is its own leaf. *)
LEMMA LeafAlone ==
  ASSUME NEW t \in Values, ~(Compound(t) /\ Members(t) # {})
  PROVE  Leaves[t] = {[path |-> <<>>, value |-> t]}
BY LeavesFacts DEF LeavesBelow

LEMMA LeavesOfMembers ==
  ASSUME NEW t \in Values, Compound(t), Members(t) # {}, NEW leaf
  PROVE  leaf \in Leaves[t] <=>
           \E s \in Members(t) : \E l \in Leaves[StepInto(t, s)] : leaf = Below(s, l)
<1> DEFINE N(s) == {Below(s, l) : l \in Leaves[StepInto(t, s)]}
<1>1. LeavesBelow(Leaves, t) = UNION {N(s) : s \in Members(t)}
  BY DEF LeavesBelow
<1>2. \A s : leaf \in N(s) <=> \E l \in Leaves[StepInto(t, s)] : leaf = Below(s, l)
  OBVIOUS
<1> HIDE DEF N
<1>3. leaf \in Leaves[t] <=> \E s \in Members(t) : leaf \in N(s)
  BY <1>1, LeavesFacts
<1> QED  BY <1>2, <1>3

(* Templates whose matchers could be written with the helpers. *)
Proper(t) == \A leaf \in Leaves[t] : IsDefinition(leaf.value) => FitsHelper(leaf.value)

LEMMA ProperFacts ==
  ASSUME NEW t \in Values, Proper(t)
  PROVE  /\ \A s \in Members(t) : Proper(StepInto(t, s))
         /\ IsDefinition(t) => FitsHelper(t)
<1>1. ASSUME NEW s \in Members(t), NEW l \in Leaves[StepInto(t, s)], IsDefinition(l.value)
      PROVE  FitsHelper(l.value)
  <2>1. Compound(t) /\ Members(t) # {}
    BY DEF Members, Compound
  <2>2. Below(s, l) \in Leaves[t]  BY <2>1, LeavesOfMembers
  <2>3. Below(s, l).value = l.value  BY DEF Below
  <2> QED  BY <1>1, <2>2, <2>3 DEF Proper
<1>2. ASSUME IsDefinition(t) PROVE FitsHelper(t)
  <2>1. ~Compound(t)  BY <1>2 DEF IsDefinition, Compound, IsObj, IsArr
  <2>2. [path |-> <<>>, value |-> t] \in Leaves[t]  BY <2>1, LeafAlone
  <2> QED  BY <1>2, <2>2 DEF Proper
<1> QED  BY <1>1, <1>2 DEF Proper

-----------------------------------------------------------------------------
(* What becomes of a leaf. *)
LEMMA NumberFacts ==
  /\ \A n, f : IsNum(Number(n, f)) /\ Number(n, f).num.of = n
  /\ \A v : IsNum(v) => ~IsDefinition(v) /\ ~Compound(v) /\ ~IsStr(v)
  /\ \A v : IsDefinition(v) => ~IsNum(v) /\ ~Compound(v) /\ ~IsStr(v)
<1>1. \A n, f : IsNum(Number(n, f)) /\ Number(n, f).num.of = n
  BY Forms DEF Number, IsNum
<1> QED  BY <1>1 DEF IsNum, IsDefinition, Compound, IsObj, IsArr, IsStr

LEMMA WalkedFacts ==
  ASSUME NEW t
  PROVE  /\ Walked(t, "double") = IF IsNum(t) THEN Number(t.num.of, TRUE) ELSE t
         /\ Walked(t, "strip") = IF IsDefinition(t) THEN ExampleValue(t) ELSE t
         /\ Walked(t, "plain") = IF IsDefinition(t) THEN t.example ELSE t
         /\ Walked(t, "js") = IF IsNum(t) THEN JsNumber(t.num.of) ELSE t
BY DEF Walked

(* The example of a matcher is a scalar, which JavaScript spells as it is. *)
LEMMA HelperFacts ==
  ASSUME NEW t, IsDefinition(t), FitsHelper(t)
  PROVE  /\ ~Compound(t.example) /\ ~IsDefinition(t.example)
         /\ Walked(t.example, "js") = t.example
         /\ Walked(ExampleValue(t), "js") = t.example
         /\ ~Compound(ExampleValue(t)) /\ ~IsNum(t)
         /\ t.matcher \in {"number", "integer"} => IsNum(t.example)
         /\ t.matcher = "boolean" => Kind(t.example) = {"bool"}
         /\ t.matcher \notin {"number", "integer", "boolean"} =>
              IsStr(t.example) /\ Kind(t.example) = {"str"}
<1>0. ~IsNum(t)  BY NumberFacts
<1>1. CASE t.matcher \in {"number", "integer"}
  <2>1. IsNum(t.example) /\ t.example = JsNumber(t.example.num.of)
    BY <1>1 DEF FitsHelper
  <2>2. ExampleValue(t) = IF t.matcher = "number" THEN Number(t.example.num.of, TRUE)
                          ELSE t.example
    BY DEF ExampleValue
  <2>3. IsNum(Number(t.example.num.of, TRUE))
        /\ Number(t.example.num.of, TRUE).num.of = t.example.num.of
    BY NumberFacts
  <2>4. Walked(t.example, "js") = t.example  BY <2>1, WalkedFacts
  <2>5. Walked(ExampleValue(t), "js") = t.example
    BY <2>1, <2>2, <2>3, WalkedFacts
  <2> QED  BY <1>0, <1>1, <2>1, <2>2, <2>3, <2>4, <2>5, NumberFacts
<1>2. CASE t.matcher \notin {"number", "integer"}
  <2>1. ExampleValue(t) = t.example  BY <1>2 DEF ExampleValue
  <2>2. IF t.matcher = "boolean" THEN t.example \in [bool : BOOLEAN]
        ELSE t.example \in [str : STRING]
    BY <1>2 DEF FitsHelper
  <2>3. IF t.matcher = "boolean" THEN Kind(t.example) = {"bool"} ELSE Kind(t.example) = {"str"}
    BY <2>2 DEF Kind
  <2>4. ~Compound(t.example) /\ ~IsDefinition(t.example) /\ ~IsNum(t.example)
    BY <2>3 DEF Compound, IsObj, IsArr, IsDefinition, IsNum
  <2>5. Walked(t.example, "js") = t.example  BY <2>4, WalkedFacts
  <2> QED  BY <1>0, <1>2, <2>1, <2>3, <2>4, <2>5 DEF IsStr
<1> QED  BY <1>1, <1>2

LEMMA LeafWalks ==
  ASSUME NEW t, ~Compound(t), IsDefinition(t) => FitsHelper(t)
  PROVE  /\ \A how \in {"double", "strip", "plain", "js"} : ~Compound(Walked(t, how))
         /\ ~Compound(Walked(Walked(t, "double"), "strip"))
         /\ Walked(Walked(Walked(t, "double"), "strip"), "js") = Walked(Walked(t, "plain"), "js")
<1>1. CASE IsDefinition(t)
  <2>1. /\ Walked(t, "double") = t /\ Walked(t, "js") = t /\ Walked(t, "strip") = ExampleValue(t)
        /\ Walked(t, "plain") = t.example
    BY <1>1, WalkedFacts, HelperFacts
  <2> QED  BY <1>1, <2>1, HelperFacts
<1>2. CASE IsNum(t)
  <2>1. ~IsDefinition(t)  BY <1>2, NumberFacts
  <2> DEFINE n == Number(t.num.of, TRUE)
  <2>2. IsNum(n) /\ ~IsDefinition(n) /\ ~Compound(n) /\ n.num.of = t.num.of
    BY NumberFacts
  <2> HIDE DEF n
  <2>3. Walked(t, "double") = n  BY <1>2, WalkedFacts DEF n
  <2>4. Walked(n, "strip") = n /\ Walked(t, "strip") = t /\ Walked(t, "plain") = t
    BY <2>1, <2>2, WalkedFacts
  <2>5. Walked(n, "js") = JsNumber(t.num.of) /\ Walked(t, "js") = JsNumber(t.num.of)
    BY <1>2, <2>2, WalkedFacts
  <2>6. ~Compound(JsNumber(t.num.of))  BY NumberFacts DEF JsNumber
  <2> QED  BY <2>2, <2>3, <2>4, <2>5, <2>6
<1>3. CASE ~IsDefinition(t) /\ ~IsNum(t)
  BY <1>3, WalkedFacts
<1> QED  BY <1>1, <1>2, <1>3

(* The walks that lead from a template to what is persisted of it, and to  *)
(* its example.                                                            *)
Raw(t) == Walk("double")[t]
Stripped(t) == Walk("strip")[Raw(t)]
Plainly(t) == Walk("plain")[t]
Walkable(t) == {t, Raw(t), Stripped(t), Plainly(t), ExampleOf(t)} \subseteq Values

LEMMA ScalarWalks ==
  ASSUME NEW t, ~Compound(t), Proper(t), Walkable(t)
  PROVE  /\ Raw(t) = Walked(t, "double") /\ ~Compound(Raw(t))
         /\ Stripped(t) = Walked(Raw(t), "strip") /\ ~Compound(Stripped(t))
         /\ Plainly(t) = Walked(t, "plain") /\ ~Compound(Plainly(t))
         /\ ExampleOf(t) = Walked(Plainly(t), "js")
         /\ Walk("js")[Stripped(t)] = ExampleOf(t)
         /\ IsDefinition(t) => FitsHelper(t)
<1>0. /\ t \in Values /\ Raw(t) \in Values /\ Stripped(t) \in Values /\ Plainly(t) \in Values
  BY DEF Walkable
<1>1. IsDefinition(t) => FitsHelper(t)  BY <1>0, ProperFacts
<1>2. Raw(t) = Walked(t, "double") /\ ~Compound(Raw(t))  BY <1>0, <1>1, WalkFacts, LeafWalks DEF Raw
<1>3. Stripped(t) = Walked(Raw(t), "strip")  BY <1>0, <1>2, WalkFacts DEF Stripped
<1>4. ~Compound(Stripped(t))  BY <1>1, <1>2, <1>3, LeafWalks
<1>5. Plainly(t) = Walked(t, "plain") /\ ~Compound(Plainly(t))
  BY <1>0, <1>1, WalkFacts, LeafWalks DEF Plainly
<1>6. ExampleOf(t) = Walked(Plainly(t), "js")
  BY <1>0, <1>5, WalkFacts DEF ExampleOf, JsRewrite, Plainly
<1>7. Walk("js")[Stripped(t)] = Walked(Stripped(t), "js")  BY <1>0, <1>4, WalkFacts
<1> QED  BY <1>1, <1>2, <1>3, <1>4, <1>5, <1>6, <1>7, LeafWalks

LEMMA CompoundWalks ==
  ASSUME NEW t, Compound(t), Walkable(t)
  PROVE  /\ \A w \in {Raw(t), Stripped(t), Plainly(t), ExampleOf(t)} :
              Compound(w) /\ Kind(w) = Kind(t) /\ Members(w) = Members(t)
         /\ \A s \in Members(t) :
              /\ StepInto(Raw(t), s) = Raw(StepInto(t, s))
              /\ StepInto(Stripped(t), s) = Stripped(StepInto(t, s))
              /\ StepInto(Plainly(t), s) = Plainly(StepInto(t, s))
              /\ StepInto(ExampleOf(t), s) = ExampleOf(StepInto(t, s))
              /\ Walkable(StepInto(t, s))
<1>0. /\ t \in Values /\ Raw(t) \in Values /\ Stripped(t) \in Values
      /\ Plainly(t) \in Values /\ ExampleOf(t) \in Values
  BY DEF Walkable
<1>1. /\ Compound(Raw(t)) /\ Kind(Raw(t)) = Kind(t) /\ Members(Raw(t)) = Members(t)
      /\ \A s \in Members(t) : StepInto(Raw(t), s) = Raw(StepInto(t, s))
                               /\ StepInto(Raw(t), s) \in Values /\ StepInto(t, s) \in Values
  BY <1>0, WalkMembers DEF Raw
<1>2. /\ Compound(Stripped(t)) /\ Kind(Stripped(t)) = Kind(t) /\ Members(Stripped(t)) = Members(t)
      /\ \A s \in Members(t) : StepInto(Stripped(t), s) = Stripped(StepInto(t, s))
                               /\ StepInto(Stripped(t), s) \in Values
  <2>1. /\ Compound(Stripped(t)) /\ Kind(Stripped(t)) = Kind(Raw(t))
        /\ Members(Stripped(t)) = Members(Raw(t))
        /\ \A s \in Members(Raw(t)) :
             /\ StepInto(Stripped(t), s) = Walk("strip")[StepInto(Raw(t), s)]
             /\ Walk("strip")[StepInto(Raw(t), s)] \in Values
    BY <1>0, <1>1, WalkMembers DEF Stripped
  <2> QED  BY <1>1, <2>1 DEF Stripped
<1>3. /\ Compound(Plainly(t)) /\ Kind(Plainly(t)) = Kind(t) /\ Members(Plainly(t)) = Members(t)
      /\ \A s \in Members(t) : StepInto(Plainly(t), s) = Plainly(StepInto(t, s))
                               /\ StepInto(Plainly(t), s) \in Values
  BY <1>0, WalkMembers DEF Plainly
<1>4. /\ Compound(ExampleOf(t)) /\ Kind(ExampleOf(t)) = Kind(t)
      /\ Members(ExampleOf(t)) = Members(t)
      /\ \A s \in Members(t) : StepInto(ExampleOf(t), s) = ExampleOf(StepInto(t, s))
                               /\ StepInto(ExampleOf(t), s) \in Values
  <2>0. \A v : ExampleOf(v) = Walk("js")[Plainly(v)]  BY DEF ExampleOf, JsRewrite, Plainly
  <2>1. /\ Compound(ExampleOf(t)) /\ Kind(ExampleOf(t)) = Kind(Plainly(t))
        /\ Members(ExampleOf(t)) = Members(Plainly(t))
        /\ \A s \in Members(Plainly(t)) :
             /\ StepInto(ExampleOf(t), s) = Walk("js")[StepInto(Plainly(t), s)]
             /\ Walk("js")[StepInto(Plainly(t), s)] \in Values
    <3>1. Walk("js")[Plainly(t)] \in Values  BY <1>0, <2>0
    <3> QED  BY <1>0, <1>3, <2>0, <3>1, WalkMembers
  <2> QED  BY <1>3, <2>0, <2>1
<1> QED  BY <1>1, <1>2, <1>3, <1>4 DEF Walkable

LEMMA SameWalk ==
  ASSUME NEW how, NEW b \in Values, NEW p \in Values, Compound(b), Kind(b) = Kind(p),
         Members(b) = Members(p),
         \A s \in Members(b) : Walk(how)[StepInto(b, s)] = Walk(how)[StepInto(p, s)]
  PROVE  Walk(how)[b] = Walk(how)[p]
<1>1. CASE IsObj(b)
  <2>1. IsObj(p) /\ ~IsArr(p) /\ ~IsArr(b)  BY <1>1 DEF IsObj, IsArr
  <2>2. Members(b) = {Key(k) : k \in DOMAIN b.obj} /\ Members(p) = {Key(k) : k \in DOMAIN p.obj}
    BY <1>1, <2>1 DEF Members
  <2>3. DOMAIN b.obj = DOMAIN p.obj
    <3>1. \A k : Key(k).key = k  BY Forms
    <3>2. \A k : Key(k) \in Members(b) <=> k \in DOMAIN b.obj  BY <2>2, <3>1
    <3>3. \A k : Key(k) \in Members(p) <=> k \in DOMAIN p.obj  BY <2>2, <3>1
    <3> QED  BY <3>2, <3>3
  <2>4. ASSUME NEW k \in DOMAIN b.obj PROVE Walk(how)[b.obj[k]] = Walk(how)[p.obj[k]]
    <3>1. StepInto(b, Key(k)) = b.obj[k] /\ StepInto(p, Key(k)) = p.obj[k]
      BY <1>1, <2>1, <2>3, <2>4, Forms DEF StepInto
    <3> QED  BY <2>2, <2>4, <3>1
  <2>5. [k \in DOMAIN b.obj |-> Walk(how)[b.obj[k]]] = [k \in DOMAIN p.obj |-> Walk(how)[p.obj[k]]]
    BY <2>3, <2>4
  <2>6. Walk(how)[b] = Obj([k \in DOMAIN b.obj |-> Walk(how)[b.obj[k]]])  BY <1>1, WalkFacts
  <2>7. Walk(how)[p] = Obj([k \in DOMAIN p.obj |-> Walk(how)[p.obj[k]]])  BY <2>1, WalkFacts
  <2> QED  BY <2>5, <2>6, <2>7
<1>2. CASE IsArr(b)
  <2>1. IsArr(p) /\ ~IsObj(p) /\ ~IsObj(b)  BY <1>2 DEF IsObj, IsArr
  <2>2. Members(b) = {Index(i) : i \in DOMAIN b.arr}
        /\ Members(p) = {Index(i) : i \in DOMAIN p.arr}
    BY <1>2, <2>1 DEF Members
  <2>3. DOMAIN b.arr = DOMAIN p.arr
    <3>1. \A i : Index(i).index = i  BY Forms
    <3>2. \A i : Index(i) \in Members(b) <=> i \in DOMAIN b.arr  BY <2>2, <3>1
    <3>3. \A i : Index(i) \in Members(p) <=> i \in DOMAIN p.arr  BY <2>2, <3>1
    <3> QED  BY <3>2, <3>3
  <2>4. ASSUME NEW i \in DOMAIN b.arr PROVE Walk(how)[b.arr[i]] = Walk(how)[p.arr[i]]
    <3>1. StepInto(b, Index(i)) = b.arr[i] /\ StepInto(p, Index(i)) = p.arr[i]
      BY <1>2, <2>1, <2>3, <2>4, Forms DEF StepInto
    <3> QED  BY <2>2, <2>4, <3>1
  <2>5. [i \in DOMAIN b.arr |-> Walk(how)[b.arr[i]]] = [i \in DOMAIN p.arr |-> Walk(how)[p.arr[i]]]
    BY <2>3, <2>4
  <2>6. Walk(how)[b] = Arr([i \in DOMAIN b.arr |-> Walk(how)[b.arr[i]]])  BY <1>2, WalkFacts
  <2>7. Walk(how)[p] = Arr([i \in DOMAIN p.arr |-> Walk(how)[p.arr[i]]])  BY <2>1, WalkFacts
  <2> QED  BY <2>5, <2>6, <2>7
<1> QED  BY <1>1, <1>2 DEF Compound

(* Induction over templates: over the values that can be walked.           *)
LEMMA TemplateInduction ==
  ASSUME NEW S,
         \A t : /\ Walkable(t) /\ Proper(t)
                /\ \A s \in Members(t) : /\ Walkable(StepInto(t, s)) /\ Proper(StepInto(t, s))
                                         /\ StepInto(t, s) \in S
                => t \in S,
         NEW t, Walkable(t), Proper(t)
  PROVE  t \in S
<1> DEFINE T == {v \in Values : Walkable(v) /\ Proper(v) => v \in S}
<1>1. ASSUME NEW v \in Values, \A s \in Members(v) : StepInto(v, s) \in T
      PROVE  v \in T
  <2> SUFFICES ASSUME Walkable(v), Proper(v) PROVE v \in S  OBVIOUS
  <2>1. ASSUME NEW s \in Members(v) PROVE Walkable(StepInto(v, s)) /\ Proper(StepInto(v, s))
    <3>1. Compound(v)  BY <2>1 DEF Members, Compound
    <3> QED  BY <2>1, <3>1, CompoundWalks, ProperFacts
  <2>2. \A s \in Members(v) : StepInto(v, s) \in S  BY <1>1, <2>1
  <2> QED  BY <2>1, <2>2
<1>2. Values \subseteq T
  <2> HIDE DEF T
  <2> QED  BY <1>1, ValueInduction
<1>3. t \in Values  BY DEF Walkable
<1> QED  BY <1>2, <1>3

(* What is persisted of a template is its example. *)
LEMMA PersistedExample ==
  ASSUME NEW t, Walkable(t), Proper(t)
  PROVE  Walk("js")[Stripped(t)] = ExampleOf(t)
<1> DEFINE S == {v \in Values : Walk("js")[Stripped(v)] = ExampleOf(v)}
<1>1. ASSUME NEW v, Walkable(v), Proper(v),
             \A s \in Members(v) : /\ Walkable(StepInto(v, s)) /\ Proper(StepInto(v, s))
                                   /\ StepInto(v, s) \in S
      PROVE  v \in S
  <2>0. v \in Values /\ Stripped(v) \in Values /\ Plainly(v) \in Values  BY <1>1 DEF Walkable
  <2>1. CASE Compound(v)
    <3>1. ASSUME NEW s \in Members(v)
          PROVE  Walk("js")[StepInto(Stripped(v), s)] = Walk("js")[StepInto(Plainly(v), s)]
      <4>1. StepInto(Stripped(v), s) = Stripped(StepInto(v, s))
            /\ StepInto(Plainly(v), s) = Plainly(StepInto(v, s))
        BY <1>1, <2>1, CompoundWalks
      <4>2. Walk("js")[Stripped(StepInto(v, s))] = ExampleOf(StepInto(v, s))  BY <1>1
      <4> QED  BY <4>1, <4>2 DEF ExampleOf, JsRewrite, Plainly
    <3>2. /\ Compound(Stripped(v)) /\ Kind(Stripped(v)) = Kind(Plainly(v))
          /\ Members(Stripped(v)) = Members(Plainly(v)) /\ Members(Stripped(v)) = Members(v)
      BY <1>1, <2>1, CompoundWalks
    <3>3. Walk("js")[Stripped(v)] = Walk("js")[Plainly(v)]
      BY <2>0, <3>1, <3>2, SameWalk
    <3> QED  BY <2>0, <3>3 DEF ExampleOf, JsRewrite, Plainly
  <2>2. CASE ~Compound(v)
    BY <1>1, <2>0, <2>2, ScalarWalks
  <2> QED  BY <2>1, <2>2
<1>2. t \in S
  <2> HIDE DEF S
  <2> QED  BY <1>1, TemplateInduction
<1> QED  BY <1>2

-----------------------------------------------------------------------------
(* The engine's numbers do not disturb the matchers ...                    *)
LEMMA RawMatchers ==
  ASSUME NEW t, Walkable(t), Proper(t)
  PROVE  MatchersIn(Raw(t)) = MatchersIn(t)
<1> DEFINE S == {v \in Values : \A x : IsDefinition(x.value) =>
                   (x \in Leaves[Raw(v)] <=> x \in Leaves[v])}
<1>1. ASSUME NEW v, Walkable(v), Proper(v),
             \A s \in Members(v) : /\ Walkable(StepInto(v, s)) /\ Proper(StepInto(v, s))
                                   /\ StepInto(v, s) \in S
      PROVE  v \in S
  <2>0. v \in Values /\ Raw(v) \in Values  BY <1>1 DEF Walkable
  <2> SUFFICES ASSUME NEW x, IsDefinition(x.value)
               PROVE  x \in Leaves[Raw(v)] <=> x \in Leaves[v]
    BY <2>0
  <2>1. CASE Compound(v) /\ Members(v) # {}
    <3>1. /\ Compound(Raw(v)) /\ Members(Raw(v)) = Members(v)
          /\ \A s \in Members(v) : StepInto(Raw(v), s) = Raw(StepInto(v, s))
      BY <1>1, <2>1, CompoundWalks
    <3>2. x \in Leaves[Raw(v)] <=>
            \E s \in Members(v) : \E l \in Leaves[Raw(StepInto(v, s))] : x = Below(s, l)
      BY <2>0, <2>1, <3>1, LeavesOfMembers
    <3>3. x \in Leaves[v] <=>
            \E s \in Members(v) : \E l \in Leaves[StepInto(v, s)] : x = Below(s, l)
      BY <2>0, <2>1, LeavesOfMembers
    <3>4. ASSUME NEW s \in Members(v), NEW l, x = Below(s, l)
          PROVE  l \in Leaves[Raw(StepInto(v, s))] <=> l \in Leaves[StepInto(v, s)]
      <4>1. x.value = l.value  BY <3>4 DEF Below
      <4>2. StepInto(v, s) \in S  BY <1>1
      <4> QED  BY <4>1, <4>2
    <3> QED  BY <3>2, <3>3, <3>4
  <2>2. CASE Compound(v) /\ Members(v) = {}
    <3>1. Compound(Raw(v)) /\ Members(Raw(v)) = {}  BY <1>1, <2>2, CompoundWalks
    <3>2. Leaves[v] = {[path |-> <<>>, value |-> v]}  BY <2>0, <2>2, LeafAlone
    <3>3. Leaves[Raw(v)] = {[path |-> <<>>, value |-> Raw(v)]}  BY <2>0, <3>1, LeafAlone
    <3>4. ~IsDefinition(v) /\ ~IsDefinition(Raw(v))  BY <2>2, <3>1, NumberFacts
    <3> QED  BY <3>2, <3>3, <3>4
  <2>3. CASE ~Compound(v)
    <3>1. Raw(v) = Walked(v, "double") /\ ~Compound(Raw(v))  BY <1>1, <2>3, ScalarWalks
    <3>2. Leaves[v] = {[path |-> <<>>, value |-> v]}  BY <2>0, <2>3, LeafAlone
    <3>3. Leaves[Raw(v)] = {[path |-> <<>>, value |-> Raw(v)]}  BY <2>0, <3>1, LeafAlone
    <3>4. IF IsNum(v) THEN ~IsDefinition(v) /\ ~IsDefinition(Raw(v)) ELSE Raw(v) = v
      BY <3>1, WalkedFacts, NumberFacts
    <3> QED  BY <3>2, <3>3, <3>4
  <2> QED  BY <2>1, <2>2, <2>3
<1>2. t \in S
  <2> HIDE DEF S
  <2> QED  BY <1>1, TemplateInduction
<1>3. {l \in Leaves[Raw(t)] : IsDefinition(l.value)} = {l \in Leaves[t] : IsDefinition(l.value)}
  BY <1>2
<1> QED  BY <1>3 DEF MatchersIn

(* ... and a leaf is what is found at its path, which names keys and       *)
(* indices.                                                                *)
LEMMA LeafFound ==
  ASSUME NEW t \in Values, NEW leaf \in Leaves[t]
  PROVE  /\ leaf \in Leaf
         /\ Along(t, leaf.path)[Len(leaf.path)] = leaf.value
         /\ leaf.path # <<>> => leaf.path[1] \in Members(t)
<1> DEFINE S == {v \in Values : \A l \in Leaves[v] :
                   Along(v, l.path)[Len(l.path)] = l.value}
<1>0. \A v \in Values : Leaves[v] \subseteq Leaf  BY LeavesFacts
<1>1. ASSUME NEW v \in Values, \A s \in Members(v) : StepInto(v, s) \in S
      PROVE  v \in S
  <2> SUFFICES ASSUME NEW x \in Leaves[v]
               PROVE  Along(v, x.path)[Len(x.path)] = x.value
    OBVIOUS
  <2>1. CASE Compound(v) /\ Members(v) # {}
    <3>1. PICK s \in Members(v) : \E l \in Leaves[StepInto(v, s)] : x = Below(s, l)
      BY <2>1, LeavesOfMembers
    <3>2. PICK l \in Leaves[StepInto(v, s)] : x = Below(s, l)  BY <3>1
    <3>3. s \in Steps /\ StepInto(v, s) \in Values /\ v \in Places
      BY MemberFacts DEF Places
    <3>4. l \in Leaf /\ l.path \in Paths  BY <1>0, <3>3 DEF Leaf
    <3>5. x.path = <<s>> \o l.path /\ x.value = l.value  BY <3>2, <3>3, <3>4, BelowFacts
    <3>6. Len(l.path) \in Nat /\ Len(<<s>> \o l.path) = Len(l.path) + 1
      BY <3>3, <3>4, PathsBelow
    <3>7. Along(v, <<s>> \o l.path)[Len(l.path) + 1] = Along(StepInto(v, s), l.path)[Len(l.path)]
      <4>1. Len(l.path) \in 0..Len(l.path)  BY <3>6
      <4> QED  BY <3>3, <3>4, <4>1, AlongBelow
    <3>8. Along(StepInto(v, s), l.path)[Len(l.path)] = l.value  BY <1>1
    <3> QED  BY <3>5, <3>6, <3>7, <3>8
  <2>2. CASE ~(Compound(v) /\ Members(v) # {})
    <3>1. x = [path |-> <<>>, value |-> v]  BY <2>2, LeafAlone
    <3>2. x.path = <<>> /\ x.value = v  BY <3>1
    <3>3. <<>> \in Paths /\ Len(<<>>) = 0 /\ v \in Places  BY DEF Paths, Places
    <3> QED  BY <3>2, <3>3, AlongFacts
  <2> QED  BY <2>1, <2>2
<1>2. Values \subseteq S
  <2> HIDE DEF S
  <2> QED  BY <1>1, ValueInduction
<1>3. leaf.path # <<>> => leaf.path[1] \in Members(t)
  <2> SUFFICES ASSUME leaf.path # <<>> PROVE leaf.path[1] \in Members(t)  OBVIOUS
  <2>1. Compound(t) /\ Members(t) # {}
    <3>1. SUFFICES ASSUME ~(Compound(t) /\ Members(t) # {}) PROVE FALSE  OBVIOUS
    <3>2. leaf = [path |-> <<>>, value |-> t]  BY <3>1, LeafAlone
    <3> QED  BY <3>2
  <2>2. PICK s \in Members(t) : \E l \in Leaves[StepInto(t, s)] : leaf = Below(s, l)
    BY <2>1, LeavesOfMembers
  <2>3. PICK l \in Leaves[StepInto(t, s)] : leaf = Below(s, l)  BY <2>2
  <2>4. s \in Steps /\ l \in Leaf /\ l.path \in Paths  BY <1>0, MemberFacts DEF Leaf
  <2>5. leaf.path = <<s>> \o l.path  BY <2>3, <2>4, BelowFacts
  <2>6. <<>> \in Paths  BY DEF Paths
  <2> QED  BY <2>4, <2>5, <2>6, PathsBelow
<1> QED  BY <1>0, <1>2, <1>3

-----------------------------------------------------------------------------
(* The rules of a template: of each leaf its matcher, and nothing else.    *)
Mark(v) == IF IsDefinition(v) THEN v.matcher ELSE "none"

LEMMA RulesFacts ==
  ASSUME NEW t \in Values
  PROVE  /\ \A leaf \in Leaves[t] : MatchType(RulesOf(t), leaf.path) = Mark(leaf.value)
         /\ \A path : path # <<>> /\ path[1] \notin Members(t)
                        => MatchType(RulesOf(t), path) = "none"
<1> DEFINE found == MatchersIn(t)
           chosen(path) == CHOOSE m \in found : m.path = path
           kinds == [path \in {m.path : m \in found} |-> <<chosen(path).kind>>]
<1>1. RulesOf(t) = kinds  BY DEF RulesOf
<1>2. \A m : m \in found <=> \E l \in Leaves[t] : /\ IsDefinition(l.value)
                                                  /\ m = [path |-> l.path, kind |-> l.value.matcher]
  BY DEF MatchersIn
<1>3. \A m \in found : \E l \in Leaves[t] : /\ IsDefinition(l.value)
                                            /\ m.path = l.path /\ m.kind = l.value.matcher
  BY <1>2
<1>4. \A path : MatchType(kinds, path) = IF \E m \in found : m.path = path
                                         THEN chosen(path).kind ELSE "none"
  <2> TAKE path
  <2> HIDE DEF found, chosen
  <2>1. DOMAIN kinds = {m.path : m \in found}  OBVIOUS
  <2>2. path \in DOMAIN kinds => kinds[path] = <<chosen(path).kind>>  OBVIOUS
  <2>3. <<chosen(path).kind>> # <<>> /\ <<chosen(path).kind>>[1] = chosen(path).kind  OBVIOUS
  <2> QED  BY <2>1, <2>2, <2>3 DEF MatchType
<1> HIDE DEF kinds
<1>5. \A path : (\E m \in found : m.path = path)
                  => chosen(path) \in found /\ chosen(path).path = path
  <2> HIDE DEF found
  <2> QED  OBVIOUS
<1>6. ASSUME NEW leaf \in Leaves[t] PROVE MatchType(kinds, leaf.path) = Mark(leaf.value)
  <2>1. \A l \in Leaves[t] : l.path = leaf.path => l.value = leaf.value
    BY LeafFound
  <2>2. CASE IsDefinition(leaf.value)
    <3> DEFINE m == [path |-> leaf.path, kind |-> leaf.value.matcher]
    <3>1. m \in found /\ m.path = leaf.path  BY <1>2, <2>2
    <3>2. chosen(leaf.path) \in found /\ chosen(leaf.path).path = leaf.path  BY <1>5, <3>1
    <3>3. chosen(leaf.path).kind = leaf.value.matcher  BY <1>3, <2>1, <3>2
    <3> QED  BY <1>4, <2>2, <3>1, <3>3 DEF Mark
  <2>3. CASE ~IsDefinition(leaf.value)
    <3>1. ~\E m \in found : m.path = leaf.path  BY <1>3, <2>1, <2>3
    <3> QED  BY <1>4, <2>3, <3>1 DEF Mark
  <2> QED  BY <2>2, <2>3
<1>7. ASSUME NEW path, path # <<>>, path[1] \notin Members(t)
      PROVE  MatchType(kinds, path) = "none"
  <2>1. ~\E m \in found : m.path = path  BY <1>3, <1>7, LeafFound
  <2> QED  BY <1>4, <2>1
<1> QED  BY <1>1, <1>6, <1>7

(* A template at a path of a part: the rules there are its own (Ruled), or *)
(* they match by type just what the reading does (Kept).                   *)
Ruled(rules, at, t) ==
  \A leaf \in Leaves[t] : MatchType(rules, at \o leaf.path) = Mark(leaf.value)
ByTypeIn(reading, value) == reading = "applied" /\ Mark(value) = "type"
Kept(reading, rules, at, t) ==
  \A leaf \in Leaves[t] :
    MatchType(rules, at \o leaf.path) = "type" <=> ByTypeIn(reading, leaf.value)

LEMMA LeafBelow ==
  ASSUME NEW at \in Paths, NEW t \in Values, NEW s \in Members(t),
         NEW leaf \in Leaves[StepInto(t, s)]
  PROVE  /\ Below(s, leaf) \in Leaves[t] /\ Below(s, leaf).value = leaf.value
         /\ at \o Below(s, leaf).path = Append(at, s) \o leaf.path
<1>1. Compound(t) /\ Members(t) # {}  BY DEF Members, Compound
<1>2. Below(s, leaf) \in Leaves[t]  BY <1>1, LeavesOfMembers
<1>3. s \in Steps /\ StepInto(t, s) \in Values  BY MemberFacts
<1>4. leaf \in Leaf /\ leaf.path \in Paths  BY <1>3, LeavesFacts DEF Leaf
<1>5. Below(s, leaf).path = <<s>> \o leaf.path /\ Below(s, leaf).value = leaf.value
  BY <1>3, <1>4, BelowFacts
<1>6. at \o (<<s>> \o leaf.path) = Append(at, s) \o leaf.path  BY <1>3, <1>4, PathsBelow
<1> QED  BY <1>2, <1>5, <1>6

LEMMA MemberRules ==
  ASSUME NEW rules, NEW at \in Paths, NEW t \in Values, NEW s \in Members(t), NEW r
  PROVE  /\ Ruled(rules, at, t) => Ruled(rules, Append(at, s), StepInto(t, s))
         /\ Kept(r, rules, at, t) => Kept(r, rules, Append(at, s), StepInto(t, s))
<1>1. \A leaf \in Leaves[StepInto(t, s)] :
        /\ Below(s, leaf) \in Leaves[t] /\ Below(s, leaf).value = leaf.value
        /\ at \o Below(s, leaf).path = Append(at, s) \o leaf.path
  BY LeafBelow
<1>2. Ruled(rules, at, t) => Ruled(rules, Append(at, s), StepInto(t, s))
  <2> SUFFICES ASSUME Ruled(rules, at, t), NEW leaf \in Leaves[StepInto(t, s)]
               PROVE  MatchType(rules, Append(at, s) \o leaf.path) = Mark(leaf.value)
    BY DEF Ruled
  <2>1. MatchType(rules, at \o Below(s, leaf).path) = Mark(Below(s, leaf).value)
    BY <1>1 DEF Ruled
  <2> QED  BY <1>1, <2>1
<1>3. Kept(r, rules, at, t) => Kept(r, rules, Append(at, s), StepInto(t, s))
  <2> SUFFICES ASSUME Kept(r, rules, at, t), NEW leaf \in Leaves[StepInto(t, s)]
               PROVE  MatchType(rules, Append(at, s) \o leaf.path) = "type"
                        <=> ByTypeIn(r, leaf.value)
    BY DEF Kept
  <2>1. MatchType(rules, at \o Below(s, leaf).path) = "type"
          <=> ByTypeIn(r, Below(s, leaf).value)
    BY <1>1 DEF Kept
  <2> QED  BY <1>1, <2>1
<1> QED  BY <1>2, <1>3

-----------------------------------------------------------------------------
(* What a template asks of a value, given what its members ask.            *)
LEMMA ConformsFacts ==
  ASSUME NEW r, NEW t \in Values, NEW a \in Values
  PROVE  Conforms(r, t, a) <=>
           IF Compound(t) /\ Members(t) # {}
           THEN \A s \in Members(t) : s \in Members(a) /\ Conforms(r, StepInto(t, s), StepInto(a, s))
           ELSE Satisfies(r, t, a)
<1> DEFINE Met(v, path, value) == LET w == Along(v, path)[Len(path)]
                                  IN w # Absent /\ Satisfies(r, value, w)
<1>0. \A d, v : Conforms(r, d, v) <=> \A leaf \in Leaves[d] : Met(v, leaf.path, leaf.value)
  BY DEF Conforms
<1>a. a \in Places /\ a # Absent /\ <<>> \in Paths /\ Len(<<>>) = 0
  BY MemberFacts DEF Places, Paths
<1>1. CASE Compound(t) /\ Members(t) # {}
  <2>1. ASSUME NEW s \in Members(t)
        PROVE  (\A l \in Leaves[StepInto(t, s)] : Met(a, Below(s, l).path, Below(s, l).value))
                 <=> s \in Members(a) /\ Conforms(r, StepInto(t, s), StepInto(a, s))
    <3>1. s \in Steps /\ StepInto(t, s) \in Values  BY MemberFacts
    <3>2. \A l \in Leaves[StepInto(t, s)] : l \in Leaf /\ l.path \in Paths
      BY <3>1, LeavesFacts DEF Leaf
    <3>3. ASSUME NEW l \in Leaves[StepInto(t, s)]
          PROVE  Met(a, Below(s, l).path, Below(s, l).value)
                   <=> Met(StepInto(a, s), l.path, l.value)
      <4>1. Below(s, l).path = <<s>> \o l.path /\ Below(s, l).value = l.value
        BY <3>1, <3>2, BelowFacts
      <4>2. Len(l.path) \in Nat /\ Len(<<s>> \o l.path) = Len(l.path) + 1
        BY <3>1, <3>2, PathsBelow
      <4>3. Len(l.path) \in 0..Len(l.path)  BY <4>2
      <4>4. Along(a, <<s>> \o l.path)[Len(l.path) + 1]
              = Along(StepInto(a, s), l.path)[Len(l.path)]
        BY <1>a, <3>1, <3>2, <4>3, AlongBelow
      <4> QED  BY <4>1, <4>2, <4>4
    <3>4. CASE s \in Members(a)
      BY <1>0, <3>3, <3>4
    <3>5. CASE s \notin Members(a)
      <4>1. StepInto(a, s) = Absent  BY <3>1, <3>5, MemberFacts
      <4>2. PICK l \in Leaves[StepInto(t, s)] : TRUE  BY <3>1, LeavesNotEmpty
      <4>3. Along(Absent, l.path)[Len(l.path)] = Absent
        <5>1. l.path \in Paths  BY <3>2
        <5>2. Len(l.path) \in 0..Len(l.path)
          <6>1. Len(l.path) \in Nat  BY <5>1 DEF Paths
          <6> QED  BY <6>1
        <5> QED  BY <5>1, <5>2, AbsentAlong
      <4>4. ~Met(StepInto(a, s), l.path, l.value)  BY <4>1, <4>3
      <4> QED  BY <3>3, <3>5, <4>2, <4>4
    <3> QED  BY <3>4, <3>5
  <2>2. (\A leaf \in Leaves[t] : Met(a, leaf.path, leaf.value)) <=>
          \A s \in Members(t) : \A l \in Leaves[StepInto(t, s)] :
            Met(a, Below(s, l).path, Below(s, l).value)
    <3>1. \A leaf : leaf \in Leaves[t] <=>
            \E s \in Members(t) : \E l \in Leaves[StepInto(t, s)] : leaf = Below(s, l)
      BY <1>1, LeavesOfMembers
    <3> HIDE DEF Met
    <3> QED  BY <3>1
  <2> HIDE DEF Met
  <2> QED  BY <1>0, <1>1, <2>1, <2>2
<1>2. CASE ~(Compound(t) /\ Members(t) # {})
  <2>1. Leaves[t] = {[path |-> <<>>, value |-> t]}  BY <1>2, LeafAlone
  <2>2. Along(a, <<>>)[0] = a  BY <1>a, AlongFacts
  <2>3. Met(a, <<>>, t) <=> Satisfies(r, t, a)  BY <1>a, <2>2
  <2>4. Conforms(r, t, a) <=> Met(a, <<>>, t)
    <3> DEFINE leaf == [path |-> <<>>, value |-> t]
    <3>1. leaf.path = <<>> /\ leaf.value = t  OBVIOUS
    <3>2. Leaves[t] = {leaf}  BY <2>1
    <3> HIDE DEF Met, leaf
    <3> QED  BY <1>0, <3>1, <3>2
  <2> QED  BY <1>2, <2>3, <2>4
<1> QED  BY <1>1, <1>2

(* What the contents are made of.                                          *)
Template(t) == Walkable(t) /\ Proper(t) /\ Walk("js")[t] = t

LEMMA TemplateFacts ==
  ASSUME NEW t, Template(t)
  PROVE  /\ t \in Values /\ ExampleOf(t) \in Values
         /\ Compound(ExampleOf(t)) <=> Compound(t)
         /\ Compound(t) => Kind(ExampleOf(t)) = Kind(t) /\ Members(ExampleOf(t)) = Members(t)
         /\ \A s \in Members(t) : /\ Template(StepInto(t, s))
                                  /\ StepInto(ExampleOf(t), s) = ExampleOf(StepInto(t, s))
         /\ ~Compound(t) => ExampleOf(t) = IF IsDefinition(t) THEN t.example ELSE t
         /\ IsDefinition(t) => FitsHelper(t)
<1>0. t \in Values /\ ExampleOf(t) \in Values /\ Walkable(t) /\ Proper(t) /\ Walk("js")[t] = t
  BY DEF Template, Walkable
<1>1. CASE Compound(t)
  <2>1. /\ Compound(ExampleOf(t)) /\ Kind(ExampleOf(t)) = Kind(t)
        /\ Members(ExampleOf(t)) = Members(t)
        /\ \A s \in Members(t) : StepInto(ExampleOf(t), s) = ExampleOf(StepInto(t, s))
                                 /\ Walkable(StepInto(t, s))
    BY <1>0, <1>1, CompoundWalks
  <2>2. \A s \in Members(t) : Walk("js")[StepInto(t, s)] = StepInto(t, s)
    BY <1>0, <1>1, WalkMembers
  <2>3. (\A s \in Members(t) : Proper(StepInto(t, s))) /\ (IsDefinition(t) => FitsHelper(t))
    BY <1>0, ProperFacts
  <2> QED  BY <1>0, <1>1, <2>1, <2>2, <2>3 DEF Template
<1>2. CASE ~Compound(t)
  <2>1. /\ Plainly(t) = Walked(t, "plain") /\ ExampleOf(t) = Walked(Plainly(t), "js")
        /\ Walk("js")[Stripped(t)] = ExampleOf(t) /\ IsDefinition(t) => FitsHelper(t)
    BY <1>0, <1>2, ScalarWalks
  <2>2. IsDefinition(t) => FitsHelper(t)  BY <1>0, ProperFacts
  <2>3. Walked(t, "js") = t  BY <1>0, <1>2, WalkFacts
  <2>4. ExampleOf(t) = IF IsDefinition(t) THEN t.example ELSE t
    <3>1. CASE IsDefinition(t)
      <4>1. Plainly(t) = t.example  BY <2>1, <3>1, WalkedFacts
      <4>2. Walked(t.example, "js") = t.example  BY <2>2, <3>1, HelperFacts
      <4> QED  BY <2>1, <3>1, <4>1, <4>2
    <3>2. CASE ~IsDefinition(t)
      <4>1. Plainly(t) = t  BY <2>1, <3>2, WalkedFacts
      <4> QED  BY <2>1, <2>3, <3>2, <4>1
    <3> QED  BY <3>1, <3>2
  <2>5. ~Compound(ExampleOf(t))  BY <1>2, <2>2, <2>4, HelperFacts
  <2>6. Members(t) = {}  BY <1>2 DEF Members, Compound
  <2> QED  BY <1>0, <1>2, <2>2, <2>4, <2>5, <2>6
<1> QED  BY <1>1, <1>2

(* The readings in which the engine compares. *)
Readings == {"applied", "example"}

(* A scalar of a template: what matches its example is what it asks for.   *)
LEMMA ScalarMeans ==
  ASSUME NEW t, Template(t), ~Compound(t), NEW rules, NEW at, NEW r \in Readings,
         MatchType(rules, at) = "type" <=> ByTypeIn(r, t), NEW a
  PROVE  ValuesMatch(at, ExampleOf(t), a, rules) <=> Satisfies(r, t, a)
<1>0. r # "written"  BY DEF Readings
<1>1. CASE IsDefinition(t)
  <2>1. ExampleOf(t) = t.example  BY <1>1, TemplateFacts
  <2>2. ByTypeIn(r, t) <=> r = "applied" /\ t.matcher = "type"
    BY <1>1 DEF ByTypeIn, Mark
  <2>3. t.matcher = "type" => (Asks(t, a) <=> SameJsonType(t.example, a))
    BY DEF Asks
  <2>4. Satisfies(r, t, a) <=>
          IF ByTypeIn(r, t) THEN SameJsonType(t.example, a) ELSE a = t.example
    BY <1>0, <1>1, <2>2, <2>3 DEF Satisfies
  <2> QED  BY <2>1, <2>4 DEF ValuesMatch
<1>2. CASE ~IsDefinition(t)
  <2>1. ExampleOf(t) = t /\ ~IsObj(t) /\ ~IsArr(t)  BY <1>2, TemplateFacts DEF Compound
  <2>2. ~ByTypeIn(r, t)  BY <1>2 DEF ByTypeIn, Mark
  <2> QED  BY <1>2, <2>1, <2>2 DEF ValuesMatch, Satisfies
<1> QED  BY <1>1, <1>2

(* The heart of it: what compares with the example of a template, by rules *)
(* that match by type what the reading does, is what conforms to it.       *)
LEMMA CompareMeans ==
  ASSUME NEW t, Template(t), NEW rules, NEW at \in Paths, NEW a \in Values,
         NEW r \in Readings, Kept(r, rules, at, t)
  PROVE  CompareStructured(at, ExampleOf(t), a, rules) = {} <=> Conforms(r, t, a)
<1> DEFINE Means(v, p, b) ==
             CompareStructured(p, ExampleOf(v), b, rules) = {} <=> Conforms(r, v, b)
           S == {v \in Values : Template(v) =>
                   \A p \in Paths, b \in Values : Kept(r, rules, p, v) => Means(v, p, b)}
<1>1. ASSUME NEW v \in Values, \A s \in Members(v) : StepInto(v, s) \in S
      PROVE  v \in S
  <2> SUFFICES ASSUME Template(v), NEW p \in Paths, NEW b \in Values, Kept(r, rules, p, v)
               PROVE  Means(v, p, b)
    OBVIOUS
  <2> DEFINE e == ExampleOf(v)
  <2>0. e \in Values  BY TemplateFacts
  <2>1. CASE Compound(v) /\ Members(v) # {}
    <3>1. /\ Compound(e) /\ Members(e) = Members(v)
          /\ \A s \in Members(v) : /\ Template(StepInto(v, s))
                                   /\ StepInto(e, s) = ExampleOf(StepInto(v, s))
      BY <2>1, TemplateFacts
    <3>2. Conforms(r, v, b) <=>
            \A s \in Members(v) : s \in Members(b) /\ Conforms(r, StepInto(v, s), StepInto(b, s))
      BY <2>1, ConformsFacts
    <3>3. CompareStructured(p, e, b, rules) = {} <=>
            \A s \in Members(v) :
              /\ s \in Members(b)
              /\ CompareStructured(Append(p, s), ExampleOf(StepInto(v, s)), StepInto(b, s), rules) = {}
      <4>1. \A x : x \in CompareStructured(p, e, b, rules) <=>
              \E s \in Members(e) :
                \/ /\ s \in Members(b)
                   /\ x \in CompareStructured(Append(p, s), StepInto(e, s), StepInto(b, s), rules)
                \/ s \notin Members(b) /\ x = Append(p, s)
        <5> HIDE DEF e
        <5> QED  BY <2>0, <3>1, ReportedPaths
      <4> HIDE DEF e
      <4>2. \A s \in Members(v) : StepInto(e, s) = ExampleOf(StepInto(v, s))  BY <3>1
      <4>3. CompareStructured(p, e, b, rules) = {} <=>
              \A s \in Members(v) :
                /\ s \in Members(b)
                /\ CompareStructured(Append(p, s), StepInto(e, s), StepInto(b, s), rules) = {}
        BY <3>1, <4>1
      <4> QED  BY <4>2, <4>3
    <3>4. ASSUME NEW s \in Members(v), s \in Members(b)
          PROVE  Means(StepInto(v, s), Append(p, s), StepInto(b, s))
      <4>1. StepInto(v, s) \in S /\ Template(StepInto(v, s))  BY <1>1, <3>1
      <4>2. Append(p, s) \in Paths /\ StepInto(b, s) \in Values
        BY <3>4, MembersCompared
      <4>3. Kept(r, rules, Append(p, s), StepInto(v, s))  BY MemberRules
      <4> HIDE DEF Means
      <4> QED  BY <4>1, <4>2, <4>3
    <3> HIDE DEF e
    <3>5. CompareStructured(p, e, b, rules) = {} <=> Conforms(r, v, b)
      BY <3>2, <3>3, <3>4
    <3> QED  BY <3>5 DEF e
  <2>2. CASE Compound(v) /\ Members(v) = {}
    <3>1. Compound(e) /\ Members(e) = {}  BY <2>2, TemplateFacts
    <3>2. CompareStructured(p, e, b, rules) = {}
      <4> HIDE DEF e
      <4> QED  BY <2>0, <3>1, ReportedPaths
    <3>3. Satisfies(r, v, b)
      <4>1. ~IsDefinition(v)  BY <2>2, NumberFacts
      <4> QED  BY <2>2, <4>1 DEF Satisfies, Compound
    <3>4. Conforms(r, v, b)  BY <2>2, <3>3, ConformsFacts
    <3> QED  BY <3>2, <3>4
  <2>3. CASE ~Compound(v)
    <3>1. ~Compound(e)  BY <2>3, TemplateFacts
    <3>2. CompareStructured(p, e, b, rules) = {} <=> ValuesMatch(p, e, b, rules)
      <4> HIDE DEF e
      <4> QED  BY <2>0, <3>1, ScalarCompared DEF Miss
    <3> DEFINE leaf == [path |-> <<>>, value |-> v]
    <3>3. Leaves[v] = {leaf} /\ leaf.value = v /\ leaf.path = <<>>  BY <2>3, LeafAlone
    <3>4. p \o <<>> = p  BY ConcatEmptySeq DEF Paths
    <3> HIDE DEF leaf
    <3>5. MatchType(rules, p) = "type" <=> ByTypeIn(r, v)  BY <3>3, <3>4 DEF Kept
    <3>6. Conforms(r, v, b) <=> Satisfies(r, v, b)  BY <2>3, ConformsFacts
    <3> QED  BY <2>3, <3>2, <3>5, <3>6, ScalarMeans
  <2> QED  BY <2>1, <2>2, <2>3
<1>2. Values \subseteq S
  <2> HIDE DEF S
  <2> QED  BY <1>1, ValueInduction
<1>3. t \in Values  BY TemplateFacts
<1> QED  BY <1>2, <1>3

-----------------------------------------------------------------------------
(* Fields and items of templates.                                          *)
LEMMA KeyMember ==
  ASSUME NEW v \in Values, NEW key
  PROVE  /\ Key(key) \in Members(v) <=> Has(v, key)
         /\ Has(v, key) => StepInto(v, Key(key)) = Get(v, key) /\ Compound(v)
<1>1. CASE IsObj(v)
  <2>1. ~IsArr(v)  BY <1>1 DEF IsObj, IsArr
  <2>2. Members(v) = {Key(k) : k \in DOMAIN v.obj}  BY <1>1, <2>1 DEF Members
  <2>3. \A k : Key(k).key = k  BY Forms
  <2>4. Key(key) \in Members(v) <=> key \in DOMAIN v.obj  BY <2>2, <2>3
  <2> QED  BY <1>1, <2>4, Forms DEF Has, Get, StepInto, Compound
<1>2. CASE IsArr(v)
  <2>1. ~IsObj(v)  BY <1>2 DEF IsObj, IsArr
  <2>2. Members(v) = {Index(i) : i \in DOMAIN v.arr}  BY <1>2, <2>1 DEF Members
  <2>3. \A i : Index(i) # Key(key)
    <3> TAKE i
    <3>1. DOMAIN Index(i) = {"index"} /\ DOMAIN Key(key) = {"key"}  BY Forms
    <3> QED  BY <3>1
  <2> QED  BY <2>1, <2>2, <2>3 DEF Has
<1>3. CASE ~IsObj(v) /\ ~IsArr(v)
  BY <1>3 DEF Members, Has
<1> QED  BY <1>1, <1>2, <1>3

LEMMA IndexMember ==
  ASSUME NEW v \in Values, IsArr(v), NEW i
  PROVE  /\ Index(i) \in Members(v) <=> i \in DOMAIN v.arr
         /\ i \in DOMAIN v.arr => StepInto(v, Index(i)) = v.arr[i]
<1>1. ~IsObj(v)  BY DEF IsObj, IsArr
<1>2. Members(v) = {Index(j) : j \in DOMAIN v.arr}  BY <1>1 DEF Members
<1>3. \A j : Index(j).index = j  BY Forms
<1> QED  BY <1>1, <1>2, <1>3, Forms DEF StepInto

LEMMA TemplateKinds ==
  ASSUME NEW t, Template(t)
  PROVE  /\ IsObj(ExampleOf(t)) <=> IsObj(t)
         /\ IsArr(ExampleOf(t)) <=> IsArr(t)
         /\ IsStr(t) => ExampleOf(t) = t
<1>1. CASE Compound(t)
  <2>1. Kind(ExampleOf(t)) = Kind(t)  BY <1>1, TemplateFacts
  <2>2. ~IsStr(t)  BY <1>1 DEF Compound, IsStr, IsObj, IsArr
  <2> QED  BY <2>1, <2>2 DEF IsObj, IsArr
<1>2. CASE ~Compound(t)
  <2>1. ~Compound(ExampleOf(t))  BY <1>2, TemplateFacts
  <2>2. IsStr(t) => ~IsDefinition(t)  BY NumberFacts
  <2> QED  BY <1>2, <2>1, <2>2, TemplateFacts DEF Compound
<1> QED  BY <1>1, <1>2

LEMMA NullTemplate ==
  /\ Template(Null) /\ ExampleOf(Null) = Null
  /\ Leaves[Null] = {[path |-> <<>>, value |-> Null]}
<1>1. Null \in Values /\ ~Compound(Null)  BY NullFacts DEF Compound
<1>2. ~IsNum(Null) /\ ~IsDefinition(Null)  BY Forms DEF IsNum, IsDefinition
<1>3. \A how \in {"double", "strip", "plain", "js"} : Walk(how)[Null] = Null
  BY <1>1, <1>2, WalkFacts, WalkedFacts
<1>4. Leaves[Null] = {[path |-> <<>>, value |-> Null]}  BY <1>1, LeafAlone
<1>5. Proper(Null)  BY <1>2, <1>4 DEF Proper
<1>6. Raw(Null) = Null /\ Stripped(Null) = Null /\ Plainly(Null) = Null /\ ExampleOf(Null) = Null
  BY <1>3 DEF Raw, Stripped, Plainly, ExampleOf, JsRewrite
<1> QED  BY <1>1, <1>3, <1>4, <1>5, <1>6 DEF Template, Walkable

LEMMA ExampleGet ==
  ASSUME NEW t, Template(t), NEW key
  PROVE  /\ Template(Get(t, key)) /\ Get(ExampleOf(t), key) = ExampleOf(Get(t, key))
         /\ Has(ExampleOf(t), key) <=> Has(t, key)
         /\ Has(t, key) => /\ Get(t, key) = t.obj[key]
                           /\ Get(ExampleOf(t), key) = ExampleOf(t).obj[key]
<1> DEFINE e == ExampleOf(t)
<1>0. t \in Values /\ e \in Values  BY TemplateFacts
<1>1. CASE Has(t, key)
  <2>1. Key(key) \in Members(t) /\ StepInto(t, Key(key)) = Get(t, key) /\ Compound(t)
    BY <1>0, <1>1, KeyMember
  <2>2. Key(key) \in Members(e) /\ Template(Get(t, key))
        /\ StepInto(e, Key(key)) = ExampleOf(Get(t, key))
    BY <2>1, TemplateFacts
  <2>3. Has(e, key) /\ StepInto(e, Key(key)) = Get(e, key)
    <3> HIDE DEF e
    <3> QED  BY <1>0, <2>2, KeyMember
  <2> QED  BY <1>1, <2>2, <2>3 DEF Get
<1>2. CASE ~Has(t, key)
  <2>1. Key(key) \notin Members(t)  BY <1>0, <1>2, KeyMember
  <2>2. ~Has(e, key)
    <3>1. CASE Compound(t)
      <4>1. Key(key) \notin Members(e)  BY <2>1, <3>1, TemplateFacts
      <4> HIDE DEF e
      <4> QED  BY <1>0, <4>1, KeyMember
    <3>2. CASE ~Compound(t)
      <4>1. ~Compound(e)  BY <3>2, TemplateFacts
      <4> HIDE DEF e
      <4> QED  BY <1>0, <4>1, KeyMember
    <3> QED  BY <3>1, <3>2
  <2>3. Get(t, key) = Null /\ Get(e, key) = Null  BY <1>2, <2>2 DEF Get
  <2> QED  BY <1>2, <2>2, <2>3, NullTemplate
<1> QED  BY <1>1, <1>2

LEMMA ExampleItems ==
  ASSUME NEW t, Template(t), NEW key
  PROVE  /\ Items(t, key) \in Seq(Values) /\ Items(ExampleOf(t), key) \in Seq(Values)
         /\ Len(Items(ExampleOf(t), key)) = Len(Items(t, key))
         /\ DOMAIN Items(ExampleOf(t), key) = DOMAIN Items(t, key)
         /\ \A i \in DOMAIN Items(t, key) :
              /\ Template(Items(t, key)[i])
              /\ Items(ExampleOf(t), key)[i] = ExampleOf(Items(t, key)[i])
              /\ Index(i) \in Members(Get(t, key))
              /\ StepInto(Get(t, key), Index(i)) = Items(t, key)[i]
              /\ Has(t, key)
<1> DEFINE e == ExampleOf(t)
           w == Get(t, key)
           we == Get(e, key)
<1>0. /\ Template(w) /\ we = ExampleOf(w) /\ w \in Values /\ we \in Values
      /\ Items(t, key) \in Seq(Values) /\ Items(e, key) \in Seq(Values)
  BY ExampleGet, TemplateFacts, GetFacts
<1>1. IsArr(we) <=> IsArr(w)  BY <1>0, TemplateKinds
<1>2. CASE IsArr(w)
  <2>1. Items(t, key) = w.arr /\ Items(e, key) = we.arr  BY <1>1, <1>2 DEF Items
  <2>2. Has(t, key)  BY <1>2, Forms, NullFacts DEF Get
  <2>3. Members(we) = Members(w)  BY <1>0, <1>2, TemplateFacts DEF Compound
  <2>4. \A i : Index(i) \in Members(w) <=> i \in DOMAIN w.arr
    BY <1>0, <1>2, IndexMember
  <2>5. \A i : Index(i) \in Members(we) <=> i \in DOMAIN we.arr
    <3> HIDE DEF we
    <3> QED  BY <1>0, <1>1, <1>2, IndexMember
  <2>6. DOMAIN w.arr = DOMAIN we.arr
    <3> HIDE DEF w, we
    <3> QED  BY <2>3, <2>4, <2>5
  <2>7. Len(we.arr) = Len(w.arr)
    <3>1. w.arr \in Seq(Values) /\ we.arr \in Seq(Values)  BY <1>0, <2>1
    <3> HIDE DEF w, we
    <3> QED  BY <2>6, <3>1
  <2>8. ASSUME NEW i \in DOMAIN w.arr
        PROVE  /\ Template(w.arr[i]) /\ we.arr[i] = ExampleOf(w.arr[i])
               /\ Index(i) \in Members(w) /\ StepInto(w, Index(i)) = w.arr[i]
    <3>1. Index(i) \in Members(w) /\ StepInto(w, Index(i)) = w.arr[i]
      BY <1>0, <1>2, IndexMember
    <3>2. StepInto(we, Index(i)) = we.arr[i]
      <4> HIDE DEF we
      <4> QED  BY <1>0, <1>1, <1>2, <2>6, IndexMember
    <3>3. Template(StepInto(w, Index(i))) /\ StepInto(we, Index(i)) = ExampleOf(StepInto(w, Index(i)))
      BY <1>0, <3>1, TemplateFacts
    <3> QED  BY <3>1, <3>2, <3>3
  <2> HIDE DEF w, we
  <2> QED  BY <1>0, <2>1, <2>2, <2>6, <2>7, <2>8 DEF e, w
<1>3. CASE ~IsArr(w)
  <2>1. Items(t, key) = <<>> /\ Items(e, key) = <<>>  BY <1>1, <1>3 DEF Items
  <2> QED  BY <1>0, <2>1
<1> QED  BY <1>2, <1>3

-----------------------------------------------------------------------------
(* Part by part: a field that is a string in the example, ...              *)
LEMMA RuledIsKept ==
  ASSUME NEW rules, NEW at, NEW t, Ruled(rules, at, t)
  PROVE  Kept("applied", rules, at, t)
BY DEF Ruled, Kept, ByTypeIn

LEMMA FieldMeans ==
  ASSUME NEW t, Template(t), NEW rules, NEW at \in Paths, Ruled(rules, at, t), NEW key,
         IsStr(Get(ExampleOf(t), key)), NEW x
  PROVE  LET p == Append(at, Key(key))
             w == Get(t, key)
             ew == Get(ExampleOf(t), key)
         IN /\ p \in Paths /\ Has(t, key) /\ ~Compound(w) /\ Template(w)
            /\ ew = IF IsDefinition(w) THEN w.example ELSE w
            /\ MatchType(rules, p) = Mark(w)
            /\ x \in Values => (ValuesMatch(p, ew, x, rules) <=> Conforms("applied", w, x))
<1> DEFINE p == Append(at, Key(key))
           w == Get(t, key)
           ew == Get(ExampleOf(t), key)
<1>0. /\ t \in Values /\ Template(w) /\ ew = ExampleOf(w) /\ w \in Values
      /\ Has(ExampleOf(t), key) <=> Has(t, key)
  BY TemplateFacts, ExampleGet
<1>1. Has(t, key)
  <2>1. ew # Null  BY NullFacts
  <2> QED  BY <1>0, <2>1 DEF Get
<1>2. ~Compound(w)
  <2>1. ~Compound(ew)  BY DEF Compound, IsStr, IsObj, IsArr
  <2> QED  BY <1>0, <2>1, TemplateFacts
<1>3. Key(key) \in Members(t) /\ StepInto(t, Key(key)) = w
  BY <1>0, <1>1, KeyMember
<1>4. p \in Paths /\ Ruled(rules, p, w)
  BY <1>0, <1>3, MembersCompared, MemberRules
<1> DEFINE leaf == [path |-> <<>>, value |-> w]
<1>5. leaf \in Leaves[w] /\ leaf.path = <<>> /\ leaf.value = w  BY <1>0, <1>2, LeafAlone
<1>6. p \o <<>> = p  BY <1>4, ConcatEmptySeq DEF Paths
<1> HIDE DEF p, w, ew, leaf
<1>7. MatchType(rules, p) = Mark(w)
  BY <1>4, <1>5, <1>6 DEF Ruled
<1>8. MatchType(rules, p) = "type" <=> ByTypeIn("applied", w)  BY <1>7 DEF ByTypeIn
<1>9. ew = IF IsDefinition(w) THEN w.example ELSE w  BY <1>0, <1>2, TemplateFacts
<1>10. x \in Values => (Conforms("applied", w, x) <=> Satisfies("applied", w, x))
  BY <1>0, <1>2, ConformsFacts
<1>11. x \in Values => (ValuesMatch(p, ew, x, rules) <=> Conforms("applied", w, x))
  BY <1>0, <1>2, <1>8, <1>10, ScalarMeans DEF Readings
<1> QED  BY <1>0, <1>1, <1>2, <1>4, <1>7, <1>9, <1>11 DEF p, w, ew

(* ... an image's data, which is compared by type unless it has a rule, ...*)
LEMMA DataMeans ==
  ASSUME NEW t, Template(t), NEW rules, NEW at \in Paths, Ruled(rules, at, t),
         IsStr(Get(ExampleOf(t), "data")), NEW x \in Values
  PROVE  LET p == Append(at, Key("data"))
             w == Get(t, "data")
             ew == Get(ExampleOf(t), "data")
         IN RuledOrSameType(p, ew, x, rules) <=>
              IF IsDefinition(w) THEN Conforms("applied", w, x) ELSE SameJsonType(w, x)
<1> DEFINE p == Append(at, Key("data"))
           w == Get(t, "data")
           ew == Get(ExampleOf(t), "data")
<1>1. /\ Template(w) /\ ew = (IF IsDefinition(w) THEN w.example ELSE w)
      /\ MatchType(rules, p) = Mark(w)
      /\ ValuesMatch(p, ew, x, rules) <=> Conforms("applied", w, x)
  BY FieldMeans
<1>2. IsDefinition(w) => w.matcher # "none"
  BY <1>1, TemplateFacts DEF FitsHelper, None
<1> HIDE DEF p, w, ew
<1>3. RuledOrSameType(p, ew, x, rules) <=>
        IF IsDefinition(w) THEN ValuesMatch(p, ew, x, rules) ELSE SameJsonType(w, x)
  BY <1>1, <1>2 DEF RuledOrSameType, Mark
<1> QED  BY <1>1, <1>3 DEF p, w, ew

(* ... and with them a block.                                              *)
LEMMA BlockMeans ==
  ASSUME NEW t, Template(t), FormedBlock(ExampleOf(t)), IsStr(Get(t, "type")), NEW rules, NEW i,
         <<Key("content"), Index(i)>> \in Paths, Ruled(rules, <<Key("content"), Index(i)>>, t),
         NEW a \in Values
  PROVE  CompareContentBlock(i, ExampleOf(t), a, rules) = {} <=> ConformsBlock("applied", t, a)
<1> DEFINE e == ExampleOf(t)
           base == <<Key("content"), Index(i)>>
           at(k) == Append(base, Key(k))
           type == Text(e, "type")
           Typed == ValuesMatch(at("type"), Str(type), Str(Text(a, "type")), rules)
           Alike(k) == ValuesMatch(at(k), Get(e, k), Get(a, k), rules)
           Data == RuledOrSameType(at("data"), Get(e, "data"), Get(a, "data"), rules)
           path == <<Key("content"), Index(i), Key("resource"), Key("uri")>>
           Uri == ValuesMatch(path, Get(Get(e, "resource"), "uri"),
                              Get(Get(a, "resource"), "uri"), rules)
<1>0. type \in {"text", "image", "resource"}  BY DEF FormedBlock
<1>1. CompareContentBlock(i, e, a, rules) = {} <=>
        /\ Typed
        /\ type = "text" => Alike("text")
        /\ type = "image" => Alike("mimeType") /\ Data
        /\ type = "resource" => Uri
  <2>1. CompareContentBlock(i, e, a, rules) =
          IF ~Typed THEN {at("type")}
          ELSE CASE type = "text" -> Miss(at("text"), Alike("text"))
                 [] type = "image" -> Miss(at("mimeType"), Alike("mimeType"))
                                        \cup Miss(at("data"), Data)
                 [] type = "resource" -> Miss(path, Uri)
                 [] OTHER -> {at("type")}
    BY DEF CompareContentBlock
  <2> HIDE DEF Typed, Alike, Data, Uri, at, path, type
  <2> QED  BY <1>0, <2>1 DEF Miss
<1>2. /\ type = "text" => IsStr(Get(e, "text"))
      /\ type = "image" => IsStr(Get(e, "mimeType")) /\ IsStr(Get(e, "data"))
      /\ type = "resource" => IsStr(Get(Get(e, "resource"), "uri"))
  BY DEF FormedBlock
<1>3. Typed <=> type = Text(a, "type")
  <2>1. Get(e, "type") = Get(t, "type")  BY ExampleGet, TemplateKinds
  <2>2. MatchType(rules, at("type")) = Mark(Get(t, "type"))  BY <2>1, FieldMeans
  <2>3. Mark(Get(t, "type")) = "none"  BY NumberFacts DEF Mark
  <2>4. Typed <=> Str(type) = Str(Text(a, "type"))
    <3> HIDE DEF at, type
    <3> QED  BY <2>2, <2>3 DEF ValuesMatch
  <2> QED  BY <2>4, Forms
<1>4. type = Text(t, "type")
  <2>1. Get(e, "type") = Get(t, "type")  BY ExampleGet, TemplateKinds
  <2> QED  BY <2>1 DEF Text
<1>5. ASSUME NEW k \in {"text", "mimeType"}, IsStr(Get(e, k))
      PROVE  Alike(k) <=> ConformsAt("applied", t, a, k)
  <2>1. Get(a, k) \in Values  BY GetFacts
  <2> QED  BY <1>5, <2>1, FieldMeans DEF ConformsAt
<1>6. ASSUME IsStr(Get(e, "data"))
      PROVE  Data <=> IF IsDefinition(Get(t, "data")) THEN ConformsAt("applied", t, a, "data")
                      ELSE SameJsonType(Get(t, "data"), Get(a, "data"))
  <2>1. Get(a, "data") \in Values  BY GetFacts
  <2> QED  BY <1>6, <2>1, DataMeans DEF ConformsAt
<1>7. ASSUME IsStr(Get(Get(e, "resource"), "uri"))
      PROVE  Uri <=> ConformsAt("applied", Get(t, "resource"), Get(a, "resource"), "uri")
  <2> DEFINE w == Get(t, "resource")
             on == Append(base, Key("resource"))
  <2>1. Template(w) /\ Get(e, "resource") = ExampleOf(w)  BY ExampleGet
  <2>2. IsStr(Get(ExampleOf(w), "uri"))  BY <1>7, <2>1
  <2>3. Has(t, "resource")
    <3>1. Has(ExampleOf(w), "uri")  BY <2>2, NullFacts DEF Get
    <3>2. ExampleOf(w) # Null  BY <3>1, NullFacts DEF Has
    <3>3. w # Null  BY <3>2, NullTemplate
    <3> QED  BY <3>3 DEF Get
  <2>4. t \in Values  BY TemplateFacts
  <2>5. Key("resource") \in Members(t) /\ StepInto(t, Key("resource")) = w
    BY <2>3, <2>4, KeyMember
  <2>6. on \in Paths /\ Ruled(rules, on, w)
    BY <2>4, <2>5, MembersCompared, MemberRules
  <2>7. path = Append(on, Key("uri"))  OBVIOUS
  <2>8. Get(Get(a, "resource"), "uri") \in Values  BY GetFacts
  <2> HIDE DEF w, on, path
  <2>9. Uri <=> Conforms("applied", Get(w, "uri"), Get(Get(a, "resource"), "uri"))
    BY <2>1, <2>2, <2>6, <2>7, <2>8, FieldMeans
  <2> QED  BY <2>9 DEF ConformsAt, w
<1>8. ConformsBlock("applied", t, a) <=>
        /\ type = Text(a, "type")
        /\ type = "text" => ConformsAt("applied", t, a, "text")
        /\ type = "image" =>
             /\ ConformsAt("applied", t, a, "mimeType")
             /\ IF IsDefinition(Get(t, "data")) THEN ConformsAt("applied", t, a, "data")
                ELSE SameJsonType(Get(t, "data"), Get(a, "data"))
        /\ type = "resource" =>
             ConformsAt("applied", Get(t, "resource"), Get(a, "resource"), "uri")
  BY <1>4 DEF ConformsBlock
<1> HIDE DEF Typed, Alike, Data, Uri, at, path, type
<1>9. /\ type = "text" => (Alike("text") <=> ConformsAt("applied", t, a, "text"))
      /\ type = "image" => (Alike("mimeType") <=> ConformsAt("applied", t, a, "mimeType"))
  BY <1>2, <1>5
<1> QED  BY <1>1, <1>2, <1>3, <1>6, <1>7, <1>8, <1>9

-----------------------------------------------------------------------------
(* A field of a part, with the rules there. *)
LEMMA RulesAtField ==
  ASSUME NEW t, Template(t), NEW rules, NEW key, Has(t, key)
  PROVE  LET at == <<Key(key)>>
         IN /\ at \in Paths
            /\ Ruled(rules, <<>>, t) => Ruled(rules, at, Get(t, key))
<1>1. t \in Values /\ Key(key) \in Members(t) /\ StepInto(t, Key(key)) = Get(t, key)
  BY TemplateFacts, KeyMember
<1>2. <<>> \in Paths  BY KnownPaths
<1>3. Append(<<>>, Key(key)) = <<Key(key)>>  OBVIOUS
<1> QED  BY <1>1, <1>2, <1>3, MembersCompared, MemberRules

LEMMA BlockPath == \A i : Append(<<Key("content")>>, Index(i)) = <<Key("content"), Index(i)>>
<1>1. ASSUME NEW x, NEW y PROVE Append(<<x>>, y) = <<x, y>>
  <2> DEFINE S == {x, y}
             s == Append(<<x>>, y)
             u == <<x, y>>
  <2>1. s \in Seq(S) /\ u \in Seq(S)  OBVIOUS
  <2>2. Len(s) = 2 /\ Len(u) = 2 /\ s[1] = u[1] /\ s[2] = u[2]  OBVIOUS
  <2>3. \A i \in 1..2 : s[i] = u[i]
    <3>1. \A i \in 1..2 : i = 1 \/ i = 2  OBVIOUS
    <3> HIDE DEF s, u
    <3> QED  BY <2>2, <3>1
  <2> HIDE DEF s, u
  <2> QED  BY <2>1, <2>2, <2>3, SeqEqual DEF s, u
<1> QED  BY <1>1

LEMMA ResultMeans ==
  ASSUME NEW t, Template(t), NEW rules, Ruled(rules, <<>>, t), NEW a \in Values,
         ~Shape(t), ~Shape(a), Exemplary("tools/call", "response", ExampleOf(t)),
         \A i \in DOMAIN Items(t, "content") : IsStr(Get(Items(t, "content")[i], "type"))
  PROVE  CompareToolsCall(ExampleOf(t), a, rules) = {} <=> ConformsResult("applied", t, a)
<1> DEFINE e == ExampleOf(t)
           ts == Items(t, "content")
           es == Items(e, "content")
           xs == Items(a, "content")
           Block(i) == CompareContentBlock(i, es[i], xs[i], rules) = {}
           sc == "structuredContent"
           Whole1 == CompareStructured(<<Key(sc)>>, e.obj[sc], Get(a, sc), rules) = {}
<1>0. e \in Values /\ ts \in Seq(Values) /\ es \in Seq(Values) /\ xs \in Seq(Values)
      /\ Len(es) = Len(ts) /\ DOMAIN es = DOMAIN ts
  BY TemplateFacts, ExampleItems, GetFacts
<1>1. CompareToolsCall(e, a, rules) = {} <=>
        /\ Len(ts) <= Len(xs) /\ \A i \in DOMAIN ts : Block(i)
        /\ Flag(e, "isError") = Flag(a, "isError")
        /\ Has(t, sc) => Whole1
  <2>1. Shape(e) = Shape(a)
    <3>1. Shape(e) <=> Shape(t)  BY ExampleGet DEF Shape
    <3>2. Shape(e) \in BOOLEAN /\ Shape(a) \in BOOLEAN  BY DEF Shape, Has
    <3> QED  BY <3>1, <3>2
  <2>2. ~Shape(e)  BY ExampleGet DEF Shape
  <2>3. Has(e, sc) <=> Has(t, sc)  BY ExampleGet
  <2>4. CompareToolsCall(e, a, rules) =
          CompareContent(e, a, rules)
          \cup Miss(<<Key("isError")>>, Flag(e, "isError") = Flag(a, "isError"))
          \cup (IF Has(e, sc) THEN CompareStructured(<<Key(sc)>>, e.obj[sc], Get(a, sc), rules)
                ELSE {})
    BY <2>1, <2>2 DEF CompareToolsCall, Shaped
  <2>5. CompareContent(e, a, rules) = {} <=> Len(ts) <= Len(xs) /\ \A i \in DOMAIN ts : Block(i)
    <3>1. CompareContent(e, a, rules) =
            IF Len(xs) < Len(es) THEN {<<Key("content")>>}
            ELSE UNION {CompareContentBlock(i, es[i], xs[i], rules) : i \in DOMAIN es}
      BY DEF CompareContent
    <3>2. Len(xs) < Len(es) <=> ~(Len(ts) <= Len(xs))
      <4>1. Len(xs) \in Nat /\ Len(ts) \in Nat  BY <1>0
      <4> QED  BY <1>0, <4>1
    <3> HIDE DEF es, xs, ts
    <3>3. UNION {CompareContentBlock(i, es[i], xs[i], rules) : i \in DOMAIN es} = {}
            <=> \A i \in DOMAIN es : Block(i)
      OBVIOUS
    <3> QED  BY <1>0, <3>1, <3>2, <3>3
  <2>6. Miss(<<Key("isError")>>, Flag(e, "isError") = Flag(a, "isError")) = {}
          <=> Flag(e, "isError") = Flag(a, "isError")
    BY DEF Miss
  <2> HIDE DEF e, ts, xs, es, Block
  <2> QED  BY <2>3, <2>4, <2>5, <2>6
<1>2. ASSUME NEW i \in DOMAIN ts, Len(ts) <= Len(xs)
      PROVE  Block(i) <=> ConformsBlock("applied", ts[i], xs[i])
  <2> DEFINE w == Get(t, "content")
             base == <<Key("content"), Index(i)>>
  <2>1. /\ Template(ts[i]) /\ es[i] = ExampleOf(ts[i]) /\ Index(i) \in Members(w)
        /\ StepInto(w, Index(i)) = ts[i] /\ Has(t, "content")
    BY ExampleItems
  <2>2. <<Key("content")>> \in Paths /\ Ruled(rules, <<Key("content")>>, w)
    BY <2>1, RulesAtField
  <2>3. w \in Values  BY ExampleGet, TemplateFacts
  <2>4. Append(<<Key("content")>>, Index(i)) = base  BY BlockPath
  <2> HIDE DEF w
  <2>5. base \in Paths /\ Ruled(rules, base, ts[i])
    BY <2>1, <2>2, <2>3, <2>4, MembersCompared, MemberRules
  <2>6. FormedBlock(ExampleOf(ts[i]))
    <3>1. FormedBlock(es[i])  BY <1>0 DEF Exemplary
    <3> QED  BY <2>1, <3>1
  <2>7. xs[i] \in Values
    <3>1. i \in DOMAIN xs  BY <1>0, <1>2
    <3> QED  BY <1>0, <3>1
  <2>8. IsStr(Get(ts[i], "type"))  OBVIOUS
  <2> HIDE DEF ts, es, xs, base
  <2> QED  BY <2>1, <2>5, <2>6, <2>7, <2>8, BlockMeans DEF base
<1>3. ASSUME Has(t, sc)
      PROVE  Whole1 <=> ConformsAt("applied", t, a, sc)
  <2>1. /\ Template(Get(t, sc)) /\ e.obj[sc] = ExampleOf(Get(t, sc))
    BY <1>3, ExampleGet
  <2>2. <<Key(sc)>> \in Paths /\ Kept("applied", rules, <<Key(sc)>>, Get(t, sc))
    BY <1>3, RulesAtField, RuledIsKept
  <2>3. Get(a, sc) \in Values  BY GetFacts
  <2> QED  BY <2>1, <2>2, <2>3, CompareMeans DEF ConformsAt, Readings
<1>4. ConformsResult("applied", t, a) <=>
        /\ Flag(e, "isError") = Flag(a, "isError")
        /\ Len(ts) <= Len(xs)
        /\ \A i \in DOMAIN ts : ConformsBlock("applied", ts[i], xs[i])
        /\ Has(t, sc) => ConformsAt("applied", t, a, sc)
  BY DEF ConformsResult
<1> HIDE DEF e, ts, xs, es, Block, Whole1
<1>5. CompareToolsCall(e, a, rules) = {} <=> ConformsResult("applied", t, a)
  BY <1>1, <1>2, <1>3, <1>4
<1> QED  BY <1>5 DEF e

-----------------------------------------------------------------------------
(* The items of a list, of which a tool's schema is compared only, and     *)
(* none of them under the rules: no path of a template leads to an item by *)
(* its key.                                                                *)
LEMMA ItemUnruled ==
  ASSUME NEW t \in Values, NEW op \in {"tools/list", "resources/list", "prompts/list"},
         NEW k \in STRING, NEW d \in Values
  PROVE  Kept("example", RulesOf(t), ItemPath(op, k), d)
<1> DEFINE x == Item(ListOf(op)[1], ListOf(op)[2], k)
<1>1. x \in Steps
  <2>1. ListOf(op)[1] \in STRING /\ ListOf(op)[2] \in STRING  BY ListFacts, NamesAssumption
  <2> QED  BY <2>1 DEF Item, Steps
<1>2. x \notin Members(t)
  <2>1. DOMAIN x = {"list", "field", "item"}  BY DEF Item
  <2>2. \A i : DOMAIN x # DOMAIN Key(i) /\ DOMAIN x # DOMAIN Index(i)  BY <2>1, Forms
  <2>3. \A i : x # Key(i) /\ x # Index(i)  BY <2>2
  <2> HIDE DEF x
  <2> QED  BY <2>3 DEF Members
<1>3. ItemPath(op, k) = <<x>>  BY DEF ItemPath
<1>4. ASSUME NEW q \in Paths PROVE MatchType(RulesOf(t), <<x>> \o q) = "none"
  <2> HIDE DEF x
  <2>1. <<x>> \o q # <<>> /\ (<<x>> \o q)[1] = x
    <3>1. <<>> \in Paths  BY KnownPaths
    <3>2. Len(<<x>> \o q) = Len(q) + 1 /\ Len(q) \in Nat /\ (<<x>> \o q)[1] = x
      BY <1>1, <3>1, PathsBelow
    <3>3. Len(<<x>> \o q) # 0 /\ Len(<<>>) = 0  BY <3>2
    <3> QED  BY <3>2, <3>3
  <2> QED  BY <1>2, <2>1, RulesFacts
<1>5. \A leaf \in Leaves[d] : leaf.path \in Paths  BY LeavesFacts DEF Leaf
<1> HIDE DEF x
<1> QED  BY <1>3, <1>4, <1>5 DEF Kept, ByTypeIn

LEMMA Unruled == \A at, d : Kept("example", NoRules, at, d)
BY UnruledIsEqual DEF Kept, ByTypeIn

LEMMA ItemMeans ==
  ASSUME NEW op \in {"tools/list", "resources/list", "prompts/list"}, NEW d, Template(d),
         NEW k \in STRING, NEW x \in Values, NEW rules, Kept("example", rules, ItemPath(op, k), d),
         IsStr(Get(ExampleOf(d), ListOf(op)[2]))
  PROVE  ConformsItem("example", op, d, x) <=>
           /\ Tested(op, ItemPath(op, k), ExampleOf(d), x, rules) = {}
           /\ Get(x, ListOf(op)[2]) = Get(ExampleOf(d), ListOf(op)[2])
<1> DEFINE e == ExampleOf(d)
           key == ListOf(op)[2]
           w == Get(d, key)
           tested == Tested(op, ItemPath(op, k), e, x, rules) = {}
<1>0. /\ d \in Values /\ e \in Values /\ Template(w) /\ Get(e, key) = ExampleOf(w)
      /\ w \in Values /\ (Has(e, key) <=> Has(d, key))
  BY TemplateFacts, ExampleGet
<1>1. Has(d, key) /\ ~Compound(w)
  <2>1. Get(e, key) # Null /\ ~Compound(Get(e, key))
    BY NullFacts DEF Compound, IsStr, IsObj, IsArr
  <2>2. Has(e, key)  BY <2>1 DEF Get
  <2> QED  BY <1>0, <2>1, <2>2, TemplateFacts
<1>2. Get(x, key) \in Values  BY GetFacts
<1>3. ConformsAt("example", d, x, key) <=> Get(x, key) = Get(e, key)
  <2>1. Satisfies("example", w, Get(x, key)) <=> Get(x, key) = ExampleOf(w)
    BY <1>0, <1>1, TemplateFacts DEF Satisfies, Compound
  <2>2. Conforms("example", w, Get(x, key)) <=> Satisfies("example", w, Get(x, key))
    BY <1>0, <1>1, <1>2, ConformsFacts
  <2> QED  BY <1>0, <2>1, <2>2 DEF ConformsAt
<1>4. CASE op = "tools/list"
  <2> DEFINE s == "inputSchema"
             at == Append(ItemPath(op, k), Key(s))
             schema == ConformsAt("example", d, x, s)
  <2>1. key = "name"  BY <1>4, ListFacts
  <2>2. tested <=> (Has(d, s) =>
                      CompareStructured(at, ExampleOf(Get(d, s)), Get(x, s), NoRules) = {})
    <3>1. /\ Has(e, s) <=> Has(d, s)
          /\ Has(d, s) => e.obj[s] = ExampleOf(Get(d, s))
      BY ExampleGet
    <3>2. Tested(op, ItemPath(op, k), e, x, rules)
            = IF Has(e, s) THEN CompareStructured(at, e.obj[s], Get(x, s), NoRules) ELSE {}
      BY <1>4 DEF Tested
    <3> HIDE DEF e, at
    <3> QED  BY <3>1, <3>2
  <2>3. /\ at \in Paths /\ Get(x, s) \in Values /\ Template(Get(d, s))
        /\ Kept("example", NoRules, at, Get(d, s))
    BY ItemPathFacts, GetFacts, ExampleGet, Unruled
  <2>4. CompareStructured(at, ExampleOf(Get(d, s)), Get(x, s), NoRules) = {} <=> schema
    BY <2>3, CompareMeans DEF ConformsAt, Readings
  <2>5. ConformsItem("example", op, d, x) <=>
          ConformsAt("example", d, x, key) /\ (Has(d, s) => schema)
    BY <1>4, <2>1 DEF ConformsItem
  <2> HIDE DEF e, key, w, tested, at, schema
  <2> QED  BY <1>3, <2>2, <2>4, <2>5 DEF tested, e, key
<1>5. CASE op # "tools/list"
  <2>1. tested <=> CompareStructured(ItemPath(op, k), e, x, rules) = {}
    BY <1>5 DEF Tested
  <2>2. ConformsItem("example", op, d, x) <=> Conforms("example", d, x)
    BY <1>5 DEF ConformsItem
  <2>3. ItemPath(op, k) \in Paths  BY ItemPathFacts
  <2>4. tested <=> Conforms("example", d, x)  BY <2>1, <2>3, CompareMeans DEF Readings
  <2>5. Conforms("example", d, x) => ConformsAt("example", d, x, key)
    <3> SUFFICES ASSUME Conforms("example", d, x) PROVE ConformsAt("example", d, x, key)
      OBVIOUS
    <3>1. Key(key) \in Members(d) /\ StepInto(d, Key(key)) = w /\ Compound(d)
      BY <1>0, <1>1, KeyMember
    <3>2. Key(key) \in Members(x) /\ Conforms("example", w, StepInto(x, Key(key)))
      BY <1>0, <3>1, ConformsFacts
    <3>3. StepInto(x, Key(key)) = Get(x, key)  BY <3>2, KeyMember
    <3> QED  BY <3>2, <3>3 DEF ConformsAt
  <2> HIDE DEF e, key, w, tested
  <2> QED  BY <1>3, <2>2, <2>4, <2>5 DEF tested, e, key
<1> QED  BY <1>4, <1>5

(* ... and the lists, each item with the first that has its key.           *)
Apart(op, a) ==
  LET items == Items(a, ListOf(op)[1])
      key   == ListOf(op)[2]
  IN \A i, j \in DOMAIN items : Get(items[i], key) = Get(items[j], key) => i = j

LEMMA ListMeans ==
  ASSUME NEW op \in {"tools/list", "resources/list", "prompts/list"}, NEW t, Template(t),
         NEW a \in Values, Formed(op, "response", ExampleOf(t))
  PROVE  /\ CompareResponse(op, ExampleOf(t), a, RulesOf(t)) = {}
              => ConformsList("example", op, t, a)
         /\ ConformsList("example", op, t, a) /\ Apart(op, a)
              => CompareResponse(op, ExampleOf(t), a, RulesOf(t)) = {}
<1> DEFINE e == ExampleOf(t)
           list == ListOf(op)[1]
           key == ListOf(op)[2]
           ts == Items(t, list)
           es == Items(e, list)
           xs == Items(a, list)
           rules == RulesOf(t)
           K(i) == Text(es[i], key)
           F(i) == Found(xs, key, K(i))
           T(i, j) == Tested(op, ItemPath(op, K(i)), es[i], xs[j], rules) = {}
<1>0. /\ t \in Values /\ e \in Values /\ ts \in Seq(Values) /\ es \in Seq(Values)
      /\ xs \in Seq(Values) /\ DOMAIN es = DOMAIN ts /\ ListOf(op) # <<>>
  BY TemplateFacts, ExampleItems, GetFacts, ListFacts
<1>1. CompareResponse(op, e, a, rules) = {} <=>
        \A i \in DOMAIN ts : F(i) # {} /\ \A j \in F(i) : T(i, j)
  <2>1. CompareResponse(op, e, a, rules) = ListedAlike(op, es, xs, rules)  BY ListOutcome
  <2>2. \A x : x \in ListedAlike(op, es, xs, rules) <=>
          \E i \in DOMAIN es :
            \/ F(i) = {} /\ x = ItemPath(op, K(i))
            \/ \E j \in F(i) : x \in Tested(op, ItemPath(op, K(i)), es[i], xs[j], rules)
    <3> HIDE DEF es, xs, rules
    <3> QED  BY ListedReports
  <2> HIDE DEF es, xs, ts, F, K, rules, e
  <2> QED  BY <1>0, <2>1, <2>2
<1>2. ASSUME NEW i \in DOMAIN ts
      PROVE  /\ Template(ts[i]) /\ es[i] = ExampleOf(ts[i]) /\ K(i) \in STRING
             /\ Get(es[i], key) = Str(K(i)) /\ IsStr(Get(es[i], key))
             /\ Kept("example", rules, ItemPath(op, K(i)), ts[i])
  <2>1. /\ Template(ts[i]) /\ es[i] = ExampleOf(ts[i]) /\ Index(i) \in Members(Get(t, list))
        /\ StepInto(Get(t, list), Index(i)) = ts[i] /\ Has(t, list)
    BY ExampleItems
  <2>2. es[i] \in Values /\ Get(es[i], key) \in Values  BY <1>0, <2>1, TemplateFacts, GetFacts
  <2>3. IsStr(Get(es[i], key))
    <3>1. es[i] \in ListedIn(op, e)  BY <1>0 DEF ListedIn
    <3> QED  BY <1>0, <3>1 DEF Formed
  <2>4. Get(es[i], key) = Str(K(i)) /\ K(i) \in STRING
    <3>1. Get(es[i], key) = Str(Get(es[i], key).str)  BY <2>2, <2>3, ValueFacts
    <3>2. K(i) \in STRING  BY <2>2, GetFacts
    <3> QED  BY <2>3, <3>1, <3>2 DEF Text
  <2>5. ts[i] \in Values  BY <2>1, TemplateFacts
  <2>6. Kept("example", rules, ItemPath(op, K(i)), ts[i])
    <3> HIDE DEF ts, K
    <3> QED  BY <1>0, <2>4, <2>5, ItemUnruled
  <2> QED  BY <2>1, <2>3, <2>4, <2>6
<1>3. ASSUME NEW i \in DOMAIN ts, NEW j \in DOMAIN xs
      PROVE  ConformsItem("example", op, ts[i], xs[j])
               <=> T(i, j) /\ Get(xs[j], key) = Str(K(i))
  <2>1. xs[j] \in Values  BY <1>0
  <2>2. /\ Template(ts[i]) /\ es[i] = ExampleOf(ts[i]) /\ K(i) \in STRING
        /\ Get(es[i], key) = Str(K(i)) /\ IsStr(Get(es[i], key))
        /\ Kept("example", rules, ItemPath(op, K(i)), ts[i])
    BY <1>2
  <2> DEFINE d == ts[i]
             x == xs[j]
             k == K(i)
  <2>3. IsStr(Get(ExampleOf(d), key))  BY <2>2
  <2> HIDE DEF ts, es, xs, rules, K, d, x, k
  <2>4. ConformsItem("example", op, d, x) <=>
          /\ Tested(op, ItemPath(op, k), ExampleOf(d), x, rules) = {}
          /\ Get(x, key) = Get(ExampleOf(d), key)
    <3>1. Template(d) /\ k \in STRING /\ x \in Values
          /\ Kept("example", rules, ItemPath(op, k), d)
      BY <2>1, <2>2 DEF d, x, k
    <3> QED  BY <2>3, <3>1, ItemMeans
  <2> QED  BY <2>2, <2>4 DEF d, x, k
<1>4. \A i : \A j \in F(i) : j \in DOMAIN xs /\ Get(xs[j], key) = Str(K(i))
  BY <1>0, FoundFacts
<1>5. \A i : \A j \in DOMAIN xs : Get(xs[j], key) = Str(K(i)) => F(i) # {}
  BY <1>0, FoundFacts
<1>6. ConformsList("example", op, t, a) <=>
        \A i \in DOMAIN ts : \E j \in DOMAIN xs : ConformsItem("example", op, ts[i], xs[j])
  BY DEF ConformsList, ListedIn
<1>7. Apart(op, a) <=>
        \A i, j \in DOMAIN xs : Get(xs[i], key) = Get(xs[j], key) => i = j
  BY DEF Apart
<1> HIDE DEF e, key, list, ts, es, xs, rules, K, F, T
<1>8. CompareResponse(op, e, a, rules) = {} => ConformsList("example", op, t, a)
  BY <1>1, <1>3, <1>4, <1>6
<1>9. ASSUME Apart(op, a), ConformsList("example", op, t, a), NEW i \in DOMAIN ts
      PROVE  F(i) # {} /\ \A j \in F(i) : T(i, j)
  <2>1. PICK j \in DOMAIN xs : ConformsItem("example", op, ts[i], xs[j])  BY <1>6, <1>9
  <2>2. T(i, j) /\ Get(xs[j], key) = Str(K(i))  BY <1>3, <2>1
  <2>3. \A l \in F(i) : l = j  BY <1>4, <1>7, <1>9, <2>2
  <2> QED  BY <1>5, <2>2, <2>3
<1> QED  BY <1>1, <1>8, <1>9 DEF e, rules

-----------------------------------------------------------------------------
(* A part as a whole.                                                      *)
LEMMA OwnRules ==
  ASSUME NEW t \in Values
  PROVE  Ruled(RulesOf(t), <<>>, t)
<1>1. \A leaf \in Leaves[t] : <<>> \o leaf.path = leaf.path
  <2>1. \A leaf \in Leaves[t] : leaf.path \in Seq(Steps)  BY LeavesFacts DEF Leaf, Paths
  <2> QED  BY <2>1, ConcatEmptySeq
<1>2. \A leaf \in Leaves[t] : MatchType(RulesOf(t), leaf.path) = Mark(leaf.value)
  BY RulesFacts
<1> QED  BY <1>1, <1>2 DEF Ruled

LEMMA OutcomeMeans ==
  ASSUME NEW op \in Operations, NEW side \in {"request", "response"}, NEW t, Template(t),
         Formed(op, side, ExampleOf(t)), Exemplary(op, side, ExampleOf(t)),
         \A i \in DOMAIN Items(t, "content") : IsStr(Get(Items(t, "content")[i], "type")),
         NEW a \in Values, side = "request" \/ (~Shape(t) /\ ~Shape(a))
  PROVE  LET out == OutcomeOf(op, side, ExampleOf(t), a, RulesOf(t))
             conforms == ConformsTo("applied", op, side, t, a)
         IN /\ out = {} => conforms
            /\ conforms /\ (side = "response" /\ ListOf(op) # <<>> => Apart(op, a)) => out = {}
<1> DEFINE e == ExampleOf(t)
           rules == RulesOf(t)
           lists == {"tools/list", "resources/list", "prompts/list"}
           out == OutcomeOf(op, side, e, a, rules) = {}
           conforms == ConformsTo("applied", op, side, t, a)
           Whole1 == CompareStructured(<<>>, e, a, rules) = {}
<1>0. t \in Values /\ e \in Values  BY TemplateFacts
<1>1. Ruled(rules, <<>>, t) /\ Kept("applied", rules, <<>>, t)
  BY <1>0, OwnRules, RuledIsKept
<1>2. op \in lists <=> ListOf(op) # <<>>  BY ListFacts
<1>3. Whole1 <=> Conforms("applied", t, a)
  BY <1>1, KnownPaths, CompareMeans DEF Readings
<1>4. CASE side = "request" /\ op = "tools/call"
  <2> DEFINE g == "arguments"
             Args == CompareStructured(<<Key(g)>>, Get(e, g), Get(a, g), rules) = {}
  <2>1. out <=> Text(e, "name") = Text(a, "name") /\ Args
    BY <1>4 DEF OutcomeOf, MatchRequest, MatchToolsCallRequest
  <2>2. conforms <=> Text(e, "name") = Text(a, "name") /\ ConformsAt("applied", t, a, g)
    BY <1>4 DEF ConformsTo
  <2>3. Has(t, g)
    <3>1. IsObj(Get(e, g))  BY <1>4 DEF Exemplary
    <3>2. Has(e, g)  BY <3>1, NullFacts DEF Get
    <3> QED  BY <3>2, ExampleGet
  <2>4. /\ Template(Get(t, g)) /\ Get(e, g) = ExampleOf(Get(t, g)) /\ Get(a, g) \in Values
        /\ <<Key(g)>> \in Paths /\ Kept("applied", rules, <<Key(g)>>, Get(t, g))
    BY <1>1, <2>3, ExampleGet, GetFacts, RulesAtField, RuledIsKept
  <2>5. Args <=> ConformsAt("applied", t, a, g)
    BY <2>4, CompareMeans DEF ConformsAt, Readings
  <2> HIDE DEF out, conforms, Args, e
  <2> QED  BY <2>1, <2>2, <2>5 DEF out, conforms, e
<1>5. CASE side = "request" /\ op # "tools/call"
  <2>1. out <=> Whole1
    BY <1>5 DEF OutcomeOf, MatchRequest, MatchStructuralRequest
  <2>2. conforms <=> Conforms("applied", t, a)  BY <1>5 DEF ConformsTo
  <2> QED  BY <1>3, <2>1, <2>2
<1>6. CASE side = "response" /\ op \in {"resources/read", "prompts/get"}
  <2>1. out <=> Whole1
    <3>1. Shape(e) <=> Shape(t)  BY ExampleGet DEF Shape
    <3>2. Shape(e) \in BOOLEAN /\ Shape(a) \in BOOLEAN  BY DEF Shape, Has
    <3>3. CompareStructuralResult(e, a, rules) = CompareStructured(<<>>, e, a, rules)
      BY <1>6, <3>1, <3>2 DEF CompareStructuralResult, Shaped
    <3> QED  BY <1>6, <3>3 DEF OutcomeOf, CompareResponse
  <2>2. conforms <=> Conforms("applied", t, a)
    BY <1>6, ListFacts DEF ConformsTo
  <2> QED  BY <1>3, <2>1, <2>2
<1>7. CASE side = "response" /\ op = "tools/call"
  <2>1. out <=> CompareToolsCall(e, a, rules) = {}
    BY <1>7 DEF OutcomeOf, CompareResponse
  <2>2. conforms <=> ConformsResult("applied", t, a)
    <3>1. ~(op = "tools/call" /\ side = "request")  BY <1>7
    <3>2. ConformsTo("applied", op, side, t, a) = ConformsResult("applied", t, a)
      BY ONLY <1>7, <3>1, ListFacts DEF ConformsTo, ListOf
    <3> QED  BY <3>2
  <2>3. CompareToolsCall(e, a, rules) = {} <=> ConformsResult("applied", t, a)
    BY <1>1, <1>7, ResultMeans
  <2> QED  BY <2>1, <2>2, <2>3
<1>8. CASE side = "response" /\ op \in lists
  <2>1. out <=> CompareResponse(op, e, a, rules) = {}  BY <1>8 DEF OutcomeOf
  <2>2. conforms <=> ConformsList("example", op, t, a)
    BY <1>8, ListFacts DEF ConformsTo, ForItems
  <2>3. /\ CompareResponse(op, e, a, rules) = {} => ConformsList("example", op, t, a)
        /\ ConformsList("example", op, t, a) /\ Apart(op, a)
             => CompareResponse(op, e, a, rules) = {}
    BY <1>8, ListMeans
  <2> QED  BY <1>2, <1>8, <2>1, <2>2, <2>3
<1> QED  BY <1>4, <1>5, <1>6, <1>7, <1>8 DEF Operations

-----------------------------------------------------------------------------
(* From the contents to the verdict.                                       *)

(* Every part that is written can be followed to the pact file.            *)
LEMMA WrittenParts ==
  ASSUME NEW contents \in Contents, ~Refused(Mcp(contents)), NEW side \in Sides
  PROVE  /\ Mcp(contents).operation \in Operations
         /\ Template(Mcp(contents)[side])
<1> DEFINE mcp == Mcp(contents)
           t == mcp[side]
<1>1. Sides \subseteq DOMAIN mcp /\ mcp.operation \in Operations  BY DEF Refused
<1>2. t \in Written
  <2>1. mcp \in {Mcp(c) : c \in Contents}  OBVIOUS
  <2>2. side \in Sides \cap DOMAIN mcp  BY <1>1
  <2> QED  BY <2>1, <2>2 DEF Written
<1>3. /\ t \in Values /\ JsRewrite(t) = t
      /\ \A leaf \in Leaves[t] : IsDefinition(leaf.value) => FitsHelper(leaf.value)
      /\ {StructToValue(t), BuildPart(t).body, Walk("plain")[t], ExampleOf(t)} \subseteq Values
  BY <1>2, AuthoringAssumption
<1>4. BuildPart(t).body = Stripped(t)  BY DEF BuildPart, StructToValue, Stripped, Raw
<1>5. Walkable(t)  BY <1>3, <1>4 DEF Walkable, StructToValue, Raw, Plainly
<1> QED  BY <1>1, <1>3, <1>5 DEF Template, Proper, JsRewrite

(* What is persisted of a part: its example and its rules.                 *)
PartOf(t) == [body |-> ExampleOf(t), rules |-> RulesOf(t)]

LEMMA StampedPart ==
  ASSUME NEW t, Template(t)
  PROVE  Stamped(BuildPart(t)) = PartOf(t)
<1>1. BuildPart(t) = [body |-> Stripped(t), rules |-> RulesOf(Raw(t))]
  BY DEF BuildPart, StructToValue, Stripped, Raw
<1>2. JsRewrite(Stripped(t)) = ExampleOf(t)
  BY PersistedExample DEF Template, JsRewrite
<1>3. RulesOf(Raw(t)) = RulesOf(t)
  <2>1. MatchersIn(Raw(t)) = MatchersIn(t)  BY RawMatchers DEF Template
  <2> QED  BY <2>1 DEF RulesOf
<1> QED  BY <1>1, <1>2, <1>3 DEF PartOf, Stamped

ReplyOf(mcp, part(_)) ==
  [parts |-> [side \in Sides |-> part(mcp[side])], config |-> ConfigOf(mcp)]

(* At every stage the reply is made of the contents alone, and an answer is*)
(* one to a question about it.                                             *)
Persisted ==
  LET mcp == Mcp(authored)
  IN /\ authored \in Contents
     /\ stage \in {"authored", "refused", "configured", "stamped", "asked"}
     /\ stage = "configured" => ~Refused(mcp) /\ reply = ReplyOf(mcp, BuildPart)
     /\ stage \in {"stamped", "asked"} => ~Refused(mcp) /\ reply = ReplyOf(mcp, PartOf)
     /\ stage # "asked" => question = NoQuestion /\ ~answered
     /\ stage = "asked" =>
          \E side \in Sides, value \in Payloads : question = QuestionOf(side, value)
     /\ answered => misses = Outcome(question)

LEMMA SpecPersisted == AuthoringSpec => []Persisted
<1>1. AuthoringInit => Persisted
  BY DEF AuthoringInit, Persisted
<1>2. Persisted /\ [AuthoringNext]_<<interaction, comparison>> => Persisted'
  <2> SUFFICES ASSUME Persisted, [AuthoringNext]_<<interaction, comparison>>
               PROVE  Persisted'
    OBVIOUS
  <2>1. CASE ConfigureInteraction
    BY <2>1 DEF Persisted, ConfigureInteraction, Stage, comparison, ReplyOf
  <2>2. CASE StampPact
    <3> DEFINE mcp == Mcp(authored)
    <3>1. /\ stage = "configured" /\ stage' = "stamped" /\ authored' = authored
          /\ question' = question /\ misses' = misses /\ answered' = answered
          /\ ~Refused(mcp) /\ reply = ReplyOf(mcp, BuildPart) /\ authored \in Contents
          /\ question = NoQuestion /\ ~answered
      BY <2>2 DEF Persisted, StampPact, Stage, comparison
    <3>2. \A side \in Sides : Stamped(BuildPart(mcp[side])) = PartOf(mcp[side])
      BY <3>1, WrittenParts, StampedPart
    <3>3. reply' = ReplyOf(mcp, PartOf)
      <4>1. reply' = [reply EXCEPT !.parts = [side \in Sides |-> Stamped(reply.parts[side])]]
        BY <2>2 DEF StampPact
      <4>2. /\ reply.parts = [side \in Sides |-> BuildPart(mcp[side])]
            /\ reply = [parts |-> reply.parts, config |-> ConfigOf(mcp)]
        BY <3>1 DEF ReplyOf
      <4>3. [side \in Sides |-> Stamped(reply.parts[side])] = [side \in Sides |-> PartOf(mcp[side])]
        BY <3>2, <4>2
      <4> QED  BY <4>1, <4>2, <4>3 DEF ReplyOf
    <3> QED  BY <3>1, <3>3 DEF Persisted
  <2>3. ASSUME NEW side \in Sides, NEW value \in Payloads, CompareContents(side, value)
        PROVE  Persisted'
    <3>1. QuestionOf(side, value)' = QuestionOf(side, value)
      BY <2>3 DEF CompareContents, QuestionOf
    <3>2. question' = QuestionOf(side, value)'  BY <2>3, <3>1 DEF CompareContents
    <3>3. (\E s \in Sides, v \in Payloads : question = QuestionOf(s, v))'
      BY <3>2 
    <3>4. /\ stage = "stamped" /\ stage' = "asked" /\ authored' = authored
          /\ reply' = reply /\ answered' = answered /\ ~answered
      BY <2>3 DEF Persisted, CompareContents, Stage
    <3> QED  BY <3>3, <3>4 DEF Persisted
  <2>4. ASSUME NEW side \in Sides, Answer(side), UNCHANGED interaction
        PROVE  Persisted'
    <3>1. stage = "asked"
      <4>1. question # NoQuestion
        BY <2>4 DEF Answer, NoQuestion, Sides, None
      <4> QED  BY <4>1 DEF Persisted
    <3>2. /\ authored' = authored /\ stage' = stage /\ reply' = reply
          /\ question' = question /\ misses' = Outcome(question)
      BY <2>4 DEF Answer, interaction
    <3>3. PICK s \in Sides, v \in Payloads : question = QuestionOf(s, v)
      BY <3>1 DEF Persisted
    <3>4. QuestionOf(s, v)' = QuestionOf(s, v)  BY <3>2 DEF QuestionOf
    <3> QED  BY <3>1, <3>2, <3>3, <3>4 DEF Persisted
  <2>5. CASE UNCHANGED <<interaction, comparison>>
    BY <2>5 DEF Persisted, interaction, comparison, QuestionOf
  <2> QED  BY <2>1, <2>2, <2>3, <2>4, <2>5 DEF AuthoringNext
<1> QED  BY <1>1, <1>2, PTL DEF AuthoringSpec

(* What the theorems suppose of the contents: they are refused, or their   *)
(* examples can be used.                                                   *)
UsableContents == \A contents \in Contents : Refused(Mcp(contents)) \/ Usable(Mcp(contents))

(* A question about what is persisted asks for the example, by the rules.  *)
LEMMA PersistedQuestion ==
  ASSUME Persisted, stage \in {"stamped", "asked"}, UsableContents,
         NEW side \in Sides, NEW a
  PROVE  LET mcp == Mcp(authored)
             t   == mcp[side]
         IN /\ Outcome(QuestionOf(side, a))
                 = OutcomeOf(mcp.operation, side, ExampleOf(t), a, RulesOf(t))
            /\ QuestionOf(side, a).side = side /\ QuestionOf(side, a).actual = a
            /\ mcp.operation \in Operations /\ Template(t) /\ Usable(mcp)
<1> DEFINE mcp == Mcp(authored)
           t == mcp[side]
<1>1. ~Refused(mcp) /\ reply = ReplyOf(mcp, PartOf) /\ authored \in Contents  BY DEF Persisted
<1>2. reply.parts[side] = PartOf(t) /\ reply.config = ConfigOf(mcp)
  BY <1>1 DEF ReplyOf
<1>3. /\ reply.parts[side].body = ExampleOf(t) /\ reply.parts[side].rules = RulesOf(t)
      /\ reply.config.operation = mcp.operation
  BY <1>2 DEF PartOf, ConfigOf
<1>4. QuestionOf(side, a) = [op |-> mcp.operation, side |-> side, expected |-> ExampleOf(t),
                             actual |-> a, rules |-> RulesOf(t)]
  BY <1>3 DEF QuestionOf
<1>5. Outcome(QuestionOf(side, a))
        = OutcomeOf(mcp.operation, side, ExampleOf(t), a, RulesOf(t))
  BY <1>4 DEF Outcome, OutcomeOf
<1>6. Usable(mcp)  BY <1>1 DEF UsableContents
<1> QED  BY <1>1, <1>4, <1>5, <1>6, WrittenParts

(* A consumer's own example satisfies both parts of what is persisted of   *)
(* its interaction, whatever matchers it is written with.                  *)
THEOREM SpecExampleAccepted ==
  ASSUME UsableContents
  PROVE  AuthoringSpec => []ExampleAccepted
<1>1. ASSUME Persisted, stage = "stamped", NEW side \in Sides
      PROVE  Outcome(QuestionOf(side, ExampleOf(Mcp(authored)[side]))) = {}
  <2> DEFINE mcp == Mcp(authored)
             e == ExampleOf(mcp[side])
  <2>1. /\ Outcome(QuestionOf(side, e)) = OutcomeOf(mcp.operation, side, e, e, RulesOf(mcp[side]))
        /\ mcp.operation \in Operations /\ Template(mcp[side]) /\ Usable(mcp)
    BY <1>1, PersistedQuestion
  <2>2. e \in Values /\ Formed(mcp.operation, side, e) /\ Exemplary(mcp.operation, side, e)
    BY <2>1, TemplateFacts DEF Usable
  <2>3. side \in {"request", "response"}  BY DEF Sides
  <2> HIDE DEF e, mcp
  <2> QED  BY <2>1, <2>2, <2>3, AcceptsItself DEF e, mcp
<1>2. Persisted => ExampleAccepted  BY <1>1 DEF ExampleAccepted
<1> QED  BY <1>2, SpecPersisted, PTL

(* End to end a matcher "type" is applied where it was written and every   *)
(* other one stands for its example: what conforms to that is accepted.    *)
LEMMA PersistedApplied ==
  ASSUME UsableContents, Persisted
  PROVE  MatchersApplied
<1> SUFFICES ASSUME Judged
             PROVE  /\ misses = {} => Conforming("applied")
                    /\ Conforming("applied") /\ (Listed => KeysApart) => misses = {}
  BY DEF MatchersApplied
<1>1. answered /\ stage = "asked" /\ misses = Outcome(question)  BY DEF Judged, Persisted
<1>2. PICK side \in Sides, a \in Payloads : question = QuestionOf(side, a)
  BY <1>1 DEF Persisted
<1> DEFINE mcp == Mcp(authored)
           t == mcp[side]
           op == mcp.operation
<1>3. /\ misses = OutcomeOf(op, side, ExampleOf(t), a, RulesOf(t))
      /\ question.side = side /\ question.actual = a
      /\ op \in Operations /\ Template(t) /\ Usable(mcp)
  BY <1>1, <1>2, PersistedQuestion
<1>4. /\ Formed(op, side, ExampleOf(t)) /\ Exemplary(op, side, ExampleOf(t))
      /\ \A i \in DOMAIN Items(t, "content") : IsStr(Get(Items(t, "content")[i], "type"))
  BY <1>3 DEF Usable
<1>5. a \in Values /\ side \in {"request", "response"}  BY AuthoringAssumption DEF Sides
<1>6. side = "request" \/ (~Shape(t) /\ ~Shape(a))  BY <1>3 DEF Judged, Asked
<1>7. /\ Conforming("applied") <=> ConformsTo("applied", op, side, t, a)
      /\ Listed <=> side = "response" /\ ListOf(op) # <<>>
      /\ KeysApart <=> Apart(op, a)
  BY <1>3 DEF Conforming, Asked, Listed, KeysApart, Apart
<1> HIDE DEF t, op, mcp
<1> QED  BY <1>3, <1>4, <1>5, <1>6, <1>7, OutcomeMeans

THEOREM SpecMatchersApplied ==
  ASSUME UsableContents
  PROVE  AuthoringSpec => []MatchersApplied
BY SpecPersisted, PersistedApplied, PTL

-----------------------------------------------------------------------------
(* From the matchers that are applied to those that are written: what a    *)
(* template asks for as it is applied, or of its example, it asks for as it*)
(* is written, if its examples are instances of their matchers.            *)
LEMMA InstancesFacts ==
  ASSUME NEW t \in Values, Instances(t)
  PROVE  /\ \A key : Get(t, key) \in Values /\ Instances(Get(t, key))
         /\ \A key : \A i \in DOMAIN Items(t, key) :
              Items(t, key)[i] \in Values /\ Instances(Items(t, key)[i])
<1>1. ASSUME NEW v \in Values, Instances(v), NEW s \in Members(v)
      PROVE  Instances(StepInto(v, s))
  <2>1. <<>> \in Paths  BY KnownPaths
  <2>2. \A leaf \in Leaves[StepInto(v, s)] :
          Below(s, leaf) \in Leaves[v] /\ Below(s, leaf).value = leaf.value
    BY <2>1, LeafBelow
  <2> SUFFICES ASSUME NEW leaf \in Leaves[StepInto(v, s)], IsDefinition(leaf.value)
               PROVE  Asks(leaf.value, leaf.value.example)
    BY DEF Instances
  <2>3. IsDefinition(Below(s, leaf).value)  BY <2>2
  <2>4. Asks(Below(s, leaf).value, Below(s, leaf).value.example)
    BY <1>1, <2>2, <2>3 DEF Instances
  <2> QED  BY <2>2, <2>4
<1>2. ASSUME NEW key PROVE Get(t, key) \in Values /\ Instances(Get(t, key))
  <2>1. Get(t, key) \in Values  BY GetFacts
  <2>2. CASE Has(t, key)
    BY <1>1, <2>1, <2>2, KeyMember
  <2>3. CASE ~Has(t, key)
    <3>1. Get(t, key) = Null /\ ~IsDefinition(Null)  BY <2>3, Forms DEF Get, IsDefinition
    <3> QED  BY <2>1, <3>1, NullTemplate DEF Instances
  <2> QED  BY <2>1, <2>2, <2>3
<1>3. ASSUME NEW key, NEW i \in DOMAIN Items(t, key)
      PROVE  Items(t, key)[i] \in Values /\ Instances(Items(t, key)[i])
  <2> DEFINE w == Get(t, key)
  <2>1. w \in Values /\ Instances(w)  BY <1>2
  <2>2. IsArr(w) /\ Items(t, key) = w.arr  BY DEF Items
  <2>3. i \in DOMAIN w.arr  BY <2>2
  <2> HIDE DEF w
  <2>4. Index(i) \in Members(w) /\ StepInto(w, Index(i)) = w.arr[i]
    BY <2>1, <2>2, <2>3, IndexMember
  <2>5. w.arr[i] \in Values  BY <2>1, <2>4, MemberFacts
  <2>6. Instances(w.arr[i])  BY <1>1, <2>1, <2>4
  <2> QED  BY <2>2, <2>5, <2>6
<1> QED  BY <1>2, <1>3

LEMMA ConformsWritten ==
  ASSUME NEW r, NEW t, Instances(t), NEW a, Conforms(r, t, a)
  PROVE  Conforms("written", t, a)
<1>1. ASSUME NEW leaf \in Leaves[t], NEW v, Satisfies(r, leaf.value, v)
      PROVE  Satisfies("written", leaf.value, v)
  <2>1. CASE IsDefinition(leaf.value)
    <3>1. Asks(leaf.value, v) \/ v = leaf.value.example  BY <1>1, <2>1 DEF Satisfies
    <3>2. Asks(leaf.value, leaf.value.example)  BY <2>1 DEF Instances
    <3> QED  BY <2>1, <3>1, <3>2 DEF Satisfies
  <2>2. CASE ~IsDefinition(leaf.value)
    BY <1>1, <2>2 DEF Satisfies
  <2> QED  BY <2>1, <2>2
<1> QED  BY <1>1 DEF Conforms

LEMMA ConformsToWritten ==
  ASSUME NEW r, NEW op, NEW side, NEW t \in Values, Instances(t), NEW a \in Values,
         ConformsTo(r, op, side, t, a)
  PROVE  ConformsTo("written", op, side, t, a)
<1>1. ASSUME NEW q, NEW v \in Values, Instances(v), NEW b, NEW key, ConformsAt(q, v, b, key)
      PROVE  ConformsAt("written", v, b, key)
  BY <1>1, InstancesFacts, ConformsWritten DEF ConformsAt
<1>2. CASE op = "tools/call" /\ side = "request"
  BY <1>1, <1>2 DEF ConformsTo
<1>3. CASE op = "tools/call" /\ side = "response"
  <2>0. ~(op = "tools/call" /\ side = "request")  BY <1>3
  <2>1. ASSUME NEW v \in Values, Instances(v), NEW b, ConformsBlock(r, v, b)
        PROVE  ConformsBlock("written", v, b)
    <3>1. Get(v, "resource") \in Values /\ Instances(Get(v, "resource"))
      BY <2>1, InstancesFacts
    <3> QED  BY <1>1, <2>1, <3>1 DEF ConformsBlock
  <2>2. \A i \in DOMAIN Items(t, "content") :
          Items(t, "content")[i] \in Values /\ Instances(Items(t, "content")[i])
    BY InstancesFacts
  <2>3. ConformsResult(r, t, a)  BY <1>3, <2>0, ListFacts DEF ConformsTo, ListOf
  <2>4. ConformsResult("written", t, a)  BY <1>1, <2>1, <2>2, <2>3 DEF ConformsResult
  <2> QED  BY <1>3, <2>0, <2>4, ListFacts DEF ConformsTo, ListOf
<1>4. CASE op # "tools/call" /\ ListOf(op) # <<>> /\ side = "response"
  <2> DEFINE q == ForItems(r)
             ts == Items(t, ListOf(op)[1])
  <2>1. ConformsList(q, op, t, a)  BY <1>4 DEF ConformsTo
  <2>2. ASSUME NEW d \in Values, Instances(d), NEW x, ConformsItem(q, op, d, x)
        PROVE  ConformsItem("written", op, d, x)
    BY <1>1, <2>2, ConformsWritten DEF ConformsItem
  <2>3. \A item \in ListedIn(op, t) : item \in Values /\ Instances(item)
    BY InstancesFacts DEF ListedIn
  <2> HIDE DEF q
  <2>4. ConformsList("written", op, t, a)  BY <2>1, <2>2, <2>3 DEF ConformsList
  <2> QED  BY <1>4, <2>4 DEF ConformsTo, ForItems
<1>5. CASE op # "tools/call" /\ ~(ListOf(op) # <<>> /\ side = "response")
  BY <1>5, ConformsWritten DEF ConformsTo
<1>6. CASE op = "tools/call" /\ side \notin {"request", "response"}
  BY <1>6, ListFacts, ConformsWritten DEF ConformsTo, ListOf
<1> QED  BY <1>2, <1>3, <1>4, <1>5, <1>6

(* What the theorem supposes of the matchers in the contents.              *)
InstantiatedContents ==
  \A contents \in Contents : Refused(Mcp(contents)) \/ \A side \in Sides : Instances(Mcp(contents)[side])

(* What is accepted is what the consumer wrote: a payload that is accepted *)
(* has at every place what the matcher or literal there asks for.          *)
THEOREM SpecAuthoredMeans ==
  ASSUME UsableContents, InstantiatedContents
  PROVE  AuthoringSpec => []AuthoredMeans
<1>1. ASSUME Persisted PROVE AuthoredMeans
  <2> SUFFICES ASSUME Judged, misses = {} PROVE Conforming("written")
    BY DEF AuthoredMeans
  <2>1. Conforming("applied")  BY <1>1, PersistedApplied DEF MatchersApplied
  <2>2. stage = "asked"  BY <1>1 DEF Judged, Persisted
  <2>3. PICK side \in Sides, a \in Payloads : question = QuestionOf(side, a)
    BY <1>1, <2>2 DEF Persisted
  <2>4. question.side = side /\ question.actual = a /\ Template(Mcp(authored)[side])
    BY <1>1, <2>2, <2>3, PersistedQuestion
  <2>5. authored \in Contents /\ ~Refused(Mcp(authored))  BY <1>1, <2>2 DEF Persisted
  <2>6. Asked = Mcp(authored)[side] /\ Instances(Asked) /\ Asked \in Values /\ a \in Values
    BY <2>4, <2>5, TemplateFacts, AuthoringAssumption DEF Asked, InstantiatedContents
  <2> QED  BY <2>1, <2>4, <2>6, ConformsToWritten DEF Conforming
<1> QED  BY <1>1, SpecPersisted, PTL
=============================================================================
