--------------------------- MODULE PactFile_proofs ---------------------------
(***************************************************************************)
(* What holds of the pact file for all tests and all other interactions.   *)
(* The invariant: every interaction in the file is one that a declaration  *)
(* or another library wrote, as it was written or as the adapter stamped   *)
(* it.                                                                     *)
(***************************************************************************)
EXTENDS PactFile, InductionLemmas, SequenceTheorems

Fields == {"description", "content", "shape", "plugin", "configured", "subject",
           "items", "hint", "key", "transport"}

(* i as it was written, or with the key and a transport that stampPact     *)
(* gives to the interactions of a plugin.                                  *)
Version(r, i) ==
  /\ DOMAIN r = Fields /\ r = [x \in Fields |-> r[x]]
  /\ \A x \in Fields \ {"key", "transport"} : r[x] = i[x]
  /\ \/ r.key = NoKey /\ r.transport = None
     \/ /\ r.plugin # None /\ r.key = Sha(r.description)
        /\ r.transport \in {"mcp-stdio", "mcp-http"}

IsOwn(r) == \E t \in Tests : \E n \in DOMAIN t.steps : Version(r, Interaction(t, n))
IsForeign(r) == \E x \in Foreign : Version(r, ForeignInteraction(x))

TypeOK ==
  /\ file \in Seq(Range(file))
  /\ \A n \in DOMAIN file : IsOwn(file[n]) \/ IsForeign(file[n])
  /\ test \in Tests \cup {NoTest}
  /\ written \in 0..Len(test.steps)
  /\ ran \in 0..MaxTests

-----------------------------------------------------------------------------
(* The three kinds of keys are told apart. *)
LEMMA KeysDiffer ==
  /\ \A d : Sha(d) # NoKey /\ Hash(d) # NoKey
  /\ \A d, e : Sha(d) # Named(e) /\ Hash(d) # Named(e) /\ Sha(d) # Hash(e)
  /\ \A d : Named(d) # NoKey
  /\ \A d, e : Sha(d) = Sha(e) => d = e
<1>1. \A d : DOMAIN [sha |-> d] = {"sha"} /\ DOMAIN [hash |-> d] = {"hash"}
             /\ DOMAIN [name |-> d] = {"name"} /\ DOMAIN [none |-> d] = {"none"}
  OBVIOUS
<1>2. \A d, e : [sha |-> d] = [sha |-> e] => d = e
  <2> TAKE d, e
  <2>1. [sha |-> d].sha = d /\ [sha |-> e].sha = e  OBVIOUS
  <2> QED  BY <2>1
<1> QED  BY <1>1, <1>2 DEF Sha, Hash, Named, NoKey

(* What is assumed of a declaration. *)
LEMMA StepFacts ==
  ASSUME NEW t \in Tests, NEW n \in DOMAIN t.steps
  PROVE  LET s == t.steps[n]
         IN /\ s.operation \in {"tools/list", "resources/list", "prompts/list",
                                "tools/call", "resources/read", "prompts/get"}
            /\ \A kind \in Kinds : s.operation = CallOf[kind] => s.subject # NoName
            /\ s.items \in Seq(Range(s.items))
            /\ \A item \in Range(s.items) : item.convertible \in BOOLEAN
<1>1. Range(ListOf) = {"tools/list", "resources/list", "prompts/list"}
  BY DEF Range, ListOf
<1>2. Range(CallOf) = {"tools/call", "resources/read", "prompts/get"}
  BY DEF Range, CallOf
<1>3. t.steps[n] \in Range(t.steps)  BY DEF Range
<1>4. \A kind \in Kinds : CallOf[kind] \in Range(CallOf)
  BY DEF Kinds, ListOf, CallOf, Range
<1> QED  BY <1>1, <1>2, <1>3, <1>4, TestsAssumption

(* What the invariant says of an interaction in the file. *)
LEMMA OwnFacts ==
  ASSUME NEW r, IsOwn(r)
  PROVE  /\ r.plugin = "mcp" /\ r.plugin # None /\ r.shape = "message"
         /\ r.key \in {NoKey, Sha(r.description)}
         /\ \E t \in Tests : \E n \in DOMAIN t.steps :
              /\ r.description = Description(t.steps, n)
              /\ r.content = t.steps[n].content
              /\ r.configured = t.steps[n].operation
              /\ r.subject = t.steps[n].subject
              /\ r.items = t.steps[n].items
<1>1. PICK t \in Tests : \E n \in DOMAIN t.steps : Version(r, Interaction(t, n))
  BY DEF IsOwn
<1>2. PICK n \in DOMAIN t.steps : Version(r, Interaction(t, n))  BY <1>1
<1> QED  BY <1>2 DEF Version, Interaction, Fields, None

LEMMA ForeignFacts ==
  ASSUME NEW r, IsForeign(r)
  PROVE  /\ r.plugin # "mcp"
         /\ r.plugin # None => r.shape # "http"
         /\ r.items \in Seq(Range(r.items))
         /\ \A item \in Range(r.items) : item.convertible \in BOOLEAN
         /\ r.key # NoKey => r.plugin # None /\ r.key = Sha(r.description)
         /\ \E x \in Foreign : r.description = <<x.shape, x.content, 0>>
<1>1. PICK x \in Foreign : Version(r, ForeignInteraction(x))
  BY DEF IsForeign
<1>2. /\ r.shape = x.shape
      /\ r.plugin = IF x.shape = "http" THEN None ELSE "other"
      /\ r.items = x.items
      /\ r.description = <<x.shape, x.content, 0>>
  BY <1>1 DEF Version, ForeignInteraction, Fields
<1>3. r.key # NoKey => r.plugin # None /\ r.key = Sha(r.description)
  BY <1>1 DEF Version
<1>4. r.items \in Seq(Range(r.items)) /\ \A item \in Range(r.items) : item.convertible \in BOOLEAN
  BY <1>2, TestsAssumption
<1> QED  BY <1>2, <1>3, <1>4 DEF None

(* Stamping gives another version of the same interaction. *)
LEMMA MarkFacts ==
  ASSUME NEW r, NEW i, Version(r, i), r.plugin # None
  PROVE  /\ Version(Mark(r), i)
         /\ Mark(r).key = Sha(r.description)
         /\ Mark(r).transport = IF test.transport = "http" THEN "mcp-http" ELSE "mcp-stdio"
         /\ \A x \in Fields \ {"key", "transport"} : Mark(r)[x] = r[x]
<1> DEFINE kind == IF test.transport = "http" THEN "mcp-http" ELSE "mcp-stdio"
           key == IF r.key = NoKey THEN Sha(r.description) ELSE r.key
           m == Mark(r)
<1>1. m = [x \in Fields |-> IF x = "key" THEN key ELSE IF x = "transport" THEN kind ELSE r[x]]
  BY DEF Mark, Version, Fields
<1>2. key = Sha(r.description) /\ kind \in {"mcp-stdio", "mcp-http"}
  BY DEF Version
<1>3. m.key = key /\ m.transport = kind
      /\ \A x \in Fields \ {"key", "transport"} : m[x] = r[x]
  BY <1>1 DEF Fields
<1>4. m.plugin = r.plugin /\ m.description = r.description
  BY <1>3 DEF Fields
<1>5. DOMAIN m = Fields /\ m = [x \in Fields |-> m[x]]
  <2> HIDE DEF kind, key
  <2> QED  BY <1>1
<1>6. \A x \in Fields \ {"key", "transport"} : m[x] = i[x]
  BY <1>3 DEF Version
<1>7. Version(m, i)
  <2> HIDE DEF m, kind, key
  <2> QED  BY <1>2, <1>3, <1>4, <1>5, <1>6 DEF Version
<1> QED  BY <1>2, <1>3, <1>7

(* A file stays a sequence when its interactions are replaced. *)
LEMMA SameLength ==
  ASSUME NEW f, f \in Seq(Range(f)), NEW g, g = [n \in DOMAIN f |-> g[n]]
  PROVE  g \in Seq(Range(g)) /\ DOMAIN g = DOMAIN f
<1>1. DOMAIN f = 1..Len(f) /\ Len(f) \in Nat  OBVIOUS
<1>2. \A n \in DOMAIN g : g[n] \in Range(g)  BY DEF Range
<1>3. g \in [1..Len(f) -> Range(g)]  BY <1>1, <1>2
<1> QED  BY <1>1, <1>3

(* Merging puts the interaction at the end or in the place of those that   *)
(* have its unique key, and leaves the others alone.                       *)
LEMMA MergeFacts ==
  ASSUME NEW f, f \in Seq(Range(f)), NEW i
  PROVE  LET g == Merge(f, i)
         IN /\ g \in Seq(Range(g))
            /\ \A n \in DOMAIN g : g[n] = i \/ (n \in DOMAIN f /\ g[n] = f[n])
<1> DEFINE same == {n \in DOMAIN f : UniqueKey(f[n]) = UniqueKey(i)}
           g == Merge(f, i)
<1>1. CASE same = {}
  <2>1. g = Append(f, i)  BY <1>1 DEF Merge
  <2>2. f \in Seq(Range(f) \cup {i})  OBVIOUS
  <2>3. g \in Seq(Range(f) \cup {i})  BY <2>1, <2>2
  <2>4. \A n \in DOMAIN g : g[n] \in Range(g)  BY DEF Range
  <2>5. g \in Seq(Range(g))
    <3> HIDE DEF g
    <3>1. DOMAIN g = 1..Len(g) /\ Len(g) \in Nat /\ g = [n \in 1..Len(g) |-> g[n]]  BY <2>3
    <3>2. g \in [1..Len(g) -> Range(g)]  BY <3>1, <2>4
    <3> QED  BY <3>1, <3>2
  <2>6. \A n \in DOMAIN g : g[n] = i \/ (n \in DOMAIN f /\ g[n] = f[n])
    BY <2>1, <2>2
  <2> QED  BY <2>5, <2>6
<1>2. CASE same # {}
  <2>1. g = [n \in DOMAIN f |-> IF n \in same THEN i ELSE f[n]]
    BY <1>2 DEF Merge
  <2> HIDE DEF same, g
  <2>2. g = [n \in DOMAIN f |-> g[n]]  BY <2>1
  <2>3. g \in Seq(Range(g)) /\ DOMAIN g = DOMAIN f  BY <2>2, SameLength
  <2> QED  BY <2>1, <2>3 DEF g
<1> QED  BY <1>1, <1>2

-----------------------------------------------------------------------------
(* Only what tests and other libraries write, stamped or not, is in the    *)
(* file.                                                                   *)
LEMMA InitTypeOK == Init => TypeOK
<1> SUFFICES ASSUME Init PROVE TypeOK  OBVIOUS
<1>1. file = <<>> /\ DOMAIN file = {} /\ file \in Seq(Range(file))  BY DEF Init
<1>2. MaxTests \in Nat /\ 0 \in 0..Len(NoTest.steps) /\ 0 \in 0..MaxTests
  BY TestsAssumption DEF NoTest
<1> QED  BY <1>1, <1>2 DEF Init, TypeOK

LEMMA StepTypeOK == TypeOK /\ [Next]_vars => TypeOK'
<1> SUFFICES ASSUME TypeOK, [Next]_vars PROVE TypeOK'  OBVIOUS
<1>0. MaxTests \in Nat /\ Len(NoTest.steps) = 0
      /\ \A t \in Tests : t.steps \in Seq(Range(t.steps)) /\ Len(t.steps) \in Nat
  BY TestsAssumption DEF NoTest
<1> DEFINE Known(r) == IsOwn(r) \/ IsForeign(r)
           FileOK == file \in Seq(Range(file)) /\ \A n \in DOMAIN file : Known(file[n])
           RestOK == test \in Tests \cup {NoTest} /\ written \in 0..Len(test.steps)
                     /\ ran \in 0..MaxTests
<1>a. TypeOK <=> FileOK /\ RestOK  BY DEF TypeOK
<1>b. TypeOK' <=> FileOK' /\ RestOK'  BY DEF TypeOK
<1>c. ASSUME NEW i, Known(i), file' = Merge(file, i) PROVE FileOK'
  <2>1. /\ file' \in Seq(Range(file'))
        /\ \A n \in DOMAIN file' : file'[n] = i \/ (n \in DOMAIN file /\ file'[n] = file[n])
    BY <1>a, <1>c, MergeFacts
  <2> QED  BY <1>a, <1>c, <2>1
<1> HIDE DEF Known
<1>1. ASSUME NEW t \in Tests, StartTest(t) PROVE TypeOK'
  <2>1. RestOK'  BY <1>0, <1>1, <1>a DEF StartTest
  <2>2. FileOK'  BY <1>1, <1>a DEF StartTest
  <2> QED  BY <2>1, <2>2, <1>b
<1>2. CASE WriteInteraction
  <2>1. test \in Tests /\ written' \in DOMAIN test.steps /\ written' = written + 1
        /\ written' \in 0..Len(test.steps)
    BY <1>0, <1>2, <1>a DEF WriteInteraction
  <2>2. Version(Interaction(test, written'), Interaction(test, written'))
    BY DEF Version, Interaction, Fields
  <2>3. Known(Interaction(test, written'))
    BY <2>1, <2>2 DEF Known, IsOwn
  <2>4. FileOK'  BY <1>2, <1>c, <2>3 DEF WriteInteraction
  <2>5. RestOK'  BY <1>2, <1>a, <2>1 DEF WriteInteraction
  <2> QED  BY <2>4, <2>5, <1>b
<1>3. CASE AuthoringFails
  <2>1. RestOK'  BY <1>0, <1>3, <1>a DEF AuthoringFails
  <2>2. FileOK'  BY <1>3, <1>a DEF AuthoringFails
  <2> QED  BY <2>1, <2>2, <1>b
<1>4. CASE StampPact
  <2>1. file' = [n \in DOMAIN file |->
                   IF file[n].plugin # None THEN Mark(file[n]) ELSE file[n]]
    BY <1>4 DEF StampPact
  <2>2. file' \in Seq(Range(file')) /\ DOMAIN file' = DOMAIN file
    <3>1. file' = [n \in DOMAIN file |-> file'[n]]  BY <2>1
    <3> QED  BY <3>1, <1>a, SameLength
  <2>3. ASSUME NEW n \in DOMAIN file' PROVE Known(file'[n])
    <3>1. Known(file[n])  BY <2>2, <1>a
    <3>2. CASE file[n].plugin = None  BY <2>1, <2>2, <3>1, <3>2
    <3>3. CASE file[n].plugin # None
      <4>1. file'[n] = Mark(file[n])  BY <2>1, <2>2, <3>3
      <4>2. \A i : Version(file[n], i) => Version(file'[n], i)
        BY <3>3, <4>1, MarkFacts
      <4> QED  BY <3>1, <4>2 DEF Known, IsOwn, IsForeign
    <3> QED  BY <3>2, <3>3
  <2>4. FileOK'  BY <2>2, <2>3
  <2>5. RestOK'  BY <1>0, <1>4, <1>a DEF StampPact
  <2> QED  BY <2>4, <2>5, <1>b
<1>5. ASSUME NEW x \in Foreign, WriteForeign(x) PROVE TypeOK'
  <2>1. Version(ForeignInteraction(x), ForeignInteraction(x))
    BY DEF Version, ForeignInteraction, Fields
  <2>2. Known(ForeignInteraction(x))  BY <2>1 DEF Known, IsForeign
  <2>3. FileOK'  BY <1>5, <1>c, <2>2 DEF WriteForeign
  <2>4. RestOK'  BY <1>5, <1>a DEF WriteForeign
  <2> QED  BY <2>3, <2>4, <1>b
<1>6. CASE UNCHANGED vars
  BY <1>6, <1>a, <1>b DEF vars
<1> QED  BY <1>1, <1>2, <1>3, <1>4, <1>5, <1>6 DEF Next

(* Whatever tests run and fail, the file holds nothing but versions of what *)
(* they and other libraries wrote, and a test is no further than its steps. *)
THEOREM SpecTypeOK == Spec => []TypeOK
<1> QED  BY InitTypeOK, StepTypeOK, PTL DEF Spec

-----------------------------------------------------------------------------
(* The first of the interactions that match is one of them. *)
LEMMA FirstMatched ==
  ASSUME NEW f, f \in Seq(Range(f)), NEW M \in SUBSET DOMAIN f, M # {}
  PROVE  Min(M) \in M
<1>1. DOMAIN f = 1..Len(f) /\ Len(f) \in Nat  OBVIOUS
<1>2. M \in SUBSET Nat  BY <1>1
<1>3. \E m \in M : \A n \in M : m <= n  BY <1>2, LeastNatural
<1> QED  BY <1>3 DEF Min

LEMMA ReadableRecords ==
  ASSUME NEW r, IsOwn(r) \/ IsForeign(r), r.plugin # None
  PROVE  Readable(r)
BY OwnFacts, ForeignFacts DEF Readable

(* Stamping marks every interaction of a plugin. *)
LEMMA StampPactFacts ==
  ASSUME TypeOK, StampPact, NEW n \in DOMAIN file', file'[n].plugin # None
  PROVE  /\ file'[n].key = Sha(file'[n].description)
         /\ InteractionTransport(file'[n]) = test.transport
<1>1. DOMAIN file' = DOMAIN file
      /\ file'[n] = IF file[n].plugin # None THEN Mark(file[n]) ELSE file[n]
  BY DEF StampPact
<1>2. file[n].plugin # None /\ file'[n] = Mark(file[n])  BY <1>1
<1>3. PICK i : Version(file[n], i)
  BY <1>1 DEF TypeOK, IsOwn, IsForeign
<1>4. /\ file'[n].key = Sha(file[n].description)
      /\ file'[n].transport = IF test.transport = "http" THEN "mcp-http" ELSE "mcp-stdio"
      /\ file'[n].description = file[n].description
  BY <1>2, <1>3, MarkFacts DEF Fields
<1>5. test.transport \in {"stdio", "http"}
  <2>1. test \in Tests  BY DEF TypeOK, StampPact
  <2> QED  BY <2>1, TestsAssumption
<1> QED  BY <1>4, <1>5 DEF InteractionTransport, None

(* Once a test is through, its server is the one that is asked for by what *)
(* is found under the unique key of any mcp interaction of the file: a     *)
(* stamp is a key, and whatever has that key, or the same description, is  *)
(* an mcp interaction, can be read and is stamped.                         *)
THEOREM SpecOneServerSuffices == Spec => OneServerSuffices
<1> DEFINE Found(n) == Extract(file', UniqueKey(file'[n]))
<1>1. ASSUME TypeOK, TypeOK', StampPact, NEW n \in McpIn(file')
      PROVE  /\ Found(n) # {}
             /\ \A m \in Found(n) : InteractionTransport(file'[m]) = test.transport
  <2> DEFINE key == UniqueKey(file'[n])
             M == {m \in DOMAIN file' : file'[m].key = key \/ Named(file'[m].description) = key}
  <2>1. n \in DOMAIN file' /\ file'[n].plugin # None  BY DEF McpIn, None
  <2>2. key = file'[n].key /\ key = Sha(file'[n].description)
    BY <1>1, <2>1, StampPactFacts, KeysDiffer DEF UniqueKey
  <2>3. n \in M  BY <2>1, <2>2
  <2>4. file' \in Seq(Range(file'))  BY <1>1 DEF TypeOK
  <2>5. Min(M) \in M
    <3> HIDE DEF key
    <3> QED  BY <2>3, <2>4, FirstMatched
  <2>6. Lookup(file', key) = {Min(M)}  BY <2>3 DEF Lookup
  <2>7. file'[Min(M)].key = Sha(file'[n].description)
    BY <2>2, <2>5, KeysDiffer
  <2>8. IsOwn(file'[Min(M)]) \/ IsForeign(file'[Min(M)])
    BY <2>5, <1>1 DEF TypeOK
  <2>9. file'[Min(M)].plugin # None
    BY <2>7, <2>8, OwnFacts, ForeignFacts, KeysDiffer
  <2>10. Readable(file'[Min(M)])  BY <2>8, <2>9, ReadableRecords
  <2>11. InteractionTransport(file'[Min(M)]) = test.transport
    BY <1>1, <2>5, <2>9, StampPactFacts DEF McpIn, None
  <2> HIDE DEF M, key
  <2> QED  BY <2>6, <2>10, <2>11 DEF Extract, key
<1>2. TypeOK /\ TypeOK' /\ [Next]_vars =>
        [StampPact => \A n \in McpIn(file') :
                       LET found == Extract(file', UniqueKey(file'[n]))
                       IN /\ found # {}
                          /\ \A m \in found :
                               InteractionTransport(file'[m]) = test.transport]_vars
  BY <1>1
<1> QED  BY <1>2, SpecTypeOK, PTL DEF Spec, OneServerSuffices

(* What is found under a unique key has the description of the interaction *)
(* that has the key, whatever the tests declare; ...                       *)
LEMMA FoundIsDescribedAlike ==
  ASSUME TypeOK, NEW n \in McpIn(file), NEW m \in Extract(file, UniqueKey(file[n]))
  PROVE  m \in DOMAIN file /\ (m = n \/ file[m].description = file[n].description)
<1> DEFINE key == UniqueKey(file[n])
           M == {k \in DOMAIN file : file[k].key = key \/ Named(file[k].description) = key}
<1>1. n \in DOMAIN file /\ IsOwn(file[n])
  <2>1. n \in DOMAIN file /\ file[n].plugin = "mcp"  BY DEF McpIn
  <2> QED  BY <2>1, ForeignFacts DEF TypeOK
<1>2. m \in Lookup(file, key)  BY DEF Extract
<1>3. file \in Seq(Range(file)) /\ DOMAIN file = 1..Len(file)  BY DEF TypeOK
<1>4. CASE M # {}
  <2>1. m = Min(M)  BY <1>2, <1>4 DEF Lookup
  <2>2. Min(M) \in M
    <3> HIDE DEF key
    <3> QED  BY <1>3, <1>4, FirstMatched
  <2> HIDE DEF M
  <2>3. m \in DOMAIN file /\ (file[m].key = key \/ Named(file[m].description) = key)
    BY <2>1, <2>2 DEF M
  <2>4. file[m].key \in {NoKey, Sha(file[m].description)}
    BY <2>3, OwnFacts, ForeignFacts DEF TypeOK
  <2>5. key \in {Hash(file[n]), Sha(file[n].description)}
    BY <1>1, OwnFacts DEF UniqueKey
  <2>6. file[m].key = Sha(file[m].description) /\ Sha(file[m].description) = Sha(file[n].description)
    <3> HIDE DEF key
    <3> QED  BY <2>3, <2>4, <2>5, KeysDiffer
  <2> QED  BY <2>3, <2>6, KeysDiffer
<1>5. CASE M = {}
  <2>1. Len(file) = 1 /\ m = 1  BY <1>2, <1>5 DEF Lookup
  <2> QED  BY <2>1, <1>1, <1>3
<1> QED  BY <1>4, <1>5

(* ... so that it is another expectation only where two declarations are   *)
(* described alike, which the adapter does not exclude.                    *)
THEOREM SpecLookupIsOwn == ASSUME DescribedApart PROVE Spec => []LookupIsOwn
<1>1. ASSUME TypeOK PROVE LookupIsOwn
  <2> SUFFICES ASSUME NEW n \in McpIn(file), NEW m \in Extract(file, UniqueKey(file[n]))
               PROVE  file[m].content = file[n].content
    BY DEF LookupIsOwn
  <2>1. m \in DOMAIN file /\ (m = n \/ file[m].description = file[n].description)
    BY <1>1, FoundIsDescribedAlike
  <2>2. CASE m # n
    <3>1. IsOwn(file[n])
      <4>1. n \in DOMAIN file /\ file[n].plugin = "mcp"  BY DEF McpIn
      <4> QED  BY <4>1, <1>1, ForeignFacts DEF TypeOK
    <3>2. PICK t \in Tests : \E k \in DOMAIN t.steps :
            /\ file[n].description = Description(t.steps, k)
            /\ file[n].content = t.steps[k].content
      BY <3>1, OwnFacts
    <3>3. PICK k \in DOMAIN t.steps : /\ file[n].description = Description(t.steps, k)
                                     /\ file[n].content = t.steps[k].content
      BY <3>2
    <3>4. IsOwn(file[m])
      <4>1. t.steps[k].operation \notin {"http", "message", "listing"}
        BY StepFacts
      <4>2. file[m].description[1] = t.steps[k].operation
        BY <2>1, <2>2, <3>3 DEF Description
      <4>3. \A x \in Foreign : <<x.shape, x.content, 0>>[1] \in {"http", "message", "listing"}
        BY TestsAssumption
      <4>4. ~IsForeign(file[m])  BY <4>1, <4>2, <4>3, ForeignFacts
      <4> QED  BY <4>4, <2>1, <1>1 DEF TypeOK
    <3>5. PICK u \in Tests : \E j \in DOMAIN u.steps :
            /\ file[m].description = Description(u.steps, j)
            /\ file[m].content = u.steps[j].content
      BY <3>4, OwnFacts
    <3> QED  BY <2>1, <2>2, <3>3, <3>5 DEF DescribedApart
  <2> QED  BY <2>1, <2>2
<1> QED  BY <1>1, SpecTypeOK, PTL

-----------------------------------------------------------------------------
(* What a pass of the mock lists: entries are kept, an item's name is      *)
(* listed after it, and an entry was there before or is the item's.        *)
Entry(item) == [name |-> item.name, body |-> item.body]
Made(name) == [name |-> name, body |-> Synthesized]

LEMMA TakeFacts ==
  ASSUME NEW X, NEW s \in Seq(X), NEW name, NEW body, [name |-> name, body |-> body] \in X
  PROVE  LET t == Take(s, name, body)
         IN /\ t \in Seq(X) /\ Range(s) \subseteq Range(t)
            /\ name \in Names(t)
            /\ \A e \in Range(t) : e \in Range(s) \/ e = [name |-> name, body |-> body]
<1> DEFINE e == [name |-> name, body |-> body]
           t == Take(s, name, body)
<1>1. CASE name \in Names(s)
  BY <1>1 DEF Take
<1>2. CASE name \notin Names(s)
  <2>1. t = Append(s, e)  BY <1>2 DEF Take
  <2>2. /\ t \in Seq(X) /\ DOMAIN t = 1..(Len(s) + 1) /\ t[Len(s)+1] = e
        /\ \A n \in DOMAIN s : n \in DOMAIN t /\ t[n] = s[n]
        /\ \A n \in DOMAIN t : n \in DOMAIN s \/ n = Len(s) + 1
    BY <2>1
  <2>3. Len(s) + 1 \in DOMAIN t  BY <2>2
  <2>4. e.name = name  OBVIOUS
  <2> HIDE DEF t, e
  <2>5. name \in Names(t)  BY <2>2, <2>3, <2>4 DEF Names
  <2>6. Range(s) \subseteq Range(t)  BY <2>2 DEF Range
  <2>7. \A x \in Range(t) : x \in Range(s) \/ x = e  BY <2>2 DEF Range
  <2> QED  BY <2>2, <2>5, <2>6, <2>7 DEF t, e
<1> QED  BY <1>1, <1>2

LEMMA NamesGrow ==
  ASSUME NEW s, NEW t, Range(s) \subseteq Range(t)
  PROVE  Names(s) \subseteq Names(t)
BY DEF Names, Range

(* The items of a list interaction. *)
LEMMA DeclaredFacts ==
  ASSUME NEW X, NEW listed \in Seq(X), NEW i, i.items \in Seq(Range(i.items)),
         \A item \in Range(i.items) : item.convertible \in BOOLEAN /\ Entry(item) \in X
  PROVE  LET d == Declared(listed, i)
         IN /\ d \in Seq(X) /\ Range(listed) \subseteq Range(d)
            /\ \A item \in Range(i.items) : item.convertible => item.name \in Names(d)
            /\ \A e \in Range(d) :
                 \/ e \in Range(listed)
                 \/ \E item \in Range(i.items) : item.convertible /\ e = Entry(item)
<1> DEFINE b == Len(i.items)
           A == Seq(X)
           Equation(f) == f = [n \in 0..b |-> IF n = 0 THEN listed
                                              ELSE Add(f[n-1], i.items[n])]
           after == CHOOSE f : Equation(f)
<1>1. b \in Nat /\ DOMAIN i.items = 1..b  OBVIOUS
<1>2. ASSUME NEW s \in A, NEW n \in 1..b
      PROVE  LET t == Add(s, i.items[n])
             IN /\ t \in A /\ Range(s) \subseteq Range(t)
                /\ i.items[n].convertible => i.items[n].name \in Names(t)
                /\ \A e \in Range(t) :
                     e \in Range(s) \/ (i.items[n].convertible /\ e = Entry(i.items[n]))
  <2>1. i.items[n] \in Range(i.items)  BY <1>1 DEF Range
  <2>2. CASE i.items[n].convertible
    <3> DEFINE item == i.items[n]
    <3>1. Add(s, item) = Take(s, item.name, item.body)
      BY <2>2 DEF Add
    <3>2. [name |-> item.name, body |-> item.body] \in X
      BY <2>1 DEF Entry
    <3>3. s \in Seq(X)  OBVIOUS
    <3> HIDE DEF item, A
    <3>4. LET t == Take(s, item.name, item.body)
          IN /\ t \in Seq(X) /\ Range(s) \subseteq Range(t)
             /\ item.name \in Names(t)
             /\ \A e \in Range(t) :
                  e \in Range(s) \/ e = [name |-> item.name, body |-> item.body]
      BY <3>2, <3>3, TakeFacts
    <3> QED  BY <2>2, <3>1, <3>4 DEF Entry, item, A
  <2>3. CASE ~i.items[n].convertible
    <3>1. Add(s, i.items[n]) = s  BY <2>3 DEF Add
    <3> QED  BY <2>3, <3>1
  <2> QED  BY <2>2, <2>3
<1>3. Equation(after)
  <2> DEFINE step == [n \in Nat |-> [s \in A |-> IF n \in 1..b THEN Add(s, i.items[n]) ELSE s]]
  <2>1. step \in [Nat -> [A -> A]]  BY <1>2
  <2>2. PICK g : IsPass(g, A, listed, step, b)
    <3> HIDE DEF b, step
    <3> QED  BY <1>1, <2>1, PassExists
  <2>3. ASSUME NEW n \in 1..b PROVE g[n] = Add(g[n-1], i.items[n])
    <3>1. n \in Nat /\ n - 1 \in 0..b  BY <1>1
    <3>2. g[n] = step[n][g[n-1]] /\ g[n-1] \in A
      <4> HIDE DEF b, step, A
      <4> QED  BY <2>2, <3>1 DEF IsPass
    <3> QED  BY <3>1, <3>2
  <2>4. Equation(g)
    <3>1. g = [n \in 0..b |-> g[n]] /\ g[0] = listed  BY <2>2 DEF IsPass
    <3>2. \A n \in 0..b : g[n] = IF n = 0 THEN listed ELSE Add(g[n-1], i.items[n])
      <4>1. \A n \in 0..b : n = 0 \/ n \in 1..b  BY <1>1
      <4> HIDE DEF b, step
      <4> QED  BY <4>1, <3>1, <2>3
    <3> QED  BY <3>1, <3>2
  <2> HIDE DEF Equation
  <2> QED  BY <2>4
<1>4. Declared(listed, i) = after[b]
  BY DEF Declared, Pass
<1> HIDE DEF after
<1>5. after[0] = listed /\ \A n \in 0..(b-1) : after[n+1] = Add(after[n], i.items[n+1])
  <2>1. after[0] = listed  BY <1>1, <1>3
  <2>2. ASSUME NEW n \in 0..(b-1) PROVE after[n+1] = Add(after[n], i.items[n+1])
    <3>1. n + 1 \in 0..b /\ n + 1 # 0 /\ (n + 1) - 1 = n  BY <1>1
    <3> QED  BY <1>3, <3>1
  <2> QED  BY <2>1, <2>2
<1> DEFINE Good(n) ==
             /\ after[n] \in A /\ Range(listed) \subseteq Range(after[n])
             /\ \A m \in 1..n : i.items[m].convertible => i.items[m].name \in Names(after[n])
             /\ \A e \in Range(after[n]) :
                  \/ e \in Range(listed)
                  \/ \E m \in 1..n : i.items[m].convertible /\ e = Entry(i.items[m])
           S == {n \in 0..b : Good(n)}
<1>6. 0 \in S  BY <1>1, <1>5
<1>7. ASSUME NEW n \in 0..(b-1), n \in S PROVE n + 1 \in S
  <2>1. n + 1 \in 1..b /\ n + 1 \in 0..b /\ after[n+1] = Add(after[n], i.items[n+1])
    BY <1>1, <1>5
  <2>2. Good(n)  BY <1>7
  <2>3. /\ after[n+1] \in A /\ Range(after[n]) \subseteq Range(after[n+1])
        /\ i.items[n+1].convertible => i.items[n+1].name \in Names(after[n+1])
        /\ \A e \in Range(after[n+1]) :
             e \in Range(after[n]) \/ (i.items[n+1].convertible /\ e = Entry(i.items[n+1]))
    <3> HIDE DEF A
    <3> QED  BY <2>1, <2>2, <1>2
  <2>4. Names(after[n]) \subseteq Names(after[n+1])  BY <2>3, NamesGrow
  <2>5. \A m \in 1..(n+1) : m \in 1..n \/ m = n + 1  BY <1>1
  <2>6. 1..n \subseteq 1..(n+1) /\ n + 1 \in 1..(n+1)  BY <1>1
  <2>7. Good(n+1)
    <3> HIDE DEF A
    <3> QED  BY <2>2, <2>3, <2>4, <2>5, <2>6
  <2> QED  BY <2>1, <2>7
<1>8. b \in S
  <2> HIDE DEF S, b
  <2>1. 0..b \subseteq S  BY <1>1, <1>6, <1>7, InductionUpTo
  <2> QED  BY <2>1, <1>1
<1>9. Good(b)  BY <1>8
<1> HIDE DEF b
<1>10. \A item \in Range(i.items) : \E m \in 1..b : item = i.items[m]
  BY <1>1 DEF Range
<1>11. \A m \in 1..b : i.items[m] \in Range(i.items)
  BY <1>1 DEF Range
<1> QED  BY <1>4, <1>9, <1>10, <1>11

(* One interaction of the pact. *)
Listed(listed, i, kind) ==
  CASE i.operation = ListOf[kind] -> Declared(listed, i)
    [] i.operation = CallOf[kind] -> Called(listed, i)
    [] OTHER -> listed

WellFormed(i) == /\ i.items \in Seq(Range(i.items))
                 /\ \A item \in Range(i.items) : item.convertible \in BOOLEAN

Calls(i, kind, name) == i.operation = CallOf[kind] /\ i.subject = name /\ name # NoName
Declares(i, kind, item) ==
  i.operation = ListOf[kind] /\ item \in Range(i.items) /\ item.convertible

LEMMA ListedFacts ==
  ASSUME NEW X, NEW listed \in Seq(X), NEW i, WellFormed(i), NEW kind \in Kinds,
         Made(i.subject) \in X, \A item \in Range(i.items) : Entry(item) \in X
  PROVE  LET d == Listed(listed, i, kind)
         IN /\ d \in Seq(X) /\ Range(listed) \subseteq Range(d)
            /\ \A name : Calls(i, kind, name) => name \in Names(d)
            /\ \A item : Declares(i, kind, item) => item.name \in Names(d)
            /\ \A e \in Range(d) :
                 \/ e \in Range(listed)
                 \/ Calls(i, kind, e.name) /\ e = Made(e.name)
                 \/ \E item : Declares(i, kind, item) /\ e = Entry(item)
<1>1. ListOf[kind] # CallOf[kind]
  BY DEF Kinds, ListOf, CallOf
<1>2. CASE i.operation = ListOf[kind]
  <2>1. Listed(listed, i, kind) = Declared(listed, i)  BY <1>1, <1>2 DEF Listed
  <2>2. LET d == Declared(listed, i)
        IN /\ d \in Seq(X) /\ Range(listed) \subseteq Range(d)
           /\ \A item \in Range(i.items) : item.convertible => item.name \in Names(d)
           /\ \A e \in Range(d) :
                \/ e \in Range(listed)
                \/ \E item \in Range(i.items) : item.convertible /\ e = Entry(item)
    BY DeclaredFacts DEF WellFormed
  <2>3. ~\E name : Calls(i, kind, name)  BY <1>1, <1>2 DEF Calls
  <2> QED  BY <1>2, <2>1, <2>2, <2>3 DEF Declares
<1>3. CASE i.operation = CallOf[kind] /\ i.subject = NoName
  <2>1. Listed(listed, i, kind) = listed  BY <1>1, <1>3 DEF Listed, Called
  <2> QED  BY <1>1, <1>3, <2>1 DEF Calls, Declares
<1>4. CASE i.operation = CallOf[kind] /\ i.subject # NoName
  <2>1. Listed(listed, i, kind) = Take(listed, i.subject, Synthesized)
    BY <1>1, <1>4 DEF Listed, Called
  <2>2. [name |-> i.subject, body |-> Synthesized] \in X  BY DEF Made
  <2>3. LET t == Take(listed, i.subject, Synthesized)
        IN /\ t \in Seq(X) /\ Range(listed) \subseteq Range(t)
           /\ i.subject \in Names(t)
           /\ \A e \in Range(t) :
                e \in Range(listed) \/ e = [name |-> i.subject, body |-> Synthesized]
    BY <2>2, TakeFacts
  <2>4. [name |-> i.subject, body |-> Synthesized].name = i.subject  OBVIOUS
  <2> QED  BY <1>1, <1>4, <2>1, <2>3, <2>4 DEF Calls, Declares, Made
<1>5. CASE i.operation # ListOf[kind] /\ i.operation # CallOf[kind]
  <2>1. Listed(listed, i, kind) = listed  BY <1>5 DEF Listed
  <2> QED  BY <1>5, <2>1 DEF Calls, Declares
<1> QED  BY <1>2, <1>3, <1>4, <1>5

(* Where an entry that is listed after n interactions comes from. *)
Origin(p, kind, n, e) ==
  \E k \in 1..n : \/ Calls(p[k], kind, e.name) /\ e = Made(e.name)
                 \/ \E item : Declares(p[k], kind, item) /\ e = Entry(item)

(* What is called is listed, and what is declared is, as it or one before  *)
(* it of that name says.                                                   *)
LEMMA AdvertisedFacts ==
  ASSUME NEW p, p \in Seq(Range(p)), \A n \in DOMAIN p : WellFormed(p[n]),
         NEW kind \in Kinds, NEW n \in DOMAIN p
  PROVE  /\ \A name : Calls(p[n], kind, name) => name \in Names(Advertised(p, kind))
         /\ \A item : Declares(p[n], kind, item) =>
              \E e \in Range(Advertised(p, kind)) : e.name = item.name /\ Origin(p, kind, n, e)
<1> DEFINE X == {Made(p[m].subject) : m \in DOMAIN p}
                \cup UNION {{Entry(item) : item \in Range(p[m].items)} : m \in DOMAIN p}
           b == Len(p)
           A == Seq(X)
           Equation(f) == f = [m \in 0..b |-> IF m = 0 THEN <<>>
                                              ELSE Listed(f[m-1], p[m], kind)]
           after == CHOOSE f : Equation(f)
           Advances(s, d, m) ==
             /\ d \in A /\ Range(s) \subseteq Range(d)
             /\ \A name : Calls(p[m], kind, name) => name \in Names(d)
             /\ \A item : Declares(p[m], kind, item) => item.name \in Names(d)
             /\ \A e \in Range(d) :
                  \/ e \in Range(s)
                  \/ Calls(p[m], kind, e.name) /\ e = Made(e.name)
                  \/ \E item : Declares(p[m], kind, item) /\ e = Entry(item)
<1>1. b \in Nat /\ DOMAIN p = 1..b  OBVIOUS
<1>2. ASSUME NEW s \in A, NEW m \in 1..b PROVE Advances(s, Listed(s, p[m], kind), m)
  <2>1. Made(p[m].subject) \in X /\ \A item \in Range(p[m].items) : Entry(item) \in X
    BY <1>1
  <2>2. WellFormed(p[m])  BY <1>1
  <2> HIDE DEF X
  <2> QED  BY <2>1, <2>2, ListedFacts
<1> HIDE DEF X
<1>3. Equation(after)
  <2> DEFINE step == [m \in Nat |-> [s \in A |-> IF m \in 1..b THEN Listed(s, p[m], kind) ELSE s]]
  <2>1. step \in [Nat -> [A -> A]]  BY <1>2
  <2>2. <<>> \in A  OBVIOUS
  <2>3. PICK g : IsPass(g, A, <<>>, step, b)
    <3> HIDE DEF b, step, A
    <3> QED  BY <1>1, <2>1, <2>2, PassExists
  <2>4. ASSUME NEW m \in 1..b PROVE g[m] = Listed(g[m-1], p[m], kind)
    <3>1. m \in Nat /\ m - 1 \in 0..b  BY <1>1
    <3>2. g[m] = step[m][g[m-1]] /\ g[m-1] \in A
      <4> HIDE DEF b, step, A
      <4> QED  BY <2>3, <3>1 DEF IsPass
    <3> QED  BY <3>1, <3>2
  <2>5. Equation(g)
    <3>1. g = [m \in 0..b |-> g[m]] /\ g[0] = <<>>  BY <2>3 DEF IsPass
    <3>2. \A m \in 0..b : g[m] = IF m = 0 THEN <<>> ELSE Listed(g[m-1], p[m], kind)
      <4>1. \A m \in 0..b : m = 0 \/ m \in 1..b  BY <1>1
      <4> HIDE DEF b, step
      <4> QED  BY <4>1, <3>1, <2>4
    <3> QED  BY <3>1, <3>2
  <2> HIDE DEF Equation
  <2> QED  BY <2>5
<1>4. Advertised(p, kind) = after[b]
  BY DEF Advertised, Pass, Listed
<1> HIDE DEF after
<1>5. after[0] = <<>> /\ \A m \in 0..(b-1) : after[m+1] = Listed(after[m], p[m+1], kind)
  <2>1. after[0] = <<>>  BY <1>1, <1>3
  <2>2. ASSUME NEW m \in 0..(b-1) PROVE after[m+1] = Listed(after[m], p[m+1], kind)
    <3>1. m + 1 \in 0..b /\ m + 1 # 0 /\ (m + 1) - 1 = m  BY <1>1
    <3> QED  BY <1>3, <3>1
  <2> QED  BY <2>1, <2>2
<1> DEFINE Covered(k, m) ==
             /\ \A name : Calls(p[k], kind, name) => name \in Names(after[m])
             /\ \A item : Declares(p[k], kind, item) =>
                  \E e \in Range(after[m]) : e.name = item.name /\ Origin(p, kind, k, e)
           Good(m) == /\ after[m] \in A
                      /\ \A k \in 1..m : Covered(k, m)
                      /\ \A e \in Range(after[m]) : Origin(p, kind, m, e)
           S == {m \in 0..b : Good(m)}
<1>6. 0 \in S
  <2>1. after[0] \in A /\ Range(after[0]) = {}  BY <1>5 DEF Range
  <2> QED  BY <1>1, <2>1
<1>7. ASSUME NEW m \in 0..(b-1), m \in S PROVE m + 1 \in S
  <2>1. m + 1 \in 1..b /\ m + 1 \in 0..b /\ after[m+1] = Listed(after[m], p[m+1], kind)
    BY <1>1, <1>5
  <2>2. Good(m)  BY <1>7
  <2>3. Advances(after[m], after[m+1], m + 1)
    <3> HIDE DEF A, b, Advances
    <3> QED  BY <2>1, <2>2, <1>2
  <2>4. Names(after[m]) \subseteq Names(after[m+1])  BY <2>3, NamesGrow
  <2>5. 1..m \subseteq 1..(m+1) /\ m + 1 \in 1..(m+1)
        /\ \A k \in 1..(m+1) : k \in 1..m \/ k = m + 1
    BY <1>1
  <2>6. \A e \in Range(after[m+1]) : Origin(p, kind, m + 1, e)
    <3> TAKE e \in Range(after[m+1])
    <3>1. CASE e \in Range(after[m])
      BY <2>2, <2>5, <3>1 DEF Origin
    <3>2. CASE e \notin Range(after[m])
      BY <2>3, <2>5, <3>2 DEF Origin
    <3> QED  BY <3>1, <3>2
  <2>7. ASSUME NEW k \in 1..m PROVE Covered(k, m + 1)
    <3>1. Covered(k, m)  BY <2>2
    <3> QED  BY <3>1, <2>3, <2>4
  <2>8. Covered(m + 1, m + 1)
    <3>1. ASSUME NEW item, Declares(p[m+1], kind, item)
          PROVE  \E e \in Range(after[m+1]) : e.name = item.name /\ Origin(p, kind, m + 1, e)
      <4>1. item.name \in Names(after[m+1])  BY <2>3, <3>1
      <4>2. PICK e \in Range(after[m+1]) : e.name = item.name
        BY <4>1 DEF Names, Range
      <4> QED  BY <4>2, <2>6
    <3> QED  BY <3>1, <2>3
  <2>9. Good(m+1)
    <3> HIDE DEF A, Covered
    <3> QED  BY <2>3, <2>5, <2>6, <2>7, <2>8
  <2> QED  BY <2>1, <2>9
<1>8. b \in S
  <2> HIDE DEF S, b
  <2>1. 0..b \subseteq S  BY <1>1, <1>6, <1>7, InductionUpTo
  <2> QED  BY <2>1, <1>1
<1>9. Covered(n, b)
  <2> HIDE DEF Covered
  <2> QED  BY <1>1, <1>8
<1> QED  BY <1>4, <1>9

-----------------------------------------------------------------------------
(* The mock serves what can be read, in the order of the file.             *)
View(i) == [operation |-> Operation(i), subject |-> i.subject, items |-> i.items]
Parsed(parsed, i) == IF Readable(i) THEN Append(parsed, View(i)) ELSE parsed

(* pos says where in the first n interactions of f those of p are.         *)
InOrder(f, n, p, pos) ==
  /\ pos \in [DOMAIN p -> 1..n]
  /\ \A m \in DOMAIN p : Readable(f[pos[m]]) /\ p[m] = View(f[pos[m]])
  /\ \A k, m \in DOMAIN p : k < m => pos[k] < pos[m]
  /\ \A j \in 1..n : Readable(f[j]) => \E m \in DOMAIN p : pos[m] = j

LEMMA ParsedInOrder ==
  ASSUME NEW X, NEW p \in Seq(X), NEW f, NEW n \in Nat, NEW pos, InOrder(f, n, p, pos),
         View(f[n+1]) \in X
  PROVE  \E q : InOrder(f, n + 1, Parsed(p, f[n+1]), q)
<1> DEFINE i == f[n+1]
           d == Parsed(p, i)
<1>0. 1..n \subseteq 1..(n+1) /\ \A j \in 1..(n+1) : j \in 1..n \/ j = n + 1
  OBVIOUS
<1>1. CASE ~Readable(i)
  <2>1. d = p  BY <1>1 DEF Parsed
  <2>2. InOrder(f, n + 1, p, pos)
    BY <1>0, <1>1 DEF InOrder
  <2> QED  BY <2>1, <2>2
<1>2. CASE Readable(i)
  <2> DEFINE l == Len(p)
             q == [m \in 1..(l+1) |-> IF m = l + 1 THEN n + 1 ELSE pos[m]]
  <2>1. d = Append(p, View(i))  BY <1>2 DEF Parsed
  <2>2. l \in Nat /\ DOMAIN p = 1..l /\ DOMAIN d = 1..(l+1) /\ d[l+1] = View(i)
        /\ \A m \in 1..l : d[m] = p[m]
    BY <2>1
  <2>3. \A m \in 1..l : pos[m] \in 1..n  BY <2>2 DEF InOrder
  <2>4. \A m \in 1..(l+1) : m \in 1..l \/ m = l + 1  BY <2>2
  <2>5. q[l+1] = n + 1 /\ \A m \in 1..l : q[m] = pos[m]  BY <2>2
  <2>6. q \in [DOMAIN d -> 1..(n+1)]
    <3>1. \A m \in 1..(l+1) : q[m] \in 1..(n+1)  BY <1>0, <2>3, <2>4, <2>5
    <3> HIDE DEF d
    <3> QED  BY <3>1, <2>2
  <2> HIDE DEF q, d, l
  <2>7. \A m \in DOMAIN d : Readable(f[q[m]]) /\ d[m] = View(f[q[m]])
    BY <1>2, <2>2, <2>4, <2>5 DEF InOrder
  <2>8. ASSUME NEW k \in DOMAIN d, NEW m \in DOMAIN d, k < m PROVE q[k] < q[m]
    <3>1. k \in 1..l  BY <2>2, <2>4, <2>8
    <3>2. CASE m \in 1..l  BY <3>1, <3>2, <2>2, <2>5, <2>8 DEF InOrder
    <3>3. CASE m = l + 1  BY <3>1, <3>3, <2>3, <2>5
    <3> QED  BY <3>2, <3>3, <2>2, <2>4
  <2>9. ASSUME NEW j \in 1..(n+1), Readable(f[j]) PROVE \E m \in DOMAIN d : q[m] = j
    <3>1. CASE j \in 1..n
      <4>1. PICK m \in 1..l : pos[m] = j  BY <2>2, <2>9, <3>1 DEF InOrder
      <4>2. m \in DOMAIN d  BY <2>2, <4>1
      <4> QED  BY <2>5, <4>1, <4>2
    <3>2. CASE j = n + 1
      <4>1. l + 1 \in DOMAIN d  BY <2>2
      <4> QED  BY <2>5, <3>2, <4>1
    <3> QED  BY <1>0, <3>1, <3>2
  <2>10. InOrder(f, n + 1, d, q)  BY <2>6, <2>7, <2>8, <2>9 DEF InOrder
  <2> QED  BY <2>10 DEF d
<1> QED  BY <1>1, <1>2

LEMMA ServedFacts ==
  ASSUME NEW f, f \in Seq(Range(f))
  PROVE  /\ Served(f) \in Seq(Range(Served(f)))
         /\ \E pos : InOrder(f, Len(f), Served(f), pos)
<1> DEFINE X == {View(f[m]) : m \in DOMAIN f}
           b == Len(f)
           A == Seq(X)
           Equation(g) == g = [m \in 0..b |-> IF m = 0 THEN <<>> ELSE Parsed(g[m-1], f[m])]
           after == CHOOSE g : Equation(g)
<1>1. b \in Nat /\ DOMAIN f = 1..b  OBVIOUS
<1>2. ASSUME NEW s \in A, NEW m \in 1..b PROVE Parsed(s, f[m]) \in A
  <2>1. View(f[m]) \in X  BY <1>1
  <2> HIDE DEF X
  <2> QED  BY <2>1 DEF Parsed
<1>0. \A m \in 1..b : View(f[m]) \in X  BY <1>1
<1> HIDE DEF X
<1>3. Equation(after)
  <2> DEFINE step == [m \in Nat |-> [s \in A |-> IF m \in 1..b THEN Parsed(s, f[m]) ELSE s]]
  <2>1. step \in [Nat -> [A -> A]]  BY <1>2
  <2>2. <<>> \in A  OBVIOUS
  <2>3. PICK g : IsPass(g, A, <<>>, step, b)
    <3> HIDE DEF b, step, A
    <3> QED  BY <1>1, <2>1, <2>2, PassExists
  <2>4. ASSUME NEW m \in 1..b PROVE g[m] = Parsed(g[m-1], f[m])
    <3>1. m \in Nat /\ m - 1 \in 0..b  BY <1>1
    <3>2. g[m] = step[m][g[m-1]] /\ g[m-1] \in A
      <4> HIDE DEF b, step, A
      <4> QED  BY <2>3, <3>1 DEF IsPass
    <3> QED  BY <3>1, <3>2
  <2>5. Equation(g)
    <3>1. g = [m \in 0..b |-> g[m]] /\ g[0] = <<>>  BY <2>3 DEF IsPass
    <3>2. \A m \in 0..b : g[m] = IF m = 0 THEN <<>> ELSE Parsed(g[m-1], f[m])
      <4>1. \A m \in 0..b : m = 0 \/ m \in 1..b  BY <1>1
      <4> HIDE DEF b, step
      <4> QED  BY <4>1, <3>1, <2>4
    <3> QED  BY <3>1, <3>2
  <2> HIDE DEF Equation
  <2> QED  BY <2>5
<1>4. Served(f) = after[b]
  BY DEF Served, Pass, Parsed, View
<1> HIDE DEF after
<1>5. after[0] = <<>> /\ \A m \in 0..(b-1) : after[m+1] = Parsed(after[m], f[m+1])
  <2>1. after[0] = <<>>  BY <1>1, <1>3
  <2>2. ASSUME NEW m \in 0..(b-1) PROVE after[m+1] = Parsed(after[m], f[m+1])
    <3>1. m + 1 \in 0..b /\ m + 1 # 0 /\ (m + 1) - 1 = m  BY <1>1
    <3> QED  BY <1>3, <3>1
  <2> QED  BY <2>1, <2>2
<1> DEFINE S == {m \in 0..b : after[m] \in A /\ \E pos : InOrder(f, m, after[m], pos)}
<1>6. 0 \in S
  <2>1. after[0] \in A /\ DOMAIN after[0] = {} /\ 1..0 = {}  BY <1>5
  <2>2. InOrder(f, 0, after[0], [m \in {} |-> m])  BY <2>1 DEF InOrder
  <2> QED  BY <1>1, <2>1, <2>2
<1>7. ASSUME NEW m \in 0..(b-1), m \in S PROVE m + 1 \in S
  <2>1. m \in Nat /\ m + 1 \in 1..b /\ m + 1 \in 0..b
        /\ after[m+1] = Parsed(after[m], f[m+1])
    BY <1>1, <1>5
  <2>2. after[m] \in A /\ \E pos : InOrder(f, m, after[m], pos)  BY <1>7
  <2>3. after[m+1] \in A
    <3> HIDE DEF A, b
    <3> QED  BY <2>1, <2>2, <1>2
  <2>4. \E pos : InOrder(f, m + 1, after[m+1], pos)
    <3>1. PICK pos : InOrder(f, m, after[m], pos)  BY <2>2
    <3>2. after[m] \in Seq(X)  BY <2>2
    <3>3. View(f[m+1]) \in X  BY <2>1, <1>0
    <3> QED  BY <2>1, <3>1, <3>2, <3>3, ParsedInOrder
  <2> QED  BY <2>1, <2>3, <2>4
<1>8. b \in S
  <2> HIDE DEF S, b
  <2>1. 0..b \subseteq S  BY <1>1, <1>6, <1>7, InductionUpTo
  <2> QED  BY <2>1, <1>1
<1>9. after[b] \in Seq(X) /\ \E pos : InOrder(f, b, after[b], pos)  BY <1>8
<1>10. ASSUME NEW t \in Seq(X) PROVE t \in Seq(Range(t))
  <2>1. DOMAIN t = 1..Len(t) /\ Len(t) \in Nat /\ t = [m \in 1..Len(t) |-> t[m]]  OBVIOUS
  <2>2. \A m \in 1..Len(t) : t[m] \in Range(t)  BY <2>1 DEF Range
  <2>3. t \in [1..Len(t) -> Range(t)]  BY <2>1, <2>2
  <2> QED  BY <2>1, <2>3
<1> QED  BY <1>4, <1>9, <1>10

-----------------------------------------------------------------------------
(* What the mock of the file lists, in terms of the file: an mcp           *)
(* interaction is served as its test configured it, and what an            *)
(* interaction brings to a list is what ListsOf says of it.                *)
LEMMA ServedOwn ==
  ASSUME TypeOK, NEW n \in DOMAIN file, NEW kind \in Kinds
  PROVE  /\ WellFormed(View(file[n]))
         /\ n \in McpIn(file) =>
              Readable(file[n]) /\ View(file[n]).operation = file[n].configured
         /\ \A name : Calls(View(file[n]), kind, name) =>
              Made(name) \in ListsOf(file[n], kind)
         /\ \A item : Declares(View(file[n]), kind, item) =>
              Entry(item) \in ListsOf(file[n], kind)
<1> DEFINE r == file[n]
           v == View(r)
<1>0. v.operation = Operation(r) /\ v.subject = r.subject /\ v.items = r.items
  BY DEF View
<1>3. ListOf[kind] # CallOf[kind]  BY DEF Kinds, ListOf, CallOf
<1>4. ASSUME NEW name, Calls(v, kind, name) PROVE Made(name) \in ListsOf(r, kind)
  <2>1. Operation(r) = CallOf[kind] /\ r.subject = name /\ name # NoName
    BY <1>0, <1>4 DEF Calls
  <2>2. ListsOf(r, kind) = {[name |-> r.subject, body |-> Synthesized]}
    BY <1>3, <2>1 DEF ListsOf
  <2> QED  BY <2>1, <2>2 DEF Made
<1>5. ASSUME NEW item, Declares(v, kind, item) PROVE Entry(item) \in ListsOf(r, kind)
  <2>1. Operation(r) = ListOf[kind] /\ item \in DeclaredBy(r)
    BY <1>0, <1>5 DEF Declares, DeclaredBy, ToSet, Range
  <2>2. ListsOf(r, kind)
          = {[name |-> x.name, body |-> x.body] : x \in DeclaredBy(r)}
    BY <1>3, <2>1 DEF ListsOf
  <2> QED  BY <2>1, <2>2 DEF Entry
<1>1. CASE IsOwn(r)
  <2>1. r.plugin = "mcp" /\ r.shape = "message"  BY <1>1, OwnFacts
  <2>2. PICK t \in Tests : \E k \in DOMAIN t.steps :
          r.configured = t.steps[k].operation /\ r.items = t.steps[k].items
    BY <1>1, OwnFacts
  <2>3. PICK k \in DOMAIN t.steps :
          r.configured = t.steps[k].operation /\ r.items = t.steps[k].items
    BY <2>2
  <2>4. r.configured # None  BY <2>3, StepFacts DEF None
  <2>5. Operation(r) = r.configured  BY <2>4 DEF Operation
  <2>6. WellFormed(v)  BY <1>0, <2>3, StepFacts DEF WellFormed
  <2> QED  BY <1>0, <1>4, <1>5, <2>1, <2>5, <2>6 DEF Readable
<1>2. CASE IsForeign(r)
  <2>1. WellFormed(v)  BY <1>0, <1>2, ForeignFacts DEF WellFormed
  <2>2. n \notin McpIn(file)  BY <1>2, ForeignFacts DEF McpIn
  <2> QED  BY <1>4, <1>5, <2>1, <2>2
<1> QED  BY <1>1, <1>2 DEF TypeOK

LEMMA ServedMcp ==
  ASSUME TypeOK
  PROVE  LET p == Served(file)
         IN /\ p \in Seq(Range(p)) /\ \A m \in DOMAIN p : WellFormed(p[m])
            /\ \E pos : InOrder(file, Len(file), p, pos)
<1>1. file \in Seq(Range(file)) /\ DOMAIN file = 1..Len(file)  BY DEF TypeOK
<1>2. Served(file) \in Seq(Range(Served(file)))  BY <1>1, ServedFacts
<1>3. PICK pos : InOrder(file, Len(file), Served(file), pos)  BY <1>1, ServedFacts
<1>4. ASSUME NEW m \in DOMAIN Served(file) PROVE WellFormed(Served(file)[m])
  <2>1. pos[m] \in DOMAIN file /\ Served(file)[m] = View(file[pos[m]])
    BY <1>1, <1>3 DEF InOrder
  <2>2. "tools" \in Kinds  BY DEF Kinds, ListOf
  <2> QED  BY <2>1, <2>2, ServedOwn
<1> QED  BY <1>2, <1>3, <1>4

(* Everything the file expects to be called, read or got is listed.        *)
THEOREM SpecCalledIsListed == Spec => []CalledIsListed
<1>1. ASSUME TypeOK PROVE CalledIsListed
  <2> DEFINE p == Served(file)
  <2> SUFFICES ASSUME NEW kind \in Kinds, NEW n \in McpIn(file),
                      file[n].configured = CallOf[kind]
               PROVE  file[n].subject \in Names(Advertised(p, kind))
    BY DEF CalledIsListed
  <2>1. n \in DOMAIN file /\ DOMAIN file = 1..Len(file) /\ file[n].plugin = "mcp"
    BY <1>1 DEF McpIn, TypeOK
  <2>2. Readable(file[n]) /\ View(file[n]).operation = CallOf[kind]
    BY <1>1, <2>1, ServedOwn
  <2>3. file[n].subject # NoName
    <3>1. IsOwn(file[n])  BY <1>1, <2>1, ForeignFacts DEF TypeOK
    <3>2. PICK t \in Tests : \E k \in DOMAIN t.steps :
            file[n].configured = t.steps[k].operation /\ file[n].subject = t.steps[k].subject
      BY <3>1, OwnFacts
    <3>3. PICK k \in DOMAIN t.steps :
            file[n].configured = t.steps[k].operation /\ file[n].subject = t.steps[k].subject
      BY <3>2
    <3> QED  BY <3>3, StepFacts
  <2>4. PICK pos : InOrder(file, Len(file), p, pos)  BY <1>1, ServedMcp
  <2>5. PICK m \in DOMAIN p : pos[m] = n  BY <2>1, <2>2, <2>4 DEF InOrder
  <2>6. p[m] = View(file[n])  BY <2>4, <2>5 DEF InOrder
  <2>7. Calls(p[m], kind, file[n].subject)  BY <2>2, <2>3, <2>6 DEF Calls, View
  <2>8. p \in Seq(Range(p)) /\ \A k \in DOMAIN p : WellFormed(p[k])  BY <1>1, ServedMcp
  <2> HIDE DEF p
  <2> QED  BY <2>7, <2>8, AdvertisedFacts
<1> QED  BY <1>1, SpecTypeOK, PTL

(* Whatever is declared is listed under its name, as declared there or as  *)
(* an interaction before it in the file says, whoever wrote that.          *)
THEOREM SpecDeclaredIsListed == Spec => []DeclaredIsListed
<1>1. ASSUME TypeOK PROVE DeclaredIsListed
  <2> DEFINE p == Served(file)
  <2> SUFFICES ASSUME NEW kind \in Kinds, NEW n \in McpIn(file),
                      file[n].configured = ListOf[kind], NEW item \in DeclaredBy(file[n])
               PROVE  \E k \in 1..n :
                        /\ Readable(file[k])
                        /\ \E e \in ListsOf(file[k], kind) :
                             e.name = item.name /\ e \in ToSet(Advertised(p, kind))
    BY DEF DeclaredIsListed
  <2>1. n \in DOMAIN file /\ DOMAIN file = 1..Len(file) /\ Len(file) \in Nat
    BY <1>1 DEF McpIn, TypeOK
  <2>2. Readable(file[n]) /\ View(file[n]).operation = ListOf[kind]
    BY <1>1, <2>1, ServedOwn
  <2>3. PICK pos : InOrder(file, Len(file), p, pos)  BY <1>1, ServedMcp
  <2>4. PICK m \in DOMAIN p : pos[m] = n  BY <2>1, <2>2, <2>3 DEF InOrder
  <2>5. p[m] = View(file[n])  BY <2>3, <2>4 DEF InOrder
  <2>6. Declares(p[m], kind, item)
    BY <2>2, <2>5 DEF Declares, View, DeclaredBy, ToSet, Range
  <2>7. p \in Seq(Range(p)) /\ \A k \in DOMAIN p : WellFormed(p[k])  BY <1>1, ServedMcp
  <2>8. PICK e \in Range(Advertised(p, kind)) : e.name = item.name /\ Origin(p, kind, m, e)
    <3> HIDE DEF p
    <3> QED  BY <2>6, <2>7, AdvertisedFacts
  <2>9. PICK k \in 1..m : \/ Calls(p[k], kind, e.name) /\ e = Made(e.name)
                          \/ \E first : Declares(p[k], kind, first) /\ e = Entry(first)
    BY <2>8 DEF Origin
  <2>10. k \in DOMAIN p /\ k <= m
    <3>1. DOMAIN p = 1..Len(p) /\ Len(p) \in Nat  BY <2>7
    <3> QED  BY <3>1
  <2>11. /\ pos[k] \in DOMAIN file /\ p[k] = View(file[pos[k]])
         /\ pos[k] <= n /\ (pos[k] = n => k = m)
    <3>1. pos[k] \in DOMAIN file /\ p[k] = View(file[pos[k]])
      BY <2>1, <2>3, <2>10 DEF InOrder
    <3>2. CASE k = m  BY <2>1, <2>4, <3>1, <3>2
    <3>3. CASE k < m
      <4>1. pos[k] < pos[m]  BY <2>3, <2>10, <3>3 DEF InOrder
      <4> QED  BY <2>1, <2>4, <3>1, <4>1
    <3>4. k \in Int /\ m \in Int
      <4>1. DOMAIN p = 1..Len(p) /\ Len(p) \in Nat  BY <2>7
      <4> QED  BY <4>1
    <3> QED  BY <2>10, <3>2, <3>3, <3>4
  <2>12. e \in ListsOf(file[pos[k]], kind)
    BY <1>1, <2>9, <2>11, ServedOwn
  <2>13. Readable(file[pos[k]])  BY <2>3, <2>10 DEF InOrder
  <2>14. pos[k] \in 1..n  BY <2>1, <2>11
  <2>15. e \in ToSet(Advertised(p, kind))  BY <2>8 DEF ToSet, Range
  <2> QED  BY <2>8, <2>12, <2>13, <2>14, <2>15
<1> QED  BY <1>1, SpecTypeOK, PTL
=============================================================================
