-------------------------- MODULE ExecutionProofs --------------------------
(***************************************************************************)
(* Proofs about Execution, for any names, descriptions and outputs and     *)
(* requests of any length.                                                 *)
(***************************************************************************)
EXTENDS Execution, FiniteSetTheorems, SequenceTheorems, TLAPS

-----------------------------------------------------------------------------
(* Enumerations.                                                           *)

LEMMA Onto ==
  ASSUME NEW S, IsFiniteSet(S), NEW f \in [1 .. Cardinality(S) -> S], IsInjective(f)
  PROVE  \A x \in S : \E i \in 1 .. Cardinality(S) : f[i] = x
<1>1. Cardinality(S) \in Nat
  BY FS_CardinalityType
<1>2. f \in Injection(1 .. Cardinality(S), S)
  BY DEF Injection, IsInjective
<1>3. Cardinality(1 .. Cardinality(S)) = Cardinality(S)
  BY <1>1, FS_Interval
<1>4. f \in Surjection(1 .. Cardinality(S), S)
  BY <1>2, <1>3, FS_Injection
<1>q. QED BY <1>4 DEF Surjection

(* SetToSeq lists the members of a finite set.                             *)
LEMMA SetToSeqOf ==
  ASSUME NEW S, IsFiniteSet(S)
  PROVE  /\ SetToSeq(S) \in Seq(S)
         /\ \A x \in S : \E i \in DOMAIN SetToSeq(S) : SetToSeq(S)[i] = x
<1>1. PICK f \in Bijection(1 .. Cardinality(S), S) : TRUE
  BY FS_CardinalityType DEF ExistsBijection
<1>2. f \in [1 .. Cardinality(S) -> S] /\ IsInjective(f)
  BY <1>1 DEF Bijection, Injection, IsInjective
<1>3. SetToSeq(S) \in [1 .. Cardinality(S) -> S] /\ IsInjective(SetToSeq(S))
  BY <1>2 DEF SetToSeq
<1>4. Cardinality(S) \in Nat
  BY FS_CardinalityType
<1>q. QED BY <1>3, <1>4, Onto

LEMMA FiniteNumbers ==
  ASSUME NEW n \in Nat, NEW S \in SUBSET (1 .. n)
  PROVE  IsFiniteSet(S) /\ Cardinality(S) \in Nat /\ (S # {} => Cardinality(S) >= 1)
<1>1. IsFiniteSet(1 .. n)
  BY FS_Interval
<1>2. IsFiniteSet(S)
  BY <1>1, FS_Subset
<1>3. Cardinality(S) \in Nat
  BY <1>2, FS_CardinalityType
<1>4. S # {} => Cardinality(S) # 0
  BY <1>2, FS_EmptySet
<1>q. QED BY <1>2, <1>3, <1>4

(* And Ascending those of a set of numbers: a member is at the place of    *)
(* the number of those that are not greater.                               *)
LEMMA AscendingOf ==
  ASSUME NEW n \in Nat, NEW S \in SUBSET (1 .. n)
  PROVE  /\ Cardinality(S) \in Nat
         /\ Ascending(S) \in [1 .. Cardinality(S) -> S]
         /\ \A x \in S : \E i \in 1 .. Cardinality(S) : Ascending(S)[i] = x
         /\ \A i \in 1 .. Cardinality(S) : \E x \in S : Cardinality({y \in S : y <= x}) = i
<1>. DEFINE UpTo(x) == {y \in S : y <= x}
            f == [x \in S |-> Cardinality(UpTo(x))]
<1>1. IsFiniteSet(S) /\ Cardinality(S) \in Nat
  BY FiniteNumbers
<1>0. \A x \in S : x \in Nat
  OBVIOUS
<1>2. ASSUME NEW x \in S
      PROVE  /\ IsFiniteSet(UpTo(x)) /\ Cardinality(UpTo(x)) \in 1 .. Cardinality(S)
  <2>1. UpTo(x) \in SUBSET S /\ x \in UpTo(x)
    OBVIOUS
  <2>2. IsFiniteSet(UpTo(x)) /\ Cardinality(UpTo(x)) <= Cardinality(S)
    BY <1>1, <2>1, FS_Subset
  <2>3. Cardinality(UpTo(x)) \in Nat /\ Cardinality(UpTo(x)) # 0
    BY <2>1, <2>2, FS_CardinalityType, FS_EmptySet
  <2>q. QED BY <1>1, <2>2, <2>3
<1>3. ASSUME NEW x \in S, NEW z \in S, x < z PROVE f[x] # f[z]
  <2>0. x \in Nat /\ z \in Nat /\ z <= z /\ ~(z <= x)
    BY <1>0, <1>3
  <2>1. UpTo(x) \in SUBSET UpTo(z) /\ z \in UpTo(z) /\ z \notin UpTo(x)
    <3>1. ASSUME NEW y \in S, y <= x PROVE y <= z
      BY <1>0, <1>3, <2>0, <3>1
    <3>q. QED BY <2>0, <3>1
  <2>2. Cardinality(UpTo(x)) # Cardinality(UpTo(z))
    BY <1>2, <2>1, FS_Subset
  <2>q. QED BY <2>2
<1>4. f \in Injection(S, 1 .. Cardinality(S))
  <2>1. f \in [S -> 1 .. Cardinality(S)]
    BY <1>2
  <2>2. \A x, z \in S : x # z => f[x] # f[z]
    <3>1. \A x, z \in S : x # z => x < z \/ z < x
      OBVIOUS
    <3>q. QED BY <1>3, <3>1
  <2>q. QED BY <2>1, <2>2 DEF Injection, IsInjective
<1>5. IsFiniteSet(1 .. Cardinality(S)) /\ Cardinality(1 .. Cardinality(S)) = Cardinality(S)
  BY <1>1, FS_Interval
<1>6. f \in Surjection(S, 1 .. Cardinality(S))
  BY <1>4, <1>5, FS_Injection
<1>7. \A i \in 1 .. Cardinality(S) : \E x \in S : Cardinality(UpTo(x)) = i
  BY <1>6 DEF Surjection
<1>8. \A i \in 1 .. Cardinality(S) :
        Ascending(S)[i] \in S /\ Cardinality(UpTo(Ascending(S)[i])) = i
  BY <1>7 DEF Ascending
<1>9. \A x \in S : Ascending(S)[Cardinality(UpTo(x))] = x
  <2>1. SUFFICES ASSUME NEW x \in S PROVE Ascending(S)[Cardinality(UpTo(x))] = x
    OBVIOUS
  <2>2. f[Ascending(S)[Cardinality(UpTo(x))]] = f[x] /\ Ascending(S)[Cardinality(UpTo(x))] \in S
    BY <1>2, <1>8
  <2>q. QED BY <1>4, <2>2 DEF Injection, IsInjective
<1>10. Ascending(S) \in [1 .. Cardinality(S) -> S]
  BY <1>8 DEF Ascending
<1>q. QED BY <1>1, <1>2, <1>7, <1>9, <1>10

(* A set of numbers has a smallest one, the first of them.                 *)
LEMMA Smallest ==
  ASSUME NEW n \in Nat, NEW S \in SUBSET (1 .. n), S # {}
  PROVE  \E x \in S : \A y \in S : x <= y
<1>1. IsFiniteSet(S) /\ Cardinality(S) \in Nat /\ Cardinality(S) >= 1
  BY FiniteNumbers
<1>0. \A x \in S : x \in Nat
  OBVIOUS
<1>2. PICK x \in S : Cardinality({y \in S : y <= x}) = 1
  <2>1. \A i \in 1 .. Cardinality(S) : \E x \in S : Cardinality({y \in S : y <= x}) = i
    BY AscendingOf
  <2>2. 1 \in 1 .. Cardinality(S)
    BY <1>1
  <2>q. QED BY <2>1, <2>2
<1>3. ASSUME NEW y \in S, y < x PROVE FALSE
  <2>1. {z \in S : z <= x} \in SUBSET S
    OBVIOUS
  <2>2. PICK z : {v \in S : v <= x} = {z}
    BY <1>1, <1>2, <2>1, FS_Subset, FS_Singleton
  <2>3. x \in {z} /\ y \in {z}
    BY <1>3, <2>2
  <2>q. QED BY <1>3, <2>3
<1>q. QED BY <1>0, <1>2, <1>3

(* NamesOnce has the names of a sequence, and no other.                    *)
LEMMA NamesOnceOf ==
  ASSUME NEW T, NEW s \in Seq(T)
  PROVE  /\ NamesOnce(s) \in Seq({s[i].name : i \in DOMAIN s})
         /\ \A i \in DOMAIN s : \E k \in DOMAIN NamesOnce(s) : NamesOnce(s)[k] = s[i].name
<1>. DEFINE firsts == {i \in DOMAIN s : \A j \in 1 .. i - 1 : s[j].name # s[i].name}
            first == Ascending(firsts)
<1>1. Len(s) \in Nat /\ DOMAIN s = 1 .. Len(s) /\ firsts \in SUBSET (1 .. Len(s))
  OBVIOUS
<1>2. /\ Cardinality(firsts) \in Nat
      /\ first \in [1 .. Cardinality(firsts) -> firsts]
      /\ \A x \in firsts : \E i \in 1 .. Cardinality(firsts) : first[i] = x
  <2>. HIDE DEF firsts
  <2>q. QED BY <1>1, AscendingOf
<1>3. NamesOnce(s) = [i \in 1 .. Cardinality(firsts) |-> s[first[i]].name]
  <2>1. NamesOnce(s) = [i \in DOMAIN first |-> s[first[i]].name]
    BY DEF NamesOnce
  <2>2. DOMAIN first = 1 .. Cardinality(firsts)
    BY <1>2
  <2>q. QED BY <2>1, <2>2
<1>4. NamesOnce(s) \in Seq({s[i].name : i \in DOMAIN s})
  <2>1. \A i \in 1 .. Cardinality(firsts) : s[first[i]].name \in {s[j].name : j \in DOMAIN s}
    BY <1>2
  <2>2. NamesOnce(s) \in [1 .. Cardinality(firsts) -> {s[i].name : i \in DOMAIN s}]
    BY <1>3, <2>1
  <2>3. ASSUME NEW S, NEW n \in Nat, NEW f \in [1 .. n -> S] PROVE f \in Seq(S)
    OBVIOUS
  <2>4. Cardinality(firsts) \in Nat
    BY <1>2
  <2>. HIDE DEF firsts
  <2>q. QED BY <2>2, <2>3, <2>4
<1>5. ASSUME NEW i \in DOMAIN s PROVE \E j \in firsts : s[j].name = s[i].name
  <2>. DEFINE same == {j \in DOMAIN s : s[j].name = s[i].name}
  <2>1. same \in SUBSET (1 .. Len(s)) /\ i \in same
    BY <1>1
  <2>2. same # {}
    BY <2>1
  <2>3. PICK x \in same : \A y \in same : x <= y
    <3>. HIDE DEF same
    <3>q. QED BY <1>1, <2>1, <2>2, Smallest
  <2>4. x \in 1 .. Len(s) /\ s[x].name = s[i].name /\ \A y \in 1 .. Len(s) : y < x => s[y].name # s[i].name
    BY <1>1, <2>1, <2>3
  <2>5. x \in firsts
    <3>1. \A j \in 1 .. x - 1 : j \in DOMAIN s /\ ~(x <= j)
      BY <1>1, <2>1, <2>4
    <3>q. QED BY <2>4, <3>1
  <2>q. QED BY <2>4, <2>5
<1>6. ASSUME NEW i \in DOMAIN s PROVE \E k \in DOMAIN NamesOnce(s) : NamesOnce(s)[k] = s[i].name
  <2>1. PICK j \in firsts : s[j].name = s[i].name
    BY <1>5
  <2>2. PICK k \in 1 .. Cardinality(firsts) : first[k] = j
    BY <1>2
  <2>3. DOMAIN NamesOnce(s) = 1 .. Cardinality(firsts) /\ NamesOnce(s)[k] = s[first[k]].name
    BY <1>3
  <2>4. NamesOnce(s)[k] = s[i].name
    BY <2>1, <2>2, <2>3
  <2>q. QED BY <2>2, <2>3, <2>4
<1>q. QED BY <1>4, <1>6

-----------------------------------------------------------------------------
(* The outputs a request asks for.                                         *)

Chosen(form, s, r) ==
  /\ s \in Seq(Requestable) /\ r \in BOOLEAN
  /\ form \in {"xml", "json"} => Distinct(s)
  /\ form # "json" /\ r => Len(s) = 1 /\ s[1].by = "any"

NamesIn(s)  == {s[i].name : i \in DOMAIN s}
BysOf(s, n) == {r.by : r \in {r \in Range(s) : r.name = n}}

(* How a parsed output may be answered, before the defaults are known.     *)
FormOK(form, s, o) ==
  \/ form = "kvp"
  \/ o.reference = "ref" /\ "ref" \in BysOf(s, o.name)
  \/ o.reference = "value" /\ "value" \in BysOf(s, o.name)
  \/ o.reference = "value" /\ form = "json" /\ BysOf(s, o.name) \subseteq {"any"}
  \/ o.reference = "any" /\ form = "xml" /\ BysOf(s, o.name) \subseteq {"any"}
  \/ o.reference = "any" /\ form = "xml2" /\ "ref" \notin BysOf(s, o.name)

Formats == [name : Outputs \union {Unknown}, reference : {"any", "value", "ref"},
            inRequest : {FALSE}, made : {"nothing"}]

ParsedOK(form, s, P) ==
  /\ P \in Seq(Formats)
  /\ \A i \in DOMAIN P : FormOK(form, s, P[i])
  /\ s # <<>> => /\ \A i \in DOMAIN P : P[i].name \in NamesIn(s)
                 /\ \A n \in NamesIn(s) : \E i \in DOMAIN P : P[i].name = n
  /\ s = <<>> => IF form = "json" THEN \A n \in Outputs : \E i \in DOMAIN P : P[i].name = n
                 ELSE P = <<>>
  /\ form = "json" => Len(P) >= Len(s)

LEMMA RequestedTypes ==
  ASSUME NEW s \in Seq(Requestable)
  PROVE  /\ NamesIn(s) \subseteq Outputs \union {Unknown}
         /\ \A n : BysOf(s, n) \subseteq {"any", "value", "ref"}
         /\ \A i \in DOMAIN s : s[i].by \in BysOf(s, s[i].name)
         /\ Len(s) \in Nat /\ DOMAIN s = 1 .. Len(s)
         /\ s # <<>> => Len(s) >= 1
         /\ \A i \in DOMAIN s : /\ s[i] \in Requestable
                               /\ s[i].name \in Outputs \union {Unknown}
                               /\ s[i].by \in {"any", "value", "ref"}
<1>1. Len(s) \in Nat /\ DOMAIN s = 1 .. Len(s) /\ (s # <<>> => Len(s) >= 1)
  OBVIOUS
<1>2. \A i \in DOMAIN s : s[i] \in Requestable
  BY <1>1
<1>3. \A r \in Requestable : r.name \in Outputs \union {Unknown} /\ r.by \in {"any", "value", "ref"}
  BY DEF Requestable
<1>4. NamesIn(s) \subseteq Outputs \union {Unknown}
  BY <1>2, <1>3 DEF NamesIn
<1>5. \A n : BysOf(s, n) \subseteq {"any", "value", "ref"}
  BY <1>2, <1>3 DEF BysOf, Range
<1>6. \A i \in DOMAIN s : s[i].by \in BysOf(s, s[i].name)
  BY DEF BysOf, Range
<1>q. QED BY <1>1, <1>2, <1>3, <1>4, <1>5, <1>6

(* Where names are distinct, an output is asked for in one form.           *)
LEMMA DistinctForm ==
  ASSUME NEW s \in Seq(Requestable), Distinct(s), NEW i \in DOMAIN s
  PROVE  BysOf(s, s[i].name) = {s[i].by}
BY DEF Distinct, BysOf, Range

LEMMA KvpParsed ==
  ASSUME NEW s \in Seq(Requestable)
  PROVE  ParsedOK("kvp", s, KvpOutputs(s))
<1>1. /\ NamesOnce(s) \in Seq(NamesIn(s))
      /\ \A i \in DOMAIN s : \E k \in DOMAIN NamesOnce(s) : NamesOnce(s)[k] = s[i].name
  BY NamesOnceOf DEF NamesIn
<1>2. /\ DOMAIN NamesOnce(s) = 1 .. Len(NamesOnce(s)) /\ Len(NamesOnce(s)) \in Nat
      /\ \A k \in DOMAIN NamesOnce(s) : NamesOnce(s)[k] \in NamesIn(s)
  BY <1>1
<1>3. \A k \in DOMAIN NamesOnce(s) : Output(NamesOnce(s)[k], "any") \in Formats
  BY <1>2, RequestedTypes DEF Output, Formats
<1>4. KvpOutputs(s) \in Seq(Formats) /\ DOMAIN KvpOutputs(s) = DOMAIN NamesOnce(s)
  BY <1>2, <1>3 DEF KvpOutputs
<1>5. \A k \in DOMAIN NamesOnce(s) : KvpOutputs(s)[k].name = NamesOnce(s)[k]
  BY DEF KvpOutputs, Output
<1>6. s = <<>> => KvpOutputs(s) = <<>>
  <2>1. ASSUME s = <<>>, KvpOutputs(s) # <<>> PROVE FALSE
    <3>1. 1 \in DOMAIN NamesOnce(s)
      BY <1>2, <1>4, <2>1
    <3>2. NamesIn(s) = {}
      BY <2>1 DEF NamesIn
    <3>q. QED BY <1>2, <3>1, <3>2
  <2>q. QED BY <2>1
<1>7. \A n \in NamesIn(s) : \E k \in DOMAIN NamesOnce(s) : NamesOnce(s)[k] = n
  BY <1>1 DEF NamesIn
<1>q. QED BY <1>2, <1>4, <1>5, <1>6, <1>7 DEF ParsedOK, FormOK

LEMMA Xml2Parsed ==
  ASSUME NEW s \in Seq(Requestable)
  PROVE  ParsedOK("xml2", s, Xml2Outputs(s))
<1>. DEFINE form(n) == IF [name |-> n, by |-> "ref"] \in Range(s) THEN "ref" ELSE "any"
<1>1. /\ NamesOnce(s) \in Seq(NamesIn(s))
      /\ \A i \in DOMAIN s : \E k \in DOMAIN NamesOnce(s) : NamesOnce(s)[k] = s[i].name
  BY NamesOnceOf DEF NamesIn
<1>2. /\ DOMAIN NamesOnce(s) = 1 .. Len(NamesOnce(s)) /\ Len(NamesOnce(s)) \in Nat
      /\ \A k \in DOMAIN NamesOnce(s) : NamesOnce(s)[k] \in NamesIn(s)
  BY <1>1
<1>0. Xml2Outputs(s) = [k \in DOMAIN NamesOnce(s) |-> Output(NamesOnce(s)[k], form(NamesOnce(s)[k]))]
  BY DEF Xml2Outputs
<1>3. \A k \in DOMAIN NamesOnce(s) : Output(NamesOnce(s)[k], form(NamesOnce(s)[k])) \in Formats
  BY <1>2, RequestedTypes DEF Output, Formats
<1>4. Xml2Outputs(s) \in Seq(Formats) /\ DOMAIN Xml2Outputs(s) = DOMAIN NamesOnce(s)
  <2>. HIDE DEF form
  <2>q. QED BY <1>0, <1>2, <1>3
<1>5. \A k \in DOMAIN NamesOnce(s) : /\ Xml2Outputs(s)[k].name = NamesOnce(s)[k]
                                     /\ Xml2Outputs(s)[k].reference = form(NamesOnce(s)[k])
  <2>. HIDE DEF form
  <2>q. QED BY <1>0 DEF Output
<1>6. s = <<>> => Xml2Outputs(s) = <<>>
  <2>1. ASSUME s = <<>>, Xml2Outputs(s) # <<>> PROVE FALSE
    <3>1. 1 \in DOMAIN NamesOnce(s)
      BY <1>2, <1>4, <2>1
    <3>2. NamesIn(s) = {}
      BY <2>1 DEF NamesIn
    <3>q. QED BY <1>2, <3>1, <3>2
  <2>q. QED BY <2>1
<1>7. \A n \in NamesIn(s) : \E k \in DOMAIN NamesOnce(s) : NamesOnce(s)[k] = n
  BY <1>1 DEF NamesIn
<1>8. \A n : /\ [name |-> n, by |-> "ref"] \in Range(s) => "ref" \in BysOf(s, n)
             /\ "ref" \in BysOf(s, n) => [name |-> n, by |-> "ref"] \in Range(s)
  <2>1. \A r \in Requestable : r = [name |-> r.name, by |-> r.by]
    BY DEF Requestable
  <2>2. \A r \in Range(s) : r \in Requestable
    BY RequestedTypes DEF Range
  <2>3. ASSUME NEW n, "ref" \in BysOf(s, n) PROVE [name |-> n, by |-> "ref"] \in Range(s)
    <3>1. PICK r \in Range(s) : r.name = n /\ r.by = "ref"
      BY <2>3 DEF BysOf
    <3>q. QED BY <2>1, <2>2, <3>1
  <2>4. ASSUME NEW n, [name |-> n, by |-> "ref"] \in Range(s) PROVE "ref" \in BysOf(s, n)
    BY <2>4 DEF BysOf
  <2>q. QED BY <2>3, <2>4
<1>9. \A k \in DOMAIN NamesOnce(s) : FormOK("xml2", s, Xml2Outputs(s)[k])
  BY <1>5, <1>8 DEF FormOK
<1>q. QED BY <1>2, <1>4, <1>5, <1>6, <1>7, <1>9 DEF ParsedOK

LEMMA XmlParsed ==
  ASSUME NEW s \in Seq(Requestable), Distinct(s)
  PROVE  ParsedOK("xml", s, XmlOutputs(s))
<1>1. \A i \in DOMAIN s : Output(s[i].name, s[i].by) \in Formats
  BY RequestedTypes DEF Output, Formats
<1>2. XmlOutputs(s) \in Seq(Formats) /\ DOMAIN XmlOutputs(s) = DOMAIN s
  BY <1>1, RequestedTypes DEF XmlOutputs
<1>3. \A i \in DOMAIN s : XmlOutputs(s)[i].name = s[i].name /\ XmlOutputs(s)[i].reference = s[i].by
  BY DEF XmlOutputs, Output
<1>4. \A i \in DOMAIN s : s[i].by \in {"any", "value", "ref"} /\ BysOf(s, s[i].name) = {s[i].by}
  BY DistinctForm, RequestedTypes
<1>5. \A i \in DOMAIN s : FormOK("xml", s, XmlOutputs(s)[i])
  BY <1>3, <1>4 DEF FormOK
<1>q. QED BY <1>2, <1>3, <1>5 DEF ParsedOK, NamesIn

LEMMA JsonParsed ==
  ASSUME NEW s \in Seq(Requestable), Distinct(s)
  PROVE  ParsedOK("json", s, JsonOutputs(s))
<1>1. CASE s = <<>>
  <2>. DEFINE all == SetToSeq(Outputs)
  <2>1. all \in Seq(Outputs) /\ \A n \in Outputs : \E i \in DOMAIN all : all[i] = n
    BY SetToSeqOf, OutputsAssumption
  <2>2. JsonOutputs(s) = [i \in DOMAIN all |-> Output(all[i], "value")]
    BY <1>1 DEF JsonOutputs
  <2>. HIDE DEF all
  <2>3. DOMAIN all = 1 .. Len(all) /\ Len(all) \in Nat /\ \A i \in DOMAIN all : Output(all[i], "value") \in Formats
    BY <2>1 DEF Output, Formats
  <2>4. JsonOutputs(s) \in Seq(Formats) /\ DOMAIN JsonOutputs(s) = DOMAIN all
    BY <2>2, <2>3
  <2>5. \A i \in DOMAIN all : JsonOutputs(s)[i].name = all[i] /\ JsonOutputs(s)[i].reference = "value"
    BY <2>2 DEF Output
  <2>6. Range(s) = {} /\ Len(s) = 0
    BY <1>1 DEF Range
  <2>7. \A i \in DOMAIN all : FormOK("json", s, JsonOutputs(s)[i])
    BY <2>5, <2>6 DEF FormOK, BysOf
  <2>8. Len(JsonOutputs(s)) >= Len(s)
    BY <2>3, <2>4, <2>6
  <2>q. QED BY <1>1, <2>1, <2>4, <2>5, <2>7, <2>8 DEF ParsedOK
<1>2. CASE s # <<>>
  <2>. DEFINE form(i) == IF s[i].by = "any" THEN "value" ELSE s[i].by
  <2>1. JsonOutputs(s) = [i \in DOMAIN s |-> Output(s[i].name, form(i))]
    BY <1>2 DEF JsonOutputs
  <2>2. \A i \in DOMAIN s : Output(s[i].name, form(i)) \in Formats
    BY RequestedTypes DEF Output, Formats
  <2>3. \A i \in DOMAIN s : s[i].by \in {"any", "value", "ref"} /\ BysOf(s, s[i].name) = {s[i].by}
    BY DistinctForm, RequestedTypes
  <2>4. \A i \in DOMAIN s : JsonOutputs(s)[i].name = s[i].name /\ JsonOutputs(s)[i].reference = form(i)
    <3>. HIDE DEF form
    <3>q. QED BY <2>1 DEF Output
  <2>5. JsonOutputs(s) \in Seq(Formats) /\ DOMAIN JsonOutputs(s) = DOMAIN s /\ Len(JsonOutputs(s)) = Len(s)
    <3>. HIDE DEF form
    <3>q. QED BY <2>1, <2>2, RequestedTypes
  <2>6. \A i \in DOMAIN s : FormOK("json", s, JsonOutputs(s)[i])
    BY <2>3, <2>4 DEF FormOK
  <2>7. Len(JsonOutputs(s)) >= Len(s)
    BY <2>5
  <2>q. QED BY <1>2, <2>4, <2>5, <2>6, <2>7 DEF ParsedOK, NamesIn
<1>q. QED BY <1>1, <1>2

(* Whatever the form, the outputs are those of the request.                *)
LEMMA ParsedForm ==
  ASSUME NEW form \in Forms, NEW s, NEW r, Chosen(form, s, r)
  PROVE  ParsedOK(form, s, Parsed(form, s))
<1>1. s \in Seq(Requestable) /\ (form \in {"xml", "json"} => Distinct(s))
  BY DEF Chosen
<1>2. CASE form = "kvp"
  BY <1>1, <1>2, KvpParsed DEF Parsed
<1>3. CASE form = "xml"
  BY <1>1, <1>3, XmlParsed DEF Parsed
<1>4. CASE form = "xml2"
  BY <1>1, <1>4, Xml2Parsed DEF Parsed
<1>5. CASE form = "json"
  BY <1>1, <1>5, JsonParsed DEF Parsed
<1>q. QED BY <1>2, <1>3, <1>4, <1>5 DEF Forms

-----------------------------------------------------------------------------
(* The outputs once the defaults are there: those that are shown to the    *)
(* client are the ones it asked for, in a form it wants.                   *)

Completed == [name : Outputs, reference : {"value", "ref"}, inRequest : BOOLEAN,
              made : {"nothing", "value", "stored", "elsewhere"}]

Shown(o) == o.inRequest \/ (req.form # "json" /\ asked = <<>>)

WantedOK(o) ==
  /\ o.name \in AskedFor
  /\ o.reference = "ref" => req.form = "kvp" \/ ValueIgnored(o.name) \/ "ref" \in Wants(o.name)
  /\ o.reference = "value" => req.form = "kvp" \/ "value" \in Wants(o.name)

OutsOK(os) ==
  /\ os \in Seq(Completed)
  /\ \A i \in DOMAIN os : Shown(os[i]) => WantedOK(os[i])
  /\ \A n \in AskedFor : \E i \in DOMAIN os : os[i].name = n /\ Shown(os[i])
  /\ \A i, j \in DOMAIN os : os[i].name = os[j].name => os[i].made = os[j].made
  /\ req.form = "json" => /\ Len(os) >= Len(asked)
                          /\ \A i \in 1 .. Len(asked) : os[i].inRequest
  /\ req.form = "json" \/ raw => Len(os) >= 1 /\ os[1].inRequest

LEMMA AskedNames ==
  ASSUME asked \in Seq(Requestable)
  PROVE  /\ AskedFor = IF asked = <<>> THEN Outputs ELSE NamesIn(asked)
         /\ \A n : Wants(n) = IF BysOf(asked, n) \subseteq {"any"} THEN {Usual(n)}
                             ELSE BysOf(asked, n) \ {"any"}
BY DEF AskedFor, NamesIn, Wants, BysOf, Range

(* The default of asReference is what a client wants that did not choose.  *)
LEMMA DefaultForm ==
  ASSUME req.form \in Forms, asked \in Seq(Requestable), NEW o \in Formats,
         FormOK(req.form, asked, o), o.name \in AskedFor,
         NEW r, r = IF o.reference = "any" THEN Default(o.name) ELSE o.reference
  PROVE  /\ r \in {"value", "ref"}
         /\ r = "ref" => req.form = "kvp" \/ ValueIgnored(o.name) \/ "ref" \in Wants(o.name)
         /\ r = "value" => req.form = "kvp" \/ "value" \in Wants(o.name)
<1>1. o.reference \in {"any", "value", "ref"}
  BY DEF Formats
<1>2. BysOf(asked, o.name) \subseteq {"any", "value", "ref"}
  BY RequestedTypes
<1>3. Wants(o.name) = IF BysOf(asked, o.name) \subseteq {"any"} THEN {Usual(o.name)}
                      ELSE BysOf(asked, o.name) \ {"any"}
  BY AskedNames
<1>4. CASE o.reference = "any"
  <2>1. r = IF o.name \in Stored THEN "ref" ELSE "value"
    BY <1>4 DEF Default
  <2>2. req.form \in {"kvp", "xml", "xml2"}
    BY <1>4 DEF FormOK
  <2>3. CASE BysOf(asked, o.name) \subseteq {"any"}
    <3>1. Wants(o.name) = {r}
      BY <1>3, <2>1, <2>2, <2>3 DEF Usual, Default
    <3>q. QED BY <2>1, <3>1
  <2>4. CASE ~(BysOf(asked, o.name) \subseteq {"any"}) /\ req.form # "kvp"
    <3>1. req.form = "xml2" /\ "ref" \notin BysOf(asked, o.name)
      BY <1>4, <2>4 DEF FormOK
    <3>2. "value" \in BysOf(asked, o.name)
      BY <1>2, <2>4, <3>1
    <3>3. "value" \in Wants(o.name)
      BY <1>3, <2>4, <3>2
    <3>q. QED BY <2>1, <3>1, <3>3 DEF ValueIgnored
  <2>q. QED BY <2>1, <2>3, <2>4
<1>5. CASE o.reference # "any"
  <2>1. r = o.reference /\ r \in {"value", "ref"}
    BY <1>1, <1>5
  <2>2. CASE req.form = "kvp"
    BY <2>1, <2>2
  <2>3. CASE r \in BysOf(asked, o.name)
    <3>1. r \in Wants(o.name)
      BY <1>3, <2>1, <2>3
    <3>q. QED BY <2>1, <3>1
  <2>4. CASE r = "value" /\ req.form = "json" /\ BysOf(asked, o.name) \subseteq {"any"}
    <3>1. Wants(o.name) = {"value"}
      BY <1>3, <2>4 DEF Usual
    <3>q. QED BY <2>4, <3>1
  <2>q. QED BY <1>5, <2>1, <2>2, <2>3, <2>4 DEF FormOK
<1>q. QED BY <1>4, <1>5

LEMMA WithDefaultsOK ==
  ASSUME req.form \in Forms, Chosen(req.form, asked, raw),
         ParsedOK(req.form, asked, outs), ~UnknownAsked
  PROVE  OutsOK(WithDefaults)
<1>. DEFINE lacking == SetToSeq(Outputs \ {outs[i].name : i \in DOMAIN outs})
            more == [i \in DOMAIN lacking |-> Output(lacking[i], "any")]
            added == outs \o more
            ref(i) == IF added[i].reference = "any" THEN Default(added[i].name) ELSE added[i].reference
<1>1. asked \in Seq(Requestable) /\ raw \in BOOLEAN
  BY DEF Chosen
<1>2. /\ outs \in Seq(Formats) /\ Len(outs) \in Nat /\ DOMAIN outs = 1 .. Len(outs)
      /\ \A i \in DOMAIN outs : outs[i] \in Formats /\ outs[i].name \in Outputs
  <2>1. outs \in Seq(Formats)
    BY DEF ParsedOK
  <2>2. \A i \in DOMAIN outs : outs[i] \in Formats
    BY <2>1
  <2>q. QED BY <2>1, <2>2 DEF UnknownAsked
<1>3. /\ lacking \in Seq(Outputs \ {outs[i].name : i \in DOMAIN outs})
      /\ \A n \in Outputs \ {outs[i].name : i \in DOMAIN outs} : \E i \in DOMAIN lacking : lacking[i] = n
  <2>1. IsFiniteSet(Outputs \ {outs[i].name : i \in DOMAIN outs})
    BY OutputsAssumption, FS_Subset
  <2>q. QED BY <2>1, SetToSeqOf
<1>4. /\ Len(lacking) \in Nat /\ DOMAIN lacking = 1 .. Len(lacking)
      /\ \A i \in DOMAIN lacking : lacking[i] \in Outputs /\ Output(lacking[i], "any") \in Formats
  <2>. HIDE DEF lacking
  <2>q. QED BY <1>3 DEF Output, Formats
<1>5. more \in Seq(Formats) /\ Len(more) = Len(lacking)
  <2>. HIDE DEF lacking
  <2>q. QED BY <1>4
<1>6. /\ added \in Seq(Formats) /\ Len(added) = Len(outs) + Len(lacking)
      /\ DOMAIN added = 1 .. Len(outs) + Len(lacking)
      /\ \A i \in 1 .. Len(outs) : added[i] = outs[i]
      /\ \A i \in 1 .. Len(lacking) : added[Len(outs) + i] = Output(lacking[i], "any")
  <2>1. \A i \in 1 .. Len(lacking) : more[i] = Output(lacking[i], "any")
    <3>. HIDE DEF lacking
    <3>q. QED BY <1>4
  <2>. HIDE DEF lacking, more
  <2>2. /\ added \in Seq(Formats) /\ Len(added) = Len(outs) + Len(more)
        /\ \A i \in 1 .. Len(outs) + Len(more) :
             added[i] = IF i <= Len(outs) THEN outs[i] ELSE more[i - Len(outs)]
    BY <1>2, <1>5, ConcatProperties
  <2>. HIDE DEF added
  <2>3. DOMAIN added = 1 .. Len(outs) + Len(lacking)
    BY <1>5, <2>2
  <2>4. \A i \in 1 .. Len(outs) : added[i] = outs[i]
    BY <1>2, <1>4, <1>5, <2>2
  <2>5. ASSUME NEW i \in 1 .. Len(lacking) PROVE added[Len(outs) + i] = Output(lacking[i], "any")
    <3>1. Len(outs) + i \in 1 .. Len(outs) + Len(more) /\ ~(Len(outs) + i <= Len(outs)) /\ Len(outs) + i - Len(outs) = i
      BY <1>2, <1>4, <1>5
    <3>2. added[Len(outs) + i] = more[i]
      BY <2>2, <3>1
    <3>q. QED BY <2>1, <3>2
  <2>q. QED BY <1>5, <2>2, <2>3, <2>4, <2>5
<1>7. \A i \in DOMAIN added : added[i] \in Formats /\ added[i].name \in Outputs
  <2>1. SUFFICES ASSUME NEW i \in DOMAIN added PROVE added[i] \in Formats /\ added[i].name \in Outputs
    OBVIOUS
  <2>. HIDE DEF lacking, more, added
  <2>2. CASE i \in 1 .. Len(outs)
    BY <1>2, <1>6, <2>2
  <2>3. ASSUME NEW k \in 1 .. Len(lacking), i = Len(outs) + k
        PROVE  added[i] \in Formats /\ added[i].name \in Outputs
    <3>1. added[i] = Output(lacking[k], "any") /\ lacking[k] \in Outputs /\ Output(lacking[k], "any") \in Formats
      BY <1>4, <1>6, <2>3
    <3>q. QED BY <3>1 DEF Output
  <2>4. i \in 1 .. Len(outs) \/ \E k \in 1 .. Len(lacking) : i = Len(outs) + k
    <3>1. i \in 1 .. Len(outs) + Len(lacking)
      BY <1>6
    <3>2. i \notin 1 .. Len(outs) => i - Len(outs) \in 1 .. Len(lacking) /\ i = Len(outs) + (i - Len(outs))
      BY <1>2, <1>4, <3>1
    <3>q. QED BY <3>2
  <2>q. QED BY <2>2, <2>3, <2>4
<1>8. \A i \in DOMAIN added : FormOK(req.form, asked, added[i]) \/ i \notin 1 .. Len(outs)
  <2>. HIDE DEF lacking, more, added
  <2>q. QED BY <1>2, <1>6 DEF ParsedOK
<1>. DEFINE W == WithDefaults
<1>9. /\ DOMAIN W = DOMAIN added
      /\ \A i \in DOMAIN added :
           W[i] = [added[i] EXCEPT !.reference = IF @ = "any" THEN Default(added[i].name) ELSE @,
                                   !.inRequest = i <= Len(outs)]
      /\ W = [i \in DOMAIN added |-> W[i]]
  BY DEF WithDefaults
<1>. HIDE DEF lacking, more, added, W
<1>10. \A i \in DOMAIN added : added[i].name \in AskedFor \/ i \notin 1 .. Len(outs) \/ asked = <<>>
  BY <1>1, <1>2, <1>6, AskedNames DEF ParsedOK
<1>11. asked = <<>> => AskedFor = Outputs
  BY <1>1, AskedNames
<1>12. ASSUME NEW i \in DOMAIN added
       PROVE  /\ W[i].name = added[i].name /\ W[i].made = "nothing"
              /\ W[i].inRequest <=> i <= Len(outs)
              /\ W[i].reference = IF added[i].reference = "any" THEN Default(added[i].name)
                                 ELSE added[i].reference
              /\ W[i] \in Completed
  <2>1. added[i] \in Formats /\ added[i].name \in Outputs
    BY <1>7
  <2>2. (i <= Len(outs)) \in BOOLEAN
    OBVIOUS
  <2>3. /\ W[i].name = added[i].name /\ W[i].made = added[i].made
        /\ W[i].inRequest <=> i <= Len(outs)
        /\ W[i].reference = IF added[i].reference = "any" THEN Default(added[i].name)
                           ELSE added[i].reference
    BY <1>9, <2>1 DEF Formats
  <2>4. added[i].made = "nothing" /\ added[i].reference \in {"any", "value", "ref"}
    BY <2>1 DEF Formats
  <2>5. W[i] \in Completed
    <3>1. Default(added[i].name) \in {"value", "ref"}
      BY DEF Default
    <3>q. QED BY <1>9, <2>1, <2>2, <2>4, <3>1 DEF Formats, Completed
  <2>q. QED BY <2>3, <2>4, <2>5
<1>13. W \in Seq(Completed) /\ Len(W) = Len(outs) + Len(lacking)
  <2>1. \A i \in 1 .. Len(outs) + Len(lacking) : W[i] \in Completed
    BY <1>6, <1>12
  <2>2. DOMAIN added = 1 .. Len(outs) + Len(lacking) /\ Len(outs) + Len(lacking) \in Nat
    BY <1>2, <1>4, <1>6
  <2>3. W \in [1 .. Len(outs) + Len(lacking) -> Completed]
    BY <1>9, <2>1, <2>2
  <2>q. QED BY <2>2, <2>3
<1>15. \A i \in DOMAIN added : i \notin 1 .. Len(outs) => added[i].reference = "any"
  <2>1. SUFFICES ASSUME NEW i \in DOMAIN added, i \notin 1 .. Len(outs) PROVE added[i].reference = "any"
    OBVIOUS
  <2>2. i - Len(outs) \in 1 .. Len(lacking) /\ i = Len(outs) + (i - Len(outs))
    BY <1>2, <1>4, <1>6, <2>1
  <2>3. added[i] = Output(lacking[i - Len(outs)], "any")
    BY <1>6, <2>2
  <2>q. QED BY <2>3 DEF Output
<1>14. ASSUME NEW i \in DOMAIN added, Shown(W[i])
       PROVE  FormOK(req.form, asked, added[i]) /\ added[i].name \in AskedFor
  <2>1. CASE i <= Len(outs)
    <3>1. i \in 1 .. Len(outs)
      BY <1>2, <1>4, <1>6, <2>1
    <3>q. QED BY <1>7, <1>8, <1>10, <1>11, <3>1
  <2>2. CASE ~(i <= Len(outs))
    <3>1. req.form \in {"kvp", "xml", "xml2"} /\ asked = <<>>
      BY <1>12, <1>14, <2>2 DEF Shown, Forms
    <3>2. i \notin 1 .. Len(outs)
      BY <2>2
    <3>3. added[i].reference = "any"
      BY <1>15, <3>2
    <3>4. \A n : BysOf(asked, n) = {}
      BY <3>1 DEF BysOf, Range
    <3>5. FormOK(req.form, asked, added[i])
      BY <3>1, <3>3, <3>4 DEF FormOK
    <3>q. QED BY <1>7, <1>11, <3>1, <3>5
  <2>q. QED BY <2>1, <2>2
<1>16. \A i \in DOMAIN W : Shown(W[i]) => WantedOK(W[i])
  <2>1. SUFFICES ASSUME NEW i \in DOMAIN added, Shown(W[i]) PROVE WantedOK(W[i])
    BY <1>9
  <2>2. FormOK(req.form, asked, added[i]) /\ added[i].name \in AskedFor /\ added[i] \in Formats
    BY <1>7, <1>14, <2>1
  <2>q. QED BY <1>1, <1>12, <2>2, DefaultForm DEF WantedOK
<1>17. \A n \in AskedFor : \E i \in DOMAIN W : W[i].name = n /\ Shown(W[i])
  <2>0. \A i \in DOMAIN added : i \in DOMAIN W /\ W[i].name = added[i].name
    BY <1>9, <1>12
  <2>1. SUFFICES ASSUME NEW n \in AskedFor PROVE \E i \in DOMAIN added : added[i].name = n /\ Shown(W[i])
    BY <2>0
  <2>2. CASE asked = <<>> /\ req.form # "json"
    <3>1. n \in Outputs /\ Len(outs) = 0
      BY <1>2, <1>11, <2>2 DEF ParsedOK
    <3>2. PICK k \in DOMAIN lacking : lacking[k] = n
      BY <1>2, <1>3, <3>1
    <3>3. k \in DOMAIN added /\ added[k] = Output(n, "any")
      BY <1>4, <1>6, <3>1, <3>2
    <3>q. QED BY <2>2, <3>3 DEF Shown, Output
  <2>3. CASE ~(asked = <<>> /\ req.form # "json")
    <3>1. \E i \in DOMAIN outs : outs[i].name = n
      BY <1>1, <1>11, <2>3, AskedNames DEF ParsedOK
    <3>2. PICK i \in 1 .. Len(outs) : outs[i].name = n
      BY <1>2, <3>1
    <3>3. i \in DOMAIN added /\ added[i].name = n /\ W[i].inRequest
      BY <1>2, <1>4, <1>6, <1>12, <3>2
    <3>q. QED BY <3>3 DEF Shown
  <2>q. QED BY <2>2, <2>3
<1>18. \A i, j \in DOMAIN W : W[i].made = W[j].made
  BY <1>9, <1>12
<1>19. req.form = "json" => /\ Len(W) >= Len(asked)
                            /\ \A i \in 1 .. Len(asked) : W[i].inRequest
  <2>1. Len(asked) \in Nat
    BY <1>1
  <2>2. CASE req.form = "json"
    <3>1. Len(outs) >= Len(asked)
      BY <2>2 DEF ParsedOK
    <3>2. \A i \in 1 .. Len(asked) : i \in DOMAIN added /\ i <= Len(outs)
      BY <1>2, <1>4, <1>6, <2>1, <3>1
    <3>q. QED BY <1>2, <1>4, <1>12, <1>13, <2>1, <3>1, <3>2
  <2>q. QED BY <2>2
<1>20. req.form = "json" \/ raw => Len(W) >= 1 /\ W[1].inRequest
  <2>1. SUFFICES ASSUME req.form = "json" \/ raw PROVE Len(W) >= 1 /\ W[1].inRequest
    OBVIOUS
  <2>2. outs # <<>>
    <3>1. CASE asked = <<>>
      <4>1. req.form = "json"
        BY <2>1, <3>1 DEF Chosen
      <4>2. PICK n \in Outputs : TRUE
        BY OutputsAssumption
      <4>3. \E i \in DOMAIN outs : outs[i].name = n
        BY <3>1, <4>1, <4>2 DEF ParsedOK
      <4>q. QED BY <1>2, <4>3
    <3>2. CASE asked # <<>>
      <4>1. asked[1].name \in NamesIn(asked)
        BY <1>1, <3>2 DEF NamesIn
      <4>2. \E i \in DOMAIN outs : outs[i].name = asked[1].name
        BY <3>2, <4>1 DEF ParsedOK
      <4>q. QED BY <1>2, <4>2
    <3>q. QED BY <3>1, <3>2
  <2>3. 1 \in DOMAIN added /\ 1 <= Len(outs)
    BY <1>2, <1>4, <1>6, <2>2
  <2>q. QED BY <1>2, <1>4, <1>12, <1>13, <2>3
<1>q. QED BY <1>13, <1>16, <1>17, <1>18, <1>19, <1>20 DEF OutsOK, W

(* What the service leaves does not change what is asked for.              *)
LEMMA LeavesOK ==
  ASSUME OutsOK(outs), NEW kind \in {"value", "stored", "elsewhere"}, NEW lacking
  PROVE  OutsOK(Leaves(kind, lacking))
<1>. DEFINE L == Leaves(kind, lacking)
            left(n) == IF n \in lacking THEN "nothing" ELSE kind
<1>1. /\ outs \in Seq(Completed) /\ DOMAIN outs = 1 .. Len(outs) /\ Len(outs) \in Nat
      /\ \A i \in DOMAIN outs : outs[i] \in Completed
  BY DEF OutsOK
<1>2. /\ L = [i \in DOMAIN outs |-> [outs[i] EXCEPT !.made = left(outs[i].name)]]
      /\ L = [i \in DOMAIN outs |-> L[i]]
  BY DEF Leaves
<1>. HIDE DEF L
<1>3. ASSUME NEW i \in DOMAIN outs
      PROVE  /\ L[i] \in Completed /\ L[i].name = outs[i].name /\ L[i].made = left(outs[i].name)
             /\ L[i].reference = outs[i].reference /\ L[i].inRequest = outs[i].inRequest
  <2>1. left(outs[i].name) \in {"nothing", "value", "stored", "elsewhere"}
    OBVIOUS
  <2>2. L[i] = [outs[i] EXCEPT !.made = left(outs[i].name)] /\ outs[i] \in Completed
    BY <1>1, <1>2
  <2>. HIDE DEF left
  <2>q. QED BY <2>1, <2>2 DEF Completed
<1>4. L \in Seq(Completed) /\ Len(L) = Len(outs) /\ DOMAIN L = DOMAIN outs
  <2>1. L \in [1 .. Len(outs) -> Completed]
    BY <1>1, <1>2, <1>3
  <2>q. QED BY <1>1, <2>1
<1>5. \A i \in DOMAIN outs : (Shown(L[i]) <=> Shown(outs[i])) /\ (WantedOK(L[i]) <=> WantedOK(outs[i]))
  BY <1>3 DEF Shown, WantedOK
<1>6. \A i \in DOMAIN L : Shown(L[i]) => WantedOK(L[i])
  BY <1>4, <1>5 DEF OutsOK
<1>7. \A n \in AskedFor : \E i \in DOMAIN L : L[i].name = n /\ Shown(L[i])
  <2>1. \A n \in AskedFor : \E i \in DOMAIN outs : outs[i].name = n /\ Shown(outs[i])
    BY DEF OutsOK
  <2>q. QED BY <1>3, <1>4, <1>5, <2>1
<1>8. \A i, j \in DOMAIN L : L[i].name = L[j].name => L[i].made = L[j].made
  BY <1>3, <1>4
<1>9. req.form = "json" => Len(L) >= Len(asked) /\ \A i \in 1 .. Len(asked) : L[i].inRequest
  <2>1. SUFFICES ASSUME req.form = "json" PROVE Len(L) >= Len(asked) /\ \A i \in 1 .. Len(asked) : L[i].inRequest
    OBVIOUS
  <2>2. Len(outs) >= Len(asked) /\ \A i \in 1 .. Len(asked) : outs[i].inRequest
    BY <2>1 DEF OutsOK
  <2>3. Len(L) >= Len(asked)
    BY <1>4, <2>2
  <2>4. CASE Len(asked) \in Int
    <3>1. \A i \in 1 .. Len(asked) : i \in DOMAIN outs
      BY <1>1, <2>2, <2>4
    <3>q. QED BY <1>3, <2>2, <2>3, <3>1
  <2>q. QED BY <2>4
<1>10. req.form = "json" \/ raw => Len(L) >= 1 /\ L[1].inRequest
  <2>1. req.form = "json" \/ raw => Len(outs) >= 1 /\ outs[1].inRequest
    BY DEF OutsOK
  <2>2. Len(outs) >= 1 => 1 \in DOMAIN outs
    BY <1>1
  <2>q. QED BY <1>3, <1>4, <2>1, <2>2
<1>q. QED BY <1>4, <1>6, <1>7, <1>8, <1>9, <1>10 DEF OutsOK, L

-----------------------------------------------------------------------------
(* The answer.                                                             *)

(* AnsweredAsAsked of the answer a.                                        *)
RightAnswer(a) ==
  a.kind \in {"document", "raw"} =>
    /\ {p.name : p \in a.parts} \subseteq AskedFor
    /\ \A n \in AskedFor : Made(n) => \E p \in a.parts : p.name = n
    /\ \A p \in a.parts :
         /\ p.href /\ ~ReferenceIgnored /\ ~ValueIgnored(p.name) => "ref" \in Wants(p.name)
         /\ ~p.href /\ ~ReferenceIgnored => "value" \in Wants(p.name)
         /\ ~FileIgnored(p) => (Made(p.name) <=> p.content = "result")

LEMMA RefusalIsRight == RightAnswer(Exception) /\ RightAnswer(Crash) /\ RightAnswer(NoAnswer)
BY DEF RightAnswer, Exception, Crash, NoAnswer, Reply

(* An answer is right that has a part for the outputs that are shown.      *)
LEMMA PartsAreRight ==
  ASSUME OutsOK(outs), NEW kind, NEW Printed \in SUBSET (DOMAIN outs), NEW content,
         \A i \in Printed : Shown(outs[i]),
         \A i \in DOMAIN outs : Shown(outs[i]) /\ outs[i].made # "nothing" => i \in Printed,
         req.form = "kvp" => ReferenceIgnored,
         \A i \in Printed : FileIgnored(Part(outs[i], ByReference(outs[i]), content[i]))
                            \/ (outs[i].made # "nothing" <=> content[i] = "result")
  PROVE  RightAnswer(Reply(kind, {Part(outs[i], ByReference(outs[i]), content[i]) : i \in Printed}))
<1>. DEFINE part(i) == Part(outs[i], ByReference(outs[i]), content[i])
            parts == {part(i) : i \in Printed}
<1>1. \A i \in DOMAIN outs : outs[i] \in Completed
  BY DEF OutsOK
<1>2. \A i \in Printed : WantedOK(outs[i])
  BY DEF OutsOK
<1>3. ASSUME NEW i \in Printed
      PROVE  /\ part(i).name = outs[i].name /\ part(i).content = content[i]
             /\ part(i).href <=> outs[i].reference = "ref"
             /\ ~part(i).href => outs[i].reference = "value"
  <2>1. outs[i].reference \in {"value", "ref"}
    BY <1>1 DEF Completed
  <2>q. QED BY <2>1 DEF Part, ByReference
<1>4. \A i \in DOMAIN outs : Made(outs[i].name) <=> outs[i].made # "nothing"
  BY DEF Made, OutsOK
<1>5. \A n \in AskedFor : Made(n) => \E i \in Printed : outs[i].name = n
  <2>1. SUFFICES ASSUME NEW n \in AskedFor, Made(n) PROVE \E i \in Printed : outs[i].name = n
    OBVIOUS
  <2>2. PICK i \in DOMAIN outs : outs[i].name = n /\ Shown(outs[i])
    BY DEF OutsOK
  <2>q. QED BY <1>4, <2>1, <2>2
<1>6. {p.name : p \in parts} \subseteq AskedFor
  BY <1>2, <1>3 DEF WantedOK
<1>7. \A n \in AskedFor : Made(n) => \E p \in parts : p.name = n
  BY <1>3, <1>5
<1>8. ASSUME NEW i \in Printed
      PROVE  /\ part(i).href /\ ~ReferenceIgnored /\ ~ValueIgnored(part(i).name) => "ref" \in Wants(part(i).name)
             /\ ~part(i).href /\ ~ReferenceIgnored => "value" \in Wants(part(i).name)
             /\ ~FileIgnored(part(i)) => (Made(part(i).name) <=> part(i).content = "result")
  <2>1. FileIgnored(part(i)) \/ (outs[i].made # "nothing" <=> content[i] = "result")
    OBVIOUS
  <2>2. i \in DOMAIN outs
    OBVIOUS
  <2>. HIDE DEF part
  <2>3. ~FileIgnored(part(i)) => (Made(part(i).name) <=> part(i).content = "result")
    BY <1>3, <1>4, <2>1, <2>2
  <2>q. QED BY <1>2, <1>3, <2>3 DEF WantedOK
<1>. HIDE DEF part
<1>9. RightAnswer(Reply(kind, parts))
  <2>1. Reply(kind, parts).parts = parts
    BY DEF Reply
  <2>. HIDE DEF parts
  <2>2. \A p \in parts : \E i \in Printed : p = part(i)
    BY DEF parts
  <2>3. \A p \in parts :
          /\ p.href /\ ~ReferenceIgnored /\ ~ValueIgnored(p.name) => "ref" \in Wants(p.name)
          /\ ~p.href /\ ~ReferenceIgnored => "value" \in Wants(p.name)
          /\ ~FileIgnored(p) => (Made(p.name) <=> p.content = "result")
    BY <1>8, <2>2
  <2>q. QED BY <1>6, <1>7, <2>1, <2>3 DEF RightAnswer
<1>q. QED BY <1>9 DEF part

(* So is the one raw output, where no other is asked for.                  *)
LEMMA RawIsRight ==
  ASSUME OutsOK(outs), Len(outs) >= 1, outs[1].inRequest,
         \A n \in AskedFor : n = outs[1].name,
         ReferenceIgnored \/ "value" \in Wants(outs[1].name)
  PROVE  RightAnswer(RawOutput(outs[1]))
<1>1. CASE outs[1].made = "nothing"
  BY <1>1, RefusalIsRight DEF RawOutput
<1>2. CASE outs[1].made # "nothing"
  <2>. DEFINE p == Part(outs[1], FALSE, "result")
  <2>1. RawOutput(outs[1]) = Reply("raw", {p})
    BY <1>2 DEF RawOutput
  <2>2. 1 \in DOMAIN outs
    BY DEF OutsOK
  <2>3. outs[1].name \in AskedFor
    BY <2>2 DEF OutsOK, Shown, WantedOK
  <2>4. Made(outs[1].name)
    BY <1>2, <2>2 DEF Made
  <2>5. p.name = outs[1].name /\ ~p.href /\ p.content = "result"
    BY DEF Part
  <2>. HIDE DEF p
  <2>6. Reply("raw", {p}).parts = {p}
    BY DEF Reply
  <2>q. QED BY <2>1, <2>3, <2>4, <2>5, <2>6 DEF RightAnswer
<1>q. QED BY <1>1, <1>2

LEMMA WpsDocumentRight ==
  ASSUME OutsOK(outs), req.form \in Forms, req.form # "json", raw = FALSE
  PROVE  RightAnswer(WpsDocument)
<1>. DEFINE Bad(o) == ByReference(o) /\ (NoUrl(o) \/ NoFile(o))
            Printed == {i \in DOMAIN outs : asked = <<>> \/ outs[i].inRequest}
            content == [i \in DOMAIN outs |->
              IF ByReference(outs[i]) \/ outs[i].made = "value" THEN "result" ELSE "empty"]
<1>1. CASE \E i \in DOMAIN outs : Bad(outs[i])
  <2>1. WpsDocument \in {Crash, Exception}
    BY <1>1 DEF WpsDocument
  <2>q. QED BY <2>1, RefusalIsRight
<1>2. CASE ~\E i \in DOMAIN outs : Bad(outs[i])
  <2>1. WpsDocument = Reply("document", {Part(outs[i], ByReference(outs[i]), content[i]) : i \in Printed})
    BY <1>2 DEF WpsDocument, WpsParts
  <2>2. \A i \in DOMAIN outs : Shown(outs[i]) <=> i \in Printed
    BY DEF Shown
  <2>3. Printed \in SUBSET (DOMAIN outs)
    OBVIOUS
  <2>4. req.form = "kvp" => ReferenceIgnored
    BY DEF ReferenceIgnored
  <2>5. ASSUME NEW i \in Printed
        PROVE  FileIgnored(Part(outs[i], ByReference(outs[i]), content[i]))
               \/ (outs[i].made # "nothing" <=> content[i] = "result")
    <3>1. CASE ByReference(outs[i])
      BY <1>2, <3>1 DEF NoFile
    <3>2. CASE ~ByReference(outs[i])
      BY <3>2 DEF FileIgnored, Part
    <3>q. QED BY <3>1, <3>2
  <2>. HIDE DEF Printed, content
  <2>q. QED BY <2>1, <2>2, <2>3, <2>4, <2>5, PartsAreRight
<1>q. QED BY <1>1, <1>2

LEMMA JsonDocumentRight ==
  ASSUME OutsOK(outs), req.form = "json"
  PROVE  RightAnswer(JsonDocument)
<1>. DEFINE Printed == {i \in DOMAIN outs : outs[i].inRequest /\ outs[i].made # "nothing"}
            content == [i \in DOMAIN outs |-> "result"]
<1>1. CASE \E i \in Printed : ByReference(outs[i]) /\ NoUrl(outs[i])
  BY <1>1, RefusalIsRight DEF JsonDocument
<1>2. CASE ~\E i \in Printed : ByReference(outs[i]) /\ NoUrl(outs[i])
  <2>1. JsonDocument = Reply("document", {Part(outs[i], ByReference(outs[i]), content[i]) : i \in Printed})
    BY <1>2 DEF JsonDocument
  <2>2. \A i \in Printed : Shown(outs[i]) /\ outs[i].made # "nothing" /\ content[i] = "result"
    BY DEF Shown
  <2>3. \A i \in DOMAIN outs : Shown(outs[i]) /\ outs[i].made # "nothing" => i \in Printed
    BY DEF Shown
  <2>4. Printed \in SUBSET (DOMAIN outs)
    OBVIOUS
  <2>. HIDE DEF Printed, content
  <2>q. QED BY <2>1, <2>2, <2>3, <2>4, PartsAreRight
<1>q. QED BY <1>1, <1>2

LEMMA JsonPartsRight ==
  ASSUME OutsOK(outs), req.form = "json"
  PROVE  RightAnswer(JsonParts)
<1>. DEFINE Stops(o) == o.inRequest /\ ((ByReference(o) /\ NoUrl(o)) \/ (~ByReference(o) /\ NoFile(o)))
            Printed == {i \in DOMAIN outs : outs[i].inRequest}
            content == [i \in DOMAIN outs |-> IF NoFile(outs[i]) THEN "null" ELSE "result"]
<1>1. CASE \E i \in DOMAIN outs : Stops(outs[i])
  <2>1. JsonParts \in {Crash, Exception}
    BY <1>1 DEF JsonParts
  <2>q. QED BY <2>1, RefusalIsRight
<1>2. CASE ~\E i \in DOMAIN outs : Stops(outs[i])
  <2>1. JsonParts = Reply("raw", {Part(outs[i], ByReference(outs[i]), content[i]) : i \in Printed})
    BY <1>2 DEF JsonParts
  <2>2. \A i \in Printed : Shown(outs[i])
    BY DEF Shown
  <2>5. \A i \in Printed : outs[i].made # "nothing" <=> content[i] = "result"
    BY DEF NoFile
  <2>6. ~(req.form = "kvp")
    OBVIOUS
  <2>3. \A i \in DOMAIN outs : Shown(outs[i]) /\ outs[i].made # "nothing" => i \in Printed
    BY DEF Shown
  <2>4. Printed \in SUBSET (DOMAIN outs)
    OBVIOUS
  <2>. HIDE DEF Printed, content
  <2>q. QED BY <2>1, <2>2, <2>3, <2>4, <2>5, <2>6, PartsAreRight
<1>q. QED BY <1>1, <1>2

(* A single raw output of a JSON request is the one it asks for, or all    *)
(* the process has.                                                        *)
LEMMA JsonRawRight ==
  ASSUME OutsOK(outs), req.form = "json", raw = TRUE, asked \in Seq(Requestable)
  PROVE  RightAnswer(JsonRaw)
<1>1. CASE \E i, j \in DOMAIN outs : i # j /\ outs[i].inRequest /\ outs[j].inRequest
  BY <1>1, JsonPartsRight DEF JsonRaw
<1>2. CASE ~\E i, j \in DOMAIN outs : i # j /\ outs[i].inRequest /\ outs[j].inRequest
  <2>1. /\ Len(outs) >= 1 /\ outs[1].inRequest /\ Len(outs) \in Nat /\ DOMAIN outs = 1 .. Len(outs)
        /\ Len(outs) >= Len(asked) /\ \A i \in 1 .. Len(asked) : outs[i].inRequest
    BY DEF OutsOK
  <2>2. \A n \in AskedFor : n = outs[1].name
    <3>1. SUFFICES ASSUME NEW n \in AskedFor PROVE n = outs[1].name
      OBVIOUS
    <3>2. PICK i \in DOMAIN outs : outs[i].name = n /\ outs[i].inRequest
      BY DEF OutsOK, Shown
    <3>3. i = 1
      BY <1>2, <2>1, <3>2
    <3>q. QED BY <3>2, <3>3
  <2>3. Len(asked) \in Nat /\ ~(Len(asked) >= 2)
    <3>1. ASSUME Len(asked) >= 2 PROVE FALSE
      <4>1. Len(asked) \in Nat
        OBVIOUS
      <4>2. 1 \in 1 .. Len(asked) /\ 2 \in 1 .. Len(asked) /\ 1 \in DOMAIN outs /\ 2 \in DOMAIN outs
        BY <2>1, <3>1, <4>1
      <4>q. QED BY <1>2, <2>1, <4>2
    <3>q. QED BY <3>1
  <2>4. ReferenceIgnored \/ "value" \in Wants(outs[1].name)
    <3>1. CASE Len(asked) = 1
      BY <3>1 DEF ReferenceIgnored
    <3>2. CASE asked = <<>>
      <4>1. \A n : BysOf(asked, n) = {}
        BY <3>2 DEF BysOf, Range
      <4>q. QED BY <4>1, AskedNames DEF Usual
    <3>3. Len(asked) = 0 => asked = <<>>
      BY EmptySeq
    <3>4. Len(asked) = 0 \/ Len(asked) = 1
      <4>1. \A n \in Nat : ~(n >= 2) => n = 0 \/ n = 1
        OBVIOUS
      <4>q. QED BY <2>3, <4>1
    <3>q. QED BY <3>1, <3>2, <3>3, <3>4
  <2>5. JsonRaw = RawOutput(outs[1])
    BY <1>2 DEF JsonRaw
  <2>q. QED BY <2>1, <2>2, <2>4, <2>5, RawIsRight
<1>q. QED BY <1>1, <1>2

LEMMA AnswerIsRight ==
  ASSUME OutsOK(outs), req.form \in Forms, Chosen(req.form, asked, raw)
  PROVE  RightAnswer(Answer(req.form))
<1>1. asked \in Seq(Requestable) /\ raw \in BOOLEAN
  BY DEF Chosen
<1>2. CASE req.form = "json" /\ raw = TRUE
  BY <1>1, <1>2, JsonRawRight DEF Answer
<1>3. CASE req.form = "json" /\ raw = FALSE
  BY <1>3, JsonDocumentRight DEF Answer
<1>4. CASE req.form # "json" /\ raw = FALSE
  BY <1>4, WpsDocumentRight DEF Answer
<1>5. CASE req.form # "json" /\ raw = TRUE
  <2>1. Len(asked) = 1
    BY <1>5 DEF Chosen
  <2>2. Len(outs) >= 1 /\ outs[1].inRequest /\ 1 \in DOMAIN outs
    BY <1>5 DEF OutsOK
  <2>3. outs[1].name \in AskedFor
    BY <2>2 DEF OutsOK, Shown, WantedOK
  <2>4. \A m, n \in AskedFor : m = n
    <3>1. asked # <<>> /\ DOMAIN asked = {1}
      BY <1>1, <2>1
    <3>q. QED BY <1>1, <3>1, AskedNames DEF NamesIn
  <2>5. ReferenceIgnored
    BY <1>5 DEF ReferenceIgnored
  <2>6. Answer(req.form) = RawOutput(outs[1])
    BY <1>5 DEF Answer
  <2>q. QED BY <2>2, <2>3, <2>4, <2>5, <2>6, RawIsRight
<1>q. QED BY <1>1, <1>2, <1>3, <1>4, <1>5

-----------------------------------------------------------------------------
(* From the request to the answer: the outputs are parsed, wait for the    *)
(* inputs, are completed, and are answered.                                *)

Waiting == {"load", "message", "requeue", "download", "read", "validate"}
Serving == {"run", "respond"}

ReqInv == req.form \in Forms
PcInv  == pc \in {"parse", "end"} \union Waiting \union Serving
AskedInv == pc \in Waiting \union Serving => Chosen(req.form, asked, raw)
WaitingInv == pc \in Waiting => ParsedOK(req.form, asked, outs)
ServingInv == pc \in Serving => OutsOK(outs)
AnswerInv  == /\ pc # "end" => answer = NoAnswer
              /\ RightAnswer(answer)

AnswersInv == ReqInv /\ PcInv /\ AskedInv /\ WaitingInv /\ ServingInv /\ AnswerInv

LEMMA AnswersInit == Init => AnswersInv
<1>1. SUFFICES ASSUME Init PROVE AnswersInv
  OBVIOUS
<1>2. req.form \in Forms /\ pc = "parse"
  BY <1>1 DEF Init, InitInputs, Requests
<1>3. answer = NoAnswer
  BY <1>1 DEF Init, InitOutputs
<1>q. QED BY <1>2, <1>3, RefusalIsRight
          DEF AnswersInv, ReqInv, PcInv, AskedInv, WaitingInv, ServingInv, AnswerInv, Waiting, Serving

(* What the client wants depends on the request only.                      *)
LEMMA OutsFrame ==
  ASSUME UNCHANGED <<req, asked, raw>>, NEW os, OutsOK(os), outs' = os
  PROVE  OutsOK(outs)'
<1>1. \A o : Shown(o)' <=> Shown(o)
  BY DEF Shown
<1>2. AskedFor' = AskedFor
  BY DEF AskedFor
<1>3. \A o : WantedOK(o)' <=> WantedOK(o)
  BY DEF WantedOK, AskedFor, ValueIgnored, Wants, Usual
<1>4. (\A i \in DOMAIN outs : Shown(outs[i]) => WantedOK(outs[i]))'
  <2>1. \A i \in DOMAIN os : Shown(os[i])' => WantedOK(os[i])'
    BY <1>1, <1>3 DEF OutsOK
  <2>q. QED BY <2>1
<1>5. (\A n \in AskedFor : \E i \in DOMAIN outs : outs[i].name = n /\ Shown(outs[i]))'
  <2>1. \A n \in AskedFor : \E i \in DOMAIN os : os[i].name = n /\ Shown(os[i])'
    BY <1>1 DEF OutsOK
  <2>q. QED BY <1>2, <2>1
<1>6. (\A i, j \in DOMAIN outs : outs[i].name = outs[j].name => outs[i].made = outs[j].made)'
  BY DEF OutsOK
<1>q. QED BY <1>4, <1>5, <1>6 DEF OutsOK

(* A step that leaves the outputs alone, and the answer.                   *)
LEMMA Kept ==
  ASSUME AnswersInv, UNCHANGED <<req, asked, raw, outs, answer>>,
         \/ pc' = pc
         \/ pc \in Waiting /\ pc' \in Waiting
  PROVE  AnswersInv'
<1>1. ReqInv' /\ PcInv' /\ AskedInv'
  BY DEF AnswersInv, ReqInv, PcInv, AskedInv, Waiting
<1>2. WaitingInv'
  BY DEF AnswersInv, WaitingInv
<1>3. ServingInv'
  <2>1. pc' \in Serving => pc \in Serving
    BY DEF Waiting, Serving
  <2>2. OutsOK(outs) => OutsOK(outs)'
    BY OutsFrame
  <2>q. QED BY <2>1, <2>2 DEF AnswersInv, ServingInv
<1>4. AnswerInv'
  <2>1. pc' # "end" => pc # "end"
    BY DEF Waiting
  <2>2. RightAnswer(answer) => RightAnswer(answer)'
    BY DEF RightAnswer, AskedFor, ReferenceIgnored, FileIgnored, Made, ValueIgnored, Wants, Usual
  <2>q. QED BY <2>1, <2>2 DEF AnswersInv, AnswerInv
<1>q. QED BY <1>1, <1>2, <1>3, <1>4 DEF AnswersInv

LEMMA InputStepKeeps ==
  ASSUME AnswersInv, InputStep
  PROVE  AnswersInv'
<1>0. UNCHANGED <<asked, raw, outs, answer>>
  BY DEF InputStep, outputVars
<1>1. UNCHANGED req /\ (pc' = pc \/ (pc \in Waiting /\ pc' \in Waiting))
  <2>1. CASE ParseInput
    BY <2>1 DEF ParseInput
  <2>2. CASE ParseJsonInput
    BY <2>2 DEF ParseJsonInput
  <2>3. CASE LoadHttpRequest
    BY <2>3 DEF LoadHttpRequest
  <2>4. CASE HttpRequestsLoaded
    BY <2>4 DEF HttpRequestsLoaded, Goto, Waiting
  <2>5. CASE Publish
    BY <2>5 DEF Publish, Goto, Waiting
  <2>6. CASE RequestAgain
    BY <2>6 DEF RequestAgain
  <2>7. CASE RequestedAgain
    BY <2>7 DEF RequestedAgain, Goto, Waiting
  <2>8. CASE RunHttpRequests
    BY <2>8 DEF RunHttpRequests, Goto, Waiting
  <2>9. CASE ReadOccurrence
    BY <2>9 DEF ReadOccurrence
  <2>10. CASE SkipOccurrence
    BY <2>10 DEF SkipOccurrence
  <2>11. CASE InputsRead
    BY <2>11 DEF InputsRead, Goto, Waiting
  <2>q. QED BY <2>1, <2>2, <2>3, <2>4, <2>5, <2>6, <2>7, <2>8, <2>9, <2>10, <2>11 DEF InputStep
<1>q. QED BY <1>0, <1>1, Kept

LEMMA RefusalKeeps ==
  ASSUME AnswersInv, Refuse, UNCHANGED req
  PROVE  AnswersInv'
<1>1. pc' = "end" /\ answer' = Exception
  BY DEF Refuse, Goto
<1>2. RightAnswer(answer)'
  BY <1>1 DEF RightAnswer, Exception, Reply
<1>q. QED BY <1>1, <1>2
          DEF AnswersInv, ReqInv, PcInv, AskedInv, WaitingInv, ServingInv, AnswerInv, Waiting, Serving

LEMMA ParseOutputsKeeps ==
  ASSUME AnswersInv, ParseOutputs
  PROVE  AnswersInv'
<1>1. PICK c \in Askable(req.form, MaxArguments - Len(req.given)) :
        /\ asked' = c[1] /\ raw' = c[2]
        /\ \/ Duplicated(req.form, c[1]) /\ Refuse
           \/ /\ ~Duplicated(req.form, c[1])
              /\ outs' = Parsed(req.form, c[1])
              /\ Goto(IF req.worker THEN "message" ELSE IF req.form = "json" THEN "load" ELSE "download")
              /\ UNCHANGED answer
  BY DEF ParseOutputs
<1>0. UNCHANGED req /\ pc = "parse"
  BY DEF ParseOutputs
<1>2. CASE Refuse
  BY <1>0, <1>2, RefusalKeeps
<1>3. CASE ~Duplicated(req.form, c[1]) /\ ~Refuse
  <2>1. /\ c[1] \in Seq(Requestable) /\ c[2] \in BOOLEAN
        /\ req.form = "json" => Distinct(c[1])
        /\ req.form # "json" /\ c[2] => Len(c[1]) = 1 /\ c[1][1].by = "any"
    <3>1. PICK s \in BoundedSeq(Requestable, MaxArguments - Len(req.given)), r \in BOOLEAN : c = <<s, r>>
      BY DEF Askable
    <3>2. s \in Seq(Requestable)
      <4>1. PICK m \in 0 .. MaxArguments - Len(req.given) : s \in [1 .. m -> Requestable]
        BY DEF BoundedSeq, SeqOf
      <4>q. QED BY <4>1
    <3>3. c[1] = s /\ c[2] = r
      BY <3>1
    <3>q. QED BY <3>2, <3>3 DEF Askable
  <2>2. req.form = "xml" => Distinct(c[1])
    BY <1>3 DEF Duplicated
  <2>3. Chosen(req.form, c[1], c[2])
    BY <2>1, <2>2 DEF Chosen
  <2>4. ParsedOK(req.form, c[1], Parsed(req.form, c[1]))
    BY <2>3, ParsedForm DEF AnswersInv, ReqInv
  <2>5. /\ asked' = c[1] /\ raw' = c[2] /\ outs' = Parsed(req.form, c[1]) /\ answer' = answer
        /\ pc' \in Waiting
    BY <1>1, <1>3 DEF Goto, Waiting
  <2>6. answer' = NoAnswer
    BY <1>0, <2>5 DEF AnswersInv, AnswerInv
  <2>7. RightAnswer(answer)'
    BY <2>6 DEF RightAnswer, NoAnswer
  <2>8. ReqInv' /\ PcInv' /\ AnswerInv' /\ ServingInv'
    BY <1>0, <2>5, <2>6, <2>7 DEF AnswersInv, ReqInv, PcInv, AnswerInv, ServingInv, Waiting, Serving
  <2>9. AskedInv'
    BY <1>0, <2>3, <2>5 DEF AskedInv
  <2>10. WaitingInv'
    BY <1>0, <2>4, <2>5 DEF WaitingInv
  <2>q. QED BY <2>8, <2>9, <2>10 DEF AnswersInv
<1>q. QED BY <1>1, <1>2, <1>3

LEMMA ValidateKeeps ==
  ASSUME AnswersInv, Validate
  PROVE  AnswersInv'
<1>1. /\ pc = "validate" /\ ~UnknownAsked /\ outs' = WithDefaults /\ pc' = "run"
      /\ UNCHANGED <<req, asked, raw, answer>>
  BY DEF Validate, Invalid, Goto
<1>2. /\ Chosen(req.form, asked, raw) /\ ParsedOK(req.form, asked, outs) /\ req.form \in Forms
      /\ answer = NoAnswer
  BY <1>1 DEF AnswersInv, ReqInv, AskedInv, WaitingInv, AnswerInv, Waiting
<1>3. PICK os : os = WithDefaults /\ OutsOK(os)
  BY <1>2, WithDefaultsOK, <1>1
<1>4. OutsOK(outs)'
  BY <1>1, <1>3, OutsFrame
<1>5. RightAnswer(answer)'
  BY <1>1, <1>2 DEF RightAnswer, NoAnswer
<1>q. QED BY <1>1, <1>2, <1>4, <1>5
          DEF AnswersInv, ReqInv, PcInv, AskedInv, WaitingInv, ServingInv, AnswerInv, Waiting, Serving

LEMMA RunServiceKeeps ==
  ASSUME AnswersInv, RunService
  PROVE  AnswersInv'
<1>0. pc = "run" /\ UNCHANGED <<req, asked, raw>>
  BY DEF RunService
<1>1. CASE Refuse
  BY <1>0, <1>1, RefusalKeeps
<1>2. CASE ~Refuse
  <2>1. PICK kind \in {"value", "stored", "elsewhere"}, lacking \in SUBSET Outputs :
          outs' = Leaves(kind, lacking)
    BY <1>2 DEF RunService
  <2>2. pc' = "respond" /\ answer' = answer
    BY <1>2 DEF RunService, Goto
  <2>3. OutsOK(outs) /\ Chosen(req.form, asked, raw) /\ req.form \in Forms /\ answer = NoAnswer
    BY <1>0 DEF AnswersInv, ReqInv, AskedInv, ServingInv, AnswerInv, Serving
  <2>4. OutsOK(Leaves(kind, lacking))
    BY <2>3, LeavesOK
  <2>5. OutsOK(outs)'
    BY <1>0, <2>1, <2>4, OutsFrame
  <2>6. RightAnswer(answer)'
    BY <2>2, <2>3 DEF RightAnswer, NoAnswer
  <2>q. QED BY <1>0, <2>2, <2>3, <2>5, <2>6
            DEF AnswersInv, ReqInv, PcInv, AskedInv, WaitingInv, ServingInv, AnswerInv, Waiting, Serving
<1>q. QED BY <1>1, <1>2

LEMMA RespondKeeps ==
  ASSUME AnswersInv, Respond
  PROVE  AnswersInv'
<1>1. pc = "respond" /\ pc' = "end" /\ answer' = Answer(req.form) /\ UNCHANGED <<req, asked, raw, outs>>
  BY DEF Respond, Goto
<1>2. OutsOK(outs) /\ Chosen(req.form, asked, raw) /\ req.form \in Forms
  BY <1>1 DEF AnswersInv, ReqInv, AskedInv, ServingInv, Serving
<1>3. RightAnswer(Answer(req.form))
  BY <1>2, AnswerIsRight
<1>4. RightAnswer(answer)'
  BY <1>1, <1>3
     DEF RightAnswer, AskedFor, ReferenceIgnored, FileIgnored, Made, ValueIgnored, Wants, Usual
<1>q. QED BY <1>1, <1>2, <1>4
          DEF AnswersInv, ReqInv, PcInv, AskedInv, WaitingInv, ServingInv, AnswerInv, Waiting, Serving

LEMMA AnswersStep == AnswersInv /\ [Next]_vars => AnswersInv'
<1>1. SUFFICES ASSUME AnswersInv, [Next]_vars PROVE AnswersInv'
  OBVIOUS
<1>2. CASE UNCHANGED vars
  BY <1>1, <1>2, Kept DEF vars, inputVars, outputVars
<1>3. CASE InputStep
  BY <1>1, <1>3, InputStepKeeps
<1>4. CASE ParseOutputs
  BY <1>1, <1>4, ParseOutputsKeeps
<1>5. CASE RefuseOccurrences
  BY <1>1, <1>5, RefusalKeeps DEF RefuseOccurrences
<1>6. CASE RefuseInvalid
  BY <1>1, <1>6, RefusalKeeps DEF RefuseInvalid
<1>7. CASE Validate
  BY <1>1, <1>7, ValidateKeeps
<1>8. CASE RunService
  BY <1>1, <1>8, RunServiceKeeps
<1>9. CASE Respond
  BY <1>1, <1>9, RespondKeeps
<1>q. QED BY <1>1, <1>2, <1>3, <1>4, <1>5, <1>6, <1>7, <1>8, <1>9 DEF Next

(* Whatever a request gives and asks for, in any of the four forms, and    *)
(* whatever the service leaves of it, the client gets the outputs it asked *)
(* for and no other, by value or by reference as it asked or as the zcfg   *)
(* file has it, with what the service made (outputResponse, printJResult,  *)
(* printRawdataOutputs).                                                   *)
THEOREM OutputsAsAsked == Spec => []AnsweredAsAsked
<1>1. AnswersInv => AnsweredAsAsked
  BY DEF AnswersInv, AnswerInv, RightAnswer, AnsweredAsAsked
<1>q. QED BY <1>1, AnswersInit, AnswersStep, PTL DEF Spec

-----------------------------------------------------------------------------
(* The positions of a request.                                             *)

Count     == Len(req.given)
NameAt(p) == Given(p).name

RequestInv ==
  /\ req.form \in Forms /\ req.worker \in BOOLEAN /\ req.zcfg \in Descriptions
  /\ req.given \in Seq(Items(req.form)) /\ Count \in 0 .. MaxArguments
  /\ req.form = "json" => ~Scattered

LEMMA RequestInit == Init => RequestInv
<1>1. SUFFICES ASSUME Init PROVE RequestInv
  OBVIOUS
<1>2. PICK form \in Forms :
        req \in [form : {form}, given : {g \in BoundedSeq(Items(form), MaxArguments) :
                                           form = "json" => Contiguous(g)},
                 zcfg : Descriptions, worker : BOOLEAN]
  BY <1>1 DEF Init, InitInputs, Requests
<1>3. /\ req.form = form /\ req.worker \in BOOLEAN /\ req.zcfg \in Descriptions
      /\ req.given \in BoundedSeq(Items(form), MaxArguments)
      /\ form = "json" => Contiguous(req.given)
  BY <1>2
<1>4. PICK m \in 0 .. MaxArguments : req.given \in [1 .. m -> Items(form)]
  BY <1>3 DEF BoundedSeq, SeqOf
<1>5. req.given \in Seq(Items(form)) /\ Len(req.given) = m
  BY <1>4
<1>q. QED BY <1>3, <1>5 DEF RequestInv, Count, Scattered

LEMMA ItemFacts ==
  ASSUME RequestInv
  PROVE  /\ Count \in Nat /\ Count <= MaxArguments /\ MaxArguments \in Nat
         /\ Positioned = 1 .. Count
         /\ \A p \in 1 .. Count :
              /\ NameAt(p) \in Names /\ Given(p).by \in Ways(req.form)
              /\ Given(p).by \in Inline => Given(p).url = "ok"
              /\ Given(p).url = "guarded" => Given(p).by = "ref"
              /\ Given(p).by = "fetched" => Given(p).url \in {"ok", "bodiless"}
              /\ Given(p).url = "bodiless" => Given(p).by = "fetched"
              /\ Given(p).by = "post" => Given(p).url # "cached"
<1>1. Count \in Nat /\ Count <= MaxArguments /\ MaxArguments \in Nat /\ Positioned = 1 .. Count
  BY InputsAssumption DEF RequestInv, Count, Positioned
<1>2. ASSUME NEW p \in 1 .. Count PROVE Given(p) \in Items(req.form)
  BY <1>2 DEF RequestInv, Count, Given
<1>3. ASSUME NEW item \in Items(req.form)
      PROVE  /\ item.name \in Names /\ item.by \in Ways(req.form)
             /\ item.by \in Inline => item.url = "ok"
             /\ item.url = "guarded" => item.by = "ref"
             /\ item.by = "fetched" => item.url \in {"ok", "bodiless"}
             /\ item.url = "bodiless" => item.by = "fetched"
             /\ item.by = "post" => item.url # "cached"
  BY <1>3 DEF Items
<1>q. QED BY <1>1, <1>2, <1>3 DEF NameAt

(* The first item of a name.                                               *)
First(n) == CHOOSE p \in Positioned : /\ NameAt(p) = n
                                      /\ \A q \in Positioned : NameAt(q) = n => p <= q

LEMMA FirstOf ==
  ASSUME RequestInv, NEW p \in 1 .. Count
  PROVE  /\ First(NameAt(p)) \in 1 .. Count
         /\ NameAt(First(NameAt(p))) = NameAt(p)
         /\ \A q \in 1 .. Count : NameAt(q) = NameAt(p) => First(NameAt(p)) <= q
<1>. DEFINE same == {q \in 1 .. Count : NameAt(q) = NameAt(p)}
<1>1. Count \in Nat /\ Positioned = 1 .. Count
  BY ItemFacts
<1>2. same \in SUBSET (1 .. Count) /\ p \in same
  OBVIOUS
<1>3. \E x \in same : \A y \in same : x <= y
  <2>. HIDE DEF same
  <2>q. QED BY <1>1, <1>2, Smallest
<1>4. \E x \in Positioned : NameAt(x) = NameAt(p) /\ \A q \in Positioned : NameAt(q) = NameAt(p) => x <= q
  BY <1>1, <1>3
<1>q. QED BY <1>1, <1>4 DEF First

(* In a request that is not scattered, what is between two items of a name *)
(* has this name.                                                          *)
LEMMA Together ==
  ASSUME RequestInv, ~Scattered, NEW i \in 1 .. Count, NEW j \in Nat, NEW k \in 1 .. Count,
         NameAt(i) = NameAt(k), i <= j, j <= k
  PROVE  NameAt(j) = NameAt(i)
<1>1. DOMAIN req.given = 1 .. Count /\ Count \in Nat
  BY ItemFacts DEF Positioned
<1>2. j \in 1 .. Count
  BY <1>1
<1>3. CASE i < j /\ j < k
  BY <1>1, <1>2, <1>3 DEF Scattered, Contiguous, NameAt, Given
<1>4. CASE j = i \/ j = k
  BY <1>4
<1>q. QED BY <1>1, <1>3, <1>4

LEMMA Earlier ==
  ASSUME RequestInv, NEW p \in 1 .. Count, NEW q \in 1 .. p - 1, NameAt(q) = NameAt(p)
  PROVE  IndexIn(p) > 0
<1>. DEFINE S == {r \in 1 .. p - 1 : Given(r).name = Given(p).name}
<1>1. p - 1 \in Nat /\ S \in SUBSET (1 .. p - 1) /\ q \in S
  BY DEF NameAt
<1>2. Cardinality(S) \in Nat /\ Cardinality(S) >= 1
  <2>. HIDE DEF S
  <2>q. QED BY <1>1, FiniteNumbers
<1>q. QED BY <1>2 DEF IndexIn

-----------------------------------------------------------------------------
(* The queue of a request that does not go astray has the inputs that are  *)
(* to be downloaded, in their order: Rank is their place in it.            *)

Queued(p) == Fetched(p) /\ (req.worker \/ Given(p).url # "cached")
Rank(p)   == Cardinality({q \in 1 .. p : Queued(q)})
BodyOf(p) == IF Given(p).by \in Posting THEN p ELSE 0

LEMMA RankType ==
  ASSUME NEW p \in Nat
  PROVE  Rank(p) \in Nat
BY FiniteNumbers DEF Rank

LEMMA RankZero == Rank(0) = 0
<1>1. {q \in 1 .. 0 : Queued(q)} = {}
  OBVIOUS
<1>q. QED BY <1>1, FS_EmptySet DEF Rank

LEMMA RankGap ==
  ASSUME NEW a \in Nat, NEW b \in Nat, a <= b, \A q \in a + 1 .. b : ~Queued(q)
  PROVE  Rank(b) = Rank(a)
<1>1. {q \in 1 .. b : Queued(q)} = {q \in 1 .. a : Queued(q)}
  OBVIOUS
<1>q. QED BY <1>1 DEF Rank

LEMMA RankNext ==
  ASSUME NEW a \in Nat, Queued(a + 1)
  PROVE  Rank(a + 1) = Rank(a) + 1
<1>. DEFINE S == {q \in 1 .. a : Queued(q)}
<1>1. S \in SUBSET (1 .. a) /\ ~(a + 1 \in S)
  OBVIOUS
<1>2. {q \in 1 .. a + 1 : Queued(q)} = S \union {a + 1}
  OBVIOUS
<1>3. IsFiniteSet(S) /\ Cardinality(S) \in Nat
  <2>. HIDE DEF S
  <2>q. QED BY <1>1, FiniteNumbers
<1>4. Cardinality(S \union {a + 1}) = Cardinality(S) + 1
  <2>. HIDE DEF S
  <2>q. QED BY <1>1, <1>3, FS_AddElement
<1>q. QED BY <1>2, <1>4 DEF Rank

(* Handles in the order of the items up to m.                              *)
QueueOK(queue, m) ==
  /\ Len(queue) = Rank(m)
  /\ \A p \in 1 .. m : Queued(p) => Rank(p) \in DOMAIN queue /\ queue[Rank(p)].url = p
  /\ \A i \in DOMAIN queue :
       LET p == queue[i].url IN
       /\ p \in 1 .. m /\ Queued(p) /\ Rank(p) = i
       /\ queue[i].body = BodyOf(p) /\ queue[i].header = <<>>

Content    == {"none", "default", "own", "file", "error", "other"} \X Nat
HandleType == [url : Nat, body : Nat, header : Seq(STRING), answer : Content]

LEMMA QueueEmpty == QueueOK(<<>>, 0)
BY RankZero DEF QueueOK

LEMMA QueueGap ==
  ASSUME NEW a \in Nat, NEW b \in Nat, a <= b, \A q \in a + 1 .. b : ~Queued(q),
         NEW queue \in Seq(HandleType), QueueOK(queue, a)
  PROVE  QueueOK(queue, b)
<1>1. Rank(b) = Rank(a)
  BY RankGap
<1>2. \A p \in 1 .. b : Queued(p) => p \in 1 .. a
  OBVIOUS
<1>q. QED BY <1>1, <1>2 DEF QueueOK

LEMMA QueueNext ==
  ASSUME NEW a \in Nat, Queued(a + 1), NEW queue \in Seq(HandleType), QueueOK(queue, a)
  PROVE  /\ InternetOpenUrl(queue, a + 1, BodyOf(a + 1)) \in Seq(HandleType)
         /\ QueueOK(InternetOpenUrl(queue, a + 1, BodyOf(a + 1)), a + 1)
<1>. DEFINE h == [url |-> a + 1, body |-> BodyOf(a + 1), header |-> <<>>, answer |-> None]
            q2 == InternetOpenUrl(queue, a + 1, BodyOf(a + 1))
<1>1. h \in HandleType
  BY DEF HandleType, BodyOf, None, Content
<1>2. /\ q2 = Append(queue, h) /\ Len(queue) \in Nat
      /\ q2 \in Seq(HandleType) /\ Len(q2) = Len(queue) + 1
      /\ DOMAIN q2 = 1 .. Len(queue) + 1 /\ DOMAIN queue = 1 .. Len(queue)
      /\ \A i \in 1 .. Len(queue) : q2[i] = queue[i]
      /\ q2[Len(queue) + 1] = h
  <2>1. q2 = Append(queue, h)
    BY DEF InternetOpenUrl
  <2>. HIDE DEF h, q2
  <2>q. QED BY <1>1, <2>1
<1>3. Rank(a + 1) = Rank(a) + 1 /\ Len(queue) = Rank(a)
  BY RankNext DEF QueueOK
<1>4. \A p \in 1 .. a + 1 : Queued(p) => Rank(p) \in DOMAIN q2 /\ q2[Rank(p)].url = p
  <2>1. ASSUME NEW p \in 1 .. a, Queued(p) PROVE Rank(p) \in DOMAIN q2 /\ q2[Rank(p)].url = p
    <3>. HIDE DEF q2
    <3>q. QED BY <1>2, <2>1 DEF QueueOK
  <2>2. Rank(a + 1) \in DOMAIN q2 /\ q2[Rank(a + 1)].url = a + 1
    <3>. HIDE DEF q2
    <3>q. QED BY <1>2, <1>3
  <2>. HIDE DEF q2
  <2>q. QED BY <2>1, <2>2
<1>5. ASSUME NEW i \in DOMAIN q2
      PROVE  LET p == q2[i].url IN
             /\ p \in 1 .. a + 1 /\ Queued(p) /\ Rank(p) = i
             /\ q2[i].body = BodyOf(p) /\ q2[i].header = <<>>
  <2>1. CASE i \in 1 .. Len(queue)
    <3>. HIDE DEF q2
    <3>q. QED BY <1>2, <2>1 DEF QueueOK
  <2>2. CASE i = Len(queue) + 1
    <3>1. q2[i].url = a + 1 /\ q2[i].body = BodyOf(a + 1) /\ q2[i].header = <<>>
      BY <1>2, <2>2
    <3>. HIDE DEF q2
    <3>q. QED BY <1>3, <2>2, <3>1
  <2>. HIDE DEF q2
  <2>q. QED BY <1>2, <1>5, <2>1, <2>2
<1>. HIDE DEF q2
<1>6. QueueOK(q2, a + 1)
  BY <1>2, <1>3, <1>4, <1>5 DEF QueueOK
<1>q. QED BY <1>2, <1>6 DEF q2

-----------------------------------------------------------------------------
(* Types.                                                                  *)

OccurrenceType ==
  [value : Content, order : Nat, Reference : Nat, xlink : Nat, href : Nat, body : Nat,
   isCached : BOOLEAN, size : BOOLEAN]
InputType == [name : Names, length : Nat, occ : [0 .. MaxArguments - 1 -> OccurrenceType]]
NetType   == [requests : Seq(Nat), queue : Seq(HandleType), read : Nat, array : Nat,
              failed : BOOLEAN]

TypeInv == /\ ins \in Seq(InputType) /\ net \in NetType
           /\ at \in Nat \ {0} /\ idx \in Nat

(* The occurrence an item is parsed to, for the first item of its name and *)
(* for the next.                                                           *)
Item(p)      == IF req.form = "json" THEN JsonOccurrence(p) ELSE Occurrence(p)
ItemAgain(p) == IF req.form = "json" THEN JsonOccurrence(p) ELSE Copied(Occurrence(p))

LEMMA EmptyType == NoOccurrence \in OccurrenceType
BY DEF NoOccurrence, OccurrenceType, None, Content

LEMMA LoadType ==
  ASSUME NEW o \in OccurrenceType, NEW p \in Nat
  PROVE  Load(o, p) \in OccurrenceType
BY DEF Load, OccurrenceType, Content

LEMMA QueueType ==
  ASSUME NEW queue \in Seq(HandleType), NEW p \in Nat, NEW body \in Nat
  PROVE  /\ InternetOpenUrl(queue, p, body) \in Seq(HandleType)
         /\ LoadQueue(queue, p, body) \in Seq(HandleType)
<1>1. ASSUME NEW b \in Nat PROVE InternetOpenUrl(queue, p, b) \in Seq(HandleType)
  <2>1. [url |-> p, body |-> b, header |-> <<>>, answer |-> None] \in HandleType
    BY DEF HandleType, None, Content
  <2>q. QED BY <2>1 DEF InternetOpenUrl
<1>q. QED BY <1>1 DEF LoadQueue, AddRequestToQueue

LEMMA QueueAfterType ==
  ASSUME TypeInv, NEW p \in Nat
  PROVE  QueueAfter(p) \in Seq(HandleType) /\ Len(QueueAfter(p)) \in Nat
<1>1. net.queue \in Seq(HandleType)
  BY DEF TypeInv, NetType
<1>2. HrefQueued(p) \in Seq(HandleType)
  BY <1>1, QueueType DEF HrefQueued
<1>3. QueueAfter(p) \in Seq(HandleType)
  BY <1>2, QueueType DEF QueueAfter, Body
<1>q. QED BY <1>3

LEMMA ItemTypes ==
  ASSUME RequestInv, TypeInv, NEW p \in 1 .. Count
  PROVE  Item(p) \in OccurrenceType /\ ItemAgain(p) \in OccurrenceType
<1>0. p \in Nat /\ Len(QueueAfter(p)) \in Nat /\ Given(p).by \in Ways(req.form) /\ req.form \in Forms
  <2>1. p \in Nat /\ Given(p).by \in Ways(req.form)
    BY ItemFacts
  <2>q. QED BY <2>1, QueueAfterType DEF RequestInv
<1>1. KvpValue(p) \in OccurrenceType /\ XmlData(p) \in OccurrenceType
  BY <1>0, EmptyType DEF KvpValue, XmlData, OccurrenceType, WrittenOut, Content
<1>2. KvpReference(p) \in OccurrenceType
  BY <1>0, EmptyType, LoadType DEF KvpReference, OccurrenceType
<1>3. XmlReference(p) \in OccurrenceType
  BY <1>0, EmptyType, LoadType DEF XmlReference, OccurrenceType, Body
<1>4. JsonOccurrence(p) \in OccurrenceType
  BY <1>0, EmptyType DEF JsonOccurrence, ParseNestedProcess, ParseJComplex, OccurrenceType, Content
<1>5. req.form # "json" => Occurrence(p) \in OccurrenceType
  BY <1>0, <1>1, <1>2, <1>3 DEF Occurrence, Forms, XmlForms, Ways, Inline
<1>6. \A o \in OccurrenceType : Copied(o) \in OccurrenceType
  BY DEF Copied, OccurrenceType
<1>q. QED BY <1>4, <1>5, <1>6 DEF Item, ItemAgain

LEMMA OccurrencesType ==
  ASSUME TypeInv
  PROVE  \A k \in DOMAIN ins : /\ Occurrences(k) \in Nat \ {0} /\ ins[k] \in InputType
                               /\ ins[k].length = 0 => Occurrences(k) = 1
                               /\ ins[k].length # 0 => Occurrences(k) = ins[k].length
<1>1. ASSUME NEW k \in DOMAIN ins PROVE ins[k] \in InputType
  BY DEF TypeInv
<1>2. \A x \in InputType : x.length \in Nat
  BY DEF InputType
<1>q. QED BY <1>1, <1>2 DEF Occurrences

LEMMA IndexOfPresent ==
  ASSUME NEW n, Present(n)
  PROVE  IndexOf(n) \in DOMAIN ins /\ ins[IndexOf(n)].name = n
BY DEF Present, IndexOf

LEMMA Appended ==
  ASSUME TypeInv, NEW n \in Names, NEW o \in OccurrenceType, NEW js,
         js = Append(ins, NewInput(n, o))
  PROVE  /\ js \in Seq(InputType) /\ Len(js) = Len(ins) + 1 /\ Len(ins) \in Nat
         /\ DOMAIN ins = 1 .. Len(ins) /\ DOMAIN js = 1 .. Len(ins) + 1
         /\ \A j \in DOMAIN ins : js[j] = ins[j]
         /\ js[Len(ins) + 1].name = n /\ js[Len(ins) + 1].length = 0
         /\ js[Len(ins) + 1].occ[0] = o
<1>. DEFINE x == NewInput(n, o)
<1>1. MaxArguments - 1 \in Nat
  BY InputsAssumption
<1>2. x \in InputType /\ x.name = n /\ x.length = 0 /\ x.occ[0] = o
  BY <1>1, EmptyType DEF NewInput, InputType
<1>3. ins \in Seq(InputType) /\ js = Append(ins, x)
  BY DEF TypeInv
<1>. HIDE DEF x
<1>q. QED BY <1>2, <1>3

LEMMA Extended ==
  ASSUME TypeInv, NEW k \in DOMAIN ins, NEW o \in OccurrenceType, NEW js,
         js = AddOccurrence(k, o)
  PROVE  /\ js \in Seq(InputType) /\ Len(js) = Len(ins) /\ DOMAIN js = DOMAIN ins
         /\ js[k].name = ins[k].name /\ js[k].length = Occurrences(k) + 1
         /\ js[k].occ = [ins[k].occ EXCEPT ![Occurrences(k)] = o]
<1>1. ins \in Seq(InputType) /\ ins[k] \in InputType /\ Occurrences(k) + 1 \in Nat
  BY OccurrencesType DEF TypeInv
<1>. DEFINE x == [ins[k] EXCEPT !.length = Occurrences(k) + 1, !.occ[Occurrences(k)] = o]
<1>2. /\ x \in InputType /\ x.name = ins[k].name /\ x.length = Occurrences(k) + 1
      /\ x.occ = [ins[k].occ EXCEPT ![Occurrences(k)] = o]
  BY <1>1 DEF InputType
<1>3. js = [ins EXCEPT ![k] = x]
  BY <1>1 DEF AddOccurrence, InputType
<1>. HIDE DEF x
<1>q. QED BY <1>1, <1>2, <1>3

LEMMA ExtendedOnly ==
  ASSUME TypeInv, NEW k \in DOMAIN ins, NEW o \in OccurrenceType, NEW js,
         js = AddOccurrence(k, o)
  PROVE  \A j \in DOMAIN ins : j # k => js[j] = ins[j]
BY DEF AddOccurrence, TypeInv

-----------------------------------------------------------------------------
(* The inputs are those of the items that are parsed, Done is how many.    *)

Done == IF pc = "parse" THEN at - 1 ELSE Count

NamesOK ==
  /\ \A i, j \in DOMAIN ins : ins[i].name = ins[j].name => i = j
  /\ \A p \in 1 .. Done : Present(NameAt(p))
  /\ \A k \in DOMAIN ins : /\ \E p \in 1 .. Done : NameAt(p) = ins[k].name
                           /\ Occurrences(k) <= Done

ItemsUpTo(n, m) == {p \in 1 .. m : NameAt(p) = n}

CountsOK ==
  req.form # "json" =>
    \A k \in DOMAIN ins : Known(ins[k].name) =>
      /\ Occurrences(k) = Cardinality(ItemsUpTo(ins[k].name, Done))
      /\ Occurrences(k) <= req.zcfg[ins[k].name].max

(* When none is scattered or dropped they are in the order of their items. *)
Start(k) == First(ins[k].name)
End(k)   == Start(k) + Occurrences(k)

Blocks ==
  /\ ins # <<>> => Start(1) = 1 /\ End(Len(ins)) = Done + 1
  /\ \A k \in 1 .. Len(ins) - 1 : Start(k + 1) = End(k)
  /\ \A k \in DOMAIN ins : \A p \in 1 .. Done :
       NameAt(p) = ins[k].name <=> Start(k) <= p /\ p < End(k)
  /\ \A k \in DOMAIN ins : End(k) <= Done + 1
BlocksOK == ~Scattered /\ ~Dropped => Blocks

InsOK == NamesOK /\ CountsOK /\ BlocksOK

(* What depends on the request alone.                                      *)
LEMMA RequestFrame ==
  ASSUME UNCHANGED req
  PROVE  /\ Count' = Count
         /\ RequestInv' <=> RequestInv
         /\ \A p : Given(p)' = Given(p) /\ NameAt(p)' = NameAt(p)
         /\ \A n : First(n)' = First(n) /\ (Known(n)' <=> Known(n))
         /\ Scattered' <=> Scattered
         /\ Dropped' <=> Dropped
<1>1. /\ Count' = Count
      /\ \A p : Given(p)' = Given(p) /\ NameAt(p)' = NameAt(p)
      /\ \A n : Known(n)' <=> Known(n)
  BY DEF Count, NameAt, Given, Known
<1>2. Scattered' <=> Scattered
  BY DEF Scattered
<1>3. RequestInv' <=> RequestInv
  BY <1>1, <1>2 DEF RequestInv
<1>4. Dropped' <=> Dropped
  BY DEF Dropped, Positioned, Known, Given, Alone
<1>5. \A n : First(n)' = First(n)
  BY DEF First, NameAt, Given, Positioned
<1>q. QED BY <1>1, <1>2, <1>3, <1>4, <1>5

(* A step that keeps the names and the numbers of occurrences.             *)
LEMMA InsFrame ==
  ASSUME UNCHANGED req, DOMAIN ins' = DOMAIN ins, Len(ins') = Len(ins), Done' = Done,
         TypeInv, TypeInv', InsOK,
         \A k \in DOMAIN ins : ins'[k].name = ins[k].name /\ ins'[k].length = ins[k].length
  PROVE  InsOK'
<1>1. \A k \in DOMAIN ins : Occurrences(k)' = Occurrences(k)
  BY DEF Occurrences
<1>2. \A k \in DOMAIN ins : Start(k)' = Start(k)
  BY RequestFrame DEF Start
<1>3. \A k \in DOMAIN ins : End(k)' = End(k)
  BY <1>1, <1>2 DEF End
<1>4. \A n : Present(n)' <=> Present(n)
  BY DEF Present
<1>5. NamesOK'
  <2>1. (\A i, j \in DOMAIN ins : ins[i].name = ins[j].name => i = j)'
    BY DEF InsOK, NamesOK
  <2>2. (\A p \in 1 .. Done : Present(NameAt(p)))'
    BY <1>4, RequestFrame DEF InsOK, NamesOK
  <2>3. (\A k \in DOMAIN ins : /\ \E p \in 1 .. Done : NameAt(p) = ins[k].name
                               /\ Occurrences(k) <= Done)'
    BY <1>1, RequestFrame DEF InsOK, NamesOK
  <2>q. QED BY <2>1, <2>2, <2>3 DEF NamesOK
<1>6. CountsOK'
  <2>1. \A n, m : ItemsUpTo(n, m)' = ItemsUpTo(n, m)
    BY RequestFrame DEF ItemsUpTo
  <2>2. ASSUME req.form # "json", NEW k \in DOMAIN ins, Known(ins[k].name)
        PROVE  (/\ Occurrences(k) = Cardinality(ItemsUpTo(ins[k].name, Done))
                /\ Occurrences(k) <= req.zcfg[ins[k].name].max)'
    <3>1. ItemsUpTo(ins[k].name, Done)' = ItemsUpTo(ins[k].name, Done)
      BY RequestFrame DEF ItemsUpTo
    <3>2. /\ Occurrences(k) = Cardinality(ItemsUpTo(ins[k].name, Done))
          /\ Occurrences(k) <= req.zcfg[ins[k].name].max
      BY <2>2 DEF InsOK, CountsOK
    <3>q. QED BY <1>1, <3>1, <3>2
  <2>q. QED BY <2>2, RequestFrame DEF CountsOK
<1>7. BlocksOK'
  <2>1. SUFFICES ASSUME Blocks PROVE Blocks'
    BY RequestFrame DEF InsOK, BlocksOK
  <2>2. (ins # <<>> => Start(1) = 1 /\ End(Len(ins)) = Done + 1)'
    <3>1. ASSUME ins' # <<>> PROVE Start(1)' = 1 /\ (End(Len(ins)))' = Done' + 1
      <4>1. Len(ins) \in Nat \ {0} /\ 1 \in DOMAIN ins /\ Len(ins) \in DOMAIN ins /\ ins # <<>>
        BY <3>1 DEF TypeInv
      <4>2. PICK m : m = Len(ins)
        OBVIOUS
      <4>3. (End(Len(ins)))' = End(m)'
        BY <4>2 DEF End, Start, Occurrences
      <4>4. End(m)' = Done + 1 /\ Start(1)' = 1
        BY <1>2, <1>3, <2>1, <4>1, <4>2 DEF Blocks
      <4>q. QED BY <4>3, <4>4
    <3>q. QED BY <3>1
  <2>3. (\A k \in 1 .. Len(ins) - 1 : Start(k + 1) = End(k))'
    <3>1. ASSUME NEW k \in 1 .. Len(ins) - 1 PROVE Start(k + 1)' = End(k)'
      <4>1. k \in DOMAIN ins /\ k + 1 \in DOMAIN ins
        BY DEF TypeInv
      <4>2. Start(k + 1) = End(k)
        BY <2>1 DEF Blocks
      <4>q. QED BY <1>2, <1>3, <4>1, <4>2
    <3>2. Len(ins') = Len(ins)
      OBVIOUS
    <3>q. QED BY <3>1, <3>2
  <2>4. (\A k \in DOMAIN ins : \A p \in 1 .. Done :
           NameAt(p) = ins[k].name <=> Start(k) <= p /\ p < End(k))'
    BY <2>1, <1>2, <1>3, RequestFrame DEF Blocks
  <2>5. (\A k \in DOMAIN ins : End(k) <= Done + 1)'
    BY <1>3, <2>1 DEF Blocks
  <2>q. QED BY <2>2, <2>3, <2>4, <2>5 DEF Blocks
<1>q. QED BY <1>5, <1>6, <1>7 DEF InsOK

-----------------------------------------------------------------------------
(* An item is parsed: it is the first of its name, one more, or dropped.   *)

NewName(o) == /\ ~Present(NameAt(at))
              /\ ins' = Append(ins, NewInput(NameAt(at), o)) /\ o = Item(at)
KnownName(o) == /\ Present(NameAt(at))
                /\ req.form # "json" => Known(NameAt(at)) /\ AppendFits(NameAt(at))
                /\ ins' = AddOccurrence(IndexOf(NameAt(at)), o) /\ o = ItemAgain(at)
DroppedName == /\ Present(NameAt(at)) /\ ~Known(NameAt(at)) /\ req.form # "json"
               /\ UNCHANGED ins

LEMMA ParseShape ==
  ASSUME RequestInv, TypeInv, ParseInput \/ ParseJsonInput
  PROVE  /\ pc = "parse" /\ at \in 1 .. Count /\ at' = at + 1 /\ UNCHANGED <<req, pc, idx>>
         /\ \/ \E o \in OccurrenceType : NewName(o)
            \/ \E o \in OccurrenceType : KnownName(o)
            \/ DroppedName
<1>0. at \in 1 .. Count
  BY ItemFacts DEF ParseInput, ParseJsonInput, TypeInv, Count
<1>1. Item(at) \in OccurrenceType /\ ItemAgain(at) \in OccurrenceType
  BY <1>0, ItemTypes
<1>2. CASE ParseInput
  <2>1. Item(at) = Occurrence(at) /\ ItemAgain(at) = Copied(Occurrence(at)) /\ req.form # "json"
    BY <1>2 DEF ParseInput, Item, ItemAgain
  <2>2. /\ Present(NameAt(at)) /\ Known(NameAt(at)) => AppendFits(NameAt(at))
        /\ AddInput(NameAt(at), Occurrence(at))
    BY <1>2 DEF ParseInput, NameAt
  <2>3. CASE ~Present(NameAt(at))
    <3>1. ins' = Append(ins, NewInput(NameAt(at), Item(at)))
      BY <2>1, <2>2, <2>3 DEF AddInput
    <3>2. NewName(Item(at))
      BY <2>3, <3>1 DEF NewName
    <3>q. QED BY <1>0, <1>1, <1>2, <3>2 DEF ParseInput
  <2>4. CASE Present(NameAt(at)) /\ Known(NameAt(at))
    <3>1. ins' = AddOccurrence(IndexOf(NameAt(at)), ItemAgain(at))
      BY <2>1, <2>2, <2>4 DEF AddInput
    <3>2. KnownName(ItemAgain(at))
      BY <2>2, <2>4, <3>1 DEF KnownName
    <3>q. QED BY <1>0, <1>1, <1>2, <3>2 DEF ParseInput
  <2>5. CASE Present(NameAt(at)) /\ ~Known(NameAt(at))
    <3>1. ins' = ins
      BY <2>2, <2>5 DEF AddInput
    <3>q. QED BY <1>0, <1>2, <2>1, <2>5, <3>1 DEF ParseInput, DroppedName
  <2>q. QED BY <2>3, <2>4, <2>5
<1>3. CASE ParseJsonInput
  <2>1. Item(at) = JsonOccurrence(at) /\ ItemAgain(at) = JsonOccurrence(at) /\ req.form = "json"
    BY <1>3 DEF ParseJsonInput, Item, ItemAgain
  <2>2. ins' = IF Present(NameAt(at)) THEN AddOccurrence(IndexOf(NameAt(at)), JsonOccurrence(at))
                                       ELSE Append(ins, NewInput(NameAt(at), JsonOccurrence(at)))
    BY <1>3 DEF ParseJsonInput, NameAt
  <2>3. CASE Present(NameAt(at))
    <3>1. KnownName(ItemAgain(at))
      BY <2>1, <2>2, <2>3 DEF KnownName
    <3>q. QED BY <1>0, <1>1, <1>3, <3>1 DEF ParseJsonInput
  <2>4. CASE ~Present(NameAt(at))
    <3>1. NewName(Item(at))
      BY <2>1, <2>2, <2>4 DEF NewName
    <3>q. QED BY <1>0, <1>1, <1>3, <3>1 DEF ParseJsonInput
  <2>q. QED BY <2>3, <2>4
<1>q. QED BY <1>2, <1>3

LEMMA ItemsUpToNext ==
  ASSUME NEW m \in Nat, NEW n
  PROVE  /\ Cardinality(ItemsUpTo(n, m)) \in Nat
         /\ NameAt(m + 1) # n => ItemsUpTo(n, m + 1) = ItemsUpTo(n, m)
         /\ NameAt(m + 1) = n => Cardinality(ItemsUpTo(n, m + 1)) = Cardinality(ItemsUpTo(n, m)) + 1
         /\ (\A p \in 1 .. m : NameAt(p) # n) => Cardinality(ItemsUpTo(n, m)) = 0
<1>. DEFINE S == ItemsUpTo(n, m)
<1>1. S \in SUBSET (1 .. m) /\ ~(m + 1 \in S)
  BY DEF ItemsUpTo
<1>2. IsFiniteSet(S) /\ Cardinality(S) \in Nat
  <2>. HIDE DEF S
  <2>q. QED BY <1>1, FiniteNumbers
<1>3. NameAt(m + 1) # n => ItemsUpTo(n, m + 1) = ItemsUpTo(n, m)
  BY DEF ItemsUpTo
<1>4. ASSUME NameAt(m + 1) = n
      PROVE  Cardinality(ItemsUpTo(n, m + 1)) = Cardinality(S) + 1
  <2>1. ItemsUpTo(n, m + 1) = S \union {m + 1}
    BY <1>4 DEF ItemsUpTo
  <2>. HIDE DEF S
  <2>q. QED BY <1>1, <1>2, <2>1, FS_AddElement
<1>5. ASSUME \A p \in 1 .. m : NameAt(p) # n PROVE Cardinality(S) = 0
  <2>1. S = {}
    BY <1>5 DEF ItemsUpTo
  <2>q. QED BY <2>1, FS_EmptySet
<1>q. QED BY <1>2, <1>3, <1>4, <1>5

LEMMA DroppedKeeps ==
  ASSUME RequestInv, TypeInv, InsOK, UNCHANGED req, pc = "parse", UNCHANGED pc,
         at \in 1 .. Count, at' = at + 1, DroppedName
  PROVE  InsOK' /\ Dropped
<1>0. Done = at - 1 /\ Done' = at /\ Count \in Nat /\ DOMAIN ins' = DOMAIN ins
  BY ItemFacts DEF Done, DroppedName
<1>1. PICK q \in 1 .. at - 1 : NameAt(q) = NameAt(at)
  BY <1>0 DEF InsOK, NamesOK, DroppedName, Present
<1>2. Dropped
  <2>1. q \in Positioned /\ at \in Positioned /\ q # at
    BY ItemFacts
  <2>q. QED BY <1>1, <2>1 DEF Dropped, DroppedName, NameAt, Alone, Positioned
<1>3. \A k \in DOMAIN ins : Occurrences(k)' = Occurrences(k) /\ Occurrences(k) \in Nat
  BY OccurrencesType DEF Occurrences, DroppedName
<1>4. \A n : Present(n)' <=> Present(n)
  BY DEF Present, DroppedName
<1>5. NamesOK'
  <2>1. (\A i, j \in DOMAIN ins : ins[i].name = ins[j].name => i = j)'
    BY DEF InsOK, NamesOK, DroppedName
  <2>2. (\A p \in 1 .. Done : Present(NameAt(p)))'
    BY <1>0, <1>4, RequestFrame DEF InsOK, NamesOK, DroppedName
  <2>3. (\A k \in DOMAIN ins : /\ \E p \in 1 .. Done : NameAt(p) = ins[k].name
                               /\ Occurrences(k) <= Done)'
    BY <1>0, <1>3, RequestFrame DEF InsOK, NamesOK, DroppedName
  <2>q. QED BY <2>1, <2>2, <2>3 DEF NamesOK
<1>6. CountsOK'
  <2>1. ASSUME NEW k \in DOMAIN ins, Known(ins[k].name)
        PROVE  /\ Occurrences(k) = Cardinality(ItemsUpTo(ins[k].name, at))
               /\ Occurrences(k) <= req.zcfg[ins[k].name].max
    <3>1. NameAt(at - 1 + 1) # ins[k].name
      BY <2>1 DEF DroppedName
    <3>2. ItemsUpTo(ins[k].name, at - 1 + 1) = ItemsUpTo(ins[k].name, at - 1) /\ at - 1 + 1 = at
      BY <3>1, ItemsUpToNext
    <3>3. /\ Occurrences(k) = Cardinality(ItemsUpTo(ins[k].name, at - 1))
          /\ Occurrences(k) <= req.zcfg[ins[k].name].max
      BY <1>0, <2>1 DEF InsOK, CountsOK, DroppedName
    <3>q. QED BY <3>2, <3>3
  <2>3. ASSUME NEW k \in DOMAIN ins, Known(ins[k].name)
        PROVE  (/\ Occurrences(k) = Cardinality(ItemsUpTo(ins[k].name, Done))
                /\ Occurrences(k) <= req.zcfg[ins[k].name].max)'
    <3>1. ItemsUpTo(ins[k].name, at) = ItemsUpTo(ins[k].name, Done)'
      BY <1>0, RequestFrame DEF ItemsUpTo, DroppedName
    <3>q. QED BY <1>3, <2>1, <2>3, <3>1 DEF DroppedName
  <2>q. QED BY <1>0, <2>3, RequestFrame DEF CountsOK, DroppedName
<1>7. BlocksOK'
  BY <1>2, RequestFrame DEF BlocksOK
<1>q. QED BY <1>2, <1>5, <1>6, <1>7 DEF InsOK

LEMMA NewNameKeeps ==
  ASSUME RequestInv, TypeInv, InsOK, UNCHANGED req, pc = "parse", UNCHANGED pc,
         NEW a \in 1 .. Count, at = a, at' = a + 1, NEW o \in OccurrenceType, NewName(o)
  PROVE  InsOK' /\ (~Scattered /\ ~Dropped => First(NameAt(a)) = a)
<1>1. PICK n, l : n = NameAt(a) /\ l = Len(ins) + 1
  OBVIOUS
<1>2. /\ Done = a - 1 /\ Done' = a /\ a \in Nat /\ n \in Names
      /\ ~Present(n) /\ ins' = Append(ins, NewInput(n, o))
  BY <1>1, ItemFacts DEF Done, NewName
<1>3. PICK js : js = ins'
  OBVIOUS
<1>4. /\ Len(js) = l /\ Len(ins) \in Nat /\ l \in DOMAIN js
      /\ DOMAIN ins = 1 .. Len(ins) /\ DOMAIN js = 1 .. l
      /\ \A j \in DOMAIN ins : j \in DOMAIN js /\ js[j] = ins[j]
      /\ js[l].name = n /\ js[l].length = 0
  BY <1>1, <1>2, <1>3, Appended
<1>5. /\ \A j \in DOMAIN ins : Occurrences(j)' = Occurrences(j) /\ Occurrences(j) \in Nat \ {0}
      /\ \A j \in DOMAIN js : j = l => Occurrences(j)' = 1
  BY <1>3, <1>4, OccurrencesType DEF Occurrences
<1>6. /\ \A p \in 1 .. a - 1 : NameAt(p) # n
      /\ \A j \in DOMAIN ins : ins[j].name # n
  BY <1>2 DEF InsOK, NamesOK, Present
<1>7. /\ \A p : NameAt(p)' = NameAt(p)
      /\ \A m : (Known(m)' <=> Known(m)) /\ First(m)' = First(m)
      /\ Scattered' <=> Scattered
      /\ Dropped' <=> Dropped
  BY RequestFrame
<1>8. NamesOK'
  <2>1. (\A i, j \in DOMAIN ins : ins[i].name = ins[j].name => i = j)'
    <3>1. \A i, j \in DOMAIN js : js[i].name = js[j].name => i = j
      BY <1>4, <1>6, <1>1 DEF InsOK, NamesOK
    <3>q. QED BY <1>3, <3>1
  <2>2. \A p \in 1 .. a : Present(NameAt(p))'
    <3>1. ASSUME NEW p \in 1 .. a PROVE \E j \in DOMAIN js : js[j].name = NameAt(p)
      <4>1. CASE p \in 1 .. a - 1
        <5>1. PICK j \in DOMAIN ins : ins[j].name = NameAt(p)
          BY <1>2, <4>1 DEF InsOK, NamesOK, Present
        <5>q. QED BY <1>4, <5>1
      <4>2. CASE p = a
        BY <1>4, <1>1, <4>2
      <4>q. QED BY <1>2, <4>1, <4>2
    <3>q. QED BY <1>3, <1>7, <3>1 DEF Present
  <2>3. (\A k \in DOMAIN ins : /\ \E p \in 1 .. Done : NameAt(p) = ins[k].name
                               /\ Occurrences(k) <= Done)'
    <3>1. ASSUME NEW k \in DOMAIN js
          PROVE  (\E p \in 1 .. a : NameAt(p) = js[k].name) /\ Occurrences(k)' <= a
      <4>1. CASE k \in DOMAIN ins
        BY <1>2, <1>4, <1>5, <4>1 DEF InsOK, NamesOK
      <4>2. CASE k = l
        BY <1>2, <1>4, <1>5, <1>1, <4>2
      <4>q. QED BY <1>4, <1>1, <4>1, <4>2
    <3>q. QED BY <1>2, <1>3, <1>7, <3>1
  <2>4. (\A p \in 1 .. Done : Present(NameAt(p)))'
    BY <1>2, <2>2
  <2>q. QED BY <2>1, <2>3, <2>4 DEF NamesOK
<1>9. CountsOK'
  <2>1. ASSUME req.form # "json", NEW k \in DOMAIN js, Known(js[k].name)
        PROVE  /\ Occurrences(k)' = Cardinality(ItemsUpTo(js[k].name, a))
               /\ Occurrences(k)' <= req.zcfg[js[k].name].max
    <3>1. CASE k \in DOMAIN ins
      <4>1. /\ Occurrences(k) = Cardinality(ItemsUpTo(ins[k].name, a - 1))
            /\ Occurrences(k) <= req.zcfg[ins[k].name].max
        BY <1>2, <1>4, <2>1, <3>1 DEF InsOK, CountsOK
      <4>2. NameAt(a - 1 + 1) # ins[k].name /\ a - 1 + 1 = a
        BY <1>2, <1>6, <1>1, <3>1
      <4>3. ItemsUpTo(ins[k].name, a) = ItemsUpTo(ins[k].name, a - 1)
        BY <4>2, ItemsUpToNext
      <4>q. QED BY <1>4, <1>5, <3>1, <4>1, <4>3
    <3>2. CASE k = l
      <4>1. Cardinality(ItemsUpTo(n, a - 1)) = 0
        BY <1>6, ItemsUpToNext
      <4>2. Cardinality(ItemsUpTo(n, a - 1 + 1)) = 0 + 1 /\ a - 1 + 1 = a
        BY <1>2, <1>1, <4>1, ItemsUpToNext
      <4>3. req.zcfg[n].max \in Nat \ {0}
        BY <1>4, <2>1, <3>2, InputsAssumption DEF RequestInv, Known
      <4>q. QED BY <1>4, <1>5, <3>2, <4>2, <4>3
    <3>q. QED BY <1>4, <1>1, <3>1, <3>2
  <2>2. \A m : ItemsUpTo(m, Done)' = ItemsUpTo(m, a)
    BY <1>2, <1>7 DEF ItemsUpTo
  <2>3. ASSUME req.form # "json", NEW k \in DOMAIN js, Known(js[k].name)
        PROVE  (/\ Occurrences(k) = Cardinality(ItemsUpTo(ins[k].name, Done))
                /\ Occurrences(k) <= req.zcfg[ins[k].name].max)'
    <3>1. ItemsUpTo(ins[k].name, Done)' = ItemsUpTo(js[k].name, a)
      BY <1>2, <1>3, <1>7 DEF ItemsUpTo
    <3>q. QED BY <1>3, <2>1, <2>3, <3>1
  <2>q. QED BY <1>3, <1>7, <2>3 DEF CountsOK
<1>10. ~Scattered /\ ~Dropped => First(n) = a
  BY <1>2, <1>6, <1>1, FirstOf, ItemFacts
<1>11. BlocksOK'
  <2>1. SUFFICES ASSUME Blocks, First(n) = a PROVE Blocks'
    BY <1>7, <1>10 DEF InsOK, BlocksOK
  <2>2. /\ \A j \in DOMAIN ins : Start(j)' = Start(j) /\ End(j)' = End(j)
        /\ \A j \in DOMAIN js : j = l => Start(j)' = a /\ End(j)' = a + 1
    BY <1>3, <1>4, <1>5, <1>7, <2>1 DEF Start, End
  <2>3. (ins # <<>> => Start(1) = 1 /\ End(Len(ins)) = Done + 1)'
    <3>1. (End(Len(ins)))' = End(l)'
      BY <1>3, <1>4 DEF End, Start, Occurrences
    <3>2. Start(1)' = 1
      <4>1. CASE ins = <<>>
        <5>1. a = 1
          <6>1. a # 1 => Present(NameAt(1))
            BY <1>2 DEF InsOK, NamesOK
          <6>2. ~Present(NameAt(1))
            BY <4>1 DEF Present
          <6>q. QED BY <6>1, <6>2
        <5>2. l = 1
          BY <1>1, <4>1
        <5>q. QED BY <1>4, <2>2, <5>1, <5>2
      <4>2. CASE ins # <<>>
        <5>1. 1 \in DOMAIN ins
          BY <4>2 DEF TypeInv
        <5>q. QED BY <2>1, <2>2, <4>2, <5>1 DEF Blocks
      <4>q. QED BY <4>1, <4>2
    <3>q. QED BY <1>2, <1>4, <2>2, <3>1, <3>2
  <2>4. (\A k \in 1 .. Len(ins) - 1 : Start(k + 1) = End(k))'
    <3>1. ASSUME NEW k \in 1 .. l - 1 PROVE Start(k + 1)' = End(k)'
      <4>1. CASE k \in 1 .. Len(ins) - 1
        <5>1. k \in DOMAIN ins /\ k + 1 \in DOMAIN ins /\ Start(k + 1) = End(k)
          BY <1>4, <2>1, <4>1 DEF Blocks
        <5>q. QED BY <2>2, <5>1
      <4>2. CASE k = Len(ins)
        <5>1. k \in DOMAIN ins /\ k + 1 = l /\ ins # <<>>
          BY <1>4, <1>1, <4>2
        <5>2. End(k) = a
          BY <1>2, <2>1, <4>2, <5>1 DEF Blocks
        <5>q. QED BY <1>4, <2>2, <5>1, <5>2
      <4>q. QED BY <1>4, <1>1, <4>1, <4>2
    <3>2. Len(ins') = l
      BY <1>3, <1>4
    <3>q. QED BY <3>1, <3>2
  <2>5. (\A k \in DOMAIN ins : \A p \in 1 .. Done :
           NameAt(p) = ins[k].name <=> Start(k) <= p /\ p < End(k))'
    <3>1. ASSUME NEW k \in DOMAIN js, NEW p \in 1 .. a
          PROVE  NameAt(p) = js[k].name <=> Start(k)' <= p /\ p < End(k)'
      <4>1. CASE k \in DOMAIN ins /\ p \in 1 .. a - 1
        BY <1>2, <1>4, <2>1, <2>2, <4>1 DEF Blocks
      <4>2. CASE k \in DOMAIN ins /\ p = a
        <5>1. NameAt(p) # js[k].name
          BY <1>4, <1>6, <1>1, <4>2
        <5>2. End(k) <= a
          BY <1>2, <2>1, <4>2 DEF Blocks
        <5>3. End(k) \in Int
          <6>1. Start(k) \in Nat
            <7>1. PICK r \in 1 .. a - 1 : NameAt(r) = ins[k].name
              BY <1>2, <4>2 DEF InsOK, NamesOK
            <7>2. r \in 1 .. Count
              BY ItemFacts
            <7>q. QED BY <7>1, <7>2, FirstOf, ItemFacts DEF Start
          <6>q. QED BY <1>5, <4>2, <6>1 DEF End
        <5>q. QED BY <1>2, <2>2, <4>2, <5>1, <5>2, <5>3
      <4>3. CASE k = l
        <5>1. p # a => NameAt(p) # n
          BY <1>2, <1>6
        <5>q. QED BY <1>2, <1>4, <1>1, <2>2, <4>3, <5>1
      <4>q. QED BY <1>2, <1>4, <1>1, <4>1, <4>2, <4>3
    <3>q. QED BY <1>2, <1>3, <1>7, <3>1
  <2>6. (\A k \in DOMAIN ins : End(k) <= Done + 1)'
    <3>1. ASSUME NEW k \in DOMAIN js PROVE End(k)' <= a + 1
      <4>1. CASE k \in DOMAIN ins
        <5>1. End(k) <= a - 1 + 1
          BY <1>2, <2>1, <4>1 DEF Blocks
        <5>2. Start(k) \in Nat
          <6>1. PICK r \in 1 .. a - 1 : NameAt(r) = ins[k].name
            BY <1>2, <4>1 DEF InsOK, NamesOK
          <6>2. r \in 1 .. Count
            BY ItemFacts
          <6>q. QED BY <6>1, <6>2, FirstOf, ItemFacts DEF Start
        <5>3. End(k) \in Int
          BY <1>5, <4>1, <5>2 DEF End
        <5>q. QED BY <1>2, <2>2, <4>1, <5>1, <5>3
      <4>2. CASE k = l
        BY <1>2, <1>4, <2>2, <4>2
      <4>q. QED BY <1>4, <1>1, <4>1, <4>2
    <3>q. QED BY <1>2, <1>3, <3>1
  <2>q. QED BY <2>3, <2>4, <2>5, <2>6 DEF Blocks
<1>q. QED BY <1>8, <1>9, <1>10, <1>11, <1>1 DEF InsOK

LEMMA KnownNameKeeps ==
  ASSUME RequestInv, TypeInv, InsOK, UNCHANGED req, pc = "parse", UNCHANGED pc,
         NEW a \in 1 .. Count, at = a, at' = a + 1, NEW o \in OccurrenceType, KnownName(o)
  PROVE  /\ InsOK' /\ IndexIn(a) > 0
         /\ ~Scattered /\ ~Dropped =>
              /\ IndexOf(NameAt(a)) = Len(ins)
              /\ a = Start(Len(ins)) + Occurrences(Len(ins))
<1>1. PICK n, k : n = NameAt(a) /\ k = IndexOf(n)
  OBVIOUS
<1>2. /\ Done = a - 1 /\ Done' = a /\ a \in Nat
      /\ k \in DOMAIN ins /\ ins[k].name = n /\ ins' = AddOccurrence(k, o)
      /\ req.form # "json" => Known(n) /\ AppendFits(n)
  BY <1>1, IndexOfPresent, ItemFacts DEF Done, KnownName
<1>3. PICK js : js = ins'
  OBVIOUS
<1>4. /\ Len(js) = Len(ins) /\ Len(ins) \in Nat /\ DOMAIN js = DOMAIN ins
      /\ DOMAIN ins = 1 .. Len(ins)
      /\ \A j \in DOMAIN ins : js[j].name = ins[j].name /\ (j # k => js[j] = ins[j])
      /\ js[k].length = Occurrences(k) + 1
  <2>1. ins \in Seq(InputType)
    BY DEF TypeInv
  <2>2. js = AddOccurrence(k, o)
    BY <1>2, <1>3
  <2>3. /\ js \in Seq(InputType) /\ Len(js) = Len(ins) /\ DOMAIN js = DOMAIN ins
        /\ \A j \in DOMAIN ins : j # k => js[j] = ins[j]
        /\ js[k].name = ins[k].name /\ js[k].length = Occurrences(k) + 1
    <3>1. k \in DOMAIN ins
      BY <1>2
    <3>2. /\ js \in Seq(InputType) /\ Len(js) = Len(ins) /\ DOMAIN js = DOMAIN ins
          /\ js[k].name = ins[k].name /\ js[k].length = Occurrences(k) + 1
      BY <2>2, <3>1, Extended
    <3>3. \A j \in DOMAIN ins : j # k => js[j] = ins[j]
      BY <2>2, <3>1, ExtendedOnly
    <3>q. QED BY <3>2, <3>3
  <2>q. QED BY <1>2, <2>1, <2>3
<1>5. /\ \A j \in DOMAIN ins : /\ Occurrences(j) \in Nat \ {0}
                               /\ j # k => Occurrences(j)' = Occurrences(j)
      /\ Occurrences(k)' = Occurrences(k) + 1
  <2>1. \A j \in DOMAIN ins : Occurrences(j) \in Nat \ {0}
    BY OccurrencesType
  <2>2. \A j \in DOMAIN ins : j # k => Occurrences(j)' = Occurrences(j)
    BY <1>3, <1>4 DEF Occurrences
  <2>3. Occurrences(k)' = IF js[k].length = 0 THEN 1 ELSE js[k].length
    BY <1>3 DEF Occurrences
  <2>q. QED BY <1>2, <1>4, <2>1, <2>2, <2>3
<1>6. \A j \in DOMAIN ins : j # k => ins[j].name # n
  BY <1>2 DEF InsOK, NamesOK
<1>7. /\ \A p : NameAt(p)' = NameAt(p)
      /\ \A m : (Known(m)' <=> Known(m)) /\ First(m)' = First(m)
      /\ Scattered' <=> Scattered
      /\ Dropped' <=> Dropped
  BY RequestFrame
<1>8. PICK q \in 1 .. a - 1 : NameAt(q) = n
  BY <1>2 DEF InsOK, NamesOK
<1>9. IndexIn(a) > 0
  BY <1>1, <1>8, Earlier
<1>10. NamesOK'
  <2>1. (\A i, j \in DOMAIN ins : ins[i].name = ins[j].name => i = j)'
    <3>1. \A i, j \in DOMAIN js : js[i].name = js[j].name => i = j
      BY <1>4 DEF InsOK, NamesOK
    <3>q. QED BY <1>3, <3>1
  <2>2. \A p \in 1 .. a : Present(NameAt(p))'
    <3>1. ASSUME NEW p \in 1 .. a PROVE \E j \in DOMAIN js : js[j].name = NameAt(p)
      <4>1. CASE p \in 1 .. a - 1
        <5>1. PICK j \in DOMAIN ins : ins[j].name = NameAt(p)
          BY <1>2, <4>1 DEF InsOK, NamesOK, Present
        <5>q. QED BY <1>4, <5>1
      <4>2. CASE p = a
        BY <1>2, <1>4, <1>1, <4>2
      <4>q. QED BY <1>2, <4>1, <4>2
    <3>q. QED BY <1>3, <1>7, <3>1 DEF Present
  <2>3. (\A j \in DOMAIN ins : /\ \E p \in 1 .. Done : NameAt(p) = ins[j].name
                               /\ Occurrences(j) <= Done)'
    <3>1. ASSUME NEW j \in DOMAIN js
          PROVE  (\E p \in 1 .. a : NameAt(p) = js[j].name) /\ Occurrences(j)' <= a
      <4>1. PICK p \in 1 .. a - 1 : NameAt(p) = js[j].name
        BY <1>2, <1>4 DEF InsOK, NamesOK
      <4>2. Occurrences(j) <= a - 1
        BY <1>2, <1>4 DEF InsOK, NamesOK
      <4>q. QED BY <1>2, <1>4, <1>5, <4>1, <4>2
    <3>q. QED BY <1>2, <1>3, <1>7, <3>1
  <2>4. (\A p \in 1 .. Done : Present(NameAt(p)))'
    BY <1>2, <2>2
  <2>q. QED BY <2>1, <2>3, <2>4 DEF NamesOK
<1>11. CountsOK'
  <2>1. ASSUME req.form # "json", NEW j \in DOMAIN js, Known(js[j].name)
        PROVE  /\ Occurrences(j)' = Cardinality(ItemsUpTo(js[j].name, a))
               /\ Occurrences(j)' <= req.zcfg[js[j].name].max
    <3>1. /\ Occurrences(j) = Cardinality(ItemsUpTo(ins[j].name, a - 1))
          /\ Occurrences(j) <= req.zcfg[ins[j].name].max
      BY <1>2, <1>4, <2>1 DEF InsOK, CountsOK
    <3>2. CASE j # k
      <4>1. NameAt(a - 1 + 1) # ins[j].name /\ a - 1 + 1 = a
        BY <1>2, <1>4, <1>6, <1>1, <3>2
      <4>2. ItemsUpTo(ins[j].name, a) = ItemsUpTo(ins[j].name, a - 1)
        <5>1. a - 1 \in Nat
          BY <1>2
        <5>q. QED BY <4>1, <5>1, ItemsUpToNext
      <4>q. QED BY <1>4, <1>5, <3>1, <3>2, <4>2
    <3>3. CASE j = k
      <4>1. /\ Cardinality(ItemsUpTo(n, a - 1 + 1)) = Cardinality(ItemsUpTo(n, a - 1)) + 1
            /\ a - 1 + 1 = a
        BY <1>2, <1>1, ItemsUpToNext
      <4>2. Occurrences(k) < req.zcfg[n].max
        BY <1>2, <1>1, <2>1 DEF AppendFits
      <4>3. req.zcfg[n].max \in Nat \ {0}
        BY <1>2, <1>4, <2>1, <3>3, InputsAssumption DEF RequestInv, Known
      <4>q. QED BY <1>2, <1>4, <1>5, <3>1, <3>3, <4>1, <4>2, <4>3
    <3>q. QED BY <3>2, <3>3
  <2>3. ASSUME req.form # "json", NEW j \in DOMAIN js, Known(js[j].name)
        PROVE  (/\ Occurrences(j) = Cardinality(ItemsUpTo(ins[j].name, Done))
                /\ Occurrences(j) <= req.zcfg[ins[j].name].max)'
    <3>1. ItemsUpTo(ins[j].name, Done)' = ItemsUpTo(js[j].name, a)
      BY <1>2, <1>3, <1>7 DEF ItemsUpTo
    <3>q. QED BY <1>3, <2>1, <2>3, <3>1
  <2>q. QED BY <1>3, <1>7, <2>3 DEF CountsOK
<1>12. ASSUME ~Scattered, ~Dropped
       PROVE  Blocks' /\ k = Len(ins) /\ a = Start(Len(ins)) + Occurrences(Len(ins))
  <2>0. Blocks
    BY <1>12 DEF InsOK, BlocksOK
  <2>1. PICK l \in DOMAIN ins : l = Len(ins) /\ l \in Nat \ {0} /\ ins # <<>>
    BY <1>2, <1>4
  <2>2. End(l) = a /\ Start(l) = End(l) - Occurrences(l) /\ Start(l) \in Nat /\ End(l) = Start(l) + Occurrences(l)
    <3>1. End(l) = a
      BY <1>2, <2>0, <2>1 DEF Blocks
    <3>2. Start(l) \in Nat
      <4>1. PICK r \in 1 .. a - 1 : NameAt(r) = ins[l].name
        BY <1>2 DEF InsOK, NamesOK
      <4>2. r \in 1 .. Count
        BY ItemFacts
      <4>q. QED BY <4>1, <4>2, FirstOf, ItemFacts DEF Start
    <3>q. QED BY <1>5, <3>1, <3>2 DEF End
  <2>3. NameAt(a - 1) = ins[l].name
    <3>1. a - 1 \in 1 .. Done /\ Start(l) <= a - 1 /\ a - 1 < End(l)
      BY <1>2, <1>5, <1>8, <2>2
    <3>q. QED BY <2>0, <3>1 DEF Blocks
  <2>4. NameAt(a - 1) = n
    <3>1. q \in 1 .. Count /\ a - 1 \in Nat /\ q <= a - 1 /\ a - 1 <= a
      BY <1>2, <1>8, ItemFacts
    <3>q. QED BY <1>8, <1>12, <1>1, <3>1, Together
  <2>5. k = l
    BY <1>6, <2>3, <2>4
  <2>6. \A j \in DOMAIN ins :
          /\ Start(j)' = Start(j) /\ Start(j) \in Nat /\ End(j) \in Nat
          /\ j # k => End(j)' = End(j)
    <3>1. ASSUME NEW j \in DOMAIN ins PROVE Start(j)' = Start(j) /\ Start(j) \in Nat
      <4>1. PICK r \in 1 .. a - 1 : NameAt(r) = ins[j].name
        BY <1>2 DEF InsOK, NamesOK
      <4>2. r \in 1 .. Count
        BY ItemFacts
      <4>3. Start(j) \in Nat
        BY <4>1, <4>2, FirstOf, ItemFacts DEF Start
      <4>q. QED BY <1>3, <1>4, <1>7, <4>3 DEF Start
    <3>q. QED BY <1>5, <3>1 DEF End
  <2>7. \A j \in DOMAIN ins : j = l => End(j)' = a + 1
    <3>1. ASSUME NEW j \in DOMAIN ins, j = l PROVE End(j)' = a + 1
      <4>1. Start(j)' = Start(j) /\ Start(j) \in Nat
        BY <2>6
      <4>2. Occurrences(j)' = Occurrences(j) + 1 /\ Occurrences(j) \in Nat
        BY <1>5, <2>5, <3>1
      <4>3. Start(j) + Occurrences(j) = a
        BY <2>2, <3>1
      <4>q. QED BY <1>2, <4>1, <4>2, <4>3 DEF End
    <3>q. QED BY <3>1
  <2>8. (ins # <<>> => Start(1) = 1 /\ End(Len(ins)) = Done + 1)'
    <3>1. (End(Len(ins)))' = End(l)'
      <4>1. Len(ins)' = l
        BY <1>3, <1>4, <2>1
      <4>q. QED BY <4>1 DEF End, Start, Occurrences
    <3>2. 1 \in DOMAIN ins
      BY <1>4, <2>1
    <3>3. Start(1)' = 1
      <4>1. Start(1) = 1
        BY <2>0, <2>1 DEF Blocks
      <4>q. QED BY <2>6, <3>2, <4>1
    <3>4. (End(Len(ins)))' = Done' + 1
      BY <1>2, <2>7, <3>1
    <3>q. QED BY <3>3, <3>4
  <2>9. (\A j \in 1 .. Len(ins) - 1 : Start(j + 1) = End(j))'
    <3>1. ASSUME NEW j \in 1 .. Len(ins) - 1 PROVE Start(j + 1)' = End(j)'
      <4>1. j \in DOMAIN ins /\ j + 1 \in DOMAIN ins /\ j # k
        <5>1. k = Len(ins) /\ Len(ins) \in Nat /\ DOMAIN ins = 1 .. Len(ins)
          BY <1>4, <2>1, <2>5
        <5>2. PICK m : m = Len(ins)
          OBVIOUS
        <5>q. QED BY <5>1, <5>2
      <4>2. Start(j + 1) = End(j)
        BY <2>0 DEF Blocks
      <4>3. End(j)' = End(j)
        BY <2>6, <4>1
      <4>5. PICK m \in DOMAIN ins : m = j + 1
        BY <4>1
      <4>6. Start(m)' = Start(m)
        BY <2>6
      <4>7. Start(j + 1)' = Start(m)'
        BY <4>5 DEF Start
      <4>q. QED BY <4>2, <4>3, <4>5, <4>6, <4>7
    <3>2. Len(ins') = Len(ins)
      BY <1>3, <1>4
    <3>q. QED BY <3>1, <3>2
  <2>10. (\A j \in DOMAIN ins : \A p \in 1 .. Done :
            NameAt(p) = ins[j].name <=> Start(j) <= p /\ p < End(j))'
    <3>1. ASSUME NEW j \in DOMAIN js, NEW p \in 1 .. a
          PROVE  NameAt(p) = js[j].name <=> Start(j)' <= p /\ p < End(j)'
      <4>0. /\ js[j].name = ins[j].name /\ j \in DOMAIN ins
            /\ Start(j)' = Start(j) /\ Start(j) \in Nat /\ End(j) \in Nat
        BY <1>4, <2>6
      <4>e. /\ j # l => End(j)' = End(j)
            /\ j = l => End(j)' = a + 1 /\ End(j) = a
        BY <2>2, <2>5, <2>6, <2>7, <4>0
      <4>1. CASE p \in 1 .. a - 1
        <5>1. NameAt(p) = ins[j].name <=> Start(j) <= p /\ p < End(j)
          BY <1>2, <2>0, <4>0, <4>1 DEF Blocks
        <5>2. p < a /\ p < a + 1
          BY <1>2, <4>1
        <5>q. QED BY <4>0, <4>e, <5>1, <5>2
      <4>2. CASE p = a
        <5>1. End(j) <= a
          BY <1>2, <2>0, <4>0 DEF Blocks
        <5>3. CASE j # l
          <6>1. NameAt(p) # js[j].name
            BY <1>6, <1>1, <2>5, <4>0, <4>2, <5>3
          <6>2. ~(p < End(j)')
            BY <1>2, <4>0, <4>e, <4>2, <5>1, <5>3
          <6>q. QED BY <6>1, <6>2
        <5>4. CASE j = l
          <6>1. NameAt(p) = js[j].name
            BY <1>2, <1>1, <2>5, <4>0, <4>2, <5>4
          <6>2. Start(j)' <= p /\ p < End(j)'
            <7>1. Start(j) + Occurrences(j) = a /\ Occurrences(j) \in Nat
              BY <1>5, <2>2, <4>0, <5>4
            <7>q. QED BY <1>2, <4>0, <4>e, <4>2, <5>4, <7>1
          <6>q. QED BY <6>1, <6>2
        <5>q. QED BY <5>3, <5>4
      <4>q. QED BY <1>2, <4>1, <4>2
    <3>q. QED BY <1>2, <1>3, <1>7, <3>1
  <2>11. (\A j \in DOMAIN ins : End(j) <= Done + 1)'
    <3>1. ASSUME NEW j \in DOMAIN js PROVE End(j)' <= a + 1
      <4>1. j \in DOMAIN ins /\ End(j) \in Nat /\ End(j) <= a
        BY <1>2, <1>4, <2>0, <2>6 DEF Blocks
      <4>2. j # k => End(j)' = End(j)
        BY <2>6, <4>1
      <4>3. j = k => End(j)' = a + 1
        BY <2>5, <2>7, <4>1
      <4>q. QED BY <1>2, <4>1, <4>2, <4>3
    <3>q. QED BY <1>2, <1>3, <3>1
  <2>12. Blocks'
    BY <2>8, <2>9, <2>10, <2>11 DEF Blocks
  <2>q. QED BY <2>1, <2>2, <2>5, <2>12
<1>q. QED BY <1>7, <1>9, <1>10, <1>11, <1>12, <1>1 DEF InsOK, BlocksOK

-----------------------------------------------------------------------------
(* The occurrence an item is parsed to, in the inputs js.                  *)

SameShape(js) ==
  /\ js \in Seq(InputType) /\ Len(js) = Len(ins) /\ DOMAIN js = DOMAIN ins
  /\ \A k \in DOMAIN ins : js[k].name = ins[k].name /\ js[k].length = ins[k].length

Place(js, n) == CHOOSE k \in DOMAIN js : js[k].name = n
Cell(js, p)  == js[Place(js, NameAt(p))].occ[p - First(NameAt(p))]

LEMMA PlaceOf ==
  ASSUME NEW js, \A i, j \in DOMAIN js : js[i].name = js[j].name => i = j, NEW k \in DOMAIN js
  PROVE  Place(js, js[k].name) = k
<1>1. Place(js, js[k].name) \in DOMAIN js /\ js[Place(js, js[k].name)].name = js[k].name
  BY DEF Place
<1>q. QED BY <1>1

LEMMA CellFrame ==
  ASSUME UNCHANGED req
  PROVE  \A js, p : Cell(js, p)' = Cell(js, p)
BY RequestFrame DEF Cell, Place

LEMMA SameShapeFacts ==
  ASSUME TypeInv, InsOK, NEW js, SameShape(js)
  PROVE  /\ \A i, j \in DOMAIN js : js[i].name = js[j].name => i = j
         /\ \A k \in DOMAIN ins : Place(js, ins[k].name) = k
<1>1. \A i, j \in DOMAIN js : js[i].name = js[j].name => i = j
  BY DEF SameShape, InsOK, NamesOK
<1>2. ASSUME NEW k \in DOMAIN ins PROVE Place(js, ins[k].name) = k
  <2>1. k \in DOMAIN js /\ js[k].name = ins[k].name
    BY DEF SameShape
  <2>q. QED BY <1>1, <2>1, PlaceOf
<1>q. QED BY <1>1, <1>2

LEMMA SameShapeOfIns == ASSUME TypeInv PROVE SameShape(ins)
BY DEF SameShape, TypeInv

LEMMA BlockOf ==
  ASSUME RequestInv, TypeInv, InsOK, Done \in Nat, Done <= Count, NEW k \in DOMAIN ins
  PROVE  /\ Start(k) \in 1 .. Count /\ Occurrences(k) \in Nat \ {0} /\ End(k) = Start(k) + Occurrences(k)
         /\ Occurrences(k) <= MaxArguments /\ NameAt(Start(k)) = ins[k].name
<1>1. PICK r \in 1 .. Done : NameAt(r) = ins[k].name
  BY DEF InsOK, NamesOK
<1>2. r \in 1 .. Count /\ Count \in Nat /\ Count <= MaxArguments /\ MaxArguments \in Nat
  BY ItemFacts
<1>3. Start(k) \in 1 .. Count /\ NameAt(Start(k)) = ins[k].name
  BY <1>1, <1>2, FirstOf DEF Start
<1>4. Occurrences(k) \in Nat \ {0} /\ Occurrences(k) <= Done
  BY OccurrencesType DEF InsOK, NamesOK
<1>q. QED BY <1>2, <1>3, <1>4 DEF End

(* An occurrence is that of one item.                                      *)
LEMMA Cells ==
  ASSUME RequestInv, TypeInv, InsOK, Blocks, Done \in Nat, Done <= Count,
         NEW k \in DOMAIN ins, NEW i \in 0 .. Occurrences(k) - 1, NEW js, SameShape(js)
  PROVE  /\ Start(k) + i \in 1 .. Done /\ i \in 0 .. MaxArguments - 1
         /\ NameAt(Start(k) + i) = ins[k].name
         /\ Cell(js, Start(k) + i) = js[k].occ[i]
<1>1. PICK s, m : s = Start(k) /\ m = Occurrences(k)
  OBVIOUS
<1>2. s \in 1 .. Count /\ m \in Nat \ {0} /\ m <= MaxArguments /\ End(k) = s + m /\ MaxArguments \in Nat
  BY <1>1, BlockOf, ItemFacts
<1>3. s + m <= Done + 1
  BY <1>2 DEF Blocks
<1>4. i \in Nat /\ i < m /\ Count \in Nat
  BY <1>1, <1>2, ItemFacts
<1>5. s + i \in 1 .. Done /\ i \in 0 .. MaxArguments - 1 /\ s <= s + i /\ s + i < s + m
  BY <1>2, <1>3, <1>4
<1>6. NameAt(s + i) = ins[k].name
  <2>1. \A p \in 1 .. Done : Start(k) <= p /\ p < End(k) => NameAt(p) = ins[k].name
    BY DEF Blocks
  <2>2. PICK e : e = End(k)
    OBVIOUS
  <2>3. \A p \in 1 .. Done : s <= p /\ p < e => NameAt(p) = ins[k].name
    BY <1>1, <2>1, <2>2
  <2>q. QED BY <1>2, <1>5, <2>2, <2>3
<1>7. First(NameAt(s + i)) = s
  BY <1>1, <1>6 DEF Start
<1>8. Place(js, NameAt(s + i)) = k
  BY <1>6, SameShapeFacts
<1>9. s + i - s = i
  BY <1>2, <1>4
<1>10. Cell(js, s + i) = js[k].occ[i]
  BY <1>2, <1>4, <1>7, <1>8, <1>9 DEF Cell
<1>q. QED
  <2>1. Start(k) + i = s + i
    BY <1>1
  <2>q. QED BY <1>5, <1>6, <1>10, <2>1

(* And every item has one.                                                 *)
LEMMA CellAt ==
  ASSUME RequestInv, TypeInv, InsOK, Blocks, Done \in Nat, Done <= Count, NEW p \in 1 .. Done
  PROVE  \E k \in DOMAIN ins : \E i \in 0 .. Occurrences(k) - 1 :
           /\ k = IndexOf(NameAt(p)) /\ i = p - Start(k) /\ p = Start(k) + i
           /\ NameAt(p) = ins[k].name /\ Start(k) = First(NameAt(p))
<1>1. PICK k \in DOMAIN ins : k = IndexOf(NameAt(p)) /\ ins[k].name = NameAt(p)
  BY IndexOfPresent DEF InsOK, NamesOK
<1>2. Start(k) \in 1 .. Count /\ Occurrences(k) \in Nat \ {0} /\ End(k) = Start(k) + Occurrences(k)
  BY BlockOf
<1>3. Start(k) <= p /\ p < End(k)
  BY <1>1 DEF Blocks
<1>4. PICK i : i = p - Start(k)
  OBVIOUS
<1>5. i \in 0 .. Occurrences(k) - 1 /\ p = Start(k) + i
  <2>1. PICK s, m : s = Start(k) /\ m = Occurrences(k)
    OBVIOUS
  <2>2. s \in Nat /\ m \in Nat /\ s <= p /\ p < s + m /\ p \in Nat /\ i = p - s
    BY <1>2, <1>3, <1>4, <2>1, ItemFacts
  <2>3. i \in 0 .. m - 1 /\ p = s + i
    BY <2>2
  <2>q. QED BY <2>1, <2>3
<1>q. QED BY <1>1, <1>4, <1>5 DEF Start

(* To change an occurrence is to change that of its item.                  *)
LEMMA Reshaped ==
  ASSUME TypeInv, NEW k \in DOMAIN ins, NEW f \in [0 .. MaxArguments - 1 -> OccurrenceType],
         NEW js, js = [ins EXCEPT ![k].occ = f]
  PROVE  /\ SameShape(js) /\ js[k].occ = f
         /\ \A j \in DOMAIN ins : j # k => js[j].occ = ins[j].occ
<1>1. ins \in Seq(InputType) /\ ins[k] \in InputType
  BY OccurrencesType DEF TypeInv
<1>. DEFINE x == [ins[k] EXCEPT !.occ = f]
<1>2. x \in InputType /\ x.name = ins[k].name /\ x.length = ins[k].length /\ x.occ = f
  BY <1>1 DEF InputType
<1>3. js = [ins EXCEPT ![k] = x]
  OBVIOUS
<1>. HIDE DEF x
<1>4. /\ js \in Seq(InputType) /\ Len(js) = Len(ins) /\ DOMAIN js = DOMAIN ins
      /\ js[k] = x /\ \A j \in DOMAIN ins : j # k => js[j] = ins[j]
  BY <1>1, <1>2, <1>3
<1>5. ASSUME NEW j \in DOMAIN ins
      PROVE  js[j].name = ins[j].name /\ js[j].length = ins[j].length
  BY <1>2, <1>4
<1>6. /\ js \in Seq(InputType) /\ Len(js) = Len(ins) /\ DOMAIN js = DOMAIN ins
      /\ js[k].occ = f
  BY <1>2, <1>4
<1>7. ASSUME NEW j \in DOMAIN ins, j # k PROVE js[j].occ = ins[j].occ
  BY <1>4, <1>7
<1>q. QED BY <1>5, <1>6, <1>7 DEF SameShape

LEMMA Poke ==
  ASSUME RequestInv, TypeInv, InsOK, Blocks, Done \in Nat, Done <= Count,
         NEW k \in DOMAIN ins, NEW i \in 0 .. Occurrences(k) - 1, NEW o \in OccurrenceType,
         NEW f \in [0 .. MaxArguments - 1 -> OccurrenceType],
         \A m \in 0 .. MaxArguments - 1 : f[m] = IF m = i THEN o ELSE ins[k].occ[m],
         NEW js, SameShape(js), js[k].occ = f, \A j \in DOMAIN ins : j # k => js[j].occ = ins[j].occ
  PROVE  /\ Cell(js, Start(k) + i) = o
         /\ \A q \in 1 .. Done : q # Start(k) + i => Cell(js, q) = Cell(ins, q)
<1>1. i \in 0 .. MaxArguments - 1
  BY Cells, SameShapeOfIns
<1>2. f[i] = o
  BY <1>1
<1>3. Cell(js, Start(k) + i) = o
  <2>1. Cell(js, Start(k) + i) = js[k].occ[i]
    BY Cells
  <2>q. QED BY <1>2, <2>1
<1>4. ASSUME NEW q \in 1 .. Done, q # Start(k) + i PROVE Cell(js, q) = Cell(ins, q)
  <2>0. PICK j \in DOMAIN ins : \E m \in 0 .. Occurrences(j) - 1 : q = Start(j) + m
    BY CellAt
  <2>1. PICK m \in 0 .. Occurrences(j) - 1 : q = Start(j) + m
    BY <2>0
  <2>2. Cell(js, q) = js[j].occ[m] /\ Cell(ins, q) = ins[j].occ[m] /\ m \in 0 .. MaxArguments - 1
    <3>1. Cell(js, Start(j) + m) = js[j].occ[m] /\ m \in 0 .. MaxArguments - 1
      BY Cells
    <3>2. Cell(ins, Start(j) + m) = ins[j].occ[m]
      BY SameShapeOfIns, Cells
    <3>q. QED BY <2>1, <3>1, <3>2
  <2>3. CASE j # k
    BY <2>2, <2>3
  <2>4. CASE j = k
    <3>1. m # i
      BY <1>4, <2>1, <2>4
    <3>2. f[m] = ins[k].occ[m]
      BY <2>2, <3>1
    <3>q. QED BY <2>2, <2>4, <3>2
  <2>q. QED BY <2>3, <2>4
<1>q. QED BY <1>3, <1>4

(* The items parsed before, and the next one.                              *)
WithNew(n, o) == Append(ins, NewInput(n, o))

LEMMA NewCell ==
  ASSUME RequestInv, TypeInv, InsOK, Blocks, pc = "parse", NEW a \in 1 .. Count, at = a,
         NEW o \in OccurrenceType, ~Present(NameAt(a)), First(NameAt(a)) = a,
         NEW js, js = WithNew(NameAt(a), o)
  PROVE  Cell(js, a) = o /\ \A q \in 1 .. a - 1 : Cell(js, q) = Cell(ins, q)
<1>0. NameAt(a) \in Names /\ Done = a - 1 /\ Done \in Nat /\ Done <= Count
  BY ItemFacts DEF Done
<1>1. PICK n, l : n = NameAt(a) /\ l = Len(ins) + 1
  OBVIOUS
<1>2. /\ DOMAIN ins = 1 .. Len(ins) /\ Len(ins) \in Nat /\ DOMAIN js = 1 .. l /\ l \in DOMAIN js
      /\ \A j \in DOMAIN ins : j \in DOMAIN js /\ js[j] = ins[j]
      /\ js[l].name = n /\ js[l].occ[0] = o
  BY <1>0, <1>1, Appended DEF WithNew
<1>3. \A j \in DOMAIN ins : ins[j].name # n
  BY <1>1 DEF Present
<1>4. \A i, j \in DOMAIN js : js[i].name = js[j].name => i = j
  <2>1. \A i, j \in DOMAIN ins : ins[i].name = ins[j].name => i = j
    BY DEF InsOK, NamesOK
  <2>2. \A j \in DOMAIN js : j \in DOMAIN ins \/ j = l
    BY <1>1, <1>2
  <2>q. QED BY <1>2, <1>3, <2>1, <2>2
<1>5. Cell(js, a) = o
  <2>1. Place(js, n) = l
    BY <1>2, <1>4, PlaceOf
  <2>2. a - First(NameAt(a)) = 0
    BY <1>0
  <2>q. QED BY <1>1, <1>2, <2>1, <2>2 DEF Cell
<1>6. ASSUME NEW q \in 1 .. a - 1 PROVE Cell(js, q) = Cell(ins, q)
  <2>1. PICK j \in DOMAIN ins : NameAt(q) = ins[j].name
    BY <1>0, CellAt
  <2>2. Place(js, NameAt(q)) = j
    <3>1. j \in DOMAIN js /\ js[j].name = NameAt(q)
      BY <1>2, <2>1
    <3>q. QED BY <1>4, <3>1, PlaceOf
  <2>3. Place(ins, NameAt(q)) = j
    BY <2>1, SameShapeFacts, SameShapeOfIns
  <2>q. QED BY <1>2, <2>2, <2>3 DEF Cell
<1>q. QED BY <1>5, <1>6

LEMMA AgainCell ==
  ASSUME RequestInv, TypeInv, InsOK, Blocks, pc = "parse", NEW a \in 1 .. Count, at = a,
         NEW o \in OccurrenceType, NEW k \in DOMAIN ins, ins[k].name = NameAt(a),
         a = Start(k) + Occurrences(k), NEW js, js = AddOccurrence(k, o)
  PROVE  Cell(js, a) = o /\ \A q \in 1 .. a - 1 : Cell(js, q) = Cell(ins, q)
<1>0. Done = a - 1 /\ Done \in Nat /\ Done <= Count /\ Count \in Nat /\ Count <= MaxArguments /\ MaxArguments \in Nat
  BY ItemFacts DEF Done
<1>1. PICK m : m = Occurrences(k)
  OBVIOUS
<1>2. m \in Nat \ {0} /\ m <= a - 1 /\ m \in 0 .. MaxArguments - 1
  BY <1>0, <1>1, OccurrencesType DEF InsOK, NamesOK
<1>3. /\ DOMAIN js = DOMAIN ins /\ js[k].name = ins[k].name
      /\ js[k].occ = [ins[k].occ EXCEPT ![m] = o]
  BY <1>1, Extended
<1>4. \A j \in DOMAIN ins : j # k => js[j] = ins[j]
  BY ExtendedOnly
<1>5. \A j \in DOMAIN ins : js[j].name = ins[j].name
  BY <1>3, <1>4
<1>6. \A i, j \in DOMAIN js : js[i].name = js[j].name => i = j
  BY <1>3, <1>5 DEF InsOK, NamesOK
<1>7. \A j \in DOMAIN ins : Place(js, ins[j].name) = j /\ Place(ins, ins[j].name) = j
  <2>1. ASSUME NEW j \in DOMAIN ins PROVE Place(js, ins[j].name) = j
    BY <1>3, <1>5, <1>6, PlaceOf
  <2>2. ASSUME NEW j \in DOMAIN ins PROVE Place(ins, ins[j].name) = j
    BY SameShapeFacts, SameShapeOfIns
  <2>q. QED BY <2>1, <2>2
<1>8. DOMAIN ins[k].occ = 0 .. MaxArguments - 1
  <2>1. ins[k] \in InputType
    BY OccurrencesType
  <2>q. QED BY <2>1 DEF InputType
<1>9. Cell(js, a) = o
  <2>1. First(NameAt(a)) = Start(k) /\ Start(k) \in Nat
    BY <1>0, BlockOf DEF Start
  <2>2. a - Start(k) = m
    BY <1>1, <1>2, <2>1
  <2>3. js[k].occ[m] = o
    BY <1>2, <1>3, <1>8
  <2>q. QED BY <1>7, <2>1, <2>2, <2>3 DEF Cell
<1>10. ASSUME NEW q \in 1 .. a - 1 PROVE Cell(js, q) = Cell(ins, q)
  <2>0. PICK j \in DOMAIN ins : \E i \in 0 .. Occurrences(j) - 1 :
          NameAt(q) = ins[j].name /\ i = q - First(NameAt(q))
    BY <1>0, CellAt
  <2>1. PICK i \in 0 .. Occurrences(j) - 1 :
          NameAt(q) = ins[j].name /\ i = q - First(NameAt(q))
    BY <2>0
  <2>2. Cell(js, q) = js[j].occ[i] /\ Cell(ins, q) = ins[j].occ[i]
    BY <1>7, <2>1 DEF Cell
  <2>3. CASE j # k
    BY <1>4, <2>2, <2>3
  <2>4. CASE j = k
    <3>1. i # m
      BY <1>1, <1>2, <2>1, <2>4
    <3>2. js[k].occ[i] = ins[k].occ[i]
      <4>1. i \in 0 .. m - 1
        BY <1>1, <2>1, <2>4
      <4>2. i \in 0 .. MaxArguments - 1
        BY <1>0, <1>2, <4>1
      <4>q. QED BY <1>3, <1>8, <3>1, <4>2
    <3>q. QED BY <2>2, <2>4, <3>2
  <2>q. QED BY <2>3, <2>4
<1>q. QED BY <1>9, <1>10

-----------------------------------------------------------------------------
(* What an occurrence is on its way: ready to be read, sent to a worker,   *)
(* linked to a URL (in JSON), and arrived.                                 *)

ValueOK(o, p) == o.Reference = 0 /\ o.value = <<"own", p>>

Ready(o, p) ==
  /\ ~Fetched(p) => ValueOK(o, p)
  /\ Fetched(p)  => /\ o.Reference = p /\ o.order = Rank(p)
                    /\ o.isCached <=> ~Queued(p)
                    /\ ~Queued(p) => o.value = <<"file", p>>

Sent(o, p) ==
  /\ ~o.size
  /\ ~Fetched(p) => ValueOK(o, p) /\ o.href = 0 /\ o.xlink = 0
  /\ Fetched(p)  => /\ p = IF o.href # 0 THEN o.href ELSE o.xlink
                    /\ o.body = BodyOf(p) /\ ~o.isCached

Linked(o, p) ==
  /\ ~Fetched(p) => ValueOK(o, p)
  /\ Fetched(p)  => o.xlink = p /\ ~o.isCached

Arrived(o, p) == o.value = Expected(p) /\ Given(p).url # "broken"

RequestsOK(requests, m) ==
  /\ \A i \in DOMAIN requests : requests[i] \in 1 .. m /\ Fetched(requests[i])
  /\ \A i, j \in DOMAIN requests : i < j => requests[i] < requests[j]
  /\ \A p \in 1 .. m : Fetched(p) => \E i \in DOMAIN requests : requests[i] = p

LEMMA ContentFrame ==
  ASSUME UNCHANGED req
  PROVE  /\ \A p : /\ Fetched(p)' <=> Fetched(p)
                   /\ Queued(p)' <=> Queued(p)
                   /\ BodyOf(p)' = BodyOf(p) /\ Rank(p)' = Rank(p) /\ Expected(p)' = Expected(p)
         /\ \A o, p : /\ Ready(o, p)' <=> Ready(o, p)
                      /\ Sent(o, p)' <=> Sent(o, p)
                      /\ Linked(o, p)' <=> Linked(o, p)
                      /\ Arrived(o, p)' <=> Arrived(o, p)
         /\ \A q, m : QueueOK(q, m)' <=> QueueOK(q, m)
         /\ \A q, m : RequestsOK(q, m)' <=> RequestsOK(q, m)
         /\ Astray' <=> Astray
         /\ BadAnswer' <=> BadAnswer
         /\ HeadersMissing' <=> HeadersMissing
<1>1. \A p : /\ Fetched(p)' <=> Fetched(p)
             /\ Queued(p)' <=> Queued(p)
             /\ BodyOf(p)' = BodyOf(p) /\ Expected(p)' = Expected(p)
             /\ Given(p)' = Given(p)
  BY DEF Fetched, Queued, BodyOf, Expected, Given
<1>2. \A p : Rank(p)' = Rank(p)
  BY <1>1 DEF Rank
<1>3. \A o, p : /\ Ready(o, p)' <=> Ready(o, p)
                /\ Sent(o, p)' <=> Sent(o, p)
                /\ Linked(o, p)' <=> Linked(o, p)
                /\ Arrived(o, p)' <=> Arrived(o, p)
  BY <1>1, <1>2 DEF Ready, Sent, Linked, Arrived, ValueOK
<1>4. \A q, m : QueueOK(q, m)' <=> QueueOK(q, m)
  BY <1>1, <1>2 DEF QueueOK
<1>5. \A q, m : RequestsOK(q, m)' <=> RequestsOK(q, m)
  BY <1>1 DEF RequestsOK
<1>6. /\ Astray' <=> Astray
      /\ BadAnswer' <=> BadAnswer
      /\ HeadersMissing' <=> HeadersMissing
  <2>1. /\ BadAnswer' <=> BadAnswer
        /\ HeadersMissing' <=> HeadersMissing
        /\ BodyLost' <=> BodyLost
        /\ BodyMoved' <=> BodyMoved
        /\ QueuedTwice' <=> QueuedTwice
    BY DEF BadAnswer, HeadersMissing, BodyLost, BodyMoved, QueuedTwice, Given, Positioned
  <2>2. \A p : IndexIn(p)' = IndexIn(p)
    BY DEF IndexIn, Given
  <2>3. /\ NotInMessage' <=> NotInMessage
        /\ CachedLater' <=> CachedLater
    BY <2>2 DEF NotInMessage, CachedLater, Given, Positioned
  <2>4. Mixed' <=> Mixed
    BY <1>1 DEF Mixed, Positioned
  <2>5. /\ Scattered' <=> Scattered
        /\ Dropped' <=> Dropped
    BY RequestFrame
  <2>6. AstrayInJson' <=> AstrayInJson
    BY <2>1, <2>3, <2>4 DEF AstrayInJson
  <2>q. QED BY <2>1, <2>3, <2>5, <2>6 DEF Astray
<1>q. QED BY <1>1, <1>2, <1>3, <1>4, <1>5, <1>6

LEMMA QueueSame ==
  ASSUME NEW p \in Nat \ {0}, NEW queue \in Seq(HandleType), QueueOK(queue, p - 1), ~Queued(p)
  PROVE  QueueOK(queue, p)
<1>1. p - 1 \in Nat /\ p \in Nat /\ p - 1 <= p /\ \A q \in p - 1 + 1 .. p : q = p
  OBVIOUS
<1>2. \A q \in p - 1 + 1 .. p : ~Queued(q)
  BY <1>1
<1>3. PICK a : a = p - 1
  OBVIOUS
<1>q. QED BY <1>1, <1>2, <1>3, QueueGap

LEMMA QueueOne ==
  ASSUME NEW p \in Nat \ {0}, NEW queue \in Seq(HandleType), QueueOK(queue, p - 1), Queued(p)
  PROVE  /\ InternetOpenUrl(queue, p, BodyOf(p)) \in Seq(HandleType)
         /\ QueueOK(InternetOpenUrl(queue, p, BodyOf(p)), p)
<1>1. PICK a : a = p - 1
  OBVIOUS
<1>2. a \in Nat /\ a + 1 = p
  BY <1>1
<1>3. /\ InternetOpenUrl(queue, a + 1, BodyOf(a + 1)) \in Seq(HandleType)
      /\ QueueOK(InternetOpenUrl(queue, a + 1, BodyOf(a + 1)), a + 1)
  BY <1>1, <1>2, QueueNext
<1>q. QED BY <1>2, <1>3

LEMMA ItemQueued ==
  ASSUME RequestInv, ~QueuedTwice, ~BodyLost, ~req.worker, req.form # "json",
         NEW p \in 1 .. Count, net.queue \in Seq(HandleType), QueueOK(net.queue, p - 1)
  PROVE  QueueAfter(p) \in Seq(HandleType) /\ QueueOK(QueueAfter(p), p)
<1>1. /\ Given(p).by \in Ways(req.form) /\ p \in Nat \ {0} /\ p \in Positioned
      /\ Given(p).by \in Inline => Given(p).url = "ok"
      /\ Given(p).by = "fetched" => Given(p).url \in {"ok", "bodiless"}
      /\ Given(p).url = "bodiless" => Given(p).by = "fetched"
      /\ Given(p).by = "post" => Given(p).url # "cached"
  BY ItemFacts
<1>2. Given(p).by # "body" /\ Given(p).url # "bodiless" /\ req.form \in {"kvp", "xml", "xml2"}
  <2>1. req.form \in {"kvp", "xml", "xml2"}
    BY DEF RequestInv, Forms
  <2>2. req.form = "kvp" => Given(p).by \in {"value", "ref"}
    BY <1>1 DEF Ways
  <2>q. QED BY <1>1, <2>1, <2>2 DEF QueuedTwice, BodyLost, XmlForms
<1>3. Given(p).by \in {"value", "sized", "ref", "post", "fetched"}
  BY <1>1, <1>2 DEF Ways
<1>4. CASE Given(p).by \in Inline
  <2>1. QueueAfter(p) = net.queue
    BY <1>4 DEF QueueAfter, HrefQueued, Inline, Posting
  <2>2. ~Queued(p)
    BY <1>4 DEF Queued, Fetched
  <2>q. QED BY <1>1, <2>1, <2>2, QueueSame
<1>5. CASE Given(p).by = "ref"
  <2>1. QueueAfter(p) = LoadQueue(net.queue, p, 0)
    BY <1>5 DEF QueueAfter, HrefQueued, Posting
  <2>2. CASE Given(p).url = "cached"
    <3>1. QueueAfter(p) = net.queue /\ ~Queued(p)
      BY <2>1, <2>2 DEF LoadQueue, Queued
    <3>q. QED BY <1>1, <3>1, QueueSame
  <2>3. CASE Given(p).url # "cached"
    <3>1. QueueAfter(p) = InternetOpenUrl(net.queue, p, BodyOf(p)) /\ Queued(p)
      BY <1>5, <2>1, <2>3 DEF LoadQueue, AddRequestToQueue, BodyOf, Posting, Queued, Fetched, Inline
    <3>q. QED BY <1>1, <3>1, QueueOne
  <2>q. QED BY <2>2, <2>3
<1>6. CASE Given(p).by \in {"post", "fetched"}
  <2>1. QueueAfter(p) = InternetOpenUrl(net.queue, p, Body(p))
    BY <1>6 DEF QueueAfter, HrefQueued, Posting
  <2>2. Body(p) = BodyOf(p)
    BY <1>2, <1>6 DEF Body, BodyOf, Posting
  <2>3. Queued(p)
    BY <1>1, <1>6 DEF Queued, Fetched, Inline
  <2>q. QED BY <1>1, <2>1, <2>2, <2>3, QueueOne
<1>q. QED BY <1>3, <1>4, <1>5, <1>6 DEF Inline

LEMMA ItemReady ==
  ASSUME RequestInv, TypeInv, ~QueuedTwice, ~BodyLost, ~req.worker, req.form # "json",
         NEW p \in 1 .. Count, QueueOK(net.queue, p - 1)
  PROVE  Ready(Item(p), p) /\ Ready(ItemAgain(p), p)
<1>1. /\ Given(p).by \in Ways(req.form) /\ p \in Nat \ {0} /\ p \in Positioned
      /\ Given(p).by \in Inline => Given(p).url = "ok"
      /\ Given(p).by = "fetched" => Given(p).url \in {"ok", "bodiless"}
      /\ Given(p).by = "post" => Given(p).url # "cached"
  BY ItemFacts
<1>2. Len(QueueAfter(p)) = Rank(p)
  BY ItemQueued DEF TypeInv, NetType, QueueOK
<1>3. req.form \in {"kvp", "xml", "xml2"} /\ (req.form = "kvp" => Given(p).by \in {"value", "ref"})
  BY <1>1 DEF RequestInv, Forms, Ways
<1>4. PICK o : o = Occurrence(p)
  OBVIOUS
<1>5. o \in OccurrenceType
  BY <1>3, <1>4, ItemTypes DEF Item
<1>6. /\ o \in OccurrenceType
      /\ ~Fetched(p) => ValueOK(o, p)
      /\ Fetched(p) => /\ o.Reference = p /\ o.order = Rank(p)
                       /\ o.isCached => Given(p).url = "cached" /\ o.value = <<"file", p>>
                       /\ Given(p).url = "cached" => o.isCached
  <2>1. CASE req.form = "kvp" /\ Given(p).by = "value"
    <3>1. o = KvpValue(p) /\ ~Fetched(p)
      BY <1>4, <2>1 DEF Occurrence, Fetched, Inline, XmlForms
    <3>2. o.value = <<"own", p>> /\ o.Reference = 0
      BY <3>1 DEF KvpValue, NoOccurrence
    <3>3. o \in OccurrenceType
      BY <1>5
    <3>q. QED BY <3>1, <3>2, <3>3 DEF ValueOK
  <2>2. CASE req.form = "kvp" /\ Given(p).by = "ref"
    <3>1. o = KvpReference(p) /\ Fetched(p)
      BY <1>4, <2>2 DEF Occurrence, Fetched, Inline, XmlForms
    <3>3. /\ o.Reference = p /\ o.order = Rank(p)
          /\ o.isCached => Given(p).url = "cached" /\ o.value = <<"file", p>>
          /\ Given(p).url = "cached" => o.isCached
      BY <1>2, <3>1 DEF KvpReference, Load, NoOccurrence
    <3>q. QED BY <1>5, <3>1, <3>3
  <2>3. CASE req.form \in XmlForms /\ Given(p).by \in Inline
    <3>1. o = XmlData(p) /\ ~Fetched(p)
      BY <1>4, <2>3 DEF Occurrence, Fetched, XmlForms
    <3>2. o.value = <<"own", p>> /\ o.Reference = 0
      BY <3>1 DEF XmlData, NoOccurrence
    <3>q. QED BY <1>5, <3>1, <3>2 DEF ValueOK
  <2>4. CASE req.form \in XmlForms /\ Given(p).by \notin Inline
    <3>1. o = XmlReference(p) /\ Fetched(p)
      BY <1>4, <2>4 DEF Occurrence, Fetched, XmlForms
    <3>2. Given(p).by # "body"
      BY <1>1, <2>4 DEF QueuedTwice
    <3>4. CASE Given(p).by = "ref"
      <4>1. /\ o.Reference = p /\ o.order = Rank(p)
            /\ o.isCached => Given(p).url = "cached" /\ o.value = <<"file", p>>
            /\ Given(p).url = "cached" => o.isCached
        BY <1>2, <3>1, <3>4 DEF XmlReference, Load, NoOccurrence
      <4>q. QED BY <1>5, <3>1, <4>1
    <3>5. CASE Given(p).by # "ref"
      <4>1. o.Reference = p /\ o.order = Rank(p) /\ o.isCached = FALSE
        BY <1>2, <3>1, <3>2, <3>5 DEF XmlReference, NoOccurrence
      <4>2. Given(p).url # "cached"
        BY <1>1, <2>4, <3>2, <3>5 DEF Ways, XmlForms, Inline
      <4>q. QED BY <1>5, <3>1, <4>1, <4>2
    <3>q. QED BY <3>4, <3>5
  <2>q. QED BY <1>3, <2>1, <2>2, <2>3, <2>4 DEF XmlForms
<1>7. Ready(o, p)
  BY <1>6 DEF Ready, Queued
<1>8. Ready(Copied(o), p)
  BY <1>6, <1>7 DEF Ready, ValueOK, Copied, OccurrenceType
<1>q. QED BY <1>4, <1>7, <1>8 DEF Item, ItemAgain

LEMMA ItemSent ==
  ASSUME RequestInv, TypeInv, ~NotInMessage, ~BodyLost, req.worker, NEW p \in 1 .. Count
  PROVE  Sent(Item(p), p) /\ (IndexIn(p) > 0 => Sent(ItemAgain(p), p))
<1>1. /\ Given(p).by \in Ways(req.form) /\ p \in Nat \ {0} /\ p \in Positioned
      /\ Given(p).by \in Inline => Given(p).url = "ok"
      /\ Item(p) \in OccurrenceType /\ ItemAgain(p) \in OccurrenceType
  BY ItemFacts, ItemTypes
<1>2. /\ Given(p).by # "sized" /\ Given(p).url # "bodiless"
      /\ req.form # "json" => Given(p).url # "cached"
      /\ req.form \in XmlForms /\ Given(p).by \in Posting => ~(IndexIn(p) > 0)
  BY <1>1 DEF NotInMessage, BodyLost
<1>3. CASE req.form = "json"
  <2>1. Item(p) = JsonOccurrence(p) /\ ItemAgain(p) = JsonOccurrence(p)
    BY <1>3 DEF Item, ItemAgain
  <2>2. Given(p).by \in {"value", "ref", "body"}
    BY <1>1, <1>3 DEF Ways
  <2>3. Sent(JsonOccurrence(p), p)
    BY <1>1, <2>2 DEF JsonOccurrence, ParseNestedProcess, ParseJComplex, NoOccurrence, Sent, ValueOK,
                      Fetched, Inline, BodyOf, Posting
  <2>q. QED BY <2>1, <2>3
<1>4. CASE req.form # "json"
  <2>0. PICK o : o = Occurrence(p)
    OBVIOUS
  <2>1. Item(p) = o /\ ItemAgain(p) = Copied(o) /\ o \in OccurrenceType
    BY <1>1, <1>4, <2>0 DEF Item, ItemAgain
  <2>2. req.form \in {"kvp", "xml", "xml2"} /\ (req.form = "kvp" => Given(p).by \in {"value", "ref"})
    BY <1>1, <1>4 DEF RequestInv, Forms, Ways
  <2>3. CASE Given(p).by = "value"
    <3>1. o = KvpValue(p) \/ o = XmlData(p)
      BY <2>0, <2>2, <2>3 DEF Occurrence, Inline, XmlForms
    <3>2. ~o.size /\ ValueOK(o, p) /\ o.href = 0 /\ o.xlink = 0 /\ ~Fetched(p)
      BY <2>3, <3>1 DEF KvpValue, XmlData, WrittenOut, NoOccurrence, ValueOK, Fetched, Inline
    <3>3. Sent(o, p)
      BY <3>2 DEF Sent
    <3>4. Sent(Copied(o), p)
      BY <2>1, <3>2 DEF Sent, Copied, OccurrenceType, ValueOK
    <3>q. QED BY <2>1, <3>3, <3>4
  <2>4. CASE Given(p).by = "ref"
    <3>1. o = KvpReference(p) \/ o = XmlReference(p)
      BY <2>0, <2>2, <2>4 DEF Occurrence, Inline, XmlForms
    <3>2. /\ ~o.size /\ o.xlink = p /\ ~o.isCached /\ o.body = 0 /\ (o.href = p \/ o.href = 0)
          /\ Fetched(p) /\ BodyOf(p) = 0
      BY <1>1, <1>2, <1>4, <2>4, <3>1 DEF KvpReference, XmlReference, Load, NoOccurrence, Fetched, Inline, BodyOf, Posting
    <3>3. Sent(o, p)
      BY <1>1, <3>2 DEF Sent
    <3>4. Sent(Copied(o), p)
      BY <2>1, <3>2 DEF Sent, Copied, OccurrenceType
    <3>q. QED BY <2>1, <3>3, <3>4
  <2>5. CASE Given(p).by \in Posting
    <3>1. o = XmlReference(p) /\ req.form \in XmlForms /\ Fetched(p)
      BY <2>0, <2>2, <2>5 DEF Occurrence, Inline, XmlForms, Posting, Fetched
    <3>2. ~o.size /\ o.href = p /\ o.body = p /\ ~o.isCached /\ BodyOf(p) = p
      BY <1>1, <1>2, <1>4, <2>5, <3>1 DEF XmlReference, Load, NoOccurrence, Body, BodyOf
    <3>3. Sent(o, p)
      BY <1>1, <3>1, <3>2 DEF Sent
    <3>q. QED BY <1>2, <2>1, <2>5, <3>1, <3>3
  <2>6. Given(p).by \in {"value", "ref"} \union Posting
    BY <1>1, <1>2, <2>2 DEF Ways, Posting
  <2>q. QED BY <2>3, <2>4, <2>5, <2>6
<1>q. QED BY <1>3, <1>4

LEMMA ItemLinked ==
  ASSUME RequestInv, req.form = "json", NEW p \in 1 .. Count
  PROVE  Linked(Item(p), p) /\ Linked(ItemAgain(p), p)
<1>1. Given(p).by \in {"value", "ref", "body"}
  BY ItemFacts DEF Ways
<1>q. QED BY <1>1 DEF Item, ItemAgain, JsonOccurrence, ParseNestedProcess, ParseJComplex, NoOccurrence,
                      Linked, ValueOK, Fetched, Inline

LEMMA RequestsNext ==
  ASSUME NEW requests \in Seq(Nat), NEW p \in Nat \ {0}, RequestsOK(requests, p - 1)
  PROVE  /\ AddToJRequests(requests, p) \in Seq(Nat)
         /\ RequestsOK(AddToJRequests(requests, p), p)
<1>1. CASE Given(p).by \in Inline
  <2>1. AddToJRequests(requests, p) = requests /\ ~Fetched(p)
    BY <1>1 DEF AddToJRequests, Fetched
  <2>2. /\ \A i \in DOMAIN requests : requests[i] \in 1 .. p - 1 /\ Fetched(requests[i])
        /\ \A i, j \in DOMAIN requests : i < j => requests[i] < requests[j]
        /\ \A q \in 1 .. p - 1 : Fetched(q) => \E i \in DOMAIN requests : requests[i] = q
    BY DEF RequestsOK
  <2>3. \A q \in 1 .. p : q \in 1 .. p - 1 \/ q = p
    OBVIOUS
  <2>4. \A q \in 1 .. p - 1 : q \in 1 .. p
    OBVIOUS
  <2>5. RequestsOK(requests, p)
    BY <2>1, <2>2, <2>3, <2>4 DEF RequestsOK
  <2>q. QED BY <2>1, <2>5
<1>2. CASE Given(p).by \notin Inline
  <2>0. PICK r, n : r = Append(requests, p) /\ n = Len(requests)
    OBVIOUS
  <2>1. AddToJRequests(requests, p) = r /\ Fetched(p)
    BY <1>2, <2>0 DEF AddToJRequests, Fetched
  <2>2. /\ r \in Seq(Nat) /\ DOMAIN r = 1 .. n + 1 /\ DOMAIN requests = 1 .. n /\ n \in Nat
        /\ \A i \in 1 .. n : r[i] = requests[i]
        /\ r[n + 1] = p
    BY <2>0
  <2>3. \A i \in DOMAIN r : r[i] \in 1 .. p /\ Fetched(r[i])
    <3>1. ASSUME NEW i \in 1 .. n PROVE r[i] \in 1 .. p /\ Fetched(r[i])
      <4>1. requests[i] \in 1 .. p - 1 /\ Fetched(requests[i])
        BY <2>2 DEF RequestsOK
      <4>2. r[i] = requests[i]
        BY <2>2
      <4>q. QED BY <4>1, <4>2
    <3>2. ASSUME NEW i, i = n + 1 PROVE r[i] \in 1 .. p /\ Fetched(r[i])
      BY <2>1, <2>2, <3>2
    <3>q. QED BY <2>2, <3>1, <3>2
  <2>4. \A i, j \in DOMAIN r : i < j => r[i] < r[j]
    <3>1. ASSUME NEW i \in DOMAIN r, NEW j \in DOMAIN r, i < j PROVE r[i] < r[j]
      <4>1. i \in 1 .. n
        BY <2>2, <3>1
      <4>2. CASE j \in 1 .. n
        BY <2>2, <3>1, <4>1, <4>2 DEF RequestsOK
      <4>3. CASE j = n + 1
        BY <2>2, <4>1, <4>3 DEF RequestsOK
      <4>q. QED BY <2>2, <4>2, <4>3
    <3>q. QED BY <3>1
  <2>5. \A q \in 1 .. p : Fetched(q) => \E i \in DOMAIN r : r[i] = q
    <3>1. ASSUME NEW q \in 1 .. p - 1, Fetched(q) PROVE \E i \in DOMAIN r : r[i] = q
      <4>1. PICK i \in DOMAIN requests : requests[i] = q
        BY <3>1 DEF RequestsOK
      <4>q. QED BY <2>2, <4>1
    <3>2. n + 1 \in DOMAIN r
      BY <2>2
    <3>3. \A q \in 1 .. p : q \in 1 .. p - 1 \/ q = p
      OBVIOUS
    <3>q. QED BY <2>2, <3>1, <3>2, <3>3
  <2>q. QED BY <2>1, <2>2, <2>3, <2>4, <2>5 DEF RequestsOK
<1>q. QED BY <1>1, <1>2

-----------------------------------------------------------------------------
(* The answers of the downloads.                                           *)

AnswersOK(queue) ==
  /\ Len(queue) = Rank(Count)
  /\ \A p \in 1 .. Count : Queued(p) =>
       /\ Rank(p) \in DOMAIN queue
       /\ queue[Rank(p)].answer \in {<<"file", p>>, <<"error", p>>}
       /\ queue[Rank(p)].answer = <<"error", p>> => BadAnswer \/ HeadersMissing
       /\ Given(p).url = "broken" => queue[Rank(p)].answer = <<"error", p>>

Downloaded(queue) == ProcessDownloads(AddHeaderEntries(queue))

LEMMA HeadersType ==
  ASSUME NEW queue \in Seq(HandleType), NEW n \in DOMAIN queue
  PROVE  AttributesLeft(queue, n) \in Seq(STRING)
<1>1. Attributes \in Seq(STRING) /\ <<>> \in Seq(STRING)
  BY InputsAssumption
<1>2. Len(Attributes) > 1 => SubSeq(Attributes, 1, 1) \in Seq(STRING)
  <2>1. ASSUME NEW s \in Seq(STRING), Len(s) > 1 PROVE SubSeq(s, 1, 1) \in Seq(STRING)
    BY <2>1
  <2>q. QED BY <1>1, <2>1
<1>q. QED BY <1>1, <1>2 DEF AttributesLeft

LEMMA HandleWithHeader ==
  ASSUME NEW queue \in Seq(HandleType), NEW n \in DOMAIN queue
  PROVE  LET h == AddHeaderEntries(queue)[n] IN
         /\ h \in HandleType /\ h.url = queue[n].url /\ h.body = queue[n].body
         /\ h.header = IF IsProtectedHost(queue[n]) THEN queue[n].header \o AttributesLeft(queue, n)
                                                    ELSE queue[n].header
<1>1. queue[n] \in HandleType
  OBVIOUS
<1>2. PICK keys \in Seq(STRING) : keys = AttributesLeft(queue, n)
  BY HeadersType
<1>3. AddHeaderEntries(queue)[n] = IF IsProtectedHost(queue[n])
                                   THEN AddMissingHeaderEntry(queue[n], keys) ELSE queue[n]
  BY <1>2 DEF AddHeaderEntries
<1>4. /\ AddMissingHeaderEntry(queue[n], keys) \in HandleType
      /\ AddMissingHeaderEntry(queue[n], keys).url = queue[n].url
      /\ AddMissingHeaderEntry(queue[n], keys).body = queue[n].body
      /\ AddMissingHeaderEntry(queue[n], keys).header = queue[n].header \o keys
  <2>1. PICK h : h = queue[n]
    OBVIOUS
  <2>2. h \in HandleType /\ h.header \in Seq(STRING)
    BY <1>1, <2>1 DEF HandleType
  <2>3. PICK t : t = h.header \o keys
    OBVIOUS
  <2>4. t \in Seq(STRING)
    BY <2>2, <2>3
  <2>5. AddMissingHeaderEntry(h, keys) = [h EXCEPT !.header = t]
    BY <2>3 DEF AddMissingHeaderEntry
  <2>6. /\ [h EXCEPT !.header = t] \in HandleType /\ [h EXCEPT !.header = t].header = t
        /\ [h EXCEPT !.header = t].url = h.url /\ [h EXCEPT !.header = t].body = h.body
    BY <2>2, <2>4 DEF HandleType
  <2>q. QED BY <2>1, <2>3, <2>5, <2>6
<1>5. CASE IsProtectedHost(queue[n])
  <2>1. AddHeaderEntries(queue)[n] = AddMissingHeaderEntry(queue[n], keys)
    BY <1>3, <1>5
  <2>q. QED BY <1>2, <1>4, <1>5, <2>1
<1>6. CASE ~IsProtectedHost(queue[n])
  <2>1. AddHeaderEntries(queue)[n] = queue[n]
    BY <1>3, <1>6
  <2>q. QED BY <1>1, <1>6, <2>1
<1>q. QED BY <1>5, <1>6

LEMMA DownloadedType ==
  ASSUME NEW queue \in Seq(HandleType)
  PROVE  /\ Downloaded(queue) \in Seq(HandleType) /\ Len(Downloaded(queue)) = Len(queue)
         /\ DOMAIN Downloaded(queue) = DOMAIN queue
         /\ \A n \in DOMAIN queue :
              Downloaded(queue)[n].answer = <<Served(AddHeaderEntries(queue)[n]), queue[n].url>>
<1>1. DOMAIN queue = 1 .. Len(queue) /\ Len(queue) \in Nat /\ DOMAIN AddHeaderEntries(queue) = DOMAIN queue
  BY DEF AddHeaderEntries
<1>2. PICK hs : hs = AddHeaderEntries(queue)
  OBVIOUS
<1>3. Downloaded(queue) = [n \in DOMAIN queue |-> [hs[n] EXCEPT !.answer = <<Served(hs[n]), hs[n].url>>]]
  BY <1>1, <1>2 DEF Downloaded, ProcessDownloads
<1>4. \A h : Served(h) \in {"error", "file", "other"}
  BY DEF Served
<1>5. ASSUME NEW n \in DOMAIN queue
      PROVE  /\ [hs[n] EXCEPT !.answer = <<Served(hs[n]), hs[n].url>>] \in HandleType
             /\ [hs[n] EXCEPT !.answer = <<Served(hs[n]), hs[n].url>>].answer = <<Served(hs[n]), queue[n].url>>
  <2>1. hs[n] \in HandleType /\ hs[n].url = queue[n].url
    BY <1>2, HandleWithHeader
  <2>2. PICK h, c : h = hs[n] /\ c = Served(h)
    OBVIOUS
  <2>3. h \in HandleType /\ c \in {"error", "file", "other"} /\ h.url = queue[n].url
    BY <1>4, <2>1, <2>2
  <2>4. /\ [h EXCEPT !.answer = <<c, h.url>>] \in HandleType
        /\ [h EXCEPT !.answer = <<c, h.url>>].answer = <<c, h.url>>
    BY <2>3 DEF HandleType, Content
  <2>q. QED BY <2>2, <2>3, <2>4
<1>6. PICK d : d = Downloaded(queue)
  OBVIOUS
<1>7. /\ DOMAIN d = 1 .. Len(queue)
      /\ \A n \in DOMAIN queue : d[n] \in HandleType /\ d[n].answer = <<Served(hs[n]), queue[n].url>>
      /\ d = [n \in 1 .. Len(queue) |-> d[n]]
  BY <1>1, <1>3, <1>5, <1>6
<1>8. d \in Seq(HandleType) /\ Len(d) = Len(queue)
  BY <1>1, <1>7
<1>q. QED BY <1>1, <1>2, <1>6, <1>7, <1>8

LEMMA Answered ==
  ASSUME RequestInv, NEW queue \in Seq(HandleType), QueueOK(queue, Count)
  PROVE  AnswersOK(Downloaded(queue))
<1>1. Len(Downloaded(queue)) = Rank(Count)
  BY DownloadedType DEF QueueOK
<1>2. ASSUME NEW p \in 1 .. Count, Queued(p)
      PROVE  LET a == Downloaded(queue)[Rank(p)].answer IN
             /\ Rank(p) \in DOMAIN Downloaded(queue)
             /\ a \in {<<"file", p>>, <<"error", p>>}
             /\ a = <<"error", p>> => BadAnswer \/ HeadersMissing
             /\ Given(p).url = "broken" => a = <<"error", p>>
  <2>1. PICK n \in DOMAIN queue : n = Rank(p) /\ queue[n].url = p
    BY <1>2 DEF QueueOK
  <2>2. queue[n].body = BodyOf(p) /\ queue[n].header = <<>>
    BY <2>1 DEF QueueOK
  <2>3. PICK h : h = AddHeaderEntries(queue)[n]
    OBVIOUS
  <2>4. /\ h.url = p /\ h.body = BodyOf(p)
        /\ Given(p).url = "guarded" => h.header = <<>> \o AttributesLeft(queue, n)
    BY <2>1, <2>2, <2>3, HandleWithHeader DEF IsProtectedHost
  <2>5. (Given(h.url).by \in Posting) = (h.body = h.url)
    BY <1>2, <2>4, ItemFacts DEF BodyOf
  <2>6. /\ Served(h) \in {"file", "error"}
        /\ Given(p).url = "broken" => Served(h) = "error"
        /\ Served(h) = "error" => Given(p).url = "broken" \/ (Given(p).url = "guarded" /\ h.header # Attributes)
    BY <2>4, <2>5 DEF Served
  <2>7. p \in Positioned
    BY ItemFacts
  <2>8. Given(p).url = "broken" => BadAnswer
    BY <2>7 DEF BadAnswer
  <2>9. ASSUME Given(p).url = "guarded", h.header # Attributes PROVE HeadersMissing
    <3>1. CASE req.worker
      BY <2>7, <2>9, <3>1 DEF HeadersMissing
    <3>2. CASE ~req.worker
      <4>1. AttributesLeft(queue, n) # Attributes
        <5>1. Attributes \in Seq(STRING)
          BY InputsAssumption
        <5>q. QED BY <2>4, <2>9, <5>1
      <4>2. Len(Attributes) > 1 /\ \E i \in 1 .. n - 1 : IsProtectedHost(queue[i])
        BY <3>2, <4>1 DEF AttributesLeft
      <4>3. PICK i \in 1 .. n - 1 : IsProtectedHost(queue[i])
        BY <4>2
      <4>4. i \in DOMAIN queue /\ i # n
        BY <2>1
      <4>5. PICK q : q = queue[i].url
        OBVIOUS
      <4>6. q \in 1 .. Count /\ Rank(q) = i /\ Given(q).url = "guarded"
        BY <4>3, <4>4, <4>5 DEF QueueOK, IsProtectedHost
      <4>7. q # p /\ q \in Positioned
        BY <2>1, <4>4, <4>6, ItemFacts
      <4>q. QED BY <2>7, <2>9, <4>2, <4>6, <4>7 DEF HeadersMissing
    <3>q. QED BY <3>1, <3>2
  <2>10. Downloaded(queue)[n].answer = <<Served(h), p>> /\ n \in DOMAIN Downloaded(queue)
    BY <2>1, <2>3, DownloadedType
  <2>11. <<"file", p>> # <<"error", p>>
    OBVIOUS
  <2>12. <<Served(h), p>> = <<"error", p>> => Served(h) = "error"
    OBVIOUS
  <2>q. QED BY <2>1, <2>6, <2>8, <2>9, <2>10, <2>12
<1>q. QED BY <1>1, <1>2 DEF AnswersOK

-----------------------------------------------------------------------------
(* The steps after the parse keep the shape of the inputs.                 *)

LEMMA PutInside ==
  ASSUME NEW js \in Seq(InputType), NEW k \in DOMAIN js, NEW i \in 0 .. MaxArguments - 1,
         NEW o \in OccurrenceType, NEW ls, ls = WithOccurrence(js, k, i, o)
  PROVE  /\ ls \in Seq(InputType) /\ Len(ls) = Len(js) /\ DOMAIN ls = DOMAIN js
         /\ \A j \in DOMAIN js : ls[j].name = js[j].name /\ ls[j].length = js[j].length
         /\ \A j \in DOMAIN js : j # k => ls[j].occ = js[j].occ
         /\ \A m \in 0 .. MaxArguments - 1 : ls[k].occ[m] = IF m = i THEN o ELSE js[k].occ[m]
<1>. DEFINE x == [js[k] EXCEPT !.occ = [js[k].occ EXCEPT ![i] = o]]
<1>1. js[k] \in InputType
  OBVIOUS
<1>2. /\ x \in InputType /\ x.name = js[k].name /\ x.length = js[k].length
      /\ \A m \in 0 .. MaxArguments - 1 : x.occ[m] = IF m = i THEN o ELSE js[k].occ[m]
  BY <1>1 DEF InputType
<1>3. ls = [js EXCEPT ![k] = x]
  BY DEF WithOccurrence
<1>. HIDE DEF x
<1>4. /\ ls \in Seq(InputType) /\ Len(ls) = Len(js) /\ DOMAIN ls = DOMAIN js
      /\ ls[k] = x /\ \A j \in DOMAIN js : j # k => ls[j] = js[j]
  BY <1>2, <1>3
<1>q. QED BY <1>2, <1>4

LEMMA PutOutside ==
  ASSUME NEW js \in Seq(InputType), NEW k, NEW i, ~(k \in DOMAIN js /\ i \in 0 .. MaxArguments - 1),
         NEW o
  PROVE  WithOccurrence(js, k, i, o) = js
<1>1. CASE k \notin DOMAIN js
  BY <1>1 DEF WithOccurrence
<1>2. CASE k \in DOMAIN js /\ i \notin 0 .. MaxArguments - 1
  <2>1. js[k] \in InputType
    BY <1>2
  <2>2. [js[k].occ EXCEPT ![i] = o] = js[k].occ
    BY <1>2, <2>1 DEF InputType
  <2>3. [js[k] EXCEPT !.occ = js[k].occ] = js[k]
    BY <2>1 DEF InputType
  <2>4. WithOccurrence(js, k, i, o) = [js EXCEPT ![k] = js[k]]
    BY <2>2, <2>3 DEF WithOccurrence
  <2>q. QED BY <1>2, <2>4
<1>q. QED BY <1>1, <1>2

LEMMA PutKeeps ==
  ASSUME TypeInv, NEW js, SameShape(js), NEW k, NEW i,
         NEW o, k \in DOMAIN js /\ i \in 0 .. MaxArguments - 1 => o \in OccurrenceType
  PROVE  SameShape(WithOccurrence(js, k, i, o))
<1>1. js \in Seq(InputType)
  BY DEF SameShape
<1>2. CASE ~(k \in DOMAIN js /\ i \in 0 .. MaxArguments - 1)
  BY <1>1, <1>2, PutOutside
<1>3. CASE k \in DOMAIN js /\ i \in 0 .. MaxArguments - 1
  <2>1. PICK ls : ls = WithOccurrence(js, k, i, o)
    OBVIOUS
  <2>2. /\ ls \in Seq(InputType) /\ Len(ls) = Len(js) /\ DOMAIN ls = DOMAIN js
        /\ \A j \in DOMAIN js : ls[j].name = js[j].name /\ ls[j].length = js[j].length
    BY <1>1, <1>3, <2>1, PutInside
  <2>3. SameShape(ls)
    BY <2>2 DEF SameShape
  <2>q. QED BY <2>1, <2>3
<1>q. QED BY <1>2, <1>3

LEMMA CellType ==
  ASSUME NEW js \in Seq(InputType), NEW k \in DOMAIN js, NEW i \in 0 .. MaxArguments - 1
  PROVE  js[k].occ[i] \in OccurrenceType
<1>1. js[k] \in InputType
  OBVIOUS
<1>q. QED BY <1>1 DEF InputType

Marked(o, n, p) == [o EXCEPT !.order = n, !.Reference = p]

LEMMA MarkedType ==
  ASSUME NEW o \in OccurrenceType, NEW n \in Nat, NEW p \in Nat
  PROVE  Marked(o, n, p) \in OccurrenceType
BY DEF OccurrenceType, Marked

NetWith(n, queue, array) == [n EXCEPT !.queue = queue, !.array = array]

LEMMA NetWithType ==
  ASSUME NEW n \in NetType, NEW queue \in Seq(HandleType), NEW array \in Nat
  PROVE  /\ NetWith(n, queue, array) \in NetType
         /\ NetWith(n, queue, array).queue = queue /\ NetWith(n, queue, array).array = array
         /\ NetWith(n, queue, array).requests = n.requests
         /\ NetWith(n, queue, array).read = n.read /\ NetWith(n, queue, array).failed = n.failed
BY DEF NetType, NetWith

LEMMA ValueType ==
  ASSUME NEW o \in OccurrenceType, NEW c \in Content
  PROVE  [o EXCEPT !.value = c] \in OccurrenceType
BY DEF OccurrenceType

LEMMA LoadTypes ==
  ASSUME TypeInv, LoadHttpRequest
  PROVE  SameShape(ins') /\ net' \in NetType
<1>1. PICK p, k, i, queue, js, m :
        /\ p = net.requests[at] /\ k = IndexOf(Given(p).name)
        /\ i = IF ins[k].length = 0 THEN 0 ELSE ArrayIndex
        /\ queue = LoadQueue(net.queue, p, BodyAt(Len(net.queue)))
        /\ js = WithOccurrence(ins, k, 0, Load(ins[k].occ[0], p))
        /\ m = IF ins[k].length = 0 THEN ArrayIndex ELSE i + 1
        /\ ins' = WithOccurrence(js, k, i, Marked(js[k].occ[i], Len(queue), p))
        /\ net' = NetWith(net, queue, m)
  BY DEF LoadHttpRequest, Marked, NetWith
<1>2. /\ net \in NetType /\ net.requests \in Seq(Nat) /\ net.queue \in Seq(HandleType)
      /\ net.array \in Nat /\ at \in Nat \ {0} /\ at <= Len(net.requests) /\ ins \in Seq(InputType)
  BY DEF TypeInv, NetType, LoadHttpRequest
<1>3. p \in Nat
  <2>1. p = net.requests[at]
    BY <1>1
  <2>q. QED BY <1>2, <2>1
<1>4. queue \in Seq(HandleType)
  <2>1. BodyAt(Len(net.queue)) \in Nat
    <3>1. Len(net.queue) \in Nat /\ Len(net.requests) \in Nat
      BY <1>2
    <3>2. Len(net.queue) < Len(net.requests) => net.requests[Len(net.queue) + 1] \in Nat
      BY <1>2, <3>1
    <3>q. QED BY <3>2 DEF BodyAt
  <2>q. QED BY <1>1, <1>2, <1>3, <2>1, QueueType
<1>5. ArrayIndex \in Nat
  BY <1>2 DEF ArrayIndex
<1>6. SameShape(js)
  <2>1. PICK o : o = Load(ins[k].occ[0], p)
    OBVIOUS
  <2>2. k \in DOMAIN ins /\ 0 \in 0 .. MaxArguments - 1 => o \in OccurrenceType
    BY <1>2, <1>3, <2>1, CellType, LoadType
  <2>q. QED BY <1>1, <2>1, <2>2, SameShapeOfIns, PutKeeps
<1>7. SameShape(ins')
  <2>1. PICK n, o : n = Len(queue) /\ o = Marked(js[k].occ[i], n, p)
    OBVIOUS
  <2>2. k \in DOMAIN js /\ i \in 0 .. MaxArguments - 1 => o \in OccurrenceType
    <3>1. js \in Seq(InputType) /\ n \in Nat
      BY <1>4, <1>6, <2>1 DEF SameShape
    <3>q. QED BY <1>3, <2>1, <3>1, CellType, MarkedType
  <2>3. ins' = WithOccurrence(js, k, i, o)
    BY <1>1, <2>1
  <2>q. QED BY <1>6, <2>2, <2>3, PutKeeps
<1>8. m \in Nat
  <2>1. m = (IF ins[k].length = 0 THEN ArrayIndex ELSE i + 1) /\ (i = 0 \/ i = ArrayIndex)
    BY <1>1
  <2>q. QED BY <1>5, <2>1
<1>q. QED BY <1>1, <1>2, <1>4, <1>7, <1>8, NetWithType

LEMMA PublishTypes ==
  ASSUME TypeInv, Publish
  PROVE  SameShape(ins') /\ net' \in NetType
<1>1. ins \in Seq(InputType) /\ net \in NetType /\ Len(ins) \in Nat /\ DOMAIN ins = 1 .. Len(ins)
  BY DEF TypeInv
<1>2. PICK js : js = ins'
  OBVIOUS
<1>3. js = [k \in DOMAIN ins |-> IF ins[k].length = 0 /\ ins[k].occ[0].size
                                 THEN [ins[k] EXCEPT !.occ[0].value = None] ELSE ins[k]]
  BY <1>2 DEF Publish
<1>4. ASSUME NEW x \in InputType
      PROVE  /\ [x EXCEPT !.occ[0].value = None] \in InputType
             /\ [x EXCEPT !.occ[0].value = None].name = x.name
             /\ [x EXCEPT !.occ[0].value = None].length = x.length
  <2>1. None \in Content
    BY DEF None, Content
  <2>2. \A o \in OccurrenceType : [o EXCEPT !.value = None] \in OccurrenceType
    BY <2>1, ValueType
  <2>3. [x.occ EXCEPT ![0] = [x.occ[0] EXCEPT !.value = None]] \in [0 .. MaxArguments - 1 -> OccurrenceType]
    BY <2>2 DEF InputType
  <2>q. QED BY <2>3 DEF InputType
<1>5. ASSUME NEW k \in DOMAIN ins
      PROVE  js[k] \in InputType /\ js[k].name = ins[k].name /\ js[k].length = ins[k].length
  <2>1. PICK x : x = ins[k]
    OBVIOUS
  <2>2. x \in InputType /\ (js[k] = x \/ js[k] = [x EXCEPT !.occ[0].value = None])
    BY <1>1, <1>3, <2>1
  <2>q. QED BY <1>4, <2>1, <2>2
<1>6. js \in Seq(InputType) /\ Len(js) = Len(ins) /\ DOMAIN js = DOMAIN ins
  <2>1. js = [k \in 1 .. Len(ins) |-> js[k]]
    BY <1>1, <1>3
  <2>q. QED BY <1>1, <1>5, <2>1
<1>7. net' \in NetType
  <2>1. PICK n : n = net
    OBVIOUS
  <2>2. net' = [n EXCEPT !.queue = <<>>]
    BY <2>1 DEF Publish, InternetOpen
  <2>3. n \in NetType /\ <<>> \in Seq(HandleType)
    BY <1>1, <2>1
  <2>4. [n EXCEPT !.queue = <<>>] \in NetType
    BY <2>3 DEF NetType
  <2>q. QED BY <2>2, <2>4
<1>q. QED BY <1>2, <1>5, <1>6, <1>7 DEF SameShape

(* The loops over the occurrences of the inputs.                           *)
CursorOK == at \in 1 .. Len(ins) + 1 /\ (at <= Len(ins) => idx < Occurrences(at))

LEMMA ShapeKeeps ==
  ASSUME UNCHANGED req, TypeInv, InsOK, SameShape(ins'), net' \in NetType,
         at' \in Nat \ {0}, idx' \in Nat, Done' = Done
  PROVE  /\ TypeInv' /\ InsOK'
         /\ \A k \in DOMAIN ins : Occurrences(k)' = Occurrences(k)
<1>1. TypeInv'
  BY DEF SameShape, TypeInv
<1>2. /\ DOMAIN ins' = DOMAIN ins /\ Len(ins') = Len(ins)
      /\ \A k \in DOMAIN ins : ins'[k].name = ins[k].name /\ ins'[k].length = ins[k].length
  BY DEF SameShape
<1>3. InsOK'
  BY <1>1, <1>2, InsFrame
<1>4. \A k \in DOMAIN ins : Occurrences(k)' = Occurrences(k)
  BY <1>2 DEF Occurrences
<1>q. QED BY <1>1, <1>3, <1>4

LEMMA CursorMoves ==
  ASSUME TypeInv, CursorOK, at <= Len(ins), SameShape(ins'),
         NextOccurrence \/ (at' = at + 1 /\ idx' = 0)
  PROVE  at' \in Nat \ {0} /\ idx' \in Nat /\ CursorOK'
<1>1. /\ Len(ins') = Len(ins) /\ Len(ins) \in Nat /\ DOMAIN ins = 1 .. Len(ins)
      /\ at \in Nat \ {0} /\ idx \in Nat
      /\ \A k \in DOMAIN ins : ins'[k].length = ins[k].length
  BY DEF SameShape, TypeInv
<1>2. \A k \in DOMAIN ins : Occurrences(k)' = Occurrences(k) /\ Occurrences(k) \in Nat \ {0}
  BY <1>1, OccurrencesType DEF Occurrences
<1>3. at \in DOMAIN ins /\ (at' \in DOMAIN ins \/ at' = Len(ins) + 1) /\ at' \in 1 .. Len(ins) + 1
  BY <1>1 DEF CursorOK, NextOccurrence
<1>4. CASE at' = at /\ idx' = idx + 1 /\ idx + 1 < Occurrences(at)
  <2>1. Occurrences(at)' = Occurrences(at)
    <3>1. PICK k \in DOMAIN ins : k = at
      BY <1>3
    <3>2. Occurrences(k)' = Occurrences(k)
      BY <1>2
    <3>q. QED BY <1>4, <3>1, <3>2 DEF Occurrences
  <2>q. QED BY <1>1, <1>3, <1>4, <2>1 DEF CursorOK
<1>5. CASE at' = at + 1 /\ idx' = 0
  <2>1. at' \in DOMAIN ins => 0 < Occurrences(at)'
    <3>1. SUFFICES ASSUME at' \in DOMAIN ins PROVE 0 < Occurrences(at)'
      OBVIOUS
    <3>2. PICK k \in DOMAIN ins : k = at'
      BY <3>1
    <3>3. Occurrences(at)' = Occurrences(k)'
      BY <3>2 DEF Occurrences
    <3>q. QED BY <1>2, <3>2, <3>3
  <2>q. QED BY <1>1, <1>3, <1>5, <2>1 DEF CursorOK
<1>6. \/ at' = at /\ idx' = idx + 1 /\ idx + 1 < Occurrences(at)
      \/ at' = at + 1 /\ idx' = 0
  BY DEF NextOccurrence
<1>q. QED BY <1>4, <1>5, <1>6

LEMMA HereType ==
  ASSUME RequestInv, TypeInv, InsOK, CursorOK, at <= Len(ins), Done = Count
  PROVE  /\ at \in DOMAIN ins /\ idx \in 0 .. Occurrences(at) - 1 /\ idx \in 0 .. MaxArguments - 1
         /\ Here \in OccurrenceType
<1>1. /\ at \in DOMAIN ins /\ Len(ins) \in Nat /\ idx \in Nat /\ ins \in Seq(InputType)
      /\ Count \in Nat /\ Count <= MaxArguments /\ MaxArguments \in Nat
  BY ItemFacts DEF TypeInv, CursorOK
<1>2. PICK k \in DOMAIN ins : k = at
  BY <1>1
<1>3. Occurrences(k) \in Nat \ {0} /\ Occurrences(k) <= Count
  BY OccurrencesType DEF InsOK, NamesOK
<1>4. idx < Occurrences(k)
  BY <1>1, <1>2 DEF CursorOK
<1>5. PICK m : m = Occurrences(k)
  OBVIOUS
<1>6. idx \in 0 .. m - 1 /\ idx \in 0 .. MaxArguments - 1
  BY <1>1, <1>3, <1>4, <1>5
<1>7. ins[k].occ[idx] \in OccurrenceType
  BY <1>1, <1>6, CellType
<1>q. QED BY <1>1, <1>2, <1>5, <1>6, <1>7 DEF Here

LEMMA AgainTypes ==
  ASSUME RequestInv, TypeInv, InsOK, CursorOK, Done = Count, RequestAgain
  PROVE  /\ SameShape(ins') /\ net' \in NetType
         /\ at' \in Nat \ {0} /\ idx' \in Nat /\ CursorOK'
<1>1. at <= Len(ins) /\ NextOccurrence
  BY DEF RequestAgain, Walking
<1>2. PICK o : o = Here
  OBVIOUS
<1>3. /\ o \in OccurrenceType
      /\ net \in NetType /\ net.queue \in Seq(HandleType) /\ net.array \in Nat
  BY <1>1, <1>2, HereType DEF TypeInv, NetType
<1>4. PICK url, q : url = (IF o.href # 0 THEN o.href ELSE o.xlink) /\ q = InternetOpenUrl(net.queue, url, o.body)
  OBVIOUS
<1>5. url \in Nat /\ o.body \in Nat
  BY <1>3, <1>4 DEF OccurrenceType
<1>6. q \in Seq(HandleType) /\ Len(net.queue) + 1 \in Nat
  <2>1. q = InternetOpenUrl(net.queue, url, o.body)
    BY <1>4
  <2>q. QED BY <1>3, <1>5, <2>1, QueueType
<1>7. CASE UNCHANGED <<ins, net>>
  <2>1. SameShape(ins') /\ net' \in NetType
    BY <1>3, <1>7, SameShapeOfIns
  <2>q. QED BY <1>1, <2>1, CursorMoves
<1>8. CASE ~UNCHANGED <<ins, net>>
  <2>1. PICK n, c : n = Len(net.queue) + 1 /\ c = Marked(o, n, url)
    OBVIOUS
  <2>2. ins' = WithOccurrence(ins, at, idx, c)
    BY <1>2, <1>4, <1>8, <2>1 DEF RequestAgain, Marked
  <2>3. net' = NetWith(net, q, net.array)
    <3>1. net' = [net EXCEPT !.queue = q]
      BY <1>2, <1>4, <1>8 DEF RequestAgain
    <3>2. \A m \in NetType : [m EXCEPT !.queue = q] = NetWith(m, q, m.array)
      BY DEF NetWith, NetType
    <3>q. QED BY <1>3, <3>1, <3>2
  <2>4. c \in OccurrenceType
    BY <1>3, <1>5, <1>6, <2>1, MarkedType
  <2>5. SameShape(ins')
    BY <2>2, <2>4, SameShapeOfIns, PutKeeps
  <2>6. net' \in NetType
    BY <1>3, <1>6, <2>3, NetWithType
  <2>q. QED BY <1>1, <2>5, <2>6, CursorMoves
<1>q. QED BY <1>7, <1>8

LEMMA ReadTypes ==
  ASSUME RequestInv, TypeInv, InsOK, CursorOK, Done = Count, ReadOccurrence
  PROVE  /\ SameShape(ins') /\ net' \in NetType
         /\ at' \in Nat \ {0} /\ idx' \in Nat /\ CursorOK'
<1>1. at <= Len(ins) /\ (NextOccurrence \/ (at' = at + 1 /\ idx' = 0))
  BY DEF ReadOccurrence, Walking
<1>2. PICK o : o = Here
  OBVIOUS
<1>3. /\ o \in OccurrenceType /\ net \in NetType /\ net.queue \in Seq(HandleType) /\ net.read \in Nat
  BY <1>1, <1>2, HereType DEF TypeInv, NetType
<1>4. o.order \in Nat \ {0}
  BY <1>2, <1>3 DEF ReadOccurrence, Due
<1>5. PICK content \in InternetReadFile(net.queue, o.order) : ins' = WithOccurrence(ins, at, idx, [o EXCEPT !.value = content])
  BY <1>2 DEF ReadOccurrence
<1>6. content \in Content
  <2>1. CASE o.order > Len(net.queue)
    BY <1>5, <2>1 DEF InternetReadFile, Content
  <2>2. CASE ~(o.order > Len(net.queue))
    <3>1. o.order \in DOMAIN net.queue
      BY <1>3, <1>4, <2>2
    <3>2. net.queue[o.order] \in HandleType
      BY <1>3, <3>1
    <3>3. content = net.queue[o.order].answer
      BY <1>5, <2>2 DEF InternetReadFile
    <3>q. QED BY <3>2, <3>3 DEF HandleType
  <2>q. QED BY <2>1, <2>2
<1>7. SameShape(ins')
  <2>1. PICK c : c = [o EXCEPT !.value = content]
    OBVIOUS
  <2>2. c \in OccurrenceType
    BY <1>3, <1>6, <2>1, ValueType
  <2>3. ins' = WithOccurrence(ins, at, idx, c)
    BY <1>5, <2>1
  <2>q. QED BY <2>2, <2>3, SameShapeOfIns, PutKeeps
<1>8. net' \in NetType
  <2>1. net' = [net EXCEPT !.read = @ + 1] \/ net' = [net EXCEPT !.failed = TRUE]
    BY DEF ReadOccurrence
  <2>2. ASSUME NEW n \in NetType
        PROVE  [n EXCEPT !.read = @ + 1] \in NetType /\ [n EXCEPT !.failed = TRUE] \in NetType
    <3>1. n.read + 1 \in Nat
      BY DEF NetType
    <3>2. [n EXCEPT !.read = n.read + 1] \in NetType
      BY <3>1 DEF NetType
    <3>3. [n EXCEPT !.failed = TRUE] \in NetType
      BY DEF NetType
    <3>q. QED BY <3>2, <3>3
  <2>q. QED BY <1>3, <2>1, <2>2
<1>q. QED BY <1>1, <1>7, <1>8, CursorMoves

-----------------------------------------------------------------------------
(* Types, names and numbers of occurrences, whatever goes astray.          *)

Parsing == {"parse"} \union Waiting

ShapeInv ==
  /\ RequestInv
  /\ pc \in Parsing => TypeInv /\ InsOK
  /\ pc = "parse" => at \in 1 .. Count + 1
  /\ pc \in {"requeue", "read"} => CursorOK

LEMMA ShapeInit == Init => ShapeInv
<1>1. SUFFICES ASSUME Init PROVE ShapeInv
  OBVIOUS
<1>2. RequestInv
  BY <1>1, RequestInit
<1>3. /\ pc = "parse" /\ at = 1 /\ idx = 0 /\ ins = <<>>
      /\ net = [requests |-> <<>>, queue |-> <<>>, read |-> 0, array |-> 0, failed |-> FALSE]
  BY <1>1 DEF Init, InitInputs, InternetOpen
<1>4. TypeInv
  BY <1>3 DEF TypeInv, NetType
<1>5. Done = 0 /\ DOMAIN ins = {}
  BY <1>3 DEF Done
<1>6. InsOK
  <2>2. NamesOK
    BY <1>5 DEF NamesOK
  <2>3. CountsOK
    BY <1>5 DEF CountsOK
  <2>4. BlocksOK
    BY <1>3, <1>5 DEF BlocksOK, Blocks
  <2>q. QED BY <2>2, <2>3, <2>4 DEF InsOK
<1>7. at \in 1 .. Count + 1
  BY <1>2, <1>3, ItemFacts
<1>q. QED BY <1>2, <1>3, <1>4, <1>6, <1>7 DEF ShapeInv

LEMMA ParseTypes ==
  ASSUME ShapeInv, ParseInput \/ ParseJsonInput
  PROVE  TypeInv'
<1>0. RequestInv /\ pc = "parse" /\ TypeInv
  BY DEF ShapeInv, Parsing, ParseInput, ParseJsonInput
<1>1. /\ at \in 1 .. Count /\ at' = at + 1 /\ UNCHANGED <<req, pc, idx>>
      /\ \/ \E o \in OccurrenceType : NewName(o)
         \/ \E o \in OccurrenceType : KnownName(o)
         \/ DroppedName
  BY <1>0, ParseShape
<1>2. ins \in Seq(InputType) /\ net \in NetType /\ net.requests \in Seq(Nat) /\ at \in Nat \ {0} /\ idx \in Nat
  BY <1>0 DEF TypeInv, NetType
<1>3. ins' \in Seq(InputType)
  <2>1. ASSUME NEW o \in OccurrenceType, NewName(o) PROVE ins' \in Seq(InputType)
    <3>1. NameAt(at) \in Names
      BY <1>0, <1>1, ItemFacts
    <3>2. ins' = Append(ins, NewInput(NameAt(at), o))
      BY <2>1 DEF NewName
    <3>q. QED BY <1>0, <3>1, <3>2, Appended
  <2>2. ASSUME NEW o \in OccurrenceType, KnownName(o) PROVE ins' \in Seq(InputType)
    <3>1. IndexOf(NameAt(at)) \in DOMAIN ins
      BY <2>2, IndexOfPresent DEF KnownName
    <3>2. ins' = AddOccurrence(IndexOf(NameAt(at)), o)
      BY <2>2 DEF KnownName
    <3>q. QED BY <1>0, <3>1, <3>2, Extended
  <2>3. CASE DroppedName
    BY <1>2, <2>3 DEF DroppedName
  <2>q. QED BY <1>1, <2>1, <2>2, <2>3
<1>4. net' \in NetType
  <2>1. CASE ParseInput
    <3>1. PICK q : q = QueueAfter(at)
      OBVIOUS
    <3>2. q \in Seq(HandleType)
      BY <1>0, <1>2, <3>1, QueueAfterType
    <3>3. net' = [net EXCEPT !.queue = q]
      BY <2>1, <3>1 DEF ParseInput
    <3>4. \A n \in NetType : [n EXCEPT !.queue = q] \in NetType
      BY <3>2 DEF NetType
    <3>q. QED BY <1>2, <3>3, <3>4
  <2>2. CASE ParseJsonInput
    <3>1. PICK r : r = AddToJRequests(net.requests, at)
      OBVIOUS
    <3>2. r \in Seq(Nat)
      BY <1>2, <3>1 DEF AddToJRequests
    <3>3. net' = [net EXCEPT !.requests = r]
      BY <2>2, <3>1 DEF ParseJsonInput
    <3>4. \A n \in NetType : [n EXCEPT !.requests = r] \in NetType
      BY <3>2 DEF NetType
    <3>q. QED BY <1>2, <3>3, <3>4
  <2>q. QED BY <2>1, <2>2
<1>5. at' \in Nat \ {0} /\ idx' \in Nat
  BY <1>1, <1>2
<1>q. QED BY <1>3, <1>4, <1>5 DEF TypeInv

LEMMA ParseKeepsShape ==
  ASSUME ShapeInv, ParseInput \/ ParseJsonInput
  PROVE  ShapeInv'
<1>0. RequestInv /\ pc = "parse" /\ TypeInv /\ InsOK
  BY DEF ShapeInv, Parsing, ParseInput, ParseJsonInput
<1>1. /\ at \in 1 .. Count /\ at' = at + 1 /\ UNCHANGED <<req, pc, idx>>
      /\ \/ \E o \in OccurrenceType : NewName(o)
         \/ \E o \in OccurrenceType : KnownName(o)
         \/ DroppedName
  BY <1>0, ParseShape
<1>2. PICK a \in 1 .. Count : a = at
  BY <1>1
<1>3. InsOK'
  <2>1. ASSUME NEW o \in OccurrenceType, NewName(o) PROVE InsOK'
    BY <1>0, <1>1, <1>2, <2>1, NewNameKeeps
  <2>2. ASSUME NEW o \in OccurrenceType, KnownName(o) PROVE InsOK'
    BY <1>0, <1>1, <1>2, <2>2, KnownNameKeeps
  <2>3. CASE DroppedName
    BY <1>0, <1>1, <2>3, DroppedKeeps
  <2>q. QED BY <1>1, <2>1, <2>2, <2>3
<1>4. RequestInv' /\ Count' = Count
  BY <1>0, <1>1, RequestFrame
<1>5. at' \in 1 .. Count' + 1
  BY <1>0, <1>1, <1>4, ItemFacts
<1>6. TypeInv'
  BY ParseTypes
<1>q. QED BY <1>0, <1>1, <1>3, <1>4, <1>5, <1>6 DEF ShapeInv

(* The steps of the phases that follow.                                    *)
LEMMA WaitingKeepsShape ==
  ASSUME ShapeInv, UNCHANGED req, pc \in Waiting, pc' \in Waiting,
         SameShape(ins'), net' \in NetType, at' \in Nat \ {0}, idx' \in Nat,
         pc' \in {"requeue", "read"} => CursorOK'
  PROVE  ShapeInv'
<1>1. RequestInv /\ TypeInv /\ InsOK /\ pc # "parse" /\ pc' # "parse"
  BY DEF ShapeInv, Parsing, Waiting
<1>2. RequestInv' /\ Done' = Done
  BY <1>1, RequestFrame DEF Done
<1>3. TypeInv' /\ InsOK'
  BY <1>1, <1>2, ShapeKeeps
<1>q. QED BY <1>1, <1>2, <1>3 DEF ShapeInv

LEMMA CursorStart ==
  ASSUME TypeInv, SameShape(ins'), at' = 1, idx' = 0
  PROVE  CursorOK'
<1>1. /\ Len(ins') = Len(ins) /\ Len(ins) \in Nat /\ DOMAIN ins = 1 .. Len(ins)
      /\ \A k \in DOMAIN ins : ins'[k].length = ins[k].length
  BY DEF SameShape, TypeInv
<1>2. \A k \in DOMAIN ins : Occurrences(k)' = Occurrences(k) /\ Occurrences(k) \in Nat \ {0}
  BY <1>1, OccurrencesType DEF Occurrences
<1>3. at' \in 1 .. Len(ins') + 1
  BY <1>1
<1>4. 1 \in DOMAIN ins => 0 < Occurrences(at)'
  <2>1. SUFFICES ASSUME 1 \in DOMAIN ins PROVE 0 < Occurrences(at)'
    OBVIOUS
  <2>2. PICK k \in DOMAIN ins : k = 1
    BY <2>1
  <2>3. Occurrences(at)' = Occurrences(k)'
    BY <2>2 DEF Occurrences
  <2>q. QED BY <1>2, <2>2, <2>3
<1>q. QED BY <1>1, <1>3, <1>4 DEF CursorOK

LEMMA RunTypes ==
  ASSUME TypeInv, RunHttpRequests
  PROVE  net' \in NetType
<1>1. PICK q : q = Downloaded(net.queue)
  OBVIOUS
<1>2. net \in NetType /\ net.queue \in Seq(HandleType)
  BY DEF TypeInv, NetType
<1>3. q \in Seq(HandleType)
  BY <1>1, <1>2, DownloadedType
<1>4. net' = [net EXCEPT !.queue = q]
  BY <1>1 DEF RunHttpRequests, Downloaded
<1>5. \A n \in NetType : [n EXCEPT !.queue = q] \in NetType
  BY <1>3 DEF NetType
<1>q. QED BY <1>2, <1>4, <1>5

LEMMA WaitingSteps ==
  ASSUME ShapeInv,
         \/ LoadHttpRequest \/ HttpRequestsLoaded
         \/ Publish \/ RequestAgain \/ RequestedAgain
         \/ RunHttpRequests \/ ReadOccurrence \/ SkipOccurrence \/ InputsRead
  PROVE  /\ UNCHANGED req /\ pc \in Waiting /\ pc' \in Waiting
         /\ SameShape(ins') /\ net' \in NetType /\ at' \in Nat \ {0} /\ idx' \in Nat
         /\ pc' \in {"requeue", "read"} => CursorOK'
<1>1. /\ UNCHANGED req /\ pc \in Waiting /\ pc' \in Waiting
  BY DEF LoadHttpRequest, HttpRequestsLoaded, Publish, RequestAgain, RequestedAgain, RunHttpRequests,
         ReadOccurrence, SkipOccurrence, InputsRead, Goto, Walking, Waiting
<1>2. RequestInv /\ TypeInv /\ InsOK /\ Done = Count
  BY <1>1 DEF ShapeInv, Parsing, Waiting, Done
<1>3. /\ ins \in Seq(InputType) /\ net \in NetType /\ at \in Nat \ {0} /\ idx \in Nat
      /\ at + 1 \in Nat \ {0} /\ SameShape(ins)
  BY <1>2, SameShapeOfIns DEF TypeInv
<1>4. CASE LoadHttpRequest
  <2>1. SameShape(ins') /\ net' \in NetType
    BY <1>2, <1>4, LoadTypes
  <2>2. at' = at + 1 /\ idx' = idx /\ pc' = "load"
    BY <1>4 DEF LoadHttpRequest
  <2>q. QED BY <1>1, <1>3, <2>1, <2>2
<1>5. CASE HttpRequestsLoaded
  <2>1. UNCHANGED <<ins, net>> /\ at' = 1 /\ idx' = 0 /\ pc' = "download"
    BY <1>5 DEF HttpRequestsLoaded, Goto
  <2>q. QED BY <1>1, <1>3, <2>1
<1>6. CASE Publish
  <2>1. SameShape(ins') /\ net' \in NetType
    BY <1>2, <1>6, PublishTypes
  <2>2. at' = 1 /\ idx' = 0 /\ pc' = "requeue"
    BY <1>6 DEF Publish, Goto
  <2>3. CursorOK'
    BY <1>2, <2>1, <2>2, CursorStart
  <2>q. QED BY <1>1, <2>1, <2>2, <2>3
<1>7. CASE RequestAgain
  <2>1. CursorOK
    BY <1>7 DEF ShapeInv, RequestAgain, Walking
  <2>q. QED BY <1>1, <1>2, <1>7, <2>1, AgainTypes
<1>8. CASE RequestedAgain
  <2>1. UNCHANGED <<ins, net>> /\ at' = 1 /\ idx' = 0 /\ pc' = "download"
    BY <1>8 DEF RequestedAgain, Goto
  <2>q. QED BY <1>1, <1>3, <2>1
<1>9. CASE RunHttpRequests
  <2>1. net' \in NetType
    BY <1>2, <1>9, RunTypes
  <2>2. UNCHANGED ins /\ at' = 1 /\ idx' = 0
    BY <1>9 DEF RunHttpRequests, Goto
  <2>3. SameShape(ins')
    BY <1>3, <2>2
  <2>4. CursorOK'
    BY <1>2, <2>2, <2>3, CursorStart
  <2>q. QED BY <1>1, <2>1, <2>2, <2>3, <2>4
<1>10. CASE ReadOccurrence
  <2>1. CursorOK
    BY <1>10 DEF ShapeInv, ReadOccurrence, Walking
  <2>q. QED BY <1>1, <1>2, <1>10, <2>1, ReadTypes
<1>11. CASE SkipOccurrence
  <2>1. CursorOK /\ at <= Len(ins) /\ NextOccurrence
    BY <1>11 DEF ShapeInv, SkipOccurrence, Walking
  <2>2. UNCHANGED <<ins, net>>
    BY <1>11 DEF SkipOccurrence
  <2>3. SameShape(ins') /\ net' \in NetType
    BY <1>3, <2>2
  <2>4. at' \in Nat \ {0} /\ idx' \in Nat /\ CursorOK'
    BY <1>2, <2>1, <2>3, CursorMoves
  <2>q. QED BY <1>1, <2>3, <2>4
<1>12. CASE InputsRead
  <2>1. UNCHANGED ins /\ at' = 1 /\ idx' = 0 /\ pc' = "validate"
    BY <1>12 DEF InputsRead, Goto
  <2>2. net' \in NetType
    <3>1. net' = [net EXCEPT !.queue = <<>>]
      BY <1>12 DEF InputsRead, InternetCloseHandle, InternetOpen
    <3>2. PICK q, n : q = <<>> /\ n = net
      OBVIOUS
    <3>3. q \in Seq(HandleType) /\ n \in NetType
      BY <1>3, <3>2
    <3>4. [n EXCEPT !.queue = q] \in NetType
      BY <3>3 DEF NetType
    <3>q. QED BY <3>1, <3>2, <3>4
  <2>3. SameShape(ins')
    BY <1>3, <2>1
  <2>q. QED BY <1>1, <2>1, <2>2, <2>3
<1>q. QED BY <1>4, <1>5, <1>6, <1>7, <1>8, <1>9, <1>10, <1>11, <1>12

(* All items are parsed: the phase changes.                                *)
LEMMA OutputsKeepShape ==
  ASSUME ShapeInv, ParseOutputs
  PROVE  /\ ShapeInv' /\ UNCHANGED <<req, ins, net>> /\ Done = Count
         /\ pc' # "end" => /\ pc' = IF req.worker THEN "message"
                                    ELSE IF req.form = "json" THEN "load" ELSE "download"
                           /\ at' = 1 /\ idx' = 0
<1>1. /\ RequestInv /\ pc = "parse" /\ TypeInv /\ InsOK /\ at \in 1 .. Count + 1 /\ at > Count
      /\ UNCHANGED <<req, ins, net>> /\ at' = 1 /\ idx' = 0
      /\ \/ pc' = "end"
         \/ pc' = IF req.worker THEN "message" ELSE IF req.form = "json" THEN "load" ELSE "download"
  <2>1. pc = "parse" /\ at > Len(req.given) /\ UNCHANGED <<req, ins, net>>
    BY DEF ParseOutputs
  <2>2. RequestInv /\ TypeInv /\ InsOK /\ at \in 1 .. Count + 1
    BY <2>1 DEF ShapeInv, Parsing
  <2>3. \/ Refuse
        \/ Goto(IF req.worker THEN "message" ELSE IF req.form = "json" THEN "load" ELSE "download")
    BY DEF ParseOutputs
  <2>q. QED BY <2>1, <2>2, <2>3 DEF Refuse, Goto, Count
<1>2. Done = Count /\ Count \in Nat
  BY <1>1, ItemFacts DEF Done
<1>3. pc' \in {"end", "message", "load", "download"}
  BY <1>1
<1>4. Count' = Count /\ RequestInv'
  BY <1>1, RequestFrame
<1>5. Done' = Done
  BY <1>2, <1>3, <1>4 DEF Done
<1>6. SameShape(ins') /\ net' \in NetType
  BY <1>1, SameShapeOfIns DEF TypeInv
<1>7. TypeInv' /\ InsOK'
  BY <1>1, <1>5, <1>6, ShapeKeeps
<1>8. ShapeInv'
  BY <1>3, <1>4, <1>7 DEF ShapeInv
<1>q. QED BY <1>1, <1>2, <1>8

LEMMA ShapeStep == ShapeInv /\ [Next]_vars => ShapeInv'
<1>1. SUFFICES ASSUME ShapeInv, [Next]_vars PROVE ShapeInv'
  OBVIOUS
<1>2. CASE UNCHANGED vars
  <2>1. UNCHANGED <<req, pc, at, idx, ins, net>>
    BY <1>2 DEF vars, inputVars
  <2>2. /\ RequestInv' /\ Count' = Count /\ Done' = Done
        /\ CursorOK' <=> CursorOK
        /\ TypeInv' <=> TypeInv
    BY <1>1, <2>1, RequestFrame DEF Done, CursorOK, Occurrences, TypeInv, ShapeInv
  <2>3. pc \in Parsing => InsOK'
    BY <1>1, <2>1, <2>2, InsFrame DEF ShapeInv
  <2>q. QED BY <1>1, <2>1, <2>2, <2>3 DEF ShapeInv
<1>3. CASE ParseInput \/ ParseJsonInput
  BY <1>1, <1>3, ParseKeepsShape
<1>4. CASE \/ LoadHttpRequest \/ HttpRequestsLoaded
           \/ Publish \/ RequestAgain \/ RequestedAgain
           \/ RunHttpRequests \/ ReadOccurrence \/ SkipOccurrence \/ InputsRead
  BY <1>1, <1>4, WaitingSteps, WaitingKeepsShape
<1>5. CASE ParseOutputs
  BY <1>1, <1>5, OutputsKeepShape
<1>6. CASE RefuseOccurrences \/ RefuseInvalid \/ Validate \/ RunService \/ Respond
  <2>1. UNCHANGED req /\ pc' \in {"end", "run", "respond"}
    BY <1>6 DEF RefuseOccurrences, RefuseInvalid, Validate, RunService, Respond, Refuse, Goto
  <2>2. RequestInv'
    BY <1>1, <2>1, RequestFrame DEF ShapeInv
  <2>q. QED BY <2>1, <2>2 DEF ShapeInv, Parsing, Waiting
<1>q. QED BY <1>1, <1>2, <1>3, <1>4, <1>5, <1>6 DEF Next, InputStep

-----------------------------------------------------------------------------
(* The inputs on their way, phase by phase: js are the inputs, n is net, c *)
(* the item a loop is at.                                                  *)

Fresh(n) == n.read = 0 /\ n.failed = FALSE

ParsePhase(js, n, m) ==
  /\ Fresh(n)
  /\ req.worker => \A p \in 1 .. m : Sent(Cell(js, p), p)
  /\ ~req.worker /\ req.form # "json" =>
       (\A p \in 1 .. m : Ready(Cell(js, p), p)) /\ QueueOK(n.queue, m)
  /\ ~req.worker /\ req.form = "json" =>
       /\ \A p \in 1 .. m : Linked(Cell(js, p), p)
       /\ RequestsOK(n.requests, m) /\ n.queue = <<>>

(* The item of the request a.                                              *)
LoadCursor(requests, a) == IF a <= Len(requests) THEN requests[a] ELSE Count + 1

LoadPhase(js, n, a) ==
  /\ Fresh(n) /\ ~req.worker /\ req.form = "json"
  /\ RequestsOK(n.requests, Count) /\ a <= Len(n.requests) + 1
  /\ \A p \in 1 .. Count :
       /\ p < LoadCursor(n.requests, a) => Ready(Cell(js, p), p)
       /\ p >= LoadCursor(n.requests, a) => Linked(Cell(js, p), p)
       /\ Fetched(p) => Cell(js, p).xlink = p
  /\ QueueOK(n.queue, LoadCursor(n.requests, a) - 1)
  /\ (\A p \in 1 .. Count : Given(p).url # "cached") => Len(n.queue) = a - 1
  /\ a > 1 => \A k \in DOMAIN js :
       js[k].length # 0 /\ js[k].name = NameAt(n.requests[a - 1]) =>
         n.array = n.requests[a - 1] - First(js[k].name) + 1

MessagePhase(js, n) == Fresh(n) /\ req.worker /\ \A p \in 1 .. Count : Sent(Cell(js, p), p)

CursorOf(js, a, i) == IF a <= Len(js) THEN First(js[a].name) + i ELSE Count + 1

RequeuePhase(js, n, c) ==
  /\ Fresh(n) /\ req.worker
  /\ \A p \in 1 .. Count : /\ p < c => Ready(Cell(js, p), p)
                           /\ p >= c => Sent(Cell(js, p), p)
  /\ QueueOK(n.queue, c - 1)

DownloadPhase(js, n) ==
  Fresh(n) /\ (\A p \in 1 .. Count : Ready(Cell(js, p), p)) /\ QueueOK(n.queue, Count)

ReadPhase(js, n, c) ==
  /\ AnswersOK(n.queue)
  /\ ~n.failed =>
       /\ n.read = Rank(c - 1)
       /\ \A p \in 1 .. Count : /\ p < c => Arrived(Cell(js, p), p)
                                /\ p >= c => Ready(Cell(js, p), p)

AllArrived(js) == \A p \in 1 .. Count : Arrived(Cell(js, p), p)

ArrivalInv ==
  ~Astray =>
    /\ net.failed => BadAnswer \/ HeadersMissing
    /\ pc = "parse" => ParsePhase(ins, net, at - 1)
    /\ pc = "load" => LoadPhase(ins, net, at)
    /\ pc = "message" => MessagePhase(ins, net)
    /\ pc = "requeue" => RequeuePhase(ins, net, CursorOf(ins, at, idx))
    /\ pc = "download" => DownloadPhase(ins, net)
    /\ pc = "read" => ReadPhase(ins, net, CursorOf(ins, at, idx))
    /\ pc = "validate" => net.failed \/ AllArrived(ins)

LEMMA PhaseFrame ==
  ASSUME UNCHANGED req
  PROVE  /\ \A js, n, m : ParsePhase(js, n, m)' <=> ParsePhase(js, n, m)
         /\ \A js, n, m : LoadPhase(js, n, m)' <=> LoadPhase(js, n, m)
         /\ \A js, n : MessagePhase(js, n)' <=> MessagePhase(js, n)
         /\ \A js, a, i : CursorOf(js, a, i)' = CursorOf(js, a, i)
         /\ \A js, n, m : RequeuePhase(js, n, m)' <=> RequeuePhase(js, n, m)
         /\ \A js, n : DownloadPhase(js, n)' <=> DownloadPhase(js, n)
         /\ \A js, n, m : ReadPhase(js, n, m)' <=> ReadPhase(js, n, m)
         /\ \A js : AllArrived(js)' <=> AllArrived(js)
         /\ Astray' <=> Astray
         /\ BadAnswer' <=> BadAnswer
         /\ HeadersMissing' <=> HeadersMissing
<1>1. /\ \A js, p : Cell(js, p)' = Cell(js, p)
      /\ Count' = Count
      /\ \A p : Given(p)' = Given(p) /\ NameAt(p)' = NameAt(p)
      /\ \A n : First(n)' = First(n)
  BY CellFrame, RequestFrame
<1>2. /\ \A p : /\ Fetched(p)' <=> Fetched(p)
                /\ Queued(p)' <=> Queued(p)
                /\ Rank(p)' = Rank(p)
      /\ \A o, p : /\ Ready(o, p)' <=> Ready(o, p)
                   /\ Sent(o, p)' <=> Sent(o, p)
                   /\ Linked(o, p)' <=> Linked(o, p)
                   /\ Arrived(o, p)' <=> Arrived(o, p)
      /\ \A q, m : QueueOK(q, m)' <=> QueueOK(q, m)
      /\ \A q, m : RequestsOK(q, m)' <=> RequestsOK(q, m)
  BY ContentFrame
<1>3. \A js, n, m : ParsePhase(js, n, m)' <=> ParsePhase(js, n, m)
  BY <1>1, <1>2 DEF ParsePhase, Fresh
<1>4. \A js, n, m : LoadPhase(js, n, m)' <=> LoadPhase(js, n, m)
  BY <1>1, <1>2 DEF LoadPhase, Fresh, LoadCursor
<1>5. \A js, n : MessagePhase(js, n)' <=> MessagePhase(js, n)
  BY <1>1, <1>2 DEF MessagePhase, Fresh
<1>6. \A js, a, i : CursorOf(js, a, i)' = CursorOf(js, a, i)
  BY <1>1 DEF CursorOf
<1>7. \A js, n, m : RequeuePhase(js, n, m)' <=> RequeuePhase(js, n, m)
  BY <1>1, <1>2 DEF RequeuePhase, Fresh
<1>8. \A js, n : DownloadPhase(js, n)' <=> DownloadPhase(js, n)
  BY <1>1, <1>2 DEF DownloadPhase, Fresh
<1>9. \A js, n, m : ReadPhase(js, n, m)' <=> ReadPhase(js, n, m)
  <2>1. BadAnswer' <=> BadAnswer
    BY ContentFrame
  <2>2. HeadersMissing' <=> HeadersMissing
    BY ContentFrame
  <2>3. \A q : AnswersOK(q)' <=> AnswersOK(q)
    BY <1>1, <1>2, <2>1, <2>2 DEF AnswersOK
  <2>q. QED BY <1>1, <1>2, <2>3 DEF ReadPhase
<1>10. \A js : AllArrived(js)' <=> AllArrived(js)
  BY <1>1, <1>2 DEF AllArrived
<1>q. QED BY <1>3, <1>4, <1>5, <1>6, <1>7, <1>8, <1>9, <1>10, ContentFrame

-----------------------------------------------------------------------------
(* One occurrence changes.                                                 *)
LEMMA PutCell ==
  ASSUME RequestInv, TypeInv, InsOK, Blocks, Done \in Nat, Done <= Count,
         NEW k \in DOMAIN ins, NEW i \in 0 .. Occurrences(k) - 1, NEW o \in OccurrenceType,
         NEW js, js = WithOccurrence(ins, k, i, o)
  PROVE  /\ SameShape(js) /\ Cell(js, Start(k) + i) = o
         /\ \A q \in 1 .. Done : q # Start(k) + i => Cell(js, q) = Cell(ins, q)
<1>1. i \in 0 .. MaxArguments - 1 /\ ins \in Seq(InputType)
  BY Cells, SameShapeOfIns DEF TypeInv
<1>2. /\ js \in Seq(InputType) /\ DOMAIN js = DOMAIN ins
      /\ \A j \in DOMAIN ins : j # k => js[j].occ = ins[j].occ
      /\ \A m \in 0 .. MaxArguments - 1 : js[k].occ[m] = IF m = i THEN o ELSE ins[k].occ[m]
  BY <1>1, PutInside
<1>3. SameShape(js)
  BY SameShapeOfIns, PutKeeps
<1>4. PICK f : f = js[k].occ
  OBVIOUS
<1>5. f \in [0 .. MaxArguments - 1 -> OccurrenceType]
  <2>1. js[k] \in InputType
    BY <1>2
  <2>q. QED BY <1>4, <2>1 DEF InputType
<1>6. \A m \in 0 .. MaxArguments - 1 : f[m] = IF m = i THEN o ELSE ins[k].occ[m]
  BY <1>2, <1>4
<1>q. QED BY <1>2, <1>3, <1>4, <1>5, <1>6, Poke

(* A loop over the occurrences takes the items one after the other.        *)
LEMMA WalkStart ==
  ASSUME RequestInv, TypeInv, InsOK, Blocks, Done = Count
  PROVE  CursorOf(ins, 1, 0) = 1
<1>1. Len(ins) \in Nat /\ DOMAIN ins = 1 .. Len(ins) /\ Count \in Nat
  BY ItemFacts DEF TypeInv
<1>2. CASE Len(ins) = 0
  <2>1. ~(1 \in 1 .. Count)
    <3>1. \A n : ~Present(n)
      BY <1>1, <1>2 DEF Present
    <3>q. QED BY <3>1 DEF InsOK, NamesOK
  <2>2. Count = 0
    BY <1>1, <2>1
  <2>q. QED BY <1>2, <2>2 DEF CursorOf
<1>3. CASE Len(ins) # 0
  <2>1. 1 <= Len(ins) /\ ins # <<>>
    BY <1>1, <1>3
  <2>2. First(ins[1].name) = 1
    BY <2>1 DEF Blocks, Start
  <2>q. QED BY <2>1, <2>2 DEF CursorOf
<1>q. QED BY <1>2, <1>3

LEMMA WalkHere ==
  ASSUME RequestInv, TypeInv, InsOK, Blocks, Done = Count, CursorOK, at <= Len(ins)
  PROVE  /\ CursorOf(ins, at, idx) \in 1 .. Count /\ CursorOf(ins, at, idx) = Start(at) + idx
         /\ at \in DOMAIN ins /\ idx \in 0 .. Occurrences(at) - 1
         /\ Here = Cell(ins, CursorOf(ins, at, idx))
<1>1. at \in DOMAIN ins /\ idx \in 0 .. Occurrences(at) - 1 /\ Count \in Nat
  BY HereType, ItemFacts
<1>2. PICK k \in DOMAIN ins : k = at
  BY <1>1
<1>3. PICK i \in 0 .. Occurrences(k) - 1 : i = idx
  BY <1>1, <1>2
<1>4. Start(k) + i \in 1 .. Count /\ Cell(ins, Start(k) + i) = ins[k].occ[i]
  BY <1>1, Cells, SameShapeOfIns
<1>5. CursorOf(ins, at, idx) = Start(k) + i
  BY <1>2, <1>3 DEF CursorOf, Start
<1>q. QED BY <1>1, <1>2, <1>3, <1>4, <1>5 DEF Here

LEMMA WalkNext ==
  ASSUME RequestInv, TypeInv, InsOK, Blocks, Done = Count, CursorOK, at <= Len(ins),
         NextOccurrence, NEW js, SameShape(js), NEW c, c = CursorOf(ins, at, idx)
  PROVE  CursorOf(js, at', idx') = c + 1
<1>1. PICK k \in DOMAIN ins : k = at
  BY WalkHere
<1>2. PICK i \in 0 .. Occurrences(k) - 1 : i = idx
  BY <1>1, WalkHere
<1>3. PICK s, m : s = Start(k) /\ m = Occurrences(k)
  OBVIOUS
<1>4. /\ s \in 1 .. Count /\ m \in Nat \ {0} /\ End(k) = s + m /\ c = s + i
      /\ Count \in Nat /\ Len(ins) \in Nat /\ DOMAIN ins = 1 .. Len(ins) /\ Len(js) = Len(ins)
  <2>1. Count \in Nat /\ Len(ins) \in Nat /\ DOMAIN ins = 1 .. Len(ins)
    BY ItemFacts DEF TypeInv
  <2>2. Start(k) \in 1 .. Count /\ Occurrences(k) \in Nat \ {0} /\ End(k) = Start(k) + Occurrences(k)
    BY <2>1, BlockOf
  <2>3. c = s + i
    BY <1>1, <1>2, <1>3, WalkHere
  <2>4. Len(js) = Len(ins)
    BY DEF SameShape
  <2>q. QED BY <1>3, <2>1, <2>2, <2>3, <2>4
<1>5. \A j \in DOMAIN ins : js[j].name = ins[j].name
  BY DEF SameShape
<1>6. CASE idx + 1 < Occurrences(at)
  <2>1. at' = k /\ idx' = i + 1
    BY <1>1, <1>2, <1>6 DEF NextOccurrence
  <2>2. CursorOf(js, k, i + 1) = s + (i + 1)
    BY <1>3, <1>4, <1>5 DEF CursorOf, Start
  <2>q. QED BY <1>4, <2>1, <2>2
<1>7. CASE ~(idx + 1 < Occurrences(at))
  <2>1. at' = k + 1 /\ idx' = 0
    BY <1>1, <1>7 DEF NextOccurrence
  <2>2. i + 1 = m
    BY <1>1, <1>2, <1>3, <1>4, <1>7
  <2>3. CursorOf(js, k + 1, 0) = s + m
    <3>1. CASE k + 1 <= Len(ins)
      <4>1. k \in 1 .. Len(ins) - 1 /\ k + 1 \in DOMAIN ins
        BY <1>4, <3>1
      <4>2. Start(k + 1) = End(k)
        BY <4>1 DEF Blocks
      <4>3. CursorOf(js, k + 1, 0) = Start(k + 1) + 0
        BY <1>4, <1>5, <3>1, <4>1 DEF CursorOf, Start
      <4>q. QED BY <1>4, <4>2, <4>3
    <3>2. CASE ~(k + 1 <= Len(ins))
      <4>1. k = Len(ins) /\ ins # <<>>
        BY <1>4, <3>2
      <4>2. End(k) = Count + 1
        BY <4>1 DEF Blocks
      <4>3. CursorOf(js, k + 1, 0) = Count + 1
        BY <1>4, <3>2 DEF CursorOf
      <4>q. QED BY <1>4, <4>2, <4>3
    <3>q. QED BY <3>1, <3>2
  <2>q. QED BY <1>4, <2>1, <2>2, <2>3
<1>q. QED BY <1>6, <1>7

-----------------------------------------------------------------------------
(* The phases, when nothing goes astray.                                   *)

LEMMA Unastray ==
  ASSUME ~Astray, InsOK
  PROVE  /\ ~Scattered /\ ~Dropped /\ Blocks
         /\ ~QueuedTwice /\ ~NotInMessage /\ ~BodyLost /\ ~AstrayInJson
BY DEF Astray, InsOK, BlocksOK

LEMMA ParsedCell ==
  ASSUME ShapeInv, ~Astray, ParseInput \/ ParseJsonInput, NEW a, a = at, NEW js, js = ins'
  PROVE  /\ a \in 1 .. Count /\ at' = a + 1
         /\ \A q \in 1 .. a - 1 : Cell(js, q) = Cell(ins, q)
         /\ \/ Cell(js, a) = Item(a)
            \/ Cell(js, a) = ItemAgain(a) /\ IndexIn(a) > 0
<1>0. RequestInv /\ pc = "parse" /\ TypeInv /\ InsOK
  BY DEF ShapeInv, Parsing, ParseInput, ParseJsonInput
<1>1. /\ a \in 1 .. Count /\ at' = a + 1 /\ UNCHANGED <<req, pc, idx>>
      /\ \/ \E o \in OccurrenceType : NewName(o)
         \/ \E o \in OccurrenceType : KnownName(o)
         \/ DroppedName
  BY <1>0, ParseShape
<1>2. ~Scattered /\ ~Dropped /\ Blocks
  BY <1>0, Unastray
<1>3. ASSUME NEW o \in OccurrenceType, NewName(o)
      PROVE  Cell(js, a) = Item(a) /\ \A q \in 1 .. a - 1 : Cell(js, q) = Cell(ins, q)
  <2>1. First(NameAt(a)) = a
    BY <1>0, <1>1, <1>2, <1>3, NewNameKeeps
  <2>2. ~Present(NameAt(a)) /\ o = Item(a)
    BY <1>3 DEF NewName
  <2>3. js = WithNew(NameAt(a), o)
    BY <1>3 DEF NewName, WithNew
  <2>4. a \in 1 .. Count /\ at = a
    BY <1>1
  <2>5. Cell(js, a) = o /\ \A q \in 1 .. a - 1 : Cell(js, q) = Cell(ins, q)
    BY <1>0, <1>2, <2>1, <2>2, <2>3, <2>4, NewCell
  <2>q. QED BY <2>2, <2>5
<1>4. ASSUME NEW o \in OccurrenceType, KnownName(o)
      PROVE  /\ Cell(js, a) = ItemAgain(a) /\ IndexIn(a) > 0
             /\ \A q \in 1 .. a - 1 : Cell(js, q) = Cell(ins, q)
  <2>1. /\ IndexIn(a) > 0 /\ IndexOf(NameAt(a)) = Len(ins)
        /\ a = Start(Len(ins)) + Occurrences(Len(ins))
    BY <1>0, <1>1, <1>2, <1>4, KnownNameKeeps
  <2>2. PICK k \in DOMAIN ins : k = IndexOf(NameAt(a)) /\ ins[k].name = NameAt(a)
    BY <1>4, IndexOfPresent DEF KnownName
  <2>3. js = AddOccurrence(k, o) /\ o = ItemAgain(a)
    BY <1>4, <2>2 DEF KnownName
  <2>4. a = Start(k) + Occurrences(k)
    BY <2>1, <2>2
  <2>q. QED BY <1>0, <1>1, <1>2, <2>1, <2>2, <2>3, <2>4, AgainCell
<1>5. ~DroppedName
  BY <1>0, <1>1, <1>2, DroppedKeeps
<1>q. QED BY <1>1, <1>3, <1>4, <1>5

LEMMA ParseArrives ==
  ASSUME ShapeInv, ~Astray, ArrivalInv, ParseInput \/ ParseJsonInput
  PROVE  ArrivalInv'
<1>0. RequestInv /\ pc = "parse" /\ TypeInv /\ InsOK /\ UNCHANGED <<req, pc>>
  BY DEF ShapeInv, Parsing, ParseInput, ParseJsonInput
<1>1. PICK a, js, n : a = at /\ js = ins' /\ n = net'
  OBVIOUS
<1>2. /\ a \in 1 .. Count /\ at' = a + 1
      /\ \A q \in 1 .. a - 1 : Cell(js, q) = Cell(ins, q)
      /\ \/ Cell(js, a) = Item(a)
         \/ Cell(js, a) = ItemAgain(a) /\ IndexIn(a) > 0
  BY <1>1, ParsedCell
<1>3. ParsePhase(ins, net, a - 1) /\ Fresh(net)
  BY <1>0, <1>1 DEF ArrivalInv, ParsePhase
<1>4. /\ net.queue \in Seq(HandleType) /\ net.requests \in Seq(Nat) /\ net \in NetType
      /\ a \in Nat \ {0} /\ \A q \in 1 .. a : q \in 1 .. a - 1 \/ q = a
  BY <1>0, <1>2, ItemFacts DEF TypeInv, NetType
<1>5. ~QueuedTwice /\ ~NotInMessage /\ ~BodyLost
  BY <1>0, Unastray
<1>6. /\ n.read = net.read /\ n.failed = net.failed
      /\ req.form # "json" => n.queue = QueueAfter(a)
      /\ req.form = "json" => n.queue = net.queue /\ n.requests = AddToJRequests(net.requests, a)
  <2>1. CASE ParseInput
    <3>1. n = [net EXCEPT !.queue = QueueAfter(a)] /\ req.form # "json"
      BY <1>1, <2>1 DEF ParseInput
    <3>q. QED BY <1>4, <3>1 DEF NetType
  <2>2. CASE ParseJsonInput
    <3>1. n = [net EXCEPT !.requests = AddToJRequests(net.requests, a)] /\ req.form = "json"
      BY <1>1, <2>2 DEF ParseJsonInput
    <3>q. QED BY <1>4, <3>1 DEF NetType
  <2>q. QED BY <2>1, <2>2
<1>7. Fresh(n)
  BY <1>3, <1>6 DEF Fresh
<1>8. req.worker => \A p \in 1 .. a : Sent(Cell(js, p), p)
  <2>1. SUFFICES ASSUME req.worker PROVE \A p \in 1 .. a : Sent(Cell(js, p), p)
    OBVIOUS
  <2>2. Sent(Cell(js, a), a)
    BY <1>0, <1>2, <1>5, <2>1, ItemSent
  <2>3. \A p \in 1 .. a - 1 : Sent(Cell(ins, p), p)
    BY <1>3, <2>1 DEF ParsePhase
  <2>q. QED BY <1>2, <1>4, <2>2, <2>3
<1>9. ~req.worker /\ req.form # "json" => (\A p \in 1 .. a : Ready(Cell(js, p), p)) /\ QueueOK(n.queue, a)
  <2>1. SUFFICES ASSUME ~req.worker, req.form # "json"
                 PROVE  (\A p \in 1 .. a : Ready(Cell(js, p), p)) /\ QueueOK(n.queue, a)
    OBVIOUS
  <2>2. (\A p \in 1 .. a - 1 : Ready(Cell(ins, p), p)) /\ QueueOK(net.queue, a - 1)
    BY <1>3, <2>1 DEF ParsePhase
  <2>3. Ready(Cell(js, a), a)
    BY <1>0, <1>2, <1>5, <2>1, <2>2, ItemReady
  <2>4. QueueOK(QueueAfter(a), a)
    BY <1>0, <1>2, <1>4, <1>5, <2>1, <2>2, ItemQueued
  <2>q. QED BY <1>2, <1>4, <1>6, <2>1, <2>2, <2>3, <2>4
<1>10. ~req.worker /\ req.form = "json" =>
         /\ \A p \in 1 .. a : Linked(Cell(js, p), p)
         /\ RequestsOK(n.requests, a) /\ n.queue = <<>>
  <2>1. SUFFICES ASSUME ~req.worker, req.form = "json"
                 PROVE  /\ \A p \in 1 .. a : Linked(Cell(js, p), p)
                        /\ RequestsOK(n.requests, a) /\ n.queue = <<>>
    OBVIOUS
  <2>2. /\ \A p \in 1 .. a - 1 : Linked(Cell(ins, p), p)
        /\ RequestsOK(net.requests, a - 1) /\ net.queue = <<>>
    BY <1>3, <2>1 DEF ParsePhase
  <2>3. Linked(Cell(js, a), a)
    BY <1>0, <1>2, <2>1, ItemLinked
  <2>4. RequestsOK(AddToJRequests(net.requests, a), a)
    BY <1>4, <2>2, RequestsNext
  <2>q. QED BY <1>2, <1>4, <1>6, <2>1, <2>2, <2>3, <2>4
<1>11. ParsePhase(js, n, a)
  BY <1>7, <1>8, <1>9, <1>10 DEF ParsePhase
<1>12. ParsePhase(ins, net, at - 1)'
  <2>1. ParsePhase(js, n, a)'
    BY <1>0, <1>11, PhaseFrame
  <2>2. at' - 1 = a
    BY <1>2, <1>4
  <2>q. QED BY <1>1, <2>1, <2>2
<1>13. ~net.failed'
  BY <1>1, <1>7 DEF Fresh
<1>q. QED BY <1>0, <1>12, <1>13 DEF ArrivalInv

LEMMA StartsReady ==
  ASSUME RequestInv, NEW requests \in Seq(Nat), RequestsOK(requests, Count), NEW a \in Nat \ {0},
         a <= Len(requests) + 1
  PROVE  /\ LoadCursor(requests, a) \in 1 .. Count + 1
         /\ \A q \in 1 .. LoadCursor(requests, a) - 1 :
              Fetched(q) => \E i \in DOMAIN requests : i < a /\ requests[i] = q
<1>1. DOMAIN requests = 1 .. Len(requests) /\ Len(requests) \in Nat /\ Count \in Nat
  BY ItemFacts
<1>2. PICK c : c = LoadCursor(requests, a)
  OBVIOUS
<1>3. c \in 1 .. Count + 1
  <2>1. CASE a <= Len(requests)
    <3>1. a \in DOMAIN requests /\ c = requests[a]
      BY <1>1, <1>2, <2>1 DEF LoadCursor
    <3>2. requests[a] \in 1 .. Count
      BY <3>1 DEF RequestsOK
    <3>q. QED BY <1>1, <3>1, <3>2
  <2>2. CASE ~(a <= Len(requests))
    BY <1>1, <1>2, <2>2 DEF LoadCursor
  <2>q. QED BY <2>1, <2>2
<1>4. ASSUME NEW q \in 1 .. c - 1, Fetched(q)
      PROVE  \E i \in DOMAIN requests : i < a /\ requests[i] = q
  <2>1. q \in 1 .. Count
    BY <1>1, <1>3
  <2>2. PICK i \in DOMAIN requests : requests[i] = q
    BY <1>4, <2>1 DEF RequestsOK
  <2>3. ASSUME ~(i < a) PROVE FALSE
    <3>1. a <= Len(requests) /\ a \in DOMAIN requests /\ c = requests[a] /\ (a < i \/ a = i)
      BY <1>1, <1>2, <2>3 DEF LoadCursor
    <3>2. a < i => requests[a] < requests[i]
      BY <3>1 DEF RequestsOK
    <3>q. QED BY <1>3, <2>2, <3>1, <3>2
  <2>q. QED BY <2>2, <2>3
<1>q. QED BY <1>2, <1>3, <1>4

(* All items are parsed.                                                   *)
LEMMA OutputsArrive ==
  ASSUME ShapeInv, ~Astray, ArrivalInv, ParseOutputs, pc' # "end"
  PROVE  ArrivalInv'
<1>1. /\ UNCHANGED <<req, ins, net>> /\ Done = Count /\ RequestInv /\ pc = "parse" /\ TypeInv /\ InsOK
      /\ pc' = IF req.worker THEN "message" ELSE IF req.form = "json" THEN "load" ELSE "download"
      /\ at' = 1 /\ idx' = 0
  <2>1. RequestInv /\ pc = "parse" /\ TypeInv /\ InsOK
    BY DEF ShapeInv, Parsing, ParseOutputs
  <2>q. QED BY <2>1, OutputsKeepShape
<1>2. PICK js, n : js = ins /\ n = net
  OBVIOUS
<1>3. ParsePhase(js, n, Count) /\ Fresh(n) /\ Count \in Nat
  BY <1>1, <1>2, ItemFacts DEF ArrivalInv, Done, ParsePhase
<1>4. CASE req.worker
  <2>1. MessagePhase(js, n)
    BY <1>3, <1>4 DEF ParsePhase, MessagePhase
  <2>2. MessagePhase(js, n)'
    BY <1>1, <2>1, PhaseFrame
  <2>3. MessagePhase(ins, net)' /\ ~net.failed' /\ pc' = "message"
    BY <1>1, <1>2, <1>3, <1>4, <2>2 DEF Fresh
  <2>q. QED BY <2>3 DEF ArrivalInv
<1>5. CASE ~req.worker /\ req.form # "json"
  <2>1. DownloadPhase(js, n)
    BY <1>3, <1>5 DEF ParsePhase, DownloadPhase
  <2>2. DownloadPhase(js, n)'
    BY <1>1, <2>1, PhaseFrame
  <2>3. DownloadPhase(ins, net)' /\ ~net.failed' /\ pc' = "download"
    BY <1>1, <1>2, <1>3, <1>5, <2>2 DEF Fresh
  <2>q. QED BY <2>3 DEF ArrivalInv
<1>6. CASE ~req.worker /\ req.form = "json"
  <2>1. /\ \A p \in 1 .. Count : Linked(Cell(js, p), p)
        /\ RequestsOK(n.requests, Count) /\ n.queue = <<>>
    BY <1>3, <1>6 DEF ParsePhase
  <2>2. n.requests \in Seq(Nat) /\ Len(n.requests) \in Nat /\ 1 <= Len(n.requests) + 1
    BY <1>1, <1>2 DEF TypeInv, NetType
  <2>3. PICK c : c = LoadCursor(n.requests, 1)
    OBVIOUS
  <2>4. c \in 1 .. Count + 1 /\ \A q \in 1 .. c - 1 : ~Fetched(q)
    <3>1. \A i \in DOMAIN n.requests : ~(i < 1)
      BY <2>2
    <3>2. /\ LoadCursor(n.requests, 1) \in 1 .. Count + 1
          /\ \A q \in 1 .. LoadCursor(n.requests, 1) - 1 :
               Fetched(q) => \E i \in DOMAIN n.requests : i < 1 /\ n.requests[i] = q
      BY <1>1, <2>1, <2>2, StartsReady
    <3>q. QED BY <2>3, <3>1, <3>2
  <2>5. \A p \in 1 .. Count : p < c => Ready(Cell(js, p), p)
    <3>1. ASSUME NEW p \in 1 .. Count, p < c PROVE Ready(Cell(js, p), p)
      <4>1. ~Fetched(p)
        BY <1>3, <2>4, <3>1
      <4>q. QED BY <2>1, <4>1 DEF Linked, Ready
    <3>q. QED BY <3>1
  <2>6. QueueOK(n.queue, c - 1)
    <3>1. PICK b : b = c - 1
      OBVIOUS
    <3>2. b \in Nat /\ 0 <= b /\ \A q \in 0 + 1 .. b : ~Queued(q)
      BY <1>3, <2>4, <3>1 DEF Queued
    <3>3. <<>> \in Seq(HandleType)
      OBVIOUS
    <3>q. QED BY <2>1, <3>1, <3>2, <3>3, QueueEmpty, QueueGap
  <2>7. \A p \in 1 .. Count : Fetched(p) => Cell(js, p).xlink = p
    BY <2>1 DEF Linked
  <2>8. LoadPhase(js, n, 1)
    BY <1>3, <1>6, <2>1, <2>2, <2>3, <2>5, <2>6, <2>7 DEF LoadPhase
  <2>9. LoadPhase(js, n, 1)'
    BY <1>1, <2>8, PhaseFrame
  <2>10. LoadPhase(ins, net, at)' /\ ~net.failed' /\ pc' = "load"
    BY <1>1, <1>2, <1>3, <1>6, <2>9 DEF Fresh
  <2>q. QED BY <2>10 DEF ArrivalInv
<1>q. QED BY <1>4, <1>5, <1>6

-----------------------------------------------------------------------------
(* JSON: a request is loaded into the occurrence of its item.              *)

LEMMA LoadPlace ==
  ASSUME RequestInv, TypeInv, InsOK, Blocks, ~Mixed, Done = Count,
         LoadPhase(ins, net, at), at <= Len(net.requests), NEW p, p = net.requests[at],
         NEW k, k = IndexOf(NameAt(p)),
         NEW i, i = IF ins[k].length = 0 THEN 0 ELSE ArrayIndex
  PROVE  /\ p \in 1 .. Count /\ Fetched(p) /\ k \in DOMAIN ins /\ NameAt(p) = ins[k].name
         /\ i \in 0 .. Occurrences(k) - 1 /\ p = Start(k) + i
         /\ i # 0 => Fetched(Start(k)) /\ IndexIn(p) > 0
<1>1. PICK R, a : R = net.requests /\ a = at
  OBVIOUS
<1>2. /\ R \in Seq(Nat) /\ a \in 1 .. Len(R) /\ Count \in Nat /\ Len(R) \in Nat
      /\ DOMAIN R = 1 .. Len(R) /\ a \in DOMAIN R /\ Positioned = 1 .. Count /\ p = R[a]
  BY <1>1, ItemFacts DEF TypeInv, NetType
<1>3. /\ \A b \in DOMAIN R : R[b] \in 1 .. Count /\ Fetched(R[b])
      /\ \A b, c \in DOMAIN R : b < c => R[b] < R[c]
      /\ \A q \in 1 .. Count : Fetched(q) => \E b \in DOMAIN R : R[b] = q
  BY <1>1 DEF RequestsOK, LoadPhase
<1>4. p \in 1 .. Count /\ Fetched(p)
  BY <1>2, <1>3
<1>5. PICK j \in DOMAIN ins : \E m \in 0 .. Occurrences(j) - 1 :
         j = k /\ p = Start(j) + m /\ NameAt(p) = ins[j].name
  BY <1>2, <1>4, CellAt
<1>6. PICK m \in 0 .. Occurrences(k) - 1 : p = Start(k) + m
  BY <1>5
<1>7. PICK s, l : s = Start(k) /\ l = Occurrences(k)
  OBVIOUS
<1>8. /\ k \in DOMAIN ins /\ NameAt(p) = ins[k].name /\ s \in 1 .. Count /\ End(k) = s + l
      /\ l \in Nat \ {0} /\ m \in 0 .. l - 1 /\ p = s + m /\ NameAt(s) = ins[k].name
  <2>1. k \in DOMAIN ins /\ NameAt(p) = ins[k].name
    BY <1>5
  <2>2. /\ Start(k) \in 1 .. Count /\ Occurrences(k) \in Nat \ {0} /\ End(k) = Start(k) + Occurrences(k)
        /\ NameAt(Start(k)) = ins[k].name
    BY <1>2, <2>1, BlockOf
  <2>q. QED BY <1>6, <1>7, <2>1, <2>2
<1>9. \A q \in 1 .. Count : s <= q /\ q <= p => NameAt(q) = NameAt(p)
  <2>1. \A q \in 1 .. Count : s <= q /\ q < s + l => NameAt(q) = ins[k].name
    BY <1>2, <1>7, <1>8 DEF Blocks
  <2>2. \A q \in 1 .. Count : q <= p => q < s + l
    BY <1>8
  <2>q. QED BY <1>8, <2>1, <2>2
<1>10. \A q \in 1 .. Count : s <= q /\ q < p => Fetched(q)
  <2>1. ASSUME NEW q \in 1 .. Count, s <= q, q < p PROVE Fetched(q)
    <3>1. NameAt(q) = NameAt(p)
      BY <1>4, <1>9, <2>1
    <3>2. Given(q).name = Given(p).name
      BY <3>1 DEF NameAt
    <3>q. QED BY <1>2, <1>4, <2>1, <3>2 DEF Mixed
  <2>q. QED BY <2>1
<1>11. \A q \in 1 .. Count : s <= q /\ q < p => \E b \in 1 .. a - 1 : R[b] = q
  <2>1. ASSUME NEW q \in 1 .. Count, s <= q, q < p PROVE \E b \in 1 .. a - 1 : R[b] = q
    <3>1. PICK b \in DOMAIN R : R[b] = q
      BY <1>10, <1>3, <2>1
    <3>2. ~(a = b) /\ ~(a < b)
      <4>1. a < b => R[a] < R[b]
        BY <1>2, <1>3
      <4>q. QED BY <1>2, <1>4, <2>1, <3>1, <4>1
    <3>q. QED BY <1>2, <3>1, <3>2
  <2>q. QED BY <2>1
<1>12. m = i
  <2>1. CASE ins[k].length = 0
    <3>1. l = 1
      BY <1>7, <2>1 DEF Occurrences
    <3>q. QED BY <1>8, <2>1, <3>1
  <2>2. CASE ins[k].length # 0 /\ p = s
    <3>1. ASSUME a > 1, NameAt(R[a - 1]) = NameAt(p) PROVE FALSE
      <4>1. a - 1 \in DOMAIN R /\ a - 1 < a
        BY <1>2, <3>1
      <4>2. R[a - 1] \in 1 .. Count /\ R[a - 1] < p
        BY <1>2, <1>3, <4>1
      <4>3. \A q \in 1 .. Count : NameAt(q) = NameAt(p) => s <= q
        BY <1>4, <1>7, <1>8, FirstOf DEF Start
      <4>q. QED BY <1>8, <2>2, <3>1, <4>2, <4>3
    <3>2. ArrayIndex = 0
      BY <1>1, <1>2, <3>1 DEF ArrayIndex, NameAt
    <3>q. QED BY <1>8, <2>2, <3>2
  <2>3. CASE ins[k].length # 0 /\ p # s
    <3>1. p - 1 \in 1 .. Count /\ s <= p - 1 /\ p - 1 < p /\ p - 1 <= p
      <4>1. m \in Nat \ {0} /\ s \in Nat \ {0} /\ p = s + m /\ p <= Count
        BY <1>4, <1>8, <2>3
      <4>q. QED BY <1>2, <4>1
    <3>2. PICK b \in 1 .. a - 1 : R[b] = p - 1
      BY <1>11, <3>1
    <3>3. b = a - 1 /\ a > 1
      <4>1. a > 1 /\ b \in DOMAIN R /\ a - 1 \in DOMAIN R /\ a - 1 < a
        BY <1>2, <3>2
      <4>2. b < a - 1 => R[b] < R[a - 1]
        BY <1>3, <4>1
      <4>3. R[a - 1] < R[a]
        BY <1>2, <1>3, <4>1
      <4>4. R[a - 1] \in Nat /\ p \in Nat
        BY <1>2, <1>4, <4>1
      <4>q. QED BY <1>2, <3>2, <4>1, <4>2, <4>3, <4>4
    <3>4. NameAt(p - 1) = NameAt(p)
      <4>1. PICK q : q = p - 1
        OBVIOUS
      <4>2. NameAt(q) = NameAt(p)
        BY <1>9, <3>1, <4>1
      <4>q. QED BY <4>1, <4>2
    <3>5. ArrayIndex = net.array
      BY <1>1, <1>2, <3>2, <3>3, <3>4 DEF ArrayIndex, NameAt
    <3>6. net.array = R[a - 1] - First(ins[k].name) + 1
      <4>1. ins[k].name = NameAt(R[a - 1])
        BY <1>8, <3>2, <3>3, <3>4
      <4>q. QED BY <1>1, <1>8, <2>3, <3>3, <4>1 DEF LoadPhase
    <3>7. net.array = (p - 1) - s + 1
      BY <1>7, <3>2, <3>3, <3>6 DEF Start
    <3>q. QED BY <1>4, <1>8, <2>3, <3>5, <3>7
  <2>q. QED BY <2>1, <2>2, <2>3
<1>13. i # 0 => Fetched(Start(k)) /\ IndexIn(p) > 0
  <2>1. SUFFICES ASSUME i # 0 PROVE Fetched(s) /\ IndexIn(p) > 0
    BY <1>7
  <2>2. s < p /\ s \in 1 .. p - 1
    <3>0. m # 0
      BY <1>12, <2>1
    <3>1. m \in Nat \ {0} /\ s \in Nat \ {0} /\ p = s + m
      BY <1>2, <1>8, <3>0
    <3>q. QED BY <3>1
  <2>3. NameAt(s) = NameAt(p)
    BY <1>8
  <2>4. IndexIn(p) > 0
    BY <1>4, <2>2, <2>3, Earlier
  <2>5. Fetched(s)
    BY <1>8, <1>10, <2>2
  <2>q. QED BY <2>4, <2>5
<1>q. QED BY <1>4, <1>6, <1>8, <1>12, <1>13

(* Its body is found by the length of the queue: nothing is in the cache   *)
(* or no request has a body.                                               *)
LEMMA LoadedQueue ==
  ASSUME RequestInv, TypeInv, ~BodyMoved, LoadPhase(ins, net, at), at <= Len(net.requests),
         NEW p, p = net.requests[at], NEW queue, queue = LoadQueue(net.queue, p, BodyAt(Len(net.queue)))
  PROVE  /\ queue \in Seq(HandleType) /\ QueueOK(queue, p)
         /\ (\A q \in 1 .. Count : Given(q).url # "cached") => Len(queue) = at
<1>0. /\ net.requests \in Seq(Nat) /\ at \in 1 .. Len(net.requests) /\ Count \in Nat
      /\ net.queue \in Seq(HandleType) /\ Len(net.queue) \in Nat
      /\ DOMAIN net.requests = 1 .. Len(net.requests) /\ Positioned = 1 .. Count
      /\ RequestsOK(net.requests, Count) /\ req.form = "json" /\ ~req.worker
  BY ItemFacts DEF TypeInv, NetType, LoadPhase
<1>1. p \in 1 .. Count /\ Fetched(p) /\ p \in Nat \ {0}
  <2>1. PICK R, a : R = net.requests /\ a = at
    OBVIOUS
  <2>2. a \in DOMAIN R /\ p = R[a]
    BY <1>0, <2>1
  <2>3. \A b \in DOMAIN R : R[b] \in 1 .. Count /\ Fetched(R[b])
    BY <1>0, <2>1 DEF RequestsOK
  <2>4. p \in 1 .. Count /\ Fetched(p)
    BY <2>2, <2>3
  <2>q. QED BY <1>0, <2>4
<1>2. QueueOK(net.queue, p - 1)
  BY <1>0 DEF LoadPhase, LoadCursor
<1>3. Queued(p) <=> Given(p).url # "cached"
  BY <1>0, <1>1 DEF Queued
<1>4. CASE Given(p).url = "cached"
  <2>1. queue = net.queue
    BY <1>4 DEF LoadQueue
  <2>2. ~(\A q \in 1 .. Count : Given(q).url # "cached")
    BY <1>1, <1>4
  <2>q. QED BY <1>0, <1>1, <1>2, <1>3, <1>4, <2>1, <2>2, QueueSame
<1>5. CASE Given(p).url # "cached"
  <2>1. BodyAt(Len(net.queue)) = BodyOf(p)
    <3>1. Given(p).by \in {"ref", "body"}
      <4>1. Given(p).by \in {"value", "ref", "body"}
        BY <1>0, <1>1, ItemFacts DEF Ways
      <4>q. QED BY <1>1, <4>1 DEF Fetched, Inline
    <3>2. CASE \A q \in 1 .. Count : Given(q).url # "cached"
      <4>1. Len(net.queue) = at - 1
        BY <3>2 DEF LoadPhase
      <4>2. Len(net.queue) < Len(net.requests) /\ net.requests[Len(net.queue) + 1] = p
        BY <1>0, <4>1
      <4>q. QED BY <3>1, <4>2 DEF BodyAt, BodyOf, Posting
    <3>3. CASE ~\A q \in 1 .. Count : Given(q).url # "cached"
      <4>1. \A q \in 1 .. Count : Given(q).by # "body"
        BY <1>0, <3>3 DEF BodyMoved
      <4>2. \A b \in DOMAIN net.requests : net.requests[b] \in 1 .. Count
        BY <1>0 DEF RequestsOK
      <4>3. BodyAt(Len(net.queue)) = 0
        <5>1. Len(net.queue) < Len(net.requests) => Len(net.queue) + 1 \in DOMAIN net.requests
          BY <1>0
        <5>q. QED BY <4>1, <4>2, <5>1 DEF BodyAt
      <4>q. QED BY <1>1, <3>1, <4>1, <4>3 DEF BodyOf, Posting
    <3>q. QED BY <3>2, <3>3
  <2>2. queue = InternetOpenUrl(net.queue, p, BodyOf(p))
    BY <1>5, <2>1 DEF LoadQueue, AddRequestToQueue
  <2>3. queue \in Seq(HandleType) /\ QueueOK(queue, p)
    BY <1>0, <1>1, <1>2, <1>3, <1>5, <2>2, QueueOne
  <2>4. Len(queue) = Len(net.queue) + 1
    BY <1>0, <2>2 DEF InternetOpenUrl
  <2>5. (\A q \in 1 .. Count : Given(q).url # "cached") => Len(queue) = at
    BY <1>0, <2>4 DEF LoadPhase
  <2>q. QED BY <2>3, <2>5
<1>q. QED BY <1>4, <1>5

(* What loadRemoteFile makes of an occurrence that is linked.              *)
LEMMA LoadedOccurrence ==
  ASSUME NEW o \in OccurrenceType, NEW p \in Nat \ {0}, Fetched(p), Linked(o, p), ~req.worker
  PROVE  /\ Ready(Marked(Load(o, p), Rank(p), p), p)
         /\ Marked(Load(o, p), Rank(p), p).xlink = p
         /\ Given(p).url # "cached" => Ready(Marked(o, Rank(p), p), p)
         /\ Marked(o, Rank(p), p).xlink = p
<1>1. PICK l, r : l = Load(o, p) /\ r = Rank(p)
  OBVIOUS
<1>2. o.xlink = p /\ o.isCached = FALSE
  BY DEF Linked, OccurrenceType
<1>3. /\ l \in OccurrenceType /\ l.xlink = p
      /\ l.isCached = (Given(p).url = "cached")
      /\ Given(p).url = "cached" => l.value = <<"file", p>>
  <2>1. l \in OccurrenceType
    BY <1>1, LoadType
  <2>2. l.xlink = p
    BY <1>1, <1>2 DEF Load, OccurrenceType
  <2>3. l.isCached = (Given(p).url = "cached")
    BY <1>1, <1>2 DEF Load, OccurrenceType
  <2>4. Given(p).url = "cached" => l.value = <<"file", p>>
    BY <1>1, <1>2 DEF Load, OccurrenceType
  <2>q. QED BY <2>1, <2>2, <2>3, <2>4
<1>4. ASSUME NEW x \in OccurrenceType
      PROVE  /\ Marked(x, r, p).Reference = p /\ Marked(x, r, p).order = r
             /\ Marked(x, r, p).xlink = x.xlink /\ Marked(x, r, p).value = x.value
             /\ Marked(x, r, p).isCached = x.isCached
  BY DEF Marked, OccurrenceType
<1>5. Queued(p) <=> Given(p).url # "cached"
  BY DEF Queued
<1>6. Ready(Marked(l, r, p), p)
  BY <1>1, <1>3, <1>4, <1>5 DEF Ready
<1>7. Given(p).url # "cached" => Ready(Marked(o, r, p), p)
  BY <1>1, <1>2, <1>4, <1>5 DEF Ready
<1>q. QED BY <1>1, <1>2, <1>3, <1>4, <1>6, <1>7

LEMMA LoadIdentity ==
  ASSUME NEW o \in OccurrenceType, o.xlink # 0, NEW p, Given(p).url # "cached"
  PROVE  Load(o, p) = o
BY DEF Load, OccurrenceType

LoadIndex(k) == IF ins[k].length = 0 THEN 0 ELSE ArrayIndex

LoadedFirst(k, p) == WithOccurrence(ins, k, 0, Load(ins[k].occ[0], p))

Loaded(k, i, n, p) ==
  WithOccurrence(LoadedFirst(k, p), k, i, Marked(LoadedFirst(k, p)[k].occ[i], n, p))

Poked(js, k, i, o) ==
  /\ js[k].occ \in [0 .. MaxArguments - 1 -> OccurrenceType]
  /\ \A m \in 0 .. MaxArguments - 1 : js[k].occ[m] = IF m = i THEN o ELSE ins[k].occ[m]
  /\ SameShape(js) /\ \A j \in DOMAIN ins : j # k => js[j].occ = ins[j].occ

LEMMA PokedCells ==
  ASSUME RequestInv, TypeInv, InsOK, Blocks, Done = Count, Done \in Nat, Done <= Count,
         NEW k \in DOMAIN ins, NEW i \in 0 .. Occurrences(k) - 1, NEW o \in OccurrenceType,
         NEW js, Poked(js, k, i, o)
  PROVE  /\ Cell(js, Start(k) + i) = o
         /\ \A q \in 1 .. Count : q # Start(k) + i => Cell(js, q) = Cell(ins, q)
<1>1. PICK f : f = js[k].occ
  OBVIOUS
<1>2. /\ f \in [0 .. MaxArguments - 1 -> OccurrenceType]
      /\ \A m \in 0 .. MaxArguments - 1 : f[m] = IF m = i THEN o ELSE ins[k].occ[m]
      /\ SameShape(js) /\ \A j \in DOMAIN ins : j # k => js[j].occ = ins[j].occ
  BY <1>1 DEF Poked
<1>3. /\ Cell(js, Start(k) + i) = o
      /\ \A q \in 1 .. Done : q # Start(k) + i => Cell(js, q) = Cell(ins, q)
  BY <1>1, <1>2, Poke
<1>q. QED BY <1>3

LoadedTo(p, k, i, ls) ==
  /\ p = net.requests[at] /\ k = IndexOf(NameAt(p)) /\ i = LoadIndex(k)
  /\ ls = Loaded(k, i, Rank(p), p)

(* One request is loaded: only the occurrence of its item changes.         *)
LEMMA LoadedCells ==
  ASSUME RequestInv, TypeInv, InsOK, Blocks, ~Mixed, ~CachedLater, Done = Count,
         LoadPhase(ins, net, at), at <= Len(net.requests),
         NEW p, NEW k, NEW i, NEW ls, LoadedTo(p, k, i, ls)
  PROVE  /\ Ready(Cell(ls, p), p) /\ Cell(ls, p).xlink = p
         /\ \A q \in 1 .. Count : q # p => Cell(ls, q) = Cell(ins, q)
<1>1. /\ p \in 1 .. Count /\ Fetched(p) /\ k \in DOMAIN ins /\ NameAt(p) = ins[k].name
      /\ i \in 0 .. Occurrences(k) - 1 /\ p = Start(k) + i
      /\ i # 0 => Fetched(Start(k)) /\ IndexIn(p) > 0
  <2>1. i = IF ins[k].length = 0 THEN 0 ELSE ArrayIndex
    BY DEF LoadIndex, LoadedTo
  <2>2. p = net.requests[at] /\ k = IndexOf(NameAt(p))
    BY DEF LoadedTo
  <2>q. QED BY <2>1, <2>2, LoadPlace
<1>2. /\ Count \in Nat /\ ins \in Seq(InputType) /\ SameShape(ins) /\ p \in Nat \ {0}
      /\ Positioned = 1 .. Count /\ ~req.worker /\ Rank(p) \in Nat
      /\ Done \in Nat /\ Done <= Count
  <2>1. Count \in Nat /\ Positioned = 1 .. Count
    BY ItemFacts
  <2>2. ins \in Seq(InputType) /\ SameShape(ins)
    BY SameShapeOfIns DEF TypeInv
  <2>3. p \in Nat \ {0}
    BY <1>1, <2>1
  <2>4. Rank(p) \in Nat
    BY <2>3, RankType
  <2>5. ~req.worker
    BY DEF LoadPhase
  <2>q. QED BY <2>1, <2>2, <2>3, <2>4, <2>5
<1>3. i \in 0 .. MaxArguments - 1 /\ Cell(ins, p) = ins[k].occ[i]
  BY <1>1, <1>2, Cells
<1>4. PICK first, o : first = ins[k].occ[0] /\ o = Cell(ins, p)
  OBVIOUS
<1>5. o \in OccurrenceType
  BY <1>1, <1>2, <1>3, <1>4, CellType
<1>6. Linked(o, p)
  <2>1. LoadCursor(net.requests, at) = p
    BY DEF LoadCursor, LoadedTo
  <2>q. QED BY <1>1, <1>2, <1>4, <2>1 DEF LoadPhase
<1>7. 0 \in 0 .. MaxArguments - 1 /\ first \in OccurrenceType
  <2>1. 0 \in 0 .. MaxArguments - 1
    BY InputsAssumption
  <2>q. QED BY <1>1, <1>2, <1>4, <2>1, CellType
<1>8. PICK z : z = Load(first, p)
  OBVIOUS
<1>9. z \in OccurrenceType
  BY <1>2, <1>7, <1>8, LoadType
<1>10. PICK js : js = LoadedFirst(k, p)
  OBVIOUS
<1>11. js = WithOccurrence(ins, k, 0, z)
  BY <1>4, <1>8, <1>10 DEF LoadedFirst
<1>12. /\ js \in Seq(InputType) /\ DOMAIN js = DOMAIN ins
       /\ \A j \in DOMAIN ins : j # k => js[j].occ = ins[j].occ
       /\ \A m \in 0 .. MaxArguments - 1 : js[k].occ[m] = IF m = 0 THEN z ELSE ins[k].occ[m]
  <2>1. k \in DOMAIN ins /\ ins \in Seq(InputType) /\ 0 \in 0 .. MaxArguments - 1 /\ z \in OccurrenceType
    BY <1>1, <1>2, <1>7, <1>9
  <2>2. js \in Seq(InputType) /\ DOMAIN js = DOMAIN ins
    BY <1>11, <2>1, PutInside
  <2>3. \A j \in DOMAIN ins : j # k => js[j].occ = ins[j].occ
    BY <1>11, <2>1, PutInside
  <2>4. \A m \in 0 .. MaxArguments - 1 : js[k].occ[m] = IF m = 0 THEN z ELSE ins[k].occ[m]
    BY <1>11, <2>1, PutInside
  <2>q. QED BY <2>2, <2>3, <2>4
<1>13. i # 0 => z = first /\ Given(p).url # "cached"
  <2>1. SUFFICES ASSUME i # 0 PROVE z = first /\ Given(p).url # "cached"
    OBVIOUS
  <2>2. Given(p).url # "cached"
    BY <1>1, <1>2, <2>1 DEF CachedLater
  <2>3. PICK s : s = Start(k)
    OBVIOUS
  <2>4. s \in 1 .. Count /\ Occurrences(k) \in Nat \ {0}
    BY <1>1, <1>2, <2>3, BlockOf
  <2>5. first.xlink # 0
    <3>1. 0 \in 0 .. Occurrences(k) - 1
      BY <2>4
    <3>2. Cell(ins, Start(k) + 0) = first
      BY <1>1, <1>2, <1>4, <3>1, Cells
    <3>3. Cell(ins, s) = first
      BY <2>3, <2>4, <3>2
    <3>4. Cell(ins, s).xlink = s
      BY <1>1, <2>1, <2>3, <2>4 DEF LoadPhase
    <3>q. QED BY <2>4, <3>3, <3>4
  <2>q. QED BY <1>7, <1>8, <2>2, <2>5, LoadIdentity
<1>14. PICK x : x = Marked(js[k].occ[i], Rank(p), p)
  OBVIOUS
<1>15. x \in OccurrenceType /\ Ready(x, p) /\ x.xlink = p
  <2>1. js[k].occ[i] = IF i = 0 THEN z ELSE o
    BY <1>3, <1>4, <1>12
  <2>2. js[k].occ[i] \in OccurrenceType
    BY <1>5, <1>9, <2>1
  <2>3. x \in OccurrenceType
    BY <1>2, <1>14, <2>2, MarkedType
  <2>4. CASE i = 0
    <3>1. first = o
      BY <1>3, <1>4, <2>4
    <3>2. x = Marked(Load(o, p), Rank(p), p)
      BY <1>8, <1>14, <2>1, <2>4, <3>1
    <3>q. QED BY <1>1, <1>2, <1>5, <1>6, <2>3, <3>2, LoadedOccurrence
  <2>5. CASE i # 0
    <3>1. x = Marked(o, Rank(p), p)
      BY <1>14, <2>1, <2>5
    <3>q. QED BY <1>1, <1>2, <1>5, <1>6, <1>13, <2>3, <2>5, <3>1, LoadedOccurrence
  <2>q. QED BY <2>4, <2>5
<1>16. /\ ls \in Seq(InputType) /\ DOMAIN ls = DOMAIN js
       /\ \A j \in DOMAIN js : j # k => ls[j].occ = js[j].occ
       /\ \A m \in 0 .. MaxArguments - 1 : ls[k].occ[m] = IF m = i THEN x ELSE js[k].occ[m]
  <2>1. ls = WithOccurrence(js, k, i, x)
    BY <1>10, <1>14 DEF Loaded, LoadedTo
  <2>q. QED BY <1>1, <1>3, <1>12, <1>15, <2>1, PutInside
<1>17. SameShape(ls)
  <2>1. SameShape(js)
    BY <1>2, <1>9, <1>11, PutKeeps
  <2>2. ls = WithOccurrence(js, k, i, x)
    BY <1>10, <1>14 DEF Loaded, LoadedTo
  <2>q. QED BY <1>15, <2>1, <2>2, PutKeeps
<1>18. PICK f : f = ls[k].occ
  OBVIOUS
<1>19. f \in [0 .. MaxArguments - 1 -> OccurrenceType]
  <2>1. ls[k] \in InputType
    BY <1>1, <1>12, <1>16
  <2>q. QED BY <1>18, <2>1 DEF InputType
<1>20. \A m \in 0 .. MaxArguments - 1 : f[m] = IF m = i THEN x ELSE ins[k].occ[m]
  <2>1. ASSUME NEW m \in 0 .. MaxArguments - 1, m # i PROVE js[k].occ[m] = ins[k].occ[m]
    <3>1. js[k].occ[m] = IF m = 0 THEN z ELSE ins[k].occ[m]
      BY <1>12
    <3>q. QED BY <1>4, <1>13, <2>1, <3>1
  <2>q. QED BY <1>16, <1>18, <2>1
<1>21. \A j \in DOMAIN ins : j # k => ls[j].occ = ins[j].occ
  BY <1>12, <1>16
<1>22. Poked(ls, k, i, x)
  BY <1>17, <1>18, <1>19, <1>20, <1>21 DEF Poked
<1>23. /\ k \in DOMAIN ins /\ i \in 0 .. Occurrences(k) - 1 /\ x \in OccurrenceType
       /\ Done \in Nat /\ Done <= Count
  BY <1>1, <1>2, <1>15
<1>24. /\ Cell(ls, Start(k) + i) = x
       /\ \A q \in 1 .. Count : q # Start(k) + i => Cell(ls, q) = Cell(ins, q)
  BY <1>22, <1>23, PokedCells
<1>q. QED BY <1>1, <1>15, <1>24

LEMMA LoadArrives ==
  ASSUME ShapeInv, ~Astray, ArrivalInv, LoadHttpRequest
  PROVE  ArrivalInv'
<1>0. /\ RequestInv /\ pc = "load" /\ TypeInv /\ InsOK /\ UNCHANGED <<req, pc>> /\ Done = Count
      /\ at <= Len(net.requests) /\ at' = at + 1 /\ LoadPhase(ins, net, at)
  BY DEF ShapeInv, Parsing, Waiting, LoadHttpRequest, Done, ArrivalInv
<1>1. ~Mixed /\ ~CachedLater /\ ~BodyMoved /\ Blocks
  BY <1>0, Unastray DEF AstrayInJson, LoadPhase
<1>2. PICK p, k, i, queue, m :
        /\ p = net.requests[at] /\ k = IndexOf(NameAt(p)) /\ i = LoadIndex(k)
        /\ queue = LoadQueue(net.queue, p, BodyAt(Len(net.queue)))
        /\ m = IF ins[k].length = 0 THEN ArrayIndex ELSE i + 1
        /\ ins' = Loaded(k, i, Len(queue), p)
        /\ net' = NetWith(net, queue, m)
  BY DEF LoadHttpRequest, Marked, NetWith, NameAt, LoadIndex, Loaded, LoadedFirst
<1>3. k = IndexOf(NameAt(p)) /\ p = net.requests[at] /\ i = LoadIndex(k)
  BY <1>2
<1>4. /\ p \in 1 .. Count /\ Fetched(p) /\ k \in DOMAIN ins /\ NameAt(p) = ins[k].name
      /\ i \in 0 .. Occurrences(k) - 1 /\ p = Start(k) + i
  <2>1. i = IF ins[k].length = 0 THEN 0 ELSE ArrayIndex
    BY <1>3 DEF LoadIndex
  <2>q. QED BY <1>0, <1>1, <1>3, <2>1, LoadPlace
<1>5. /\ queue \in Seq(HandleType) /\ QueueOK(queue, p)
      /\ (\A q \in 1 .. Count : Given(q).url # "cached") => Len(queue) = at
  <2>1. queue = LoadQueue(net.queue, p, BodyAt(Len(net.queue)))
    BY <1>2
  <2>q. QED BY <1>0, <1>1, <1>3, <2>1, LoadedQueue
<1>6. Len(queue) = Rank(p)
  BY <1>5 DEF QueueOK
<1>7. PICK ls, n, a, R : ls = ins' /\ n = net' /\ a = at /\ R = net.requests
  OBVIOUS
<1>8. ls = Loaded(k, i, Rank(p), p)
  BY <1>2, <1>6, <1>7
<1>9. /\ Ready(Cell(ls, p), p) /\ Cell(ls, p).xlink = p
      /\ \A q \in 1 .. Count : q # p => Cell(ls, q) = Cell(ins, q)
  <2>1. LoadedTo(p, k, i, ls)
    BY <1>3, <1>8 DEF LoadedTo
  <2>q. QED BY <1>0, <1>1, <2>1, LoadedCells
<1>10. /\ R \in Seq(Nat) /\ a \in Nat \ {0} /\ a \in DOMAIN R /\ DOMAIN R = 1 .. Len(R) /\ Len(R) \in Nat
       /\ p = R[a] /\ Count \in Nat /\ net \in NetType /\ a + 1 \in Nat \ {0} /\ a + 1 <= Len(R) + 1
       /\ net.array \in Nat
  BY <1>0, <1>3, <1>7, ItemFacts DEF TypeInv, NetType
<1>11. m \in Nat
  <2>1. m = (IF ins[k].length = 0 THEN ArrayIndex ELSE i + 1) /\ ArrayIndex \in {0, net.array}
    BY <1>2 DEF ArrayIndex
  <2>2. i \in Nat
    BY <1>4
  <2>q. QED BY <1>10, <2>1, <2>2
<1>12. /\ n.queue = queue /\ n.array = m /\ n.requests = R
       /\ n.read = net.read /\ n.failed = net.failed
  <2>1. n = NetWith(net, queue, m)
    BY <1>2, <1>7
  <2>q. QED BY <1>5, <1>7, <1>10, <1>11, <2>1, NetWithType
<1>13. PICK c : c = LoadCursor(R, a + 1)
  OBVIOUS
<1>14. RequestsOK(R, Count)
  BY <1>0, <1>7 DEF LoadPhase
<1>15. c \in 1 .. Count + 1 /\ p < c /\ \A q \in 1 .. Count : p < q /\ q < c => ~Fetched(q)
  <2>1. /\ c \in 1 .. Count + 1
        /\ \A q \in 1 .. c - 1 : Fetched(q) => \E b \in DOMAIN R : b < a + 1 /\ R[b] = q
    BY <1>0, <1>10, <1>13, <1>14, StartsReady
  <2>2. \A b, d \in DOMAIN R : b < d => R[b] < R[d]
    BY <1>14 DEF RequestsOK
  <2>3. p < c
    <3>1. CASE a + 1 <= Len(R)
      <4>1. a + 1 \in DOMAIN R /\ c = R[a + 1] /\ a < a + 1
        BY <1>10, <1>13, <3>1 DEF LoadCursor
      <4>q. QED BY <1>10, <2>2, <4>1
    <3>2. CASE ~(a + 1 <= Len(R))
      BY <1>4, <1>10, <1>13, <3>2 DEF LoadCursor
    <3>q. QED BY <3>1, <3>2
  <2>4. ASSUME NEW q \in 1 .. Count, p < q, q < c PROVE ~Fetched(q)
    <3>1. q \in 1 .. c - 1
      BY <1>10, <2>1, <2>4
    <3>2. \A b \in DOMAIN R : b < a + 1 => R[b] <= p
      <4>1. ASSUME NEW b \in DOMAIN R, b < a + 1 PROVE R[b] <= p
        <5>1. b = a \/ b < a
          BY <1>10, <4>1
        <5>2. b < a => R[b] < R[a]
          BY <1>10, <2>2
        <5>3. R[b] \in Nat /\ p \in Nat
          BY <1>10
        <5>q. QED BY <1>10, <5>1, <5>2, <5>3
      <4>q. QED BY <4>1
    <3>3. p \in Nat /\ ~(q <= p)
      BY <1>4, <2>4
    <3>q. QED BY <2>1, <3>1, <3>2, <3>3
  <2>q. QED BY <2>1, <2>3, <2>4
<1>16. /\ \A q \in 1 .. Count : q < p => Ready(Cell(ins, q), q)
       /\ \A q \in 1 .. Count : q >= p => Linked(Cell(ins, q), q)
       /\ \A q \in 1 .. Count : Fetched(q) => Cell(ins, q).xlink = q
       /\ Fresh(net) /\ ~req.worker /\ req.form = "json"
  <2>1. LoadCursor(net.requests, at) = p
    BY <1>0, <1>3 DEF LoadCursor
  <2>q. QED BY <1>0, <2>1 DEF LoadPhase
<1>17. ASSUME NEW q \in 1 .. Count
       PROVE  /\ q < c => Ready(Cell(ls, q), q)
              /\ q >= c => Linked(Cell(ls, q), q)
              /\ Fetched(q) => Cell(ls, q).xlink = q
  <2>1. CASE q = p
    BY <1>4, <1>9, <1>15, <2>1
  <2>2. CASE q # p
    <3>1. Cell(ls, q) = Cell(ins, q)
      BY <1>9, <2>2
    <3>2. q < c => q < p \/ (Linked(Cell(ins, q), q) /\ ~Fetched(q))
      BY <1>4, <1>10, <1>15, <1>16, <2>2
    <3>3. q >= c => q >= p
      BY <1>4, <1>10, <1>15
    <3>4. ~Fetched(q) /\ Linked(Cell(ins, q), q) => Ready(Cell(ins, q), q)
      BY DEF Linked, Ready
    <3>q. QED BY <1>16, <3>1, <3>2, <3>3, <3>4
  <2>q. QED BY <2>1, <2>2
<1>18. QueueOK(queue, c - 1)
  <2>1. PICK b : b = c - 1
    OBVIOUS
  <2>2. b \in Nat /\ p <= b /\ p \in Nat
    BY <1>4, <1>10, <1>15, <2>1
  <2>3. \A q \in p + 1 .. b : ~Queued(q)
    <3>1. \A q \in p + 1 .. b : q \in 1 .. Count /\ p < q /\ q < c
      BY <1>4, <1>10, <1>15, <2>1
    <3>q. QED BY <1>15, <3>1 DEF Queued
  <2>q. QED BY <1>5, <2>1, <2>2, <2>3, QueueGap
<1>19. \A j \in DOMAIN ls : ls[j].length # 0 /\ ls[j].name = NameAt(p) => m = p - First(ls[j].name) + 1
  <2>1. SameShape(ls)
    BY <1>0, <1>7, LoadTypes
  <2>2. ASSUME NEW j \in DOMAIN ls, ls[j].length # 0, ls[j].name = NameAt(p)
        PROVE  m = p - First(ls[j].name) + 1
    <3>1. j \in DOMAIN ins /\ ins[j].name = ls[j].name /\ ins[j].length # 0
      BY <2>1, <2>2 DEF SameShape
    <3>2. j = k
      BY <1>0, <1>4, <2>2, <3>1 DEF InsOK, NamesOK
    <3>3. m = i + 1
      BY <1>2, <3>1, <3>2
    <3>4. First(ls[j].name) = Start(k)
      BY <3>1, <3>2 DEF Start
    <3>5. PICK s : s = Start(k)
      OBVIOUS
    <3>6. s \in Nat /\ i \in Nat /\ p = s + i
      <4>1. Start(k) \in 1 .. Count
        BY <1>0, <1>4, <1>10, BlockOf
      <4>q. QED BY <1>4, <3>5, <4>1
    <3>q. QED BY <3>3, <3>4, <3>5, <3>6
  <2>q. QED BY <2>2
<1>20. LoadPhase(ls, n, a + 1)
  <2>0. PICK b : b = a + 1
    OBVIOUS
  <2>b. b \in Nat /\ b - 1 = a /\ b <= Len(R) + 1
    BY <1>10, <2>0
  <2>1. Fresh(n) /\ ~req.worker /\ req.form = "json"
    BY <1>12, <1>16 DEF Fresh
  <2>2. RequestsOK(n.requests, Count) /\ b <= Len(n.requests) + 1
    BY <1>12, <1>14, <2>b
  <2>3. LoadCursor(n.requests, b) = c
    BY <1>12, <1>13, <2>0
  <2>4. (\A q \in 1 .. Count : Given(q).url # "cached") => Len(n.queue) = b - 1
    BY <1>5, <1>7, <1>12, <2>b
  <2>5. n.requests[b - 1] = p
    BY <1>10, <1>12, <2>b
  <2>6. QueueOK(n.queue, LoadCursor(n.requests, b) - 1)
    BY <1>12, <1>18, <2>3
  <2>7. \A q \in 1 .. Count :
          /\ q < LoadCursor(n.requests, b) => Ready(Cell(ls, q), q)
          /\ q >= LoadCursor(n.requests, b) => Linked(Cell(ls, q), q)
          /\ Fetched(q) => Cell(ls, q).xlink = q
    BY <1>17, <2>3
  <2>8. b > 1 => \A j \in DOMAIN ls : ls[j].length # 0 /\ ls[j].name = NameAt(n.requests[b - 1])
          => n.array = n.requests[b - 1] - First(ls[j].name) + 1
    BY <1>12, <1>19, <2>5
  <2>9. LoadPhase(ls, n, b)
    BY <2>1, <2>2, <2>4, <2>6, <2>7, <2>8 DEF LoadPhase
  <2>q. QED BY <2>0, <2>9
<1>21. LoadPhase(ls, n, a + 1)'
  BY <1>0, <1>20, PhaseFrame
<1>22. LoadPhase(ins, net, at)'
  BY <1>0, <1>7, <1>21
<1>23. ~net.failed'
  BY <1>7, <1>12, <1>16 DEF Fresh
<1>q. QED BY <1>0, <1>22, <1>23 DEF ArrivalInv

(* All requests are loaded.                                                *)
LEMMA LoadedArrive ==
  ASSUME ShapeInv, ~Astray, ArrivalInv, HttpRequestsLoaded
  PROVE  ArrivalInv'
<1>1. /\ pc = "load" /\ TypeInv /\ UNCHANGED <<req, ins, net>> /\ pc' = "download" /\ RequestInv
      /\ at > Len(net.requests)
  BY DEF ShapeInv, Parsing, Waiting, HttpRequestsLoaded, Goto
<1>2. PICK js, n : js = ins /\ n = net
  OBVIOUS
<1>3. LoadPhase(js, n, at) /\ Count \in Nat
  BY <1>1, <1>2, ItemFacts DEF ArrivalInv
<1>4. LoadCursor(n.requests, at) = Count + 1
  <2>1. at \in Nat /\ Len(net.requests) \in Nat
    BY <1>1 DEF TypeInv, NetType
  <2>q. QED BY <1>1, <1>2, <2>1 DEF LoadCursor
<1>5. DownloadPhase(js, n)
  <2>1. Fresh(n)
    BY <1>3 DEF LoadPhase
  <2>2. \A p \in 1 .. Count : Ready(Cell(js, p), p)
    <3>1. \A p \in 1 .. Count : p < LoadCursor(n.requests, at)
      BY <1>3, <1>4
    <3>q. QED BY <1>3, <3>1 DEF LoadPhase
  <2>3. QueueOK(n.queue, Count)
    <3>1. LoadCursor(n.requests, at) - 1 = Count
      BY <1>3, <1>4
    <3>2. QueueOK(n.queue, LoadCursor(n.requests, at) - 1)
      BY <1>3 DEF LoadPhase
    <3>q. QED BY <3>1, <3>2
  <2>q. QED BY <2>1, <2>2, <2>3 DEF DownloadPhase
<1>6. DownloadPhase(js, n)'
  BY <1>1, <1>5, PhaseFrame
<1>7. ~net.failed'
  BY <1>1, <1>2, <1>3 DEF LoadPhase, Fresh
<1>q. QED BY <1>1, <1>2, <1>6, <1>7 DEF ArrivalInv

-----------------------------------------------------------------------------
(* A worker: what it is sent is queued again.                              *)

LEMMA SentUnsized ==
  ASSUME RequestInv, TypeInv, InsOK, Blocks, Done = Count,
         \A p \in 1 .. Count : Sent(Cell(ins, p), p)
  PROVE  \A k \in DOMAIN ins : ~ins[k].occ[0].size
<1>1. ASSUME NEW k \in DOMAIN ins PROVE ~ins[k].occ[0].size
  <2>1. Occurrences(k) \in Nat \ {0} /\ Count \in Nat
    BY OccurrencesType, ItemFacts
  <2>2. 0 \in 0 .. Occurrences(k) - 1
    BY <2>1
  <2>3. Start(k) + 0 \in 1 .. Count /\ Cell(ins, Start(k) + 0) = ins[k].occ[0]
    BY <2>1, <2>2, Cells, SameShapeOfIns
  <2>4. Sent(Cell(ins, Start(k) + 0), Start(k) + 0)
    BY <2>3
  <2>q. QED BY <2>3, <2>4 DEF Sent
<1>q. QED BY <1>1

LEMMA PublishArrives ==
  ASSUME ShapeInv, ~Astray, ArrivalInv, Publish
  PROVE  ArrivalInv'
<1>1. /\ pc = "message" /\ TypeInv /\ InsOK /\ UNCHANGED req /\ pc' = "requeue" /\ RequestInv
      /\ at' = 1 /\ idx' = 0 /\ Done = Count /\ MessagePhase(ins, net)
  BY DEF ShapeInv, Parsing, Waiting, Publish, Goto, Done, ArrivalInv
<1>2. Blocks
  BY <1>1, Unastray
<1>3. UNCHANGED ins
  <2>1. \A k \in DOMAIN ins : ~ins[k].occ[0].size
    BY <1>1, <1>2, SentUnsized DEF MessagePhase
  <2>2. ins' = [k \in DOMAIN ins |-> ins[k]]
    BY <2>1 DEF Publish
  <2>3. ins \in Seq(InputType)
    BY <1>1 DEF TypeInv
  <2>q. QED BY <2>2, <2>3
<1>4. PICK js, n, z : js = ins /\ n = net' /\ z = net
  OBVIOUS
<1>5. n.queue = <<>> /\ n.read = z.read /\ n.failed = z.failed
  <2>1. net \in NetType /\ <<>> \in Seq(HandleType)
    BY <1>1 DEF TypeInv
  <2>2. n = [net EXCEPT !.queue = <<>>]
    BY <1>4 DEF Publish, InternetOpen
  <2>q. QED BY <1>4, <2>1, <2>2 DEF NetType
<1>6. MessagePhase(js, z)
  BY <1>1, <1>4
<1>7. RequeuePhase(js, n, 1)
  <2>1. Fresh(n) /\ req.worker
    BY <1>5, <1>6 DEF Fresh, MessagePhase
  <2>2. \A p \in 1 .. Count : ~(p < 1) /\ Sent(Cell(js, p), p)
    BY <1>1, <1>6, ItemFacts DEF MessagePhase
  <2>3. QueueOK(n.queue, 1 - 1)
    BY <1>5, QueueEmpty
  <2>q. QED BY <2>1, <2>2, <2>3 DEF RequeuePhase
<1>8. CursorOf(js, 1, 0) = 1
  BY <1>1, <1>2, <1>4, WalkStart
<1>9. RequeuePhase(js, n, CursorOf(js, 1, 0))'
  BY <1>1, <1>7, <1>8, PhaseFrame
<1>10. ~net.failed'
  BY <1>4, <1>5, <1>6 DEF MessagePhase, Fresh
<1>q. QED BY <1>1, <1>3, <1>4, <1>9, <1>10 DEF ArrivalInv

LEMMA AgainArrives ==
  ASSUME ShapeInv, ~Astray, ArrivalInv, RequestAgain
  PROVE  ArrivalInv'
<1>1. /\ pc = "requeue" /\ TypeInv /\ InsOK /\ UNCHANGED <<req, pc>> /\ RequestInv /\ CursorOK
      /\ at <= Len(ins) /\ Done = Count /\ NextOccurrence
      /\ RequeuePhase(ins, net, CursorOf(ins, at, idx))
  BY DEF ShapeInv, Parsing, Waiting, RequestAgain, Walking, Done, ArrivalInv
<1>2. Blocks
  BY <1>1, Unastray
<1>3. PICK c, o, k, i : c = CursorOf(ins, at, idx) /\ o = Here /\ k = at /\ i = idx
  OBVIOUS
<1>4. /\ c \in 1 .. Count /\ c = Start(k) + i /\ k \in DOMAIN ins /\ i \in 0 .. Occurrences(k) - 1
      /\ o = Cell(ins, c) /\ o \in OccurrenceType /\ Count \in Nat /\ c \in Nat \ {0}
  <2>1. /\ CursorOf(ins, at, idx) \in 1 .. Count /\ CursorOf(ins, at, idx) = Start(at) + idx
        /\ at \in DOMAIN ins /\ idx \in 0 .. Occurrences(at) - 1
        /\ Here = Cell(ins, CursorOf(ins, at, idx))
    BY <1>1, <1>2, WalkHere
  <2>2. Here \in OccurrenceType /\ Count \in Nat
    BY <1>1, HereType, ItemFacts
  <2>q. QED BY <1>3, <2>1, <2>2
<1>5. PICK js, n, z : js = ins' /\ n = net' /\ z = net
  OBVIOUS
<1>6. /\ Fresh(z) /\ req.worker /\ QueueOK(z.queue, c - 1)
      /\ \A p \in 1 .. Count : /\ p < c => Ready(Cell(ins, p), p)
                               /\ p >= c => Sent(Cell(ins, p), p)
  BY <1>1, <1>3, <1>5 DEF RequeuePhase
<1>7. Sent(o, c)
  <2>1. c >= c
    BY <1>4
  <2>q. QED BY <1>4, <1>6, <2>1
<1>8. z \in NetType /\ z.queue \in Seq(HandleType) /\ Len(z.queue) \in Nat
  BY <1>1, <1>5 DEF TypeInv, NetType
<1>9. PICK url : url = IF o.href # 0 THEN o.href ELSE o.xlink
  OBVIOUS
<1>10. /\ SameShape(js) /\ Ready(Cell(js, c), c)
       /\ \A q \in 1 .. Count : q # c => Cell(js, q) = Cell(ins, q)
       /\ Fresh(n) /\ QueueOK(n.queue, c)
  <2>1. CASE url = 0
    <3>1. js = ins /\ n = z
      BY <1>3, <1>5, <1>9, <2>1 DEF RequestAgain
    <3>2. ~Fetched(c)
      BY <1>4, <1>7, <1>9, <2>1 DEF Sent
    <3>3. Ready(o, c)
      BY <1>7, <3>2 DEF Sent, Ready
    <3>4. QueueOK(z.queue, c)
      BY <1>4, <1>6, <1>8, <3>2, QueueSame DEF Queued
    <3>q. QED BY <1>1, <1>4, <1>6, <3>1, <3>3, <3>4, SameShapeOfIns
  <2>2. CASE url # 0
    <3>1. Fetched(c)
      BY <1>7, <1>9, <2>2 DEF Sent
    <3>2. url = c /\ o.body = BodyOf(c) /\ ~o.isCached
      BY <1>7, <1>9, <3>1 DEF Sent
    <3>3. Queued(c)
      BY <1>6, <3>1 DEF Queued
    <3>4. /\ n = [z EXCEPT !.queue = InternetOpenUrl(z.queue, c, BodyOf(c))]
          /\ js = WithOccurrence(ins, k, i, Marked(o, Len(z.queue) + 1, c))
      BY <1>3, <1>5, <1>9, <2>2, <3>2 DEF RequestAgain, Marked
    <3>5. PICK y, x : y = InternetOpenUrl(z.queue, c, BodyOf(c)) /\ x = Marked(o, Len(z.queue) + 1, c)
      OBVIOUS
    <3>6. y \in Seq(HandleType) /\ QueueOK(y, c)
      BY <1>4, <1>6, <1>8, <3>3, <3>5, QueueOne
    <3>7. n.queue = y /\ n.read = z.read /\ n.failed = z.failed
      BY <1>8, <3>4, <3>5, <3>6 DEF NetType
    <3>8. Len(z.queue) + 1 = Rank(c)
      <4>1. Len(y) = Len(z.queue) + 1
        BY <1>8, <3>5 DEF InternetOpenUrl
      <4>q. QED BY <3>6, <4>1 DEF QueueOK
    <3>9. x \in OccurrenceType
      BY <1>4, <1>8, <3>5, MarkedType
    <3>10. Ready(x, c)
      <4>1. x.Reference = c /\ x.order = Rank(c) /\ x.isCached = o.isCached
        BY <1>4, <3>5, <3>8 DEF Marked, OccurrenceType
      <4>2. o.isCached \in BOOLEAN
        BY <1>4 DEF OccurrenceType
      <4>q. QED BY <3>1, <3>2, <3>3, <4>1, <4>2 DEF Ready
    <3>11. /\ SameShape(js) /\ Cell(js, c) = x
           /\ \A q \in 1 .. Count : q # c => Cell(js, q) = Cell(ins, q)
      <4>1. js = WithOccurrence(ins, k, i, x)
        BY <3>4, <3>5
      <4>2. Done \in Nat /\ Done <= Count
        BY <1>1, <1>4
      <4>3. /\ SameShape(js) /\ Cell(js, Start(k) + i) = x
            /\ \A q \in 1 .. Done : q # Start(k) + i => Cell(js, q) = Cell(ins, q)
        BY <1>1, <1>2, <1>4, <3>9, <4>1, <4>2, PutCell
      <4>q. QED BY <1>1, <1>4, <4>3
    <3>12. Fresh(n)
      BY <1>6, <3>7 DEF Fresh
    <3>q. QED BY <3>6, <3>7, <3>10, <3>11, <3>12
  <2>q. QED BY <2>1, <2>2
<1>11. PICK d : d = c + 1
  OBVIOUS
<1>12. RequeuePhase(js, n, d)
  <2>1. QueueOK(n.queue, d - 1)
    <3>1. d - 1 = c
      BY <1>4, <1>11
    <3>q. QED BY <1>10, <3>1
  <2>2. ASSUME NEW p \in 1 .. Count
        PROVE  (p < d => Ready(Cell(js, p), p)) /\ (p >= d => Sent(Cell(js, p), p))
    <3>1. (p < d => p < c \/ p = c) /\ (p >= d => p >= c /\ p # c) /\ (p < c => p # c)
      BY <1>4, <1>11
    <3>q. QED BY <1>6, <1>10, <3>1
  <2>q. QED BY <1>6, <1>10, <2>1, <2>2 DEF RequeuePhase
<1>13. CursorOf(js, at', idx') = d
  BY <1>1, <1>2, <1>3, <1>10, <1>11, WalkNext
<1>14. RequeuePhase(ins, net, CursorOf(ins, at, idx))'
  <2>1. PICK a, l : a = at' /\ l = idx'
    OBVIOUS
  <2>2. RequeuePhase(js, n, CursorOf(js, a, l))
    BY <1>12, <1>13, <2>1
  <2>3. RequeuePhase(js, n, CursorOf(js, a, l))'
    BY <1>1, <2>2, PhaseFrame
  <2>q. QED BY <1>5, <2>1, <2>3
<1>15. ~net.failed'
  BY <1>5, <1>10 DEF Fresh
<1>q. QED BY <1>1, <1>14, <1>15 DEF ArrivalInv

LEMMA RequestedArrives ==
  ASSUME ShapeInv, ~Astray, ArrivalInv, RequestedAgain
  PROVE  ArrivalInv'
<1>1. /\ pc = "requeue" /\ TypeInv /\ UNCHANGED <<req, ins, net>> /\ pc' = "download" /\ RequestInv
      /\ at > Len(ins) /\ RequeuePhase(ins, net, CursorOf(ins, at, idx))
  BY DEF ShapeInv, Parsing, Waiting, RequestedAgain, Goto, ArrivalInv
<1>2. PICK js, n, c : js = ins /\ n = net /\ c = CursorOf(ins, at, idx)
  OBVIOUS
<1>3. c = Count + 1 /\ c - 1 = Count /\ (\A p \in 1 .. Count : p < c)
  <2>1. at \in Nat /\ Len(ins) \in Nat /\ Count \in Nat
    BY <1>1, ItemFacts DEF TypeInv
  <2>2. CursorOf(ins, at, idx) = Count + 1
    BY <1>1, <2>1 DEF CursorOf
  <2>q. QED BY <1>2, <2>1, <2>2
<1>4. RequeuePhase(js, n, c)
  BY <1>1, <1>2
<1>5. DownloadPhase(js, n)
  <2>1. QueueOK(n.queue, Count)
    BY <1>3, <1>4 DEF RequeuePhase
  <2>q. QED BY <1>3, <1>4, <2>1 DEF RequeuePhase, DownloadPhase
<1>6. DownloadPhase(js, n)'
  BY <1>1, <1>5, PhaseFrame
<1>7. ~net.failed'
  BY <1>1, <1>2, <1>4 DEF RequeuePhase, Fresh
<1>q. QED BY <1>1, <1>2, <1>6, <1>7 DEF ArrivalInv

-----------------------------------------------------------------------------
(* The answers are handed out.                                             *)

LEMMA RunArrives ==
  ASSUME ShapeInv, ~Astray, ArrivalInv, RunHttpRequests
  PROVE  ArrivalInv'
<1>1. /\ pc = "download" /\ TypeInv /\ InsOK /\ UNCHANGED <<req, ins>> /\ pc' = "read" /\ RequestInv
      /\ at' = 1 /\ idx' = 0 /\ Done = Count /\ DownloadPhase(ins, net)
  BY DEF ShapeInv, Parsing, Waiting, RunHttpRequests, Goto, Done, ArrivalInv
<1>2. Blocks
  BY <1>1, Unastray
<1>3. PICK js, n, z : js = ins /\ n = net' /\ z = net
  OBVIOUS
<1>4. z.queue \in Seq(HandleType) /\ z \in NetType
  BY <1>1, <1>3 DEF TypeInv, NetType
<1>5. DownloadPhase(js, z)
  BY <1>1, <1>3
<1>6. PICK y : y = Downloaded(z.queue)
  OBVIOUS
<1>7. AnswersOK(y) /\ y \in Seq(HandleType)
  BY <1>1, <1>4, <1>5, <1>6, Answered, DownloadedType DEF DownloadPhase
<1>8. n.queue = y /\ n.read = z.read /\ n.failed = z.failed
  <2>1. n = [z EXCEPT !.queue = y]
    BY <1>3, <1>6 DEF RunHttpRequests, Downloaded
  <2>q. QED BY <1>4, <1>7, <2>1 DEF NetType
<1>9. ReadPhase(js, n, 1)
  <2>1. n.read = Rank(1 - 1)
    BY <1>5, <1>8, RankZero DEF DownloadPhase, Fresh
  <2>2. \A p \in 1 .. Count : ~(p < 1) /\ Ready(Cell(js, p), p)
    BY <1>1, <1>5, ItemFacts DEF DownloadPhase
  <2>q. QED BY <1>7, <1>8, <2>1, <2>2 DEF ReadPhase
<1>10. CursorOf(js, 1, 0) = 1
  BY <1>1, <1>2, <1>3, WalkStart
<1>11. ReadPhase(js, n, CursorOf(js, 1, 0))'
  BY <1>1, <1>9, <1>10, PhaseFrame
<1>12. ~net.failed'
  BY <1>3, <1>5, <1>8 DEF DownloadPhase, Fresh
<1>q. QED BY <1>1, <1>3, <1>11, <1>12 DEF ArrivalInv

(* What is not queued is there already.                                    *)
LEMMA UnqueuedArrived ==
  ASSUME RequestInv, NEW p \in 1 .. Count, ~Queued(p), NEW o, Ready(o, p)
  PROVE  Arrived(o, p)
<1>1. CASE Fetched(p)
  <2>1. o.value = <<"file", p>>
    BY <1>1 DEF Ready
  <2>2. Given(p).url = "cached"
    BY <1>1 DEF Queued
  <2>q. QED BY <1>1, <2>1, <2>2 DEF Arrived, Expected
<1>2. CASE ~Fetched(p)
  <2>1. o.value = <<"own", p>>
    BY <1>2 DEF Ready, ValueOK
  <2>2. Given(p).url = "ok"
    BY <1>2, ItemFacts DEF Fetched
  <2>q. QED BY <1>2, <2>1, <2>2 DEF Arrived, Expected
<1>q. QED BY <1>1, <1>2

LEMMA ReadFacts ==
  ASSUME ShapeInv, ~Astray, ArrivalInv, Walking("read"), NEW c, c = CursorOf(ins, at, idx), NEW o, o = Here,
         NEW k, k = at, NEW i, i = idx
  PROVE  /\ pc = "read" /\ TypeInv /\ InsOK /\ RequestInv /\ CursorOK /\ at <= Len(ins) /\ Done = Count
         /\ Blocks /\ ReadPhase(ins, net, c)
         /\ net.failed => BadAnswer \/ HeadersMissing
         /\ c \in 1 .. Count /\ c = Start(k) + i /\ k \in DOMAIN ins /\ i \in 0 .. Occurrences(k) - 1
         /\ o = Cell(ins, c) /\ o \in OccurrenceType /\ Count \in Nat /\ c \in Nat \ {0}
         /\ Done \in Nat /\ Done <= Count
<1>1. /\ pc = "read" /\ TypeInv /\ InsOK /\ RequestInv /\ CursorOK /\ at <= Len(ins) /\ Done = Count
      /\ ReadPhase(ins, net, c) /\ (net.failed => BadAnswer \/ HeadersMissing)
  BY DEF ShapeInv, Parsing, Waiting, Walking, Done, ArrivalInv
<1>2. Blocks
  BY <1>1, Unastray
<1>3. /\ CursorOf(ins, at, idx) \in 1 .. Count /\ CursorOf(ins, at, idx) = Start(at) + idx
      /\ at \in DOMAIN ins /\ idx \in 0 .. Occurrences(at) - 1
      /\ Here = Cell(ins, CursorOf(ins, at, idx))
  BY <1>1, <1>2, WalkHere
<1>4. Here \in OccurrenceType /\ Count \in Nat
  BY <1>1, HereType, ItemFacts
<1>q. QED BY <1>1, <1>2, <1>3, <1>4

(* One item is read, no download has failed yet.                           *)
LEMMA PhaseRead ==
  ASSUME NEW c \in Nat \ {0}, c <= Count, Count \in Nat, NEW z, ReadPhase(ins, z, c), ~z.failed,
         NEW js, Arrived(Cell(js, c), c),
         \A q \in 1 .. Count : q # c => Cell(js, q) = Cell(ins, q),
         NEW n, n.queue = z.queue, n.read = Rank(c)
  PROVE  ReadPhase(js, n, c + 1)
<1>1. PICK d : d = c + 1
  OBVIOUS
<1>2. n.read = Rank(d - 1)
  <2>1. d - 1 = c
    BY <1>1
  <2>q. QED BY <2>1
<1>3. ASSUME NEW p \in 1 .. Count
      PROVE  (p < d => Arrived(Cell(js, p), p)) /\ (p >= d => Ready(Cell(js, p), p))
  <2>1. (p < d => p < c \/ p = c) /\ (p >= d => p >= c /\ p # c) /\ (p < c => p # c)
    BY <1>1
  <2>q. QED BY <2>1 DEF ReadPhase
<1>4. AnswersOK(n.queue)
  BY DEF ReadPhase
<1>q. QED BY <1>1, <1>2, <1>3, <1>4 DEF ReadPhase

(* The invariant after it, in terms of the state before it.                *)
LEMMA ReadKeeps ==
  ASSUME UNCHANGED req, pc' = "read", ~Astray, NEW js, js = ins', NEW n, n = net',
         NEW d, CursorOf(js, at', idx') = d, n.failed => BadAnswer \/ HeadersMissing, ReadPhase(js, n, d)
  PROVE  ArrivalInv'
<1>1. PICK a, l : a = at' /\ l = idx'
  OBVIOUS
<1>2. ReadPhase(js, n, CursorOf(js, a, l))
  BY <1>1
<1>3. ReadPhase(js, n, CursorOf(js, a, l))'
  BY <1>2, PhaseFrame
<1>4. ReadPhase(ins, net, CursorOf(ins, at, idx))'
  BY <1>1, <1>3
<1>5. (net.failed => BadAnswer \/ HeadersMissing)'
  BY PhaseFrame
<1>q. QED BY <1>4, <1>5 DEF ArrivalInv

LEMMA SkipArrives ==
  ASSUME ShapeInv, ~Astray, ArrivalInv, SkipOccurrence
  PROVE  ArrivalInv'
<1>1. PICK c, o, k, i, js, z : /\ c = CursorOf(ins, at, idx) /\ o = Here /\ k = at /\ i = idx
                               /\ js = ins /\ z = net
  OBVIOUS
<1>2. /\ pc = "read" /\ TypeInv /\ InsOK /\ RequestInv /\ CursorOK /\ at <= Len(ins) /\ Done = Count
      /\ Blocks /\ ReadPhase(ins, net, c)
      /\ net.failed => BadAnswer \/ HeadersMissing
      /\ c \in 1 .. Count /\ o = Cell(ins, c) /\ o \in OccurrenceType /\ Count \in Nat /\ c \in Nat \ {0}
  <2>1. Walking("read")
    BY DEF SkipOccurrence
  <2>q. QED BY <1>1, <2>1, ReadFacts
<1>3. UNCHANGED <<req, pc, ins, net>> /\ NextOccurrence /\ (~Due \/ Here.isCached)
  BY DEF SkipOccurrence
<1>4. CursorOf(js, at', idx') = c + 1
  <2>1. SameShape(js)
    BY <1>1, <1>2, SameShapeOfIns
  <2>q. QED BY <1>1, <1>2, <1>3, <2>1, WalkNext
<1>5. ReadPhase(ins, z, c)
  BY <1>1, <1>2
<1>6. ReadPhase(js, z, c + 1)
  <2>1. CASE z.failed
    BY <1>5, <2>1 DEF ReadPhase
  <2>2. CASE ~z.failed
    <3>1. z.read = Rank(c - 1) /\ Ready(o, c)
      <4>1. c >= c
        BY <1>2
      <4>2. z.read = Rank(c - 1)
        BY <1>5, <2>2 DEF ReadPhase
      <4>3. Ready(Cell(ins, c), c)
        BY <1>2, <1>5, <2>2, <4>1 DEF ReadPhase
      <4>q. QED BY <1>2, <4>2, <4>3
    <3>2. ~Queued(c)
      <4>1. SUFFICES ASSUME Queued(c) PROVE FALSE
        OBVIOUS
      <4>2. PICK b : b = c - 1
        OBVIOUS
      <4>3. b \in Nat /\ b + 1 = c
        BY <1>2, <4>2
      <4>4. Rank(c) = Rank(b) + 1
        BY <4>1, <4>3, RankNext
      <4>5. Fetched(c)
        BY <4>1 DEF Queued
      <4>6. o.Reference = c /\ o.order = Rank(c) /\ ~o.isCached
        BY <3>1, <4>1, <4>5 DEF Ready
      <4>7. o.order = z.read + 1
        BY <3>1, <4>2, <4>4, <4>6
      <4>q. QED BY <1>1, <1>2, <1>3, <4>6, <4>7 DEF Due
    <3>3. Rank(c) = Rank(c - 1)
      <4>1. PICK b : b = c - 1
        OBVIOUS
      <4>2. b \in Nat /\ b <= c /\ c \in Nat /\ \A q \in b + 1 .. c : q = c
        BY <1>2, <4>1
      <4>3. \A q \in b + 1 .. c : ~Queued(q)
        BY <3>2, <4>2
      <4>4. Rank(c) = Rank(b)
        BY <4>2, <4>3, RankGap
      <4>q. QED BY <4>1, <4>4
    <3>4. Arrived(o, c)
      BY <1>2, <3>1, <3>2, UnqueuedArrived
    <3>5. Arrived(Cell(js, c), c) /\ \A q \in 1 .. Count : q # c => Cell(js, q) = Cell(ins, q)
      BY <1>1, <1>2, <3>4
    <3>6. z.read = Rank(c) /\ c <= Count
      BY <1>2, <3>1, <3>3
    <3>q. QED BY <1>2, <1>5, <2>2, <3>5, <3>6, PhaseRead
  <2>q. QED BY <2>1, <2>2
<1>7. js = ins' /\ z = net' /\ pc' = "read" /\ UNCHANGED req
  BY <1>1, <1>2, <1>3
<1>8. z.failed => BadAnswer \/ HeadersMissing
  BY <1>1, <1>2
<1>q. QED BY <1>4, <1>6, <1>7, <1>8, ReadKeeps

LEMMA ReadArrives ==
  ASSUME ShapeInv, ~Astray, ArrivalInv, ReadOccurrence
  PROVE  ArrivalInv'
<1>1. PICK c, o, k, i, js, z, n :
        /\ c = CursorOf(ins, at, idx) /\ o = Here /\ k = at /\ i = idx
        /\ js = ins' /\ z = net /\ n = net'
  OBVIOUS
<1>2. /\ pc = "read" /\ TypeInv /\ InsOK /\ RequestInv /\ CursorOK /\ at <= Len(ins) /\ Done = Count
      /\ Blocks /\ ReadPhase(ins, net, c)
      /\ net.failed => BadAnswer \/ HeadersMissing
      /\ c \in 1 .. Count /\ c = Start(k) + i /\ k \in DOMAIN ins /\ i \in 0 .. Occurrences(k) - 1
      /\ o = Cell(ins, c) /\ o \in OccurrenceType /\ Count \in Nat /\ c \in Nat \ {0}
      /\ Done \in Nat /\ Done <= Count
  <2>1. Walking("read")
    BY DEF ReadOccurrence
  <2>q. QED BY <1>1, <2>1, ReadFacts
<1>3. UNCHANGED <<req, pc>> /\ Due /\ ~Here.isCached
  BY DEF ReadOccurrence
<1>4. PICK content \in InternetReadFile(net.queue, Here.order) :
        /\ ins' = WithOccurrence(ins, at, idx, [Here EXCEPT !.value = content])
        /\ \/ /\ content[1] # "error"
              /\ net' = [net EXCEPT !.read = @ + 1]
              /\ NextOccurrence
           \/ /\ content[1] = "error"
              /\ net' = [net EXCEPT !.failed = TRUE]
              /\ at' = at + 1 /\ idx' = 0
  BY DEF ReadOccurrence
<1>5. ReadPhase(ins, z, c) /\ z \in NetType
  BY <1>1, <1>2 DEF TypeInv
<1>6. pc' = "read" /\ UNCHANGED req
  BY <1>2, <1>3
<1>7. CASE content[1] = "error"
  <2>1. n = [z EXCEPT !.failed = TRUE]
    BY <1>1, <1>4, <1>7
  <2>2. n.failed /\ n.queue = z.queue
    BY <1>5, <2>1 DEF NetType
  <2>3. PICK d : d = CursorOf(js, at', idx')
    OBVIOUS
  <2>4. ReadPhase(js, n, d)
    BY <1>5, <2>2 DEF ReadPhase
  <2>5. BadAnswer \/ HeadersMissing
    <3>1. CASE z.failed
      BY <1>1, <1>2, <3>1
    <3>2. CASE ~z.failed
      <4>1. Ready(o, c)
        <5>1. c >= c
          BY <1>2
        <5>q. QED BY <1>2, <1>5, <3>2, <5>1 DEF ReadPhase
      <4>2. o.Reference # 0 /\ ~o.isCached
        BY <1>1, <1>3 DEF Due
      <4>3. Fetched(c)
        BY <4>1, <4>2 DEF Ready, ValueOK
      <4>4. Queued(c) /\ o.order = Rank(c)
        BY <4>1, <4>2, <4>3 DEF Ready
      <4>5. AnswersOK(z.queue)
        BY <1>5 DEF ReadPhase
      <4>6. /\ Rank(c) \in DOMAIN z.queue
            /\ z.queue[Rank(c)].answer \in {<<"file", c>>, <<"error", c>>}
            /\ z.queue[Rank(c)].answer = <<"error", c>> => BadAnswer \/ HeadersMissing
        BY <1>2, <4>4, <4>5 DEF AnswersOK
      <4>7. content = z.queue[Rank(c)].answer
        <5>1. z.queue \in Seq(HandleType)
          BY <1>5 DEF NetType
        <5>2. ~(Rank(c) > Len(z.queue))
          BY <4>6, <5>1
        <5>q. QED BY <1>1, <1>4, <4>4, <5>2 DEF InternetReadFile
      <4>8. content = <<"error", c>>
        BY <1>7, <4>6, <4>7
      <4>q. QED BY <4>6, <4>7, <4>8
    <3>q. QED BY <3>1, <3>2
  <2>6. CursorOf(js, at', idx') = d
    BY <2>3
  <2>7. js = ins' /\ n = net'
    BY <1>1
  <2>q. QED BY <1>6, <2>4, <2>5, <2>6, <2>7, ReadKeeps
<1>8. CASE content[1] # "error"
  <2>1. n = [z EXCEPT !.read = z.read + 1] /\ NextOccurrence
    BY <1>1, <1>4, <1>8
  <2>2. n.failed = z.failed /\ n.queue = z.queue /\ n.read = z.read + 1
    BY <1>5, <2>1 DEF NetType
  <2>3. PICK x : x = [o EXCEPT !.value = content]
    OBVIOUS
  <2>4. js = WithOccurrence(ins, k, i, x)
    BY <1>1, <1>4, <2>3
  <2>5. content \in Content
    <3>1. z.queue \in Seq(HandleType) /\ o.order \in Nat
      BY <1>2, <1>5 DEF NetType, OccurrenceType
    <3>2. CASE o.order > Len(z.queue)
      <4>1. content \in {<<"other", 0>>, <<"error", 0>>}
        BY <1>1, <1>4, <3>2 DEF InternetReadFile
      <4>q. QED BY <4>1 DEF Content
    <3>3. CASE ~(o.order > Len(z.queue))
      <4>1. content = z.queue[o.order].answer
        BY <1>1, <1>4, <3>3 DEF InternetReadFile
      <4>2. o.order # 0
        <5>1. o.order = z.read + 1 /\ z.read \in Nat
          BY <1>1, <1>3, <1>5 DEF Due, NetType
        <5>q. QED BY <5>1
      <4>3. o.order \in DOMAIN z.queue
        BY <3>1, <3>3, <4>2
      <4>4. z.queue[o.order] \in HandleType
        BY <3>1, <4>3
      <4>q. QED BY <4>1, <4>4 DEF HandleType
    <3>q. QED BY <3>2, <3>3
  <2>6. x \in OccurrenceType
    BY <1>2, <2>3, <2>5, ValueType
  <2>7. /\ SameShape(js) /\ Cell(js, c) = x
        /\ \A q \in 1 .. Count : q # c => Cell(js, q) = Cell(ins, q)
    <3>1. /\ SameShape(js) /\ Cell(js, Start(k) + i) = x
          /\ \A q \in 1 .. Done : q # Start(k) + i => Cell(js, q) = Cell(ins, q)
      BY <1>2, <2>4, <2>6, PutCell
    <3>q. QED BY <1>2, <3>1
  <2>8. CursorOf(js, at', idx') = c + 1
    BY <1>1, <1>2, <2>1, <2>7, WalkNext
  <2>9. ReadPhase(js, n, c + 1)
    <3>1. CASE z.failed
      BY <1>5, <2>2, <3>1 DEF ReadPhase
    <3>2. CASE ~z.failed
      <4>1. Ready(o, c) /\ z.read = Rank(c - 1)
        <5>1. c >= c
          BY <1>2
        <5>q. QED BY <1>2, <1>5, <3>2, <5>1 DEF ReadPhase
      <4>2. o.Reference # 0 /\ ~o.isCached
        BY <1>1, <1>3 DEF Due
      <4>3. Fetched(c)
        BY <4>1, <4>2 DEF Ready, ValueOK
      <4>4. Queued(c) /\ o.order = Rank(c)
        BY <4>1, <4>2, <4>3 DEF Ready
      <4>5. AnswersOK(z.queue)
        BY <1>5 DEF ReadPhase
      <4>6. /\ Rank(c) \in DOMAIN z.queue
            /\ z.queue[Rank(c)].answer \in {<<"file", c>>, <<"error", c>>}
            /\ Given(c).url = "broken" => z.queue[Rank(c)].answer = <<"error", c>>
        BY <1>2, <4>4, <4>5 DEF AnswersOK
      <4>7. content = z.queue[Rank(c)].answer
        <5>1. z.queue \in Seq(HandleType)
          BY <1>5 DEF NetType
        <5>2. ~(Rank(c) > Len(z.queue))
          BY <4>6, <5>1
        <5>q. QED BY <1>1, <1>4, <4>4, <5>2 DEF InternetReadFile
      <4>8. content = <<"file", c>> /\ Given(c).url # "broken"
        BY <1>8, <4>6, <4>7
      <4>9. Arrived(x, c)
        <5>1. x.value = content
          BY <1>2, <2>3 DEF OccurrenceType
        <5>q. QED BY <4>3, <4>8, <5>1 DEF Arrived, Expected
      <4>10. n.read = Rank(c)
        <5>1. PICK b : b = c - 1
          OBVIOUS
        <5>2. b \in Nat /\ b + 1 = c
          BY <1>2, <5>1
        <5>3. Rank(c) = Rank(b) + 1
          BY <4>4, <5>2, RankNext
        <5>q. QED BY <2>2, <4>1, <5>1, <5>3
      <4>11. c <= Count /\ Arrived(Cell(js, c), c)
        BY <1>2, <2>7, <4>9
      <4>q. QED BY <1>2, <1>5, <2>2, <2>7, <3>2, <4>10, <4>11, PhaseRead
    <3>q. QED BY <3>1, <3>2
  <2>10. n.failed => BadAnswer \/ HeadersMissing
    BY <1>1, <1>2, <2>2
  <2>11. js = ins' /\ n = net'
    BY <1>1
  <2>q. QED BY <1>6, <2>8, <2>9, <2>10, <2>11, ReadKeeps
<1>q. QED BY <1>7, <1>8

LEMMA InputsReadArrive ==
  ASSUME ShapeInv, ~Astray, ArrivalInv, InputsRead
  PROVE  ArrivalInv'
<1>1. /\ pc = "read" /\ TypeInv /\ InsOK /\ RequestInv /\ CursorOK /\ Done = Count
      /\ ReadPhase(ins, net, CursorOf(ins, at, idx)) /\ (net.failed => BadAnswer \/ HeadersMissing)
      /\ UNCHANGED <<req, ins>> /\ pc' = "validate" /\ (at > Len(ins) \/ net.queue = <<>>)
      /\ net' = [net EXCEPT !.queue = <<>>]
  BY DEF ShapeInv, Parsing, Waiting, InputsRead, Goto, Done, ArrivalInv, InternetCloseHandle, InternetOpen
<1>2. Blocks
  BY <1>1, Unastray
<1>3. PICK c, js, z, n : c = CursorOf(ins, at, idx) /\ js = ins /\ z = net /\ n = net'
  OBVIOUS
<1>4. ReadPhase(js, z, c) /\ z \in NetType
  BY <1>1, <1>3 DEF TypeInv
<1>5. n.failed = z.failed
  <2>1. n = [z EXCEPT !.queue = <<>>]
    BY <1>1, <1>3
  <2>q. QED BY <1>4, <2>1 DEF NetType
<1>6. ASSUME ~z.failed PROVE AllArrived(js)
  <2>1. CASE at > Len(ins)
    <3>1. c = Count + 1 /\ Count \in Nat
      <4>1. at \in Nat /\ Len(ins) \in Nat /\ Count \in Nat
        BY <1>1, ItemFacts DEF TypeInv
      <4>q. QED BY <1>3, <2>1, <4>1 DEF CursorOf
    <3>2. \A p \in 1 .. Count : p < c
      BY <3>1
    <3>q. QED BY <1>4, <1>6, <3>2 DEF ReadPhase, AllArrived
  <2>2. CASE net.queue = <<>>
    <3>1. \A p \in 1 .. Count : ~Queued(p)
      <4>1. AnswersOK(z.queue) /\ z.queue = <<>>
        BY <1>3, <1>4, <2>2 DEF ReadPhase
      <4>2. DOMAIN z.queue = {}
        BY <4>1
      <4>q. QED BY <4>1, <4>2 DEF AnswersOK
    <3>2. ASSUME NEW p \in 1 .. Count PROVE Arrived(Cell(js, p), p)
      <4>1. CASE p < c
        BY <1>4, <1>6, <4>1 DEF ReadPhase
      <4>2. CASE ~(p < c)
        <5>1. c \in Int /\ p \in Int
          <6>1. Count \in Nat /\ at \in Nat /\ Len(ins) \in Nat /\ DOMAIN ins = 1 .. Len(ins)
            BY <1>1, ItemFacts DEF TypeInv
          <6>2. CASE at <= Len(ins)
            <7>1. CursorOf(ins, at, idx) \in 1 .. Count
              BY <1>1, <1>2, <6>2, WalkHere
            <7>q. QED BY <1>3, <6>1, <7>1
          <6>3. CASE ~(at <= Len(ins))
            BY <1>3, <6>1, <6>3 DEF CursorOf
          <6>q. QED BY <6>1, <6>2, <6>3
        <5>2. p >= c
          BY <4>2, <5>1
        <5>3. PICK o : o = Cell(js, p)
          OBVIOUS
        <5>4. Ready(o, p) /\ ~Queued(p)
          BY <1>4, <1>6, <3>1, <5>2, <5>3 DEF ReadPhase
        <5>5. Arrived(o, p)
          BY <1>1, <5>4, UnqueuedArrived
        <5>q. QED BY <5>3, <5>5
      <4>q. QED BY <4>1, <4>2
    <3>q. QED BY <3>2 DEF AllArrived
  <2>q. QED BY <1>1, <2>1, <2>2
<1>7. n.failed \/ AllArrived(js)
  BY <1>5, <1>6
<1>8. (net.failed => BadAnswer \/ HeadersMissing)'
  <2>1. n.failed => BadAnswer \/ HeadersMissing
    BY <1>1, <1>3, <1>5
  <2>q. QED BY <1>1, <1>3, <2>1, PhaseFrame
<1>9. (net.failed \/ AllArrived(ins))'
  <2>1. n.failed \/ AllArrived(js)'
    BY <1>1, <1>7, PhaseFrame
  <2>q. QED BY <1>1, <1>3, <2>1
<1>q. QED BY <1>1, <1>8, <1>9 DEF ArrivalInv

LEMMA ArrivalInit == Init => ArrivalInv
<1>1. SUFFICES ASSUME Init PROVE ArrivalInv
  OBVIOUS
<1>2. /\ RequestInv /\ pc = "parse" /\ at = 1
      /\ net.requests = <<>> /\ net.queue = <<>> /\ net.read = 0 /\ net.failed = FALSE
  BY <1>1, RequestInit DEF Init, InitInputs, InternetOpen
<1>3. at - 1 = 0 /\ (\A p \in 1 .. 0 : FALSE)
  BY <1>2
<1>4. RequestsOK(net.requests, 0)
  BY <1>2, <1>3 DEF RequestsOK
<1>5. ParsePhase(ins, net, 0)
  BY <1>2, <1>3, <1>4, QueueEmpty DEF ParsePhase, Fresh
<1>q. QED BY <1>2, <1>3, <1>5 DEF ArrivalInv

LEMMA ArrivalStep == ShapeInv /\ ArrivalInv /\ [Next]_vars => ArrivalInv'
<1>0. SUFFICES ASSUME ShapeInv, ArrivalInv, [Next]_vars PROVE ArrivalInv'
  OBVIOUS
<1>1. SUFFICES ASSUME ~Astray PROVE ArrivalInv'
  <2>1. UNCHANGED req
    BY <1>0 DEF Next, InputStep, vars, inputVars, ParseInput, ParseJsonInput, LoadHttpRequest,
         HttpRequestsLoaded, Publish, RequestAgain, RequestedAgain, RunHttpRequests,
         ReadOccurrence, SkipOccurrence, InputsRead, ParseOutputs, RefuseOccurrences,
         RefuseInvalid, Validate, RunService, Respond
  <2>2. Astray' <=> Astray
    BY <2>1, PhaseFrame
  <2>q. QED BY <2>2 DEF ArrivalInv
<1>2. CASE UNCHANGED vars
  <2>1. UNCHANGED <<req, pc, at, idx, ins, net>>
    BY <1>2 DEF vars, inputVars
  <2>2. PICK js, n, a, i : js = ins /\ n = net /\ a = at /\ i = idx
    OBVIOUS
  <2>3. /\ n.failed => BadAnswer \/ HeadersMissing
        /\ pc = "parse" => ParsePhase(js, n, a - 1)
        /\ pc = "load" => LoadPhase(js, n, a)
        /\ pc = "message" => MessagePhase(js, n)
        /\ pc = "requeue" => RequeuePhase(js, n, CursorOf(js, a, i))
        /\ pc = "download" => DownloadPhase(js, n)
        /\ pc = "read" => ReadPhase(js, n, CursorOf(js, a, i))
        /\ pc = "validate" => n.failed \/ AllArrived(js)
    BY <1>0, <1>1, <2>2 DEF ArrivalInv
  <2>4. /\ n.failed => BadAnswer' \/ HeadersMissing'
        /\ pc = "parse" => ParsePhase(js, n, a - 1)'
        /\ pc = "load" => LoadPhase(js, n, a)'
        /\ pc = "message" => MessagePhase(js, n)'
        /\ pc = "requeue" => RequeuePhase(js, n, CursorOf(js, a, i))'
        /\ pc = "download" => DownloadPhase(js, n)'
        /\ pc = "read" => ReadPhase(js, n, CursorOf(js, a, i))'
        /\ pc = "validate" => n.failed \/ AllArrived(js)'
    BY <2>1, <2>3, PhaseFrame
  <2>q. QED BY <2>1, <2>2, <2>4 DEF ArrivalInv
<1>3. CASE InputStep
  BY <1>0, <1>1, <1>3, ParseArrives, LoadArrives, LoadedArrive, PublishArrives, AgainArrives,
     RequestedArrives, RunArrives, ReadArrives, SkipArrives, InputsReadArrive DEF InputStep
<1>4. CASE ParseOutputs /\ pc' # "end"
  BY <1>0, <1>1, <1>4, OutputsArrive
<1>5. CASE (ParseOutputs /\ pc' = "end") \/ RefuseOccurrences \/ RefuseInvalid \/ Validate \/ RunService \/ Respond
  <2>1. UNCHANGED <<req, net>> /\ pc' \in {"end", "run", "respond"}
    BY <1>5 DEF ParseOutputs, RefuseOccurrences, RefuseInvalid, Validate, RunService, Respond, Refuse, Goto
  <2>2. (net.failed => BadAnswer \/ HeadersMissing)'
    BY <1>0, <1>1, <2>1, PhaseFrame DEF ArrivalInv
  <2>q. QED BY <2>1, <2>2 DEF ArrivalInv
<1>q. QED BY <1>0, <1>2, <1>3, <1>4, <1>5 DEF Next

-----------------------------------------------------------------------------
(* When the service is called.                                             *)

LEMMA AscendingInterval ==
  ASSUME NEW s \in Nat \ {0}, NEW m \in Nat \ {0}, NEW S, S = s .. s + m - 1
  PROVE  /\ Cardinality(S) = m /\ IsFiniteSet(S)
         /\ \A i \in 1 .. m : Ascending(S)[i] = s + i - 1
<1>1. Cardinality(S) = m /\ IsFiniteSet(S)
  <2>1. s \in Int /\ s + m - 1 \in Int /\ ~(s > s + m - 1) /\ s + m - 1 - s + 1 = m
    OBVIOUS
  <2>q. QED BY <2>1, FS_Interval
<1>2. ASSUME NEW x \in S PROVE x \in Nat /\ Cardinality({y \in S : y <= x}) = x - s + 1
  <2>1. {y \in S : y <= x} = s .. x /\ x \in Nat /\ ~(s > x)
    OBVIOUS
  <2>2. Cardinality(s .. x) = x - s + 1
    BY <2>1, FS_Interval
  <2>q. QED BY <2>1, <2>2
<1>3. ASSUME NEW i \in 1 .. m PROVE Ascending(S)[i] = s + i - 1
  <2>1. Ascending(S)[i] = CHOOSE x \in S : Cardinality({y \in S : y <= x}) = i
    BY <1>1 DEF Ascending
  <2>2. PICK z : z = s + i - 1
    OBVIOUS
  <2>3. z \in S /\ Cardinality({y \in S : y <= z}) = i
    <3>1. z \in S /\ z - s + 1 = i
      BY <2>2
    <3>q. QED BY <1>2, <3>1
  <2>4. \A x \in S : Cardinality({y \in S : y <= x}) = i => x = z
    <3>1. \A x \in S : x - s + 1 = i => x = z
      BY <2>2
    <3>q. QED BY <1>2, <3>1
  <2>5. (CHOOSE x \in S : Cardinality({y \in S : y <= x}) = i) = z
    BY <2>3, <2>4
  <2>q. QED BY <2>1, <2>2, <2>5
<1>q. QED BY <1>1, <1>3

LEMMA FunctionIsSequence ==
  ASSUME NEW m \in Nat, NEW S, NEW f \in [1 .. m -> S]
  PROVE  f \in Seq(S) /\ Len(f) = m /\ DOMAIN f = 1 .. m
OBVIOUS

(* The items of a name are those of its block; a name that is not there    *)
(* has none.                                                               *)
Same(n) == {p \in Positioned : Given(p).name = n}

LEMMA ItemsLength ==
  ASSUME RequestInv, NEW n
  PROVE  /\ Same(n) = ItemsUpTo(n, Count) /\ Same(n) \in SUBSET (1 .. Count)
         /\ IsFiniteSet(Same(n)) /\ Len(ItemsOf(n)) = Cardinality(Same(n))
         /\ DOMAIN ItemsOf(n) = 1 .. Cardinality(Same(n)) /\ Cardinality(Same(n)) \in Nat
         /\ ItemsOf(n) = <<>> <=> Same(n) = {}
<1>1. Same(n) = ItemsUpTo(n, Count) /\ Same(n) \in SUBSET (1 .. Count) /\ Count \in Nat
  BY ItemFacts DEF Same, ItemsUpTo, NameAt
<1>2. PICK S : S = Same(n)
  OBVIOUS
<1>3. /\ Cardinality(S) \in Nat /\ IsFiniteSet(S) /\ Ascending(S) \in [1 .. Cardinality(S) -> S]
      /\ S # {} => Cardinality(S) >= 1
  BY <1>1, <1>2, AscendingOf, FiniteNumbers
<1>4. Len(Ascending(S)) = Cardinality(S) /\ DOMAIN Ascending(S) = 1 .. Cardinality(S) /\ Ascending(S) \in Seq(S)
  BY <1>3, FunctionIsSequence
<1>5. ItemsOf(n) = Ascending(S)
  BY <1>2 DEF ItemsOf, Same
<1>6. Ascending(S) = <<>> <=> S = {}
  <2>1. S = {} => Cardinality(S) = 0
    BY FS_EmptySet
  <2>2. Ascending(S) = <<>> <=> Len(Ascending(S)) = 0
    BY <1>4
  <2>q. QED BY <1>3, <1>4, <2>1, <2>2
<1>q. QED BY <1>1, <1>2, <1>3, <1>4, <1>5, <1>6

LEMMA BlockItems ==
  ASSUME RequestInv, TypeInv, InsOK, Blocks, Done = Count, NEW k \in DOMAIN ins, NEW n, n = ins[k].name
  PROVE  /\ ItemsOf(n) # <<>> /\ Len(ItemsOf(n)) = Occurrences(k)
         /\ \A i \in DOMAIN ItemsOf(n) : /\ i - 1 \in 0 .. Occurrences(k) - 1
                                         /\ ItemsOf(n)[i] = Start(k) + (i - 1)
<1>1. PICK s, m : s = Start(k) /\ m = Occurrences(k)
  OBVIOUS
<1>2. /\ s \in 1 .. Count /\ m \in Nat \ {0} /\ Count \in Nat /\ s + m <= Count + 1
      /\ \A p \in 1 .. Count : NameAt(p) = n <=> s <= p /\ p < s + m
  <2>1. Count \in Nat
    BY ItemFacts
  <2>2. /\ Start(k) \in 1 .. Count /\ Occurrences(k) \in Nat \ {0} /\ End(k) = Start(k) + Occurrences(k)
    BY <2>1, BlockOf
  <2>3. End(k) <= Count + 1 /\ \A p \in 1 .. Count : NameAt(p) = n <=> Start(k) <= p /\ p < End(k)
    BY DEF Blocks
  <2>q. QED BY <1>1, <2>1, <2>2, <2>3
<1>3. Same(n) = s .. s + m - 1
  <2>1. Same(n) = {p \in 1 .. Count : NameAt(p) = n}
    BY ItemFacts DEF Same, NameAt
  <2>2. \A p \in 1 .. Count : s <= p /\ p < s + m <=> p \in s .. s + m - 1
    BY <1>2
  <2>3. \A p \in s .. s + m - 1 : p \in 1 .. Count
    BY <1>2
  <2>4. \A p \in 1 .. Count : NameAt(p) = n <=> p \in s .. s + m - 1
    BY <1>2, <2>2
  <2>q. QED BY <2>1, <2>3, <2>4
<1>4. Cardinality(Same(n)) = m /\ \A i \in 1 .. m : Ascending(Same(n))[i] = s + i - 1
  <2>1. s \in Nat \ {0} /\ m \in Nat \ {0}
    BY <1>2
  <2>2. PICK S : S = Same(n)
    OBVIOUS
  <2>3. S = s .. s + m - 1
    BY <1>3, <2>2
  <2>4. Cardinality(S) = m /\ \A i \in 1 .. m : Ascending(S)[i] = s + i - 1
    BY <2>1, <2>3, AscendingInterval
  <2>q. QED BY <2>2, <2>4
<1>5. ItemsOf(n) = Ascending(Same(n))
  BY DEF ItemsOf, Same
<1>6. Len(ItemsOf(n)) = m /\ DOMAIN ItemsOf(n) = 1 .. m /\ (ItemsOf(n) = <<>> <=> Same(n) = {})
  BY <1>4, ItemsLength
<1>7. s \in Same(n)
  BY <1>2, <1>3
<1>8. \A i \in 1 .. m : i - 1 \in 0 .. m - 1 /\ s + i - 1 = s + (i - 1)
  BY <1>2
<1>q. QED BY <1>1, <1>4, <1>5, <1>6, <1>7, <1>8

LEMMA AbsentItems ==
  ASSUME RequestInv, InsOK, Done = Count, NEW n
  PROVE  Present(n) <=> ItemsOf(n) # <<>>
<1>1. Present(n) => \E p \in 1 .. Count : NameAt(p) = n
  BY DEF Present, InsOK, NamesOK
<1>2. \A p \in 1 .. Count : NameAt(p) = n => Present(n)
  BY DEF InsOK, NamesOK
<1>3. Same(n) = {p \in 1 .. Count : NameAt(p) = n}
  BY ItemFacts DEF Same, NameAt
<1>q. QED BY <1>1, <1>2, <1>3, ItemsLength

(* The invariants of the run, for the inputs js.                           *)
RunArrived(js) ==
  \A k \in DOMAIN js :
    LET items == ItemsOf(js[k].name) IN
    IF items = <<>> THEN js[k].occ[0].value = <<"default", 0>>
    ELSE /\ (IF js[k].length = 0 THEN 1 ELSE js[k].length) = Len(items)
         /\ \A i \in DOMAIN items : js[k].occ[i - 1].value = Expected(items[i])

RequestValid ==
  /\ \A n \in DOMAIN req.zcfg :
       /\ req.zcfg[n].min >= 1 => ItemsOf(n) # <<>>
       /\ req.form # "json" => Len(ItemsOf(n)) <= req.zcfg[n].max
  /\ ~Astray => ~BadAnswer

AskedValid == \A r \in Range(asked) : r.name \in Outputs

RunFacts == pc = "run" => (~Astray => RunArrived(ins)) /\ RequestValid /\ AskedValid

LEMMA RunFrame ==
  ASSUME UNCHANGED req
  PROVE  /\ \A js : RunArrived(js)' <=> RunArrived(js)
         /\ RequestValid' <=> RequestValid
         /\ Astray' <=> Astray
<1>1. /\ \A p : Given(p)' = Given(p)
      /\ \A p : Expected(p)' = Expected(p)
      /\ Astray' <=> Astray
      /\ BadAnswer' <=> BadAnswer
  BY RequestFrame, ContentFrame
<1>2. \A n : ItemsOf(n)' = ItemsOf(n)
  BY DEF ItemsOf, Positioned, Given
<1>3. RequestValid' <=> RequestValid
  BY <1>1, <1>2 DEF RequestValid
<1>4. \A js : RunArrived(js)' <=> RunArrived(js)
  BY <1>1, <1>2 DEF RunArrived
<1>q. QED BY <1>1, <1>3, <1>4

(* What is validated has arrived.                                          *)
LEMMA ValidArrived ==
  ASSUME ShapeInv, ArrivalInv, ~Astray, pc = "validate", ~DownloadsFailed
  PROVE  AllArrived(ins) /\ ~BadAnswer
<1>1. RequestInv /\ InsOK
  BY DEF ShapeInv, Parsing, Waiting
<1>2. ~AstrayInJson
  BY <1>1, Unastray
<1>3. (net.failed => BadAnswer \/ HeadersMissing) /\ (net.failed \/ AllArrived(ins))
  BY DEF ArrivalInv
<1>4. ~net.failed
  BY <1>2, <1>3 DEF DownloadsFailed, AstrayInJson
<1>5. ~BadAnswer
  BY <1>1, <1>3, <1>4, ItemFacts DEF AllArrived, Arrived, BadAnswer
<1>q. QED BY <1>3, <1>4, <1>5

LEMMA ArrivedFilled ==
  ASSUME RequestInv, TypeInv, InsOK, Blocks, Done = Count, AllArrived(ins), NEW k \in DOMAIN ins
  PROVE  /\ Filled(k) = ins[k]
         /\ \A i \in 0 .. Occurrences(k) - 1 : ins[k].occ[i].value = Expected(Start(k) + i)
<1>1. Count \in Nat /\ Occurrences(k) \in Nat \ {0}
  BY ItemFacts, OccurrencesType
<1>2. ASSUME NEW i \in 0 .. Occurrences(k) - 1 PROVE ins[k].occ[i].value = Expected(Start(k) + i)
  <2>1. Start(k) + i \in 1 .. Count /\ Cell(ins, Start(k) + i) = ins[k].occ[i]
    BY <1>1, Cells, SameShapeOfIns
  <2>q. QED BY <2>1 DEF AllArrived, Arrived
<1>3. ins[k].occ[0].value # None
  <2>1. 0 \in 0 .. Occurrences(k) - 1
    BY <1>1
  <2>2. ins[k].occ[0].value = Expected(Start(k) + 0)
    BY <1>2, <2>1
  <2>3. \A p : Expected(p) # None
    BY DEF Expected, None
  <2>q. QED BY <2>2, <2>3
<1>4. Filled(k) = ins[k]
  BY <1>3 DEF Filled
<1>q. QED BY <1>2, <1>4

LEMMA AbsentNames ==
  ASSUME RequestInv, NEW names, names = SetToSeq(Absent)
  PROVE  /\ Len(names) \in Nat /\ DOMAIN names = 1 .. Len(names)
         /\ \A i \in DOMAIN names : ~Present(names[i])
<1>1. req.zcfg \in Descriptions
  BY DEF RequestInv
<1>2. IsFiniteSet(DOMAIN req.zcfg)
  BY <1>1, InputsAssumption
<1>3. Absent \in SUBSET DOMAIN req.zcfg
  BY DEF Absent
<1>4. IsFiniteSet(Absent)
  BY <1>2, <1>3, FS_Subset
<1>5. names \in Seq(Absent)
  BY <1>4, SetToSeqOf
<1>6. \A i \in DOMAIN names : names[i] \in Absent
  BY <1>5
<1>q. QED BY <1>5, <1>6 DEF Absent

LEMMA DefaultValue ==
  ASSUME NEW n
  PROVE  DefaultInput(n).name = n /\ DefaultInput(n).occ[0].value = <<"default", 0>>
<1>1. 0 \in 0 .. MaxArguments - 1
  BY InputsAssumption
<1>2. PICK o : o = [NoOccurrence EXCEPT !.value = <<"default", 0>>]
  OBVIOUS
<1>3. o.value = <<"default", 0>>
  BY <1>2 DEF NoOccurrence
<1>4. DefaultInput(n) = NewInput(n, o)
  BY <1>2 DEF DefaultInput
<1>5. NewInput(n, o).name = n /\ NewInput(n, o).occ[0] = o
  BY <1>1 DEF NewInput
<1>q. QED BY <1>3, <1>4, <1>5

(* The inputs the service is called with: those of the request, and the    *)
(* defaults of the others.                                                 *)
LEMMA ValidatedInputs ==
  ASSUME ShapeInv, ArrivalInv, ~Astray, Validate, NEW js, js = ins'
  PROVE  RunArrived(js)
<1>1. /\ RequestInv /\ TypeInv /\ InsOK /\ Done = Count /\ pc = "validate" /\ ~DownloadsFailed
  BY DEF ShapeInv, Parsing, Waiting, Validate, Invalid, Done
<1>2. Blocks /\ AllArrived(ins)
  BY <1>1, Unastray, ValidArrived
<1>3. PICK names : names = SetToSeq(Absent)
  OBVIOUS
<1>4. /\ Len(names) \in Nat /\ DOMAIN names = 1 .. Len(names)
      /\ \A i \in DOMAIN names : ~Present(names[i])
  BY <1>1, <1>3, AbsentNames
<1>5. PICK more : more = [i \in DOMAIN names |-> DefaultInput(names[i])]
  OBVIOUS
<1>6. ins \in Seq(InputType) /\ Len(ins) \in Nat /\ DOMAIN ins = 1 .. Len(ins)
  BY <1>1 DEF TypeInv
<1>7. [k \in DOMAIN ins |-> Filled(k)] = ins
  <2>1. \A k \in DOMAIN ins : Filled(k) = ins[k]
    BY <1>1, <1>2, ArrivedFilled
  <2>2. ins = [k \in DOMAIN ins |-> ins[k]]
    BY <1>6
  <2>q. QED BY <2>1, <2>2
<1>8. js = ins \o more
  BY <1>3, <1>5, <1>7 DEF Validate
<1>9. PICK T : T = InputType \union {DefaultInput(names[i]) : i \in DOMAIN names}
  OBVIOUS
<1>10. ins \in Seq(T)
  <2>1. \A k \in 1 .. Len(ins) : ins[k] \in T
    BY <1>6, <1>9
  <2>2. ins \in [1 .. Len(ins) -> T]
    BY <1>6, <2>1
  <2>q. QED BY <1>6, <2>2
<1>11. more \in Seq(T) /\ Len(more) = Len(names) /\ \A i \in 1 .. Len(names) : more[i] = DefaultInput(names[i])
  <2>1. more \in [1 .. Len(names) -> T] /\ \A i \in 1 .. Len(names) : more[i] = DefaultInput(names[i])
    BY <1>4, <1>5, <1>9
  <2>2. more \in Seq(T) /\ Len(more) = Len(names)
    BY <1>4, <2>1, FunctionIsSequence
  <2>q. QED BY <2>1, <2>2
<1>12. /\ DOMAIN js = 1 .. Len(ins) + Len(names)
       /\ \A k \in 1 .. Len(ins) + Len(names) :
            js[k] = IF k <= Len(ins) THEN ins[k] ELSE more[k - Len(ins)]
  <2>1. /\ js \in Seq(T) /\ Len(js) = Len(ins) + Len(more)
        /\ \A i \in 1 .. Len(ins) + Len(more) :
             js[i] = IF i <= Len(ins) THEN ins[i] ELSE more[i - Len(ins)]
    <3>1. /\ ins \o more \in Seq(T) /\ Len(ins \o more) = Len(ins) + Len(more)
          /\ \A i \in 1 .. Len(ins) + Len(more) :
               (ins \o more)[i] = IF i <= Len(ins) THEN ins[i] ELSE more[i - Len(ins)]
      BY <1>10, <1>11, ConcatProperties
    <3>q. QED BY <1>8, <3>1
  <2>2. DOMAIN js = 1 .. Len(ins) + Len(more)
    <3>1. DOMAIN js = 1 .. Len(js)
      BY <2>1, LenProperties
    <3>q. QED BY <2>1, <3>1
  <2>q. QED BY <1>11, <2>1, <2>2
<1>13. ASSUME NEW k \in DOMAIN ins
       PROVE  LET items == ItemsOf(ins[k].name) IN
              /\ items # <<>>
              /\ (IF ins[k].length = 0 THEN 1 ELSE ins[k].length) = Len(items)
              /\ \A i \in DOMAIN items : ins[k].occ[i - 1].value = Expected(items[i])
  <2>1. PICK n : n = ins[k].name
    OBVIOUS
  <2>2. /\ ItemsOf(n) # <<>> /\ Len(ItemsOf(n)) = Occurrences(k)
        /\ \A i \in DOMAIN ItemsOf(n) : /\ i - 1 \in 0 .. Occurrences(k) - 1
                                        /\ ItemsOf(n)[i] = Start(k) + (i - 1)
    BY <1>1, <1>2, <2>1, BlockItems
  <2>3. \A i \in 0 .. Occurrences(k) - 1 : ins[k].occ[i].value = Expected(Start(k) + i)
    BY <1>1, <1>2, ArrivedFilled
  <2>4. \A i \in DOMAIN ItemsOf(n) : ins[k].occ[i - 1].value = Expected(ItemsOf(n)[i])
    BY <2>2, <2>3
  <2>5. Len(ItemsOf(n)) = IF ins[k].length = 0 THEN 1 ELSE ins[k].length
    BY <2>2 DEF Occurrences
  <2>q. QED BY <2>1, <2>2, <2>4, <2>5
<1>14. ASSUME NEW i \in 1 .. Len(names)
       PROVE  more[i].occ[0].value = <<"default", 0>> /\ ItemsOf(more[i].name) = <<>>
  <2>1. more[i].name = names[i] /\ more[i].occ[0].value = <<"default", 0>>
    BY <1>11, DefaultValue
  <2>2. ~Present(names[i])
    BY <1>4
  <2>q. QED BY <1>1, <2>1, <2>2, AbsentItems
<1>15. ASSUME NEW k \in DOMAIN js
       PROVE  LET items == ItemsOf(js[k].name) IN
              IF items = <<>> THEN js[k].occ[0].value = <<"default", 0>>
              ELSE /\ (IF js[k].length = 0 THEN 1 ELSE js[k].length) = Len(items)
                   /\ \A i \in DOMAIN items : js[k].occ[i - 1].value = Expected(items[i])
  <2>1. CASE k <= Len(ins)
    <3>1. k \in DOMAIN ins /\ js[k] = ins[k]
      BY <1>6, <1>12, <2>1
    <3>q. QED BY <1>13, <3>1
  <2>2. CASE ~(k <= Len(ins))
    <3>1. k - Len(ins) \in 1 .. Len(names) /\ js[k] = more[k - Len(ins)]
      BY <1>4, <1>6, <1>12, <2>2
    <3>q. QED BY <1>14, <3>1
  <2>q. QED BY <2>1, <2>2
<1>q. QED BY <1>15 DEF RunArrived

LEMMA ValidatedRequest ==
  ASSUME ShapeInv, ArrivalInv, Validate
  PROVE  RequestValid
<1>1. /\ RequestInv /\ TypeInv /\ InsOK /\ Done = Count /\ pc = "validate"
      /\ ~DownloadsFailed /\ Missing = {}
  BY DEF ShapeInv, Parsing, Waiting, Validate, Invalid, Done
<1>2. ASSUME NEW n \in DOMAIN req.zcfg, req.zcfg[n].min >= 1 PROVE ItemsOf(n) # <<>>
  <2>1. Present(n)
    BY <1>1, <1>2 DEF Missing
  <2>q. QED BY <1>1, <2>1, AbsentItems
<1>3. ASSUME NEW n \in DOMAIN req.zcfg, req.form # "json" PROVE Len(ItemsOf(n)) <= req.zcfg[n].max
  <2>1. CASE Present(n)
    <3>1. PICK k \in DOMAIN ins : ins[k].name = n
      BY <2>1 DEF Present
    <3>2. Known(ins[k].name)
      BY <3>1 DEF Known
    <3>3. /\ Occurrences(k) = Cardinality(ItemsUpTo(n, Count))
          /\ Occurrences(k) <= req.zcfg[n].max
      BY <1>1, <1>3, <3>1, <3>2 DEF InsOK, CountsOK
    <3>4. Len(ItemsOf(n)) = Cardinality(ItemsUpTo(n, Count))
      BY <1>1, ItemsLength
    <3>q. QED BY <3>3, <3>4
  <2>2. CASE ~Present(n)
    <3>1. Len(ItemsOf(n)) = 0
      BY <1>1, <2>2, AbsentItems
    <3>2. req.zcfg[n].max \in Nat
      <4>1. req.zcfg \in Descriptions
        BY <1>1 DEF RequestInv
      <4>2. req.zcfg[n] \in [min : Nat, max : Nat \ {0}]
        BY <4>1, InputsAssumption
      <4>q. QED BY <4>2
    <3>q. QED BY <3>1, <3>2
  <2>q. QED BY <2>1, <2>2
<1>4. ~Astray => ~BadAnswer
  BY <1>1, ValidArrived
<1>q. QED BY <1>2, <1>3, <1>4 DEF RequestValid

LEMMA ValidatedOutputs ==
  ASSUME AnswersInv, Validate
  PROVE  AskedValid'
<1>1. pc = "validate" /\ ~UnknownAsked /\ UNCHANGED asked
  BY DEF Validate, Invalid
<1>2. asked \in Seq(Requestable) /\ ParsedOK(req.form, asked, outs)
  BY <1>1 DEF AnswersInv, AskedInv, WaitingInv, Waiting, Chosen
<1>3. ASSUME NEW r \in Range(asked) PROVE r.name \in Outputs
  <2>1. PICK i \in DOMAIN asked : r = asked[i]
    BY DEF Range
  <2>2. asked # <<>> /\ r.name \in NamesIn(asked)
    <3>1. asked # <<>>
      BY <2>1
    <3>q. QED BY <2>1, <3>1 DEF NamesIn
  <2>3. PICK k \in DOMAIN outs : outs[k].name = r.name
    BY <1>2, <2>2 DEF ParsedOK
  <2>q. QED BY <1>1, <2>3 DEF UnknownAsked
<1>q. QED BY <1>1, <1>3 DEF AskedValid

LEMMA RunFactsStep == ShapeInv /\ ArrivalInv /\ AnswersInv /\ RunFacts /\ [Next]_vars => RunFacts'
<1>1. SUFFICES ASSUME ShapeInv, ArrivalInv, AnswersInv, RunFacts, [Next]_vars, pc' = "run"
               PROVE  RunFacts'
  BY DEF RunFacts
<1>2. CASE UNCHANGED vars
  <2>1. UNCHANGED <<req, pc, ins, asked>>
    BY <1>2 DEF vars, inputVars, outputVars
  <2>2. PICK js : js = ins
    OBVIOUS
  <2>3. (~Astray => RunArrived(js)) /\ RequestValid /\ AskedValid
    BY <1>1, <2>1, <2>2 DEF RunFacts
  <2>4. (~Astray' => RunArrived(js)') /\ RequestValid'
    BY <2>1, <2>3, RunFrame
  <2>5. AskedValid'
    BY <2>1, <2>3 DEF AskedValid
  <2>q. QED BY <2>1, <2>2, <2>4, <2>5 DEF RunFacts
<1>3. CASE Validate
  <2>1. UNCHANGED req
    BY <1>3 DEF Validate
  <2>2. PICK js : js = ins'
    OBVIOUS
  <2>3. (~Astray => RunArrived(js)) /\ RequestValid
    BY <1>1, <1>3, <2>2, ValidatedInputs, ValidatedRequest
  <2>4. (~Astray' => RunArrived(js)') /\ RequestValid'
    BY <2>1, <2>3, RunFrame
  <2>5. AskedValid'
    BY <1>1, <1>3, ValidatedOutputs
  <2>q. QED BY <2>2, <2>4, <2>5 DEF RunFacts
<1>4. CASE Next /\ ~Validate
  <2>1. ASSUME InputStep PROVE pc' # "run"
    BY <2>1 DEF InputStep, ParseInput, ParseJsonInput, LoadHttpRequest, HttpRequestsLoaded, Publish,
       RequestAgain, RequestedAgain, RunHttpRequests, ReadOccurrence, SkipOccurrence, InputsRead,
       Walking, Goto
  <2>2. ASSUME ParseOutputs PROVE pc' # "run"
    BY <2>2 DEF ParseOutputs, Refuse, Goto
  <2>3. ASSUME RefuseOccurrences \/ RefuseInvalid \/ RunService \/ Respond PROVE pc' # "run"
    BY <2>3 DEF RefuseOccurrences, RefuseInvalid, RunService, Respond, Refuse, Goto
  <2>q. QED BY <1>1, <1>4, <2>1, <2>2, <2>3 DEF Next
<1>q. QED BY <1>1, <1>2, <1>3, <1>4

-----------------------------------------------------------------------------
InputsInv == ShapeInv /\ ArrivalInv /\ AnswersInv /\ RunFacts

LEMMA InputsInvariant == Spec => []InputsInv
<1>1. Init => InputsInv
  <2>1. Init => pc = "parse"
    BY DEF Init, InitInputs
  <2>q. QED BY <2>1, ShapeInit, ArrivalInit, AnswersInit DEF InputsInv, RunFacts
<1>2. InputsInv /\ [Next]_vars => InputsInv'
  BY ShapeStep, ArrivalStep, AnswersStep, RunFactsStep DEF InputsInv
<1>q. QED BY <1>1, <1>2, PTL DEF Spec

LEMMA InputsInvArrive == InputsInv => EveryInputArrives
<1>1. SUFFICES ASSUME InputsInv PROVE EveryInputArrives
  OBVIOUS
<1>2. net.failed /\ ~Astray => BadAnswer \/ HeadersMissing
  BY <1>1 DEF InputsInv, ArrivalInv
<1>3. pc = "run" /\ ~Astray => RunArrived(ins)
  BY <1>1 DEF InputsInv, RunFacts
<1>q. QED BY <1>2, <1>3 DEF EveryInputArrives, RunArrived, Occurrences

(* Whatever the request, when the service is called each of its inputs has *)
(* the values and the answers of its own items, and its default if there   *)
(* are none.                                                               *)
THEOREM InputsArrive == Spec => []EveryInputArrives
<1>1. Spec => []InputsInv
  BY InputsInvariant
<1>q. QED BY <1>1, InputsInvArrive, PTL

(* And the service is called for valid requests only.                      *)
THEOREM ValidRuns == Spec => []OnlyValidRequestsRun
<1>1. InputsInv => OnlyValidRequestsRun
  BY DEF InputsInv, RunFacts, RequestValid, AskedValid, OnlyValidRequestsRun
<1>q. QED BY <1>1, InputsInvariant, PTL
=============================================================================
