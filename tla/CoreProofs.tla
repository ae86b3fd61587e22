----------------------------- MODULE CoreProofs -----------------------------
(***************************************************************************)
(* What the core files of user repositories say, for any cores, requests   *)
(* and numbers of commands and kills: the round trip of a core through its *)
(* file, that any number of parses and rewrites loses no more than one,    *)
(* and what stops a parse before its end.                                  *)
(***************************************************************************)
EXTENDS LibraryProofs

-----------------------------------------------------------------------------
(***************************************************************************)
(* The ports that a description makes.                                     *)
(***************************************************************************)
\* What a set is in the order that SetToSeq gives it.
LEMMA SetListed ==
    ASSUME NEW S, IsFiniteSet(S)
    PROVE  LET s == SetToSeq(S)
           IN  s \in Seq(S) /\ ToSet(s) = S /\ \A i, j \in DOMAIN s : s[i] = s[j] => i = j
<1> DEFINE n == Cardinality(S)
           s == SetToSeq(S)
<1>1. n \in Nat /\ ExistsBijection(1..n, S)
  BY FS_CardinalityType
<1>2. IsFiniteSet(1..n) /\ Cardinality(1..n) = n
  BY <1>1, FS_Interval
<1>3. s = CHOOSE f \in [1..n -> S] : IsInjective(f)
  BY DEF SetToSeq
<1> HIDE DEF n, s
<1>4. \E f \in [1..n -> S] : IsInjective(f)
  BY <1>1 DEF ExistsBijection, Bijection, Injection
<1>5. s \in [1..n -> S] /\ IsInjective(s)
  BY <1>3, <1>4
<1>6. s \in Injection(1..n, S)
  BY <1>5 DEF Injection
<1>7. s \in Surjection(1..n, S)
  BY <1>2, <1>6, FS_Injection DEF n
<1>8. s \in Seq(S)
  BY <1>1, <1>5, SeqDef
<1>9. ToSet(s) = S
  BY <1>5, <1>7 DEF Surjection, ToSet
<1>10. \A i, j \in DOMAIN s : s[i] = s[j] => i = j
  BY <1>5 DEF IsInjective
<1> QED BY <1>8, <1>9, <1>10 DEF s

\* The elements of two sequences.
LEMMA BothParts ==
    ASSUME NEW A, NEW a \in Seq(A), NEW b \in Seq(A)
    PROVE  /\ a \o b \in Seq(A) /\ ToSet(a \o b) = ToSet(a) \cup ToSet(b)
           /\ \A i \in DOMAIN (a \o b) :
                 \/ i \in DOMAIN a /\ (a \o b)[i] = a[i]
                 \/ i - Len(a) \in DOMAIN b /\ (a \o b)[i] = b[i - Len(a)]
<1> DEFINE s == a \o b
<1>1. /\ s \in Seq(A) /\ Len(s) = Len(a) + Len(b) /\ Len(a) \in Nat /\ Len(b) \in Nat
      /\ DOMAIN s = 1..Len(s) /\ DOMAIN a = 1..Len(a) /\ DOMAIN b = 1..Len(b)
      /\ \A i \in 1..Len(a) : s[i] = a[i]
      /\ \A i \in 1..Len(b) : s[Len(a) + i] = b[i]
  OBVIOUS
<1> HIDE DEF s
<1>2. \A i \in DOMAIN s : \/ i \in DOMAIN a /\ s[i] = a[i]
                          \/ i - Len(a) \in DOMAIN b /\ s[i] = b[i - Len(a)]
  <2> SUFFICES ASSUME NEW i \in DOMAIN s, i \notin DOMAIN a
               PROVE  i - Len(a) \in DOMAIN b /\ s[i] = b[i - Len(a)]
    BY <1>1
  <2>1. i - Len(a) \in 1..Len(b) /\ Len(a) + (i - Len(a)) = i
    BY <1>1
  <2> QED BY <1>1, <2>1
<1>3. \A i \in DOMAIN b : Len(a) + i \in DOMAIN s /\ s[Len(a) + i] = b[i]
  BY <1>1
<1>4. \A i \in DOMAIN a : i \in DOMAIN s /\ s[i] = a[i]
  BY <1>1
<1>5. ToSet(s) = ToSet(a) \cup ToSet(b)
  BY <1>2, <1>3, <1>4 DEF ToSet
<1> QED BY <1>1, <1>2, <1>5 DEF s

\* Ports of different names, of a set of ports where no two have one name.
OneEachName(Z) == \A x, y \in Z : x.name = y.name => x = y
PortsIn(Z, ports) == ports \in Seq(Z) /\ Distinct(ports)

LEMMA AddAllIs ==
    ASSUME NEW Z, OneEachName(Z), NEW ports, PortsIn(Z, ports), NEW desc, NEW dir,
           NEW sigs, IsFiniteSet(sigs),
           \A s \in sigs : NamesPort(s) => PortMade(desc, s, dir) \in Z
    PROVE  LET new == AddAll(ports, desc, sigs, dir)
           IN  /\ PortsIn(Z, new)
               /\ ToSet(new) = ToSet(ports) \cup
                     {PortMade(desc, s, dir) : s \in {t \in sigs : NamesPort(t)}}
<1> DEFINE good == {t \in sigs : NamesPort(t) /\ Named(ports, t.name) = {}}
           names == {s.name : s \in good}
           first(n) == CHOOSE s \in sigs : NamesPort(s) /\ s.name = n
           M == {PortMade(desc, first(n), dir) : n \in names}
           more == SetToSeq(M)
           new == ports \o more
<1>1. AddAll(ports, desc, sigs, dir) = new
  BY DEF AddAll
<1>2. \A s : PortMade(desc, s, dir).name = s.name
  BY DEF PortMade
<1>3. \A s \in sigs : NamesPort(s) => first(s.name) \in sigs /\ NamesPort(first(s.name))
                                      /\ first(s.name).name = s.name
  OBVIOUS
<1> HIDE DEF first
<1>4. \A s \in sigs : NamesPort(s) => PortMade(desc, first(s.name), dir) = PortMade(desc, s, dir)
  <2> SUFFICES ASSUME NEW s \in sigs, NamesPort(s)
               PROVE  PortMade(desc, first(s.name), dir) = PortMade(desc, s, dir)
    OBVIOUS
  <2> DEFINE x == PortMade(desc, first(s.name), dir)
             y == PortMade(desc, s, dir)
  <2>1. x \in Z /\ y \in Z
    BY <1>3
  <2>2. x.name = y.name
    BY <1>2, <1>3
  <2> HIDE DEF x, y
  <2>3. x = y
    BY <2>1, <2>2 DEF OneEachName
  <2> QED BY <2>3 DEF x, y
<1>5. M = {PortMade(desc, s, dir) : s \in good}
  BY <1>4
<1>6. IsFiniteSet(M) /\ M \subseteq Z
  <2>1. IsFiniteSet(good)
    BY FS_Subset
  <2> DEFINE f == [s \in good |-> PortMade(desc, s, dir)]
  <2>2. f \in Surjection(good, M)
    BY <1>5 DEF Surjection
  <2>3. IsFiniteSet(M)
    <3> HIDE DEF f, good, M
    <3> QED BY <2>1, <2>2, FS_Surjection
  <2>4. M \subseteq Z
    BY <1>5
  <2> QED BY <2>3, <2>4
<1>7. \A x \in M : Named(ports, x.name) = {}
  BY <1>2, <1>5
<1>8. \A s \in sigs : NamesPort(s) => s \in good \/ PortMade(desc, s, dir) \in ToSet(ports)
  <2> SUFFICES ASSUME NEW s \in sigs, NamesPort(s), Named(ports, s.name) # {}
               PROVE  PortMade(desc, s, dir) \in ToSet(ports)
    OBVIOUS
  <2> DEFINE y == PortMade(desc, s, dir)
  <2>1. PICK x \in ToSet(ports) : x.name = s.name
    BY DEF Named
  <2>2. x \in Z /\ y \in Z /\ x.name = y.name
    BY <1>2, <2>1, Members DEF PortsIn
  <2> HIDE DEF y
  <2>3. x = y
    BY <2>2 DEF OneEachName
  <2> QED BY <2>3 DEF y
<1>9. {PortMade(desc, s, dir) : s \in {t \in sigs : NamesPort(t)}} \subseteq ToSet(ports) \cup M
  BY <1>5, <1>8
<1>10. M \subseteq {PortMade(desc, s, dir) : s \in {t \in sigs : NamesPort(t)}}
  BY <1>5
<1> HIDE DEF M, more, good, names
<1>11. more \in Seq(M) /\ ToSet(more) = M /\ \A i, j \in DOMAIN more : more[i] = more[j] => i = j
  BY <1>6, SetListed DEF more
<1>12. ports \in Seq(Z) /\ more \in Seq(Z)
  BY <1>6, <1>11, Wider DEF PortsIn
<1>13. /\ new \in Seq(Z) /\ ToSet(new) = ToSet(ports) \cup M
       /\ \A i \in DOMAIN new : \/ i \in DOMAIN ports /\ new[i] = ports[i]
                                \/ i - Len(ports) \in DOMAIN more /\ new[i] = more[i - Len(ports)]
  BY <1>11, <1>12, BothParts
<1>14. Distinct(new)
  <2> HIDE DEF new
  <2> SUFFICES ASSUME NEW i \in DOMAIN new, NEW j \in DOMAIN new, new[i].name = new[j].name
               PROVE  i = j
    BY DEF Distinct
  <2> DEFINE n == Len(ports)
  <2>1. \A k \in DOMAIN more : more[k] \in M /\ \A l \in DOMAIN ports : ports[l].name # more[k].name
    BY <1>7, <1>11 DEF ToSet, Named
  <2>2. \A k, l \in DOMAIN more : more[k].name = more[l].name => k = l
    <3> SUFFICES ASSUME NEW k \in DOMAIN more, NEW l \in DOMAIN more, more[k].name = more[l].name
                 PROVE  k = l
      OBVIOUS
    <3>1. more[k] \in Z /\ more[l] \in Z
      BY <1>6, <2>1
    <3>2. more[k] = more[l]
      BY <3>1 DEF OneEachName
    <3> QED BY <1>11, <3>2
  <2>3. Distinct(ports) /\ n \in Nat
    BY <1>12 DEF PortsIn
  <2>4. i \in Int /\ j \in Int
    BY <1>13
  <2> HIDE DEF n
  <2>5. CASE i \in DOMAIN ports /\ new[i] = ports[i] /\ j \in DOMAIN ports /\ new[j] = ports[j]
    BY <2>3, <2>5 DEF Distinct
  <2>6. CASE i - n \in DOMAIN more /\ new[i] = more[i - n] /\ j - n \in DOMAIN more /\ new[j] = more[j - n]
    <3>1. i - n = j - n
      BY <2>2, <2>6
    <3> QED BY <2>3, <2>4, <3>1
  <2> QED BY <1>13, <2>1, <2>5, <2>6 DEF n
<1> QED BY <1>1, <1>9, <1>10, <1>13, <1>14 DEF PortsIn

\* The ports that the signals of a dictionary by directions make.
MadeBy(desc, signals) ==
    UNION {{PortMade(desc, s, d) : s \in {t \in signals[d] : NamesPort(t)}} : d \in Dirs}
Makes(Z, desc, signals) ==
    \A d \in Dirs : /\ IsFiniteSet(signals[d])
                    /\ \A s \in signals[d] : NamesPort(s) => PortMade(desc, s, d) \in Z

LEMMA AddPortsIs ==
    ASSUME NEW Z, OneEachName(Z), NEW ports, PortsIn(Z, ports), NEW desc, NEW signals,
           Makes(Z, desc, signals)
    PROVE  LET new == AddPorts(ports, desc, signals)
           IN  PortsIn(Z, new) /\ ToSet(new) = ToSet(ports) \cup MadeBy(desc, signals)
<1> DEFINE a == AddAll(ports, desc, signals["in"], "in")
           b == AddAll(a, desc, signals["out"], "out")
           c == AddAll(b, desc, signals["inout"], "inout")
           made(d) == {PortMade(desc, s, d) : s \in {t \in signals[d] : NamesPort(t)}}
<1>1. \A d \in Dirs : /\ IsFiniteSet(signals[d])
                      /\ \A s \in signals[d] : NamesPort(s) => PortMade(desc, s, d) \in Z
  BY DEF Makes
<1>2. "in" \in Dirs /\ "out" \in Dirs /\ "inout" \in Dirs /\ \A d \in Dirs : d = "in" \/ d = "out" \/ d = "inout"
  BY DEF Dirs
<1>3. PortsIn(Z, a) /\ ToSet(a) = ToSet(ports) \cup made("in")
  BY <1>1, <1>2, AddAllIs
<1> HIDE DEF a
<1>4. PortsIn(Z, b) /\ ToSet(b) = ToSet(a) \cup made("out")
  BY <1>1, <1>2, <1>3, AddAllIs
<1> HIDE DEF b
<1>5. PortsIn(Z, c) /\ ToSet(c) = ToSet(b) \cup made("inout")
  BY <1>1, <1>2, <1>4, AddAllIs
<1>6. AddPorts(ports, desc, signals) = c
  BY DEF AddPorts, a, b
<1> HIDE DEF c
<1>7. MadeBy(desc, signals) = made("in") \cup made("out") \cup made("inout")
  <2>1. MadeBy(desc, signals) = UNION {made(d) : d \in Dirs}
    BY DEF MadeBy
  <2> HIDE DEF made
  <2> QED BY <1>2, <2>1
<1> HIDE DEF made
<1> QED BY <1>3, <1>4, <1>5, <1>6, <1>7

(***************************************************************************)
(* What a file says of a port.                                             *)
(***************************************************************************)
LEMMA KeptFieldIs ==
    ASSUME NEW f, IsField(f)
    PROVE  /\ IsField(KeptField(f)) /\ KeptField(KeptField(f)) = KeptField(f)
           /\ ParseField(RepresentField(f)) = KeptField(f)
<1> DEFINE path == f.path
           d == f.dims
           kept == IF d = <<>> \/ d[1][1] = d[1][2] THEN <<>> ELSE <<d[1]>>
<1>1. f = [path |-> path, dims |-> d] /\ d \in Seq(Int \X Int)
  BY DEF IsField
<1>2. KeptField(f) = [path |-> path, dims |-> kept]
  <2> HIDE DEF path, d
  <2> QED BY <1>1 DEF KeptField
<1>3. d # <<>> => d[1] \in Int \X Int /\ d[1] = <<d[1][1], d[1][2]>> /\ Head(d) = d[1]
  <2> HIDE DEF d
  <2> QED BY <1>1
<1>4. kept \in Seq(Int \X Int)
  <2>1. CASE d = <<>> \/ d[1][1] = d[1][2]
    BY <2>1
  <2>2. CASE ~(d = <<>> \/ d[1][1] = d[1][2])
    <3>1. kept = <<d[1]>> /\ d[1] \in Int \X Int
      BY <1>3, <2>2
    <3> HIDE DEF kept, d
    <3> QED BY <3>1
  <2> QED BY <2>1, <2>2
<1>5. kept = <<>> \/ (kept # <<>> /\ kept[1][1] # kept[1][2] /\ kept = <<kept[1]>>)
  <2> HIDE DEF d
  <2> QED BY <1>3
<1>6. ParseField(RepresentField(f)) = [path |-> path, dims |-> kept]
  <2> HIDE DEF path, d
  <2>1. RepresentField(f) = [path |-> path, dims |-> IF d = <<>> THEN <<<<0, 0>>>> ELSE <<d[1]>>]
    BY <1>1, <1>3 DEF RepresentField
  <2> QED BY <1>3, <2>1 DEF ParseField
<1> HIDE DEF kept, path, d
<1>7. KeptField(KeptField(f)) = [path |-> path, dims |-> kept]
  BY <1>2, <1>5 DEF KeptField
<1> QED BY <1>2, <1>4, <1>6, <1>7 DEF IsField

LEMMA StructIs ==
    ASSUME NEW type, IsType(type), IsStruct(type)
    PROVE  /\ type = Type("struct", type.name, <<>>, type.fields)
           /\ \A i \in DOMAIN type.fields : IsField(type.fields[i])
<1>1. Bit.kind = "bit"
  BY DEF Bit, Type
<1>2. type.kind = "struct"
  BY DEF IsStruct
<1> QED BY <1>1, <1>2 DEF IsType

LEMMA Retyped ==
    ASSUME NEW x, NEW k, NEW n, NEW d, NEW f, x = [kind |-> k, name |-> n, dims |-> d, fields |-> f],
           NEW name, NEW fields, NEW y, y = [x EXCEPT !.name = name, !.fields = fields]
    PROVE  y = [kind |-> k, name |-> name, dims |-> d, fields |-> fields]
OBVIOUS

LEMMA KeptTypeIs ==
    ASSUME NEW type, IsType(type)
    PROVE  /\ IsType(KeptType(type)) /\ KeptType(KeptType(type)) = KeptType(type)
           /\ IsStruct(KeptType(type)) <=> IsStruct(type)
           /\ IsStruct(type) => TypeName(KeptType(type)) = TypeName(type) /\ TypeName(type) # Unsaid
           /\ type.kind = "structs" => KeptType(type) = Bit
           /\ type.kind # "structs" /\ ~IsStruct(type) => KeptType(type) = type
           /\ IsStruct(type) => KeptType(type) = Type("struct", TypeName(type), <<>>,
                                   [i \in DOMAIN type.fields |-> KeptField(type.fields[i])])
<1>1. Bit.kind = "bit" /\ ~IsStruct(Bit) /\ IsType(Bit) /\ KeptType(Bit) = Bit
  BY DEF Bit, Type, IsStruct, IsType, KeptType
<1>2. CASE type.kind = "structs"
  <2>1. KeptType(type) = Bit /\ ~IsStruct(type)
    BY <1>2 DEF KeptType, IsStruct
  <2> QED BY <1>1, <1>2, <2>1
<1>3. CASE IsStruct(type)
  <2> DEFINE fields == [i \in DOMAIN type.fields |-> KeptField(type.fields[i])]
             name == TypeName(type)
             kept == Type("struct", name, <<>>, fields)
  <2>1. type = Type("struct", type.name, <<>>, type.fields) /\ \A i \in DOMAIN type.fields : IsField(type.fields[i])
    BY <1>3, StructIs
  <2>2. KeptType(type) = kept
    <3>1. type.kind = "struct"
      BY <1>3 DEF IsStruct
    <3>2. KeptType(type) = [type EXCEPT !.name = name, !.fields = fields]
      BY <1>3, <3>1 DEF KeptType
    <3> DEFINE n == type.name
               g == type.fields
               new == Type("struct", name, <<>>, fields)
    <3>3. type = [kind |-> "struct", name |-> n, dims |-> <<>>, fields |-> g]
      BY <2>1 DEF Type
    <3> HIDE DEF name, fields, n, g
    <3>4. KeptType(type) = [kind |-> "struct", name |-> name, dims |-> <<>>, fields |-> fields]
      BY <3>2, <3>3, Retyped
    <3> QED BY <3>4 DEF Type
  <2>3. name # Unsaid /\ TypeName(kept) = name
    BY DEF TypeName, Type, Unsaid
  <2>4. DOMAIN fields = DOMAIN type.fields
        /\ \A i \in DOMAIN fields : IsField(fields[i]) /\ KeptField(fields[i]) = fields[i]
    BY <2>1, KeptFieldIs
  <2>5. fields = [i \in DOMAIN fields |-> fields[i]]
    OBVIOUS
  <2> HIDE DEF fields, name
  <2>6. kept.kind = "struct" /\ kept.name = name /\ kept.dims = <<>> /\ kept.fields = fields
    BY DEF Type
  <2>7. IsStruct(kept) /\ IsType(kept)
    BY <2>4, <2>6 DEF IsStruct, IsType
  <2>8. KeptType(kept) = kept
    <3>1. [i \in DOMAIN fields |-> KeptField(fields[i])] = fields
      BY <2>4, <2>5
    <3>2. KeptType(kept) = [kept EXCEPT !.name = name, !.fields = [i \in DOMAIN fields |-> KeptField(fields[i])]]
      <4>1. KeptType(kept) = [kept EXCEPT !.name = TypeName(kept),
                                          !.fields = [i \in DOMAIN kept.fields |-> KeptField(kept.fields[i])]]
        BY <2>6, <2>7 DEF KeptType
      <4> HIDE DEF kept
      <4> QED BY <2>3, <2>6, <4>1
    <3> QED BY <3>1, <3>2 DEF Type
  <2>9. type.kind # "structs"
    BY <1>3 DEF IsStruct
  <2> HIDE DEF kept
  <2> QED BY <1>3, <2>2, <2>3, <2>7, <2>8, <2>9 DEF kept, name, fields
<1>4. CASE type.kind # "structs" /\ ~IsStruct(type)
  <2>1. KeptType(type) = type
    BY <1>4 DEF KeptType
  <2> QED BY <1>4, <2>1
<1> QED BY <1>2, <1>3, <1>4

\* The fields of a struct in a file, of whatever port with that type.
LEMMA TypesAre ==
    ASSUME NEW m, IsCore(m), NEW p \in ToSet(m.ports), IsStruct(p.type)
    PROVE  LET name == TypeName(p.type)
               types == RepresentTypes(m)
           IN  /\ name \in DOMAIN types
               /\ [k \in DOMAIN types[name] |-> ParseField(types[name][k])]
                     = [k \in DOMAIN p.type.fields |-> KeptField(p.type.fields[k])]
<1> DEFINE name == TypeName(p.type)
           structs == {i \in DOMAIN m.ports : IsStruct(m.ports[i].type)}
           alike == {i \in structs : TypeName(m.ports[i].type) = name}
           last == Max(alike)
           fields == m.ports[last].type.fields
<1>1. PICK j \in DOMAIN m.ports : m.ports[j] = p
  BY DEF ToSet
<1>2. j \in alike /\ name \in {TypeName(m.ports[i].type) : i \in structs}
  BY <1>1
<1>3. DOMAIN m.ports = 1..Len(m.ports) /\ Len(m.ports) \in Nat
  BY Listing DEF IsCore, Shaped
<1>4. last \in alike
  <2>1. alike \in SUBSET (1..Len(m.ports)) /\ alike # {}
    BY <1>2, <1>3
  <2>2. Max(alike) = Filtering!Greatest(alike)
    BY DEF Max, Filtering!Greatest
  <2> HIDE DEF alike
  <2>3. Filtering!Greatest(alike) \in alike
    BY <1>3, <2>1, Induction, Filtering!Extremes
  <2> QED BY <2>2, <2>3
<1>5. /\ DOMAIN RepresentTypes(m) = {TypeName(m.ports[i].type) : i \in structs}
      /\ RepresentTypes(m)[name] = [k \in DOMAIN fields |-> RepresentField(fields[k])]
  BY <1>2 DEF RepresentTypes
<1>6. m.ports[last] \in ToSet(m.ports) /\ IsStruct(m.ports[last].type) /\ TypeName(m.ports[last].type) = name
  <2>1. last \in DOMAIN m.ports /\ IsStruct(m.ports[last].type) /\ TypeName(m.ports[last].type) = name
    <3> HIDE DEF last, name
    <3> QED BY <1>4
  <2> HIDE DEF last
  <2> QED BY <2>1 DEF ToSet
<1> HIDE DEF last, alike, structs
<1>7. fields = p.type.fields
  BY <1>6 DEF IsCore
<1>8. \A k \in DOMAIN p.type.fields : IsField(p.type.fields[k])
  BY StructIs DEF IsCore, IsPort
<1> DEFINE g == p.type.fields
           t == RepresentTypes(m)[name]
<1> HIDE DEF g
<1>9. t = [k \in DOMAIN g |-> RepresentField(g[k])]
  BY <1>5, <1>7 DEF g
<1> HIDE DEF t
<1>10. [k \in DOMAIN t |-> ParseField(t[k])] = [k \in DOMAIN g |-> KeptField(g[k])]
  BY <1>8, <1>9, KeptFieldIs DEF g
<1>11. name \in DOMAIN RepresentTypes(m)
  BY <1>2, <1>5 DEF structs
<1> QED BY <1>10, <1>11 DEF g, t

(***************************************************************************)
(* The ports of a core.                                                    *)
(***************************************************************************)
\* What is among the items of a sequence.
LEMMA AmongSet ==
    ASSUME NEW M, NEW s \in Seq(M), NEW good
    PROVE  ToSet(Among(s, good)) = ToSet(s) \cap good
<1> DEFINE E == ToSet(s)
           S == Seq(E \cap good)
           out == Among(s, good)
<1>1. s \in Seq(E) /\ DOMAIN s = 1..Len(s)
  BY Listing
<1>2. out \in S
  <2> HIDE DEF E
  <2> QED BY <1>1, AmongType
<1>3. ToSet(out) \subseteq E \cap good
  <2> HIDE DEF E, out
  <2> QED BY <1>2, Members
<1>4. ASSUME NEW e \in E \cap good PROVE e \in ToSet(out)
  <2> DEFINE H == {x \in S : e \in ToSet(x)}
  <2>1. PICK v \in DOMAIN s : s[v] = e
    BY DEF ToSet
  <2>2. ASSUME NEW x \in S, NEW d \in E
        PROVE  /\ AmongStep(good, x, d) \in S
               /\ e \in ToSet(x) \/ d = e => AmongStep(good, x, d) \in H
    <3>1. CASE d \in good
      <4> DEFINE y == Append(x, d)
      <4>1. AmongStep(good, x, d) = y
        BY <3>1 DEF AmongStep
      <4>2. /\ y \in S /\ DOMAIN y = 1..(Len(x) + 1) /\ y[Len(x) + 1] = d /\ Len(x) \in Nat
            /\ DOMAIN x = 1..Len(x) /\ \A i \in 1..Len(x) : y[i] = x[i]
        <5> HIDE DEF E
        <5> QED BY <3>1
      <4> HIDE DEF S, y
      <4>3. d \in ToSet(y) /\ \A i \in DOMAIN x : x[i] \in ToSet(y)
        <5>1. Len(x) + 1 \in DOMAIN y /\ \A i \in DOMAIN x : i \in DOMAIN y
          BY <4>2
        <5> QED BY <4>2, <5>1 DEF ToSet
      <4>4. e \in ToSet(x) \/ d = e => e \in ToSet(y)
        BY <4>3 DEF ToSet
      <4> QED BY <4>1, <4>2, <4>4
    <3>2. CASE d \notin good
      <4>1. AmongStep(good, x, d) = x /\ d # e
        BY <3>2 DEF AmongStep
      <4> HIDE DEF S
      <4> QED BY <4>1
    <3> QED BY <3>1, <3>2
  <2>3. <<>> \in S
    OBVIOUS
  <2>4. /\ \A x \in S, d \in E : AmongStep(good, x, d) \in S
        /\ \A x \in S : AmongStep(good, x, s[v]) \in H
        /\ \A x \in S \cap H, d \in E : AmongStep(good, x, d) \in H
    <3> HIDE DEF S
    <3> QED BY <2>1, <2>2
  <2> HIDE DEF S, H, E
  <2>5. Filtering!Fold(good, <<>>, s) \in H
    BY <1>1, <2>3, <2>4, Induction, Filtering!FoldCovers
  <2> QED BY <2>5, AmongIs DEF H
<1> QED BY <1>3, <1>4

LEMMA FindIn ==
    ASSUME NEW ports, Distinct(ports)
    PROVE  /\ \A n : Named(ports, n) # {} => Find(ports, n) \in ToSet(ports) /\ Find(ports, n).name = n
           /\ \A p \in ToSet(ports) : Named(ports, p.name) # {} /\ Find(ports, p.name) = p
           /\ \A p, q \in ToSet(ports) : p.name = q.name => p = q
<1>1. \A p, q \in ToSet(ports) : p.name = q.name => p = q
  BY DEF ToSet, Distinct
<1>2. \A p \in ToSet(ports) : Named(ports, p.name) = {p}
  BY <1>1 DEF Named
<1>3. \A n : Named(ports, n) # {} => Find(ports, n) \in Named(ports, n)
  BY DEF Find
<1>4. \A n, p : p \in Named(ports, n) => p \in ToSet(ports) /\ p.name = n
  BY DEF Named
<1>5. \A p \in ToSet(ports) : Find(ports, p.name) = p
  BY <1>2, <1>3
<1> QED BY <1>1, <1>2, <1>3, <1>4, <1>5

\* A core is a module with ports of different names, which interfaces have as signals.
LEMMA CoreIs ==
    ASSUME NEW m, IsCore(m)
    PROVE  /\ m = Module(m.name, m.ports, m.intfs, m.params, m.clocks, m.resets)
           /\ m.ports \in Seq(ToSet(m.ports)) /\ m.intfs \in Seq(ToSet(m.intfs))
           /\ Distinct(m.ports)
           /\ NeededPorts(m) = {p \in ToSet(m.ports) : IsStruct(p.type) \/ p.name \notin UsedPorts(m)}
           /\ \A i \in ToSet(m.intfs) : \A s \in DOMAIN i.signals : i.signals[s].port \in UsedPorts(m)
<1>1. /\ m = Module(m.name, m.ports, m.intfs, m.params, m.clocks, m.resets)
      /\ m.ports \in Seq(ToSet(m.ports)) /\ m.intfs \in Seq(ToSet(m.intfs))
      /\ Distinct(m.ports)
  BY DEF IsCore, Shaped, Distinct
<1> DEFINE good == {p \in ToSet(m.ports) : p.name \notin UsedPorts(m)}
<1>2. NonIntfPorts(m) = Among(m.ports, good)
  BY DEF NonIntfPorts
<1> HIDE DEF good
<1>3. ToSet(NonIntfPorts(m)) = ToSet(m.ports) \cap good
  BY <1>1, <1>2, AmongSet
<1>4. NeededPorts(m) = {p \in ToSet(m.ports) : IsStruct(p.type) \/ p.name \notin UsedPorts(m)}
  BY <1>3 DEF NeededPorts, good
<1>5. \A i \in ToSet(m.intfs) : \A s \in DOMAIN i.signals : i.signals[s].port \in UsedPorts(m)
  BY DEF UsedPorts
<1> QED BY <1>1, <1>4, <1>5

\* What a file keeps of a port.
LEMMA Reported ==
    ASSUME NEW x, NEW n, NEW r, NEW t, NEW d, x = [name |-> n, dir |-> r, type |-> t, default |-> d],
           NEW type, NEW default, NEW y, y = [x EXCEPT !.type = type, !.default = default]
    PROVE  y = [name |-> n, dir |-> r, type |-> type, default |-> default]
OBVIOUS

KeptPorts(m) == {KeptPort(m, p) : p \in ToSet(m.ports)}
KeptDefault(m, p) ==
    IF IsStruct(p.type) \/ p.name \in UsedPorts(m) THEN Unsaid ELSE p.default

LEMMA KeptPortIs ==
    ASSUME NEW m, IsCore(m), NEW p \in ToSet(m.ports)
    PROVE  /\ KeptPort(m, p) = [name |-> p.name, dir |-> p.dir, type |-> KeptType(p.type),
                                default |-> KeptDefault(m, p)]
           /\ IsPort(p) /\ IsPort(KeptPort(m, p))
<1>1. IsPort(p)
  BY DEF IsCore
<1> DEFINE n == p.name
           r == p.dir
           t == p.type
           d == p.default
           type == KeptType(t)
           default == KeptDefault(m, p)
           new == [name |-> n, dir |-> r, type |-> type, default |-> default]
<1>2. p = [name |-> n, dir |-> r, type |-> t, default |-> d]
  BY <1>1 DEF IsPort
<1>3. KeptPort(m, p) = [p EXCEPT !.type = type, !.default = default]
  BY DEF KeptPort, KeptDefault
<1>4. n # <<>> /\ r \in Dirs /\ IsType(t) /\ (d = Unsaid \/ r = "in")
  BY <1>1 DEF IsPort
<1>5. default = Unsaid \/ r = "in"
  <2> HIDE DEF n, r, t
  <2> QED BY <1>4 DEF KeptDefault
<1>6. IsType(type)
  <2> HIDE DEF t
  <2> QED BY <1>4, KeptTypeIs
<1> HIDE DEF n, r, t, d, type, default
<1>7. KeptPort(m, p) = new
  BY <1>2, <1>3, Reported
<1>8. IsPort(new)
  BY <1>4, <1>5, <1>6 DEF IsPort
<1> HIDE DEF new
<1> QED BY <1>1, <1>7, <1>8 DEF new, n, r, t, d, type, default

LEMMA KeptNames == ASSUME NEW m, IsCore(m) PROVE OneEachName(KeptPorts(m))
<1> SUFFICES ASSUME NEW x \in KeptPorts(m), NEW y \in KeptPorts(m), x.name = y.name PROVE x = y
  BY DEF OneEachName
<1>1. PICK p \in ToSet(m.ports) : x = KeptPort(m, p)
  BY DEF KeptPorts
<1>2. PICK q \in ToSet(m.ports) : y = KeptPort(m, q)
  BY DEF KeptPorts
<1>3. x.name = p.name /\ y.name = q.name
  <2>1. KeptPort(m, p).name = p.name /\ KeptPort(m, q).name = q.name
    BY KeptPortIs
  <2> QED BY <1>1, <1>2, <2>1
<1>4. Distinct(m.ports)
  BY CoreIs
<1>5. p = q
  BY <1>3, <1>4, FindIn
<1> QED BY <1>1, <1>2, <1>5

(***************************************************************************)
(* Signals in a file, and the ports they make when it is read.             *)
(***************************************************************************)
LEMMA SignalIs ==
    ASSUME NEW m, IsCore(m), NEW p \in ToSet(m.ports), NEW slice, NEW default
    PROVE  LET sig == RepresentSignal(p, slice, default)
           IN  /\ NamesPort(sig) /\ sig # Null /\ sig.path = NoPort
               /\ sig.name = p.name /\ p.name # <<>>
               /\ sig.type = Unsaid \/ sig.type \in DOMAIN RepresentTypes(m)
               /\ sig.bound = <<>> \/ sig.type = Unsaid
               /\ sig.default = IF IsStruct(p.type) THEN Unsaid ELSE default
               /\ sig.slice = IF IsStruct(p.type) THEN <<>> ELSE slice
<1> DEFINE sig == RepresentSignal(p, slice, default)
           bound == IF p.type.kind = "bits" THEN p.type.dims[1] ELSE <<>>
<1>1. p.name # <<>>
  BY DEF IsCore, IsPort
<1>2. \A n, b, s, d, t : /\ Signal(n, b, s, d, t).name = n /\ Signal(n, b, s, d, t).bound = b
                         /\ Signal(n, b, s, d, t).slice = s /\ Signal(n, b, s, d, t).default = d
                         /\ Signal(n, b, s, d, t).type = t /\ Signal(n, b, s, d, t).path = NoPort
  BY DEF Signal
<1>3. Null.name = <<>>
  BY <1>2 DEF Null
<1>4. CASE IsStruct(p.type)
  <2>1. sig = Signal(p.name, <<>>, <<>>, Unsaid, TypeName(p.type))
    BY <1>4 DEF RepresentSignal
  <2>2. TypeName(p.type) \in DOMAIN RepresentTypes(m)
    BY <1>4, TypesAre
  <2> HIDE DEF sig
  <2>3. /\ sig.name = p.name /\ sig.bound = <<>> /\ sig.slice = <<>> /\ sig.default = Unsaid
        /\ sig.type = TypeName(p.type) /\ sig.path = NoPort
    BY <1>2, <2>1
  <2> QED BY <1>1, <1>3, <1>4, <2>2, <2>3 DEF sig, NamesPort
<1>5. CASE ~IsStruct(p.type)
  <2>1. sig = Signal(p.name, bound, slice, default, Unsaid)
    BY <1>5 DEF RepresentSignal
  <2> HIDE DEF sig, bound
  <2>2. /\ sig.name = p.name /\ sig.bound = bound /\ sig.slice = slice /\ sig.default = default
        /\ sig.type = Unsaid /\ sig.path = NoPort
    BY <1>2, <2>1
  <2> QED BY <1>1, <1>3, <1>5, <2>2 DEF sig, NamesPort
<1> QED BY <1>4, <1>5

\* The port that a signal makes is the port it was written for, but for its default.
LEMMA MadeIs ==
    ASSUME NEW m, IsCore(m), NEW e, NEW p \in ToSet(m.ports), NEW slice, Writable(p, slice), NEW default
    PROVE  PortMade(Represent(m, e), RepresentSignal(p, slice, default), p.dir)
              = [name |-> p.name, dir |-> p.dir, type |-> KeptType(p.type),
                 default |-> IF IsStruct(p.type) THEN Unsaid ELSE default]
<1> DEFINE sig == RepresentSignal(p, slice, default)
           desc == Represent(m, e)
           t == p.type
<1>1. IsType(t)
  BY DEF IsCore, IsPort
<1>2. desc.types = RepresentTypes(m)
  BY DEF Represent
<1>3. SignalType(desc, sig) = KeptType(t)
  <2>1. CASE IsStruct(t)
    <3> DEFINE name == TypeName(t)
               types == RepresentTypes(m)
    <3>1. sig = Signal(p.name, <<>>, <<>>, Unsaid, name)
      BY <2>1 DEF RepresentSignal
    <3>2. sig.type = name /\ sig.bound = <<>>
      <4> HIDE DEF name, sig
      <4> QED BY <3>1 DEF Signal
    <3>3. name # Unsaid
      BY <1>1, <2>1, KeptTypeIs
    <3> HIDE DEF sig, desc, name
    <3>4. SignalType(desc, sig) = ParseType(desc, name)
      BY <3>2, <3>3 DEF SignalType
    <3>5. ParseType(desc, name)
             = Type("struct", name, <<>>, [i \in DOMAIN types[name] |-> ParseField(types[name][i])])
      BY <1>2 DEF ParseType
    <3>6. [i \in DOMAIN types[name] |-> ParseField(types[name][i])]
             = [i \in DOMAIN t.fields |-> KeptField(t.fields[i])]
      BY <2>1, TypesAre DEF name
    <3>7. KeptType(t) = Type("struct", name, <<>>, [i \in DOMAIN t.fields |-> KeptField(t.fields[i])])
      BY <1>1, <2>1, KeptTypeIs DEF name
    <3> QED BY <3>4, <3>5, <3>6, <3>7
  <2>2. CASE ~IsStruct(t)
    <3> DEFINE bound == IF t.kind = "bits" THEN t.dims[1] ELSE <<>>
    <3>1. sig = Signal(p.name, bound, slice, default, Unsaid)
      BY <2>2 DEF RepresentSignal
    <3>2. sig.type = Unsaid /\ sig.bound = bound
      <4> HIDE DEF bound, sig
      <4> QED BY <3>1 DEF Signal
    <3>3. CASE t.kind = "bits"
      <4>1. Len(t.dims) = 1
        BY <3>3 DEF Writable
      <4>2. t = Vector(t.dims) /\ t.dims \in Seq(Int \X Int) /\ t.kind # "structs"
        <5>1. Bit.kind = "bit"
          BY DEF Bit, Type
        <5> QED BY <1>1, <2>2, <3>3, <5>1 DEF IsType
      <4> DEFINE dims == t.dims
      <4>3. t = Vector(dims) /\ dims \in Seq(Int \X Int) /\ Len(dims) = 1
        BY <4>1, <4>2
      <4>4. bound = dims[1]
        BY <3>3
      <4> HIDE DEF dims, bound
      <4>5. dims = <<bound>> /\ bound \in Int \X Int
        BY <4>3, <4>4
      <4>6. bound # <<>>
        <5>1. \A a, b : <<a, b>> # <<>>
          <6> SUFFICES ASSUME NEW a, NEW b, <<a, b>> = <<>> PROVE FALSE
            OBVIOUS
          <6>1. Len(<<a, b>>) = 2 /\ Len(<<>>) = 0
            OBVIOUS
          <6> QED BY <6>1
        <5>2. bound = <<bound[1], bound[2]>>
          BY <4>5
        <5> QED BY <5>1, <5>2, Zenon
      <4> HIDE DEF sig, desc
      <4>7. SignalType(desc, sig) = Vector(<<bound>>)
        BY <3>2, <4>6 DEF SignalType
      <4>8. KeptType(t) = t
        BY <1>1, <2>2, <4>2, KeptTypeIs
      <4> QED BY <4>3, <4>5, <4>7, <4>8
    <3>4. CASE t.kind # "bits"
      <4>1. sig.type = Unsaid /\ sig.bound = <<>>
        BY <3>2, <3>4
      <4> HIDE DEF sig, desc
      <4>2. SignalType(desc, sig) = Bit
        BY <4>1 DEF SignalType
      <4>3. t = Bit \/ t.kind = "structs"
        BY <1>1, <2>2, <3>4 DEF IsType
      <4>4. KeptType(t) = Bit
        <5>1. Bit.kind = "bit"
          BY DEF Bit, Type
        <5> QED BY <1>1, <2>2, <4>3, <5>1, KeptTypeIs
      <4> QED BY <4>2, <4>4
    <3> QED BY <3>3, <3>4
  <2> QED BY <2>1, <2>2
<1>4. sig.name = p.name /\ sig.default = IF IsStruct(t) THEN Unsaid ELSE default
  BY SignalIs
<1> HIDE DEF sig, desc, t
<1>5. PortMade(desc, sig, p.dir) = [name |-> p.name, dir |-> p.dir, type |-> KeptType(t),
                                    default |-> IF IsStruct(t) THEN Unsaid ELSE default]
  BY <1>3, <1>4 DEF PortMade
<1> QED BY <1>5 DEF sig, desc, t

LEMMA SignalMade ==
    ASSUME NEW m, IsCore(m), NEW e, NEW p \in ToSet(m.ports), NEW slice, Writable(p, slice),
           NEW default, IsStruct(p.type) \/ default = KeptDefault(m, p)
    PROVE  PortMade(Represent(m, e), RepresentSignal(p, slice, default), p.dir) = KeptPort(m, p)
<1>1. KeptDefault(m, p) = IF IsStruct(p.type) THEN Unsaid ELSE default
  BY DEF KeptDefault
<1>2. KeptPort(m, p) = [name |-> p.name, dir |-> p.dir, type |-> KeptType(p.type),
                        default |-> KeptDefault(m, p)]
  BY KeptPortIs
<1> QED BY <1>1, <1>2, MadeIs

LEMMA FiniteItems == ASSUME NEW M, NEW s \in Seq(M) PROVE IsFiniteSet(ToSet(s))
<1>1. DOMAIN s = 1..Len(s) /\ Len(s) \in Nat
  BY Listing
<1>2. IsFiniteSet(DOMAIN s)
  BY <1>1, FS_Interval
<1> DEFINE f == [i \in DOMAIN s |-> s[i]]
<1>3. f \in Surjection(DOMAIN s, ToSet(s))
  BY DEF Surjection, ToSet
<1> HIDE DEF f
<1> QED BY <1>2, <1>3, FS_Surjection

\* The ports that a file has apart from its interfaces.
LEMMA PortsOfIs ==
    ASSUME NEW m, IsCore(m), Representable(m), NEW e
    PROVE  LET ports == PortsOf(Represent(m, e))
           IN  PortsIn(KeptPorts(m), ports) /\ ToSet(ports) = {KeptPort(m, p) : p \in NeededPorts(m)}
<1> DEFINE desc == Represent(m, e)
           Z == KeptPorts(m)
           signal(p) == RepresentSignal(p, <<>>, p.default)
           sigs(d) == {signal(p) : p \in {q \in NeededPorts(m) : q.dir = d}}
<1>1. desc.signals = [d \in Dirs |-> sigs(d)]
  BY DEF Represent, RepresentPorts
<1>2. /\ NeededPorts(m) = {p \in ToSet(m.ports) : IsStruct(p.type) \/ p.name \notin UsedPorts(m)}
      /\ IsFiniteSet(NeededPorts(m))
  <2>1. IsFiniteSet(ToSet(m.ports))
    BY CoreIs, FiniteItems
  <2> QED BY <2>1, CoreIs, FS_Subset
<1>3. ASSUME NEW p \in NeededPorts(m)
      PROVE  /\ PortMade(desc, signal(p), p.dir) = KeptPort(m, p) /\ NamesPort(signal(p))
             /\ KeptPort(m, p) \in Z /\ p.dir \in Dirs
  <2>1. p \in ToSet(m.ports) /\ (IsStruct(p.type) \/ p.default = KeptDefault(m, p))
    BY <1>2 DEF KeptDefault
  <2>2. Writable(p, <<>>)
    BY DEF Representable
  <2>3. PortMade(desc, signal(p), p.dir) = KeptPort(m, p)
    BY <2>1, <2>2, SignalMade
  <2>4. NamesPort(signal(p))
    BY <2>1, SignalIs
  <2>5. p.dir \in Dirs
    BY <2>1 DEF IsCore, IsPort
  <2> QED BY <2>1, <2>3, <2>4, <2>5 DEF KeptPorts
<1> HIDE DEF desc, Z
<1>4. Makes(Z, desc, desc.signals)
  <2> SUFFICES ASSUME NEW d \in Dirs
               PROVE  /\ IsFiniteSet(sigs(d))
                      /\ \A s \in sigs(d) : NamesPort(s) => PortMade(desc, s, d) \in Z
    BY <1>1 DEF Makes
  <2> DEFINE P == {q \in NeededPorts(m) : q.dir = d}
             f == [p \in P |-> signal(p)]
  <2>1. IsFiniteSet(P)
    BY <1>2, FS_Subset
  <2>2. f \in Surjection(P, sigs(d))
    <3> HIDE DEF signal
    <3> QED BY DEF Surjection
  <2>3. IsFiniteSet(sigs(d))
    <3> HIDE DEF f, P, sigs
    <3> QED BY <2>1, <2>2, FS_Surjection
  <2>4. \A s \in sigs(d) : PortMade(desc, s, d) \in Z
    <3> HIDE DEF signal
    <3> QED BY <1>3
  <2> QED BY <2>3, <2>4
<1>5. MadeBy(desc, desc.signals) = {KeptPort(m, p) : p \in NeededPorts(m)}
  <2> DEFINE A == MadeBy(desc, desc.signals)
             made(d) == {PortMade(desc, s, d) : s \in {t \in sigs(d) : NamesPort(t)}}
  <2>1. A = UNION {made(d) : d \in Dirs}
    BY <1>1 DEF MadeBy
  <2> HIDE DEF signal, A
  <2>2. \A d \in Dirs : made(d) = {KeptPort(m, p) : p \in {q \in NeededPorts(m) : q.dir = d}}
    BY <1>3
  <2> HIDE DEF made
  <2>3. \A p \in NeededPorts(m) : p.dir \in Dirs
    BY <1>3
  <2> QED BY <2>1, <2>2, <2>3 DEF A
<1>6. PortsIn(Z, <<>>) /\ ToSet(<<>>) = {}
  BY DEF PortsIn, Distinct, ToSet
<1>7. OneEachName(Z)
  BY KeptNames DEF Z
<1> DEFINE ports == AddPorts(<<>>, desc, desc.signals)
<1>8. PortsIn(Z, ports) /\ ToSet(ports) = MadeBy(desc, desc.signals)
  <2> DEFINE none == <<>>
  <2> HIDE DEF none
  <2>1. PortsIn(Z, none) /\ ToSet(none) = {}
    BY <1>6 DEF none
  <2>2. LET new == AddPorts(none, desc, desc.signals)
        IN  PortsIn(Z, new) /\ ToSet(new) = ToSet(none) \cup MadeBy(desc, desc.signals)
    BY <1>4, <1>7, <2>1, AddPortsIs
  <2> QED BY <2>1, <2>2 DEF none
<1>9. PortsOf(desc) = ports
  BY DEF PortsOf
<1> HIDE DEF ports
<1> QED BY <1>5, <1>8, <1>9 DEF Z, desc

(***************************************************************************)
(* Interfaces in a file, and what they are when it is read.                *)
(***************************************************************************)
\* The direction of a signal of an interface, and the port it is a part of.
DirOf(i, s) == SignalDir(SignalOf(i.def, s), i.mode)

LEMMA DirIs ==
    ASSUME NEW m, IsCore(m), NEW i \in ToSet(m.intfs), NEW s \in DOMAIN i.signals
    PROVE  DirOf(i, s) \in Dirs
<1>1. /\ i.def \in DOMAIN Definitions
      /\ DOMAIN i.signals \subseteq {x.name : x \in ToSet(Definitions[i.def])}
  BY DEF IsCore, IsInterface
<1>2. \E x \in ToSet(Definitions[i.def]) : x.name = s
  BY <1>1
<1>3. SignalOf(i.def, s) \in ToSet(Definitions[i.def])
  BY <1>2 DEF SignalOf
<1>4. SignalOf(i.def, s).dir \in Dirs
  BY <1>1, <1>3, Interfaces
<1>5. \A d \in Dirs : Flip(d) \in Dirs
  BY DEF Flip, Dirs
<1> QED BY <1>4, <1>5 DEF DirOf, SignalDir

LEMMA IntfIs ==
    ASSUME NEW m, IsCore(m), NEW i \in ToSet(m.intfs)
    PROVE  LET intf == RepresentIntf(m, i)
           IN  /\ intf.name = i.name /\ intf.type = i.def /\ intf.mode = i.mode
               /\ intf.clock = Unsaid /\ intf.reset = Unsaid /\ intf.size = 0
               /\ \A d \in Dirs : intf.signals[d] = [s \in {t \in DOMAIN i.signals : DirOf(i, t) = d} |->
                                                        RepresentIntfSignal(m, i.signals[s])]
               /\ Signals(intf) = DOMAIN i.signals
<1> DEFINE intf == RepresentIntf(m, i)
           part(d) == [s \in {t \in DOMAIN i.signals : DirOf(i, t) = d} |->
                          RepresentIntfSignal(m, i.signals[s])]
<1>1. intf = [name |-> i.name, type |-> i.def, mode |-> i.mode, signals |-> [d \in Dirs |-> part(d)],
              clock |-> Unsaid, reset |-> Unsaid, size |-> 0]
  BY DEF RepresentIntf, DirOf
<1> HIDE DEF intf
<1>2. \A d \in Dirs : intf.signals[d] = part(d)
  BY <1>1
<1>3. \A d \in Dirs : DOMAIN part(d) = {t \in DOMAIN i.signals : DirOf(i, t) = d}
  OBVIOUS
<1> HIDE DEF part
<1>4. Signals(intf) = DOMAIN i.signals
  BY <1>2, <1>3, DirIs DEF Signals
<1> QED BY <1>1, <1>2, <1>4 DEF intf, part

LEMMA PairSaid == \A a, b : <<a, b>> # <<>>
<1> SUFFICES ASSUME NEW a, NEW b, <<a, b>> = <<>> PROVE FALSE
  OBVIOUS
<1>1. Len(<<a, b>>) = 2 /\ Len(<<>>) = 0
  OBVIOUS
<1> QED BY <1>1

\* What a file says of a signal of an interface is the part of a port that it was.
LEMMA PartIs ==
    ASSUME NEW m, IsCore(m), NEW i \in ToSet(m.intfs), NEW s \in DOMAIN i.signals
    PROVE  LET sel == i.signals[s]
               sig == RepresentIntfSignal(m, sel)
               p == Find(m.ports, sel.port)
           IN  /\ PortOf(sig) = sel
               /\ sig.type = Unsaid \/ sig.type \in DOMAIN RepresentTypes(m)
               /\ sig.default = Unsaid
               /\ sig.path = IF NeedsPath(sel) THEN sel ELSE NoPort
               /\ NeedsPath(sel) => sel # NoPort
               /\ sel # NoPort => /\ p \in ToSet(m.ports) /\ p.name = sel.port /\ p.dir = DirOf(i, s)
                                  /\ p.name \in UsedPorts(m)
               /\ sel # NoPort /\ ~NeedsPath(sel)
                     => sig = RepresentSignal(p, SliceOf(sel), Unsaid) /\ NamesPort(sig)
               /\ NamesPort(sig) => sel # NoPort /\ ~NeedsPath(sel)
<1> DEFINE sel == i.signals[s]
           sig == RepresentIntfSignal(m, sel)
           p == Find(m.ports, sel.port)
<1>1. NoPort.ops = <<>> /\ ~NeedsPath(NoPort)
  <2>1. NoPort.ops = <<>>
    BY DEF NoPort, Sel
  <2>2. Len(<<>>) = 0
    OBVIOUS
  <2> QED BY <2>1, <2>2 DEF NeedsPath
<1>2. /\ Null.path = NoPort /\ Null.type = Unsaid /\ Null.default = Unsaid
      /\ \A x : /\ PathSignal(x).path = x /\ PathSignal(x).type = Unsaid
                /\ PathSignal(x).default = Unsaid
  BY DEF Null, PathSignal, Signal
<1>3. sel = NoPort \/ IsPart(m.ports, sel, DirOf(i, s))
  BY DEF IsCore, IsInterface, DirOf
<1>4. sel # NoPort => /\ p \in ToSet(m.ports) /\ p.name = sel.port /\ p.dir = DirOf(i, s)
                      /\ p.name \in UsedPorts(m)
  <2>1. Distinct(m.ports) /\ sel.port \in UsedPorts(m)
    BY CoreIs
  <2> QED BY <1>3, <2>1, FindIn DEF IsPart
<1>5. sig = CASE sel = NoPort -> Null
              [] NeedsPath(sel) -> PathSignal(sel)
              [] OTHER -> RepresentSignal(p, SliceOf(sel), Unsaid)
  BY DEF RepresentIntfSignal
<1> HIDE DEF sel, sig, p
<1>6. CASE sel = NoPort
  <2>1. sig = Null
    BY <1>1, <1>5, <1>6
  <2>2. PortOf(Null) = NoPort
    BY <1>2 DEF PortOf
  <2> QED BY <1>1, <1>2, <1>6, <2>1, <2>2 DEF NamesPort, sel, sig, p
<1>7. CASE sel # NoPort /\ NeedsPath(sel)
  <2>1. sig = PathSignal(sel)
    BY <1>5, <1>7
  <2>2. sig.path = sel /\ sig.type = Unsaid /\ sig.default = Unsaid
    BY <1>2, <2>1
  <2>3. sig # Null
    BY <1>2, <1>7, <2>2
  <2>4. PortOf(sig) = sel /\ ~NamesPort(sig)
    BY <1>7, <2>2, <2>3 DEF PortOf, NamesPort
  <2> QED BY <1>4, <1>7, <2>2, <2>4 DEF sel, sig, p
<1>8. CASE sel # NoPort /\ ~NeedsPath(sel)
  <2>1. sig = RepresentSignal(p, SliceOf(sel), Unsaid)
    BY <1>5, <1>8
  <2>2. p \in ToSet(m.ports) /\ p.name = sel.port
    BY <1>4, <1>8
  <2>3. /\ NamesPort(sig) /\ sig # Null /\ sig.path = NoPort /\ sig.name = p.name
        /\ sig.type = Unsaid \/ sig.type \in DOMAIN RepresentTypes(m)
        /\ sig.default = Unsaid
        /\ sig.slice = IF IsStruct(p.type) THEN <<>> ELSE SliceOf(sel)
    BY <2>1, <2>2, SignalIs
  <2>4. PortOf(sig) = Sel(sel.port, IF sig.slice = <<>> THEN <<>>
                                    ELSE <<Slice(sig.slice[1], sig.slice[2])>>)
    BY <2>2, <2>3 DEF PortOf
  <2>5. sel = Sel(sel.port, sel.ops)
    BY <1>3, <1>8 DEF IsPart
  <2>6. CASE sel.ops = <<>>
    <3>1. sig.slice = <<>>
      BY <2>3, <2>6 DEF SliceOf
    <3> QED BY <1>4, <1>8, <2>1, <2>3, <2>4, <2>5, <2>6, <3>1 DEF sel, sig, p
  <2>7. CASE sel.ops # <<>>
    <3>1. sel.ops = <<Slice(sel.ops[1].upper, sel.ops[1].lower)>> /\ p.type.kind = "bits"
      BY <1>3, <1>8, <2>7 DEF IsPart, p
    <3>2. ~IsStruct(p.type)
      BY <3>1 DEF IsStruct
    <3> DEFINE u == sel.ops[1].upper
               l == sel.ops[1].lower
    <3>3. sig.slice = <<u, l>>
      BY <2>3, <2>7, <3>2 DEF SliceOf
    <3> HIDE DEF u, l
    <3>4. sig.slice # <<>> /\ sig.slice[1] = u /\ sig.slice[2] = l
      BY <3>3, PairSaid
    <3>5. PortOf(sig) = Sel(sel.port, <<Slice(u, l)>>)
      BY <2>4, <3>4
    <3>6. PortOf(sig) = sel
      BY <2>5, <3>1, <3>5 DEF u, l
    <3> QED BY <1>4, <1>8, <2>1, <2>3, <3>6 DEF sel, sig, p
  <2> QED BY <2>6, <2>7
<1> QED BY <1>6, <1>7, <1>8

\* The ports that an interface makes.
LEMMA IntfMakes ==
    ASSUME NEW m, IsCore(m), Representable(m), NEW e, NEW i \in ToSet(m.intfs)
    PROVE  LET desc == Represent(m, e)
               signals == Realising(RepresentIntf(m, i))
           IN  /\ Makes(KeptPorts(m), desc, signals)
               /\ \A s \in DOMAIN i.signals :
                     i.signals[s] # NoPort /\ ~NeedsPath(i.signals[s])
                     => KeptPort(m, Find(m.ports, i.signals[s].port)) \in MadeBy(desc, signals)
<1> DEFINE desc == Represent(m, e)
           intf == RepresentIntf(m, i)
           signals == Realising(intf)
           sig(s) == RepresentIntfSignal(m, i.signals[s])
           port(s) == Find(m.ports, i.signals[s].port)
           At1(d) == {t \in DOMAIN i.signals : DirOf(i, t) = d}
           part(d) == [s \in At1(d) |-> sig(s)]
<1>1. \A d \in Dirs : intf.signals[d] = part(d)
  BY IntfIs
<1>2. \A d \in Dirs : signals[d] = {sig(s) : s \in At1(d)}
  <2>1. \A d \in Dirs : signals[d] = {intf.signals[d][s] : s \in DOMAIN intf.signals[d]}
    BY DEF Realising
  <2>2. \A d \in Dirs : {part(d)[s] : s \in DOMAIN part(d)} = {sig(s) : s \in At1(d)}
    OBVIOUS
  <2> HIDE DEF intf, signals, part, At1, sig
  <2> QED BY <1>1, <2>1, <2>2
<1>3. IsFiniteSet(DOMAIN i.signals)
  <2> DEFINE X == ToSet(Definitions[i.def])
             names == {x.name : x \in X}
             f == [x \in X |-> x.name]
  <2>1. i.def \in DOMAIN Definitions /\ DOMAIN i.signals \subseteq names
    BY DEF IsCore, IsInterface
  <2>2. IsFiniteSet(X)
    BY <2>1, Interfaces, FiniteItems
  <2>3. f \in Surjection(X, names)
    BY DEF Surjection
  <2> HIDE DEF f, X, names
  <2>4. IsFiniteSet(names)
    BY <2>2, <2>3, FS_Surjection
  <2> QED BY <2>1, <2>4, FS_Subset
<1>4. ASSUME NEW s \in DOMAIN i.signals, NamesPort(sig(s)) \/ (i.signals[s] # NoPort /\ ~NeedsPath(i.signals[s]))
      PROVE  /\ NamesPort(sig(s)) /\ PortMade(desc, sig(s), DirOf(i, s)) = KeptPort(m, port(s))
             /\ port(s) \in ToSet(m.ports)
  <2> DEFINE sel == i.signals[s]
             p == port(s)
  <2>1. sel # NoPort /\ ~NeedsPath(sel) /\ NamesPort(sig(s))
    BY <1>4, PartIs
  <2>2. sig(s) = RepresentSignal(p, SliceOf(sel), Unsaid)
    BY <2>1, PartIs
  <2>3. p \in ToSet(m.ports) /\ p.dir = DirOf(i, s) /\ p.name \in UsedPorts(m)
    BY <2>1, PartIs
  <2>4. Writable(p, SliceOf(sel))
    BY <2>1 DEF Representable
  <2> HIDE DEF p, sel, port, sig
  <2>5. PortMade(desc, RepresentSignal(p, SliceOf(sel), Unsaid), p.dir) = KeptPort(m, p)
    <3>1. KeptDefault(m, p) = Unsaid
      BY <2>3 DEF KeptDefault
    <3> QED BY <2>3, <2>4, <3>1, SignalMade
  <2>6. PortMade(desc, sig(s), DirOf(i, s)) = KeptPort(m, p)
    BY <2>2, <2>3, <2>5
  <2> QED BY <2>1, <2>3, <2>6 DEF p
<1> HIDE DEF sig, port, signals, desc
<1>5. Makes(KeptPorts(m), desc, signals)
  <2> SUFFICES ASSUME NEW d \in Dirs
               PROVE  /\ IsFiniteSet(signals[d])
                      /\ \A x \in signals[d] : NamesPort(x) => PortMade(desc, x, d) \in KeptPorts(m)
    BY DEF Makes
  <2> DEFINE S == At1(d)
             f == [s \in S |-> sig(s)]
  <2>1. IsFiniteSet(S)
    BY <1>3, FS_Subset
  <2>2. f \in Surjection(S, signals[d])
    BY <1>2 DEF Surjection
  <2>3. IsFiniteSet(signals[d])
    <3> HIDE DEF f, S
    <3> QED BY <2>1, <2>2, FS_Surjection
  <2>4. \A x \in signals[d] : NamesPort(x) => PortMade(desc, x, d) \in KeptPorts(m)
    BY <1>2, <1>4 DEF KeptPorts
  <2> QED BY <2>3, <2>4
<1>6. ASSUME NEW s \in DOMAIN i.signals, i.signals[s] # NoPort /\ ~NeedsPath(i.signals[s])
      PROVE  KeptPort(m, port(s)) \in MadeBy(desc, signals)
  <2> DEFINE d == DirOf(i, s)
  <2>1. d \in Dirs
    BY DirIs
  <2>2. sig(s) \in signals[d]
    BY <1>2, <2>1
  <2>3. NamesPort(sig(s)) /\ PortMade(desc, sig(s), d) = KeptPort(m, port(s))
    BY <1>4, <1>6
  <2> HIDE DEF d
  <2> QED BY <2>1, <2>2, <2>3 DEF MadeBy
<1> QED BY <1>5, <1>6 DEF port, signals, desc, intf

\* The ports of all signals, one interface after the other.
MakeStep(desc, ports, intf) == AddPorts(ports, desc, Realising(intf))
Making == INSTANCE FoldProofs WITH Op <- MakeStep

LEMMA AllPortsAre ==
    ASSUME NEW desc
    PROVE  AllPorts(desc) = Making!Fold(desc, PortsOf(desc), desc.interfaces)
BY Zenon DEF AllPorts, MakeStep, FoldLeft, MapThenFoldSet, Max,
   Making!Fold, Making!MapThenFoldSet, Making!Greatest

\* Where paths are of structs only, every port is made.
LEMMA AllPortsIs ==
    ASSUME NEW m, IsCore(m), Representable(m), NEW e,
           \A i \in ToSet(m.intfs) : \A s \in DOMAIN i.signals :
              NeedsPath(i.signals[s]) => IsStruct(Find(m.ports, i.signals[s].port).type)
    PROVE  LET ports == AllPorts(Represent(m, e))
           IN  PortsIn(KeptPorts(m), ports) /\ ToSet(ports) = KeptPorts(m)
<1> DEFINE desc == Represent(m, e)
           intfs == desc.interfaces
           Z == KeptPorts(m)
           first == PortsOf(desc)
           S == {x \in Seq(Z) : Distinct(x) /\ ToSet(first) \subseteq ToSet(x)}
           E == ToSet(intfs)
           last == Making!Fold(desc, first, intfs)
<1>1. intfs = [k \in DOMAIN m.intfs |-> RepresentIntf(m, m.intfs[k])]
  BY DEF Represent
<1>2. /\ m.intfs \in Seq(ToSet(m.intfs)) /\ DOMAIN m.intfs = 1..Len(m.intfs) /\ Len(m.intfs) \in Nat
      /\ \A k \in DOMAIN m.intfs : m.intfs[k] \in ToSet(m.intfs)
  <2>1. m.intfs \in Seq(ToSet(m.intfs))
    BY CoreIs
  <2> QED BY <2>1, Listing DEF ToSet
<1>3. intfs \in Seq(E) /\ DOMAIN intfs = DOMAIN m.intfs
  <2> DEFINE R == {RepresentIntf(m, m.intfs[k]) : k \in DOMAIN m.intfs}
  <2>1. intfs \in [1..Len(m.intfs) -> R]
    BY <1>1, <1>2
  <2> HIDE DEF R, intfs
  <2>2. intfs \in Seq(R)
    BY <1>2, <2>1, SeqDef
  <2> QED BY <1>2, <2>1, <2>2, Listing
<1>4. \A x \in E : \E i \in ToSet(m.intfs) : x = RepresentIntf(m, i)
  BY <1>1, <1>2 DEF ToSet
<1>5. PortsIn(Z, first) /\ ToSet(first) = {KeptPort(m, p) : p \in NeededPorts(m)}
  BY PortsOfIs
<1>6. OneEachName(Z)
  BY KeptNames
<1> HIDE DEF desc, intfs, first, Z
<1>7. first \in S
  BY <1>5 DEF PortsIn
<1>8. ASSUME NEW i \in ToSet(m.intfs), NEW x \in S
      PROVE  LET new == MakeStep(desc, x, RepresentIntf(m, i))
             IN  new \in S /\ ToSet(new) = ToSet(x) \cup MadeBy(desc, Realising(RepresentIntf(m, i)))
  <2> DEFINE signals == Realising(RepresentIntf(m, i))
             new == AddPorts(x, desc, signals)
  <2>1. Makes(Z, desc, signals)
    BY IntfMakes DEF desc, Z
  <2>2. PortsIn(Z, x) /\ ToSet(first) \subseteq ToSet(x)
    BY DEF PortsIn
  <2>3. PortsIn(Z, new) /\ ToSet(new) = ToSet(x) \cup MadeBy(desc, signals)
    <3> HIDE DEF signals
    <3> QED BY <1>6, <2>1, <2>2, AddPortsIs
  <2> HIDE DEF signals, new
  <2>4. new \in S
    BY <2>2, <2>3 DEF PortsIn
  <2> HIDE DEF S
  <2> QED BY <2>3, <2>4 DEF MakeStep, new, signals
<1>9. \A x \in S, d \in E : MakeStep(desc, x, d) \in S /\ ToSet(x) \subseteq ToSet(MakeStep(desc, x, d))
  <2> HIDE DEF S, E
  <2> QED BY <1>4, <1>8
<1>10. last \in S
  <2> HIDE DEF S, E
  <2>1. \A x \in S, d \in E : MakeStep(desc, x, d) \in S
    BY <1>9
  <2> QED BY <1>3, <1>7, <2>1, Induction, Making!FoldKeeps
<1>11. ASSUME NEW p \in ToSet(m.ports) PROVE KeptPort(m, p) \in ToSet(last)
  <2> DEFINE q == KeptPort(m, p)
  <2>1. CASE p \in NeededPorts(m)
    <3>1. q \in ToSet(first)
      BY <1>5, <2>1
    <3> HIDE DEF last, first
    <3>2. ToSet(first) \subseteq ToSet(last)
      BY <1>10
    <3> QED BY <3>1, <3>2
  <2>2. CASE p \notin NeededPorts(m)
    <3>1. ~IsStruct(p.type) /\ p.name \in UsedPorts(m)
      BY <2>2, CoreIs
    <3>2. PICK i \in ToSet(m.intfs) : \E s \in DOMAIN i.signals : i.signals[s].port = p.name
      BY <3>1 DEF UsedPorts
    <3>3. PICK s \in DOMAIN i.signals : i.signals[s].port = p.name
      BY <3>2
    <3>4. Find(m.ports, i.signals[s].port) = p
      BY <3>3, CoreIs, FindIn
    <3>5. ~NeedsPath(i.signals[s])
      BY <3>1, <3>4
    <3>6. i.signals[s] # NoPort
      <4>1. p.name # <<>>
        BY DEF IsCore, IsPort
      <4>2. NoPort.port = <<>>
        BY DEF NoPort, Sel
      <4> QED BY <3>3, <4>1, <4>2
    <3>7. q \in MadeBy(desc, Realising(RepresentIntf(m, i)))
      BY <3>4, <3>5, <3>6, IntfMakes DEF desc
    <3>8. PICK v \in DOMAIN m.intfs : m.intfs[v] = i
      BY DEF ToSet
    <3>9. v \in DOMAIN intfs /\ intfs[v] = RepresentIntf(m, i)
      BY <1>1, <1>3, <3>8 DEF intfs
    <3> DEFINE H == {x \in S : q \in ToSet(x)}
    <3>10. \A x \in S : MakeStep(desc, x, intfs[v]) \in H
      <4> HIDE DEF S, q
      <4> QED BY <1>8, <3>7, <3>9
    <3>11. \A x \in S \cap H, d \in E : MakeStep(desc, x, d) \in H
      <4> HIDE DEF S, q, E
      <4> QED BY <1>9
    <3>12. \A x \in S, d \in E : MakeStep(desc, x, d) \in S
      BY <1>9
    <3> HIDE DEF S, H, E, q
    <3>13. last \in H
      BY <1>3, <1>7, <3>9, <3>10, <3>11, <3>12, Induction, Making!FoldCovers
    <3> HIDE DEF last
    <3> QED BY <3>13 DEF H, q
  <2> QED BY <2>1, <2>2
<1> HIDE DEF last
<1>12. PortsIn(Z, last)
  BY <1>10 DEF PortsIn
<1>13. ToSet(last) \subseteq Z
  BY <1>12, Members DEF PortsIn
<1>14. ToSet(last) = Z
  BY <1>11, <1>13 DEF Z, KeptPorts
<1>15. AllPorts(desc) = last
  BY AllPortsAre DEF last, first, intfs
<1> QED BY <1>12, <1>14, <1>15 DEF desc, Z

(***************************************************************************)
(* When a file can be read.                                                *)
(***************************************************************************)
LEMMA IntfsOf ==
    ASSUME NEW m, IsCore(m), NEW e
    PROVE  ToSet(Represent(m, e).interfaces) = {RepresentIntf(m, i) : i \in ToSet(m.intfs)}
<1>1. Represent(m, e).interfaces = [k \in DOMAIN m.intfs |-> RepresentIntf(m, m.intfs[k])]
  BY DEF Represent
<1> DEFINE intfs == [k \in DOMAIN m.intfs |-> RepresentIntf(m, m.intfs[k])]
<1>2. ToSet(intfs) = {intfs[k] : k \in DOMAIN intfs}
  BY DEF ToSet
<1>3. ToSet(m.intfs) = {m.intfs[k] : k \in DOMAIN m.intfs}
  BY DEF ToSet
<1>4. {intfs[k] : k \in DOMAIN intfs} = {RepresentIntf(m, m.intfs[k]) : k \in DOMAIN m.intfs}
  OBVIOUS
<1> QED BY <1>1, <1>2, <1>3, <1>4

LEMMA LoadableIff ==
    ASSUME NEW m, IsCore(m), NEW e, NEW known, NEW compliance
    PROVE  Loadable(Represent(m, e), known, compliance)
              <=> \A i \in ToSet(m.intfs) : i.def \in known /\ (compliance => Complete(i))
<1> DEFINE desc == Represent(m, e)
<1>1. \A d \in Dirs : desc.signals[d] =
         {RepresentSignal(p, <<>>, p.default) : p \in {q \in NeededPorts(m) : q.dir = d}}
  BY DEF Represent, RepresentPorts
<1>2. NeededPorts(m) \subseteq ToSet(m.ports)
  BY CoreIs
<1>3. ToSet(desc.interfaces) = {RepresentIntf(m, i) : i \in ToSet(m.intfs)}
  BY IntfsOf
<1> HIDE DEF desc
<1>4. ASSUME NEW d \in Dirs, NEW s \in desc.signals[d]
      PROVE  (s.name # <<>> \/ s.path # NoPort) /\ (s.bound = <<>> \/ s.type = Unsaid)
  <2>1. PICK p \in NeededPorts(m) : s = RepresentSignal(p, <<>>, p.default)
    BY <1>1
  <2> QED BY <1>2, <2>1, SignalIs
<1>5. ASSUME NEW i \in ToSet(m.intfs)
      PROVE  LET intf == RepresentIntf(m, i)
             IN  intf.type = i.def /\ (Compliant(intf) <=> Complete(i))
  <2> DEFINE intf == RepresentIntf(m, i)
  <2>1. intf.type = i.def /\ Signals(intf) = DOMAIN i.signals
    BY IntfIs
  <2>2. DOMAIN i.signals \subseteq {x.name : x \in ToSet(Definitions[i.def])}
    BY DEF IsCore, IsInterface
  <2> HIDE DEF intf
  <2>3. Compliant(intf) <=> Complete(i)
    BY <2>1, <2>2 DEF Compliant, Complete
  <2> QED BY <2>1, <2>3 DEF intf
<1>6. (\A x \in ToSet(desc.interfaces) : x.type \in known /\ (compliance => Compliant(x)))
         <=> \A i \in ToSet(m.intfs) : i.def \in known /\ (compliance => Complete(i))
  BY <1>3, <1>5
<1>7. Loadable(desc, known, compliance)
         <=> \A x \in ToSet(desc.interfaces) : x.type \in known /\ (compliance => Compliant(x))
  BY <1>4 DEF Loadable
<1> QED BY <1>6, <1>7 DEF desc

\* A clock, a reset or a path finds its port among the ports that no interface makes.
LEMMA FirstPorts ==
    ASSUME NEW m, IsCore(m), Representable(m), NEW e, NEW n, Named(m.ports, n) # {}
    PROVE  LET ports == PortsOf(Represent(m, e))
               p == Find(m.ports, n)
           IN  /\ Named(ports, n) # {} <=> IsStruct(p.type) \/ n \notin UsedPorts(m)
               /\ Named(ports, n) # {} => Find(ports, n) = KeptPort(m, p)
<1> DEFINE ports == PortsOf(Represent(m, e))
           p == Find(m.ports, n)
<1>1. PortsIn(KeptPorts(m), ports) /\ ToSet(ports) = {KeptPort(m, q) : q \in NeededPorts(m)}
  BY PortsOfIs
<1>2. Distinct(m.ports)
  BY CoreIs
<1>3. p \in ToSet(m.ports) /\ p.name = n
  BY <1>2, FindIn
<1>4. p \in NeededPorts(m) <=> IsStruct(p.type) \/ n \notin UsedPorts(m)
  BY <1>3, CoreIs
<1>5. \A q \in NeededPorts(m) : q \in ToSet(m.ports) /\ KeptPort(m, q).name = q.name
  BY CoreIs, KeptPortIs
<1> HIDE DEF ports, p
<1>6. Distinct(ports)
  BY <1>1 DEF PortsIn
<1>7. CASE p \in NeededPorts(m)
  <2> DEFINE x == KeptPort(m, p)
  <2>1. x \in ToSet(ports) /\ x.name = n
    BY <1>1, <1>3, <1>5, <1>7
  <2> HIDE DEF x
  <2>2. Named(ports, n) # {} /\ Find(ports, n) = x
    BY <1>6, <2>1, FindIn
  <2> QED BY <1>4, <1>7, <2>2 DEF x, ports, p
<1>8. CASE p \notin NeededPorts(m)
  <2>1. ASSUME Named(ports, n) # {} PROVE FALSE
    <3>1. PICK x \in ToSet(ports) : x.name = n
      BY <2>1 DEF Named
    <3>2. PICK q \in NeededPorts(m) : x = KeptPort(m, q)
      BY <1>1
    <3>3. q \in ToSet(m.ports) /\ q.name = n
      BY <1>5, <3>1, <3>2
    <3>4. q = p
      BY <1>2, <1>3, <3>3, FindIn
    <3> QED BY <1>8, <3>4
  <2> QED BY <1>4, <1>8, <2>1 DEF ports, p
<1> QED BY <1>7, <1>8

LEMMA StaysIff ==
    ASSUME NEW m, IsCore(m), Representable(m), NEW e, NEW i \in ToSet(m.intfs),
           NEW s \in DOMAIN i.signals, NeedsPath(i.signals[s])
    PROVE  Referenced(i.signals[s], PortsOf(Represent(m, e)), DirOf(i, s))
              <=> PartStays(m, i.signals[s])
<1> DEFINE sel == i.signals[s]
           ports == PortsOf(Represent(m, e))
           p == Find(m.ports, sel.port)
           end(t) == FoldLeft(Select, t, sel.ops)
<1>1. p \in ToSet(m.ports) /\ p.name = sel.port /\ p.dir = DirOf(i, s) /\ sel.port \in UsedPorts(m)
  BY PartIs
<1>2. Named(m.ports, sel.port) # {}
  BY <1>1 DEF Named
<1>3. /\ Named(ports, sel.port) # {} <=> IsStruct(p.type)
      /\ Named(ports, sel.port) # {} => Find(ports, sel.port) = KeptPort(m, p)
  BY <1>1, <1>2, FirstPorts
<1>4. KeptPort(m, p).dir = p.dir /\ KeptPort(m, p).type = KeptType(p.type)
  BY <1>1, KeptPortIs
<1>5. PartStays(m, sel) <=> IsStruct(p.type) /\ end(KeptType(p.type)) # BadType
  BY Zenon DEF PartStays
<1>6. Referenced(sel, ports, DirOf(i, s)) <=>
         /\ Named(ports, sel.port) # {}
         /\ Find(ports, sel.port).dir = DirOf(i, s)
         /\ end(Find(ports, sel.port).type) # BadType
  BY Zenon DEF Referenced
<1> HIDE DEF end, p, ports, sel
<1>7. Referenced(sel, ports, DirOf(i, s)) <=> PartStays(m, sel)
  BY <1>1, <1>3, <1>4, <1>5, <1>6
<1> QED BY <1>7 DEF sel, ports

LEMMA GoodIntfIff ==
    ASSUME NEW m, IsCore(m), Representable(m), NEW e, NEW i \in ToSet(m.intfs)
    PROVE  GoodIntf(Represent(m, e), RepresentIntf(m, i))
              <=> \A s \in DOMAIN i.signals : NeedsPath(i.signals[s]) => PartStays(m, i.signals[s])
<1> DEFINE desc == Represent(m, e)
           intf == RepresentIntf(m, i)
           sig(s) == RepresentIntfSignal(m, i.signals[s])
           part(d) == [s \in {t \in DOMAIN i.signals : DirOf(i, t) = d} |-> sig(s)]
           follows(x, s) == x.path # NoPort =>
              Referenced(x.path, PortsOf(desc), SignalDir(SignalOf(intf.type, s), intf.mode))
<1>1. /\ intf.type = i.def /\ intf.mode = i.mode /\ intf.clock = Unsaid /\ intf.reset = Unsaid
      /\ Signals(intf) = DOMAIN i.signals
      /\ \A d \in Dirs : intf.signals[d] = part(d)
  BY IntfIs
<1>2. desc.types = RepresentTypes(m)
  BY DEF Represent
<1>3. DOMAIN i.signals \subseteq {x.name : x \in ToSet(Definitions[i.def])}
  BY DEF IsCore, IsInterface
<1>4. ASSUME NEW s \in DOMAIN i.signals
      PROVE  /\ \A d : GoodSignal(desc, sig(s), d)
             /\ follows(sig(s), s) <=> (NeedsPath(i.signals[s]) => PartStays(m, i.signals[s]))
             /\ DirOf(i, s) \in Dirs
  <2> DEFINE sel == i.signals[s]
             x == sig(s)
  <2>1. /\ x.type = Unsaid \/ x.type \in DOMAIN RepresentTypes(m)
        /\ x.default = Unsaid
        /\ x.path = IF NeedsPath(sel) THEN sel ELSE NoPort
        /\ NeedsPath(sel) => sel # NoPort
    BY PartIs
  <2>2. SignalDir(SignalOf(intf.type, s), intf.mode) = DirOf(i, s)
    BY <1>1 DEF DirOf
  <2>3. NeedsPath(sel) => (Referenced(sel, PortsOf(desc), DirOf(i, s)) <=> PartStays(m, sel))
    BY StaysIff
  <2> HIDE DEF sel, sig, desc, intf
  <2>4. \A d : GoodSignal(desc, x, d)
    BY <1>2, <2>1 DEF GoodSignal
  <2>5. follows(x, s) <=> (NeedsPath(sel) => PartStays(m, sel))
    BY <2>1, <2>2, <2>3
  <2>6. DirOf(i, s) \in Dirs
    BY DirIs
  <2> QED BY <2>4, <2>5, <2>6 DEF sel
<1>5. GoodIntf(desc, intf) <=>
         /\ Signals(intf) \subseteq {x.name : x \in ToSet(Definitions[intf.type])}
         /\ \A d \in Dirs : \A s \in DOMAIN intf.signals[d] :
               GoodSignal(desc, intf.signals[d][s], d) /\ follows(intf.signals[d][s], s)
         /\ intf.clock = Unsaid \/ Named(desc.clocks, intf.clock) # {}
         /\ intf.reset = Unsaid \/ Named(desc.resets, intf.reset) # {}
  BY Zenon DEF GoodIntf
<1> HIDE DEF desc, intf, sig, follows
<1>6. \A d \in Dirs : /\ DOMAIN intf.signals[d] = {t \in DOMAIN i.signals : DirOf(i, t) = d}
                      /\ \A s \in DOMAIN intf.signals[d] : intf.signals[d][s] = sig(s)
  BY <1>1
<1>7. GoodIntf(desc, intf) <=> \A s \in DOMAIN i.signals : follows(sig(s), s)
  BY <1>1, <1>3, <1>4, <1>5, <1>6
<1>8. GoodIntf(desc, intf)
         <=> \A s \in DOMAIN i.signals : NeedsPath(i.signals[s]) => PartStays(m, i.signals[s])
  BY <1>4, <1>7
<1> QED BY <1>8 DEF desc, intf

LEMMA GoodClocksIff ==
    ASSUME NEW m, IsCore(m), Representable(m), NEW e
    PROVE  GoodClocks(Represent(m, e))
              <=> \A c \in ToSet(m.clocks) \cup ToSet(m.resets) : ~OnlyInterface(m, c.port)
<1> DEFINE desc == Represent(m, e)
           C == ToSet(m.clocks) \cup ToSet(m.resets)
<1>1. desc.clocks = m.clocks /\ desc.resets = m.resets
  BY DEF Represent
<1>2. /\ \A c \in C : Named(m.ports, c.port) # {}
      /\ \A r \in ToSet(m.resets) : r.sync = Unsaid \/ Named(m.clocks, r.sync) # {}
  BY DEF IsCore
<1>3. \A c \in C : Named(PortsOf(desc), c.port) # {} <=> ~OnlyInterface(m, c.port)
  BY <1>2, FirstPorts DEF OnlyInterface
<1> HIDE DEF desc
<1>4. GoodClocks(desc) <=> \A c \in C : Named(PortsOf(desc), c.port) # {}
  BY <1>1, <1>2 DEF GoodClocks
<1> QED BY <1>3, <1>4 DEF desc

\* A file of a core is read unless the core is lost or an interface has no definition, or
\* where that is asked for not all its signals.
LEMMA ReadsIff ==
    ASSUME NEW m, IsCore(m), Representable(m), NEW e, NEW known, NEW compliance
    PROVE  Readable(Represent(m, e), known, compliance) <=> Survives(m, known, compliance)
<1> DEFINE desc == Represent(m, e)
           reads(i) == \A s \in DOMAIN i.signals : NeedsPath(i.signals[s]) => PartStays(m, i.signals[s])
<1>1. \A d \in Dirs : desc.signals[d] =
         {RepresentSignal(p, <<>>, p.default) : p \in {q \in NeededPorts(m) : q.dir = d}}
  BY DEF Represent, RepresentPorts
<1>2. desc.types = RepresentTypes(m)
  BY DEF Represent
<1>3. ToSet(desc.interfaces) = {RepresentIntf(m, i) : i \in ToSet(m.intfs)}
  BY IntfsOf
<1>4. Loadable(desc, known, compliance)
         <=> \A i \in ToSet(m.intfs) : i.def \in known /\ (compliance => Complete(i))
  BY LoadableIff
<1>5. GoodClocks(desc) <=> \A c \in ToSet(m.clocks) \cup ToSet(m.resets) : ~OnlyInterface(m, c.port)
  BY GoodClocksIff
<1>6. \A i \in ToSet(m.intfs) : GoodIntf(desc, RepresentIntf(m, i)) <=> reads(i)
  BY GoodIntfIff
<1> HIDE DEF desc, reads
<1>7. ASSUME NEW d \in Dirs, NEW s \in desc.signals[d]
      PROVE  s.path = NoPort /\ s.slice = <<>> /\ GoodSignal(desc, s, d)
  <2>1. PICK p \in NeededPorts(m) : s = RepresentSignal(p, <<>>, p.default) /\ p.dir = d
    BY <1>1
  <2>2. p \in ToSet(m.ports)
    BY CoreIs
  <2>3. /\ s.path = NoPort /\ s.slice = <<>>
        /\ s.type = Unsaid \/ s.type \in DOMAIN RepresentTypes(m)
        /\ s.default = IF IsStruct(p.type) THEN Unsaid ELSE p.default
    BY <2>1, <2>2, SignalIs
  <2>4. p.default = Unsaid \/ p.dir = "in"
    BY <2>2 DEF IsCore, IsPort
  <2> QED BY <1>2, <2>1, <2>3, <2>4 DEF GoodSignal
<1>8. Parsable(desc) <=> GoodClocks(desc) /\ \A x \in ToSet(desc.interfaces) : GoodIntf(desc, x)
  BY <1>7 DEF Parsable
<1>9. Lost(m) <=> \/ \E c \in ToSet(m.clocks) \cup ToSet(m.resets) : OnlyInterface(m, c.port)
                  \/ \E i \in ToSet(m.intfs) : ~reads(i)
  BY DEF Lost, reads
<1>10. Parsable(desc) <=> ~Lost(m)
  BY <1>3, <1>5, <1>6, <1>8, <1>9
<1> QED BY <1>4, <1>10 DEF Readable, Survives, desc

(***************************************************************************)
(* What is read.                                                           *)
(***************************************************************************)
LEMMA Remade ==
    ASSUME NEW x, NEW n, NEW p, NEW i, NEW v, NEW c, NEW r,
           x = [name |-> n, ports |-> p, intfs |-> i, params |-> v, clocks |-> c, resets |-> r],
           NEW ports, NEW intfs, NEW params,
           NEW y, y = [x EXCEPT !.ports = ports, !.intfs = intfs, !.params = params]
    PROVE  y = [name |-> n, ports |-> ports, intfs |-> intfs, params |-> params, clocks |-> c,
                resets |-> r]
OBVIOUS

LEMMA ModuleParts ==
    ASSUME NEW x, NEW n, NEW p, NEW i, NEW v, NEW c, NEW r, x = Module(n, p, i, v, c, r)
    PROVE  /\ x.name = n /\ x.ports = p /\ x.intfs = i /\ x.params = v /\ x.clocks = c /\ x.resets = r
           /\ \A ports : [x EXCEPT !.ports = ports] = Module(n, ports, i, v, c, r)
BY DEF Module

KeptIntfs(m) == [k \in DOMAIN m.intfs |-> KeptIntf(m.intfs[k])]
KeptParams(m) == [k \in DOMAIN m.params |-> KeptParam(m.params[k])]

LEMMA KeptIs ==
    ASSUME NEW m, IsCore(m)
    PROVE  Kept(m) = Module(m.name, KeptPorts(m), KeptIntfs(m), KeptParams(m), m.clocks, m.resets)
<1> DEFINE ports == KeptPorts(m)
           intfs == KeptIntfs(m)
           params == KeptParams(m)
<1>1. Kept(m) = [m EXCEPT !.ports = ports, !.intfs = intfs, !.params = params]
  BY Zenon DEF Kept, KeptPorts, KeptIntfs, KeptParams
<1>2. m = Module(m.name, m.ports, m.intfs, m.params, m.clocks, m.resets)
  BY CoreIs
<1> HIDE DEF ports, intfs, params
<1>3. Kept(m) = Module(m.name, ports, intfs, params, m.clocks, m.resets)
  BY <1>1, <1>2, Remade DEF Module
<1> QED BY <1>3 DEF ports, intfs, params

LEMMA Cleared ==
    ASSUME NEW x, NEW n, NEW d, NEW m, NEW s, NEW c, NEW r, NEW z,
           x = [name |-> n, def |-> d, mode |-> m, signals |-> s, clock |-> c, reset |-> r, size |-> z],
           NEW clock, NEW reset, NEW size,
           NEW y, y = [x EXCEPT !.clock = clock, !.reset = reset, !.size = size]
    PROVE  y = [name |-> n, def |-> d, mode |-> m, signals |-> s, clock |-> clock, reset |-> reset,
                size |-> size]
OBVIOUS

LEMMA KeptIntfIs ==
    ASSUME NEW m, IsCore(m), NEW i \in ToSet(m.intfs)
    PROVE  KeptIntf(i) = [name |-> i.name, def |-> i.def, mode |-> i.mode, signals |-> i.signals,
                          clock |-> Unsaid, reset |-> Unsaid, size |-> 0]
<1>1. i = [name |-> i.name, def |-> i.def, mode |-> i.mode, signals |-> i.signals,
           clock |-> i.clock, reset |-> i.reset, size |-> i.size]
  BY DEF IsCore, IsInterface
<1> DEFINE y == KeptIntf(i)
<1>2. y = [i EXCEPT !.clock = Unsaid, !.reset = Unsaid, !.size = 0]
  BY DEF KeptIntf
<1> HIDE DEF y
<1>3. y = [name |-> i.name, def |-> i.def, mode |-> i.mode, signals |-> i.signals,
           clock |-> Unsaid, reset |-> Unsaid, size |-> 0]
  BY <1>1, <1>2, Cleared
<1> QED BY <1>3 DEF y

LEMMA IntfBack ==
    ASSUME NEW m, IsCore(m), NEW i \in ToSet(m.intfs)
    PROVE  ParseIntf(RepresentIntf(m, i)) = KeptIntf(i)
<1> DEFINE intf == RepresentIntf(m, i)
           sig(s) == RepresentIntfSignal(m, i.signals[s])
           part(d) == [s \in {t \in DOMAIN i.signals : DirOf(i, t) = d} |-> sig(s)]
           dir(s) == CHOOSE d \in Dirs : s \in DOMAIN intf.signals[d]
           signals == [s \in Signals(intf) |-> PortOf(intf.signals[dir(s)][s])]
<1>1. /\ intf.name = i.name /\ intf.type = i.def /\ intf.mode = i.mode /\ intf.clock = Unsaid
      /\ intf.reset = Unsaid /\ intf.size = 0 /\ Signals(intf) = DOMAIN i.signals
      /\ \A d \in Dirs : intf.signals[d] = part(d)
  BY IntfIs
<1>2. ParseIntf(intf) = [name |-> intf.name, def |-> intf.type, mode |-> intf.mode,
                         signals |-> signals, clock |-> intf.clock, reset |-> intf.reset,
                         size |-> intf.size]
  BY DEF ParseIntf
<1> HIDE DEF intf, sig
<1>3. \A d \in Dirs : /\ DOMAIN intf.signals[d] = {t \in DOMAIN i.signals : DirOf(i, t) = d}
                      /\ \A s \in DOMAIN intf.signals[d] : intf.signals[d][s] = sig(s)
  BY <1>1
<1>4. ASSUME NEW s \in DOMAIN i.signals PROVE PortOf(intf.signals[dir(s)][s]) = i.signals[s]
  <2>1. DirOf(i, s) \in Dirs
    BY DirIs
  <2>2. dir(s) \in Dirs /\ s \in DOMAIN intf.signals[dir(s)]
    BY <1>3, <2>1
  <2>3. intf.signals[dir(s)][s] = sig(s)
    BY <1>3, <2>2
  <2>4. PortOf(sig(s)) = i.signals[s]
    BY PartIs DEF sig
  <2> QED BY <2>3, <2>4
<1> HIDE DEF dir
<1>5. signals = i.signals
  <2>1. i.signals = [s \in DOMAIN i.signals |-> i.signals[s]]
    BY DEF IsCore, IsInterface
  <2> QED BY <1>1, <1>4, <2>1
<1> HIDE DEF signals
<1>6. ParseIntf(intf) = [name |-> i.name, def |-> i.def, mode |-> i.mode, signals |-> i.signals,
                         clock |-> Unsaid, reset |-> Unsaid, size |-> 0]
  BY <1>1, <1>2, <1>5
<1> QED BY <1>6, KeptIntfIs DEF intf

LEMMA RoundTrip ==
    ASSUME NEW m, IsCore(m), Representable(m), NEW e, ~Lost(m)
    PROVE  LET new == Parse(Represent(m, e))
           IN  /\ new = Module(m.name, new.ports, KeptIntfs(m), KeptParams(m), m.clocks, m.resets)
               /\ PortsIn(KeptPorts(m), new.ports) /\ ToSet(new.ports) = KeptPorts(m)
               /\ [new EXCEPT !.ports = ToSet(@)] = Kept(m)
<1> DEFINE desc == Represent(m, e)
           ports == AllPorts(desc)
           intfs == desc.interfaces
           new == Parse(desc)
<1>1. /\ desc.name = m.name /\ desc.parameters = KeptParams(m) /\ desc.clocks = m.clocks
      /\ desc.resets = m.resets
      /\ intfs = [k \in DOMAIN m.intfs |-> RepresentIntf(m, m.intfs[k])]
  BY Zenon DEF Represent, KeptParams, KeptParam, RepresentParam
<1>2. \A i \in ToSet(m.intfs) : \A s \in DOMAIN i.signals :
          NeedsPath(i.signals[s]) => IsStruct(Find(m.ports, i.signals[s].port).type)
  BY DEF Lost, PartStays
<1>3. PortsIn(KeptPorts(m), ports) /\ ToSet(ports) = KeptPorts(m)
  BY <1>2, AllPortsIs
<1>4. [k \in DOMAIN intfs |-> ParseIntf(intfs[k])] = KeptIntfs(m)
  <2>1. \A k \in DOMAIN m.intfs : m.intfs[k] \in ToSet(m.intfs)
    BY DEF ToSet
  <2>2. \A k \in DOMAIN m.intfs : ParseIntf(RepresentIntf(m, m.intfs[k])) = KeptIntf(m.intfs[k])
    BY <2>1, IntfBack
  <2> HIDE DEF desc
  <2> QED BY <1>1, <2>2 DEF KeptIntfs
<1>5. new = Module(desc.name, ports, [k \in DOMAIN intfs |-> ParseIntf(intfs[k])],
                   desc.parameters, desc.clocks, desc.resets)
  BY Zenon DEF Parse
<1> HIDE DEF ports, desc, new
<1>6. new = Module(m.name, ports, KeptIntfs(m), KeptParams(m), m.clocks, m.resets)
  BY <1>1, <1>4, <1>5
<1>7. new.ports = ports /\ \A x : [new EXCEPT !.ports = x]
                                    = Module(m.name, x, KeptIntfs(m), KeptParams(m), m.clocks, m.resets)
  BY <1>6, ModuleParts
<1>8. [new EXCEPT !.ports = ToSet(@)] = Kept(m)
  <2>1. [new EXCEPT !.ports = ToSet(@)] = [new EXCEPT !.ports = ToSet(new.ports)]
    OBVIOUS
  <2> QED BY <1>3, <1>7, <2>1, KeptIs
<1> QED BY <1>3, <1>6, <1>7, <1>8 DEF new, desc

(***************************************************************************)
(* A core that is read is a core again, and loses nothing more.            *)
(***************************************************************************)
Rewritten(m, new) ==
    /\ new = Module(m.name, new.ports, KeptIntfs(m), KeptParams(m), m.clocks, m.resets)
    /\ PortsIn(KeptPorts(m), new.ports) /\ ToSet(new.ports) = KeptPorts(m)

LEMMA RewrittenIs ==
    ASSUME NEW m, IsCore(m), NEW new, Rewritten(m, new)
    PROVE  /\ new.name = m.name /\ new.intfs = KeptIntfs(m) /\ new.params = KeptParams(m)
           /\ new.clocks = m.clocks /\ new.resets = m.resets /\ Distinct(new.ports)
           /\ ToSet(new.intfs) = {KeptIntf(i) : i \in ToSet(m.intfs)}
           /\ \A i \in ToSet(m.intfs) : /\ KeptIntf(i).def = i.def /\ KeptIntf(i).mode = i.mode
                                        /\ KeptIntf(i).signals = i.signals
           /\ UsedPorts(new) = UsedPorts(m)
           /\ \A n : Named(m.ports, n) # {} =>
                 Named(new.ports, n) # {} /\ Find(new.ports, n) = KeptPort(m, Find(m.ports, n))
<1>1. /\ new.name = m.name /\ new.intfs = KeptIntfs(m) /\ new.params = KeptParams(m)
      /\ new.clocks = m.clocks /\ new.resets = m.resets
  BY ModuleParts DEF Rewritten
<1>2. Distinct(new.ports) /\ ToSet(new.ports) = {KeptPort(m, p) : p \in ToSet(m.ports)}
  BY DEF Rewritten, PortsIn, KeptPorts
<1>3. ToSet(new.intfs) = {KeptIntf(i) : i \in ToSet(m.intfs)}
  <2> DEFINE intfs == KeptIntfs(m)
  <2>1. DOMAIN intfs = DOMAIN m.intfs /\ \A k \in DOMAIN intfs : intfs[k] = KeptIntf(m.intfs[k])
    BY DEF KeptIntfs
  <2> HIDE DEF intfs
  <2>2. ToSet(intfs) = {intfs[k] : k \in DOMAIN intfs}
    BY DEF ToSet
  <2>3. ToSet(m.intfs) = {m.intfs[k] : k \in DOMAIN m.intfs}
    BY DEF ToSet
  <2>4. ToSet(intfs) = {KeptIntf(i) : i \in ToSet(m.intfs)}
    BY <2>1, <2>2, <2>3
  <2> QED BY <1>1, <2>4 DEF intfs
<1>4. \A i \in ToSet(m.intfs) : /\ KeptIntf(i).def = i.def /\ KeptIntf(i).mode = i.mode
                                /\ KeptIntf(i).signals = i.signals
  BY KeptIntfIs
<1>5. UsedPorts(new) = UsedPorts(m)
  BY <1>3, <1>4 DEF UsedPorts
<1>6. ASSUME NEW n, Named(m.ports, n) # {}
      PROVE  Named(new.ports, n) # {} /\ Find(new.ports, n) = KeptPort(m, Find(m.ports, n))
  <2> DEFINE p == Find(m.ports, n)
             x == KeptPort(m, p)
  <2>1. p \in ToSet(m.ports) /\ p.name = n
    BY <1>6, CoreIs, FindIn
  <2>2. x \in ToSet(new.ports) /\ x.name = n
    BY <1>2, <2>1, KeptPortIs
  <2> HIDE DEF x
  <2> QED BY <1>2, <2>2, FindIn DEF x
<1> QED BY <1>1, <1>2, <1>3, <1>4, <1>5, <1>6

\* A port is of the same kind, and a part of it that one slice takes is one of bits still.
LEMMA KeptKind ==
    ASSUME NEW m, IsCore(m), NEW p \in ToSet(m.ports)
    PROVE  LET x == KeptPort(m, p)
           IN  /\ x.name = p.name /\ x.dir = p.dir /\ x.type = KeptType(p.type)
               /\ x.default = KeptDefault(m, p)
               /\ IsStruct(x.type) <=> IsStruct(p.type)
               /\ p.type.kind = "bits" => x.type = p.type
               /\ p.type.kind # "bits" /\ ~IsStruct(p.type) => x.type = Bit
<1> DEFINE x == KeptPort(m, p)
<1>1. /\ x.name = p.name /\ x.dir = p.dir /\ x.type = KeptType(p.type)
      /\ x.default = KeptDefault(m, p) /\ IsType(p.type)
  BY KeptPortIs DEF IsPort
<1>2. IsStruct(KeptType(p.type)) <=> IsStruct(p.type)
  BY <1>1, KeptTypeIs
<1>3. ASSUME p.type.kind = "bits" PROVE KeptType(p.type) = p.type
  BY <1>1, <1>3, KeptTypeIs DEF IsStruct
<1>4. ASSUME p.type.kind # "bits", ~IsStruct(p.type) PROVE KeptType(p.type) = Bit
  <2>1. Bit.kind = "bit" /\ ~IsStruct(Bit)
    BY DEF Bit, Type, IsStruct
  <2>2. p.type = Bit \/ p.type.kind = "structs"
    BY <1>1, <1>4 DEF IsType
  <2> QED BY <1>1, <1>4, <2>1, <2>2, KeptTypeIs
<1> HIDE DEF x
<1> QED BY <1>1, <1>2, <1>3, <1>4 DEF x

LEMMA AgainCore ==
    ASSUME NEW m, IsCore(m), NEW new, Rewritten(m, new)
    PROVE  IsCore(new)
<1>1. /\ new = Module(new.name, new.ports, new.intfs, new.params, new.clocks, new.resets)
      /\ new.name = m.name /\ new.intfs = KeptIntfs(m) /\ new.params = KeptParams(m)
      /\ new.clocks = m.clocks /\ new.resets = m.resets /\ Distinct(new.ports)
      /\ ToSet(new.intfs) = {KeptIntf(i) : i \in ToSet(m.intfs)}
      /\ \A n : Named(m.ports, n) # {} =>
            Named(new.ports, n) # {} /\ Find(new.ports, n) = KeptPort(m, Find(m.ports, n))
  BY RewrittenIs DEF Rewritten
<1>2. ToSet(new.ports) = {KeptPort(m, p) : p \in ToSet(m.ports)}
  BY DEF Rewritten, KeptPorts
<1>3. Shaped(new)
  <2>1. new.ports \in Seq(ToSet(new.ports))
    BY Listing DEF Rewritten, PortsIn
  <2>2. new.intfs \in Seq(ToSet(new.intfs))
    <3>1. m.intfs \in Seq(ToSet(m.intfs))
      BY CoreIs
    <3>2. DOMAIN m.intfs = 1..Len(m.intfs) /\ Len(m.intfs) \in Nat
      BY <3>1, Listing
    <3> DEFINE R == {KeptIntf(m.intfs[k]) : k \in DOMAIN m.intfs}
               intfs == KeptIntfs(m)
    <3>3. intfs \in [1..Len(m.intfs) -> R]
      BY <3>2 DEF KeptIntfs
    <3> HIDE DEF R, intfs
    <3>4. intfs \in Seq(R)
      BY <3>2, <3>3, SeqDef
    <3>5. intfs \in Seq(ToSet(intfs))
      BY <3>4, Listing
    <3> QED BY <1>1, <3>5 DEF intfs
  <2> QED BY <1>1, <2>1, <2>2 DEF Shaped, Distinct
<1>4. \A x \in ToSet(new.ports) : IsPort(x)
  BY <1>2, KeptPortIs
<1>5. ASSUME NEW x \in ToSet(new.ports), NEW y \in ToSet(new.ports), IsStruct(x.type), IsStruct(y.type),
             TypeName(x.type) = TypeName(y.type)
      PROVE  x.type.fields = y.type.fields
  <2>1. PICK p \in ToSet(m.ports) : x = KeptPort(m, p)
    BY <1>2
  <2>2. PICK q \in ToSet(m.ports) : y = KeptPort(m, q)
    BY <1>2
  <2>3. /\ x.type = KeptType(p.type) /\ IsStruct(p.type) /\ IsType(p.type)
        /\ y.type = KeptType(q.type) /\ IsStruct(q.type) /\ IsType(q.type)
    BY <1>5, <2>1, <2>2, KeptKind DEF IsCore, IsPort
  <2>4. TypeName(p.type) = TypeName(q.type)
    BY <1>5, <2>3, KeptTypeIs
  <2>5. p.type.fields = q.type.fields
    BY <2>3, <2>4 DEF IsCore
  <2> DEFINE fields(t) == [k \in DOMAIN t.fields |-> KeptField(t.fields[k])]
  <2>6. /\ x.type = Type("struct", TypeName(p.type), <<>>, fields(p.type))
        /\ y.type = Type("struct", TypeName(q.type), <<>>, fields(q.type))
    BY <2>3, KeptTypeIs
  <2>7. fields(p.type) = fields(q.type)
    BY <2>5
  <2> HIDE DEF fields
  <2>8. x.type.fields = fields(p.type) /\ y.type.fields = fields(q.type)
    BY <2>6 DEF Type
  <2> QED BY <2>7, <2>8
<1>6. ASSUME NEW i \in ToSet(m.intfs) PROVE IsInterface(new.ports, KeptIntf(i))
  <2> DEFINE intf == KeptIntf(i)
  <2>1. intf = [name |-> i.name, def |-> i.def, mode |-> i.mode, signals |-> i.signals,
                clock |-> Unsaid, reset |-> Unsaid, size |-> 0]
    BY KeptIntfIs
  <2>2. /\ i.def \in DOMAIN Definitions /\ i.signals = [s \in DOMAIN i.signals |-> i.signals[s]]
        /\ DOMAIN i.signals \subseteq {s.name : s \in ToSet(Definitions[i.def])}
        /\ \A s \in DOMAIN i.signals :
              i.signals[s] = NoPort \/ IsPart(m.ports, i.signals[s], SignalDir(SignalOf(i.def, s), i.mode))
    BY DEF IsCore, IsInterface
  <2>3. ASSUME NEW sel, NEW dir, IsPart(m.ports, sel, dir) PROVE IsPart(new.ports, sel, dir)
    <3> DEFINE p == Find(m.ports, sel.port)
               x == Find(new.ports, sel.port)
    <3>1. Named(m.ports, sel.port) # {}
      BY <2>3 DEF IsPart
    <3>2. p \in ToSet(m.ports)
      BY <3>1, CoreIs, FindIn
    <3>3. Named(new.ports, sel.port) # {} /\ x = KeptPort(m, p)
      BY <1>1, <3>1
    <3>4. x.dir = p.dir /\ (p.type.kind = "bits" => x.type = p.type)
      BY <3>2, <3>3, KeptKind
    <3>5. /\ sel = Sel(sel.port, sel.ops) /\ p.dir = dir
          /\ \/ sel.ops = <<>> \/ NeedsPath(sel)
             \/ sel.ops = <<Slice(sel.ops[1].upper, sel.ops[1].lower)>> /\ p.type.kind = "bits"
      BY <2>3 DEF IsPart
    <3> QED BY <3>3, <3>4, <3>5 DEF IsPart
  <2> HIDE DEF intf
  <2>4. /\ intf.name = i.name /\ intf.def = i.def /\ intf.mode = i.mode /\ intf.signals = i.signals
        /\ intf.clock = Unsaid /\ intf.reset = Unsaid /\ intf.size = 0
    BY <2>1
  <2>5. intf = [name |-> intf.name, def |-> intf.def, mode |-> intf.mode, signals |-> intf.signals,
                clock |-> intf.clock, reset |-> intf.reset, size |-> intf.size]
    BY <2>1, <2>4
  <2> QED BY <2>2, <2>3, <2>4, <2>5 DEF IsInterface, intf
<1>7. ASSUME NEW k \in DOMAIN new.params
      PROVE  new.params[k] = [name |-> new.params[k].name, value |-> new.params[k].value]
  <2> DEFINE par == m.params[k]
  <2>1. k \in DOMAIN m.params /\ new.params[k] = KeptParam(par)
    BY <1>1 DEF KeptParams
  <2>2. par = [name |-> par.name, value |-> par.value]
    BY <2>1 DEF IsCore
  <2> HIDE DEF par
  <2>3. KeptParam(par) = [name |-> par.name, value |-> IF par.value = "sized" THEN "text" ELSE par.value]
    BY <2>2 DEF KeptParam
  <2> QED BY <2>1, <2>3
<1>8. /\ \A c \in ToSet(m.clocks) \cup ToSet(m.resets) : Named(m.ports, c.port) # {}
      /\ \A r \in ToSet(m.resets) : r.sync = Unsaid \/ Named(m.clocks, r.sync) # {}
      /\ m.name # Unsaid
  BY DEF IsCore
<1>9. \A c \in ToSet(new.clocks) \cup ToSet(new.resets) : Named(new.ports, c.port) # {}
  BY <1>1, <1>8
<1> QED BY <1>1, <1>3, <1>4, <1>5, <1>6, <1>7, <1>8, <1>9 DEF IsCore

LEMMA AgainKept ==
    ASSUME NEW m, IsCore(m), NEW new, Rewritten(m, new)
    PROVE  Kept(new) = Kept(m)
<1>1. /\ new.name = m.name /\ new.intfs = KeptIntfs(m) /\ new.params = KeptParams(m)
      /\ new.clocks = m.clocks /\ new.resets = m.resets /\ UsedPorts(new) = UsedPorts(m)
      /\ ToSet(new.intfs) = {KeptIntf(i) : i \in ToSet(m.intfs)}
      /\ IsCore(new)
  BY RewrittenIs, AgainCore
<1>2. ToSet(new.ports) = {KeptPort(m, p) : p \in ToSet(m.ports)}
  BY DEF Rewritten, KeptPorts
<1>3. ASSUME NEW p \in ToSet(m.ports) PROVE KeptPort(new, KeptPort(m, p)) = KeptPort(m, p)
  <2> DEFINE x == KeptPort(m, p)
  <2>1. /\ x.name = p.name /\ x.type = KeptType(p.type) /\ x.default = KeptDefault(m, p)
        /\ IsStruct(x.type) <=> IsStruct(p.type)
    BY KeptKind
  <2>2. IsPort(p) /\ IsPort(x)
    BY KeptPortIs
  <2>3. KeptType(x.type) = x.type
    BY <2>1, <2>2, KeptTypeIs DEF IsPort
  <2>4. x \in ToSet(new.ports)
    BY <1>2
  <2> HIDE DEF x
  <2>5. KeptDefault(new, x) = x.default
    BY <1>1, <2>1 DEF KeptDefault
  <2>6. KeptPort(new, x) = [name |-> x.name, dir |-> x.dir, type |-> KeptType(x.type),
                            default |-> KeptDefault(new, x)]
    BY <1>1, <2>4, KeptPortIs
  <2>7. KeptPort(new, x) = x
    BY <2>2, <2>3, <2>5, <2>6 DEF IsPort
  <2> QED BY <2>7 DEF x
<1>4. KeptPorts(new) = KeptPorts(m)
  BY <1>2, <1>3 DEF KeptPorts
<1>5. KeptIntfs(new) = KeptIntfs(m)
  <2>1. ASSUME NEW k \in DOMAIN m.intfs
        PROVE  KeptIntf(KeptIntf(m.intfs[k])) = KeptIntf(m.intfs[k])
    <3> DEFINE i == m.intfs[k]
               x == KeptIntf(i)
    <3>1. i \in ToSet(m.intfs)
      BY DEF ToSet
    <3>2. x = [name |-> i.name, def |-> i.def, mode |-> i.mode, signals |-> i.signals,
               clock |-> Unsaid, reset |-> Unsaid, size |-> 0]
      BY <3>1, KeptIntfIs
    <3>3. x \in ToSet(new.intfs)
      BY <1>1, <3>1
    <3> HIDE DEF x, i
    <3>4. KeptIntf(x) = [name |-> x.name, def |-> x.def, mode |-> x.mode, signals |-> x.signals,
                         clock |-> Unsaid, reset |-> Unsaid, size |-> 0]
      BY <1>1, <3>3, KeptIntfIs
    <3>5. KeptIntf(x) = x
      BY <3>2, <3>4
    <3> QED BY <3>5 DEF x, i
  <2> DEFINE intfs == KeptIntfs(m)
  <2>2. DOMAIN intfs = DOMAIN m.intfs /\ \A k \in DOMAIN intfs : intfs[k] = KeptIntf(m.intfs[k])
    BY DEF KeptIntfs
  <2>3. KeptIntfs(new) = [k \in DOMAIN intfs |-> KeptIntf(intfs[k])]
    BY <1>1 DEF KeptIntfs
  <2>4. intfs = [k \in DOMAIN intfs |-> intfs[k]]
    BY DEF KeptIntfs
  <2> HIDE DEF intfs
  <2>5. \A k \in DOMAIN intfs : KeptIntf(intfs[k]) = intfs[k]
    BY <2>1, <2>2
  <2> QED BY <2>3, <2>4, <2>5 DEF intfs
<1>6. KeptParams(new) = KeptParams(m)
  <2>1. ASSUME NEW k \in DOMAIN m.params
        PROVE  KeptParam(KeptParam(m.params[k])) = KeptParam(m.params[k])
    <3> DEFINE par == m.params[k]
               v == IF par.value = "sized" THEN "text" ELSE par.value
    <3>1. par = [name |-> par.name, value |-> par.value]
      BY DEF IsCore
    <3> HIDE DEF par
    <3>2. KeptParam(par) = [name |-> par.name, value |-> v]
      BY <3>1 DEF KeptParam
    <3>3. v # "sized"
      OBVIOUS
    <3> HIDE DEF v
    <3>4. KeptParam([name |-> par.name, value |-> v]) = [name |-> par.name, value |-> v]
      BY <3>3 DEF KeptParam
    <3> QED BY <3>2, <3>4 DEF par
  <2> DEFINE params == KeptParams(m)
  <2>2. DOMAIN params = DOMAIN m.params /\ \A k \in DOMAIN params : params[k] = KeptParam(m.params[k])
    BY DEF KeptParams
  <2>3. KeptParams(new) = [k \in DOMAIN params |-> KeptParam(params[k])]
    BY <1>1 DEF KeptParams
  <2>4. params = [k \in DOMAIN params |-> params[k]]
    BY DEF KeptParams
  <2> HIDE DEF params
  <2>5. \A k \in DOMAIN params : KeptParam(params[k]) = params[k]
    BY <2>1, <2>2
  <2> QED BY <2>3, <2>4, <2>5 DEF params
<1>7. /\ Kept(m) = Module(m.name, KeptPorts(m), KeptIntfs(m), KeptParams(m), m.clocks, m.resets)
      /\ Kept(new) = Module(new.name, KeptPorts(new), KeptIntfs(new), KeptParams(new), new.clocks,
                            new.resets)
  BY <1>1, KeptIs
<1> QED BY <1>1, <1>4, <1>5, <1>6, <1>7

LEMMA AgainLost ==
    ASSUME NEW m, IsCore(m), NEW new, Rewritten(m, new), NEW known, NEW compliance
    PROVE  Survives(new, known, compliance) <=> Survives(m, known, compliance)
<1>1. /\ new.clocks = m.clocks /\ new.resets = m.resets /\ UsedPorts(new) = UsedPorts(m)
      /\ ToSet(new.intfs) = {KeptIntf(i) : i \in ToSet(m.intfs)}
      /\ \A i \in ToSet(m.intfs) : /\ KeptIntf(i).def = i.def /\ KeptIntf(i).mode = i.mode
                                   /\ KeptIntf(i).signals = i.signals
      /\ \A n : Named(m.ports, n) # {} =>
            Named(new.ports, n) # {} /\ Find(new.ports, n) = KeptPort(m, Find(m.ports, n))
  BY RewrittenIs
<1>2. ASSUME NEW n, Named(m.ports, n) # {}
      PROVE  LET p == Find(m.ports, n)
                 x == Find(new.ports, n)
             IN  /\ IsStruct(x.type) <=> IsStruct(p.type)
                 /\ KeptType(x.type) = KeptType(p.type)
  <2>1. Find(m.ports, n) \in ToSet(m.ports)
    BY <1>2, CoreIs, FindIn
  <2> DEFINE p == Find(m.ports, n)
             x == Find(new.ports, n)
  <2>2. x = KeptPort(m, p)
    BY <1>1, <1>2
  <2> HIDE DEF p, x
  <2>3. x.type = KeptType(p.type) /\ (IsStruct(x.type) <=> IsStruct(p.type)) /\ IsType(p.type)
    BY <2>1, <2>2, KeptKind DEF p, IsCore, IsPort
  <2>4. KeptType(x.type) = KeptType(p.type)
    BY <2>3, KeptTypeIs
  <2> QED BY <2>3, <2>4 DEF p, x
<1>3. \A n : Named(m.ports, n) # {} => (OnlyInterface(new, n) <=> OnlyInterface(m, n))
  BY <1>1, <1>2 DEF OnlyInterface
<1>4. \A c \in ToSet(m.clocks) \cup ToSet(m.resets) : Named(m.ports, c.port) # {}
  BY DEF IsCore
<1>5. ASSUME NEW i \in ToSet(m.intfs), NEW s \in DOMAIN i.signals, NeedsPath(i.signals[s])
      PROVE  PartStays(new, i.signals[s]) <=> PartStays(m, i.signals[s])
  <2> DEFINE sel == i.signals[s]
             p == Find(m.ports, sel.port)
             x == Find(new.ports, sel.port)
             end(t) == FoldLeft(Select, t, sel.ops)
  <2>1. Named(m.ports, sel.port) # {}
    <3>1. sel # NoPort
      BY <1>5, PartIs
    <3> QED BY <3>1 DEF IsCore, IsInterface, IsPart
  <2>2. (IsStruct(x.type) <=> IsStruct(p.type)) /\ KeptType(x.type) = KeptType(p.type)
    BY <1>2, <2>1
  <2>3. /\ PartStays(m, sel) <=> IsStruct(p.type) /\ end(KeptType(p.type)) # BadType
        /\ PartStays(new, sel) <=> IsStruct(x.type) /\ end(KeptType(x.type)) # BadType
    BY Zenon DEF PartStays
  <2> HIDE DEF end, p, x, sel
  <2>4. PartStays(new, sel) <=> PartStays(m, sel)
    BY <2>2, <2>3
  <2> QED BY <2>4 DEF sel
<1> DEFINE loses(x, i) == \E s \in DOMAIN i.signals :
                             NeedsPath(i.signals[s]) /\ ~PartStays(x, i.signals[s])
<1>6. \A i \in ToSet(m.intfs) : loses(new, KeptIntf(i)) <=> loses(m, i)
  BY <1>1, <1>5
<1>7. \A x : Lost(x) <=> \/ \E c \in ToSet(x.clocks) \cup ToSet(x.resets) : OnlyInterface(x, c.port)
                         \/ \E i \in ToSet(x.intfs) : loses(x, i)
  BY Zenon DEF Lost
<1> HIDE DEF loses
<1>8. Lost(new) <=> Lost(m)
  BY <1>1, <1>3, <1>4, <1>6, <1>7
<1>9. \A i \in ToSet(m.intfs) : Complete(KeptIntf(i)) <=> Complete(i)
  BY <1>1 DEF Complete
<1>10. (\A i \in ToSet(new.intfs) : i.def \in known /\ (compliance => Complete(i)))
         <=> (\A i \in ToSet(m.intfs) : i.def \in known /\ (compliance => Complete(i)))
  BY <1>1, <1>9
<1> QED BY <1>8, <1>10 DEF Survives

LEMMA AgainRepresentable ==
    ASSUME NEW m, IsCore(m), NEW new, Rewritten(m, new), Representable(m)
    PROVE  Representable(new)
<1>1. /\ UsedPorts(new) = UsedPorts(m) /\ IsCore(new)
      /\ ToSet(new.intfs) = {KeptIntf(i) : i \in ToSet(m.intfs)}
      /\ \A i \in ToSet(m.intfs) : KeptIntf(i).signals = i.signals
      /\ \A n : Named(m.ports, n) # {} => Find(new.ports, n) = KeptPort(m, Find(m.ports, n))
  BY RewrittenIs, AgainCore
<1>2. ToSet(new.ports) = {KeptPort(m, p) : p \in ToSet(m.ports)}
  BY DEF Rewritten, KeptPorts
<1>3. ASSUME NEW p \in ToSet(m.ports), NEW slice, slice = <<>> \/ p.type.kind = "bits",
             Writable(p, slice)
      PROVE  Writable(KeptPort(m, p), slice)
  <2> DEFINE x == KeptPort(m, p)
  <2>1. /\ IsStruct(x.type) <=> IsStruct(p.type)
        /\ p.type.kind = "bits" => x.type = p.type
        /\ p.type.kind # "bits" /\ ~IsStruct(p.type) => x.type = Bit
    BY KeptKind
  <2>2. Bit.kind = "bit"
    BY DEF Bit, Type
  <2> HIDE DEF x
  <2>3. CASE p.type.kind = "bits"
    BY <1>3, <2>1, <2>3 DEF Writable, x
  <2>4. CASE p.type.kind # "bits"
    <3>1. slice = <<>> /\ x.type.kind \in {"bit", "struct"}
      BY <1>3, <2>1, <2>2, <2>4 DEF IsStruct
    <3>2. x.type.kind # "bits" /\ x.type.kind # "structs"
      BY <3>1
    <3>3. Writable(x, slice) <=> slice = <<>>
      BY <3>2 DEF Writable
    <3> QED BY <3>1, <3>3 DEF x
  <2> QED BY <2>3, <2>4 DEF x
<1>4. ASSUME NEW x \in NeededPorts(new) PROVE Writable(x, <<>>)
  <2>1. x \in ToSet(new.ports) /\ (IsStruct(x.type) \/ x.name \notin UsedPorts(m))
    BY <1>1, CoreIs
  <2>2. PICK p \in ToSet(m.ports) : x = KeptPort(m, p)
    BY <1>2, <2>1
  <2>3. x.name = p.name /\ (IsStruct(x.type) <=> IsStruct(p.type))
    BY <2>2, KeptKind
  <2>4. p \in NeededPorts(m)
    BY <2>1, <2>3, CoreIs
  <2>5. Writable(p, <<>>)
    BY <2>4 DEF Representable
  <2> QED BY <1>3, <2>2, <2>5
<1>5. ASSUME NEW i \in ToSet(m.intfs), NEW s \in DOMAIN i.signals,
             i.signals[s] # NoPort, ~NeedsPath(i.signals[s])
      PROVE  Writable(Find(new.ports, i.signals[s].port), SliceOf(i.signals[s]))
  <2> DEFINE sel == i.signals[s]
             p == Find(m.ports, sel.port)
  <2>1. IsPart(m.ports, sel, SignalDir(SignalOf(i.def, s), i.mode))
    BY <1>5 DEF IsCore, IsInterface
  <2>2. Writable(p, SliceOf(sel))
    BY <1>5 DEF Representable
  <2>3. Named(m.ports, sel.port) # {} /\ (sel.ops = <<>> \/ p.type.kind = "bits")
    BY <1>5, <2>1 DEF IsPart
  <2>4. p \in ToSet(m.ports)
    BY <2>3, CoreIs, FindIn
  <2>5. SliceOf(sel) = <<>> \/ p.type.kind = "bits"
    BY <2>3 DEF SliceOf
  <2>6. Find(new.ports, sel.port) = KeptPort(m, p)
    BY <1>1, <2>3
  <2> HIDE DEF sel, p
  <2>7. Writable(KeptPort(m, p), SliceOf(sel))
    BY <1>3, <2>2, <2>4, <2>5
  <2> QED BY <2>6, <2>7 DEF sel
<1>6. \A i \in ToSet(new.intfs) : \A s \in DOMAIN i.signals :
         i.signals[s] # NoPort /\ ~NeedsPath(i.signals[s])
         => Writable(Find(new.ports, i.signals[s].port), SliceOf(i.signals[s]))
  BY <1>1, <1>5
<1> QED BY <1>4, <1>6 DEF Representable

(***************************************************************************)
(* What a core comes to by any number of rewrites.                         *)
(***************************************************************************)
\* Two modules that a file does not tell apart, but for what it does not keep.
Alike(m, g) ==
    /\ Kept(m) = Kept(g)
    /\ \A known, compliance : Survives(m, known, compliance) <=> Survives(g, known, compliance)
IsWritten(desc, g) ==
    \E m, e : IsCore(m) /\ Representable(m) /\ desc = Represent(m, e) /\ Alike(m, g)

\* A file reads as it should.
LEMMA WrittenReads ==
    ASSUME NEW desc, NEW g, IsWritten(desc, g), NEW known, NEW compliance
    PROVE  LET reads == Readable(desc, known, compliance)
           IN  /\ reads <=> Survives(g, known, compliance)
               /\ reads => [Parse(desc) EXCEPT !.ports = ToSet(@)] = Kept(g)
<1>1. PICK m, e : IsCore(m) /\ Representable(m) /\ desc = Represent(m, e) /\ Alike(m, g)
  BY DEF IsWritten
<1>2. Readable(desc, known, compliance) <=> Survives(m, known, compliance)
  BY <1>1, ReadsIff
<1>3. Survives(m, known, compliance) => ~Lost(m)
  BY DEF Survives
<1>4. ~Lost(m) => [Parse(desc) EXCEPT !.ports = ToSet(@)] = Kept(m)
  BY <1>1, RoundTrip
<1> QED BY <1>1, <1>2, <1>3, <1>4 DEF Alike

\* And what was read is written again as a file of the same core.
LEMMA WrittenAgain ==
    ASSUME NEW desc, NEW g, IsWritten(desc, g), NEW known, NEW compliance,
           Readable(desc, known, compliance), NEW e
    PROVE  /\ Representable(Parse(desc))
           /\ IsWritten(Represent(Parse(desc), e), g)
           /\ Parse(desc).name = desc.name /\ desc.name # Unsaid
<1>1. PICK m, f : IsCore(m) /\ Representable(m) /\ desc = Represent(m, f) /\ Alike(m, g)
  BY DEF IsWritten
<1> DEFINE new == Parse(desc)
<1>2. ~Lost(m)
  BY <1>1, ReadsIff DEF Survives
<1>3. Rewritten(m, new)
  BY <1>1, <1>2, RoundTrip DEF Rewritten
<1> HIDE DEF new
<1>4. IsCore(new) /\ Representable(new) /\ Kept(new) = Kept(m) /\ new.name = m.name
  BY <1>1, <1>3, AgainCore, AgainRepresentable, AgainKept, RewrittenIs
<1>5. \A k, c : Survives(new, k, c) <=> Survives(m, k, c)
  BY <1>1, <1>3, AgainLost
<1>6. Alike(new, g)
  BY <1>1, <1>4, <1>5 DEF Alike
<1>7. desc.name = m.name
  BY <1>1 DEF Represent
<1>8. m.name # Unsaid
  BY <1>1 DEF IsCore
<1> QED BY <1>4, <1>6, <1>7, <1>8 DEF IsWritten, new

(***************************************************************************)
(* The modules a parse stores are cores, whatever the hints are.           *)
(***************************************************************************)
LEMMA MapCore ==
    ASSUME NEW m, IsModule(m), IsCore(m), NEW mapping, Mapped(m, mapping), Mappable(m, mapping)
    PROVE  IsCore(MapInterfaces(m, mapping))
<1> DEFINE mod == MapInterfaces(m, mapping)
<1>1. PICK built \in Seq(BuiltOf(m, mapping)) : mod = Joined(m, built)
  BY MapJoins DEF Mapped
<1> DEFINE intfs == m.intfs \o built
<1> HIDE DEF mod
<1>2. mod = Module(m.name, m.ports, intfs, m.params, m.clocks, m.resets)
  BY <1>1, JoinedIs
<1> HIDE DEF intfs
<1>3. /\ mod.name = m.name /\ mod.ports = m.ports /\ mod.intfs = intfs /\ mod.params = m.params
      /\ mod.clocks = m.clocks /\ mod.resets = m.resets
  BY <1>2, ModuleParts
<1>4. intfs \in Seq(ToSet(m.intfs) \cup BuiltOf(m, mapping))
  <2>1. m.intfs \in Seq(ToSet(m.intfs))
    BY CoreIs
  <2> QED BY <2>1, SeqJoin DEF intfs
<1>5. Shaped(mod)
  <2>1. intfs \in Seq(ToSet(intfs))
    BY <1>4, Listing
  <2> QED BY <1>2, <1>3, <2>1 DEF IsCore, Shaped
<1>6. ASSUME NEW e \in ToSet(mapping), Named(m.intfs, e[1]) = {}
      PROVE  IsInterface(m.ports, Interface(e[1], e[2]))
  <2> DEFINE i == Interface(e[1], e[2])
             g == e[2]
  <2>1. PICK k \in DOMAIN mapping : mapping[k] = e
    BY DEF ToSet
  <2>2. Fits(m, g) /\ Sound(m, g)
    BY <1>6, <2>1 DEF Mappable, Mapped
  <2>3. /\ i = [name |-> i.name, def |-> i.def, mode |-> i.mode, signals |-> i.signals,
                clock |-> i.clock, reset |-> i.reset, size |-> i.size]
        /\ i.def = g.def /\ i.mode = g.mode /\ i.signals = g.signals
    BY Zenon DEF Interface
  <2> HIDE DEF i, g
  <2>4. /\ g.def \in DOMAIN Definitions /\ g.signals = [s \in DOMAIN g.signals |-> g.signals[s]]
        /\ \A s \in DOMAIN g.signals : Part(m, g.signals[s])
        /\ DOMAIN g.signals \subseteq {x.name : x \in ToSet(Definitions[g.def])}
    BY <2>2 DEF Sound
  <2>5. ASSUME NEW s \in DOMAIN g.signals
        PROVE  IsPart(m.ports, g.signals[s], SignalDir(SignalOf(g.def, s), g.mode))
    <3> DEFINE sig == SignalOf(g.def, s)
               sel == g.signals[s]
    <3>1. \E x \in ToSet(Definitions[g.def]) : x.name = s
      BY <2>4
    <3>2. sig \in ToSet(Definitions[g.def]) /\ sig.name = s
      BY <3>1 DEF SignalOf
    <3> HIDE DEF sig
    <3>3. Referenced(sel, m.ports, SignalDir(sig, g.mode))
      BY <2>2, <3>2 DEF Fits
    <3>4. PICK p \in Free(m) :
             /\ sel = Sel(p.name, sel.ops)
             /\ \/ sel.ops = <<>>
                \/ \E path : sel.ops = <<Field(path)>>
                \/ \E path, j : sel.ops = <<Slice(j, j), Field(path)>>
      BY <2>4 DEF Part
    <3> HIDE DEF sel
    <3>5. sel.port = p.name /\ sel = Sel(sel.port, sel.ops)
      BY <3>4 DEF Sel
    <3>6. sel.ops = <<>> \/ NeedsPath(sel)
      <4>1. \A path : Field(path).kind # "slice"
        BY DEF Field
      <4>2. ASSUME NEW path, sel.ops = <<Field(path)>> PROVE NeedsPath(sel)
        BY <4>1, <4>2 DEF NeedsPath
      <4>3. ASSUME NEW path, NEW j, sel.ops = <<Slice(j, j), Field(path)>> PROVE NeedsPath(sel)
        BY <4>3 DEF NeedsPath
      <4> QED BY <3>4, <4>2, <4>3
    <3> QED BY <3>3, <3>5, <3>6 DEF IsPart, Referenced, sig, sel
  <2> QED BY <2>3, <2>4, <2>5 DEF IsInterface, i
<1>7. ASSUME NEW i \in ToSet(intfs) PROVE IsInterface(m.ports, i)
  <2>1. i \in ToSet(m.intfs) \cup BuiltOf(m, mapping)
    BY <1>4, Members
  <2>2. CASE i \in ToSet(m.intfs)
    BY <2>2 DEF IsCore
  <2>3. CASE i \in BuiltOf(m, mapping)
    BY <1>6, <2>3 DEF BuiltOf
  <2> QED BY <2>1, <2>2, <2>3
<1> HIDE DEF intfs
<1>8. IsCore(mod)
  BY <1>3, <1>5, <1>7 DEF IsCore
<1> QED BY <1>8 DEF mod

LEMMA ParsedCore ==
    ASSUME NEW m, IsModule(m), IsCore(m), NEW hints, HintsApart => Apart(m, hints),
           NEW defs \in Seq(DOMAIN Definitions), ParseModule(m, defs, hints) # NoModule
    PROVE  IsCore(ParseModule(m, defs, hints))
<1> DEFINE mapping == Infer(m, defs, hints)
<1>1. Mappable(m, mapping) /\ ParseModule(m, defs, hints) = MapInterfaces(m, mapping)
  BY DEF ParseModule, WithMapping
<1>2. Mapped(m, mapping)
  BY InferMapped
<1> QED BY <1>1, <1>2, MapCore

(***************************************************************************)
(* Files and modules in memory.                                            *)
(***************************************************************************)
AskedCores == \A m \in proc.asked : IsCore(m)
WrittenCores ==
    \A p \in Paths, c \in CoreNames :
        LET file == disk[p].cores[c]
        IN  /\ file.state = "written" => IsWritten(file.desc, given[p][c])
            /\ file.state # "written" => file \in {NoFile, Broken}
NowWritten ==
    proc.at.kind = "core" =>
        IsWritten(proc.at.desc, IF proc.at.name \in proc.stored THEN given[proc.path][proc.at.name]
                                                                 ELSE Head(proc.new))
CInv == AskedCores /\ WrittenCores /\ NowWritten

\* A step that changes no core.
LEMMA CoresAlone ==
    ASSUME CInv, \A p \in Paths : disk'[p].cores = disk[p].cores, given' = given,
           proc'.asked = proc.asked \/ proc'.asked = {}, proc'.at.kind # "core"
    PROVE  CInv'
BY DEF CInv, AskedCores, WrittenCores, NowWritten

LEMMA StartParseCores ==
    ASSUME IInv, CInv, NEW name \in RepoNames, NEW req \in Requests, NEW strategy \in Strategies,
           StartParse(name, req, strategy)
    PROVE  CInv'
<1> DEFINE mods == ParsedModules(req)
           defs == CandidateDefs(req)
           M == {ParseModule(m, defs, req.hints) : m \in ToSet(req.modules)}
<1>1. /\ proc'.asked = ToSet(mods) /\ NoModule \notin ToSet(mods) /\ proc'.at = Nothing
      /\ disk' = disk /\ given' = given
  BY DEF StartParse, StartWith, Idle
<1>2. ToSet(mods) \subseteq M
  <2>1. mods \in Seq(M)
    BY ParsedFrom
  <2> HIDE DEF mods, M
  <2> QED BY <2>1, Members
<1> HIDE DEF mods
<1>3. ASSUME NEW x \in ToSet(mods) PROVE IsCore(x)
  <2>1. PICK m \in ToSet(req.modules) : x = ParseModule(m, defs, req.hints)
    BY <1>2
  <2>2. IsModule(m) /\ IsCore(m)
    BY Modules
  <2>3. HintsApart => Apart(m, req.hints)
    BY DEF HintsApart, Apart
  <2>4. defs \in Seq(DOMAIN Definitions)
    BY DefsType
  <2> QED BY <1>1, <2>1, <2>2, <2>3, <2>4, ParsedCore
<1>4. proc'.at.kind # "core"
  BY <1>1, IdleIs
<1> QED BY <1>1, <1>3, <1>4 DEF CInv, AskedCores, WrittenCores, NowWritten

\* What a core is that is to be written.
LEMMA TopCore ==
    ASSUME IInv, CInv, proc.cmd = "parse", NEW c \in CoreNames, Next1(c)
    PROVE  /\ c \in proc.stored =>
                 /\ Top(c) # NoModule <=>
                       /\ CoreFile(c).state = "written"
                       /\ Survives(given[proc.path][c], proc.known, proc.compliance)
                 /\ Top(c) # NoModule =>
                       /\ Representable(Top(c))
                       /\ \A e : IsWritten(Represent(Top(c), e), given[proc.path][c])
           /\ c \notin proc.stored =>
                 /\ proc.stored = {} /\ Top(c) = Head(proc.new) /\ IsCore(Top(c)) /\ Top(c) # NoModule
                 /\ Representable(Top(c)) => \A e : IsWritten(Represent(Top(c), e), Head(proc.new))
<1> DEFINE desc == CoreFile(c).desc
           g == given[proc.path][c]
           reads == Readable(desc, proc.known, proc.compliance)
<1>1. proc.path \in Paths /\ proc.new \in Seq(proc.asked)
  BY RunningParse
<1>2. NoModule.name = Unsaid
  BY Zenon DEF NoModule, Module, Unsaid
<1>3. CASE c \in proc.stored
  <2>1. Top(c) = IF CoreFile(c).state = "written" /\ reads THEN Parse(desc) ELSE NoModule
    BY <1>3 DEF Top
  <2>2. CoreFile(c).state = "written" => IsWritten(desc, g)
    BY <1>1 DEF CInv, WrittenCores, CoreFile
  <2> HIDE DEF desc, g
  <2>3. ASSUME CoreFile(c).state = "written"
        PROVE  /\ reads <=> Survives(g, proc.known, proc.compliance)
               /\ reads => /\ Representable(Parse(desc)) /\ Parse(desc) # NoModule
                           /\ \A e : IsWritten(Represent(Parse(desc), e), g)
    <3>1. reads <=> Survives(g, proc.known, proc.compliance)
      BY <2>2, <2>3, WrittenReads
    <3>2. ASSUME reads, NEW e
          PROVE  /\ Representable(Parse(desc)) /\ IsWritten(Represent(Parse(desc), e), g)
                 /\ Parse(desc).name # Unsaid
      <4>1. Parse(desc).name = desc.name /\ desc.name # Unsaid
        BY <2>2, <2>3, <3>2, WrittenAgain
      <4> QED BY <2>2, <2>3, <3>2, <4>1, WrittenAgain
    <3> QED BY <1>2, <3>1, <3>2
  <2> HIDE DEF reads
  <2> QED BY <1>3, <2>1, <2>3 DEF g
<1>4. CASE c \notin proc.stored
  <2>1. proc.stored = {} /\ proc.new # <<>> /\ Top(c) = Head(proc.new)
    BY <1>4 DEF Next1, Top
  <2>2. Head(proc.new) \in proc.asked
    BY <1>1, <2>1
  <2>3. IsCore(Top(c))
    BY <2>1, <2>2 DEF CInv, AskedCores
  <2>4. Top(c) # NoModule
    BY <1>2, <2>3 DEF IsCore
  <2>5. Representable(Top(c)) => \A e : IsWritten(Represent(Top(c), e), Top(c))
    BY <2>3 DEF IsWritten, Alike
  <2> QED BY <1>4, <2>1, <2>3, <2>4, <2>5
<1> QED BY <1>3, <1>4

LEMMA OpenCoreCores ==
    ASSUME IInv, CInv, NEW c \in CoreNames, OpenCore(c)
    PROVE  CInv'
<1> DEFINE at == [kind |-> "core", name |-> c, desc |-> Represent(Top(c), ExistingOf(c))]
           g == IF c \in proc.stored THEN given[proc.path][c] ELSE Head(proc.new)
<1>1. /\ proc.cmd = "parse" /\ Next1(c) /\ Top(c) # NoModule /\ Representable(Top(c))
      /\ disk' = WithCore(disk, proc.path, c, Broken)
      /\ proc' = [proc EXCEPT !.at = at] /\ given' = given
  BY DEF OpenCore, Running, SetCore, WithCore
<1>2. IsWritten(Represent(Top(c), ExistingOf(c)), g)
  BY <1>1, TopCore
<1>3. at.name = c /\ IsWritten(at.desc, g)
  BY <1>2
<1> HIDE DEF at
<1>4. /\ proc'.at = at /\ proc'.asked = proc.asked /\ proc'.stored = proc.stored
      /\ proc'.path = proc.path /\ proc'.new = proc.new
  BY <1>1 DEF IInv, Shapes, IsProc
<1>5. NowWritten'
  BY <1>1, <1>3, <1>4 DEF NowWritten
<1>6. /\ disk'[proc.path].cores[c] = Broken
      /\ \A p \in Paths, e \in CoreNames :
            p # proc.path \/ e # c => disk'[p].cores[e] = disk[p].cores[e]
  <2>1. IsDisk(disk) /\ proc.path \in Paths
    BY <1>1, RunningParse
  <2> QED BY <1>1, <2>1, SetCoreIs
<1>7. WrittenCores'
  BY <1>1, <1>6, States DEF CInv, WrittenCores
<1>8. AskedCores'
  BY <1>4 DEF CInv, AskedCores
<1> QED BY <1>5, <1>7, <1>8 DEF CInv

LEMMA FailCoreCores ==
    ASSUME IInv, CInv, NEW c \in CoreNames, FailCore(c)
    PROVE  CInv'
<1> DEFINE file == IF CoreFile(c) = NoFile THEN Broken ELSE CoreFile(c)
<1>1. /\ proc.cmd = "parse" /\ proc' = Idle /\ given' = given
      /\ disk' = WithCore(disk, proc.path, c, file)
  BY DEF FailCore, Running, SetCore, WithCore
<1>2. file = Broken \/ file = disk[proc.path].cores[c]
  BY DEF CoreFile
<1> HIDE DEF file
<1>3. /\ disk'[proc.path].cores[c] = file
      /\ \A p \in Paths, e \in CoreNames :
            p # proc.path \/ e # c => disk'[p].cores[e] = disk[p].cores[e]
  <2>1. IsDisk(disk) /\ proc.path \in Paths
    BY <1>1, RunningParse
  <2> QED BY <1>1, <2>1, SetCoreIs
<1>4. WrittenCores'
  BY <1>1, <1>2, <1>3, States DEF CInv, WrittenCores
<1>5. proc'.asked = {} /\ proc'.at.kind # "core"
  BY <1>1, IdleIs DEF Idle
<1> QED BY <1>4, <1>5 DEF CInv, AskedCores, NowWritten

LEMMA WriteCoreCores ==
    ASSUME IInv, CInv, WriteCore
    PROVE  CInv'
<1> DEFINE c == proc.at.name
           path == proc.path
           head == Head(proc.new)
           file == File("written", proc.at.desc)
           g == IF c \in proc.stored THEN given[path][c] ELSE head
<1>1. /\ disk' = WithCore(disk, path, c, file)
      /\ given' = IF c \in proc.stored THEN given ELSE [given EXCEPT ![path][c] = head]
      /\ proc' = [proc EXCEPT !.at = Nothing, !.stored = @ \ {c},
                              !.new = IF c \in proc.stored THEN @ ELSE Tail(@)]
      /\ proc.at.kind = "core"
  BY DEF WriteCore, SetCore, WithCore
<1>2. proc.cmd = "parse" /\ c \in CoreNames
  BY <1>1 DEF IInv, Writing
<1>3. IsDisk(disk) /\ path \in Paths
  BY <1>2, RunningParse
<1>4. given = [p \in Paths |-> [e \in CoreNames |-> given[p][e]]]
  BY DEF IInv, Shapes
<1>5. file.state = "written" /\ file.desc = proc.at.desc /\ IsWritten(file.desc, g)
  BY <1>1 DEF File, CInv, NowWritten
<1>6. proc'.asked = proc.asked /\ proc'.at.kind # "core"
  <2>1. proc'.asked = proc.asked /\ proc'.at = Nothing
    <3>1. IsProc(proc)
      BY DEF IInv, Shapes
    <3> QED BY <1>1, <3>1 DEF IsProc
  <2> QED BY <2>1, IdleIs
<1> HIDE DEF c, path, head, file
<1>7. /\ disk'[path].cores[c] = file
      /\ \A p \in Paths, e \in CoreNames : p # path \/ e # c => disk'[p].cores[e] = disk[p].cores[e]
  BY <1>1, <1>2, <1>3, SetCoreIs
<1>8. /\ given'[path][c] = g
      /\ \A p \in Paths, e \in CoreNames : p # path \/ e # c => given'[p][e] = given[p][e]
  <2>1. CASE c \in proc.stored
    BY <1>1, <2>1
  <2>2. CASE c \notin proc.stored
    <3>1. given' = [given EXCEPT ![path][c] = head]
      BY <1>1, <2>2
    <3>2. DOMAIN given = Paths /\ \A p \in Paths : DOMAIN given[p] = CoreNames
      BY <1>4
    <3>3. given'[path] = [given[path] EXCEPT ![c] = head] /\ \A p \in Paths \ {path} : given'[p] = given[p]
      BY <1>3, <3>1, <3>2
    <3> QED BY <1>2, <1>3, <2>2, <3>2, <3>3
  <2> QED BY <2>1, <2>2
<1> HIDE DEF g
<1>9. WrittenCores'
  BY <1>5, <1>7, <1>8 DEF CInv, WrittenCores
<1> QED BY <1>6, <1>9 DEF CInv, AskedCores, NowWritten

LEMMA CoresStep == IInv /\ CInv /\ [Next]_vars => CInv'
<1> SUFFICES ASSUME IInv, CInv, [Next]_vars PROVE CInv'
  OBVIOUS
<1>0. Idle.asked = {} /\ Idle.at.kind # "core"
  BY IdleIs DEF Idle
<1>1. ASSUME NEW n \in RepoNames, NEW r \in Requests, NEW s \in Strategies, StartParse(n, r, s)
      PROVE  CInv'
  BY <1>1, StartParseCores
<1>2. ASSUME NEW c \in CoreNames, OpenCore(c) PROVE CInv'
  BY <1>2, OpenCoreCores
<1>3. ASSUME NEW c \in CoreNames, FailCore(c) PROVE CInv'
  BY <1>3, FailCoreCores
<1>4. CASE WriteCore
  BY <1>4, WriteCoreCores
<1>5. ASSUME NEW d \in DOMAIN Definitions, OpenDef(d) PROVE CInv'
  <2> DEFINE at == [kind |-> "def", name |-> d, desc |-> NoDesc]
  <2>1. /\ proc.cmd = "parse" /\ disk' = WithDef(disk, proc.path, d, "empty")
        /\ proc' = [proc EXCEPT !.at = at] /\ given' = given
    BY <1>5 DEF OpenDef, Running, WithDef
  <2>2. \A p \in Paths : disk'[p].cores = disk[p].cores
    BY <2>1, RunningParse, DefChanges
  <2>3. at.kind # "core"
    OBVIOUS
  <2> HIDE DEF at
  <2>4. proc'.asked = proc.asked /\ proc'.at = at
    BY <2>1 DEF IInv, Shapes, IsProc
  <2> QED BY <2>1, <2>2, <2>3, <2>4, CoresAlone
<1>6. CASE WriteDef
  <2>1. /\ proc.cmd = "parse" /\ proc.at.name \in DOMAIN Definitions
        /\ disk' = WithDef(disk, proc.path, proc.at.name, "written")
        /\ proc' = [proc EXCEPT !.at = Nothing, !.defs = @ \ {proc.at.name}] /\ given' = given
    BY <1>6 DEF WriteDef, WithDef, IInv, Writing
  <2>2. \A p \in Paths : disk'[p].cores = disk[p].cores
    BY <2>1, RunningParse, DefChanges
  <2>3. proc'.asked = proc.asked /\ proc'.at = Nothing
    <3>1. IsProc(proc)
      BY DEF IInv, Shapes
    <3> QED BY <2>1, <3>1 DEF IsProc
  <2> QED BY <2>1, <2>2, <2>3, IdleIs, CoresAlone
<1>7. CASE EndParse
  BY <1>0, <1>7, CoresAlone DEF EndParse
<1>8. ASSUME NEW n \in RepoNames, NEW p \in Paths, StartInit(n, p) PROVE CInv'
  <2>1. UNCHANGED <<disk, given>> /\ proc'.asked = {} /\ proc'.at = Nothing
    BY <1>8 DEF StartInit, Idle
  <2> QED BY <2>1, IdleIs, CoresAlone
<1>9. CASE WriteInit
  BY <1>0, <1>9, CoresAlone DEF WriteInit
<1>10. CASE Kill
  BY <1>0, <1>10, CoresAlone DEF Kill
<1>11. CASE UNCHANGED vars
  BY <1>11 DEF vars, CInv, AskedCores, WrittenCores, NowWritten
<1> QED BY <1>1, <1>2, <1>3, <1>4, <1>5, <1>6, <1>7, <1>8, <1>9, <1>10, <1>11 DEF Next

LEMMA InitCores == Init => CInv
<1> SUFFICES ASSUME Init PROVE CInv
  OBVIOUS
<1>1. proc.asked = {} /\ proc.at.kind # "core"
  BY IdleIs DEF Init, Idle
<1>2. \A p \in Paths, c \in CoreNames : disk[p].cores[c] = NoFile
  <2> DEFINE cores == [c \in CoreNames |-> NoFile]
  <2>1. \A c \in CoreNames : cores[c] = NoFile
    OBVIOUS
  <2> HIDE DEF cores
  <2>2. \A p \in Paths : disk[p].cores = cores
    BY DEF Init, cores
  <2> QED BY <2>1, <2>2
<1>3. WrittenCores
  BY <1>2, States DEF WrittenCores
<1> QED BY <1>1, <1>3 DEF CInv, AskedCores, NowWritten

\* However often a core has been written, over whatever runs of the program and wherever
\* they were killed, its file reads as the module it was parsed from but for what files do
\* not keep, and cannot be read exactly where that module does not survive
\* (Core.top, IpCoreDescriptionBackend, IPCoreDescriptionFrontend).
THEOREM CoresAreRead == Spec => []CoreIsRead
<1>1. CInv => CoreIsRead
  <2> SUFFICES ASSUME CInv, NEW p \in Paths, NEW c \in CoreNames, disk[p].cores[c].state = "written"
               PROVE  LET desc == disk[p].cores[c].desc
                          mod == given[p][c]
                          reads == Readable(desc, ToSet(KnownDefs), CurrentConfig.compliance)
                      IN  /\ reads <=> Survives(mod, ToSet(KnownDefs), CurrentConfig.compliance)
                          /\ reads => [Parse(desc) EXCEPT !.ports = ToSet(@)] = Kept(mod)
    BY Zenon DEF CoreIsRead
  <2>1. IsWritten(disk[p].cores[c].desc, given[p][c])
    BY DEF CInv, WrittenCores
  <2> QED BY <2>1, WrittenReads
<1> QED BY <1>1, InitCores, CoresStep, Invariance, PTL DEF Spec

(***************************************************************************)
(* What stops a parse.                                                     *)
(***************************************************************************)
\* Of a core that cannot be written some port has several dimensions.
LEMMA Unwritable ==
    ASSUME NEW m, IsCore(m), ~Representable(m)
    PROVE  \E p \in ToSet(m.ports) : Len(p.type.dims) > 1
<1>1. ASSUME NEW p \in ToSet(m.ports), NEW slice, slice = <<>> \/ p.type.kind = "bits",
             ~Writable(p, slice)
      PROVE  Len(p.type.dims) > 1
  <2> DEFINE d == p.type.dims
  <2>1. p.type.kind = "bits"
    BY <1>1 DEF Writable
  <2>2. Len(d) # 1
    BY <1>1, <2>1 DEF Writable
  <2>3. Bit.kind = "bit"
    BY DEF Bit, Type
  <2>4. d \in Seq(Int \X Int) /\ d # <<>>
    BY <2>1, <2>3 DEF IsCore, IsPort, IsType, IsStruct
  <2> HIDE DEF d
  <2>5. Len(d) > 1
    <3>1. Len(d) \in Nat /\ DOMAIN d = 1..Len(d)
      BY <2>4
    <3>2. Len(d) # 0
      BY <2>4, EmptySeq
    <3> QED BY <2>2, <3>1, <3>2
  <2> QED BY <2>5 DEF d
<1>2. CASE \E p \in NeededPorts(m) : ~Writable(p, <<>>)
  <2>1. NeededPorts(m) \subseteq ToSet(m.ports)
    BY CoreIs
  <2> QED BY <1>1, <1>2, <2>1
<1>3. ASSUME NEW i \in ToSet(m.intfs), NEW s \in DOMAIN i.signals,
             i.signals[s] # NoPort, ~NeedsPath(i.signals[s]),
             ~Writable(Find(m.ports, i.signals[s].port), SliceOf(i.signals[s]))
      PROVE  \E p \in ToSet(m.ports) : Len(p.type.dims) > 1
  <2> DEFINE sel == i.signals[s]
             p == Find(m.ports, sel.port)
  <2>1. IsPart(m.ports, sel, SignalDir(SignalOf(i.def, s), i.mode))
    BY <1>3 DEF IsCore, IsInterface
  <2>2. Named(m.ports, sel.port) # {} /\ (sel.ops = <<>> \/ p.type.kind = "bits")
    BY <1>3, <2>1 DEF IsPart
  <2>3. p \in ToSet(m.ports)
    BY <2>2, CoreIs, FindIn
  <2>4. SliceOf(sel) = <<>> \/ p.type.kind = "bits"
    BY <2>2 DEF SliceOf
  <2>5. ~Writable(p, SliceOf(sel))
    BY <1>3
  <2> HIDE DEF p, sel
  <2> QED BY <1>1, <2>3, <2>4, <2>5
<1> QED BY <1>2, <1>3 DEF Representable

LEMMA FailCoreStops ==
    ASSUME IInv, CInv, NEW c \in CoreNames, FailCore(c)
    PROVE  StopsForAReason
<1> DEFINE file == IF CoreFile(c) = NoFile THEN Broken ELSE CoreFile(c)
           path == proc.path
<1>1. /\ proc.cmd = "parse" /\ Next1(c) /\ (Top(c) = NoModule \/ ~Representable(Top(c)))
      /\ disk' = WithCore(disk, path, c, file)
  BY DEF FailCore, Running, SetCore, WithCore
<1>2. CASE c \in proc.stored
  <2>1. \/ CoreFile(c).state # "written"
        \/ ~Survives(given[path][c], proc.known, proc.compliance)
    BY <1>1, <1>2, TopCore
  <2>2. IsDisk(disk) /\ path \in Paths
    BY <1>1, RunningParse
  <2>3. CoreFile(c).state # "written" => file = Broken
    BY <2>2 DEF CInv, WrittenCores, CoreFile
  <2> HIDE DEF file
  <2>4. disk'[path].cores[c] = file
    BY <1>1, <2>2, SetCoreIs
  <2> QED BY <1>2, <2>1, <2>3, <2>4 DEF StopsForAReason
<1>3. CASE c \notin proc.stored
  <2>1. ~Representable(Top(c)) /\ Top(c) = Head(proc.new) /\ IsCore(Top(c))
    BY <1>1, <1>3, TopCore
  <2>2. \E p \in ToSet(Head(proc.new).ports) : Len(p.type.dims) > 1
    BY <2>1, Unwritable
  <2> QED BY <2>2 DEF StopsForAReason
<1> QED BY <1>2, <1>3

KillsCount == kills \in Nat

LEMMA CountKills == KillsCount /\ [Next]_vars => KillsCount'
<1> SUFFICES ASSUME KillsCount, [Next]_vars PROVE kills' = kills \/ kills' = kills + 1
  BY DEF KillsCount
<1> QED BY DEF Next, vars, StartParse, StartWith, OpenCore, FailCore, WriteCore, OpenDef, WriteDef,
           EndParse, StartInit, WriteInit, Kill

LEMMA Stops == IInv /\ CInv /\ KillsCount /\ [Next]_vars => StopsForAReason
<1> SUFFICES ASSUME IInv, CInv, KillsCount, [Next]_vars,
                    proc.cmd = "parse", Left, proc' = Idle, kills' = kills
             PROVE  StopsForAReason
  BY DEF StopsForAReason
<1>1. Idle.cmd = "idle" /\ IsProc(proc)
  BY IdleIs DEF IInv, Shapes
<1>2. proc'.cmd # "parse" /\ proc # Idle
  BY <1>1
<1>3. \A n \in RepoNames, r \in Requests, s \in Strategies : ~StartParse(n, r, s)
  BY <1>2 DEF StartParse, StartWith, CanStart
<1>4. ASSUME NEW c \in CoreNames, OpenCore(c) PROVE FALSE
  <2>1. proc'.cmd = proc.cmd
    BY <1>1, <1>4 DEF OpenCore, IsProc
  <2> QED BY <1>2, <2>1
<1>5. ~WriteCore
  <2>1. WriteCore => proc'.cmd = proc.cmd
    BY <1>1 DEF WriteCore, IsProc
  <2> QED BY <1>2, <2>1
<1>6. ASSUME NEW d \in DOMAIN Definitions, OpenDef(d) PROVE FALSE
  <2>1. proc'.cmd = proc.cmd
    BY <1>1, <1>6 DEF OpenDef, IsProc
  <2> QED BY <1>2, <2>1
<1>7. ~WriteDef
  <2>1. WriteDef => proc'.cmd = proc.cmd
    BY <1>1 DEF WriteDef, IsProc
  <2> QED BY <1>2, <2>1
<1>8. ~EndParse
  BY DEF EndParse, Left
<1>9. \A n \in RepoNames, p \in Paths : ~StartInit(n, p)
  BY <1>2 DEF StartInit, CanStart
<1>10. ~WriteInit
  BY DEF WriteInit, Running
<1>11. ~Kill
  BY DEF Kill, KillsCount
<1>12. ~UNCHANGED vars
  BY <1>2 DEF vars
<1> QED BY <1>3, <1>4, <1>5, <1>6, <1>7, <1>8, <1>9, <1>10, <1>11, <1>12, FailCoreStops DEF Next

\* Whatever a command comes across and wherever it is killed, it changes no core and no
\* repository that it was not asked for, and a configuration that an init completes loses no
\* name.  A parse leaves at most one more core broken, and stops before its end only at a core
\* that is broken, that does not survive being written or that no file can say (parse_repo,
\* Repo.save, init_repo).
THEOREM CommandsKeep == Spec => RepositoryKeeps
<1>1. IInv /\ CInv /\ KillsCount /\ [Next]_vars
         => [CoresStay /\ FilesStay /\ StopsForAReason /\ NamesStay]_vars
  BY Keeps, Stops
<1>2. Init => KillsCount
  BY DEF Init, KillsCount
<1> QED BY <1>1, <1>2, CountKills, InitCores, CoresStep, Invariance, PTL DEF Spec, RepositoryKeeps
=============================================================================
