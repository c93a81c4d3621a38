------------------------------ MODULE Elements ------------------------------
(***************************************************************************)
(* The description of a service in memory (service.h, service.c).  A map   *)
(* is a function from keys to values, <<>> when its pointer is NULL; a     *)
(* list of elements or of formats is a sequence, and a name that is NULL   *)
(* is "".  The order of the keys of a map is left out.                     *)
(***************************************************************************)
EXTENDS Integers, Sequences, FiniteSets, SequencesExt

Null == <<>>

HasKey(m, k) == k \in DOMAIN m

\* The value of a key, or another one.
Get(m, k, other) == IF HasKey(m, k) THEN m[k] ELSE other

\* An existing key gets the new value; nothing is added to NULL.
AddToMap(m, k, v) == IF m = Null THEN Null ELSE (k :> v) @@ m

AddMapToMap(out, in) == in @@ out

MergeMaps(maps) == FoldLeft(AddMapToMap, Null, maps)

\* The i-th value of a key, counted from 0, and how many there are.
ArrayKey(k, i) == IF i = 0 THEN k ELSE k \o "_" \o ToString(i)
SetMapArray(m, k, i, v) ==
  ArrayKey(k, i) :> v @@ "length" :> ToString(i + 1) @@ "isArray" :> "true" @@ m

\* The members of a finite set of numbers, the smallest first.
Ascending(S) ==
  [n \in 1 .. Cardinality(S) |-> CHOOSE x \in S : Cardinality({y \in S : y <= x}) = n]

\* The items of a list at some of its places, in their order.
ItemsAt(list, places) ==
  LET place == Ascending(places) IN [n \in 1 .. Cardinality(places) |-> list[place[n]]]

-----------------------------------------------------------------------------
CreateElements(name) ==
  [ name |-> name, content |-> Null, metadata |-> Null, additional |-> Null,
    format |-> "", defaults |-> <<>>, supported |-> <<>> ]

CreateEmptyElements == CreateElements("")

\* Everything but the additional parameters is reset.
SetElementsName(e, name) == [CreateElements(name) EXCEPT !.additional = e.additional]

\* One default; no supported format when the first has no content.
DupElement(e) ==
  [ e EXCEPT !.defaults  = SubSeq(@, 1, IF @ = <<>> THEN 0 ELSE 1),
             !.supported = IF @ = <<>> \/ @[1] = Null THEN <<>> ELSE @ ]

\* An element without a name is not copied.
AddToElements(list, e) == IF e.name = "" THEN list ELSE Append(list, DupElement(e))

DupElements(list) == FoldLeft(AddToElements, <<>>, list)

HasElement(list, name) == \E i \in DOMAIN list : list[i].name = name

GetElements(list, name) == SelectInSeq(list, LAMBDA e : e.name = name)

-----------------------------------------------------------------------------
CreateService ==
  [ name |-> "", content |-> Null, metadata |-> Null, additional |-> Null,
    inputs |-> <<>>, outputs |-> <<>> ]

SetServiceName(s, name) ==
  [CreateService EXCEPT !.name = name, !.additional = s.additional]

DupService(s) ==
  [s EXCEPT !.inputs = DupElements(@), !.outputs = DupElements(@)]

=============================================================================
