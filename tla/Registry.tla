------------------------------ MODULE Registry ------------------------------
(***************************************************************************)
(* The registry of profiles (service.c, createRegistry): a service whose   *)
(* content has the keys extend and level inherits from a profile.  ends is *)
(* FALSE when the process never comes back from it.                        *)
(***************************************************************************)
EXTENDS Elements

Levels == <<"concept", "generic", "implementation">>

\* Between two maps that have content the loop moves the wrong pointer: it follows
\* NULL when the first key of in is missing, and never ends when it is there.
InheritMapEnds(out, in) == out = Null \/ in = Null
InheritMap(out, in)     == IF out = Null THEN in ELSE out

\* The formats beyond those that are there.
InheritIOType(out, in) == out \o SubSeq(in, Len(out) + 1, Len(in))

AddMapToIoType(list, m) == Append(list, m)

InheritElement(e, from) ==
  [ e EXCEPT !.content   = InheritMap(@, from.content),
             !.metadata  = InheritMap(@, from.metadata),
             !.format    = IF @ = "" THEN from.format ELSE @,
             !.defaults  = InheritIOType(@, from.defaults),
             !.supported = IF @ = <<>> THEN InheritIOType(@, from.supported)
                           ELSE FoldLeft(AddMapToIoType, @, from.supported) ]

\* A missing element is added with all that follow it, which are then found.
InheritElements(acc, in) ==
  LET inherit(a, i) ==
        LET e == in[i]
            j == GetElements(a.list, e.name)
        IN  CASE a.list = <<>> -> a
              [] a.list # <<>> /\ j = 0 ->
                   [a EXCEPT !.list = @ \o DupElements(SubSeq(in, i, Len(in)))]
              [] OTHER ->
                   [ ends |-> /\ a.ends
                              /\ InheritMapEnds(a.list[j].content, e.content)
                              /\ InheritMapEnds(a.list[j].metadata, e.metadata),
                     list |-> [a.list EXCEPT ![j] = InheritElement(@, e)] ]
  IN  FoldLeft(inherit, acc, [i \in DOMAIN in |-> i])

InheritSide(list, in) ==
  IF list = <<>> THEN [ends |-> TRUE, list |-> DupElements(in)]
  ELSE InheritElements([ends |-> TRUE, list |-> list], in)

-----------------------------------------------------------------------------
\* A registry is a sequence of levels, NULL when it is empty.
GetServiceFromRegistry(registry, level, name) ==
  LET l == SelectInSeq(registry, LAMBDA r : r.name = level)
      s == IF l = 0 THEN 0
           ELSE SelectInSeq(registry[l].services, LAMBDA c : c.name = name)
  IN  IF s = 0 THEN <<>> ELSE <<registry[l].services[s]>>

\* The levels after the one that is found are cut off.
AddServiceToRegistry(registry, level, s) ==
  LET l == SelectInSeq(registry, LAMBDA r : r.name = level)
  IN  IF l = 0 THEN Append(registry, [name |-> level, services |-> <<DupService(s)>>])
      ELSE Append(SubSeq(registry, 1, l - 1),
                  [registry[l] EXCEPT !.services = Append(@, DupService(s))])

\* A profile that is not in the registry is followed all the same.
Inheritance(registry, s) ==
  LET level  == IF s.content["level"] = "profile" THEN "generic" ELSE s.content["level"]
      parent == GetServiceFromRegistry(registry, level, s.content["extend"])
      p      == parent[1]
      in     == InheritSide(s.inputs, p.inputs)
      out    == InheritSide(s.outputs, p.outputs)
  IN  CASE registry = <<>> \/ ~{"extend", "level"} \subseteq DOMAIN s.content ->
             [ends |-> TRUE, service |-> s]
        [] registry # <<>> /\ {"extend", "level"} \subseteq DOMAIN s.content /\ parent = <<>> ->
             [ends |-> FALSE, service |-> s]
        [] OTHER ->
             [ ends |-> /\ InheritMapEnds(s.content, p.content)
                        /\ InheritMapEnds(s.metadata, p.metadata)
                        /\ in.ends /\ out.ends,
               service |-> [ s EXCEPT !.content  = InheritMap(@, p.content),
                                      !.metadata = InheritMap(@, p.metadata),
                                      !.inputs   = in.list,
                                      !.outputs  = out.list ] ]

\* The directories of the three levels, in order; an implementation inherits at once.
\* profiles is a function from levels to sequences of services.
CreateRegistry(profiles) ==
  LET entries == FlattenSeq([i \in DOMAIN Levels |->
                   [j \in DOMAIN profiles[Levels[i]] |-> <<Levels[i], profiles[Levels[i]][j]>>]])
      add(acc, e) ==
        LET s == IF e[1] = "implementation" THEN Inheritance(acc.registry, e[2])
                 ELSE [ends |-> TRUE, service |-> e[2]]
        IN  [ ends     |-> acc.ends /\ s.ends,
              registry |-> AddServiceToRegistry(acc.registry, e[1], s.service) ]
  IN  FoldLeft(add, [ends |-> TRUE, registry |-> <<>>], entries)
=============================================================================
