-------------------------- MODULE ObjectPool --------------------------
(***************************************************************************)
(* What an arena promises its user: objects that share no memory, and      *)
(* when the arena is destroyed, one call of the destructor of each object  *)
(* that has one, before the destruction returns.                           *)
(***************************************************************************)
EXTENDS Integers, Sequences

CONSTANT Sizes      \* the sizes of the objects

VARIABLES
  objects,    \* what was created: [seg, data, size, dtor]
  destroyed,  \* the places that destructors were called on, in order
  phase
vars == <<objects, destroyed, phase>>

\* Memory comes in blocks, seg; data is where the object's bytes begin in it.
Place(o) == <<o.seg, o.data>>

Apart(o, p) == \/ o.seg # p.seg
               \/ o.data + o.size <= p.data
               \/ p.data + p.size <= o.data

Init == objects = {} /\ destroyed = << >> /\ phase = "alive"

\* Anywhere that is free.
Create ==
  /\ phase = "alive"
  /\ \E o \in objects' \ objects :
       /\ o \in [seg : Nat, data : Nat, size : Sizes, dtor : BOOLEAN]
       /\ \A p \in objects : Place(p) # Place(o) /\ Apart(o, p)
       /\ objects' = objects \cup {o}
  /\ UNCHANGED <<destroyed, phase>>

Close == /\ phase = "alive" /\ phase' = "destroying"
         /\ UNCHANGED <<objects, destroyed>>

Destroy ==
  /\ phase = "destroying"
  /\ \E o \in objects :
       /\ o.dtor
       /\ \A i \in DOMAIN destroyed : destroyed[i] # Place(o)
       /\ destroyed' = Append(destroyed, Place(o))
  /\ UNCHANGED <<objects, phase>>

Return ==
  /\ phase = "destroying" /\ phase' = "gone"
  /\ \A o \in objects : o.dtor => \E i \in DOMAIN destroyed : destroyed[i] = Place(o)
  /\ UNCHANGED <<objects, destroyed>>

Next == Create \/ Close \/ Destroy \/ Return
Spec == Init /\ [][Next]_vars

=============================================================================
