------------------------- MODULE EntityHooksProofs -------------------------
(***************************************************************************)
(* What TLAPS proves of EntityHooks, for any number of slots, generations, *)
(* addresses, guids and objects.                                           *)
(***************************************************************************)
EXTENDS EntityHooks, TLAPS

Table == [Address -> {"free", "game"} \cup Net]
List == [Slot -> Entity \cup {None}]

\* The object that its guid leads to.
Current(n) == /\ nets[n] # None
              /\ nets[n].guid \in DOMAIN networkEntities
              /\ networkEntities[nets[n].guid] = n

\* A guid leads to an object that has it, and who is not led to is in somebody's hand.
Objects == /\ \A g \in DOMAIN networkEntities : nets[networkEntities[g]].guid = g
           /\ \A n \in Net : nets[n] # None => Current(n) \/ n = call
           /\ call # None => nets[call] # None

\* What follows is about an entity list E and the tables V of its behaviors, for an
\* entity is there before its hook is.
Sound(V) == \A a \in Address : V[a] \in Net => nets[V[a]] # None /\ nets[V[a]].at = a

\* Every entity has memory of its own.
Places(E, V) ==
  \A s \in Slot : E[s] # None =>
    /\ V[E[s].at] # "free"
    /\ \A t \in Slot : E[t] # None /\ E[s].at = E[t].at => s = t

Leads(h, g) == h \in DOMAIN handleMap /\ handleMap[h] = g

\* A hook that its guid leads to is found by the handle of the entity it is on.
Found(E, V) ==
  \A s \in Slot : E[s] # None /\ V[E[s].at] \in Net /\ Current(V[E[s].at])
                    => Leads(<<s, E[s].generation>>, nets[V[E[s].at]].guid)

\* While no guid is given twice, no two handles share one, and an object that only a
\* running animation holds is on no entity.
Single(E, V) ==
  ~repeated =>
    /\ \A h, i \in DOMAIN handleMap : handleMap[h] = handleMap[i] => h = i
    /\ \A s \in Slot : E[s] # None /\ V[E[s].at] \in Net => Current(V[E[s].at])

\* The entity that a handle is of lives, and the handle leads to the guid.
AtHome(E, g, h) == /\ E[h[1]] # None /\ h = <<h[1], E[h[1]].generation>>
                   /\ Leads(h, g)

Resolved(E) ==
  ~repeated /\ ~unseen =>
    \A g \in DOMAIN networkEntities : AtHome(E, g, nets[networkEntities[g]].handle)

Fits(E, V) == /\ Places(E, V) /\ Sound(V)
              /\ Found(E, V) /\ Single(E, V) /\ Resolved(E)

IInv == TypeOK /\ HooksDoNotStack /\ Objects /\ Fits(entities, vtable)

-----------------------------------------------------------------------------
(* Functions that gain or lose a point, and tables that lose a hook *)

LEMMA Restricting ==
  ASSUME NEW f, NEW D
  PROVE  /\ DOMAIN Restrict(f, D) = D
         /\ \A z \in D : Restrict(f, D)[z] = f[z]
BY DEF Restrict

LEMMA Removing ==
  ASSUME TypeOK, HooksDoNotStack, NEW V \in Table, Sound(V),
         NEW n \in Net, nets[n] # None
  PROVE  /\ Removed(V, n) \in Table
         /\ \A a \in Address : Removed(V, n)[a] = IF V[a] = n THEN "game" ELSE V[a]
<1>1. nets[n] \in Object /\ nets[n].old = "game" /\ nets[n].at \in Address
  BY DEF TypeOK, HooksDoNotStack, Object
<1>2. \A a \in Address : V[a] = n => a = nets[n].at
  BY DEF Sound
<1> QED BY <1>1, <1>2 DEF Removed, Table

LEMMA Releasing ==
  ASSUME TypeOK, HooksDoNotStack, NEW V \in Table, Sound(V),
         NEW n \in Net \cup {None}, n # None => nets[n] # None
  PROVE  /\ Released(n, V) \in Table
         /\ \A a \in Address : Released(n, V)[a] =
              IF n # None /\ n # call /\ V[a] = n THEN "game" ELSE V[a]
<1>1. CASE n = None \/ n = call
  BY <1>1 DEF Released, Held
<1>2. CASE ~ (n = None \/ n = call)
  BY <1>2, Removing DEF Released, Held
<1> QED BY <1>1, <1>2

LEMMA Leaving ==
  ASSUME TypeOK, NEW n \in Net \cup {None}
  PROVE  /\ Without(n) \in [Net -> Object \cup {None}]
         /\ \A m \in Net : Without(n)[m] =
              IF n # None /\ n # call /\ m = n THEN None ELSE nets[m]
BY DEF TypeOK, Without, Held

-----------------------------------------------------------------------------

LEMMA InitInv == Init => IInv
<1> SUFFICES ASSUME Init PROVE IInv
  OBVIOUS
<1>1. DOMAIN networkEntities = {} /\ DOMAIN handleMap = {}
  BY DEF Init
<1>2. /\ entities \in [Slot -> Entity \cup {None}]
      /\ nets \in [Net -> Object \cup {None}]
      /\ vtable \in [Address -> {"free", "game"} \cup Net]
  BY DEF Init
<1>3. generation \in [Slot -> 0 .. Generations - 1]
  BY EntityHooksAssumption DEF Init
<1>4. call \in Net \cup {None} /\ {unseen, repeated} \subseteq BOOLEAN
  BY DEF Init
<1>5. /\ \A s \in Slot : entities[s] = None
      /\ \A n \in Net : nets[n] = None
      /\ \A a \in Address : vtable[a] \notin Net
      /\ call = None
  BY EntityHooksAssumption DEF Init
<1>6. TypeOK
  BY <1>1, <1>2, <1>3, <1>4 DEF TypeOK
<1>7. HooksDoNotStack /\ Objects
  BY <1>1, <1>5 DEF HooksDoNotStack, Objects
<1>8. Fits(entities, vtable)
  BY <1>1, <1>5 DEF Fits, Places, Sound, Found, Single, Resolved
<1> HIDE DEF Init
<1> QED BY <1>6, <1>7, <1>8 DEF IInv

-----------------------------------------------------------------------------
(* add_entity() *)

\* The object of the guid is kept, and its handle becomes the new entity's.
LEMMA KeptStep ==
  ASSUME TypeOK, HooksDoNotStack, Objects, NEW E \in List, NEW V \in Table, Fits(E, V),
         NEW s \in Slot, E[s] # None, V[E[s].at] = "game",
         NEW g \in Guid, g \in DOMAIN networkEntities,
         handleMap' = Put(handleMap, <<s, E[s].generation>>, g),
         nets' = [nets EXCEPT ![networkEntities[g]].handle = <<s, E[s].generation>>],
         UNCHANGED <<networkEntities, call>>, repeated'
  PROVE  /\ nets' \in [Net -> Object \cup {None}]
         /\ DOMAIN handleMap' \subseteq Handle
         /\ \A i \in DOMAIN handleMap' : handleMap'[i] \in Guid
         /\ \A x \in DOMAIN networkEntities :
              networkEntities[x] \in Net /\ nets'[networkEntities[x]] # None
         /\ HooksDoNotStack' /\ Objects' /\ Fits(E, V)'
<1> DEFINE o == networkEntities[g]
           h == <<s, E[s].generation>>
<1>1. /\ o \in Net /\ nets[o] # None /\ nets[o] \in Object
      /\ E[s] \in Entity /\ h \in Handle
  BY DEF TypeOK, List, Entity, Handle
<1>3. nets' = [nets EXCEPT ![o].handle = h] /\ handleMap' = Put(handleMap, h, g)
  OBVIOUS
<1> HIDE DEF o, h
<1>2. /\ DOMAIN handleMap' = {h} \cup DOMAIN handleMap
      /\ handleMap'[h] = g
      /\ \A i \in DOMAIN handleMap : i # h => handleMap'[i] = handleMap[i]
  BY <1>3 DEF Put
<1>4. nets'[o] = [nets[o] EXCEPT !.handle = h]
  BY <1>1, <1>3 DEF TypeOK
<1>5. \A n \in Net : n # o => nets'[n] = nets[n]
  BY <1>3 DEF TypeOK
<1>6. nets'[o] \in Object
  BY <1>1, <1>4 DEF Object
<1>7. nets' \in [Net -> Object \cup {None}]
  BY <1>3, <1>4, <1>5, <1>6 DEF TypeOK
<1>8. nets'[o] # None
  BY <1>6, EntityHooksAssumption
<1>9. nets'[o].guid = nets[o].guid /\ nets'[o].at = nets[o].at /\ nets'[o].old = nets[o].old
  BY <1>1, <1>4 DEF Object
<1>10. \A n \in Net : /\ nets'[n] = None <=> nets[n] = None
                      /\ nets'[n].guid = nets[n].guid
                      /\ nets'[n].at = nets[n].at
                      /\ nets'[n].old = nets[n].old
  BY <1>1, <1>5, <1>8, <1>9
<1>11. \A n \in Net : Current(n)' <=> Current(n)
  BY <1>10 DEF Current
<1>12. HooksDoNotStack'
  BY <1>10 DEF HooksDoNotStack
<1>13. Objects'
  BY <1>10, <1>11 DEF Objects, TypeOK
<1>14. Places(E, V)' /\ Sound(V)'
  BY <1>10 DEF Fits, Places, Sound
<1>15. Found(E, V)'
  <2> SUFFICES ASSUME NEW t \in Slot, E[t] # None, V[E[t].at] \in Net,
                      Current(V[E[t].at])'
               PROVE  Leads(<<t, E[t].generation>>, nets[V[E[t].at]].guid)'
    BY DEF Found
  <2>1. t # s
    BY EntityHooksAssumption
  <2>2. Leads(<<t, E[t].generation>>, nets[V[E[t].at]].guid)
    BY <1>11 DEF Fits, Found
  <2>3. <<t, E[t].generation>> # h
    BY <2>1 DEF h
  <2> QED BY <2>2, <2>3, <1>2, <1>10 DEF Leads
<1>16. Single(E, V)' /\ Resolved(E)'
  BY DEF Single, Resolved
<1>17. \A x \in DOMAIN networkEntities :
         networkEntities[x] \in Net /\ nets'[networkEntities[x]] # None
  BY <1>10 DEF TypeOK
<1>18. DOMAIN handleMap' \subseteq Handle /\ \A i \in DOMAIN handleMap' : handleMap'[i] \in Guid
  BY <1>1, <1>2 DEF TypeOK
<1> QED BY <1>7, <1>12, <1>13, <1>14, <1>15, <1>16, <1>17, <1>18 DEF Fits

\* A new object hooks the behavior, and the one the guid had is let go.
LEMMA NewStep ==
  ASSUME TypeOK, HooksDoNotStack, Objects, NEW E \in List, NEW V \in Table, Fits(E, V),
         NEW s \in Slot, E[s] # None, V[E[s].at] = "game", NEW g \in Guid,
         NEW h, h = <<s, E[s].generation>>,
         ~repeated /\ ~unseen =>
           \A x \in DOMAIN networkEntities : nets[networkEntities[x]].handle # h,
         NEW n \in Net, nets[n] = None,
         handleMap' = Put(handleMap, h, g),
         vtable' = [Released(Old(g), V) EXCEPT ![E[s].at] = n],
         nets' = [Without(Old(g)) EXCEPT
                    ![n] = [guid |-> g, handle |-> h, at |-> E[s].at,
                            old |-> Released(Old(g), V)[E[s].at]]],
         networkEntities' = Put(networkEntities, g, n),
         UNCHANGED <<call, unseen>>, Repeats(g)
  PROVE  /\ nets' \in [Net -> Object \cup {None}]
         /\ vtable' \in Table
         /\ DOMAIN handleMap' \subseteq Handle
         /\ \A i \in DOMAIN handleMap' : handleMap'[i] \in Guid
         /\ DOMAIN networkEntities' \subseteq Guid
         /\ \A x \in DOMAIN networkEntities' :
              networkEntities'[x] \in Net /\ nets'[networkEntities'[x]] # None
         /\ HooksDoNotStack' /\ Objects' /\ Fits(E, vtable)'
<1> DEFINE o == Old(g)
           d == [guid |-> g, handle |-> h, at |-> E[s].at, old |-> "game"]
<1>1. /\ E[s] \in Entity /\ E[s].at \in Address /\ h \in Handle
      /\ \A t \in Slot : E[t] # None => E[t].at \in Address
  BY DEF List, Entity, Handle
<1>2. o \in Net \cup {None} /\ (o # None => nets[o] # None)
  BY DEF Old, TypeOK
<1>3. Sound(V)
  BY DEF Fits
<1>4. /\ Released(o, V) \in Table
      /\ \A a \in Address : Released(o, V)[a] =
           IF o # None /\ o # call /\ V[a] = o THEN "game" ELSE V[a]
  BY <1>2, <1>3, Releasing
<1>5. Released(o, V)[E[s].at] = "game"
  BY <1>1, <1>4
<1>6. /\ Without(o) \in [Net -> Object \cup {None}]
      /\ \A m \in Net : Without(o)[m] =
           IF o # None /\ o # call /\ m = o THEN None ELSE nets[m]
  BY <1>2, Leaving
<1>7. d \in Object
  BY <1>1 DEF Object
<1>8. nets' = [Without(o) EXCEPT ![n] = d]
  BY <1>5
<1>9. vtable' = [Released(o, V) EXCEPT ![E[s].at] = n]
  OBVIOUS
<1>10. d.guid = g /\ d.handle = h /\ d.at = E[s].at /\ d.old = "game"
  OBVIOUS
<1>11. /\ o = None => g \notin DOMAIN networkEntities
       /\ o # None => g \in DOMAIN networkEntities /\ networkEntities[g] = o /\ nets[o].guid = g
  BY EntityHooksAssumption DEF Old, TypeOK, Objects
<1>12. Repeats(g)
  OBVIOUS
<1> HIDE DEF o, d
<1>13. /\ nets' \in [Net -> Object \cup {None}]
       /\ nets'[n] = d
       /\ \A m \in Net : m # n => nets'[m] =
            IF o # None /\ o # call /\ m = o THEN None ELSE nets[m]
  BY <1>6, <1>7, <1>8
<1>14. /\ vtable' \in Table
       /\ vtable'[E[s].at] = n
       /\ \A a \in Address : a # E[s].at =>
            vtable'[a] = IF o # None /\ o # call /\ V[a] = o THEN "game" ELSE V[a]
  BY <1>1, <1>4, <1>9 DEF Table
<1>15. d # None
  BY <1>7, EntityHooksAssumption
<1>16. /\ DOMAIN networkEntities' = {g} \cup DOMAIN networkEntities
       /\ networkEntities'[g] = n
       /\ \A x \in DOMAIN networkEntities : x # g => networkEntities'[x] = networkEntities[x]
  BY DEF Put
<1>17. /\ DOMAIN handleMap' = {h} \cup DOMAIN handleMap
       /\ handleMap'[h] = g
       /\ \A i \in DOMAIN handleMap : i # h => handleMap'[i] = handleMap[i]
  BY DEF Put
<1>18. n # o /\ n # call
  BY <1>2, EntityHooksAssumption DEF Objects
<1>19. ASSUME NEW x \in DOMAIN networkEntities, x # g
       PROVE  /\ networkEntities[x] \in Net /\ networkEntities[x] # n
              /\ networkEntities[x] # o
              /\ nets'[networkEntities[x]] = nets[networkEntities[x]]
              /\ nets[networkEntities[x]] # None
  <2>1. networkEntities[x] \in Net /\ nets[networkEntities[x]] # None
    BY DEF TypeOK
  <2>2. nets[networkEntities[x]].guid = x
    BY DEF Objects
  <2> QED BY <2>1, <2>2, <1>11, <1>13, <1>19, EntityHooksAssumption
<1>20. Current(n)'
  BY <1>10, <1>13, <1>15, <1>16 DEF Current
<1>21. ASSUME NEW m \in Net, m # n
       PROVE  Current(m)' <=> Current(m) /\ m # o
  <2>1. CASE m = o
    <3>1. nets[m].guid = g
      BY <2>1, <1>2, <1>11, EntityHooksAssumption
    <3> QED BY <2>1, <3>1, <1>13, <1>16, <1>21 DEF Current
  <2>2. CASE m # o
    <3>1. nets'[m] = nets[m]
      BY <2>2, <1>13, <1>21
    <3>2. Current(m) => nets[m].guid # g
      BY <2>2, <1>11 DEF Current
    <3>3. Current(m)' => nets[m].guid # g
      BY <3>1, <1>16, <1>21 DEF Current
    <3> QED BY <2>2, <3>1, <3>2, <3>3, <1>16 DEF Current
  <2> QED BY <2>1, <2>2
<1>22. ASSUME NEW m \in Net, m # n, Current(m)'
       PROVE  Current(m) /\ nets'[m] = nets[m]
  BY <1>13, <1>21, <1>22
<1>23. HooksDoNotStack'
  BY <1>10, <1>13 DEF HooksDoNotStack
<1>24. Objects'
  <2>1. \A x \in DOMAIN networkEntities' : nets'[networkEntities'[x]].guid = x
    BY <1>10, <1>13, <1>16, <1>19 DEF Objects
  <2>2. ASSUME NEW m \in Net, nets'[m] # None PROVE Current(m)' \/ m = call'
    <3>1. CASE m = n
      BY <3>1, <1>20
    <3>2. CASE m # n
      <4>1. nets[m] # None /\ (m = o => m = call)
        BY <2>2, <3>2, <1>2, <1>13, EntityHooksAssumption
      <4>2. Current(m) \/ m = call
        BY <4>1 DEF Objects
      <4> QED BY <3>2, <4>1, <4>2, <1>21
    <3> QED BY <3>1, <3>2
  <2>3. call' # None => nets'[call'] # None
    BY <1>13, <1>18 DEF Objects, TypeOK
  <2> QED BY <2>1, <2>2, <2>3 DEF Objects
<1>25. Places(E, vtable)'
  <2> SUFFICES ASSUME NEW t \in Slot, E[t] # None PROVE vtable'[E[t].at] # "free"
    BY DEF Fits, Places
  <2>1. V[E[t].at] # "free"
    BY DEF Fits, Places
  <2> QED BY <2>1, <1>1, <1>14, EntityHooksAssumption
<1>26. Sound(vtable)'
  <2> SUFFICES ASSUME NEW a \in Address, vtable'[a] \in Net
               PROVE  nets'[vtable'[a]] # None /\ nets'[vtable'[a]].at = a
    BY DEF Sound
  <2>1. CASE a = E[s].at
    BY <2>1, <1>10, <1>13, <1>14, <1>15
  <2>2. CASE a # E[s].at
    <3>1. vtable'[a] = V[a] /\ ~ (o # None /\ o # call /\ V[a] = o)
      BY <2>2, <1>14, EntityHooksAssumption
    <3>2. nets[V[a]] # None /\ nets[V[a]].at = a
      BY <3>1, <1>3 DEF Sound
    <3> QED BY <3>1, <3>2, <1>13
  <2> QED BY <2>1, <2>2
<1>27. \A t \in Slot : E[t] # None /\ t # s => E[t].at # E[s].at /\ <<t, E[t].generation>> # h
  BY DEF Fits, Places
<1>28. ASSUME NEW t \in Slot, E[t] # None, t # s, vtable'[E[t].at] \in Net
       PROVE  vtable'[E[t].at] = V[E[t].at] /\ vtable'[E[t].at] # n
  <2>1. vtable'[E[t].at] = V[E[t].at]
    BY <1>1, <1>14, <1>27, <1>28, EntityHooksAssumption
  <2> QED BY <2>1, <1>1, <1>3, <1>28 DEF Sound
<1>29. Found(E, vtable)'
  <2> SUFFICES ASSUME NEW t \in Slot, E[t] # None,
                      NEW m \in Net, m = vtable'[E[t].at], Current(m)'
               PROVE  Leads(<<t, E[t].generation>>, nets[m].guid)'
    BY DEF Found, Current
  <2>1. CASE t = s
    BY <2>1, <1>10, <1>13, <1>14, <1>17 DEF Leads
  <2>2. CASE t # s
    <3> DEFINE i == <<t, E[t].generation>>
    <3>1. m = V[E[t].at] /\ m # n
      BY <2>2, <1>28
    <3>2. Current(m) /\ nets'[m] = nets[m]
      BY <3>1, <1>22
    <3>3. Leads(i, nets[m].guid)
      BY <3>1, <3>2 DEF Fits, Found
    <3>4. i # h
      BY <2>2, <1>27
    <3> HIDE DEF i
    <3>5. i \in DOMAIN handleMap' /\ handleMap'[i] = nets'[m].guid
      BY <3>2, <3>3, <3>4, <1>17 DEF Leads
    <3> QED BY <3>5 DEF Leads, i
  <2> QED BY <2>1, <2>2
<1>30. ASSUME ~repeated'
       PROVE  ~repeated /\ o = None /\ \A i \in DOMAIN handleMap : handleMap[i] # g
  BY <1>12, <1>11, <1>30 DEF Repeats, Range
<1>31. Single(E, vtable)'
  <2> SUFFICES ASSUME ~repeated' PROVE Single(E, vtable)'
    BY DEF Single
  <2>1. \A i, j \in DOMAIN handleMap' : handleMap'[i] = handleMap'[j] => i = j
    BY <1>17, <1>30 DEF Fits, Single
  <2>2. ASSUME NEW t \in Slot, E[t] # None, NEW m \in Net, m = vtable'[E[t].at]
        PROVE  Current(m)'
    <3>1. CASE t = s
      BY <2>2, <3>1, <1>14, <1>20
    <3>2. CASE t # s
      <4>1. m = V[E[t].at] /\ m # n
        BY <2>2, <3>2, <1>28
      <4>2. Current(m) /\ m # o
        BY <4>1, <2>2, <1>30, EntityHooksAssumption DEF Fits, Single
      <4> QED BY <4>1, <4>2, <1>21
    <3> QED BY <3>1, <3>2
  <2> QED BY <2>1, <2>2 DEF Single, Current
<1>32. Resolved(E)'
  <2> SUFFICES ASSUME ~repeated', ~unseen', NEW x \in DOMAIN networkEntities'
               PROVE  AtHome(E, x, nets[networkEntities[x]].handle)'
    BY DEF Resolved
  <2>1. CASE x = g
    BY <2>1, <1>10, <1>13, <1>16, <1>17 DEF AtHome, Leads
  <2>2. CASE x # g
    <3> DEFINE i == nets[networkEntities[x]].handle
    <3>1. x \in DOMAIN networkEntities /\ nets'[networkEntities'[x]].handle = i
      BY <2>2, <1>16, <1>19
    <3>2. AtHome(E, x, i) /\ i # h
      BY <3>1, <1>30 DEF Fits, Resolved
    <3> HIDE DEF i
    <3> QED BY <3>1, <3>2, <1>17 DEF AtHome, Leads
  <2> QED BY <2>1, <2>2
<1>33. \A x \in DOMAIN networkEntities' :
         networkEntities'[x] \in Net /\ nets'[networkEntities'[x]] # None
  BY <1>13, <1>15, <1>16, <1>19
<1>34. /\ DOMAIN handleMap' \subseteq Handle
       /\ \A i \in DOMAIN handleMap' : handleMap'[i] \in Guid
       /\ DOMAIN networkEntities' \subseteq Guid
  BY <1>1, <1>16, <1>17 DEF TypeOK
<1> QED BY <1>13, <1>14, <1>23, <1>24, <1>25, <1>26, <1>29, <1>31, <1>32, <1>33, <1>34 DEF Fits

\* The two together, as they are used: the list has the entity, the tables have not got
\* its hook yet.
LEMMA AddStep ==
  ASSUME TypeOK, HooksDoNotStack, Objects, NEW E \in List, NEW V \in Table, Fits(E, V),
         NEW s \in Slot, E[s] # None, V[E[s].at] = "game", NEW g \in Guid,
         ~repeated /\ ~unseen =>
           \A x \in DOMAIN networkEntities :
             nets[networkEntities[x]].handle # <<s, E[s].generation>>,
         AddEntity(s, E[s], g, V), Repeats(g),
         entities' = E, generation' \in [Slot -> 0 .. Generations - 1],
         UNCHANGED <<call, unseen>>
  PROVE  IInv'
<1> DEFINE o == Old(g)
           h == <<s, E[s].generation>>
<1>1. handleMap' = Put(handleMap, h, g)
  BY DEF AddEntity
<1>2. \/ /\ o # None
         /\ nets' = [nets EXCEPT ![o].handle = h]
         /\ vtable' = V
         /\ UNCHANGED networkEntities
      \/ \E n \in Net :
           /\ nets[n] = None
           /\ vtable' = [Released(o, V) EXCEPT ![E[s].at] = n]
           /\ nets' = [Without(o) EXCEPT
                         ![n] = [guid |-> g, handle |-> h, at |-> E[s].at,
                                 old |-> Released(o, V)[E[s].at]]]
           /\ networkEntities' = Put(networkEntities, g, n)
  BY DEF AddEntity
<1>3. call' \in Net \cup {None} /\ {unseen', repeated'} \subseteq BOOLEAN
  BY DEF TypeOK, Repeats
<1> SUFFICES /\ nets' \in [Net -> Object \cup {None}]
             /\ vtable' \in Table
             /\ DOMAIN handleMap' \subseteq Handle
             /\ \A i \in DOMAIN handleMap' : handleMap'[i] \in Guid
             /\ DOMAIN networkEntities' \subseteq Guid
             /\ \A x \in DOMAIN networkEntities' :
                  networkEntities'[x] \in Net /\ nets'[networkEntities'[x]] # None
             /\ HooksDoNotStack' /\ Objects' /\ Fits(E, vtable)'
  <2>1. Fits(E, vtable)' => Fits(entities, vtable)'
    BY DEF Fits, Places, Sound, Found, Single, Resolved, AtHome, Leads, Current
  <2> QED BY <1>3, <2>1 DEF IInv, TypeOK, List, Table
<1>4. CASE /\ o # None
           /\ nets' = [nets EXCEPT ![o].handle = h]
           /\ vtable' = V
           /\ UNCHANGED networkEntities
  <2>1. g \in DOMAIN networkEntities /\ o = networkEntities[g]
    BY <1>4 DEF Old
  <2>2. repeated'
    BY <2>1 DEF Repeats
  <2>3. /\ nets' \in [Net -> Object \cup {None}]
        /\ DOMAIN handleMap' \subseteq Handle
        /\ \A i \in DOMAIN handleMap' : handleMap'[i] \in Guid
        /\ \A x \in DOMAIN networkEntities :
             networkEntities[x] \in Net /\ nets'[networkEntities[x]] # None
        /\ HooksDoNotStack' /\ Objects' /\ Fits(E, V)'
    BY <1>1, <1>4, <2>1, <2>2, KeptStep
  <2>4. Fits(E, V)' => Fits(E, vtable)'
    BY <1>4 DEF Fits, Places, Sound, Found, Single, Resolved, Current
  <2> QED BY <1>4, <2>3, <2>4 DEF TypeOK
<1>5. ASSUME NEW n \in Net,
             nets[n] = None,
             vtable' = [Released(o, V) EXCEPT ![E[s].at] = n],
             nets' = [Without(o) EXCEPT
                        ![n] = [guid |-> g, handle |-> h, at |-> E[s].at,
                                old |-> Released(o, V)[E[s].at]]],
             networkEntities' = Put(networkEntities, g, n)
      PROVE  /\ nets' \in [Net -> Object \cup {None}]
             /\ vtable' \in Table
             /\ DOMAIN handleMap' \subseteq Handle
             /\ \A i \in DOMAIN handleMap' : handleMap'[i] \in Guid
             /\ DOMAIN networkEntities' \subseteq Guid
             /\ \A x \in DOMAIN networkEntities' :
                  networkEntities'[x] \in Net /\ nets'[networkEntities'[x]] # None
             /\ HooksDoNotStack' /\ Objects' /\ Fits(E, vtable)'
  <2>1. h = <<s, E[s].generation>> /\ (~repeated /\ ~unseen =>
           \A x \in DOMAIN networkEntities : nets[networkEntities[x]].handle # h)
    OBVIOUS
  <2> HIDE DEF h
  <2> QED BY <1>1, <1>5, <2>1, NewStep
<1> QED BY <1>2, <1>4, <1>5

-----------------------------------------------------------------------------
(* The actions *)

LEMMA SpawnStep ==
  ASSUME IInv, NEW s \in Slot, NEW a \in Address, Spawn(s, a)
  PROVE  IInv'
<1> DEFINE e == [generation |-> (generation[s] + 1) % Generations, at |-> a]
           V == [vtable EXCEPT ![a] = "game"]
<1>1. /\ entities[s] = None /\ vtable[a] = "free"
      /\ entities' = [entities EXCEPT ![s] = e]
      /\ generation' = [generation EXCEPT ![s] = e.generation]
      /\ \/ \E g \in Guid : AddEntity(s, e, g, V) /\ Repeats(g)
         \/ vtable' = V /\ UNCHANGED <<nets, Maps, repeated>>
      /\ UNCHANGED <<call, unseen>>
  BY DEF Spawn
<1>2. e \in Entity /\ e.at = a /\ e.generation \in 0 .. Generations - 1 /\ e # None
  BY EntityHooksAssumption DEF IInv, TypeOK, Entity
<1> HIDE DEF e
<1>3. PICK E : E = entities'
  OBVIOUS
<1>4. E \in List /\ E[s] = e /\ \A t \in Slot : t # s => E[t] = entities[t]
  BY <1>1, <1>2, <1>3 DEF IInv, TypeOK, List
<1>5. V \in Table /\ V[a] = "game" /\ \A b \in Address : b # a => V[b] = vtable[b]
  BY DEF IInv, TypeOK, Table
<1>6. generation' \in [Slot -> 0 .. Generations - 1]
  BY <1>1, <1>2 DEF IInv, TypeOK
<1>7. /\ TypeOK /\ HooksDoNotStack /\ Objects /\ Fits(entities, vtable)
      /\ \A t \in Slot : entities[t] # None => entities[t].at \in Address
  BY DEF IInv, TypeOK, Entity
<1> HIDE DEF V
<1>8. \A t \in Slot : E[t] # None /\ t # s => E[t].at # a /\ V[E[t].at] = vtable[E[t].at]
  BY <1>1, <1>4, <1>5, <1>7 DEF Fits, Places
<1>9. Places(E, V)
  BY <1>2, <1>4, <1>5, <1>7, <1>8, EntityHooksAssumption DEF Fits, Places
<1>10. Sound(V)
  BY <1>5, <1>7, EntityHooksAssumption DEF Fits, Sound
<1>11. Found(E, V)
  BY <1>2, <1>4, <1>5, <1>7, <1>8, EntityHooksAssumption DEF Fits, Found
<1>12. Single(E, V)
  BY <1>2, <1>4, <1>5, <1>7, <1>8, EntityHooksAssumption DEF Fits, Single
<1>13. ASSUME ~repeated, ~unseen, NEW x \in DOMAIN networkEntities
       PROVE  /\ AtHome(E, x, nets[networkEntities[x]].handle)
              /\ nets[networkEntities[x]].handle # <<s, E[s].generation>>
  <2> DEFINE h == nets[networkEntities[x]].handle
  <2>1. AtHome(entities, x, h)
    BY <1>7, <1>13 DEF Fits, Resolved
  <2>2. h \in Handle
    BY <1>7, EntityHooksAssumption DEF TypeOK, Object
  <2>3. h[1] \in Slot
    BY <2>2 DEF Handle
  <2> HIDE DEF h
  <2>4. h[1] # s
    BY <2>1, <1>1 DEF AtHome
  <2>5. AtHome(E, x, h) /\ h # <<s, E[s].generation>>
    BY <2>1, <2>3, <2>4, <1>4 DEF AtHome
  <2> QED BY <2>5 DEF h
<1>14. Fits(E, V)
  BY <1>9, <1>10, <1>11, <1>12, <1>13 DEF Fits, Resolved
<1>15. ASSUME NEW g \in Guid, AddEntity(s, e, g, V), Repeats(g)
       PROVE  IInv'
  <2>1. E[s] # None /\ V[E[s].at] = "game" /\ AddEntity(s, E[s], g, V)
    BY <1>2, <1>4, <1>5, <1>15
  <2>2. ~repeated /\ ~unseen => \A x \in DOMAIN networkEntities :
          nets[networkEntities[x]].handle # <<s, E[s].generation>>
    BY <1>13
  <2> QED BY <2>1, <2>2, <1>1, <1>3, <1>4, <1>5, <1>6, <1>7, <1>14, <1>15, AddStep
<1>16. CASE vtable' = V /\ UNCHANGED <<nets, Maps, repeated>>
  <2>1. Fits(entities, vtable)'
    BY <1>1, <1>3, <1>14, <1>16
       DEF Fits, Places, Sound, Found, Single, Resolved, AtHome, Leads, Current, Maps
  <2>2. HooksDoNotStack' /\ Objects'
    BY <1>1, <1>7, <1>16 DEF HooksDoNotStack, Objects, Current, Maps
  <2>3. TypeOK'
    BY <1>1, <1>3, <1>4, <1>5, <1>6, <1>7, <1>16 DEF TypeOK, Maps, List, Table
  <2> QED BY <2>1, <2>2, <2>3 DEF IInv
<1> QED BY <1>1, <1>15, <1>16

LEMMA AddExistingStep ==
  ASSUME IInv, NEW s \in Slot, AddExisting(s)
  PROVE  IInv'
<1>1. PICK E : E = entities
  OBVIOUS
<1>2. PICK V : V = vtable
  OBVIOUS
<1>3. /\ TypeOK /\ HooksDoNotStack /\ Objects /\ Fits(E, V)
      /\ E \in List /\ V \in Table
  BY <1>1, <1>2 DEF IInv, TypeOK, List, Table
<1>4. /\ E[s] # None /\ call = None /\ <<s, E[s].generation>> \notin DOMAIN handleMap
      /\ \E g \in Guid : AddEntity(s, E[s], g, V) /\ Repeats(g)
      /\ entities' = E /\ generation' = generation /\ UNCHANGED <<call, unseen>>
  BY <1>1, <1>2 DEF AddExisting, HandleOf
<1>5. E[s].at \in Address
  BY <1>3, <1>4 DEF List, Entity
<1>6. V[E[s].at] \notin Net
  <2> SUFFICES ASSUME V[E[s].at] \in Net PROVE FALSE
    OBVIOUS
  <2>1. Current(V[E[s].at])
    BY <1>3, <1>4, <1>5, EntityHooksAssumption DEF Fits, Sound, Objects
  <2> QED BY <2>1, <1>3, <1>4 DEF Fits, Found, Leads
<1>7. V[E[s].at] = "game"
  BY <1>3, <1>4, <1>5, <1>6 DEF Fits, Places, Table
<1>8. ~repeated /\ ~unseen => \A x \in DOMAIN networkEntities :
        nets[networkEntities[x]].handle # <<s, E[s].generation>>
  BY <1>3, <1>4 DEF Fits, Resolved, AtHome, Leads
<1>9. generation' \in [Slot -> 0 .. Generations - 1]
  BY <1>3, <1>4 DEF TypeOK
<1>10. PICK g \in Guid : AddEntity(s, E[s], g, V) /\ Repeats(g)
  BY <1>4
<1> QED BY <1>3, <1>4, <1>7, <1>8, <1>9, <1>10, AddStep

\* The terminate hook: on_entity_deleted(), then the entity and its tables are gone.
LEMMA TerminateStep ==
  ASSUME IInv, NEW s \in Slot, Terminate(s)
  PROVE  IInv'
<1> DEFINE h == HandleOf(s)
           n == Lookup(h)
           V == Released(n, vtable)
<1>1. /\ TypeOK /\ HooksDoNotStack /\ Objects /\ vtable \in Table
      /\ Places(entities, vtable) /\ Sound(vtable)
      /\ Found(entities, vtable) /\ Single(entities, vtable) /\ Resolved(entities)
  BY DEF IInv, Fits, TypeOK, Table
<1>2. /\ entities[s] # None
      /\ vtable' = [V EXCEPT ![entities[s].at] = "free"]
      /\ entities' = [entities EXCEPT ![s] = None]
      /\ OnEntityDeleted(h)
      /\ UNCHANGED <<generation, call, unseen, repeated>>
  BY DEF Terminate, Ghosts
<1>3. \A t \in Slot : entities[t] # None => entities[t] \in Entity /\ entities[t].at \in Address
  BY <1>1 DEF TypeOK, Entity
<1>4. n \in Net \cup {None} /\ (n # None => nets[n] # None)
  BY <1>1 DEF Lookup, Mapped, TypeOK
<1>5. n # None => Leads(h, nets[n].guid) /\ Current(n)
  BY <1>1, EntityHooksAssumption DEF Lookup, Mapped, TypeOK, Objects, Leads, Current
<1>6. n = None => ~ \E g \in DOMAIN networkEntities : Leads(h, g)
  BY <1>1, EntityHooksAssumption DEF Lookup, Mapped, TypeOK, Leads
<1>7. /\ V \in Table
      /\ \A a \in Address : V[a] = IF n # None /\ n # call /\ vtable[a] = n
                                   THEN "game" ELSE vtable[a]
  BY <1>1, <1>4, Releasing
<1>8. IF n = None THEN UNCHANGED <<nets, Maps>>
      ELSE /\ handleMap' = Restrict(handleMap, DOMAIN handleMap \ {h})
           /\ Erase(n)
           /\ nets' = Without(n)
  BY <1>2 DEF OnEntityDeleted
<1>9. \A t \in Slot : t # s => HandleOf(t) # h
  BY DEF HandleOf
<1>9a. h = HandleOf(s)
  OBVIOUS
<1> HIDE DEF V, n, h
<1>10. /\ nets' \in [Net -> Object \cup {None}]
       /\ \A m \in Net : nets'[m] =
            IF n # None /\ n # call /\ m = n THEN None ELSE nets[m]
  <2>1. CASE n = None
    BY <2>1, <1>1, <1>8 DEF TypeOK
  <2>2. CASE n # None
    BY <2>2, <1>1, <1>4, <1>8, Leaving
  <2> QED BY <2>1, <2>2
<1>11. /\ DOMAIN networkEntities' =
            {g \in DOMAIN networkEntities : n = None \/ g # nets[n].guid}
       /\ \A g \in DOMAIN networkEntities' : networkEntities'[g] = networkEntities[g]
  BY <1>8 DEF Erase, Restrict, Maps
<1>12. /\ DOMAIN handleMap' = {i \in DOMAIN handleMap : n = None \/ i # h}
       /\ \A i \in DOMAIN handleMap' : handleMap'[i] = handleMap[i]
  BY <1>8 DEF Restrict, Maps
<1>13. entities' \in List /\ entities'[s] = None
       /\ \A t \in Slot : t # s => entities'[t] = entities[t]
  BY <1>1, <1>2 DEF TypeOK, List
<1>14. vtable' \in Table /\ vtable'[entities[s].at] = "free"
       /\ \A a \in Address : a # entities[s].at => vtable'[a] = V[a]
  BY <1>2, <1>3, <1>7 DEF Table
<1>15. ASSUME NEW g \in DOMAIN networkEntities'
       PROVE  /\ g \in DOMAIN networkEntities
              /\ networkEntities[g] \in Net /\ networkEntities[g] # n
              /\ networkEntities'[g] = networkEntities[g]
              /\ nets'[networkEntities[g]] = nets[networkEntities[g]]
              /\ nets[networkEntities[g]] # None
  <2>1. g \in DOMAIN networkEntities /\ networkEntities'[g] = networkEntities[g]
    BY <1>11
  <2>2. networkEntities[g] \in Net /\ nets[networkEntities[g]] # None
        /\ nets[networkEntities[g]].guid = g
    BY <2>1, <1>1 DEF TypeOK, Objects
  <2>3. networkEntities[g] # n
    BY <2>2, <1>11, EntityHooksAssumption
  <2> QED BY <2>1, <2>2, <2>3, <1>10
<1>16. ASSUME NEW m \in Net
       PROVE  Current(m)' <=> Current(m) /\ m # n
  <2>1. CASE m = n
    <3>1. n # None
      BY <2>1, EntityHooksAssumption
    <3> QED BY <2>1, <3>1, <1>10, <1>11 DEF Current
  <2>2. CASE m # n
    <3>1. nets'[m] = nets[m]
      BY <2>2, <1>10
    <3>2. Current(m) /\ n # None => nets[m].guid # nets[n].guid
      BY <2>2, <1>5 DEF Current
    <3> QED BY <2>2, <3>1, <3>2, <1>11 DEF Current
  <2> QED BY <2>1, <2>2
<1>17. TypeOK'
  BY <1>1, <1>2, <1>10, <1>11, <1>12, <1>13, <1>14, <1>15 DEF TypeOK, List, Table
<1>18. HooksDoNotStack'
  BY <1>1, <1>10 DEF HooksDoNotStack
<1>19. Objects'
  <2>1. \A g \in DOMAIN networkEntities' : nets'[networkEntities'[g]].guid = g
    BY <1>1, <1>15 DEF Objects
  <2>2. ASSUME NEW m \in Net, nets'[m] # None PROVE Current(m)' \/ m = call'
    <3>1. nets[m] # None /\ (m = n => m = call)
      BY <2>2, <1>10, EntityHooksAssumption
    <3>2. Current(m) \/ m = call
      BY <3>1, <1>1 DEF Objects
    <3> QED BY <3>1, <3>2, <1>2, <1>16
  <2>3. call' # None => nets'[call'] # None
    BY <1>1, <1>2, <1>10 DEF Objects, TypeOK
  <2> QED BY <2>1, <2>2, <2>3 DEF Objects
<1>20. \A t \in Slot : entities'[t] # None =>
         /\ t # s /\ entities[t] # None /\ entities'[t] = entities[t]
         /\ entities[t].at # entities[s].at /\ entities[t].at \in Address
         /\ vtable'[entities[t].at] = V[entities[t].at]
  BY <1>1, <1>2, <1>3, <1>13, <1>14 DEF Places
<1>21. Places(entities, vtable)'
  BY <1>1, <1>7, <1>20 DEF Places
<1>22. Sound(vtable)'
  <2> SUFFICES ASSUME NEW a \in Address, vtable'[a] \in Net
               PROVE  nets'[vtable'[a]] # None /\ nets'[vtable'[a]].at = a
    BY DEF Sound
  <2>1. vtable'[a] = vtable[a] /\ (vtable[a] = n => n = call)
    BY <1>7, <1>14, EntityHooksAssumption
  <2> QED BY <2>1, <1>1, <1>10 DEF Sound
<1>23. Found(entities, vtable)'
  <2> SUFFICES ASSUME NEW t \in Slot, entities'[t] # None,
                      NEW m \in Net, m = vtable'[entities'[t].at], Current(m)'
               PROVE  Leads(HandleOf(t), nets[m].guid)'
    BY DEF Found, Current, HandleOf
  <2>1. m = vtable[entities[t].at] /\ m # n /\ Current(m)
    BY <1>7, <1>16, <1>20, EntityHooksAssumption
  <2>2. Leads(HandleOf(t), nets[m].guid)
    BY <2>1, <1>1, <1>20 DEF Found, HandleOf
  <2>3. HandleOf(t) # h /\ HandleOf(t)' = HandleOf(t)
    BY <1>9, <1>20 DEF HandleOf
  <2>4. nets'[m] = nets[m]
    BY <2>1, <1>10
  <2> QED BY <2>2, <2>3, <2>4, <1>12 DEF Leads
<1>24. Single(entities, vtable)'
  <2> SUFFICES ASSUME ~repeated' PROVE Single(entities, vtable)'
    BY DEF Single
  <2>0. ~repeated
    BY <1>2
  <2>1. \A i, j \in DOMAIN handleMap' : handleMap'[i] = handleMap'[j] => i = j
    BY <2>0, <1>1, <1>12 DEF Single
  <2>2. ASSUME NEW t \in Slot, entities'[t] # None,
               NEW m \in Net, m = vtable'[entities'[t].at]
        PROVE  Current(m)'
    <3>1. m = vtable[entities[t].at]
      BY <2>2, <1>7, <1>20, EntityHooksAssumption
    <3>2. Current(m)
      BY <2>0, <2>2, <3>1, <1>1, <1>20 DEF Single
    <3>3. Leads(HandleOf(t), nets[m].guid)
      BY <2>2, <3>1, <3>2, <1>1, <1>20 DEF Found, HandleOf
    <3>4. HandleOf(t) # h
      BY <2>2, <1>9, <1>20
    <3>5. m # n
      BY <3>3, <3>4, <2>0, <1>1, <1>5, EntityHooksAssumption DEF Leads, Single
    <3> QED BY <3>2, <3>5, <1>16
  <2> QED BY <2>1, <2>2 DEF Single, Current
<1>25. Resolved(entities)'
  <2> SUFFICES ASSUME ~repeated, ~unseen, NEW g \in DOMAIN networkEntities'
               PROVE  AtHome(entities, g, nets[networkEntities[g]].handle)'
    BY <1>2 DEF Resolved
  <2> DEFINE i == nets[networkEntities[g]].handle
  <2>1. g \in DOMAIN networkEntities /\ nets'[networkEntities'[g]].handle = i
    BY <1>15
  <2>2. AtHome(entities, g, i)
    BY <2>1, <1>1 DEF Resolved
  <2>3. nets[networkEntities[g]] \in Object
    BY <1>1, <1>15 DEF TypeOK
  <2>4. i[1] \in Slot
    BY <2>3 DEF Object, Handle
  <2>5. i # h
    BY <2>1, <2>2, <1>5, <1>6, <1>11 DEF AtHome, Leads
  <2> HIDE DEF i
  <2>6. i[1] # s
    BY <2>2, <2>5, <1>9a DEF AtHome, HandleOf
  <2>7. entities'[i[1]] = entities[i[1]]
    BY <2>4, <2>6, <1>13
  <2> QED BY <2>1, <2>2, <2>5, <2>7, <1>12 DEF AtHome, Leads
<1> QED BY <1>17, <1>18, <1>19, <1>21, <1>22, <1>23, <1>24, <1>25 DEF IInv, Fits

\* The end that no hook sees: a slot and a behavior are free, and everything stays.
LEMMA ScriptTerminateStep ==
  ASSUME IInv, NEW s \in Slot, ScriptTerminate(s)
  PROVE  IInv'
<1>1. /\ TypeOK /\ HooksDoNotStack /\ Objects
      /\ Places(entities, vtable) /\ Sound(vtable)
      /\ Found(entities, vtable) /\ Single(entities, vtable)
  BY DEF IInv, Fits
<1>2. /\ entities[s] # None /\ unseen'
      /\ vtable' = [vtable EXCEPT ![entities[s].at] = "free"]
      /\ entities' = [entities EXCEPT ![s] = None]
      /\ UNCHANGED <<generation, nets, networkEntities, handleMap, call, repeated>>
  BY DEF ScriptTerminate, Maps
<1>3. \A t \in Slot : entities[t] # None => entities[t].at \in Address
  BY <1>1 DEF TypeOK, Entity
<1>4. \A a \in Address : vtable'[a] = IF a = entities[s].at THEN "free" ELSE vtable[a]
  BY <1>1, <1>2 DEF TypeOK
<1>5. \A t \in Slot : entities'[t] # None =>
        /\ entities[t] # None /\ entities'[t] = entities[t]
        /\ vtable'[entities[t].at] = vtable[entities[t].at]
  BY <1>1, <1>2, <1>3, <1>4 DEF Places, TypeOK
<1>6. \A m \in Net : Current(m)' <=> Current(m)
  BY <1>2 DEF Current
<1>7. \A h, g : Leads(h, g)' <=> Leads(h, g)
  BY <1>2 DEF Leads
<1>8. TypeOK'
  BY <1>1, <1>2 DEF TypeOK
<1>9. HooksDoNotStack' /\ Objects'
  BY <1>1, <1>2, <1>6 DEF HooksDoNotStack, Objects
<1>10. Places(entities, vtable)'
  BY <1>1, <1>5 DEF Places
<1>11. Sound(vtable)'
  BY <1>1, <1>2, <1>4, EntityHooksAssumption DEF Sound
<1>12. Found(entities, vtable)'
  <2> SUFFICES ASSUME NEW t \in Slot, entities'[t] # None,
                      NEW m \in Net, m = vtable'[entities'[t].at], Current(m)'
               PROVE  Leads(<<t, entities[t].generation>>, nets[m].guid)'
    BY DEF Found, Current
  <2> QED BY <1>1, <1>2, <1>5, <1>6 DEF Found, Leads
<1>13. Single(entities, vtable)'
  <2> SUFFICES ASSUME ~repeated' PROVE Single(entities, vtable)'
    BY DEF Single
  <2>1. \A i, j \in DOMAIN handleMap' : handleMap'[i] = handleMap'[j] => i = j
    BY <1>1, <1>2 DEF Single
  <2>2. ASSUME NEW t \in Slot, entities'[t] # None,
               NEW m \in Net, m = vtable'[entities'[t].at]
        PROVE  Current(m)'
    BY <2>2, <1>1, <1>2, <1>5, <1>6 DEF Single
  <2> QED BY <2>1, <2>2 DEF Single, Current
<1>14. Resolved(entities)'
  BY <1>2 DEF Resolved
<1> QED BY <1>8, <1>9, <1>10, <1>11, <1>12, <1>13, <1>14 DEF IInv, Fits

LEMMA BeginAnimationStep ==
  ASSUME IInv, NEW s \in Slot, BeginAnimation(s)
  PROVE  IInv'
<1>1. /\ call = None /\ call' = Lookup(HandleOf(s))
      /\ UNCHANGED <<entities, generation, vtable, nets, networkEntities, handleMap,
                     unseen, repeated>>
  BY DEF BeginAnimation, Maps, Ghosts
<1>2. call' \in Net \cup {None} /\ (call' # None => nets[call'] # None)
  BY <1>1 DEF Lookup, Mapped, IInv, TypeOK
<1>3. TypeOK' /\ HooksDoNotStack'
  BY <1>1, <1>2 DEF IInv, TypeOK, HooksDoNotStack
<1>4. Objects'
  BY <1>1, <1>2, EntityHooksAssumption DEF IInv, Objects, Current
<1>5. Fits(entities, vtable)'
  BY <1>1 DEF IInv, Fits, Places, Sound, Found, Single, Resolved, AtHome, Leads, Current
<1> QED BY <1>3, <1>4, <1>5 DEF IInv

\* Objects that no guid leads to go, with their tables: what each of the steps has left.
LEMMA LosingObject ==
  ASSUME IInv, NEW n \in Net, ~ Current(n)', call' = None,
         vtable' = Removed(vtable, n), nets' = [nets EXCEPT ![n] = None],
         nets[n] # None,
         \A m \in Net : m # n => (Current(m)' <=> Current(m)) /\ m # call,
         DOMAIN networkEntities' \subseteq DOMAIN networkEntities,
         \A g \in DOMAIN networkEntities' :
           networkEntities'[g] = networkEntities[g] /\ networkEntities[g] # n,
         UNCHANGED <<entities, generation, handleMap, unseen, repeated>>
  PROVE  IInv'
<1>1. /\ TypeOK /\ HooksDoNotStack /\ Objects /\ vtable \in Table
      /\ Places(entities, vtable) /\ Sound(vtable)
      /\ Found(entities, vtable) /\ Single(entities, vtable) /\ Resolved(entities)
  BY DEF IInv, Fits, TypeOK, Table
<1>2. /\ vtable' \in Table
      /\ \A a \in Address : vtable'[a] = IF vtable[a] = n THEN "game" ELSE vtable[a]
  BY <1>1, Removing
<1>3. /\ nets' \in [Net -> Object \cup {None}] /\ nets'[n] = None
      /\ \A m \in Net : m # n => nets'[m] = nets[m]
  BY <1>1 DEF TypeOK
<1>4. \A t \in Slot : entities[t] # None => entities[t].at \in Address
  BY <1>1 DEF TypeOK, Entity
<1>5. TypeOK'
  BY <1>1, <1>2, <1>3 DEF TypeOK, Table
<1>6. HooksDoNotStack'
  BY <1>1, <1>3 DEF HooksDoNotStack
<1>7. Objects'
  BY <1>1, <1>3 DEF Objects, TypeOK
<1>8. Places(entities, vtable)'
  BY <1>1, <1>2, <1>4, EntityHooksAssumption DEF Places
<1>9. Sound(vtable)'
  BY <1>1, <1>2, <1>3, EntityHooksAssumption DEF Sound
<1>10. ASSUME NEW t \in Slot, entities[t] # None,
              NEW m \in Net, m = vtable'[entities[t].at]
       PROVE  m = vtable[entities[t].at] /\ m # n
  BY <1>10, <1>2, <1>4, EntityHooksAssumption
<1>11. Found(entities, vtable)'
  <2> SUFFICES ASSUME NEW t \in Slot, entities[t] # None,
                      NEW m \in Net, m = vtable'[entities[t].at], Current(m)'
               PROVE  Leads(<<t, entities[t].generation>>, nets[m].guid)'
    BY DEF Found, Current
  <2>1. m = vtable[entities[t].at] /\ m # n
    BY <1>10
  <2>2. Leads(<<t, entities[t].generation>>, nets[m].guid)
    BY <2>1, <1>1 DEF Found
  <2> QED BY <2>1, <2>2, <1>3 DEF Leads
<1>12. Single(entities, vtable)'
  <2> SUFFICES ASSUME ~repeated' PROVE Single(entities, vtable)'
    BY DEF Single
  <2>1. \A i, j \in DOMAIN handleMap' : handleMap'[i] = handleMap'[j] => i = j
    BY <1>1 DEF Single
  <2>2. ASSUME NEW t \in Slot, entities[t] # None,
               NEW m \in Net, m = vtable'[entities[t].at]
        PROVE  Current(m)'
    <3>1. m = vtable[entities[t].at] /\ m # n
      BY <2>2, <1>10
    <3> QED BY <2>2, <3>1, <1>1 DEF Single
  <2> QED BY <2>1, <2>2 DEF Single, Current
<1>13. Resolved(entities)'
  <2> SUFFICES ASSUME ~repeated, ~unseen, NEW g \in DOMAIN networkEntities'
               PROVE  AtHome(entities, g, nets[networkEntities[g]].handle)'
    BY DEF Resolved
  <2> DEFINE i == nets[networkEntities[g]].handle
  <2>1. g \in DOMAIN networkEntities /\ networkEntities[g] \in Net
    BY <1>1 DEF TypeOK
  <2>2. AtHome(entities, g, i)
    BY <2>1, <1>1 DEF Resolved
  <2>3. nets'[networkEntities'[g]].handle = i
    BY <2>1, <1>3
  <2> HIDE DEF i
  <2> QED BY <2>2, <2>3 DEF AtHome, Leads
<1> QED BY <1>5, <1>6, <1>7, <1>8, <1>9, <1>11, <1>12, <1>13 DEF IInv, Fits

\* The last hand lets go of an object that was erased while its animation began.
LEMMA EndAnimationStep ==
  ASSUME IInv, EndAnimation
  PROVE  IInv'
<1>1. /\ call # None /\ call' = None /\ call \in Net /\ nets[call] # None
      /\ UNCHANGED <<entities, generation, networkEntities, handleMap, unseen, repeated>>
  BY DEF EndAnimation, Maps, Ghosts, IInv, TypeOK, Objects
<1>2. CASE call \in {networkEntities[g] : g \in DOMAIN networkEntities}
  <2>1. UNCHANGED <<vtable, nets>>
    BY <1>2 DEF EndAnimation
  <2>2. Current(call)
    BY <1>1, <1>2 DEF IInv, Objects, Current
  <2>3. TypeOK' /\ HooksDoNotStack'
    BY <1>1, <2>1 DEF IInv, TypeOK, HooksDoNotStack
  <2>4. Objects'
    BY <1>1, <2>1, <2>2 DEF IInv, Objects, Current
  <2>5. Fits(entities, vtable)'
    BY <1>1, <2>1
       DEF IInv, Fits, Places, Sound, Found, Single, Resolved, AtHome, Leads, Current
  <2> QED BY <2>3, <2>4, <2>5 DEF IInv
<1>3. CASE call \notin {networkEntities[g] : g \in DOMAIN networkEntities}
  <2>1. PICK n \in Net : n = call
    BY <1>1
  <2>2. vtable' = Removed(vtable, n) /\ nets' = [nets EXCEPT ![n] = None]
    BY <2>1, <1>3 DEF EndAnimation
  <2>3. nets'[n] = None /\ \A m \in Net : m # n => nets'[m] = nets[m]
    BY <2>2 DEF IInv, TypeOK
  <2>4. ~ Current(n)' /\ \A m \in Net : m # n => (Current(m)' <=> Current(m)) /\ m # call
    BY <1>1, <2>1, <2>3 DEF Current
  <2>5. \A g \in DOMAIN networkEntities : networkEntities[g] # n
    BY <2>1, <1>3
  <2> QED BY <1>1, <2>1, <2>2, <2>4, <2>5, LosingObject
<1> QED BY <1>2, <1>3

LEMMA RemoveEntityStep ==
  ASSUME IInv, NEW g \in Guid, RemoveEntity(g)
  PROVE  IInv'
<1>0. PICK n : n = networkEntities[g]
  OBVIOUS
<1>1. /\ g \in DOMAIN networkEntities /\ call = None /\ call' = None
      /\ vtable' = Removed(vtable, n) /\ nets' = [nets EXCEPT ![n] = None]
      /\ networkEntities' = Restrict(networkEntities, DOMAIN networkEntities \ {g})
      /\ UNCHANGED <<entities, generation, handleMap, unseen, repeated>>
  BY <1>0 DEF RemoveEntity, Ghosts
<1>2. n \in Net /\ nets[n] # None /\ nets[n].guid = g
  BY <1>0, <1>1 DEF IInv, TypeOK, Objects
<1>3. nets'[n] = None /\ \A m \in Net : m # n => nets'[m] = nets[m]
  BY <1>1, <1>2 DEF IInv, TypeOK
<1>4. /\ DOMAIN networkEntities' = DOMAIN networkEntities \ {g}
      /\ \A x \in DOMAIN networkEntities' : networkEntities'[x] = networkEntities[x]
  BY <1>1, Restricting
<1>5. \A x \in DOMAIN networkEntities' : networkEntities[x] # n
  BY <1>2, <1>4 DEF IInv, Objects
<1>7. ~ Current(n)' /\ \A m \in Net : m # n => (Current(m)' <=> Current(m))
  BY <1>0, <1>3, <1>4 DEF Current
<1>8. \A m \in Net : m # call
  BY <1>1, EntityHooksAssumption
<1> QED BY <1>1, <1>2, <1>4, <1>5, <1>7, <1>8, LosingObject

\* ~EntitySync: no animation runs, so that every object is one its guid leads to.
LEMMA EndSessionStep ==
  ASSUME IInv, EndSession
  PROVE  IInv'
<1>1. /\ call = None /\ call' = None
      /\ vtable' = [a \in Address |->
                      IF vtable[a] \in Net /\ nets[vtable[a]].at = a
                      THEN nets[vtable[a]].old ELSE vtable[a]]
      /\ nets' = [n \in Net |-> None]
      /\ DOMAIN networkEntities' = {} /\ DOMAIN handleMap' = {}
      /\ UNCHANGED <<entities, generation, unseen, repeated>>
  BY DEF EndSession, Ghosts
<1>2. \A a \in Address : vtable'[a] = IF vtable[a] \in Net THEN "game" ELSE vtable[a]
  BY <1>1 DEF IInv, Fits, Sound, HooksDoNotStack
<1>3. vtable' \in Table
  BY <1>1, <1>2 DEF IInv, TypeOK, Table
<1>4. \A a \in Address : vtable'[a] \notin Net
  BY <1>2, EntityHooksAssumption
<1>5. \A n \in Net : nets'[n] = None
  BY <1>1
<1>6. \A t \in Slot : entities[t] # None => entities[t].at \in Address
  BY DEF IInv, TypeOK, Entity
<1>7. TypeOK'
  BY <1>1, <1>3 DEF IInv, TypeOK, Table
<1>8. HooksDoNotStack' /\ Objects'
  BY <1>1, <1>5 DEF HooksDoNotStack, Objects
<1>9. Places(entities, vtable)'
  BY <1>1, <1>2, <1>6 DEF IInv, Fits, Places
<1>10. Sound(vtable)'
  BY <1>4 DEF Sound
<1>11. Found(entities, vtable)' /\ Single(entities, vtable)'
  BY <1>1, <1>4, <1>6 DEF Found, Single
<1>12. Resolved(entities)'
  BY <1>1 DEF Resolved
<1> QED BY <1>7, <1>8, <1>9, <1>10, <1>11, <1>12 DEF IInv, Fits

-----------------------------------------------------------------------------

LEMMA StutterStep == ASSUME IInv, UNCHANGED vars PROVE IInv'
BY DEF IInv, TypeOK, HooksDoNotStack, Objects, Fits, Places, Sound, Found, Single, Resolved,
       AtHome, Leads, Current, vars

LEMMA Inductive == Spec => []IInv
<1>1. IInv /\ [Next]_vars => IInv'
  <2> SUFFICES ASSUME IInv, [Next]_vars PROVE IInv'
    OBVIOUS
  <2>1. ASSUME NEW s \in Slot, NEW a \in Address, Spawn(s, a) PROVE IInv'
    BY <2>1, SpawnStep
  <2>2. ASSUME NEW s \in Slot, AddExisting(s) PROVE IInv'
    BY <2>2, AddExistingStep
  <2>3. ASSUME NEW s \in Slot, Terminate(s) PROVE IInv'
    BY <2>3, TerminateStep
  <2>4. ASSUME NEW s \in Slot, ScriptTerminate(s) PROVE IInv'
    BY <2>4, ScriptTerminateStep
  <2>5. ASSUME NEW s \in Slot, BeginAnimation(s) PROVE IInv'
    BY <2>5, BeginAnimationStep
  <2>6. CASE EndAnimation
    BY <2>6, EndAnimationStep
  <2>7. ASSUME NEW g \in Guid, RemoveEntity(g) PROVE IInv'
    BY <2>7, RemoveEntityStep
  <2>8. CASE EndSession
    BY <2>8, EndSessionStep
  <2>9. CASE UNCHANGED vars
    BY <2>9, StutterStep
  <2> QED BY <2>1, <2>2, <2>3, <2>4, <2>5, <2>6, <2>7, <2>8, <2>9 DEF Next
<1> QED BY <1>1, InitInv, PTL DEF Spec

-----------------------------------------------------------------------------
(* The results *)

\* Whatever ends first, the object, the entity or the session, in any order and however
\* often: no behavior is left with the table of an object that is gone, hooks do not
\* stack, and the two maps are typed (VtableHook, NetworkEntity, on_entity_deleted).
THEOREM HooksAreSoundAlways == Spec => []HooksAreSound
<1>1. IInv => HooksAreSound
  BY DEF IInv, Fits, Sound, HooksAreSound, NoDanglingVtable
<1> QED BY <1>1, Inductive, PTL

\* start_animation_hook never dereferences nothing: the handle of a hooked entity leads,
\* through both maps, to the object whose table called it.
THEOREM HookFindsEntityAlways == Spec => []HookFindsEntity
<1>1. IInv => HookFindsEntity
  <2> SUFFICES ASSUME IInv, call = None \/ ~repeated, NEW s \in Slot, entities[s] # None,
                      vtable[entities[s].at] \in Net
               PROVE  Lookup(HandleOf(s)) = vtable[entities[s].at]
    BY DEF HookFindsEntity
  <2> DEFINE n == vtable[entities[s].at]
  <2>1. entities[s].at \in Address
    BY DEF IInv, TypeOK, Entity
  <2>2. nets[n] # None
    BY <2>1 DEF IInv, Fits, Sound
  <2>3. Current(n)
    BY <2>2, EntityHooksAssumption DEF IInv, Objects, Fits, Single
  <2>4. Leads(HandleOf(s), nets[n].guid)
    BY <2>3 DEF IInv, Fits, Found, HandleOf
  <2> HIDE DEF n
  <2>5. Lookup(HandleOf(s)) = n
    BY <2>3, <2>4 DEF Lookup, Mapped, Leads, Current
  <2> QED BY <2>5 DEF n
<1> QED BY <1>1, Inductive, PTL

\* What a packet says of one entity is never written into another, though get_by_handle
\* compares no generations, as long as every end is seen and no guid is given twice.
THEOREM ResolvesToItsOwnAlways == Spec => []ResolvesToItsOwn
<1>1. IInv => ResolvesToItsOwn
  BY DEF IInv, Fits, Resolved, AtHome, ResolvesToItsOwn, HandleOf
<1> QED BY <1>1, Inductive, PTL
=============================================================================
