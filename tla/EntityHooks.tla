---------------------------- MODULE EntityHooks ----------------------------
(***************************************************************************)
(* The hooks that EntitySync puts on the game's entities.  A NetworkEntity *)
(* replaces the vtable of one behavior, in memory that belongs to the      *)
(* game; the method it puts there finds its way back by the entity's       *)
(* handle, through m_handle_map and m_network_entities, and dereferences   *)
(* what it finds.  The game frees entities, uses their slots and addresses *)
(* again, and may end one while a method of it is running.                 *)
(*                                                                         *)
(* A handle is a slot of the entity list and a generation; get_by_handle   *)
(* looks at the slot only.  The player's own hook is left out.             *)
(***************************************************************************)
EXTENDS Naturals, Functions, FiniteSets

CONSTANTS Slot,              \* of the game's entity list
          Generations,       \* generations of a slot before they repeat (256)
          Address,           \* of behaviors
          Guid,              \* numbers of networked entities
          Net,               \* NetworkEntity objects
          None

Handle == Slot \X (0 .. Generations - 1)
Entity == [generation : 0 .. Generations - 1, at : Address]
Object == [guid : Guid, handle : Handle, at : Address, old : {"game"} \cup Net]

ASSUME EntityHooksAssumption ==
  /\ Generations \in Nat \ {0}
  /\ None \notin Net \cup Guid \cup Address \cup Entity \cup Object
  /\ {"free", "game"} \cap Net = {}

VARIABLES
  entities,         \* the game's entity list: what is in each slot
  generation,       \* the generation of the last entity of each slot
  vtable,           \* of the behavior at each address: the game's or a hook's
  nets,             \* the NetworkEntity objects that exist
  networkEntities,  \* EntitySync::m_network_entities
  handleMap,        \* EntitySync::m_handle_map
  call,             \* the object a running start_animation_hook holds on to
  unseen,           \* ghost: an entity has ended past the terminate hook
  repeated          \* ghost: a guid in use has been given to a second entity

vars == <<entities, generation, vtable, nets, networkEntities, handleMap, call,
          unseen, repeated>>

Maps == <<networkEntities, handleMap>>
Ghosts == <<unseen, repeated>>

TypeOK == /\ entities \in [Slot -> Entity \cup {None}]
          /\ generation \in [Slot -> 0 .. Generations - 1]
          /\ vtable \in [Address -> {"free", "game"} \cup Net]
          /\ nets \in [Net -> Object \cup {None}]
          /\ DOMAIN networkEntities \subseteq Guid
          /\ \A g \in DOMAIN networkEntities :
               networkEntities[g] \in Net /\ nets[networkEntities[g]] # None
          /\ DOMAIN handleMap \subseteq Handle
          /\ \A h \in DOMAIN handleMap : handleMap[h] \in Guid
          /\ call \in Net \cup {None}
          /\ {unseen, repeated} \subseteq BOOLEAN

Init == /\ entities = [s \in Slot |-> None]
        /\ generation = [s \in Slot |-> 0]
        /\ vtable = [a \in Address |-> "free"]
        /\ nets = [n \in Net |-> None]
        /\ networkEntities = [g \in {} |-> None]
        /\ handleMap = [h \in {} |-> None]
        /\ call = None
        /\ unseen = FALSE /\ repeated = FALSE

-----------------------------------------------------------------------------
(* VtableHook and NetworkEntity *)

Put(f, x, y) == [z \in DOMAIN f \cup {x} |-> IF z = x THEN y ELSE f[z]]

HandleOf(s) == <<s, entities[s].generation>>
Mapped(h) == h \in DOMAIN handleMap /\ handleMap[h] \in DOMAIN networkEntities
Lookup(h) == IF Mapped(h) THEN networkEntities[handleMap[h]] ELSE None

\* VtableHook::remove(): only where our table is still in place.
Removed(table, n) == IF table[nets[n].at] = n
                     THEN [table EXCEPT ![nets[n].at] = nets[n].old]
                     ELSE table

\* A shared_ptr in start_animation_hook keeps the object it has found.
Held(n) == n = call

\* The map lets go of an object, which is destroyed if nobody holds it.
Released(n, table) == IF n = None \/ Held(n) THEN table ELSE Removed(table, n)
Without(n) == IF n = None \/ Held(n) THEN nets ELSE [nets EXCEPT ![n] = None]

Old(g) == IF g \in DOMAIN networkEntities THEN networkEntities[g] ELSE None

\* add_entity(): the object of the guid is kept if its handle leads to this entity,
\* that is to this slot; otherwise there is a new one, which hooks the behavior.
AddEntity(s, e, g, table) ==
  LET h == <<s, e.generation>>
      o == Old(g)
  IN  /\ handleMap' = Put(handleMap, h, g)
      /\ IF o # None /\ nets[o].handle[1] = s
         THEN /\ nets' = [nets EXCEPT ![o].handle = h]
              /\ vtable' = table
              /\ UNCHANGED networkEntities
         ELSE \E n \in Net :
              /\ nets[n] = None
              /\ LET restored == Released(o, table)
                 IN  /\ vtable' = [restored EXCEPT ![e.at] = n]
                     /\ nets' = [Without(o) EXCEPT
                                   ![n] = [guid |-> g, handle |-> h, at |-> e.at,
                                           old |-> restored[e.at]]]
              /\ networkEntities' = Put(networkEntities, g, n)

Repeats(g) == repeated' = (repeated \/ g \in Range(handleMap) \cup DOMAIN networkEntities)

-----------------------------------------------------------------------------
(* What the game does *)

\* An entity appears.  It is networked at once if a hook or a packet says so.
Spawn(s, a) ==
  /\ entities[s] = None /\ vtable[a] = "free"
  /\ LET e == [generation |-> (generation[s] + 1) % Generations, at |-> a]
         table == [vtable EXCEPT ![a] = "game"]
     IN  /\ entities' = [entities EXCEPT ![s] = e]
         /\ generation' = [generation EXCEPT ![s] = e.generation]
         /\ \/ \E g \in Guid : AddEntity(s, e, g, table) /\ Repeats(g)
            \/ vtable' = table /\ UNCHANGED <<nets, Maps, repeated>>
  /\ UNCHANGED <<call, unseen>>

\* Mutant: every entity is added, networked or not.
AddExisting_All(s) ==
  /\ entities[s] # None /\ call = None
  /\ \E g \in Guid : AddEntity(s, entities[s], g, vtable) /\ Repeats(g)
  /\ UNCHANGED <<entities, generation, call, unseen>>

\* A new master client adds what is not in the map yet (on_enter_server).
AddExisting(s) ==
  /\ entities[s] # None /\ call = None
  /\ HandleOf(s) \notin DOMAIN handleMap
  /\ \E g \in Guid : AddEntity(s, entities[s], g, vtable) /\ Repeats(g)
  /\ UNCHANGED <<entities, generation, call, unseen>>

Erase(n) == networkEntities' = Restrict(networkEntities,
                                 DOMAIN networkEntities \ {nets[n].guid})

\* Mutant: the handle is erased and the object is kept.
OnEntityDeleted_Keeps(h) ==
  /\ handleMap' = Restrict(handleMap, DOMAIN handleMap \ {h})
  /\ UNCHANGED <<nets, networkEntities>>

OnEntityDeleted(h) ==
  LET n == Lookup(h)
  IN  IF n = None THEN UNCHANGED <<nets, Maps>>
      ELSE /\ handleMap' = Restrict(handleMap, DOMAIN handleMap \ {h})
           /\ Erase(n)
           /\ nets' = Without(n)

\* The terminate hook runs first; then the entity is gone and its memory is free.
Terminate(s) ==
  /\ entities[s] # None
  /\ OnEntityDeleted(HandleOf(s))
  /\ vtable' = [Released(Lookup(HandleOf(s)), vtable) EXCEPT ![entities[s].at] = "free"]
  /\ entities' = [entities EXCEPT ![s] = None]
  /\ UNCHANGED <<generation, call, Ghosts>>

\* "todo: hook the other version of the terminate function (the script function)"
ScriptTerminate(s) ==
  /\ entities[s] # None
  /\ unseen' = TRUE
  /\ vtable' = [vtable EXCEPT ![entities[s].at] = "free"]
  /\ entities' = [entities EXCEPT ![s] = None]
  /\ UNCHANGED <<generation, nets, Maps, call, repeated>>

\* The game starts an animation of an entity that is hooked.
BeginAnimation(s) ==
  /\ call = None /\ entities[s] # None
  /\ vtable[entities[s].at] \in Net
  /\ call' = Lookup(HandleOf(s))
  /\ UNCHANGED <<entities, generation, vtable, nets, Maps, Ghosts>>

EndAnimation ==
  /\ call # None
  /\ call' = None
  /\ IF call \in {networkEntities[g] : g \in DOMAIN networkEntities}
     THEN UNCHANGED <<vtable, nets>>
     ELSE vtable' = Removed(vtable, call) /\ nets' = [nets EXCEPT ![call] = None]
  /\ UNCHANGED <<entities, generation, Maps, Ghosts>>

-----------------------------------------------------------------------------
(* What packets and the end of a session do *)

\* Mutant: somebody else still holds the object.
RemoveEntity_Held(g) ==
  /\ g \in DOMAIN networkEntities /\ call = None
  /\ networkEntities' = Restrict(networkEntities, DOMAIN networkEntities \ {g})
  /\ UNCHANGED <<entities, generation, vtable, nets, handleMap, call, Ghosts>>

\* DESTROY_ENTITY: remove_entity() erases the guid and leaves the handle.
RemoveEntity(g) ==
  /\ g \in DOMAIN networkEntities /\ call = None
  /\ vtable' = Removed(vtable, networkEntities[g])
  /\ nets' = [nets EXCEPT ![networkEntities[g]] = None]
  /\ networkEntities' = Restrict(networkEntities, DOMAIN networkEntities \ {g})
  /\ UNCHANGED <<entities, generation, handleMap, call, Ghosts>>

\* ~EntitySync destroys every object; each takes out its own table.
EndSession ==
  /\ call = None
  /\ vtable' = [a \in Address |->
                  IF vtable[a] \in Net /\ nets[vtable[a]].at = a
                  THEN nets[vtable[a]].old ELSE vtable[a]]
  /\ nets' = [n \in Net |-> None]
  /\ networkEntities' = [g \in {} |-> None]
  /\ handleMap' = [h \in {} |-> None]
  /\ UNCHANGED <<entities, generation, call, Ghosts>>

-----------------------------------------------------------------------------

Next == \/ \E s \in Slot : \/ \E a \in Address : Spawn(s, a)
                           \/ AddExisting(s) \/ Terminate(s) \/ ScriptTerminate(s)
                           \/ BeginAnimation(s)
        \/ EndAnimation
        \/ \E g \in Guid : RemoveEntity(g)
        \/ EndSession

Spec == Init /\ [][Next]_vars

-----------------------------------------------------------------------------
(* Properties *)

\* No behavior is left with the table of an object that is gone.
NoDanglingVtable ==
  \A a \in Address : vtable[a] \in Net =>
     nets[vtable[a]] # None /\ nets[vtable[a]].at = a

\* Beneath a hook is the game's own table and not another hook, so that taking hooks
\* out in any order gives the game its table back.
HooksDoNotStack == \A n \in Net : nets[n] # None => nets[n].old = "game"

\* Whatever ends first, the object, the entity or the session, the tables and the maps
\* agree on what is hooked.
HooksAreSound == TypeOK /\ NoDanglingVtable /\ HooksDoNotStack

\* The hooked method finds the object whose table called it: start_animation_hook
\* dereferences what the two maps give it without a test.  Once a guid has been given to
\* a second entity this is claimed only outside of a running animation.
HookFindsEntity ==
  call = None \/ ~repeated =>
    \A s \in Slot : entities[s] # None /\ vtable[entities[s].at] \in Net
                      => Lookup(HandleOf(s)) = vtable[entities[s].at]

\* An object's handle leads to its own entity or to none, though generations are not
\* compared: what a packet says of one enemy is never written into another.  Claimed
\* while every end of an entity is seen and no guid is given twice.
ResolvesToItsOwn ==
  ~unseen /\ ~repeated =>
    \A g \in DOMAIN networkEntities :
      LET h == nets[networkEntities[g]].handle
      IN  entities[h[1]] # None => HandleOf(h[1]) = h
=============================================================================
