----------------------------- MODULE Interfaces -----------------------------
(***************************************************************************)
(* Interfaces, on top of TypeRegistry: the ids that a runtime gives to the *)
(* names of interfaces, the tables of vtables that init_type callbacks     *)
(* pack while the runtime is locked, and the calls that look for what the  *)
(* class of an object implements, by name or, with y_GET_INSTANCE_VTABLE,  *)
(* through a static variable that keeps the id.                            *)
(*                                                                         *)
(* y_Runtime_get_interface_id looks into the hash without the lock.  If    *)
(* another thread is changing the hash it may miss a name that is there.   *)
(***************************************************************************)
EXTENDS TypeRegistry, SequencesExt

CONSTANTS
  Names,    \* the names of interfaces
  Specs     \* the y_InterfaceSpecs of each class, as a sequence of names

ASSUME InterfacesAssumption ==
  /\ Specs \in [Types -> Seq(Names)]
  /\ NULL \notin Names

VARIABLES
  interface_ids,   \* the runtime's hash of ids, 0 for names without one
  interface_size,  \* the id given last
  interfaces,      \* the table of each class struct
  iface_id,        \* the static variable that keeps the id of each name
  lookup           \* the lookup that each thread is in

idVars == <<interface_ids, interface_size>>
interfaceVars == <<idVars, interfaces, iface_id, lookup>>
allVars == <<vars, interfaceVars>>

(* A vtable is what a class provides for a name.  A class struct without   *)
(* interfaces has the empty table.                                         *)
Vtables == Types \X Names
NoLookup == [step |-> "idle", struct |-> NULL, name |-> NULL,
             static |-> FALSE, id |-> 0, result |-> NULL]

InterfacesInit ==
  /\ Init
  /\ interface_ids = [n \in Names |-> 0]
  /\ interface_size = 0
  /\ interfaces = [s \in Structs |-> <<>>]
  /\ iface_id = [n \in Names |-> 0]
  /\ lookup = [t \in Threads |-> NoLookup]

-----------------------------------------------------------------------------
(* Ids and tables.  These run while the runtime is locked. *)

(* Mutant: a name that already has an id gets another one.                 *)
GetIdAgain(h, n) ==
  [ids |-> [h.ids EXCEPT ![n] = h.size + 1], size |-> h.size + 1]

y_Runtime_get_interface_id_nolock(h, n) ==
  IF h.ids[n] # 0 THEN h
  ELSE [ids |-> [h.ids EXCEPT ![n] = h.size + 1], size |-> h.size + 1]

(* Mutant: the table has no room for the largest id.                       *)
PackOffByOne(h, c) ==
  LET id(n) == h.ids[n]
      max == CHOOSE i \in {id(n) : n \in ToSet(Specs[c])} :
               \A n \in ToSet(Specs[c]) : id(n) <= i
  IN [i \in 1..max - 1 |->
        IF \E n \in ToSet(Specs[c]) : id(n) = i
        THEN <<c, CHOOSE n \in ToSet(Specs[c]) : id(n) = i>> ELSE NULL]

(* The table ends at the largest id among the names.                       *)
y_Runtime_pack_interfaces(h, c) ==
  LET id(n) == h.ids[n]
      max == CHOOSE i \in {id(n) : n \in ToSet(Specs[c])} :
               \A n \in ToSet(Specs[c]) : id(n) <= i
  IN [i \in 1..max |->
        IF \E n \in ToSet(Specs[c]) : id(n) = i
        THEN <<c, CHOOSE n \in ToSet(Specs[c]) : id(n) = i>> ELSE NULL]

(* The struct begins as a copy of the superclass's, with its table; the    *)
(* init_type of a class that implements interfaces then packs its own.     *)
InitType(t) ==
  /\ y_Runtime_init_type(t)
  /\ LET f == Top(t)
         h == FoldLeft(y_Runtime_get_interface_id_nolock,
                       [ids |-> interface_ids, size |-> interface_size],
                       Specs[f.type])
         s == type_location'[f.type]
     IN IF type_location[f.type] # NULL THEN UNCHANGED <<idVars, interfaces>>
        ELSE /\ interface_ids' = h.ids
             /\ interface_size' = h.size
             /\ interfaces' = [interfaces EXCEPT ![s] =
                  IF Specs[f.type] # <<>> THEN y_Runtime_pack_interfaces(h, f.type)
                  ELSE IF f.super # NULL THEN interfaces[f.super] ELSE <<>>]
  /\ UNCHANGED <<iface_id, lookup>>

(* The ids and the tables are in the global pool, the static variables are *)
(* not.  Those who use them have one runtime in their life, unless         *)
(* Freedoms has "stale_id".                                                *)
DestroyIds ==
  /\ DestroyRuntime
  /\ \A t \in Threads : lookup[t] = NoLookup
  /\ (\A n \in Names : iface_id[n] = 0) \/ "stale_id" \in Freedoms
  /\ interface_ids' = [n \in Names |-> 0]
  /\ interface_size' = 0
  /\ interfaces' = [s \in Structs |-> <<>>]
  /\ UNCHANGED <<iface_id, lookup>>

-----------------------------------------------------------------------------
(* Lookups. *)

LookupAt(t, step) == lookup[t].step = step
LookupGoto(t, l) == lookup' = [lookup EXCEPT ![t] = l]

(* An object of class c is asked for interface n, by name or with the id   *)
(* that is in the static variable.                                         *)
CallLookup(t, c, n, static) ==
  /\ Idle(t)
  /\ LookupAt(t, "idle")
  /\ calls[t] < MaxCalls
  /\ type_location[c] # NULL
  /\ LookupGoto(t,
       [NoLookup EXCEPT !.struct = type_location[c], !.name = n,
          !.static = static,
          !.step = IF static /\ iface_id[n] # 0 THEN "get" ELSE "find"])
  /\ calls' = [calls EXCEPT ![t] = @ + 1]
  /\ UNCHANGED <<classVars, mutex, stack, idVars, interfaces, iface_id>>

(* The unlocked look into the hash.                                        *)
FindId(t) ==
  /\ LookupAt(t, "find")
  /\ LET id == interface_ids[lookup[t].name] IN
     \/ /\ id # 0
        /\ LookupGoto(t, [lookup[t] EXCEPT !.step = "keep", !.id = id])
     \/ /\ id = 0 \/ mutex # NULL
        /\ LookupGoto(t, [lookup[t] EXCEPT !.step = "lock"])
  /\ UNCHANGED <<vars, idVars, interfaces, iface_id>>

(* The locked one, which looks again.                                      *)
AddId(t) ==
  /\ LookupAt(t, "lock")
  /\ mutex = NULL
  /\ mutex' = t
  /\ LET n == lookup[t].name
         h == y_Runtime_get_interface_id_nolock(
                [ids |-> interface_ids, size |-> interface_size], n)
     IN /\ interface_ids' = h.ids
        /\ interface_size' = h.size
        /\ LookupGoto(t, [lookup[t] EXCEPT !.step = "unlock", !.id = h.ids[n]])
  /\ UNCHANGED <<classVars, stack, calls, interfaces, iface_id>>

(* Mutant: the runtime stays locked.                                       *)
UnlockIdSkipped(t) ==
  /\ LookupAt(t, "unlock")
  /\ LookupGoto(t, [lookup[t] EXCEPT !.step = "keep"])
  /\ UNCHANGED <<vars, idVars, interfaces, iface_id>>

UnlockId(t) ==
  /\ LookupAt(t, "unlock")
  /\ mutex' = NULL
  /\ LookupGoto(t, [lookup[t] EXCEPT !.step = "keep"])
  /\ UNCHANGED <<classVars, stack, calls, idVars, interfaces, iface_id>>

(* The macro keeps the id in the static variable, which it then reads.     *)
KeepId(t) ==
  /\ LookupAt(t, "keep")
  /\ LookupGoto(t, [lookup[t] EXCEPT !.step = "get"])
  /\ iface_id' = IF lookup[t].static
                 THEN [iface_id EXCEPT ![lookup[t].name] = lookup[t].id]
                 ELSE iface_id
  /\ UNCHANGED <<vars, idVars, interfaces>>

y_get_implementation(t) ==
  /\ LookupAt(t, "get")
  /\ LET l == lookup[t]
         id == IF l.static THEN iface_id[l.name] ELSE l.id
         vtables == interfaces[l.struct]
     IN LookupGoto(t, [l EXCEPT !.step = "return",
                         !.result = IF id <= Len(vtables) THEN vtables[id] ELSE NULL])
  /\ UNCHANGED <<vars, idVars, interfaces, iface_id>>

ReturnVtable(t) ==
  /\ LookupAt(t, "return")
  /\ LookupGoto(t, NoLookup)
  /\ UNCHANGED <<vars, idVars, interfaces, iface_id>>

-----------------------------------------------------------------------------
LookupStep(t) ==
  \/ FindId(t) \/ AddId(t) \/ UnlockId(t) \/ KeepId(t)
  \/ y_get_implementation(t) \/ ReturnVtable(t)

(* The steps of TypeRegistry that have nothing to do with interfaces.      *)
TypeStep(t) ==
  /\ \/ Check(t) \/ Unlock(t) \/ Store(t) \/ Return(t)
     \/ LookupAt(t, "idle") /\ \E c \in Types : Call(t, c)
  /\ UNCHANGED interfaceVars

InterfacesNext ==
  \/ \E t \in Threads :
       \/ InitType(t) \/ TypeStep(t) \/ LookupStep(t)
       \/ \E c \in Types, n \in Names, static \in BOOLEAN :
            CallLookup(t, c, n, static)
  \/ DestroyIds
  \/ /\ Rest
     /\ \A t \in Threads : LookupAt(t, "idle")
     /\ UNCHANGED interfaceVars

InterfacesSpec == InterfacesInit /\ [][InterfacesNext]_allVars
InterfacesFairSpec ==
  /\ InterfacesSpec
  /\ \A t \in Threads :
       WF_allVars(InitType(t) \/ (TypeStep(t) /\ ~Idle(t)) \/ LookupStep(t))

-----------------------------------------------------------------------------
(* Properties. *)

(* test_interface.c: ids are "always greater than 0" and "differ for       *)
(* different names".  The hash, the counter and what the lookups carry     *)
(* agree, whoever gave the id and whichever look missed it.                *)
IdsAgree ==
  /\ interface_ids \in [Names -> 0..interface_size]
  /\ interface_size = Cardinality({n \in Names : interface_ids[n] # 0})
  /\ \A m, n \in Names :
       interface_ids[m] = interface_ids[n] /\ m # n => interface_ids[m] = 0
  /\ \A t \in Threads :
       lookup[t].id # 0 => lookup[t].id = interface_ids[lookup[t].name]

(* The interfaces of a class are its own, or else its superclass's.        *)
Provided ==
  LET provider[c \in Types] ==
        IF Specs[c] # <<>> \/ Super[c] = NULL THEN c ELSE provider[Super[c]]
  IN [c \in Types |-> {<<provider[c], n>> : n \in ToSet(Specs[provider[c]])}]

(* Object.h: "A pointer to the instance's implementation of the specified  *)
(* interface, or NULL if not implemented", for ids given before and after  *)
(* the class was made, and in every runtime.                               *)
RightVtable ==
  \A t \in Threads :
    LET l == lookup[t]
        implemented == {v \in Provided[struct[l.struct].type] : v[2] = l.name}
    IN LookupAt(t, "return") =>
         IF implemented = {} THEN l.result = NULL ELSE l.result \in implemented

(* Lookups take the lock that the makers of classes hold; they all return. *)
LookupsReturn ==
  \A t \in Threads : ~LookupAt(t, "idle") ~> LookupAt(t, "idle")
=============================================================================
