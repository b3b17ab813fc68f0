---------------------------- MODULE FreshObjects ----------------------------
(***************************************************************************)
(* What code that builds a graph asks of the object system: an unused      *)
(* address for each object, a new symbol object for each call of Sym().    *)
(* Nothing is ever freed.                                                  *)
(***************************************************************************)
EXTENDS SlottedObjects

(* Binaries and strings have no slots. *)
Binary(class) == Object("binary", class, 0, 0, NewSlots(0))

Fresh(heap) == CHOOSE p \in Ptrs : heap[p] = NoObject

(* Bounds: an address is left, and a symbol object with the name. *)
HasRoom(heap) == \E p \in Ptrs : heap[p] = NoObject

HasSymbol(name, used) == \E s \in Symbols \ used : NameOf[s] = name

FreshSymbol(name, used) == CHOOSE s \in Symbols \ used : NameOf[s] = name
=============================================================================
