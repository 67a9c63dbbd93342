------------------------------- MODULE Layers -------------------------------
(***************************************************************************)
(* The layer table of an instance: instance->layer in src/local.h and the  *)
(* functions of src/layer.c that are called.                               *)
(*                                                                         *)
(* No index is ever freed, so every layer has generation zero and its      *)
(* handle is its index.  The members of a layer are left out: a layer      *)
(* never gets one (see EnterLayerFaults).                                  *)
(***************************************************************************)
EXTENDS EntityTable

CONSTANT MaxLayers      (* bound: layers an application creates            *)

ASSUME LayersAssumption == MaxLayers \in Nat

LayerIndex == 0 .. MaxLayers - 1

(* ALIAS_ECS_INVALID_LAYER: the entities go to no layer.                   *)
NoLayer == -1

VARIABLES
  layerLength,     (* layer.length                                          *)
  layerCapacity,   (* layer.capacity                                        *)
  layerGeneration, (* layer.generation: zero, or lost                       *)
  layerKind        (* layer.data: is there a maximum, and room for it?      *)

layerVars == << layerLength, layerCapacity, layerGeneration, layerKind >>

(* "open" has no maximum; "capped" has one and its members' array; the     *)
(* array of a "starved" one could not be had.                              *)
Kind == { "open", "capped", "starved" }

LayerMustGrow == layerLength + 1 > layerCapacity

(* alias_ecs_create_layer; the failure to reserve the maximum is ignored.  *)
CreateLayer(kind) ==
  /\ kind = "starved" => "layer_capacity" \in Failing
  /\ layerLength' = layerLength + 1
  /\ layerCapacity' =
       IF LayerMustGrow THEN (layerLength + 1) + (layerLength + 1) \div 2
                        ELSE layerCapacity
  /\ layerKind' = [ layerKind EXCEPT ![layerLength] = kind ]
  /\ UNCHANGED layerGeneration

LoseLayers(array, junk) ==
  [ l \in LayerIndex |-> IF l < layerCapacity THEN junk ELSE array[l] ]

(* One of the two arrays cannot grow, and is lost.                         *)
CreateLayerFails ==
  /\ "layer_table" \in Failing
  /\ LayerMustGrow
  /\ layerLength' = layerLength + 1
  /\ \/ /\ layerGeneration' = LoseLayers(layerGeneration, Junk)
        /\ UNCHANGED layerKind
     \/ /\ layerKind' = LoseLayers(layerKind, "lost")
        /\ UNCHANGED layerGeneration
  /\ UNCHANGED layerCapacity

(* The handles an application may hold, and one it may not.                *)
LayerHandle == { l \in LayerIndex : l < layerCapacity /\ l < layerLength }
                 \cup { layerLength }

(* alias_ecs_validate_layer_handle, of a handle of generation zero.        *)
LayerValid(l) == l < layerLength
LayerReadFaults(l) == l < layerLength /\ layerGeneration[l] = Junk

(* alias_ecs_set_entity_layer.  Layer 0 stands for no layer.  For another  *)
(* one, "pop" takes the place of "push": the length of an empty list wraps *)
(* below zero and the entity is written outside the list.                  *)
EnterLayer(l) == l \in { NoLayer, 0 }
EnterLayerFaults(l) == l \notin { NoLayer, 0 } /\ layerKind[l] # "starved"
EnterLayerRefused(l) == l \notin { NoLayer, 0 } /\ layerKind[l] = "starved"
EnterLayerFails(l) ==
  /\ "layer_members" \in Failing
  /\ l \notin { NoLayer, 0 }
  /\ layerKind[l] \in { "open", "capped" }

LayersInit ==
  /\ layerLength = 0
  /\ layerCapacity = 0
  /\ layerGeneration = [ l \in LayerIndex |-> 0 ]
  /\ layerKind = [ l \in LayerIndex |-> "open" ]

LayersTypeOK ==
  /\ layerLength \in Nat
  /\ layerCapacity \in Nat
  /\ layerGeneration \in [ LayerIndex -> { 0, Junk } ]
  /\ layerKind \in [ LayerIndex -> Kind \cup { "lost" } ]

=============================================================================
