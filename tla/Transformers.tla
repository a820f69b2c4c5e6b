----------------------------- MODULE Transformers -----------------------------
(***************************************************************************)
(* What is kept of an object of the API server on its way to the           *)
(* subscribers: the transformers of the informers (collectors/             *)
(* transformers.go) drop fields before the object is stored, the           *)
(* objFieldsHandler of the collectors drop more before it is sent.         *)
(*                                                                         *)
(* An object is a function from the names of its fields to values; 0 is    *)
(* the zero value of a field.  Fields that are treated alike (the rest of  *)
(* a spec, the rest of a status) are one field.                            *)
(***************************************************************************)
EXTENDS Naturals

Types == {"Pod", "PartialObjectMetadata", "Service", "EndpointSlice"}

MetaFields ==
  {"generateName", "labels", "ownerReferences", "creationTimestamp", "resourceVersion",
   "annotations", "managedFields", "finalizers", "deletionTimestamp", "generation"}

StatusFields(type) == IF type = "Pod" THEN {"podIP", "otherStatus"} ELSE {}

BodyFields(type) ==
  CASE type = "Pod" -> {"nodeName", "otherSpec", "podIP", "otherStatus"}
    [] type = "PartialObjectMetadata" -> {}
    [] type = "Service" -> {"selector", "otherSpec", "otherStatus"}
    [] type = "EndpointSlice" -> {"endpoints", "ports"}

Fields(type) == MetaFields \cup BodyFields(type)

\* Mutant: the resourceVersion is dropped too.
FilteredOutWithVersion ==
  {"annotations", "managedFields", "finalizers", "deletionTimestamp", "generation",
   "resourceVersion"}

\* filterOutMetaFields.
FilteredOut == {"annotations", "managedFields", "finalizers", "deletionTimestamp", "generation"}

\* The transformer of each type keeps the rest of the metadata and, of the
\* object itself, what the collectors read.
Dropped(type) ==
  FilteredOut \cup
  CASE type = "Pod" -> {"otherSpec", "otherStatus"}
    [] type = "PartialObjectMetadata" -> {}
    [] type = "Service" -> {"otherSpec", "otherStatus"}
    [] type = "EndpointSlice" -> {"ports"}

Transform(type, obj) == [f \in DOMAIN obj |-> IF f \in Dropped(type) THEN 0 ELSE obj[f]]

\* Mutant: the list is not adapted to the resourceVersion that is kept now.
MetaUnusedBefore == {"creationTimestamp", "ownerReferences"}

MetaUnused == {"creationTimestamp", "ownerReferences", "resourceVersion"}

\* The fields of a message: the metadata left and, for a pod, the status.
\* Endpoint slices are not sent.
SentFields(type) ==
  IF type = "EndpointSlice" THEN {} ELSE (MetaFields \ MetaUnused) \cup StatusFields(type)

\* What is sent, and hashed, of a stored object.
Message(type, obj) == [f \in SentFields(type) |-> obj[f]]
=============================================================================
