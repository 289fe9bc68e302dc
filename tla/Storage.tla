------------------------------ MODULE Storage -------------------------------
(***************************************************************************)
(* A process that uses a store and dies at any point, as the examples of   *)
(* examples/minimal_cluster/storage_example.c do: each opens one of the    *)
(* two stores, uses it and closes it.  The stores share neither memory nor *)
(* files, so a behaviour that uses both says nothing that the behaviours   *)
(* of each do not; which one is used is chosen at the start.               *)
(***************************************************************************)
EXTENDS MetadataStore, Hdf5Index

VARIABLE example   \* the store this process uses

storageVars == <<metaVars, h5Vars, example>>

StorageInit == MetaInit /\ H5Init /\ example \in {"metadata", "hdf5"}

StorageNext ==
  /\ UNCHANGED example
  /\ \/ example = "metadata" /\ (MetaNext \/ MetaCrash) /\ UNCHANGED h5Vars
     \/ example = "hdf5" /\ H5Next /\ UNCHANGED metaVars

StorageSpec == StorageInit /\ [][StorageNext]_storageVars
=============================================================================
