-------------------------------- MODULE MCFs --------------------------------
(* Small instances of the file system for TLC.                             *)
EXTENDS FsTable

(* A descriptor for each file that can be open, and one that none has.     *)
Descriptors == 0 .. 3 + Cardinality(Names)

(* The same and -1, which guests pass when they ignore that an open failed. *)
AnyDescriptors == {BAD_FD} \cup Descriptors

=============================================================================
