------------------------------- MODULE FsTable ------------------------------
(***************************************************************************)
(* The file system of source/host/fs.c implements FileTable.               *)
(***************************************************************************)
EXTENDS Fs

(* What shows of a file, by its name, and of an open file, by its          *)
(* descriptor.                                                             *)
View(f) ==
  [data |-> f.data, regular |-> f.kind = "REGULAR", read |-> can_read(f), write |-> can_write(f)]
Place(f) == [name |-> f.name, pos |-> f.pos]

FilesOf(fs) ==
  [n \in {fs[i].name : i \in DOMAIN fs} |->
     View(fs[CHOOSE i \in DOMAIN fs : fs[i].name = n])]
TableOf(fs) ==
  [fd \in {fs[i].fd : i \in DOMAIN fs} \ {BAD_FD} |->
     Place(fs[CHOOSE i \in DOMAIN fs : fs[i].fd = fd])]

(* The list of files, searched from the front, is a table of descriptors   *)
(* over named files: its order and the positions of closed files do not    *)
(* show (by_name, by_fd of fs.c).                                          *)
Table == INSTANCE FileTable WITH files <- FilesOf(files), table <- TableOf(files)

ImplementsTable == Table!Spec

=============================================================================
